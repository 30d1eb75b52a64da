---------------------------- MODULE OptimizeProofs ----------------------------
(***************************************************************************)
(* Proofs about Optimize, for every set of fan ranges, every step, number  *)
(* of reads and set of temperatures: success is measured, a fan that quiet *)
(* restored has the speed it had and is manual, thermal never leaves it    *)
(* slower, and its loop is bounded where the fan can reach full speed.     *)
(***************************************************************************)
EXTENDS Optimize, TLAPS

InRange(v) == v \in range.min..range.max

\* Everything that is written is in the range.
LEMMA ClampInRange ==
    ASSUME TypeOK, NEW v \in Int
    PROVE  InRange(ClampFan(v)) /\ ClampFan(v) \in 0..Full
  <1>1. range.min \in 0..Full /\ range.max \in 0..Full /\ range.min <= range.max
    BY OptimizeAssumption DEF TypeOK
  <1> QED
    BY <1>1, OptimizeAssumption DEF InRange, ClampFan

\* A value of the range is written as it is.
LEMMA ClampKeeps ==
    ASSUME TypeOK, NEW v \in 0..Full, InRange(v)
    PROVE  ClampFan(v) = v
  <1>1. range.min \in 0..Full /\ range.max \in 0..Full
    BY OptimizeAssumption DEF TypeOK
  <1> QED
    BY <1>1, OptimizeAssumption DEF InRange, ClampFan

\* A step up is a step up, also from a value the range cuts.
LEMMA ClampRaises ==
    ASSUME TypeOK, NEW v \in 0..Full, NEW w \in 0..Full, InRange(w), w <= v
    PROVE  ClampFan(v) >= w
  <1>1. range.min \in 0..Full /\ range.max \in 0..Full
    BY OptimizeAssumption DEF TypeOK
  <1> QED
    BY <1>1, OptimizeAssumption DEF InRange, ClampFan

LEMMA NextFanUp ==
    ASSUME TypeOK
    PROVE  NextFan \in 0..Full /\ base <= NextFan
  <1>1. base \in 0..Full
    BY DEF TypeOK
  <1> QED
    BY <1>1, OptimizeAssumption DEF NextFan

-----------------------------------------------------------------------------
(* The invariant of the runs is inductive.                                 *)

\* The types in two parts: the values, and where the operation is.
Values ==
    /\ range \in Ranges
    /\ fan \in 0..Full
    /\ bound \in Nat
    /\ base \in 0..Full
    /\ temp \in Readings
    /\ left \in 0..Attempts
    /\ safe \in 0..Full
    /\ entry \in 0..Full

Places ==
    /\ op \in {"quiet", "thermal", None}
    /\ pc \in {"idle", "temp", "setpoint", "quiet", "thermal", "write", "verify",
               "over", "restore"}
    /\ answer \in {None, "error", "refused", "unneeded", "done", "unreachable", "reverted"}
    /\ auto \in BOOLEAN
    /\ known \in BOOLEAN
    /\ wrote \in BOOLEAN
    /\ fresh \in BOOLEAN
    /\ landed \in BOOLEAN

LEMMA TypeParts == TypeOK <=> Values /\ Places
  BY DEF TypeOK, Values, Places

LEMMA InitInv == Init => IInv
  <1> SUFFICES ASSUME Init PROVE IInv
    OBVIOUS
  <1>1. range.min \in 0..Full /\ range.max \in 0..Full
    BY OptimizeAssumption DEF Init
  <1>2. TypeOK
    <2>1. range \in Ranges /\ fan \in 0..Full /\ entry \in 0..Full
      BY <1>1, OptimizeAssumption DEF Init
    <2>2. base \in 0..Full /\ bound \in Nat /\ left \in 0..Attempts /\ safe \in 0..Full
      BY OptimizeAssumption DEF Init
    <2>3. temp \in Readings
      BY DEF Init, Readings
    <2> QED
      BY <2>1, <2>2, <2>3 DEF Init, TypeOK
  <1>3. Flow /\ SuccessIsMeasured /\ FanWithinRange
    BY OptimizeAssumption DEF Init, Flow, SuccessIsMeasured, FanWithinRange
  <1> QED
    BY <1>2, <1>3 DEF IInv

\* The starts, the reads before the first write, and the user.
LEMMA ReadsInv ==
    ASSUME IInv,
           \/ OptimizeQuiet
           \/ \E t \in Targets : OptimizeThermal(t)
           \/ \E v \in 0..Full, a \in BOOLEAN : UserMovesFan(v, a)
           \/ \E r \in Ranges : AfterburnerRestarts(r)
           \/ ReadTemp \/ ReadSetpoint \/ FallBackToMeasured \/ ReadFails
    PROVE  IInv'
  <1> USE OptimizeAssumption
  <1> USE DEF Flow, SuccessIsMeasured, FanWithinRange, hardware, local, history, Goto, Answer
  <1>1. Values /\ Places /\ Flow /\ SuccessIsMeasured /\ FanWithinRange
    BY TypeParts DEF IInv
  <1>2. ASSUME NEW o \in {"quiet", "thermal"}, NEW b \in Nat, Begin(o, b)
        PROVE  (Values /\ Places /\ Flow /\ SuccessIsMeasured /\ FanWithinRange)'
    <2>1. Values'
      BY <1>1, <1>2 DEF Begin, Values, Readings
    <2>2. Places'
      BY <1>1, <1>2 DEF Begin, Places
    <2> QED
      BY <1>1, <1>2, <2>1, <2>2 DEF Begin
  <1>9. TypeOK' <=> Values' /\ Places'
    BY DEF TypeOK, Values, Places
  <1>3. ASSUME NEW v \in 0..Full, NEW a \in BOOLEAN, UserMovesFan(v, a)
        PROVE  (Values /\ Places /\ Flow /\ SuccessIsMeasured /\ FanWithinRange)'
    <2>1. Values' /\ (Flow /\ SuccessIsMeasured /\ FanWithinRange)'
      BY <1>1, <1>3 DEF UserMovesFan, Values
    <2>2. Places'
      BY <1>1, <1>3, Zenon DEF UserMovesFan, Places
    <2> QED
      BY <2>1, <2>2
  <1>10. ASSUME NEW r \in Ranges, AfterburnerRestarts(r)
         PROVE  (Values /\ Places /\ Flow /\ SuccessIsMeasured /\ FanWithinRange)'
    <2>1. r.min \in 0..Full /\ r.max \in 0..Full
      OBVIOUS
    <2>2. fan' \in 0..Full
      BY <1>10, <2>1 DEF AfterburnerRestarts
    <2>3. Values'
      BY <1>1, <1>10, <2>2 DEF AfterburnerRestarts, Values
    <2> QED
      BY <1>1, <1>10, <2>3 DEF AfterburnerRestarts, Places
  <1>4. CASE ReadTemp
    <2>1. Values'
      BY <1>1, <1>4 DEF ReadTemp, Values, Readings
    <2>2. Places'
      BY <1>1, <1>4 DEF ReadTemp, Places
    <2>3. (Flow /\ SuccessIsMeasured /\ FanWithinRange)'
      BY <1>1, <1>4 DEF ReadTemp, Values, Places, Readings
    <2> QED
      BY <2>1, <2>2, <2>3, <1>9 DEF IInv
  <1>5. CASE ReadSetpoint
    <2>1. Values'
      BY <1>1, <1>5 DEF ReadSetpoint, UseSetpoint, Values, Readings
    <2>2. Places'
      BY <1>1, <1>5 DEF ReadSetpoint, UseSetpoint, Places
    <2>3. (Flow /\ SuccessIsMeasured /\ FanWithinRange)'
      BY <1>1, <1>5 DEF ReadSetpoint, UseSetpoint, Values, Places, Readings
    <2> QED
      BY <2>1, <2>2, <2>3, <1>9 DEF IInv
  <1>6. CASE FallBackToMeasured
    <2>1. Values'
      BY <1>1, <1>6 DEF FallBackToMeasured, UseSetpoint, Values, Readings
    <2>2. Places'
      BY <1>1, <1>6 DEF FallBackToMeasured, UseSetpoint, Places
    <2>3. (Flow /\ SuccessIsMeasured /\ FanWithinRange)'
      BY <1>1, <1>6 DEF FallBackToMeasured, UseSetpoint, Values, Places, Readings
    <2> QED
      BY <2>1, <2>2, <2>3, <1>9 DEF IInv
  <1>7. CASE ReadFails
    <2>1. Values'
      BY <1>1, <1>7 DEF ReadFails, Values, Readings
    <2>2. Places'
      BY <1>1, <1>7 DEF ReadFails, Places
    <2>3. (Flow /\ SuccessIsMeasured /\ FanWithinRange)'
      BY <1>1, <1>7 DEF ReadFails, Values, Places, Readings
    <2> QED
      BY <2>1, <2>2, <2>3, <1>9 DEF IInv
  <1>8. QuietLimit \in Nat /\ \A t \in Targets : t \in Nat
    OBVIOUS
  <1> QED
    BY <1>2, <1>3, <1>4, <1>5, <1>6, <1>7, <1>8, <1>9, <1>10 DEF OptimizeQuiet, OptimizeThermal, IInv

\* The writes and the reads after them.
LEMMA WritesInv ==
    ASSUME IInv,
           \/ Lower \/ Raise \/ Unreachable \/ Write \/ Verify \/ StillOver
           \/ ValidateRestore \/ Restore
    PROVE  IInv'
  <1> USE OptimizeAssumption
  <1> USE DEF Flow, SuccessIsMeasured, FanWithinRange, hardware, local, history, Goto, Answer
  <1>1. TypeOK /\ Values /\ Places /\ Flow /\ SuccessIsMeasured /\ FanWithinRange
    BY TypeParts DEF IInv
  <1>2. \A v \in Int : ClampFan(v) \in range.min..range.max /\ ClampFan(v) \in 0..Full
    BY <1>1, ClampInRange DEF InRange
  <1>3. base - Reduction \in Int /\ base \in Int /\ NextFan \in Int
    BY <1>1, NextFanUp DEF Values
  <1>10. (Values /\ Places /\ Flow /\ SuccessIsMeasured /\ FanWithinRange)' => IInv'
    BY DEF IInv, TypeOK, Values, Places
  <1>4. CASE Lower
    <2>1. Values'
      BY <1>1, <1>2, <1>3, <1>4 DEF Lower, Validate, Values, Readings
    <2>2. Places'
      BY <1>1, <1>4 DEF Lower, Validate, Places
    <2>3. (Flow /\ SuccessIsMeasured /\ FanWithinRange)'
      BY <1>1, <1>2, <1>3, <1>4 DEF Lower, Validate, Values, Places, Readings
    <2> QED
      BY <2>1, <2>2, <2>3, <1>10
  <1>5. CASE Raise
    <2>1. Values'
      BY <1>1, <1>2, <1>3, <1>5 DEF Raise, Validate, Values, Readings
    <2>2. Places'
      BY <1>1, <1>5 DEF Raise, Validate, Places
    <2>3. (Flow /\ SuccessIsMeasured /\ FanWithinRange)'
      BY <1>1, <1>2, <1>3, <1>5 DEF Raise, Validate, Values, Places, Readings
    <2> QED
      BY <2>1, <2>2, <2>3, <1>10
  <1>6. CASE Unreachable
    <2>1. Values'
      BY <1>1, <1>2, <1>3, <1>6 DEF Unreachable, Values, Readings
    <2>2. Places'
      BY <1>1, <1>6 DEF Unreachable, Places
    <2>3. (Flow /\ SuccessIsMeasured /\ FanWithinRange)'
      BY <1>1, <1>2, <1>3, <1>6 DEF Unreachable, Values, Places, Readings
    <2> QED
      BY <2>1, <2>2, <2>3, <1>10
  <1>7. CASE Verify
    <2>1. Values'
      BY <1>1, <1>2, <1>3, <1>7 DEF Verify, Values, Readings
    <2>2. Places'
      BY <1>1, <1>7 DEF Verify, Places
    <2>3. (Flow /\ SuccessIsMeasured /\ FanWithinRange)'
      BY <1>1, <1>2, <1>3, <1>7 DEF Verify, Values, Places, Readings
    <2> QED
      BY <2>1, <2>2, <2>3, <1>10
  <1>8. CASE StillOver
    <2>1. Values'
      BY <1>1, <1>2, <1>3, <1>8 DEF StillOver, Values, Readings
    <2>2. Places'
      BY <1>1, <1>8 DEF StillOver, Places
    <2>3. (Flow /\ SuccessIsMeasured /\ FanWithinRange)'
      BY <1>1, <1>2, <1>3, <1>8 DEF StillOver, Values, Places, Readings
    <2> QED
      BY <2>1, <2>2, <2>3, <1>10
  <1>9. CASE ValidateRestore
    <2>1. Values'
      BY <1>1, <1>2, <1>3, <1>9 DEF ValidateRestore, RestoreTo, Values, Readings
    <2>2. Places'
      BY <1>1, <1>9 DEF ValidateRestore, RestoreTo, Places
    <2>3. (Flow /\ SuccessIsMeasured /\ FanWithinRange)'
      BY <1>1, <1>2, <1>3, <1>9 DEF ValidateRestore, RestoreTo, Values, Places, Readings
    <2> QED
      BY <2>1, <2>2, <2>3, <1>10
  <1>11. CASE Write
    <2>1. Values'
      BY <1>1, <1>2, <1>3, <1>11 DEF Write, Land, Values, Readings
    <2>2. Places'
      BY <1>1, <1>11 DEF Write, Land, Places
    <2>3. (Flow /\ SuccessIsMeasured /\ FanWithinRange)'
      BY <1>1, <1>2, <1>3, <1>11 DEF Write, Land, Values, Places, Readings
    <2> QED
      BY <2>1, <2>2, <2>3, <1>10
  <1>12. CASE Restore
    <2>1. Values'
      BY <1>1, <1>2, <1>3, <1>12 DEF Restore, Land, Values, Readings
    <2>2. Places'
      BY <1>1, <1>12 DEF Restore, Land, Places
    <2>3. (Flow /\ SuccessIsMeasured /\ FanWithinRange)'
      BY <1>1, <1>2, <1>3, <1>12 DEF Restore, Land, Values, Places, Readings
    <2> QED
      BY <2>1, <2>2, <2>3, <1>10
  <1> QED
    BY <1>4, <1>5, <1>6, <1>7, <1>8, <1>9, <1>11, <1>12

LEMMA StepInv == IInv /\ [Next]_vars => IInv'
  <1> SUFFICES ASSUME IInv, [Next]_vars PROVE IInv'
    OBVIOUS
  <1>1. CASE UNCHANGED vars
    BY <1>1 DEF vars, hardware, local, history, IInv, TypeOK, Flow, SuccessIsMeasured, FanWithinRange
  <1>2. CASE Next
    BY <1>2, ReadsInv, WritesInv DEF Next, Work
  <1> QED
    BY <1>1, <1>2

\* The control flow, the types and the range of the fan hold in every state.
THEOREM OptimizeInvariant == Spec => []IInv
  BY InitInv, StepInv, PTL DEF Spec

\* optimize_quiet and optimize_thermal answer "done" only after a reading, taken
\* after the last write, that meets the limit.
THEOREM SuccessIsAlwaysMeasured == Spec => []SuccessIsMeasured
  <1>1. IInv => SuccessIsMeasured
    BY DEF IInv
  <1> QED
    BY <1>1, OptimizeInvariant, PTL

-----------------------------------------------------------------------------
(* What the fan has to do with the setpoint the operation began with.      *)

\* As long as base was read from the control map and nobody moved the fan or the
\* limits, quiet remembers where the fan was and thermal is at or above it.
Remembers ==
    known =>
        /\ InRange(entry)
        /\ pc \notin {"temp", "setpoint"}
        /\ op = "quiet" /\ pc \in {"quiet", "write", "verify", "over", "restore"} => base = entry
        /\ pc = "restore" => safe = entry
        /\ op = "thermal" => fan >= entry
        /\ op = "thermal" /\ pc \in {"thermal", "write", "verify", "over"} => base >= entry
        /\ op = "thermal" /\ pc = "write" => safe >= entry

FanInv == IInv /\ Remembers /\ QuietRestoresSpeed

LEMMA RemembersInit == Init => Remembers /\ QuietRestoresSpeed
  BY DEF Init, Remembers, QuietRestoresSpeed

LEMMA RemembersReads ==
    ASSUME FanInv,
           \/ OptimizeQuiet
           \/ \E t \in Targets : OptimizeThermal(t)
           \/ \E v \in 0..Full, a \in BOOLEAN : UserMovesFan(v, a)
           \/ \E r \in Ranges : AfterburnerRestarts(r)
           \/ ReadTemp \/ ReadSetpoint \/ FallBackToMeasured \/ ReadFails
    PROVE  (Remembers /\ QuietRestoresSpeed)'
  <1> USE OptimizeAssumption
  <1> USE DEF FanInv, Remembers, QuietRestoresSpeed, InRange, hardware, local, history, Goto, Answer
  <1>1. Values /\ Places /\ Flow /\ FanWithinRange
    BY TypeParts DEF IInv
  <1>2. CASE OptimizeQuiet
    BY <1>2 DEF OptimizeQuiet, Begin
  <1>3. ASSUME NEW t \in Targets, OptimizeThermal(t) PROVE (Remembers /\ QuietRestoresSpeed)'
    BY <1>3 DEF OptimizeThermal, Begin
  <1>4. ASSUME NEW v \in 0..Full, NEW a \in BOOLEAN, UserMovesFan(v, a)
        PROVE  (Remembers /\ QuietRestoresSpeed)'
    BY <1>4 DEF UserMovesFan
  <1>9. ASSUME NEW r \in Ranges, AfterburnerRestarts(r) PROVE (Remembers /\ QuietRestoresSpeed)'
    BY <1>9 DEF AfterburnerRestarts
  <1>5. CASE ReadTemp
    BY <1>1, <1>5 DEF ReadTemp, Flow, Near
  <1>6. CASE ReadSetpoint
    <2>1. fan \in 0..Full /\ fan # None /\ fan >= fan
      BY <1>1 DEF Values
    <2>2. base' = fan /\ entry' = fan /\ fan' = fan /\ range' = range /\ op' = op
      BY <1>6, <2>1 DEF ReadSetpoint, UseSetpoint
    <2>3. pc' \in {"idle", op'} /\ landed' = landed /\ ~landed
      BY <1>1, <1>6 DEF ReadSetpoint, UseSetpoint, Flow
    <2>4. pc' \notin {"temp", "setpoint", "write", "restore"}
      BY <1>1, <1>6, <2>3 DEF ReadSetpoint, Flow, Places
    <2>5. known' = (fan \in range.min..range.max)
      BY <1>6 DEF ReadSetpoint
    <2> QED
      BY <1>1, <1>6, <2>1, <2>2, <2>3, <2>4, <2>5 DEF Flow
  <1>7. CASE FallBackToMeasured
    BY <1>1, <1>7 DEF FallBackToMeasured, Flow
  <1>8. CASE ReadFails
    BY <1>1, <1>8 DEF ReadFails, Flow
  <1> QED
    BY <1>2, <1>3, <1>4, <1>5, <1>6, <1>7, <1>8, <1>9

LEMMA RemembersWrites ==
    ASSUME FanInv,
           \/ Lower \/ Raise \/ Unreachable \/ Write \/ Verify \/ StillOver
           \/ ValidateRestore \/ Restore
    PROVE  (Remembers /\ QuietRestoresSpeed)'
  <1> USE OptimizeAssumption
  <1> USE DEF Remembers, QuietRestoresSpeed, InRange, hardware, local, history, Goto, Answer
  <1>1. Remembers /\ QuietRestoresSpeed /\ TypeOK /\ Values /\ Places /\ Flow
    BY TypeParts DEF FanInv, IInv
  <1>0. entry \in 0..Full /\ base \in 0..Full /\ fan \in 0..Full /\ safe \in 0..Full
        /\ Tolerance \in Nat
    BY <1>1 DEF Values
  <1>2. CASE Lower
    BY <1>1, <1>2 DEF Lower, Validate, Flow
  <1>3. CASE Raise
    <2>1. NextFan \in 0..Full /\ base <= NextFan
      BY <1>1, NextFanUp
    <2>2. ClampFan(NextFan) \in 0..Full
      BY <1>1, <2>1, ClampInRange
    <2>3. known => ClampFan(NextFan) >= entry
      <3>1. known => InRange(entry) /\ base >= entry
        BY <1>1, <1>3 DEF Raise, Flow
      <3> QED
        BY <1>0, <1>1, <2>1, <3>1, ClampRaises
    <2>4. op = "thermal" /\ pc = "thermal" /\ ~landed
      BY <1>1, <1>3 DEF Raise, Flow
    <2>5. UNCHANGED <<hardware, op, base, history>>
      BY <1>3 DEF Raise
    <2>6. (pc' = "write" /\ safe' = ClampFan(NextFan)) \/ pc' = "idle"
      BY <1>3 DEF Raise, Validate
    <2> QED
      BY <1>0, <1>1, <2>3, <2>4, <2>5, <2>6
  <1>4. CASE Unreachable
    BY <1>1, <1>4 DEF Unreachable, Flow
  <1>5. CASE Verify
    BY <1>1, <1>5 DEF Verify, Flow
  <1>6. CASE StillOver
    BY <1>1, <1>6 DEF StillOver, Flow
  <1>7. CASE ValidateRestore
    <2>1. known => ClampFan(base) = entry
      BY <1>0, <1>1, <1>7, ClampKeeps DEF ValidateRestore
    <2> QED
      BY <1>1, <1>7, <2>1 DEF ValidateRestore, RestoreTo, Flow
  <1>8. CASE Write
    <2>1. fan' \in {fan, safe} /\ base' \in {base, safe} /\ (op = "quiet" => base' = base)
      BY <1>8 DEF Write, Land
    <2>2. /\ UNCHANGED <<range, op, safe, entry, known, landed>>
          /\ ~landed /\ pc = "write" /\ pc' \in {"verify", "idle"}
      BY <1>1, <1>8 DEF Write, Flow
    <2> QED
      BY <1>0, <1>1, <2>1, <2>2
  <1>9. CASE Restore
    <2>1. pc = "restore" /\ op = "quiet" /\ ~landed /\ pc' = "idle"
          /\ UNCHANGED <<range, op, local, entry, known>>
      BY <1>1, <1>9 DEF Restore, Flow
    <2>2. landed' => Land
      BY <1>9, <2>1 DEF Restore
    <2>4. Land => Near(fan', safe) /\ ~auto'
      BY <1>0 DEF Land, Near
    <2>3. known => safe = entry
      BY <1>1, <2>1
    <2> QED
      BY <1>1, <2>1, <2>2, <2>3, <2>4
  <1> QED
    BY <1>2, <1>3, <1>4, <1>5, <1>6, <1>7, <1>8, <1>9

THEOREM FanRemembered == Spec => []FanInv
  <1>1. Init => FanInv
    BY InitInv, RemembersInit DEF FanInv
  <1>2. FanInv /\ [Next]_vars => FanInv'
    <2> SUFFICES ASSUME FanInv, [Next]_vars PROVE FanInv'
      OBVIOUS
    <2>1. IInv'
      BY StepInv DEF FanInv
    <2>2. CASE UNCHANGED vars
      BY <2>1, <2>2 DEF vars, hardware, local, history, FanInv, Remembers, QuietRestoresSpeed, InRange, Near
    <2>3. CASE Next
      BY <2>1, <2>3, RemembersReads, RemembersWrites DEF Next, Work, FanInv
    <2> QED
      BY <2>2, <2>3
  <1> QED
    BY <1>1, <1>2, PTL DEF Spec

\* When the write of _restore_fan succeeded and nobody else moved the fan or its
\* limits, the fan has the speed at which quiet found it, within the tolerance, and
\* is manual, whatever the range, the reduction and the mode it had.
THEOREM QuietAlwaysRestoresSpeed == Spec => []QuietRestoresSpeed
  <1>1. FanInv => QuietRestoresSpeed
    BY DEF FanInv
  <1> QED
    BY <1>1, FanRemembered, PTL

\* optimize_thermal never leaves the fan slower than it found it, wherever it
\* fails, if the setpoint was read and nobody else moved the fan or
\* its limits.
THEOREM ThermalAlwaysRaises == Spec => []ThermalRaises
  <1>1. FanInv => ThermalRaises
    BY DEF FanInv, Remembers, ThermalRaises
  <1> QED
    BY <1>1, FanRemembered, PTL

-----------------------------------------------------------------------------
(* How many steps an operation takes: what liveness needs besides fairness. *)

FullSpeedReachable == \A r \in Ranges : r.max = Full

\* A step up: validated, written, its reads, and the decision to go on.
Turn == Attempts + 4

\* The steps that are left, at most.
Left ==
    CASE pc = "idle"     -> 0
      [] pc = "temp"     -> (Full + 1) * Turn + 3
      [] pc = "setpoint" -> (Full + 1) * Turn + 2
      [] pc = "quiet"    -> (Full - base) * Turn + Turn + 1
      [] pc = "thermal"  -> (Full - base) * Turn + 1
      [] pc = "write"    -> (Full - (IF op = "thermal" THEN safe ELSE base)) * Turn + Turn
      [] pc = "verify"   -> (Full - base) * Turn + left + 3
      [] pc = "over"     -> (Full - base) * Turn + 3
      [] pc = "restore"  -> (Full - base) * Turn + 2

Counted == Left \in 0..((Full + 1) * Turn + 3) /\ (Left = 0 <=> pc = "idle")

\* The operation's steps lower the count, and the user's leave it alone.
Descends == pc # "idle" => IF Work THEN Left' < Left ELSE Left' = Left

\* The turns that are left above a setpoint.
LEMMA TurnsAbove ==
    ASSUME NEW b \in 0..Full, NEW c \in 0..Full
    PROVE  /\ Turn \in Nat /\ Turn > 4
           /\ (Full - b) * Turn \in Nat
           /\ (Full + 1) * Turn \in Nat
           /\ (Full - b) * Turn + Turn <= (Full + 1) * Turn
           /\ b < c => (Full - c) * Turn + Turn <= (Full - b) * Turn
  <1> DEFINE m == Full - b
             n == Full - c
  <1>1. Full \in Nat /\ Turn \in Nat /\ Turn > 4 /\ Attempts \in Nat
    BY OptimizeAssumption DEF Turn
  <1>2. m \in Nat /\ n \in Nat /\ m <= Full /\ (b < c => n + 1 <= m)
    BY <1>1
  <1> HIDE DEF m, n
  <1>3. ASSUME NEW x \in Nat, NEW y \in Nat, x + 1 <= y
        PROVE  x * Turn \in Nat /\ x * Turn + Turn <= y * Turn
    <2>1. y - (x + 1) \in Nat
      BY <1>3
    <2>2. (y - (x + 1)) * Turn >= 0 /\ x * Turn \in Nat
      BY <1>1, <2>1
    <2>3. y * Turn = x * Turn + Turn + (y - (x + 1)) * Turn
      BY <1>1
    <2> QED
      BY <1>1, <2>2, <2>3
  <1>4. /\ m * Turn \in Nat /\ m * Turn + Turn <= (Full + 1) * Turn
    BY <1>1, <1>2, <1>3
  <1>5. b < c => n * Turn + Turn <= m * Turn
    BY <1>2, <1>3
  <1>6. (Full + 1) * Turn \in Nat
    BY <1>1
  <1> QED
    BY <1>1, <1>4, <1>5, <1>6 DEF m, n

LEMMA LeftIsCounted == TypeOK => Counted
  <1> SUFFICES ASSUME TypeOK PROVE Counted
    OBVIOUS
  <1>1. /\ base \in 0..Full /\ safe \in 0..Full
        /\ left \in Nat /\ left <= Attempts /\ Attempts \in Nat
        /\ pc \in {"idle", "temp", "setpoint", "quiet", "thermal", "write", "verify",
                   "over", "restore"}
    BY OptimizeAssumption DEF TypeOK
  <1> DEFINE x == (Full - base) * Turn
             w == (Full - (IF op = "thermal" THEN safe ELSE base)) * Turn
             y == (Full + 1) * Turn
  <1>2. Turn = Attempts + 4 /\ x \in Nat /\ w \in Nat /\ y \in Nat /\ x + Turn <= y /\ w + Turn <= y
    BY <1>1, TurnsAbove DEF Turn
  <1>3. /\ pc = "idle"     => Left = 0
        /\ pc = "temp"     => Left = y + 3
        /\ pc = "setpoint" => Left = y + 2
        /\ pc = "quiet"    => Left = x + Turn + 1
        /\ pc = "thermal"  => Left = x + 1
        /\ pc = "write"    => Left = w + Turn
        /\ pc = "verify"   => Left = x + left + 3
        /\ pc = "over"     => Left = x + 3
        /\ pc = "restore"  => Left = x + 2
    BY DEF Left
  <1> HIDE DEF x, w, y
  <1>4. Left \in 0..(y + 3) /\ (Left = 0 <=> pc = "idle")
    BY <1>1, <1>2, <1>3
  <1> QED
    BY <1>4 DEF Counted, y

\* What thermal is about to write is a step up.
Upward == pc = "write" /\ op = "thermal" => safe > base

LEMMA UpwardStep ==
    ASSUME FullSpeedReachable, IInv, Upward, [Next]_vars
    PROVE  Upward'
  <1> USE DEF Upward, hardware, local, history, Goto, Answer
  <1>1. TypeOK /\ Flow /\ base \in 0..Full /\ Full \in Nat
    BY OptimizeAssumption DEF IInv, TypeOK
  <1>2. CASE Raise
    <2>1. NextFan > base /\ NextFan \in 0..Full
      BY <1>1, <1>2, NextFanUp DEF Raise, AtMaximum
    <2>2. range.max = Full /\ range.min \in 0..Full
      BY <1>1, OptimizeAssumption DEF FullSpeedReachable, TypeOK
    <2>3. ClampFan(NextFan) > base
      BY <1>1, <2>1, <2>2 DEF ClampFan
    <2> QED
      BY <1>2, <2>3 DEF Raise, Validate
  <1>3. CASE Lower
    BY <1>1, <1>3 DEF Lower, Flow
  <1>4. CASE ReadSetpoint \/ FallBackToMeasured
    BY <1>1, <1>4 DEF ReadSetpoint, FallBackToMeasured, UseSetpoint, TypeOK, Flow
  <1>5. CASE ReadTemp \/ ReadFails \/ Unreachable \/ Write \/ StillOver \/ ValidateRestore \/ Restore
    BY <1>5 DEF ReadTemp, ReadFails, Unreachable, Write, StillOver, ValidateRestore, Restore
  <1>6. CASE Verify
    BY <1>6 DEF Verify
  <1>7. CASE UNCHANGED vars \/ ~Work
    BY <1>7 DEF Next, vars, OptimizeQuiet, OptimizeThermal, Begin, UserMovesFan, AfterburnerRestarts
  <1> QED
    BY <1>2, <1>3, <1>4, <1>5, <1>6, <1>7 DEF Work

LEMMA WorkDescends ==
    ASSUME FullSpeedReachable, IInv, IInv', Upward, Upward', Work
    PROVE  Left' < Left
  <1> USE DEF hardware, local, history, Goto, Answer
  <1>1. /\ TypeOK /\ TypeOK' /\ Flow
        /\ base \in 0..Full /\ base' \in 0..Full /\ safe \in 0..Full /\ safe' \in 0..Full
        /\ left \in Nat /\ left <= Attempts /\ left' \in Nat /\ Attempts \in Nat
        /\ op \in {"quiet", "thermal", None} /\ op' = op
    BY OptimizeAssumption
       DEF IInv, TypeOK, Work, ReadTemp, ReadSetpoint, FallBackToMeasured, ReadFails, Lower, Raise,
           Unreachable, Write, Verify, StillOver, ValidateRestore, Restore
  <1>2. pc # "idle"
    BY DEF Work, ReadTemp, ReadSetpoint, FallBackToMeasured, ReadFails, Lower, Raise, Unreachable,
           Write, Verify, StillOver, ValidateRestore, Restore
  <1> DEFINE x == (Full - base) * Turn
             z == (Full - base') * Turn
             v == (Full - safe) * Turn
             w == (Full - safe') * Turn
             y == (Full + 1) * Turn
  <1>3. /\ Turn = Attempts + 4 /\ Turn \in Nat
        /\ x \in Nat /\ z \in Nat /\ v \in Nat /\ w \in Nat /\ y \in Nat
        /\ x + Turn <= y /\ z + Turn <= y
        /\ base' = base => z = x
        /\ base' = safe => z = v
        /\ base < safe' => w + Turn <= x
    BY <1>1, TurnsAbove DEF Turn
  <1>4. /\ pc = "temp"     => Left = y + 3
        /\ pc = "setpoint" => Left = y + 2
        /\ pc = "quiet"    => Left = x + Turn + 1
        /\ pc = "thermal"  => Left = x + 1
        /\ pc = "write"    => Left = (IF op = "thermal" THEN v ELSE x) + Turn
        /\ pc = "verify"   => Left = x + left + 3
        /\ pc = "over"     => Left = x + 3
        /\ pc = "restore"  => Left = x + 2
    BY DEF Left
  <1>5. /\ pc' = "idle"     => Left' = 0
        /\ pc' = "setpoint" => Left' = y + 2
        /\ pc' = "quiet"    => Left' = z + Turn + 1
        /\ pc' = "thermal"  => Left' = z + 1
        /\ pc' = "write"    => Left' = (IF op' = "thermal" THEN w ELSE z) + Turn
        /\ pc' = "verify"   => Left' = z + left' + 3
        /\ pc' = "over"     => Left' = z + 3
        /\ pc' = "restore"  => Left' = z + 2
    BY DEF Left, Turn
  <1> HIDE DEF x, z, v, w, y
  <1>6. CASE pc' = "idle"
    <2>1. Left' = 0
      BY <1>5, <1>6
    <2>2. Left \in Nat /\ Left # 0
      BY <1>1, <1>2, <1>3, LeftIsCounted DEF Counted, y
    <2> QED
      BY <2>1, <2>2
  <1>7. CASE ReadTemp /\ pc' # "idle"
    <2>1. pc = "temp" /\ pc' = "setpoint"
      BY <1>7 DEF ReadTemp
    <2> QED
      BY <1>3, <1>4, <1>5, <2>1
  <1>8. CASE (ReadSetpoint \/ FallBackToMeasured) /\ pc' # "idle"
    <2>1. pc = "setpoint" /\ pc' \in {"quiet", "thermal"}
      BY <1>1, <1>8 DEF ReadSetpoint, FallBackToMeasured, UseSetpoint, Flow
    <2> QED
      BY <1>1, <1>3, <1>4, <1>5, <2>1
  <1>9. CASE Lower /\ pc' # "idle"
    <2>1. pc = "quiet" /\ op = "quiet" /\ pc' = "write" /\ base' = base
      BY <1>1, <1>9 DEF Lower, Validate, Flow
    <2> QED
      BY <1>1, <1>3, <1>4, <1>5, <2>1
  <1>10. CASE Raise /\ pc' # "idle"
    <2>1. pc = "thermal" /\ op = "thermal" /\ pc' = "write" /\ base' = base
      BY <1>1, <1>10 DEF Raise, Validate, Flow
    <2>2. safe' > base
      BY <1>1, <2>1 DEF Upward
    <2> QED
      BY <1>1, <1>3, <1>4, <1>5, <2>1, <2>2
  <1>11. CASE Write /\ pc' # "idle"
    <2>1. /\ pc = "write" /\ pc' = "verify" /\ left' = Attempts
          /\ base' = IF op = "thermal" THEN safe ELSE base
      BY <1>11 DEF Write
    <2> QED
      BY <1>1, <1>3, <1>4, <1>5, <2>1
  <1>12. CASE Verify /\ pc' # "idle"
    <2>1. /\ pc = "verify" /\ left > 0 /\ base' = base
          /\ (pc' = "verify" /\ left' = left - 1) \/ pc' = "over"
      BY <1>1, <1>12 DEF Verify, Flow
    <2> QED
      BY <1>1, <1>3, <1>4, <1>5, <2>1
  <1>13. CASE StillOver /\ pc' # "idle"
    <2>1. pc = "over" /\ pc' = "thermal" /\ base' = base
      BY <1>13 DEF StillOver
    <2> QED
      BY <1>3, <1>4, <1>5, <2>1
  <1>14. CASE ValidateRestore /\ pc' # "idle"
    <2>1. pc = "over" /\ pc' = "restore" /\ base' = base
      BY <1>14 DEF ValidateRestore
    <2> QED
      BY <1>3, <1>4, <1>5, <2>1
  <1>15. pc' # "idle" => ~(ReadFails \/ Unreachable \/ Restore)
    BY DEF ReadFails, Unreachable, Restore
  <1> QED
    BY <1>6, <1>7, <1>8, <1>9, <1>10, <1>11, <1>12, <1>13, <1>14, <1>15 DEF Work

\* Where every fan reaches 100 %, an operation takes at most one turn for every speed of
\* the fan, however the temperatures behave, whatever fails, whoever moves the fan and
\* however the limits change.
THEOREM OptimizerCountsDown == FullSpeedReachable /\ Spec => []Counted /\ [][Descends]_vars
  <1>1. IInv => Counted
    BY LeftIsCounted DEF IInv
  <1>2. Init => Upward
    BY DEF Init, Upward
  <1>3. ASSUME FullSpeedReachable
        PROVE  IInv /\ IInv' /\ Upward /\ Upward' /\ [Next]_vars => [Descends]_vars
    <2> SUFFICES ASSUME IInv, IInv', [Next]_vars, pc # "idle", ~Work PROVE Left' = Left
      BY <1>3, WorkDescends DEF Descends
    <2>1. UNCHANGED <<pc, op, base, safe, left>>
      BY DEF Next, OptimizeQuiet, OptimizeThermal, Begin, UserMovesFan, AfterburnerRestarts, local, vars
    <2> QED
      BY <2>1 DEF Left
  <1>4. ASSUME FullSpeedReachable PROVE Spec => []Counted /\ [][Descends]_vars
    <2>1. IInv /\ IInv' /\ Upward /\ Upward' /\ [Next]_vars => [Descends]_vars
      BY <1>3, <1>4
    <2>2. IInv /\ Upward /\ [Next]_vars => Upward'
      BY <1>4, UpwardStep
    <2> QED
      BY <1>1, <1>2, <2>1, <2>2, OptimizeInvariant, PTL DEF Spec
  <1> QED
    BY <1>4
=============================================================================
