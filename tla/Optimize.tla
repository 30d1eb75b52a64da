------------------------------- MODULE Optimize -------------------------------
(***************************************************************************)
(* OptimizeService (afterburner/services/optimize.py): optimize_quiet      *)
(* lowers the fan and reads the temperature back, optimize_thermal raises  *)
(* it step by step.  Every read and every write of the client may fail,    *)
(* and the load of the GPU, hence each temperature, is arbitrary.  Beside  *)
(* the operation the user moves the fan and switches its mode, and         *)
(* Afterburner restarts with another range: also between the validator's   *)
(* reading of the limits and the write.                                    *)
(*                                                                         *)
(* Fan speeds are in steps of any size, times in read intervals.           *)
(***************************************************************************)
EXTENDS Integers

CONSTANTS
    Ranges,         \* fan ranges Afterburner may report: records [min, max]
    Full,           \* 100 %, the end of the loop of optimize_thermal
    Reduction,      \* reduction_pts
    Step,           \* fan_step_pts
    Tolerance,      \* TUNING_MATCH_TOLERANCE
    Attempts,       \* verify_timeout_s / read_interval_s
    Temps,          \* temperatures
    QuietLimit,     \* quiet_temp_limit_c
    Targets,        \* valid targets of optimize_thermal
    None            \* no reading, no operation

ASSUME OptimizeAssumption ==
    /\ Full \in Nat
    /\ Ranges \subseteq [min : 0..Full, max : 0..Full]
    /\ \A r \in Ranges : r.min <= r.max
    /\ Reduction \in Nat \ {0}
    /\ Step \in Nat \ {0}
    /\ Tolerance \in Nat
    /\ Attempts \in Nat \ {0}
    /\ Temps \subseteq Nat
    /\ QuietLimit \in Nat
    /\ Targets \subseteq Nat
    /\ None \notin Nat \cup {"quiet", "thermal", "done", "reverted"}

VARIABLES
    range,      \* the fan range in force
    fan,        \* the setpoint in the control map (dwFanSpeedCur), in either mode
    auto,       \* the AUTO bit of dwFanFlagsCur
    op,         \* "quiet", "thermal" or None
    pc,         \* where the operation is
    bound,      \* the temperature it must reach: the quiet limit or the target
    base,       \* current_fan
    temp,       \* temp, or measured
    left,       \* reads left in _poll_temp_at_or_below
    safe,       \* what _validate_fan returned, until it is written
    answer,     \* the outcome of the last operation
    \* history
    entry,      \* the setpoint the operation began with
    known,      \* was base read from the control map, inside the range, and neither
                \* the fan nor the range moved by anybody else since
    wrote,      \* did the operation write the fan
    fresh,      \* was temp read after the last write
    landed      \* did the write of the last _restore_fan succeed

hardware == <<range, fan, auto>>
local    == <<bound, base, temp, left, safe>>
history  == <<entry, known, wrote, fresh, landed>>
vars     == <<hardware, op, pc, local, answer, history>>

-----------------------------------------------------------------------------
Readings == Temps \cup {None}

\* Mutant of ClampFan: the minimum is not looked at.
ClampFanAbove(v) == IF v > range.max THEN range.max ELSE v

\* validate_and_clamp for FAN_PERCENT.
ClampFan(v) == IF v < range.min THEN range.min ELSE IF v > range.max THEN range.max ELSE v

Init ==
    /\ range \in Ranges
    /\ fan \in range.min..range.max
    /\ auto \in BOOLEAN
    /\ op = None
    /\ pc = "idle"
    /\ bound = 0
    /\ base = 0
    /\ temp = None
    /\ left = 0
    /\ safe = 0
    /\ answer = None
    /\ entry = fan
    /\ known = FALSE
    /\ wrote = FALSE
    /\ fresh = FALSE
    /\ landed = FALSE

Goto(l) == pc' = l

\* The operation ends with this outcome.
Answer(a) ==
    /\ pc' = "idle"
    /\ answer' = a

Begin(o, b) ==
    /\ pc = "idle"
    /\ op' = o
    /\ bound' = b
    /\ Goto("temp")
    /\ base' = 0
    /\ temp' = None
    /\ left' = 0
    /\ safe' = 0
    /\ answer' = None
    /\ entry' = fan
    /\ known' = FALSE
    /\ wrote' = FALSE
    /\ fresh' = FALSE
    /\ landed' = FALSE
    /\ UNCHANGED hardware

OptimizeQuiet == Begin("quiet", QuietLimit)

\* _validate_target lets only Targets pass; anything else is refused unread.
OptimizeThermal(t) == t \in Targets /\ Begin("thermal", t)

-----------------------------------------------------------------------------
\* The read at the start.  quiet refuses above its limit, thermal is content
\* below its target, both refuse without a reading.
ReadTemp ==
    /\ pc = "temp"
    /\ \E t \in Readings :
        /\ temp' = t
        /\ CASE t = None                         -> Answer("error")
             [] t # None /\ op = "quiet"   /\ t > bound  -> Answer("refused")
             [] t # None /\ op = "thermal" /\ t <= bound -> Answer("unneeded")
             [] OTHER                            -> Goto("setpoint") /\ UNCHANGED answer
    /\ UNCHANGED <<hardware, op, bound, base, left, safe, history>>

\* Mutant of UseSetpoint: thermal starts from a fan at rest, whatever was read.
UseSetpointOfRest(f) == base' = 0 /\ Goto(op) /\ UNCHANGED answer

\* _current_fan_setpoint, and what each operation makes of a missing one.
UseSetpoint(f) ==
    /\ base' = IF f = None THEN 0 ELSE f
    /\ IF op = "quiet" /\ (f = None \/ (f # None /\ f < Reduction))
       THEN Answer("refused")
       ELSE Goto(op) /\ UNCHANGED answer

\* read_tuning_state gives dwFanSpeedCur, whatever the mode is.
ReadSetpoint ==
    /\ pc = "setpoint"
    /\ UseSetpoint(fan)
    /\ known' = (fan \in range.min..range.max)
    /\ entry' = fan
    /\ UNCHANGED <<hardware, op, bound, temp, left, safe, wrote, fresh, landed>>

\* The control map cannot be read: the measured speed, if any, stands in.
FallBackToMeasured ==
    /\ pc = "setpoint"
    /\ \E f \in 0..Full \cup {None} : UseSetpoint(f)
    /\ UNCHANGED <<hardware, op, bound, temp, left, safe, history>>

\* A read of the client raises; nothing catches it but _typed.
ReadFails ==
    /\ pc \in {"temp", "setpoint"}
    /\ Answer("error")
    /\ UNCHANGED <<hardware, op, local, history>>

-----------------------------------------------------------------------------
\* Mutant of NextFan: the cap is forgotten.
NextFanUncapped == base + Step

NextFan == IF base + Step > Full THEN Full ELSE base + Step

AtMaximum == NextFan <= base

\* Mutant of RestoreTo: the value that was just written is written again.
RestoreToLowered == ClampFan(base - Reduction)

RestoreTo == ClampFan(base)

\* _validate_fan reads the limits and clamps; it may find none.
Validate(v) ==
    \/ safe' = v /\ Goto("write") /\ UNCHANGED answer
    \/ Answer("error") /\ UNCHANGED safe

\* The change that optimize_quiet makes, and one step of the loop of optimize_thermal.
Lower ==
    /\ pc = "quiet"
    /\ Validate(ClampFan(base - Reduction))
    /\ UNCHANGED <<hardware, op, bound, base, temp, left, history>>

Raise ==
    /\ pc = "thermal"
    /\ ~AtMaximum
    /\ Validate(ClampFan(NextFan))
    /\ UNCHANGED <<hardware, op, bound, base, temp, left, history>>

\* The honest failure: already at full speed.
Unreachable ==
    /\ pc = "thermal"
    /\ AtMaximum
    /\ Answer("unreachable")
    /\ UNCHANGED <<hardware, op, local, history>>

Near(a, b) == a - b <= Tolerance /\ b - a <= Tolerance

\* client.apply_control, under another opening of the map: a manual fan near the
\* value is left alone, any other is set and made manual.
Land ==
    IF ~auto /\ Near(fan, safe)
    THEN UNCHANGED <<fan, auto>>
    ELSE fan' = safe /\ auto' = FALSE

\* Mutant of Write: the reading from before the change is good enough.
WriteTrustsFirstReading ==
    /\ pc = "write"
    /\ Land
    /\ wrote' = TRUE
    /\ fresh' = FALSE
    /\ Answer("done")
    /\ UNCHANGED <<range, op, local, entry, known, landed>>

\* The write fails before or after the value has landed, or succeeds: the readings
\* begin, quiet without one and thermal with the one that it has.
Write ==
    /\ pc = "write"
    /\ wrote' = TRUE
    /\ \/ /\ Land
          /\ fresh' = FALSE
          /\ base' = IF op = "thermal" THEN safe ELSE base
          /\ temp' = IF op = "thermal" THEN temp ELSE None
          /\ left' = Attempts
          /\ Goto("verify")
          /\ UNCHANGED answer
       \/ /\ Land \/ UNCHANGED <<fan, auto>>
          /\ Answer("error")
          /\ UNCHANGED <<fresh, base, temp, left>>
    /\ UNCHANGED <<range, op, bound, safe, entry, known, landed>>

\* One turn of _poll_temp_at_or_below: sleep, read, compare.
Verify ==
    /\ pc = "verify"
    /\ \/ \E t \in Readings :
            /\ temp' = t
            /\ fresh' = TRUE
            /\ left' = left - 1
            /\ CASE t # None /\ t <= bound -> Answer("done")
                 [] ~(t # None /\ t <= bound) /\ left > 1 -> UNCHANGED <<pc, answer>>
                 [] OTHER -> Goto("over") /\ UNCHANGED answer
       \/ /\ Answer("error")
          /\ UNCHANGED <<temp, fresh, left>>
    /\ UNCHANGED <<hardware, op, bound, base, safe, entry, known, wrote, landed>>

\* The reads are used up: thermal goes on unless it has no reading.
StillOver ==
    /\ pc = "over"
    /\ op = "thermal"
    /\ IF temp = None THEN Answer("unreachable") ELSE Goto("thermal") /\ UNCHANGED answer
    /\ UNCHANGED <<hardware, op, local, history>>

\* _restore_fan of quiet: the limits are read anew, and the speed is written as any
\* other is, so that an automatic fan stays manual.  A failure of either step is
\* swallowed, and the answer says "I restored the fan" in every case.
ValidateRestore ==
    /\ pc = "over"
    /\ op = "quiet"
    /\ \/ safe' = RestoreTo /\ Goto("restore") /\ UNCHANGED answer
       \/ Answer("reverted") /\ UNCHANGED safe
    /\ UNCHANGED <<hardware, op, bound, base, temp, left, history>>

Restore ==
    /\ pc = "restore"
    /\ \/ Land /\ landed' = TRUE
       \/ (Land \/ UNCHANGED <<fan, auto>>) /\ UNCHANGED landed
    /\ fresh' = FALSE
    /\ Answer("reverted")
    /\ UNCHANGED <<range, op, local, entry, known, wrote>>

\* The user moves the fan in Afterburner or switches its mode, also while an
\* operation sleeps.
UserMovesFan(v, a) ==
    /\ v \in range.min..range.max
    /\ fan' = v
    /\ auto' = a
    /\ known' = FALSE
    /\ UNCHANGED <<range, op, pc, local, answer, entry, wrote, fresh, landed>>

\* Afterburner starts again, reports another range and applies a fan of its own.
AfterburnerRestarts(r) ==
    /\ range' = r
    /\ fan' \in r.min..r.max
    /\ auto' \in BOOLEAN
    /\ known' = FALSE
    /\ UNCHANGED <<op, pc, local, answer, entry, wrote, fresh, landed>>

-----------------------------------------------------------------------------
Work ==
    \/ ReadTemp \/ ReadSetpoint \/ FallBackToMeasured \/ ReadFails
    \/ Lower \/ Raise \/ Unreachable \/ Write \/ Verify \/ StillOver
    \/ ValidateRestore \/ Restore

Next ==
    \/ OptimizeQuiet
    \/ \E t \in Targets : OptimizeThermal(t)
    \/ \E v \in 0..Full, a \in BOOLEAN : UserMovesFan(v, a)
    \/ \E r \in Ranges : AfterburnerRestarts(r)
    \/ Work

\* The plugin's only thread executes the operation; its sleeps end.
Spec == Init /\ [][Next]_vars /\ WF_vars(Work)

-----------------------------------------------------------------------------
(* Properties.                                                             *)

TypeOK ==
    /\ range \in Ranges
    /\ fan \in 0..Full
    /\ auto \in BOOLEAN
    /\ op \in {"quiet", "thermal", None}
    /\ pc \in {"idle", "temp", "setpoint", "quiet", "thermal", "write", "verify",
               "over", "restore"}
    /\ bound \in Nat
    /\ base \in 0..Full
    /\ temp \in Readings
    /\ left \in 0..Attempts
    /\ safe \in 0..Full
    /\ answer \in {None, "error", "refused", "unneeded", "done", "unreachable", "reverted"}
    /\ entry \in 0..Full
    /\ known \in BOOLEAN
    /\ wrote \in BOOLEAN
    /\ fresh \in BOOLEAN
    /\ landed \in BOOLEAN

\* The control flow: which operation is where, and what has been done by then.
Flow ==
    /\ pc # "idle" => op # None /\ answer = None
    /\ pc \in {"temp", "setpoint"} => ~wrote
    /\ pc = "quiet" => op = "quiet" /\ ~wrote /\ base >= Reduction
    /\ pc = "setpoint" /\ op = "thermal" => temp # None /\ temp > bound
    /\ pc = "thermal" => op = "thermal" /\ temp # None /\ temp > bound
    /\ pc = "write" /\ op = "thermal" => temp # None /\ temp > bound
    /\ pc = "restore" => op = "quiet"
    /\ pc \in {"write", "restore"} /\ known => safe \in range.min..range.max
    /\ landed => pc = "idle"
    /\ pc \in {"verify", "over", "restore"} => op # None /\ wrote
    /\ pc = "verify" => left > 0
    /\ pc = "over" => fresh /\ (temp = None \/ temp > bound)

\* No success without a reading, taken after the last write, that meets the
\* limit (optimize.py: "initial=None forces the first live read").
SuccessIsMeasured ==
    answer = "done" => fresh /\ temp # None /\ temp <= bound

\* Whatever fails, the fan stays in the range of the limits, as long as
\* Afterburner did not change them under the operation.
FanWithinRange == known => fan \in range.min..range.max

IInv == TypeOK /\ Flow /\ SuccessIsMeasured /\ FanWithinRange

\* When the write of _restore_fan succeeded, and nobody else moved the fan or the
\* limits since quiet read the setpoint, the fan has the speed it had, within the
\* tolerance of a write, although a change and several reads lie between: but its
\* mode is manual, whatever it was.
QuietRestoresSpeed == landed /\ known => Near(fan, entry) /\ ~auto

\* Unless somebody else moves the fan or the limits meanwhile, or the control map
\* cannot be read, thermal never leaves the fan slower than it was, wherever it fails.
ThermalRaises == op = "thermal" /\ known => fan >= entry

\* Every operation returns, if the reported maximum is 100 % (the loop ends when
\* the next step is no step), also when the limits change under it.
OptimizeReturns == pc # "idle" ~> pc = "idle"
=============================================================================
