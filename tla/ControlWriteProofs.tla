-------------------------- MODULE ControlWriteProofs --------------------------
(***************************************************************************)
(* Proofs about ControlWrite: its inductive invariant, and what follows    *)
(* for the value that is read back, for the mode of the fan, for what is   *)
(* left unchanged and for the words that are written, for any set of       *)
(* controls and values, any timeouts, and any layout of the control map.   *)
(***************************************************************************)
EXTENDS ControlWrite, TLAPS

\* The invariant holds initially.
LEMMA InitInv == Init => IInv
  <1> SUFFICES ASSUME Init PROVE IInv
    OBVIOUS
  <1> USE ControlWriteAssumption, ControlRegionAssumption DEF Init
  <1>1. TypeOK
    <2>1. current \in {"live", "down"}
      OBVIOUS
    <2>2. cur \in [Controls -> Values] /\ hw \in [Controls -> Values]
      OBVIOUS
    <2>3. waited \in 0..FlushTimeout /\ cool \in 0..Cooldown
      OBVIOUS
    <2>4. attempt \in {1, 2} /\ call \in Call \cup {None} /\ report \in Answer \cup {None}
      OBVIOUS
    <2>5. flags \subseteq Controls /\ torn \subseteq Controls /\ flush \in BOOLEAN
      OBVIOUS
    <2>7. disturbed \in BOOLEAN /\ intruded \in BOOLEAN
      OBVIOUS
    <2>6. up \in BOOLEAN /\ auto \in BOOLEAN /\ hwAuto \in BOOLEAN
      OBVIOUS
    <2> QED
      BY <2>1, <2>2, <2>3, <2>4, <2>5, <2>6, <2>7 DEF TypeOK
  <1>2. MutexForWriteOnly /\ DivergenceIsOwed /\ NothingTornIsAwaited
    BY DEF MutexForWriteOnly, DivergenceIsOwed, NothingTornIsAwaited
  <1>3. CompletionIsAfterApply /\ IntrusionIsPending /\ FanStaysManual
    BY DEF CompletionIsAfterApply, IntrusionIsPending, FanStaysManual
  <1> QED
    BY <1>1, <1>2, <1>3 DEF IInv

\* Every step of the environment keeps it.
LEMMA EnvironmentInv == IInv /\ Environment => IInv'
  <1> SUFFICES ASSUME IInv, Environment PROVE IInv'
    OBVIOUS
  <1> USE ControlWriteAssumption, ControlRegionAssumption
  <1> USE DEF IInv, TypeOK, MutexForWriteOnly, DivergenceIsOwed, NothingTornIsAwaited,
              CompletionIsAfterApply, IntrusionIsPending, FanStaysManual, map, device, wrap
  <1>0. report' = None
    BY DEF Environment
  <1>1. CASE Serve
    <2>1. hw' \in [Controls -> Values] /\ cur' = hw' /\ hwAuto' = auto' /\ torn' = {} /\ ~flush'
      BY <1>0, <1>1 DEF Serve
    <2>2. TypeOK'
      BY <1>0, <1>1, <2>1 DEF Serve
    <2>3. MutexForWriteOnly' /\ DivergenceIsOwed' /\ NothingTornIsAwaited'
      BY <1>0, <1>1, <2>1 DEF Serve
    <2>4. CompletionIsAfterApply' /\ IntrusionIsPending' /\ FanStaysManual'
      BY <1>0, <1>1, <2>1 DEF Serve
    <2> QED
      BY <2>2, <2>3, <2>4
  <1>2. CASE Exit
    <2>1. TypeOK' /\ MutexForWriteOnly'
      BY <1>0, <1>2 DEF Exit
    <2>2. DivergenceIsOwed' /\ NothingTornIsAwaited' /\ CompletionIsAfterApply' /\ IntrusionIsPending' /\ FanStaysManual'
      BY <1>0, <1>2 DEF Exit
    <2> QED
      BY <2>1, <2>2
  <1>3. CASE Start
    <2>1. hw' \in [Controls -> Values]
      BY <1>0, <1>3 DEF Start
    <2> QED
      BY <1>0, <1>3, <2>1 DEF Start
  <1>4. CASE OtherLocks
    BY <1>0, <1>4 DEF OtherLocks
  <1>5. CASE OtherUnlocks
    BY <1>0, <1>5 DEF OtherUnlocks
  <1>6. CASE Rest
    BY <1>0, <1>6 DEF Rest
  <1>7. CASE Killed
    <2>1. cur' \in [Controls -> Values] /\ auto' \in BOOLEAN /\ torn' \subseteq Controls
      BY <1>0, <1>7 DEF Killed, Idle, Call, Writable
    <2>2. TypeOK'
      <3>1. current' \in {"live", "down"} /\ cool' \in 0..Cooldown /\ waited' \in 0..FlushTimeout
        BY <1>0, <1>7 DEF Killed, Idle
      <3>2. mutex' \in {"free", "plugin", "other"}
        BY <1>0, <1>7 DEF Killed
      <3> QED
        BY <1>0, <1>7, <2>1, <3>1, <3>2 DEF Killed, Idle
    <2>3. DivergenceIsOwed'
      BY <1>0, <1>7, <2>1 DEF Killed, Idle, Call, Writable
    <2> QED
      BY <1>0, <1>7, <2>2, <2>3 DEF Killed, Idle
  <1>8. ASSUME NEW c \in Controls, NEW v \in Values, UserSets(c, v) PROVE IInv'
    BY <1>0, <1>8 DEF UserSets
  <1>9. ASSUME NEW c \in Controls, NEW v \in Values, OtherWrites(c, v) PROVE IInv'
    BY <1>0, <1>9 DEF OtherWrites
  <1> QED
    BY <1>1, <1>2, <1>3, <1>4, <1>5, <1>6, <1>7, <1>8, <1>9 DEF Environment

\* The end of the verification: the call goes on to the retry, or it ends with what
\* was read or with an error.
LEMMA VerifyAnswers ==
    ASSUME Verify
    PROVE  /\ pc = "verify" /\ mutex = "free"
           /\ UNCHANGED <<device, map, mutex, torn, intruded>>
           /\ \/ /\ pc' = "failed"
                 /\ UNCHANGED <<call, attempt, waited, wrap, report, disturbed>>
              \/ /\ Idle /\ UNCHANGED wrap
                 /\ report' = Answered("error", None, None)
              \/ /\ up /\ Idle /\ UNCHANGED wrap
                 /\ report' = Answered("verified", call.value,
                        IF call.feature \in flags THEN cur[call.feature] ELSE None)
  <1>1. (~up \/ Verdict(header) = "unavailable") \/ (up /\ Refused(header)) \/ (up /\ Usable(header))
    <2>1. Verdict(header) \in {"ok", "unavailable", "unsupported"}
      BY DEF Verdict
    <2> QED
      BY <2>1 DEF Usable, Refused
  <1>2. CASE ~up \/ Verdict(header) = "unavailable"
    BY <1>2 DEF Verify, Refused, Usable, Finish
  <1>3. CASE up /\ Refused(header) /\ Verdict(header) # "unavailable"
    BY <1>3 DEF Verify, Refused, Usable, Finish
  <1>4. CASE up /\ Usable(header) /\ ~Refused(header) /\ Verdict(header) # "unavailable"
    BY <1>4 DEF Verify, Finish
  <1> QED
    BY <1>1, <1>2, <1>3, <1>4

\* So does every step of the plugin.
LEMMA PluginInv == IInv /\ Plugin => IInv'
  <1> SUFFICES ASSUME IInv, Plugin PROVE IInv'
    OBVIOUS
  <1> USE ControlWriteAssumption, ControlRegionAssumption
  <1> USE DEF IInv, TypeOK, MutexForWriteOnly, DivergenceIsOwed, NothingTornIsAwaited,
              CompletionIsAfterApply, IntrusionIsPending, FanStaysManual, map, device, wrap
  <1>1. ASSUME Probe PROVE current' \in {"live", "down"} /\ cool' \in 0..Cooldown
    BY <1>1 DEF Probe, Detects
  <1>2. ASSUME pc # "idle"
        PROVE  /\ Answered("error", None, None) \in Answer
               /\ Answered("noop", call.value, None) \in Answer
               /\ Answered("verified", call.value,
                      IF call.feature \in flags THEN cur[call.feature] ELSE None) \in Answer
    BY <1>2 DEF Answered, Answer, Call
  <1>3. CASE Route
    BY <1>1, <1>3 DEF Route, Prepare
  <1>4. CASE Open
    BY <1>4 DEF Open
  <1>5. CASE Lock
    BY <1>5 DEF Lock
  <1>6. CASE WriteFails
    BY <1>6 DEF WriteFails
  <1> USE DEF Writable
  <1>7. CASE WriteUnsupported
    <2>1. pc # "idle" /\ pc' = "idle" /\ waited' \in 0..FlushTimeout
      BY <1>7 DEF WriteUnsupported, Finish, Idle
    <2>3. report' \in Answer
      BY <1>2, <1>7, <2>1 DEF WriteUnsupported, Finish
    <2>2. TypeOK'
      BY <1>7, <2>1, <2>3 DEF WriteUnsupported, Finish, Idle
    <2> QED
      BY <1>7, <2>2 DEF WriteUnsupported, Finish, Idle
  <1>8. CASE WriteNoop
    <2>1. pc # "idle" /\ pc' = "idle" /\ waited' \in 0..FlushTimeout
      BY <1>8 DEF WriteNoop, Finish, Idle
    <2>3. report' \in Answer
      BY <1>2, <1>8, <2>1 DEF WriteNoop, Finish
    <2>2. TypeOK'
      BY <1>8, <2>1, <2>3 DEF WriteNoop, Finish, Idle, Call
    <2> QED
      BY <1>8, <2>2 DEF WriteNoop, Finish, Idle, Call
  <1>9. CASE Write
    <2>1. Field[call.value] \in Values /\ call.feature \in Controls
      BY <1>9 DEF Write, Call
    <2>2. cur' \in [Controls -> Values]
      BY <1>9, <2>1 DEF Write, Put
    <2>3. TypeOK'
      BY <1>9, <2>2 DEF Write, Put
    <2> QED
      BY <1>9, <2>3 DEF Write, Put
  <1>10. CASE PollDone
    BY <1>10 DEF PollDone, Alive
  <1>11. CASE PollGone
    BY <1>11 DEF PollGone
  <1>12. CASE PollTimeout
    BY <1>12 DEF PollTimeout
  <1>13. CASE PollAgain
    BY <1>13 DEF PollAgain
  <1>14. CASE Verify
    <2>1. UNCHANGED <<device, map, mutex, torn, intruded>> /\ pc = "verify" /\ mutex = "free"
      BY <1>14, VerifyAnswers
    <2>2. CASE pc' = "failed"
      BY <1>14, <2>1, <2>2, VerifyAnswers DEF Idle
    <2>3. CASE Idle /\ UNCHANGED wrap /\ report' \in Answer
      <3>1. pc' = "idle" /\ waited' \in 0..FlushTimeout
        BY <2>3 DEF Idle
      <3>2. TypeOK'
        BY <2>1, <2>3, <3>1 DEF Idle
      <3> QED
        BY <2>1, <2>3, <3>1, <3>2 DEF Idle
    <2> QED
      BY <1>2, <1>14, <2>1, <2>2, <2>3, VerifyAnswers DEF Idle
  <1>15. CASE Recover
    <2>1. current' \in {"live", "down"} /\ cool' \in 0..Cooldown
      BY <1>1, <1>15 DEF Recover
    <2>2. CASE pc' = "open" /\ attempt' = 2 /\ UNCHANGED <<call, waited, report, disturbed>>
      BY <1>15, <2>1, <2>2 DEF Recover
    <2>3. CASE report' = Answered("error", None, None) /\ Idle
      <3>1. pc # "idle" /\ pc' = "idle" /\ waited' \in 0..FlushTimeout
        BY <1>15, <2>3 DEF Recover, Idle
      <3>2. report' \in Answer
        BY <1>2, <2>3, <3>1
      <3>3. TypeOK'
        BY <1>15, <2>1, <2>3, <3>1, <3>2 DEF Recover, Idle
      <3> QED
        BY <1>15, <2>3, <3>3 DEF Recover, Idle
    <2> QED
      BY <1>15, <2>2, <2>3 DEF Recover
  <1>16. CASE GiveUp
    <2>1. pc # "idle" /\ pc' = "idle" /\ waited' \in 0..FlushTimeout
      BY <1>16 DEF GiveUp, Finish, Idle
    <2>3. report' \in Answer
      BY <1>2, <1>16, <2>1 DEF GiveUp, Finish
    <2>2. TypeOK'
      BY <1>16, <2>1, <2>3 DEF GiveUp, Finish, Idle
    <2> QED
      BY <1>16, <2>2 DEF GiveUp, Finish, Idle
  <1> QED
    BY <1>3, <1>4, <1>5, <1>6, <1>7, <1>8, <1>9, <1>10, <1>11, <1>12, <1>13,
       <1>14, <1>15, <1>16 DEF Plugin

LEMMA RequestInv ==
    ASSUME IInv, NEW f \in Controls, NEW v \in Asked, Request(f, v)
    PROVE  IInv'
  BY ControlWriteAssumption
  DEF Request, Advertised, IInv, TypeOK, MutexForWriteOnly, DivergenceIsOwed, NothingTornIsAwaited,
      CompletionIsAfterApply, IntrusionIsPending, FanStaysManual, map, device, wrap, Call

\* The decision before the prompt changes the wrapper and the answer.
LEMMA DecideInv ==
    ASSUME IInv, NEW f \in Controls, NEW v \in Asked, Decide(f, v)
    PROVE  IInv'
  <1>1. current' \in {"live", "down"} /\ cool' \in 0..Cooldown
    BY ControlWriteAssumption DEF Decide, Prepare, Detects, Probe, IInv, TypeOK, wrap
  <1>2. report' \in Answer \cup {None}
    BY DEF Decide, Answer
  <1> QED
    BY <1>1, <1>2 DEF Decide, IInv, TypeOK, MutexForWriteOnly, DivergenceIsOwed,
        NothingTornIsAwaited, CompletionIsAfterApply, IntrusionIsPending, FanStaysManual, map, device

LEMMA StutterInv == IInv /\ UNCHANGED vars => IInv'
  BY DEF vars, IInv, TypeOK, MutexForWriteOnly, DivergenceIsOwed, NothingTornIsAwaited,
         CompletionIsAfterApply, IntrusionIsPending, FanStaysManual

LEMMA StepInv == IInv /\ [Next]_vars => IInv'
  BY EnvironmentInv, PluginInv, RequestInv, DecideInv, StutterInv DEF Next

\* The control map and the hardware stay in step: the invariant of the call.
THEOREM ControlWriteInvariant == Spec => []IInv
  <1> QED
    BY InitInv, StepInv, PTL DEF Spec

\* A report that is new and not empty is the work of one of these steps.
LEMMA WhoReports ==
    ASSUME [Next]_vars, report' # report, report' # None
    PROVE  \/ WriteUnsupported \/ WriteNoop \/ Verify \/ Recover \/ GiveUp
           \/ \E f \in Controls, v \in Asked : Decide(f, v)
  BY DEF Next, Plugin, Environment, Request, Route, Open, Lock, WriteFails, Write, PollDone, PollGone,
         PollTimeout, PollAgain, vars

\* A step that answers reports nothing read, or the value in force, while no
\* write of another client is pending.
LEMMA ReadBackStep ==
    ASSUME IInv, [Next]_vars, report' # report, report' # None, ~intruded
    PROVE  report'.read \in {None, hw[report'.feature]}
  <1>1. CASE WriteUnsupported
    BY <1>1 DEF WriteUnsupported, Finish, Answered
  <1>2. CASE WriteNoop
    BY <1>2 DEF WriteNoop, Finish, Answered
  <1>3. CASE Verify
    BY <1>3, VerifyAnswers DEF Answered, IInv, CompletionIsAfterApply
  <1>4. CASE Recover
    BY <1>4 DEF Recover, Answered
  <1>5. CASE GiveUp
    BY <1>5 DEF GiveUp, Finish, Answered
  <1>6. ASSUME NEW f \in Controls, NEW v \in Asked, Decide(f, v) PROVE report'.read \in {None, hw[report'.feature]}
    BY <1>6 DEF Decide
  <1> QED
    BY WhoReports, <1>1, <1>2, <1>3, <1>4, <1>5, <1>6

\* What the client reads back after a completed FLUSH is the value in force, unless
\* another client has written since and waits for its own FLUSH.
THEOREM ValueReadIsInForce == Spec => ReadBackIsInForce
  <1>1. IInv /\ [Next]_vars =>
            [(report' # report /\ report' # None /\ ~intruded) =>
                report'.read \in {None, hw[report'.feature]}]_vars
    BY ReadBackStep
  <1> QED
    BY <1>1, ControlWriteInvariant, PTL DEF Spec, ReadBackIsInForce

\* A step that reports the fan as set, undisturbed, leaves it in manual mode.
LEMMA ReportedFanStep ==
    ASSUME IInv, [Next]_vars, report' # report, report' # None, ~disturbed,
           report'.kind \in {"noop", "verified"}, report'.feature = Fan
    PROVE  ~auto
  <1>1. CASE WriteUnsupported
    BY <1>1 DEF WriteUnsupported, Finish, Answered
  <1>2. CASE WriteNoop
    BY <1>2 DEF WriteNoop, Finish, Answered, AlreadySet
  <1>3. CASE Verify
    BY <1>3, VerifyAnswers DEF Answered, IInv, FanStaysManual
  <1>4. CASE Recover
    BY <1>4 DEF Recover, Answered
  <1>5. CASE GiveUp
    BY <1>5 DEF GiveUp, Finish, Answered
  <1>6. ASSUME NEW f \in Controls, NEW v \in Asked, Decide(f, v) PROVE ~auto
    BY <1>6 DEF Decide
  <1> QED
    BY WhoReports, <1>1, <1>2, <1>3, <1>4, <1>5, <1>6

\* A fan speed that is reported as set is a manual one.
THEOREM ReportedFanIsManual == Spec => FanSetIsManual
  <1>1. IInv /\ [Next]_vars =>
            [(report' # report /\ report' # None /\ ~disturbed) =>
                (report'.kind \in {"noop", "verified"} /\ report'.feature = Fan => ~auto)]_vars
    BY ReportedFanStep
  <1> QED
    BY <1>1, ControlWriteInvariant, PTL DEF Spec, FanSetIsManual

\* An answer that nothing was changed is about a value in force, or one still owed.
LEMMA NoChangeStep ==
    ASSUME IInv, [Next]_vars, report' # report, report' # None,
           report'.kind \in {"already", "noop"}, up, ~flush, report'.feature \notin torn
    PROVE  Near(hw[report'.feature], report'.claims)
  <1>1. CASE WriteUnsupported
    BY <1>1 DEF WriteUnsupported, Finish, Answered
  <1>2. CASE WriteNoop
    <2>1. report'.feature = call.feature /\ report'.claims = call.value
      BY <1>2 DEF WriteNoop, Finish, Answered
    <2>2. call.feature \in Controls /\ Near(cur[call.feature], call.value)
      BY <1>2 DEF WriteNoop, AlreadySet, IInv, TypeOK, Call
    <2> QED
      BY <2>1, <2>2 DEF IInv, DivergenceIsOwed
  <1>3. CASE Verify
    BY <1>3, VerifyAnswers DEF Answered
  <1>4. CASE Recover
    BY <1>4 DEF Recover, Answered
  <1>5. CASE GiveUp
    BY <1>5 DEF GiveUp, Finish, Answered
  <1>6. ASSUME NEW f \in Controls, NEW v \in Asked, Decide(f, v)
        PROVE  Near(hw[report'.feature], report'.claims)
    <2>1. report'.feature = f /\ report'.claims = v /\ Near(cur[f], v)
      BY <1>6 DEF Decide
    <2> QED
      BY <2>1 DEF IInv, DivergenceIsOwed
  <1> QED
    BY WhoReports, <1>1, <1>2, <1>3, <1>4, <1>5, <1>6

\* "No change made" is true of the hardware, wherever the map is not owed a FLUSH.
THEOREM NoChangeIsTrue == Spec => NoChangeIsOwed
  <1>1. IInv /\ [Next]_vars =>
            [(report' # report /\ report' # None /\ report'.kind \in {"already", "noop"}) =>
                (up /\ ~flush /\ report'.feature \notin torn =>
                    Near(hw[report'.feature], report'.claims))]_vars
    BY NoChangeStep
  <1> QED
    BY <1>1, ControlWriteInvariant, PTL DEF Spec, NoChangeIsOwed

-----------------------------------------------------------------------------
(* The layout of the map.                                                  *)

\* A product grows with its first factor, and the next multiple is one step on.
LEMMA Multiples ==
    ASSUME NEW a \in Nat, NEW b \in Nat, NEW c \in Nat, a < b
    PROVE  /\ a * c \in Nat /\ b * c \in Nat
           /\ a * c + c <= b * c
  <1>1. (b - (a + 1)) * c >= 0
    OBVIOUS
  <1>2. b * c = (a + 1) * c + (b - (a + 1)) * c
    OBVIOUS
  <1>3. (a + 1) * c = a * c + c
    OBVIOUS
  <1>4. a * c \in Nat /\ b * c \in Nat
    OBVIOUS
  <1> QED
    BY <1>1, <1>2, <1>3, <1>4

\* What a header that passed every check says.
LEMMA UsableHeader ==
    ASSUME NEW h \in Headers, Usable(h)
    PROVE  /\ HeaderBytes <= h.size
           /\ h.esize = EntryBytes
           /\ h.size + h.entries * h.esize <= h.mapped
           /\ Gpu < h.entries
           /\ h.size \in Nat /\ h.entries \in Nat /\ h.esize \in Nat /\ h.mapped \in Nat
  <1>1. h.size \in Nat /\ h.entries \in Nat /\ h.esize \in Nat /\ h.mapped \in Nat
    BY ControlRegionAssumption
  <1>2. Verdict(h) = "ok" /\ Gpu < h.entries
    BY DEF Usable
  <1>3. /\ ~(h.size < HeaderBytes \/ h.entries > MaxEntries)
        /\ ~(h.entries > 0 /\ h.esize # EntryBytes)
        /\ ~(RegionEnd(h) > h.mapped)
    BY <1>2, Zenon DEF Verdict
  <1>4. h.entries > 0
    BY <1>1, <1>2, ControlRegionAssumption
  <1>5. RegionEnd(h) \in Nat
    BY <1>1, Multiples DEF RegionEnd
  <1> QED
    BY <1>1, <1>2, <1>3, <1>4, <1>5, ControlRegionAssumption DEF RegionEnd

\* The words of a write belong to the one entry, and the command to none.
LEMMA UsableOwnsItsWords ==
    ASSUME NEW h \in Headers, Usable(h), NEW c \in Controls
    PROVE  OwnWords(h, c)
  <1> DEFINE base == EntryOffset(h, Gpu)
  <1>1. /\ HeaderBytes <= h.size /\ h.esize = EntryBytes /\ Gpu < h.entries
        /\ h.size + h.entries * h.esize <= h.mapped
        /\ h.size \in Nat /\ h.entries \in Nat /\ h.esize \in Nat /\ h.mapped \in Nat
    BY UsableHeader
  <1>2. /\ Gpu * h.esize \in Nat /\ h.entries * h.esize \in Nat
        /\ Gpu * h.esize + h.esize <= h.entries * h.esize
    BY <1>1, Multiples, ControlRegionAssumption
  <1>3. base \in Nat /\ h.size <= base /\ base + h.esize <= h.mapped
    BY <1>1, <1>2 DEF EntryOffset
  <1>4. \A w \in WordOffsets(h, c) :
            w = CommandAt \/ (w \in Nat /\ base <= w /\ w + 4 <= base + h.esize)
    <2>1. /\ FieldAt[c] \in Nat /\ FieldAt[c] + 4 <= h.esize
          /\ FanFlagsAt \in Nat /\ FanFlagsAt + 4 <= h.esize
      BY <1>1, ControlRegionAssumption
    <2> HIDE DEF base
    <2>2. ASSUME NEW w, w = base + FieldAt[c] \/ w = base + FanFlagsAt
          PROVE  w \in Nat /\ base <= w /\ w + 4 <= base + h.esize
      BY <1>1, <1>3, <2>1, <2>2
    <2> QED
      BY <2>2 DEF WordOffsets, base
  <1>5. CommandAt \in Nat /\ CommandAt + 4 <= h.size /\ CommandAt + 4 <= h.mapped
    BY <1>1, <1>3, ControlRegionAssumption
  <1>6. ASSUME NEW w \in WordOffsets(h, c) PROVE w + 4 <= h.mapped
    BY <1>1, <1>3, <1>4, <1>5
  <1>7. ASSUME NEW w \in WordOffsets(h, c), NEW gpu \in 0..(h.entries - 1),
               Touches(h, gpu, w)
        PROVE  gpu = Gpu /\ w # CommandAt
    <2>1. gpu \in Nat /\ gpu < h.entries /\ Gpu \in Nat
      BY <1>1, ControlRegionAssumption
    <2>2. gpu * h.esize \in Nat
      BY <1>1, <2>1, Multiples
    <2>3. w < h.size + gpu * h.esize + h.esize /\ h.size + gpu * h.esize < w + 4
      BY <1>7 DEF Touches, EntryOffset
    <2>4. w # CommandAt
      BY <1>1, <1>5, <2>2, <2>3
    <2>5. w \in Nat /\ base <= w /\ w + 4 <= base + h.esize
      BY <1>4, <2>4
    <2>6. CASE gpu < Gpu
      <3>1. gpu * h.esize + h.esize <= Gpu * h.esize
        BY <1>1, <2>1, <2>6, Multiples
      <3> QED
        BY <1>1, <1>2, <2>2, <2>3, <2>5, <3>1 DEF EntryOffset
    <2>7. CASE Gpu < gpu
      <3>1. Gpu * h.esize + h.esize <= gpu * h.esize
        BY <1>1, <2>1, <2>7, Multiples
      <3> QED
        BY <1>1, <1>2, <2>2, <2>3, <2>5, <3>1 DEF EntryOffset
    <2>8. gpu = Gpu \/ gpu < Gpu \/ Gpu < gpu
      BY <2>1
    <2> QED
      BY <2>4, <2>6, <2>7, <2>8
  <1> QED
    BY <1>6, <1>7 DEF OwnWords

\* No write leaves the view or the entry of its GPU, whatever the header says.
THEOREM EveryWriteIsOwn == Spec => []WritesOwnWords
  <1>1. IInv => WritesOwnWords
    BY UsableOwnsItsWords DEF IInv, TypeOK, WritesOwnWords, Writable, Call
  <1> QED
    BY <1>1, ControlWriteInvariant, PTL

-----------------------------------------------------------------------------
(* How many steps a call takes: what liveness needs besides fairness.      *)

\* The steps of the plugin that are left of this attempt, at most.
LeftNow ==
    CASE pc = "failed" -> 1
      [] pc = "verify" -> 2
      [] pc = "poll"   -> 3 + (FlushTimeout - waited)
      [] pc = "write"  -> FlushTimeout + 4
      [] pc = "lock"   -> FlushTimeout + 5
      [] pc = "open"   -> FlushTimeout + 6
      [] pc = "route"  -> FlushTimeout + 7

\* Those that are left of the call; a retry may be to come.
Left == IF pc = "idle" THEN 0 ELSE (2 - attempt) * (FlushTimeout + 8) + LeftNow

Counted == Left \in 0..(2 * FlushTimeout + 15) /\ (Left = 0 <=> pc = "idle")

\* The plugin's steps lower the count, and nobody raises it.
Descends == pc # "idle" => IF Plugin THEN Left' < Left ELSE Left' \in {0, Left}

LEMMA LeftIsCounted == TypeOK => Counted
  <1> SUFFICES ASSUME TypeOK PROVE Counted
    OBVIOUS
  <1>1. /\ FlushTimeout \in Nat /\ waited \in 0..FlushTimeout /\ attempt \in {1, 2}
        /\ pc \in {"idle", "route", "open", "lock", "write", "poll", "verify", "failed"}
    BY ControlWriteAssumption DEF TypeOK
  <1>2. pc # "idle" => LeftNow \in 1..(FlushTimeout + 7)
    BY <1>1 DEF LeftNow
  <1> QED
    BY <1>1, <1>2 DEF Counted, Left

\* An attempt that goes on is one step nearer its end.
LEMMA PluginDescends ==
    ASSUME TypeOK, TypeOK', Plugin
    PROVE  Left' < Left
  <1> USE DEF wrap
  <1>1. /\ FlushTimeout \in Nat /\ waited \in 0..FlushTimeout /\ attempt \in {1, 2}
        /\ waited' \in 0..FlushTimeout
    BY ControlWriteAssumption DEF TypeOK
  <1>2. CASE pc' = "idle"
    <2>1. pc # "idle"
      BY DEF Plugin, Route, Open, Lock, WriteFails, WriteUnsupported, WriteNoop, Write, PollDone,
             PollGone, PollTimeout, PollAgain, Verify, Recover, GiveUp
    <2> QED
      BY <1>2, <2>1, LeftIsCounted DEF Counted, Left
  <1>3. CASE pc' # "idle" /\ ~Recover
    <2>1. attempt' = attempt /\ pc # "idle" /\ pc' # "idle"
      <3>1. CASE Verify
        BY <1>3, <3>1, VerifyAnswers DEF Idle
      <3>2. CASE ~Verify
        BY <1>3, <3>2 DEF Plugin, Route, Open, Lock, WriteFails, WriteUnsupported, WriteNoop, Write,
                          PollDone, PollGone, PollTimeout, PollAgain, GiveUp, Finish, Idle
      <3> QED
        BY <3>1, <3>2
    <2>2. LeftNow \in Nat /\ LeftNow' \in Nat
      BY <1>1, <2>1 DEF LeftNow, TypeOK
    <2>3. LeftNow' < LeftNow
      <3>1. CASE Route
        BY <1>1, <2>1, <3>1 DEF Route, LeftNow
      <3>2. CASE Open
        BY <1>1, <2>1, <3>2 DEF Open, LeftNow
      <3>3. CASE Lock
        BY <1>1, <2>1, <3>3 DEF Lock, LeftNow
      <3>4. CASE WriteFails \/ WriteUnsupported \/ WriteNoop
        BY <1>1, <2>1, <3>4 DEF WriteFails, WriteUnsupported, WriteNoop, Finish, Idle, LeftNow
      <3>5. CASE Write
        BY <1>1, <2>1, <3>5 DEF Write, LeftNow
      <3>6. CASE PollDone \/ PollGone
        BY <1>1, <2>1, <3>6 DEF PollDone, PollGone, LeftNow
      <3>7. CASE PollTimeout
        BY <1>1, <2>1, <3>7 DEF PollTimeout, LeftNow
      <3>8. CASE PollAgain
        BY <1>1, <2>1, <3>8 DEF PollAgain, LeftNow
      <3>9. CASE Verify
        <4>1. pc = "verify" /\ pc' = "failed"
          BY <2>1, <3>9, VerifyAnswers DEF Idle
        <4> QED
          BY <4>1 DEF LeftNow
      <3>10. CASE GiveUp
        BY <2>1, <3>10 DEF GiveUp, Finish, Idle
      <3> QED
        BY <1>3, <3>1, <3>2, <3>3, <3>4, <3>5, <3>6, <3>7, <3>8, <3>9, <3>10 DEF Plugin
    <2>4. \E k, a, b \in Nat : Left = k + a /\ Left' = k + b /\ b < a
      <3>1. (2 - attempt) * (FlushTimeout + 8) \in Nat
        BY <1>1
      <3>2. /\ Left = (2 - attempt) * (FlushTimeout + 8) + LeftNow
            /\ Left' = (2 - attempt) * (FlushTimeout + 8) + LeftNow'
        BY <2>1 DEF Left
      <3> QED
        BY <2>2, <2>3, <3>1, <3>2, Zenon
    <2> QED
      BY <2>4
  <1>4. CASE pc' # "idle" /\ Recover
    <2>1. pc = "failed" /\ attempt = 1 /\ pc' = "open" /\ attempt' = 2
      BY <1>4 DEF Recover, Idle
    <2>2. LeftNow = 1 /\ LeftNow' = FlushTimeout + 6
      BY <2>1 DEF LeftNow
    <2> QED
      BY <1>1, <2>1, <2>2 DEF Left
  <1> QED
    BY <1>2, <1>3, <1>4

\* What others do in between leaves the count alone, or ends the call.
LEMMA OthersDoNotRaise ==
    ASSUME pc # "idle", [Next]_vars, ~Plugin
    PROVE  Left' \in {0, Left}
  <1>1. CASE UNCHANGED <<pc, attempt, waited>>
    <2>1. LeftNow' = LeftNow
      BY <1>1 DEF LeftNow
    <2> QED
      BY <1>1, <2>1 DEF Left
  <1>2. CASE Killed
    BY <1>2 DEF Killed, Idle, Left
  <1>3. ~(\E f \in Controls, v \in Asked : Request(f, v) \/ Decide(f, v))
    BY DEF Request, Decide
  <1>4. UNCHANGED <<pc, attempt, waited>> \/ Killed
    BY <1>3 DEF Next, Environment, Serve, Exit, Start, OtherLocks, OtherUnlocks, OtherWrites, Rest, UserSets, vars
  <1> QED
    BY <1>1, <1>2, <1>4

\* A call takes at most 2 * FlushTimeout + 15 steps of the plugin, whatever
\* Afterburner, the user and other tools do between them: it polls no longer than the
\* timeout, and tries again at most once (_wait_for_completion, _route).
THEOREM CallsCountDown == Spec => []Counted /\ [][Descends]_vars
  <1>1. IInv => Counted
    BY LeftIsCounted DEF IInv
  <1>2. IInv /\ IInv' /\ [Next]_vars => [Descends]_vars
    BY PluginDescends, OthersDoNotRaise DEF IInv, Descends
  <1> QED
    BY <1>1, <1>2, ControlWriteInvariant, PTL DEF Spec
=============================================================================
