----------------------------- MODULE ControlWrite -----------------------------
(***************************************************************************)
(* One call of apply_single_value (afterburner/protocol/plugin.py), down   *)
(* to the shared memory: ReconnectingAfterburner (integration/reconnect.py)*)
(* routes it, AfterburnerControlClient (integration/macm.py) writes the    *)
(* named field and FLUSH under the mutex, polls for completion and reads   *)
(* the value back.                                                         *)
(*                                                                         *)
(* Around it run MSI Afterburner, which serves FLUSH when it likes, exits  *)
(* and starts; the user, who moves its sliders; another client, which      *)
(* takes the mutex and writes by the same protocol; and the engine, which  *)
(* may kill the plugin at any step.                                        *)
(***************************************************************************)
EXTENDS Integers, ControlRegion

CONSTANTS
    Values,         \* values a field can hold, in model units
    Asked,          \* safe values a call is for; they may lie between two of them
    Field,          \* what the field holds for each of them (_to_field_units rounds)
    Rejecting,      \* controls whose new value the hardware may refuse
    Tolerance,      \* TUNING_MATCH_TOLERANCE
    FlushTimeout,   \* DEFAULT_FLUSH_TIMEOUT_SECONDS, in poll intervals
    Cooldown,       \* _RETRY_COOLDOWN_S, in poll intervals
    None            \* no call, no answer, no value

ASSUME ControlWriteAssumption ==
    /\ Rejecting \subseteq Controls
    /\ Values \subseteq Nat
    /\ Values # {}
    /\ Asked \subseteq Nat
    /\ Field \in [Asked -> Values]
    /\ Tolerance \in Nat
    /\ FlushTimeout \in Nat
    /\ Cooldown \in Nat
    /\ None \notin Nat

VARIABLES
    \* MSI Afterburner and the hardware
    up,         \* is Afterburner running: the map is live, not 0xDEAD or gone
    hw,         \* the value in force for each control
    hwAuto,     \* is the fan under automatic control
    \* the control map MACMSharedMemory
    header,     \* its header, and the size of the view
    flags,      \* dwFlags: the controls Afterburner advertises
    cur,        \* the *_Cur word of each control
    auto,       \* the AUTO bit of dwFanFlagsCur
    flush,      \* is dwCommand FLUSH (else 0)
    mutex,      \* owner of Global\Access_MACMSharedMemory: "plugin", "other", "free"
    \* the plugin
    pc,         \* where the call is
    call,       \* the feature and the safe value it is for
    attempt,    \* 1, or 2 for the retry of ReconnectingAfterburner._route
    waited,     \* poll intervals since the notification
    current,    \* ReconnectingAfterburner._current: "live" or "down"
    cool,       \* time since _last_attempt, up to Cooldown
    report,     \* the answer given in the last step, if one was
    \* history
    torn,       \* controls with words in the map that no FLUSH followed
    disturbed,  \* did anybody else set a value during this call
    intruded    \* does the pending FLUSH cover a write of another client

map    == <<header, flags, cur, auto, flush>>
device == <<up, hw, hwAuto>>
wrap   == <<current, cool>>
vars   == <<up, hw, hwAuto, header, flags, cur, auto, flush, mutex, pc, call, attempt,
            waited, current, cool, report, torn, disturbed, intruded>>

-----------------------------------------------------------------------------
Near(x, y) == x - y <= Tolerance /\ y - x <= Tolerance

Call == [feature : Controls, value : Asked]

\* claims is the value the user is told, read the one that was read back.
Answer == [kind : {"already", "verified", "noop", "error"}, feature : Controls,
           claims : Asked \cup {None}, read : Values \cup {None}]

Answered(kind, claims, read) ==
    [kind |-> kind, feature |-> call.feature, claims |-> claims, read |-> read]

Init ==
    /\ up \in BOOLEAN
    /\ hw \in [Controls -> Values]
    /\ hwAuto \in BOOLEAN
    /\ header \in Headers
    /\ flags = Controls
    /\ cur = hw
    /\ auto = hwAuto
    /\ flush = FALSE
    /\ mutex = "free"
    /\ pc = "idle"
    /\ call = None
    /\ attempt = 1
    /\ waited = 0
    /\ current \in {"live", "down"}
    /\ cool = Cooldown
    /\ report = None
    /\ torn = {}
    /\ disturbed = FALSE
    /\ intruded = FALSE

-----------------------------------------------------------------------------
(* The environment.                                                        *)

\* Afterburner serves FLUSH: it applies the map to the hardware, writes what is
\* in force back, and only then clears dwCommand.
Serve ==
    /\ up
    /\ flush
    /\ mutex = "free"
    /\ \E refused \in SUBSET (Rejecting \cap flags) :
        hw' = [c \in Controls |-> IF c \in flags \ refused THEN cur[c] ELSE hw[c]]
    /\ hwAuto' = auto
    /\ cur' = hw'
    /\ flush' = FALSE
    /\ torn' = {}
    /\ intruded' = FALSE
    /\ UNCHANGED <<up, header, flags, auto, mutex, pc, call, attempt, waited, wrap, disturbed>>

\* Afterburner exits; an open view sees the signature 0xDEAD from now on.
Exit ==
    /\ up
    /\ mutex = "free"
    /\ up' = FALSE
    /\ UNCHANGED <<hw, hwAuto, map, mutex, pc, call, attempt, waited, wrap, torn, disturbed, intruded>>

\* Afterburner starts: a new map, with the layout, the controls and the values of
\* that moment.
Start ==
    /\ ~up
    /\ mutex = "free"
    /\ up' = TRUE
    /\ header' \in Headers
    /\ flags' \in {Controls, {Fan}}
    /\ hw' \in {hw} \cup {[c \in Controls |-> v] : v \in Values}
    /\ hwAuto' \in BOOLEAN
    /\ cur' = hw'
    /\ auto' = hwAuto'
    /\ flush' = FALSE
    /\ torn' = {}
    /\ disturbed' = (pc # "idle")
    /\ intruded' = FALSE
    /\ UNCHANGED <<mutex, pc, call, attempt, waited, wrap>>

\* The user moves a slider in Afterburner's window, or ticks Auto.
UserSets(c, v) ==
    /\ up
    /\ mutex = "free"
    /\ hw' = [hw EXCEPT ![c] = v]
    /\ cur' = [cur EXCEPT ![c] = v]
    /\ IF c = Fan
       THEN \E a \in BOOLEAN : hwAuto' = a /\ auto' = a
       ELSE UNCHANGED <<hwAuto, auto>>
    /\ disturbed' = (pc # "idle")
    /\ UNCHANGED <<up, header, flags, flush, mutex, pc, call, attempt, waited, wrap, torn, intruded>>

\* Another client of the map holds the mutex while it looks or writes.
OtherLocks ==
    /\ mutex = "free"
    /\ mutex' = "other"
    /\ UNCHANGED <<device, map, pc, call, attempt, waited, wrap, torn, disturbed, intruded>>

OtherUnlocks ==
    /\ mutex = "other"
    /\ mutex' = "free"
    /\ UNCHANGED <<device, map, pc, call, attempt, waited, wrap, torn, disturbed, intruded>>

\* It writes one named field as the plugin does, FLUSH last.
OtherWrites(c, v) ==
    /\ mutex = "other"
    /\ up
    /\ cur' = [cur EXCEPT ![c] = v]
    /\ auto' = (auto /\ c # Fan)
    /\ flush' = TRUE
    /\ torn' = {}
    /\ disturbed' = (pc # "idle")
    /\ intruded' = TRUE
    /\ UNCHANGED <<device, header, flags, mutex, pc, call, attempt, waited, wrap>>

\* Time between calls, as far as the cooldown tells it apart.
Rest ==
    /\ pc = "idle"
    /\ cool < Cooldown
    /\ cool' = cool + 1
    /\ UNCHANGED <<device, map, mutex, pc, call, attempt, waited, current, torn, disturbed, intruded>>

-----------------------------------------------------------------------------
(* The call.                                                               *)

\* The controls of build_capabilities_from_region, without which validate_and_clamp
\* refuses the call.
Advertised == IF Usable(header) THEN flags ELSE {}

\* apply_single_value, with the value that validate_and_clamp returned.
Request(f, v) ==
    /\ pc = "idle"
    /\ f \in Advertised
    /\ call' = [feature |-> f, value |-> v]
    /\ pc' = "route"
    /\ report' = None
    /\ UNCHANGED <<device, map, mutex, attempt, waited, wrap, torn, disturbed, intruded>>

\* detect() of an interface looks at Afterburner's monitoring map, which says
\* nothing of the control map; the stand-in for an absent Afterburner says for
\* ever that it is not there.
Detects(interface) == IF interface = "live" THEN BOOLEAN ELSE {FALSE}

\* _probe: at most once per cooldown, and the candidate is kept if it works.
Probe ==
    IF cool < Cooldown
    THEN UNCHANGED wrap
    ELSE /\ cool' = 0
         /\ \E ok \in Detects("live") : current' = IF ok THEN "live" ELSE current

\* The beginning of _route: a probe unless the interface says OK.
Prepare == \E ok \in Detects(current) : IF ok THEN UNCHANGED wrap ELSE Probe

\* Mutant of Decide: a value that cannot be read counts as applied.
DecideUnread(f, v) ==
    /\ pc = "idle"
    /\ f \in Advertised
    /\ Prepare
    /\ report' = IF current' = "live" /\ up => Near(cur[f], v)
                 THEN [kind |-> "already", feature |-> f, claims |-> v, read |-> None]
                 ELSE None
    /\ UNCHANGED <<device, map, mutex, pc, call, attempt, waited, torn, disturbed, intruded>>

\* _decision_time_noop, before a prompt: the value of the map is read without the
\* mutex, and its mode is not looked at.  If it cannot be read, or differs, the
\* prompt comes.
Decide(f, v) ==
    /\ pc = "idle"
    /\ f \in Advertised
    /\ Prepare
    /\ report' = IF current' = "live" /\ up /\ Near(cur[f], v)
                 THEN [kind |-> "already", feature |-> f, claims |-> v, read |-> None]
                 ELSE None
    /\ UNCHANGED <<device, map, mutex, pc, call, attempt, waited, torn, disturbed, intruded>>

\* _route, up to its first call of the current interface, which is AfterburnerControlClient
\* or a stand-in that only raises.
Route ==
    /\ pc = "route"
    /\ Prepare
    /\ pc' = IF current' = "live" THEN "open" ELSE "failed"
    /\ UNCHANGED <<device, map, mutex, call, attempt, waited, report, torn, disturbed, intruded>>

\* _ControlMap.__init__; it may fail with the map there (access denied).
Open ==
    /\ pc = "open"
    /\ \/ up /\ pc' = "lock"
       \/ pc' = "failed"
    /\ UNCHANGED <<device, map, mutex, call, attempt, waited, wrap, report, torn, disturbed, intruded>>

\* _ControlMap.mutex waits without a limit.
Lock ==
    /\ pc = "lock"
    /\ mutex = "free"
    /\ mutex' = "plugin"
    /\ pc' = "write"
    /\ UNCHANGED <<device, map, call, attempt, waited, wrap, report, torn, disturbed, intruded>>

\* Nothing of a call is kept but its answer.
Idle ==
    /\ pc' = "idle"
    /\ call' = None
    /\ attempt' = 1
    /\ waited' = 0
    /\ disturbed' = FALSE

\* The call ends with answer a.
Finish(a) ==
    /\ report' = a
    /\ Idle
    /\ UNCHANGED wrap

\* Mutant of AlreadySet: the mode of the fan is not looked at.
AlreadySetInAnyMode == Near(cur[call.feature], call.value)

\* The equality of apply_control_to_region, decided under the mutex.
AlreadySet ==
    /\ Near(cur[call.feature], call.value)
    /\ call.feature = Fan => ~auto

\* The named field can be written.
Writable == up /\ Usable(header) /\ call.feature \in flags

\* The map is no longer valid, or Afterburner is known to run elevated and this
\* process is not: nothing is written, and the code of the error is one that
\* _route retries.
WriteFails ==
    /\ pc = "write"
    /\ \/ ~up
       \/ Verdict(header) = "unavailable"
       \/ Writable /\ ~AlreadySet
    /\ mutex' = "free"
    /\ pc' = "failed"
    /\ UNCHANGED <<device, map, call, attempt, waited, wrap, report, torn, disturbed, intruded>>

\* Another version, no entry for the GPU, or a control that Afterburner does not
\* advertise any more: no retry for these.
WriteUnsupported ==
    /\ pc = "write"
    /\ up
    /\ Refused(header) \/ (Usable(header) /\ call.feature \notin flags)
    /\ mutex' = "free"
    /\ Finish(Answered("error", None, None))
    /\ UNCHANGED <<device, map, torn, intruded>>

WriteNoop ==
    /\ pc = "write"
    /\ Writable
    /\ AlreadySet
    /\ mutex' = "free"
    /\ Finish(Answered("noop", call.value, None))
    /\ UNCHANGED <<device, map, torn, intruded>>

\* Mutant of Put: the command word is not among the offsets to copy back.
PutNoCommand ==
    /\ cur' = [cur EXCEPT ![call.feature] = Field[call.value]]
    /\ auto' = (auto /\ call.feature # Fan)
    /\ UNCHANGED flush

\* The words apply_control_to_region changes, FLUSH last.
Put ==
    /\ cur' = [cur EXCEPT ![call.feature] = Field[call.value]]
    /\ auto' = (auto /\ call.feature # Fan)
    /\ flush' = TRUE

\* write_words, and then the notification.
Write ==
    /\ pc = "write"
    /\ Writable
    /\ ~AlreadySet
    /\ Put
    /\ mutex' = "free"
    /\ torn' = {}
    /\ pc' = "poll"
    /\ waited' = 0
    /\ UNCHANGED <<device, header, flags, call, attempt, wrap, report, disturbed, intruded>>

\* _poll_command looks at the signature alone, and reads the command word.
Alive == up /\ header.initialised

\* What _wait_for_completion makes of the word.
PollDone ==
    /\ pc = "poll"
    /\ mutex = "free"
    /\ Alive
    /\ ~flush
    /\ pc' = "verify"
    /\ UNCHANGED <<device, map, mutex, call, attempt, waited, wrap, report, torn, disturbed, intruded>>

PollGone ==
    /\ pc = "poll"
    /\ mutex = "free"
    /\ ~Alive
    /\ pc' = "failed"
    /\ UNCHANGED <<device, map, mutex, call, attempt, waited, wrap, report, torn, disturbed, intruded>>

\* Mutant of PollTimeout: the wait just ends when its time is up.
PollTimeoutReturns ==
    /\ pc = "poll"
    /\ mutex = "free"
    /\ Alive
    /\ flush
    /\ waited >= FlushTimeout
    /\ pc' = "verify"
    /\ UNCHANGED <<device, map, mutex, call, attempt, waited, wrap, report, torn, disturbed, intruded>>

\* The command was not cleared in time.  It stays in the map.
PollTimeout ==
    /\ pc = "poll"
    /\ mutex = "free"
    /\ Alive
    /\ flush
    /\ waited >= FlushTimeout
    /\ pc' = "failed"
    /\ waited' = 0
    /\ UNCHANGED <<device, map, mutex, call, attempt, wrap, report, torn, disturbed, intruded>>

\* Mutant of PollAgain: every poll starts the five seconds anew.
PollAgainForever ==
    /\ pc = "poll"
    /\ mutex = "free"
    /\ Alive
    /\ flush
    /\ waited < FlushTimeout
    /\ waited' = 0
    /\ cool' = IF cool < Cooldown THEN cool + 1 ELSE cool
    /\ UNCHANGED <<device, map, mutex, pc, call, attempt, current, report, torn, disturbed, intruded>>

\* One sleep of poll_interval.
PollAgain ==
    /\ pc = "poll"
    /\ mutex = "free"
    /\ Alive
    /\ flush
    /\ waited < FlushTimeout
    /\ waited' = waited + 1
    /\ cool' = IF cool < Cooldown THEN cool + 1 ELSE cool
    /\ UNCHANGED <<device, map, mutex, pc, call, attempt, current, report, torn, disturbed, intruded>>

\* _verified_apply_value, after the same checks of the header.  apply_single_value
\* drops the ControlResult and tells the user the value it asked for.
Verify ==
    /\ pc = "verify"
    /\ mutex = "free"
    /\ CASE ~up \/ Verdict(header) = "unavailable" ->
                /\ pc' = "failed"
                /\ UNCHANGED <<call, attempt, waited, wrap, report, disturbed>>
         [] up /\ Refused(header) ->
                Finish(Answered("error", None, None))
         [] up /\ Usable(header) ->
                Finish(Answered("verified", call.value,
                    IF call.feature \in flags THEN cur[call.feature] ELSE None))
    /\ UNCHANGED <<device, map, mutex, torn, intruded>>

\* _route after a recoverable error: probe, and call once more if the interface
\* is there.
Recover ==
    /\ pc = "failed"
    /\ attempt = 1
    /\ Probe
    /\ \E ok \in Detects(current') :
        IF ok
        THEN /\ pc' = "open"
             /\ attempt' = 2
             /\ UNCHANGED <<call, waited, report, disturbed>>
        ELSE /\ report' = Answered("error", None, None)
             /\ Idle
    /\ UNCHANGED <<device, map, mutex, torn, intruded>>

GiveUp ==
    /\ pc = "failed"
    /\ attempt = 2
    /\ Finish(Answered("error", None, None))
    /\ UNCHANGED <<device, map, mutex, torn, intruded>>

\* The engine kills the plugin and starts it again; a mutex it held is abandoned.
\* Of the words of a write, those before FLUSH may be in the map.
Killed ==
    /\ pc # "idle"
    /\ Idle
    /\ current' \in {"live", "down"}
    /\ cool' = Cooldown
    /\ mutex' = IF mutex = "plugin" THEN "free" ELSE mutex
    /\ \/ UNCHANGED <<cur, auto, torn>>
       \/ /\ pc = "write"
          /\ Writable
          /\ ~AlreadySet
          /\ cur' = [cur EXCEPT ![call.feature] = Field[call.value]]
          /\ auto' \in {auto, auto /\ call.feature # Fan}
          /\ torn' = torn \cup {call.feature}
    /\ UNCHANGED <<device, header, flags, flush, intruded>>

-----------------------------------------------------------------------------
Plugin ==
    \/ Route \/ Open \/ Lock
    \/ WriteFails \/ WriteUnsupported \/ WriteNoop \/ Write
    \/ PollDone \/ PollGone \/ PollTimeout \/ PollAgain
    \/ Verify \/ Recover \/ GiveUp

Environment ==
    /\ report' = None
    /\ \/ Serve \/ Exit \/ Start \/ OtherLocks \/ OtherUnlocks \/ Rest \/ Killed
       \/ \E c \in Controls, v \in Values : UserSets(c, v) \/ OtherWrites(c, v)

Next ==
    \/ Plugin
    \/ Environment
    \/ \E f \in Controls, v \in Asked : Request(f, v) \/ Decide(f, v)

\* The plugin's thread runs, and gets a mutex that is released again and again
\* (Windows queues its waiters); another tool does not keep it for ever.  Nothing
\* is assumed of Afterburner.
Spec ==
    /\ Init /\ [][Next]_vars
    /\ SF_vars(Plugin)
    /\ WF_vars(OtherUnlocks /\ report' = None)

-----------------------------------------------------------------------------
(* Properties.                                                             *)

TypeOK ==
    /\ up \in BOOLEAN
    /\ hw \in [Controls -> Values]
    /\ hwAuto \in BOOLEAN
    /\ header \in Headers
    /\ flags \subseteq Controls
    /\ cur \in [Controls -> Values]
    /\ auto \in BOOLEAN
    /\ flush \in BOOLEAN
    /\ mutex \in {"free", "plugin", "other"}
    /\ pc \in {"idle", "route", "open", "lock", "write", "poll", "verify", "failed"}
    /\ call \in Call \cup {None}
    /\ pc # "idle" => call \in Call
    /\ attempt \in {1, 2}
    /\ waited \in 0..FlushTimeout
    /\ current \in {"live", "down"}
    /\ cool \in 0..Cooldown
    /\ report \in Answer \cup {None}
    /\ torn \subseteq Controls
    /\ disturbed \in BOOLEAN
    /\ intruded \in BOOLEAN

\* The mutex is held for the read-modify-write and never while waiting.
MutexForWriteOnly == (mutex = "plugin") <=> (pc = "write")

\* A value in the map that is not in force has a FLUSH waiting for Afterburner,
\* unless a killed plugin left it (write_words: the command word is last).
DivergenceIsOwed ==
    up /\ ~flush =>
        /\ \A c \in Controls \ torn : cur[c] = hw[c]
        /\ Fan \notin torn => auto = hwAuto

\* Once the poll saw the command cleared, the map holds what is in force, until
\* another client writes.
CompletionIsAfterApply ==
    pc = "verify" /\ up /\ ~intruded => ~flush /\ cur = hw /\ auto = hwAuto

\* The write of another client waits for Afterburner with its own FLUSH.
IntrusionIsPending == intruded => flush

\* What the poll waits for covers every word in the map.
NothingTornIsAwaited == pc \in {"poll", "verify"} /\ up => torn = {}

\* A fan setpoint on its way to the hardware is a manual one.
FanStaysManual ==
    pc \in {"poll", "verify"} /\ call.feature = Fan /\ ~disturbed => ~auto

\* The inductive invariant: from the write to the answer of a call, whoever
\* serves, exits, starts, moves a slider or was killed before, map and hardware
\* differ only where a FLUSH is pending or a killed plugin left a word.
IInv ==
    /\ TypeOK
    /\ MutexForWriteOnly
    /\ DivergenceIsOwed
    /\ NothingTornIsAwaited
    /\ CompletionIsAfterApply
    /\ IntrusionIsPending
    /\ FanStaysManual

\* The value read back is the one in force, although completions of earlier
\* calls, exits, restarts, sliders and other clients intervene, unless a write of
\* another client is pending just then: the command that was seen cleared and the
\* value are read under two holds of the mutex (macm.py's head: never a mid-flight
\* value; _wait_for_completion, _verified_apply_value).
ReadBackIsInForce ==
    [][ (report' # report /\ report' # None /\ ~intruded) =>
            report'.read \in {None, hw[report'.feature]} ]_vars

\* When a call reports a fan speed as set and nobody else touched it, the map says
\* manual: a fan on auto is not "already set" (apply_control_to_region).  The
\* decision before the prompt does not make this distinction.
FanSetIsManual ==
    [][ (report' # report /\ report' # None /\ ~disturbed) =>
            (report'.kind \in {"noop", "verified"} /\ report'.feature = Fan => ~auto) ]_vars

\* "No change made", before the prompt or under the mutex, is said of a value that
\* is in force, unless a FLUSH is still pending or a killed plugin left the word:
\* both compare with the map and never with the hardware.
NoChangeIsOwed ==
    [][ (report' # report /\ report' # None /\ report'.kind \in {"already", "noop"}) =>
            (up /\ ~flush /\ report'.feature \notin torn =>
                Near(hw[report'.feature], report'.claims)) ]_vars

\* Whatever header Afterburner lays out, a write stays within the view that was
\* mapped, within the entry of its GPU and away from those of the others: the
\* checks of validate_control_region leave no offset out.
WritesOwnWords == pc = "write" /\ Writable => OwnWords(header, call.feature)

\* Every call returns, whatever Afterburner does (the five seconds of
\* _wait_for_completion, the single retry of _route): the plugin is idle again and
\* again.
EveryCallReturns == []<>(pc = "idle")

\* The docstring of _raise_if_write_blocked_by_elevation: when a FLUSH is not
\* confirmed in time, the timeout error stands.  So where _route tries again, an
\* answer that is no error means that the value of the map is in force.  (Values
\* a killed plugin left, or another client, are another matter.)
SuccessIsConfirmed ==
    [][ (report' # report /\ report' # None /\ attempt = 2 /\ torn = {} /\ ~intruded) =>
            (report'.kind # "error" => cur[report'.feature] = hw[report'.feature]) ]_vars
=============================================================================
