------------------------------ MODULE Telemetry ------------------------------
(***************************************************************************)
(* TelemetryService (afterburner/services/telemetry.py) for one GPU: a     *)
(* cache with a time to live, a least distance between polls and a flag    *)
(* for stale samples.                                                      *)
(*                                                                         *)
(* The service has two clocks: the monotonic one ages the cache, the wall  *)
(* clock stamps the sample (sampled_at), and may be set by anybody.  Times *)
(* are ages, counted as far as the code tells them apart, so that no clock *)
(* needs a bound.                                                          *)
(***************************************************************************)
EXTENDS Integers

CONSTANTS
    Samples,        \* what a read of MAHM can return
    TTL,            \* TELEMETRY_TTL_SECONDS
    MinPoll,        \* MIN_POLL_INTERVAL_SECONDS
    Stale,          \* STALE_THRESHOLD_SECONDS
    MaxDelay,       \* bound on the time a read takes
    MaxSkew,        \* bound on how far the wall clock is set back
    None            \* no sample, no answer

ASSUME TelemetryAssumption ==
    /\ TTL \in Nat
    /\ MinPoll \in Nat
    /\ Stale \in Nat
    /\ MinPoll <= TTL
    /\ TTL <= Stale
    /\ MaxDelay \in Nat
    /\ MaxSkew \in Nat
    /\ None \notin Samples

VARIABLES
    cached,         \* the sample in _cache, or None
    age,            \* its age by the monotonic clock
    wallAge,        \* its age by the wall clock: _now() - sampled_at
    sinceAttempt,   \* time since _last_attempt
    served,         \* the answer of the last get_status
    spacing         \* history: the time between the last two attempts to read

clocks == <<age, wallAge, sinceAttempt>>
vars   == <<cached, clocks, served, spacing>>

-----------------------------------------------------------------------------
Least(x, y) == IF x < y THEN x ELSE y

\* Ages past the largest threshold are all alike.
Aged(a, d) == Least(a + d, Stale + 1)

Answer(sample, stale, a) == [sample |-> sample, stale |-> stale, age |-> a]

Error == Answer(None, FALSE, 0)

Init ==
    /\ cached = None
    /\ age = Stale + 1
    /\ wallAge = Stale + 1
    /\ sinceAttempt = Stale + 1
    /\ served = None
    /\ spacing = Stale + 1

Tick ==
    /\ age' = Aged(age, 1)
    /\ wallAge' = Aged(wallAge, 1)
    /\ sinceAttempt' = Aged(sinceAttempt, 1)
    /\ served' = None
    /\ UNCHANGED <<cached, spacing>>

\* The wall clock is set, forward or back.
WallClockSet ==
    /\ wallAge' \in (-MaxSkew)..(Stale + 1)
    /\ served' = None
    /\ UNCHANGED <<cached, age, sinceAttempt, spacing>>

-----------------------------------------------------------------------------
(* get_status.                                                             *)

Fresh == cached # None /\ age < TTL

\* Mutant of RateLimited: rates are limited only as long as a poll succeeded.
RateLimitedByAge == cached # None /\ age >= TTL /\ age < MinPoll

RateLimited == cached # None /\ age >= TTL /\ sinceAttempt < MinPoll

ServeFresh ==
    /\ Fresh
    /\ served' = Answer(cached, FALSE, age)
    /\ UNCHANGED <<cached, clocks, spacing>>

\* Mutant of ServeRateLimited: a cached sample is served as a good one.
ServeRateLimitedAsGood ==
    /\ RateLimited
    /\ served' = Answer(cached, FALSE, age)
    /\ UNCHANGED <<cached, clocks, spacing>>

ServeRateLimited ==
    /\ RateLimited
    /\ served' = Answer(cached, age > Stale, age)
    /\ UNCHANGED <<cached, clocks, spacing>>

\* _poll: the attempt is noted before the read, which takes d.
Attempt(d) ==
    /\ ~Fresh
    /\ ~RateLimited
    /\ spacing' = sinceAttempt
    /\ sinceAttempt' = Least(d, Stale + 1)

\* Mutant of PollSucceeds: the time of the poll is not taken.
PollSucceedsUndated(d) ==
    /\ Attempt(d)
    /\ cached' \in Samples
    /\ age' = Aged(age, d)
    /\ wallAge' = 0
    /\ served' = Answer(cached', FALSE, 0)

PollSucceeds(d) ==
    /\ Attempt(d)
    /\ cached' \in Samples
    /\ age' = 0
    /\ wallAge' = 0
    /\ served' = Answer(cached', FALSE, 0)

\* Mutant of PollFails: a failed poll drops the sample that it answers with.
PollFailsDropping(d) ==
    /\ Attempt(d)
    /\ age' = Aged(age, d)
    /\ wallAge' = Aged(wallAge, d)
    /\ served' = IF cached = None THEN Error ELSE Answer(cached, TRUE, age')
    /\ cached' = None

\* The last good sample is kept, flagged; without one the error is raised.
PollFails(d) ==
    /\ Attempt(d)
    /\ age' = Aged(age, d)
    /\ wallAge' = Aged(wallAge, d)
    /\ served' = IF cached = None THEN Error ELSE Answer(cached, TRUE, age')
    /\ UNCHANGED cached

GetStatus ==
    \/ ServeFresh
    \/ ServeRateLimited
    \/ \E d \in 0..MaxDelay : PollSucceeds(d) \/ PollFails(d)

Next == Tick \/ WallClockSet \/ GetStatus

Spec == Init /\ [][Next]_vars

-----------------------------------------------------------------------------
(* Properties.                                                             *)

Ages == 0..(Stale + 1)

TypeOK ==
    /\ cached \in Samples \cup {None}
    /\ age \in Ages
    /\ wallAge \in (-MaxSkew)..(Stale + 1)
    /\ sinceAttempt \in Ages
    /\ served \in [sample : Samples \cup {None}, stale : BOOLEAN, age : Ages] \cup {None}
    /\ spacing \in Ages

\* A sample past the threshold of Requirement 4.5 is never served without the
\* flag, whether it comes from the cache, from behind the rate limit or from a
\* poll that failed, and however slow the reads are.
OldIsFlagged == served # None /\ served.age > Stale => served.stale

\* With a sample in the cache, polls keep their distance (Requirement 4.3), also
\* when every one of them fails.
PollsAreSpaced ==
    [][ (spacing' # spacing /\ cached # None) => spacing' >= MinPoll ]_vars

\* What the cache does with the answer never makes an old sample young: the
\* sample that is served is the one in the cache, at its age.
IInv ==
    /\ TypeOK
    /\ served # None /\ served.sample # None => served.sample = cached /\ served.age = age
    /\ OldIsFlagged
=============================================================================
