--------------------------- MODULE TelemetryProofs ---------------------------
(***************************************************************************)
(* Proofs about Telemetry, Diagnostics and Startup, for every set of       *)
(* samples, threshold, duration of a read and move of the wall clock.      *)
(***************************************************************************)
EXTENDS Startup, TLAPS

-----------------------------------------------------------------------------
(* Ages.                                                                   *)

LEMMA AgedIsAge ==
    ASSUME NEW a \in Int, a <= Stale + 1, NEW d \in Nat
    PROVE  /\ Aged(a, d) \in Int
           /\ a <= Aged(a, d) /\ Aged(a, d) <= Stale + 1
           /\ a \in Ages => Aged(a, d) \in Ages
  BY TelemetryAssumption DEF Aged, Least, Ages

\* The answers, and one that may be given now.
Answers == [sample : Samples \cup {None}, stale : BOOLEAN, age : Ages]

Honest(a) ==
    /\ a.sample # None => a.sample = cached /\ a.age = age
    /\ a.age > Stale => a.stale

Clocks ==
    /\ cached \in Samples \cup {None}
    /\ age \in Ages
    /\ wallAge \in (-MaxSkew)..(Stale + 1)
    /\ sinceAttempt \in Ages
    /\ spacing \in Ages

LEMMA InvParts ==
    IInv <=> Clocks /\ served \in Answers \cup {None} /\ (served # None => Honest(served))
  BY DEF IInv, TypeOK, Clocks, Answers, Honest, OldIsFlagged

LEMMA NextInvParts ==
    IInv' <=> Clocks' /\ served' \in Answers \cup {None} /\ (served # None => Honest(served))'
  BY DEF IInv, TypeOK, Clocks, Answers, Honest, OldIsFlagged

-----------------------------------------------------------------------------
(* The cache.                                                              *)

\* Whatever get_status answers is the cached sample at its age, flagged when it
\* is old, or no sample.
LEMMA GetStatusAnswers ==
    ASSUME Clocks, GetStatus
    PROVE  Clocks' /\ served' \in Answers /\ Honest(served)'
  <1> USE TelemetryAssumption
  <1>1. 0 \in Ages /\ Ages \subseteq Int /\ 0 <= Stale
    BY DEF Ages
  <1>2. CASE ServeFresh
    <2>1. age \in Ages /\ age < TTL /\ ~(age > Stale)
      BY <1>1, <1>2 DEF Clocks, ServeFresh, Fresh, Ages
    <2>2. Clocks'
      BY <1>2 DEF ServeFresh, Clocks, clocks
    <2>3. served' = Answer(cached, FALSE, age)
      BY <1>2 DEF ServeFresh
    <2>4. /\ served' \in Answers
          /\ served'.sample = cached /\ served'.stale = FALSE /\ served'.age = age
      BY <1>1, <2>3 DEF Clocks, Answer, Answers
    <2> QED
      BY <1>2, <2>1, <2>2, <2>4 DEF ServeFresh, clocks, Honest
  <1>3. CASE ServeRateLimited
    <2>1. Clocks'
      BY <1>3 DEF ServeRateLimited, Clocks, clocks
    <2>2. age \in Ages /\ (age > Stale) \in BOOLEAN
      BY DEF Clocks
    <2>3. served' = Answer(cached, age > Stale, age)
      BY <1>3 DEF ServeRateLimited
    <2>4. /\ served' \in Answers
          /\ served'.sample = cached /\ served'.stale = (age > Stale) /\ served'.age = age
      BY <1>1, <2>3 DEF Clocks, Answer, Answers
    <2> QED
      BY <1>3, <2>1, <2>2, <2>4 DEF ServeRateLimited, clocks, Honest
  <1>4. ASSUME NEW d \in 0..MaxDelay, PollSucceeds(d) PROVE Clocks' /\ served' \in Answers /\ Honest(served)'
    <2>1. Least(d, Stale + 1) \in Ages /\ 0 \in (-MaxSkew)..(Stale + 1)
      BY DEF Least, Ages
    <2>2. Clocks'
      BY <1>1, <1>4, <2>1 DEF PollSucceeds, Attempt, Clocks
    <2>3. age' = 0 /\ cached' \in Samples
      BY <1>4 DEF PollSucceeds
    <2>4. served' = Answer(cached', FALSE, 0)
      BY <1>4 DEF PollSucceeds
    <2>5. /\ served' \in Answers
          /\ served'.sample = cached' /\ served'.stale = FALSE /\ served'.age = 0
      BY <1>1, <2>3, <2>4 DEF Clocks, Answer, Answers
    <2> QED
      BY <1>1, <2>2, <2>3, <2>5 DEF Honest
  <1>5. ASSUME NEW d \in 0..MaxDelay, PollFails(d) PROVE Clocks' /\ served' \in Answers /\ Honest(served)'
    <2>1. Least(d, Stale + 1) \in Ages
      BY DEF Least, Ages
    <2>2. age' \in Ages /\ wallAge' \in (-MaxSkew)..(Stale + 1)
      BY <1>5 DEF PollFails, Clocks, Aged, Least, Ages
    <2>3. Clocks'
      BY <1>5, <2>1, <2>2 DEF PollFails, Attempt, Clocks
    <2>4. CASE cached = None
      <3>1. served' = Answer(None, FALSE, 0)
        BY <1>5, <2>4 DEF PollFails, Error
      <3>2. /\ served' \in Answers
            /\ served'.sample = None /\ served'.stale = FALSE /\ served'.age = 0
        BY <1>1, <3>1 DEF Clocks, Answer, Answers
      <3> QED
        BY <1>1, <2>3, <3>2 DEF Honest
    <2>5. CASE cached # None
      <3>1. served' = Answer(cached, TRUE, age')
        BY <1>5, <2>5 DEF PollFails
      <3>2. /\ served' \in Answers
            /\ served'.sample = cached /\ served'.stale = TRUE /\ served'.age = age'
        BY <1>1, <2>2, <3>1 DEF Clocks, Answer, Answers
      <3> QED
        BY <1>5, <2>2, <2>3, <3>2 DEF PollFails, Honest
    <2> QED
      BY <2>4, <2>5
  <1> QED
    BY <1>2, <1>3, <1>4, <1>5 DEF GetStatus

LEMMA InitInv == Init => IInv
  <1> SUFFICES ASSUME Init PROVE IInv
    OBVIOUS
  <1>1. Clocks
    BY TelemetryAssumption DEF Init, Clocks, Ages
  <1> QED
    BY <1>1, InvParts DEF Init

LEMMA StepInv == IInv /\ [Next]_vars => IInv'
  <1> SUFFICES ASSUME IInv, [Next]_vars PROVE IInv'
    OBVIOUS
  <1> USE TelemetryAssumption
  <1>1. Clocks /\ served \in Answers \cup {None} /\ (served # None => Honest(served))
    BY InvParts
  <1>2. CASE Tick
    <2>1. Clocks'
      BY <1>1, <1>2 DEF Tick, Clocks, Ages, Aged, Least
    <2> QED
      BY <1>2, <2>1, NextInvParts DEF Tick
  <1>3. CASE WallClockSet
    BY <1>1, <1>3, NextInvParts DEF WallClockSet, Clocks
  <1>4. CASE GetStatus
    BY <1>1, <1>4, GetStatusAnswers, NextInvParts
  <1>5. CASE UNCHANGED vars
    BY <1>1, <1>5, NextInvParts DEF vars, clocks, Clocks, Answers, Honest
  <1> QED
    BY <1>2, <1>3, <1>4, <1>5 DEF Next

LEMMA Spaced == IInv /\ [Next]_vars => ((spacing' # spacing /\ cached # None) => spacing' >= MinPoll)
  <1> SUFFICES ASSUME IInv, [Next]_vars, spacing' # spacing, cached # None PROVE spacing' >= MinPoll
    OBVIOUS
  <1>1. PICK d \in 0..MaxDelay : Attempt(d)
    BY DEF Next, Tick, WallClockSet, GetStatus, ServeFresh, ServeRateLimited, PollSucceeds,
           PollFails, vars
  <1>2. age \in Int /\ sinceAttempt \in Int
    BY InvParts DEF Clocks, Ages
  <1> QED
    BY <1>1, <1>2, TelemetryAssumption DEF Attempt, Fresh, RateLimited

-----------------------------------------------------------------------------
(* The diagnosis.                                                          *)

\* A named cause comes from the rules, applied to the sample in the cache, and so
\* does "unknown" if the sample was fresh.
Founded ==
    /\ diagnosis \notin {None, "unknown"} =>
        /\ ~Missing(cached)
        /\ age <= Stale
        /\ ~served.stale
        /\ diagnosis = Classify(cached)
    /\ diagnosis = "unknown" =>
        \/ served.sample = None
        \/ ~IsFresh(served.sample, served.stale, wallAge)
        \/ Classify(served.sample) = "unknown"

DInv == IInv /\ Founded

LEMMA DStepInv == DInv /\ [DNext]_dvars => DInv'
  <1> SUFFICES ASSUME DInv, [DNext]_dvars PROVE DInv'
    OBVIOUS
  <1>1. IInv'
    BY StepInv DEF DInv, DNext, Diagnose, Other, Next, dvars
  <1>2. CASE Diagnose
    <2>1. Clocks' /\ served' \in Answers /\ Honest(served)'
      BY <1>2, GetStatusAnswers, InvParts DEF Diagnose, DInv
    <2>6. CASE diagnosis' = "unknown"
      BY <1>1, <1>2, <2>6 DEF DInv, Founded, Diagnose
    <2>2. SUFFICES ASSUME diagnosis' \notin {None, "unknown"} PROVE Founded'
      BY <1>1, <1>2, <2>6, DiagnosticsAssumption DEF DInv, Founded, Diagnose, Classify, Causes
    <2>3. /\ served'.sample # None /\ IsFresh(served'.sample, served'.stale, wallAge')
          /\ diagnosis' = Classify(served'.sample)
      BY <1>2, <2>2 DEF Diagnose
    <2>4. served'.sample = cached' /\ served'.age = age'
      BY <2>1, <2>3 DEF Honest
    <2>5. age' <= Stale
      BY <2>1, <2>3, <2>4, TelemetryAssumption DEF Honest, IsFresh, Clocks, Ages
    <2> QED
      BY <2>3, <2>4, <2>5 DEF Founded, IsFresh
  <1>3. CASE Other
    BY <1>1, <1>3, DiagnosticsAssumption DEF DInv, Other, Founded, Causes
  <1>4. CASE UNCHANGED dvars
    BY <1>1, <1>4 DEF DInv, Founded, dvars, vars, clocks
  <1> QED
    BY <1>2, <1>3, <1>4 DEF DNext

\* The answer of get_status and the cause reported last both come from the cache.
THEOREM DiagnosisInvariant == DSpec => []DInv
  <1>1. DInit => DInv
    BY InitInv, DiagnosticsAssumption DEF DInit, DInv, Founded, Causes
  <1> QED
    BY <1>1, DStepInv, PTL DEF DSpec

\* The answer of get_status is the cached sample at its age by the monotonic clock.
THEOREM AnswerIsCached == DSpec => []IInv
  <1>1. DInv => IInv
    BY DEF DInv
  <1> QED
    BY <1>1, DiagnosisInvariant, PTL

\* get_status never serves a sample past the threshold without the flag.
THEOREM OldIsAlwaysFlagged == DSpec => []OldIsFlagged
  <1>1. DInv => OldIsFlagged
    BY DEF DInv, IInv
  <1> QED
    BY <1>1, DiagnosisInvariant, PTL

\* With a sample in the cache, two polls of the same GPU are at least
\* MIN_POLL_INTERVAL_SECONDS apart, also when they fail.
THEOREM PollsAreAlwaysSpaced == DSpec => PollsAreSpaced
  <1>1. DInv /\ [DNext]_dvars => [(spacing' # spacing /\ cached # None) => spacing' >= MinPoll]_vars
    BY Spaced DEF DInv, DNext, Diagnose, Other, Next, dvars
  <1> QED
    BY <1>1, DiagnosisInvariant, PTL DEF DSpec, PollsAreSpaced

\* diagnose_performance names a cause only from a complete sample that is not
\* stale by the monotonic clock, wherever the wall clock was set.
THEOREM DiagnosisIsAlwaysFresh == DSpec => []DiagnosisIsFresh
  <1>1. DInv => DiagnosisIsFresh
    BY DEF DInv, Founded, DiagnosisIsFresh
  <1> QED
    BY <1>1, DiagnosisInvariant, PTL

\* The rules, in their order, against the signal of each cause.
LEMMA RulesFollowSignals ==
    ASSUME NEW s
    PROVE  /\ Classify(s) # "unknown" => Classify(s) \in Signals(s)
           /\ "thermal" \in Signals(s) => Classify(s) = "thermal"
           /\ Signals(s) \cap Visible # {} => Classify(s) \in Visible
           /\ Classify(s) = "unknown" => Signals(s) = {}
  <1>1. /\ "thermal" \in Signals(s)     <=> s.temp = "limit"
        /\ "power" \in Signals(s)       <=> s.util = "pinned" /\ s.capped
        /\ "voltage" \in Signals(s)     <=> s.util = "pinned" /\ s.ceiling
        /\ "application" \in Signals(s) <=> s.util = "low" /\ s.vram
        /\ "cpu" \in Signals(s)         <=> s.util = "low"
        /\ "utilization" \in Signals(s) <=> s.util = "pinned"
    BY DEF Signals
  <1>2. Signals(s) \subseteq {"thermal", "power", "voltage", "application", "cpu", "utilization"}
    BY DEF Signals
  <1>3. Classify(s) = "unknown" => Signals(s) = {}
    BY <1>1, <1>2 DEF Classify
  <1>4. Signals(s) \cap Visible # {} => Classify(s) \in Visible
    BY <1>1, <1>2 DEF Classify, Visible
  <1> QED
    BY <1>1, <1>3, <1>4 DEF Classify

\* No cause is named without its own signal, thermal whenever the limit is reached,
\* and no signal of a fresh sample goes unnamed, whatever the samples are.
THEOREM CauseAlwaysHasItsSignal == DSpec => []CauseHasItsSignal
  <1>1. DInv => CauseHasItsSignal
    BY RulesFollowSignals DEF DInv, Founded, CauseHasItsSignal
  <1> QED
    BY <1>1, DiagnosisInvariant, PTL

-----------------------------------------------------------------------------
(* Startup.                                                                *)

\* Startup only asks for a status as any other caller does.
LEMMA StartupImplementsDiagnosis == SSpec => DSpec
  <1>1. SInit => DInit
    BY DEF SInit
  <1>2. [SNext]_svars => [DNext]_dvars
    BY DEF SNext, StartWithoutRead, StartWithRead, Serve, DNext, Other, svars
  <1> QED
    BY <1>1, <1>2, PTL DEF SSpec, DSpec

LEMMA StartupKeepsDInv == SSpec => []DInv
  BY StartupImplementsDiagnosis, DiagnosisInvariant, PTL

\* What IInv says of the cache, with what a ready plugin has.
SInv ==
    /\ ReadyServes
    /\ startup = "ready" => cached # None

\* A sample that was cached is replaced, never dropped, and with one in the cache
\* get_status has an answer.
LEMMA SampleStays ==
    ASSUME Clocks, GetStatus
    PROVE  /\ cached # None => cached' # None /\ served'.sample # None
           /\ served'.sample # None => cached' # None
  <1>1. served' \in Answers /\ Honest(served)'
    BY GetStatusAnswers
  <1>2. cached # None => cached' # None
    BY TelemetryAssumption DEF GetStatus, ServeFresh, ServeRateLimited, PollSucceeds, PollFails
  <1>3. cached # None => served'.sample = cached'
    BY TelemetryAssumption
       DEF GetStatus, ServeFresh, ServeRateLimited, PollSucceeds, PollFails, Answer
  <1>4. served'.sample # None => served'.sample = cached'
    BY <1>1 DEF Honest
  <1> QED
    BY <1>2, <1>3, <1>4

LEMMA SStepInv == DInv /\ SInv /\ [SNext]_svars => SInv'
  <1> SUFFICES ASSUME DInv, SInv, [SNext]_svars PROVE SInv'
    OBVIOUS
  <1>1. Clocks
    BY InvParts DEF DInv
  <1>2. CASE StartWithoutRead
    BY <1>2 DEF StartWithoutRead, SInv, ReadyServes
  <1>3. CASE StartWithRead
    BY <1>1, <1>3, SampleStays DEF StartWithRead, SInv, ReadyServes
  <1>4. CASE Serve /\ GetStatus
    BY <1>1, <1>4, SampleStays DEF Serve, SInv, ReadyServes
  <1>5. CASE Serve /\ ~GetStatus
    BY <1>5 DEF Serve, DNext, Diagnose, Other, Tick, WallClockSet, SInv, ReadyServes
  <1>6. CASE UNCHANGED svars
    BY <1>6 DEF svars, dvars, vars, SInv, ReadyServes
  <1> QED
    BY <1>2, <1>3, <1>4, <1>5, <1>6 DEF SNext

\* A plugin that told the engine it is ready has a sample for every get_status
\* that follows, however many polls fail.
THEOREM ReadyAlwaysServes == SSpec => []ReadyServes
  <1>1. SInit => SInv
    BY DEF SInit, SInv, ReadyServes
  <1>2. SInv => ReadyServes
    BY DEF SInv
  <1> QED
    BY <1>1, <1>2, SStepInv, StartupKeepsDInv, PTL DEF SSpec
=============================================================================
