----------------------------- MODULE Diagnostics -----------------------------
(***************************************************************************)
(* DiagnosticsService (afterburner/services/diagnostics.py) over the       *)
(* telemetry cache: diagnose_performance asks for a sample, rejects it if  *)
(* it is incomplete or not fresh, and classifies it by rules in order.     *)
(*                                                                         *)
(* A sample is reduced to what the rules tell apart.                       *)
(***************************************************************************)
EXTENDS Telemetry

VARIABLE diagnosis      \* the cause last reported

dvars == <<vars, diagnosis>>

Causes == {"thermal", "power", "voltage", "application", "cpu", "utilization", "unknown"}

ASSUME DiagnosticsAssumption == None \notin Causes

-----------------------------------------------------------------------------
\* temperature_c, utilization_pct and core_clock_mhz are essential; capped is a
\* power limit at or under stock with a power reading, ceiling a voltage near
\* its top, vram a memory nearly full.
Sample == [temp : {None, "below", "limit"}, util : {None, "low", "mid", "pinned"},
           clock : {None, "mhz"}, capped : BOOLEAN, ceiling : BOOLEAN, vram : BOOLEAN]

Missing(s) == s.temp = None \/ s.util = None \/ s.clock = None

\* Mutant of IsFresh: the age is the one of the wall clock alone.
IsFreshByWallClock(s, stale, a) == ~Missing(s) /\ a <= Stale

\* _freshness: by the flag of the cache and by the wall clock.
IsFresh(s, stale, a) == ~Missing(s) /\ ~stale /\ a <= Stale

\* Mutant of Classify: the rules for a pinned GPU come before the thermal one.
ClassifyPinnedFirst(s) ==
    CASE s.util = "pinned" /\ s.capped  -> "power"
      [] s.util = "pinned" /\ ~s.capped -> "utilization"
      [] s.util # "pinned" /\ s.temp = "limit" -> "thermal"
      [] OTHER -> "unknown"

\* _classify, rule by rule.
Classify(s) ==
    IF s.temp = "limit" THEN "thermal"
    ELSE IF s.util = "pinned" /\ s.capped THEN "power"
    ELSE IF s.util = "pinned" /\ s.ceiling THEN "voltage"
    ELSE IF s.util = "low" /\ s.vram THEN "application"
    ELSE IF s.util = "low" THEN "cpu"
    ELSE IF s.util = "pinned" THEN "utilization"
    ELSE "unknown"

DInit == Init /\ diagnosis = None

\* diagnose_performance: one get_status, and no exception.
Diagnose ==
    /\ GetStatus
    /\ diagnosis' =
        IF served'.sample # None /\ IsFresh(served'.sample, served'.stale, wallAge')
        THEN Classify(served'.sample)
        ELSE "unknown"

Other ==
    /\ Tick \/ WallClockSet \/ GetStatus
    /\ diagnosis' = None

DNext == Diagnose \/ Other

DSpec == DInit /\ [][DNext]_dvars

-----------------------------------------------------------------------------
(* Properties.                                                             *)

\* A cause is named only from a complete sample that was read at most Stale ago
\* by the monotonic clock, wherever the wall clock was set (Requirement 12.4).
DiagnosisIsFresh ==
    diagnosis \notin {None, "unknown"} =>
        /\ ~Missing(cached)
        /\ age <= Stale
        /\ ~served.stale

\* The causes whose signals a sample holds, each by itself (the comments and
\* evidence of _classify).
Signals(s) ==
    LET signal == [thermal     |-> s.temp = "limit",
                   power       |-> s.util = "pinned" /\ s.capped,
                   voltage     |-> s.util = "pinned" /\ s.ceiling,
                   application |-> s.util = "low" /\ s.vram,
                   cpu         |-> s.util = "low",
                   utilization |-> s.util = "pinned"]
    IN  {c \in DOMAIN signal : signal[c]}

\* The causes that are visible in a reading; the other two are what is left.
Visible == {"thermal", "power", "voltage", "application"}

\* No cause is named without its own signal, thermal is named whenever the limit is
\* reached, a cause that is only what is left ("no thermal, power, or voltage limit
\* visible") never hides a visible one, and nothing is left unnamed that a fresh
\* sample signals.
CauseHasItsSignal ==
    /\ diagnosis \notin {None, "unknown"} =>
        /\ diagnosis \in Signals(cached)
        /\ "thermal" \in Signals(cached) => diagnosis = "thermal"
        /\ Signals(cached) \cap Visible # {} => diagnosis \in Visible
    /\ diagnosis = "unknown" =>
        \/ served.sample = None
        \/ ~IsFresh(served.sample, served.stale, wallAge)
        \/ Signals(served.sample) = {}
=============================================================================
