------------------------------- MODULE Ownership -------------------------------
(***************************************************************************)
(* TuningOwnershipService (afterburner/services/ownership.py) beside the   *)
(* operations on profiles: build_report asks four times, for the status,   *)
(* the applied state, the active profile (which reads the file and then    *)
(* the state again) and the startup flag, and Afterburner and the user do  *)
(* not wait meanwhile.                                                     *)
(***************************************************************************)
EXTENDS Profiles

CONSTANT MaxMoves   \* bound: what Afterburner and the user do during one report

Stages == {"state", "shelf", "active", "startup"}

ASSUME OwnershipAssumption == MaxMoves \in Nat /\ None \notin Stages

VARIABLES
    stage,      \* what the report reads next: "state", "shelf", "active" or
                \* "startup"; or None
    report,     \* what it has found so far
    moves       \* history: the number of changes since it began

own   == <<stage, report, moves>>
ovars == <<vars, own>>

-----------------------------------------------------------------------------
NoReport == [ok |-> FALSE, state |-> Nothing, active |-> None]

OInit == Init /\ stage = None /\ report = NoReport /\ moves = 0

\* detect: the status of the interface.
Detect ==
    /\ op = None
    /\ op' = "report"
    /\ next' = 0
    /\ stage' = "state"
    /\ report' = [NoReport EXCEPT !.ok = avail]
    /\ moves' = 0
    /\ answer' = None
    /\ UNCHANGED <<device, disk, shelf, stored, safe, applied, notices, entry, matched>>

\* Mutant of ReadState: the state is asked for whatever the status was.
ReadStateAnyway ==
    /\ stage = "state"
    /\ report' = [report EXCEPT !.state = inForce]
    /\ stage' = "shelf"
    /\ answer' = None
    /\ UNCHANGED <<device, disk, work, matched, moves>>

\* read_tuning_state, if the status was OK; it fails if Afterburner is gone by now.
ReadState ==
    /\ stage = "state"
    /\ report' = [report EXCEPT !.state = IF report.ok /\ avail THEN inForce ELSE Nothing]
    /\ stage' = "shelf"
    /\ answer' = None
    /\ UNCHANGED <<device, disk, work, matched, moves>>

\* get_profiles reads the file.  An error and an empty list leave no active profile.
ReadProfiles ==
    /\ stage = "shelf"
    /\ shelf' = Read(disk).slots
    /\ stage' = IF PresentIn(shelf') = {} THEN "startup" ELSE "active"
    /\ answer' = None
    /\ UNCHANGED <<device, disk, op, next, stored, safe, applied, notices, entry, matched, report, moves>>

\* get_profiles reads the applied state and marks a slot.
FindActive ==
    /\ stage = "active"
    /\ report' = [report EXCEPT !.active = ActiveOn(shelf)]
    /\ stage' = "startup"
    /\ answer' = None
    /\ UNCHANGED <<device, disk, work, matched, moves>>

\* startup_auto_apply reads the file once more; a directory that cannot be read
\* or attributed counts as no auto-apply.
Conclude ==
    /\ stage = "startup"
    /\ Finish([kind |-> "report", ok |-> report.ok, state |-> report.state,
               active |-> report.active, startup |-> Read(disk).startup,
               calm |-> moves = 0])
    /\ stage' = None
    /\ report' = NoReport
    /\ moves' = 0
    /\ UNCHANGED <<device, disk>>

BuildReport == ReadState \/ ReadProfiles \/ FindActive \/ Conclude

\* A step of the profile operations or of the environment.
Beside ==
    /\ IF op = "report" THEN moves < MaxMoves /\ moves' = moves + 1
                        ELSE UNCHANGED moves
    /\ UNCHANGED <<stage, report>>

ONext == (Next /\ Beside) \/ Detect \/ BuildReport

OSpec == OInit /\ [][ONext]_ovars

-----------------------------------------------------------------------------
(* Properties.                                                             *)

OTypeOK ==
    /\ stage \in Stages \cup {None}
    /\ report \in [ok : BOOLEAN, state : [Features -> Values \cup {None}], active : Slots \cup {None}]
    /\ moves \in 0..MaxMoves

\* A report is in progress exactly while it has something left to read, and its
\* parts are those that were read.
ReportInStages ==
    /\ (op = "report") <=> (stage # None)
    /\ stage = None => report = NoReport
    /\ report.active # None => stage = "startup"

\* The inductive invariant of the operations and the report.
OInv == IInv /\ OTypeOK /\ ReportInStages

\* The steps that an operation has left, at most: two for each control, and one to
\* verify what was applied.
Left ==
    CASE op = None     -> 0
      [] op = "list"   -> 1
      [] op = "report" -> (CASE stage = "state" -> 4 [] stage = "shelf" -> 3
                             [] stage = "active" -> 2 [] stage = "startup" -> 1)
      [] op \in {"load", "reset"} ->
            2 * (Len(Keys) + 1 - next) + (IF safe = None THEN 1 ELSE 0)

\* Every step of an operation brings it nearer to its end, whatever the files hold,
\* the interface does and the user moves or saves: no control is tried again, and
\* nothing is read again because it changed (_apply_slot, _verify_applied,
\* build_report).
OperationsShorten ==
    [][ op # None =>
            \/ Left' < Left
            \/ UNCHANGED <<op, next, shelf, stored, safe, applied, notices, stage, report>> ]_ovars

\* The parts of a report are read one by one, and nothing holds Afterburner still.
\* If nothing happened to move, they belong together: the applied state is there
\* exactly if the status is OK, an active profile has its stored values in that
\* state, no other slot has, and there is none while the interface is down
\* (build_report, _summarize).
QuietReportAgrees ==
    answer # None /\ answer.kind = "report" /\ answer.calm =>
        /\ answer.ok <=> answer.state # Nothing
        /\ answer.state \in {Nothing, inForce}
        /\ answer.active # None => answer.ok /\ MatchesOn(Read(disk).slots) = {answer.active}
        /\ answer.startup <=> Read(disk).startup

\* The slot that get_profiles marks as active, and the one a report names, was in
\* force at some moment of the call: the file is read first and the applied state
\* after it, and in between the user may save over the slot that was read, or move
\* the sliders to it and away.
NamedWasActive ==
    [][ (answer' # answer /\ answer' # None /\ answer'.kind \in {"list", "report"}) =>
            (answer'.active # None =>
                answer'.active \in matched \cup MatchesOn(Read(disk).slots)) ]_ovars
================================================================================
