------------------------------- MODULE Startup -------------------------------
(***************************************************************************)
(* initialize and _run_startup_sequence (afterburner/protocol/plugin.py):  *)
(* one detection of Afterburner, one read of telemetry through the cache,  *)
(* and the status that the engine is told.  An engine may initialize a     *)
(* plugin again; the cache then holds what it held.                        *)
(***************************************************************************)
EXTENDS Diagnostics

VARIABLE startup        \* _startup_status

svars == <<dvars, startup>>

-----------------------------------------------------------------------------
SInit == DInit /\ startup = "not_started"

\* detect() finds no usable Afterburner, or is done after its 3 s: nothing is read.
StartWithoutRead ==
    /\ startup' = "degraded"
    /\ UNCHANGED dvars

\* One get_status for GPU 0.  An old sample that a failed poll leaves makes the
\* plugin ready as well; only an error does not.
StartWithRead ==
    /\ GetStatus
    /\ diagnosis' = None
    /\ startup' = IF served'.sample = None THEN "degraded" ELSE "ready"

\* Any other request.
Serve ==
    /\ DNext
    /\ UNCHANGED startup

SNext == StartWithoutRead \/ StartWithRead \/ Serve

SSpec == SInit /\ [][SNext]_svars

-----------------------------------------------------------------------------
\* A plugin that has said "ready" has a sample for every later get_status, however
\* many polls fail afterwards: the error that would contradict the status is not
\* raised before the engine initializes again and is told "degraded".
ReadyServes ==
    /\ startup \in {"not_started", "ready", "degraded"}
    /\ startup = "ready" /\ served # None => served.sample # None
=============================================================================
