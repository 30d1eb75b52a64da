---------------------------- MODULE MCDiagnostics ----------------------------
(* Startup, the cache and the diagnosis over it, in seconds, with the samples *)
(* that take part in a rule.                                                  *)
EXTENDS Startup

\* Each optional reading varies only where a rule looks at it.
MCSamples ==
    {s \in Sample :
        /\ s.capped \/ s.ceiling => s.util = "pinned"
        /\ s.vram => s.util = "low"
        /\ s.temp # None /\ s.util # None <=> s.clock # None
        /\ Missing(s) => s.temp = s.util}
=============================================================================
