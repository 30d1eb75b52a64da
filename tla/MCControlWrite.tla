---------------------------- MODULE MCControlWrite ----------------------------
(* A small instance of ControlWrite: two controls, two values that are further *)
(* apart than the tolerance.  A call for 4 puts 3 in the field.  The plugin    *)
(* drives the second GPU.                                                     *)
EXTENDS ControlWrite

CONSTANTS core, fan

MCValues == {0, 3}

MCAsked == {0, 4}

MCField == [v \in MCAsked |-> IF v = 4 THEN 3 ELSE v]

MCFieldAt == [c \in {core, fan} |-> IF c = fan THEN 4 ELSE 0]

MCHeader(initialised, supported, size, entries, esize, mapped) ==
    [initialised |-> initialised, supported |-> supported, size |-> size,
     entries |-> entries, esize |-> esize, mapped |-> mapped]

\* A larger header than ours; a view that is too short; a single GPU; a map that
\* is not filled in yet.
MCHeaders ==
    { MCHeader(TRUE, TRUE, 12, 2, 12, 40),
      MCHeader(TRUE, TRUE, 12, 2, 12, 32),
      MCHeader(TRUE, TRUE, 8, 1, 12, 40),
      MCHeader(FALSE, TRUE, 8, 2, 12, 40) }
=============================================================================
