------------------------------ MODULE MCNicknames ------------------------------
(* Two slots and four names: two that differ in case, one that reads as a      *)
(* slot, one that is reserved.                                                 *)
EXTENDS Nicknames

CONSTANTS quiet, Quiet, profile2, reserved

MCNames == {quiet, Quiet, profile2, reserved}
MCFold  == [n \in MCNames |-> IF n = Quiet THEN quiet ELSE n]
MCReads == [n \in MCNames |-> IF n = profile2 THEN 2 ELSE None]

\* Files with and without a double, a reserved name, other settings.
MCFiles ==
    {Absent, Broken}
    \cup [names : {<<quiet, None>>, <<quiet, Quiet>>, <<reserved, profile2>>},
          other : Others]
=============================================================================
