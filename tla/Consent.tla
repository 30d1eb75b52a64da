------------------------------ MODULE Consent ------------------------------
(***************************************************************************)
(* What the confirmation flow promises, without prompts, messages or       *)
(* dictionaries: a risky change runs only by spending a consent that was   *)
(* given for that very function, that is still open and that has not       *)
(* lapsed; and a consent is spent at most once.  Confirmation implements   *)
(* this specification.                                                     *)
(***************************************************************************)
EXTENDS Integers

CONSTANTS
    Tokens,     \* identities of consents
    Risky       \* functions that need a consent

VARIABLES
    now,        \* seconds
    fresh,      \* consents nobody has asked for yet
    open,       \* open consents: [token, function, until]
    runs        \* runs[f]: how often the risky function f has been run

vars == <<now, fresh, open, runs>>

Init ==
    /\ now = 0
    /\ fresh = Tokens
    /\ open = {}
    /\ runs = [f \in Risky |-> 0]

\* Time passes.
Pass ==
    /\ now' = now + 1
    /\ UNCHANGED <<fresh, open, runs>>

\* A consent for f is requested; it lapses at some later time.
Ask(t, f) ==
    /\ t \in fresh
    /\ fresh' = fresh \ {t}
    /\ \E c \in open' :
        /\ c.token = t
        /\ c.function = f
        /\ c.until >= now
        /\ open' = open \cup {c}
    /\ UNCHANGED <<now, runs>>

\* The function runs once and uses up one unlapsed consent of its own.
Run(f) ==
    /\ \E c \in open :
        /\ c.function = f
        /\ now <= c.until
        /\ open' = open \ {c}
    /\ runs' = [runs EXCEPT ![f] = @ + 1]
    /\ UNCHANGED <<now, fresh>>

\* Consents are withdrawn, lapse or are forgotten; nothing runs.
Drop ==
    /\ open' \subseteq open
    /\ UNCHANGED <<now, fresh, runs>>

Next ==
    \/ Pass
    \/ Drop
    \/ \E f \in Risky :
        \/ Run(f)
        \/ \E t \in Tokens : Ask(t, f)

Spec == Init /\ [][Next]_vars
=============================================================================
