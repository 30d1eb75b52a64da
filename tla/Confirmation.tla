---------------------------- MODULE Confirmation ----------------------------
(***************************************************************************)
(* The confirmation flow of GAssistPlugin (afterburner/protocol/plugin.py) *)
(* over the token registry of SafetyPolicy (afterburner/safety/policy.py). *)
(*                                                                         *)
(* The plugin handles one request at a time.  A handler is one step, except *)
(* that an executor reads the limits and writes in separate calls: those   *)
(* are steps of their own, and no request is taken between them.  What     *)
(* interleaves is what happens around the plugin: time passes, the user    *)
(* confirms, cancels, mumbles or asks for something else, Afterburner goes *)
(* away and comes back with other limits, the plugin is restarted.         *)
(* reply is what the plugin answered in the step that led to this state.   *)
(***************************************************************************)
EXTENDS Integers, FiniteSets

CONSTANTS
    Single,             \* risky functions that set one value (_SINGLE_VALUE_FEATURE)
    Fan,                \* the one of them that the other risky functions move too
    Other,              \* the other risky functions: fan curve, optimize_*
    LowRisk,            \* functions that run without a confirmation
    Tokens,             \* what secrets.token_hex can return
    Requests,           \* values the caller asks for
    Limits,             \* maxima Afterburner may report; the minimum is 0
    Tolerance,          \* GAssistPlugin.tolerance
    PassthroughTimeout, \* PASSTHROUGH_TIMEOUT_SECONDS
    TokenTTL,           \* CONFIRM_TOKEN_TTL_SECONDS
    MaxClock,           \* bound on time
    None                \* no entry, no value

Risky == Single \cup Other

\* What _pending_input keeps for a function, and what _tokens keeps.  (The entry
\* also keeps the GPU, which is one of the arguments; the safe_value of a token
\* is never read.)
PendingEntry == [args : Requests \cup {None}, until : Int, token : Tokens]

Entry == [token : Tokens, function : Risky, until : Int]

Running == [function : Risky, args : Requests \cup {None}, safe : Nat \cup {None}]

ASSUME ConfirmationAssumption ==
    /\ Fan \in Single
    /\ Risky \cap LowRisk = {}
    /\ Requests \subseteq Nat
    /\ Limits \subseteq Nat
    /\ Limits # {}
    /\ Tolerance \in Nat
    /\ PassthroughTimeout \in Nat
    /\ TokenTTL \in Nat
    /\ PassthroughTimeout <= TokenTTL
    /\ MaxClock \in Nat
    /\ None \notin Nat \cup Risky \cup PendingEntry \cup Running

VARIABLES
    loop,       \* "sdk": run_sdk_loop, whose callers hold no tokens and whose
                \* inputs name no function; "raw": run_plugin_loop, if there is no SDK
    now,        \* the monotonic clock both objects share
    up,         \* is Afterburner's control map readable
    limit,      \* the maximum it reports
    applied,    \* the value in force for each single-value function
    busy,       \* the executor that runs: its function and arguments and, once it
                \* has validated, the value it is about to write
    pending,    \* GAssistPlugin._pending_input
    tokens,     \* SafetyPolicy._tokens
    fresh,      \* tokens that were never drawn
    reply,      \* the answer given in the last step
    shown,      \* history: the last prompt the user saw
    runs,       \* history: how often each risky executor was run
    held        \* history: the limits that held since the executor was started

env  == <<loop, up, limit>>
exec == <<busy, held>>
vars == <<loop, now, up, limit, applied, busy, pending, tokens, fresh, reply, shown,
          runs, held>>

-----------------------------------------------------------------------------
Args(f) == IF f \in Single THEN Requests \cup {None} ELSE {None}

\* TuningValidator.validate_and_clamp; None stands for what is not a number.
Clamp(v) == IF v > limit THEN limit ELSE v

Validates(f, v) == up /\ v # None

Near(x, y) == x - y <= Tolerance /\ y - x <= Tolerance

\* _decision_time_noop: the request is in force already.
AlreadyApplied(f, v) == f \in Single /\ Near(applied[f], Clamp(v))

Awaiting == {f \in Risky : pending[f] # None}

\* SafetyPolicy.validate_token pops the entry first and looks at it afterwards.
Entries(t) == {e \in tokens : e.token = t}

Valid(t, f) == \E e \in Entries(t) : e.function = f /\ now <= e.until

Reply(kind, f, args, value) ==
    [kind |-> kind, function |-> f, args |-> args, value |-> value]

Say(kind) == Reply(kind, None, None, None)

Init ==
    /\ loop \in {"sdk", "raw"}
    /\ now = 0
    /\ up \in BOOLEAN
    /\ limit \in Limits
    /\ applied = [f \in Single |-> 0]
    /\ busy = None
    /\ pending = [f \in Risky |-> None]
    /\ tokens = {}
    /\ fresh = Tokens
    /\ reply = Say("silent")
    /\ shown = None
    /\ runs = [f \in Risky |-> 0]
    /\ held = {}

-----------------------------------------------------------------------------
(* What happens around the plugin.                                         *)

Tick ==
    /\ now < MaxClock
    /\ now' = now + 1
    /\ reply' = Say("silent")
    /\ UNCHANGED <<env, exec, applied, pending, tokens, fresh, shown, runs>>

\* Afterburner exits, or starts with the limits and values of that moment.
AfterburnerToggles ==
    /\ up' = ~up
    /\ IF up
       THEN UNCHANGED <<limit, applied>>
       ELSE /\ limit' \in Limits
            /\ applied' \in [Single -> {0, limit'}]
    /\ held' = IF busy = None THEN held ELSE held \cup {limit'}
    /\ reply' = Say("silent")
    /\ UNCHANGED <<loop, now, busy, pending, tokens, fresh, shown, runs>>

\* The engine ends the process and starts another: both dictionaries are new,
\* and an executor that was about to write does not.
Restart ==
    /\ busy' = None
    /\ held' = {}
    /\ pending' = [f \in Risky |-> None]
    /\ tokens' = {}
    /\ reply' = Say("silent")
    /\ UNCHANGED <<now, env, applied, fresh, shown, runs>>

-----------------------------------------------------------------------------
(* Executors: _run_executor, apply_single_value, the optimizers.           *)

StartExecutor(f, v) ==
    /\ runs' = [runs EXCEPT ![f] = @ + 1]
    /\ busy' = [function |-> f, args |-> v, safe |-> None]
    /\ held' = {limit}
    /\ reply' = Reply("runs", f, v, None)

\* Mutant of SafeValues: the executor trusts the value of the request.
SafeValuesUnclamped(f, v) == IF f \in Single THEN {v} ELSE {0, limit}

\* What an executor may go on to write.  apply_single_value clamps again, with
\* the limits of now; the other risky functions choose a speed within them.
SafeValues(f, v) == IF f \in Single THEN {Clamp(v)} ELSE {0, limit}

\* One opening of the control map: validate_and_clamp reads the limits.
ExecutorValidates ==
    /\ busy # None
    /\ busy.safe = None
    /\ Validates(busy.function, IF busy.function \in Single THEN busy.args ELSE 0)
    /\ \E w \in SafeValues(busy.function, busy.args) : busy' = [busy EXCEPT !.safe = w]
    /\ reply' = Say("silent")
    /\ UNCHANGED <<now, env, held, applied, pending, tokens, fresh, shown, runs>>

\* The control the executor moves.
Target == IF busy.function \in Single THEN busy.function ELSE Fan

\* What apply_control leaves behind.  It looks at no limit, and a value near
\* enough is not written (unless the fan is in automatic mode).
Written ==
    {[applied EXCEPT ![Target] = busy.safe]}
        \cup {a \in {applied} : Near(applied[Target], busy.safe)}

\* Another opening of the map: the write.  A set_* function is done with it, the
\* others may go on.
ExecutorWrites ==
    /\ busy # None
    /\ busy.safe # None
    /\ up
    /\ applied' \in Written
    /\ IF busy.function \in Single
       THEN /\ busy' = None
            /\ held' = {}
            /\ reply' = Reply("ran", busy.function, busy.args, busy.safe)
       ELSE /\ busy' = [busy EXCEPT !.safe = None]
            /\ reply' = Say("silent")
            /\ UNCHANGED held
    /\ UNCHANGED <<now, env, pending, tokens, fresh, shown, runs>>

\* An optimizer has done what it could.
ExecutorEnds ==
    /\ busy # None
    /\ busy.safe = None
    /\ busy.function \notin Single
    /\ busy' = None
    /\ held' = {}
    /\ reply' = Reply("ran", busy.function, busy.args, None)
    /\ UNCHANGED <<now, env, applied, pending, tokens, fresh, shown, runs>>

\* A failure at any point; of the write, it may come after the write was made (a
\* FLUSH that is never acknowledged).
ExecutorFails ==
    /\ busy # None
    /\ applied' \in {applied} \cup (IF up /\ busy.safe # None THEN Written ELSE {})
    /\ busy' = None
    /\ held' = {}
    /\ reply' = Reply("failed", busy.function, busy.args, None)
    /\ UNCHANGED <<now, env, pending, tokens, fresh, shown, runs>>

-----------------------------------------------------------------------------
(* execute requests: GAssistPlugin._execute and _risky.                    *)

\* A low-risk function runs at once; load_profile may move every value (Profiles
\* models the gap between its limits and its writes).
ExecuteLowRisk(f) ==
    /\ f \in LowRisk
    /\ IF up
       THEN applied' \in {applied} \cup {[g \in Single |-> w] : w \in {0, limit}}
       ELSE UNCHANGED applied
    /\ reply' = Reply("low", None, None, None)
    /\ UNCHANGED <<now, env, exec, pending, tokens, fresh, shown, runs>>

\* The request cannot be validated: a typed error, nothing is recorded.  (The
\* points of a curve and the target of optimize_thermal are not modelled.)
Refuse(f, v) ==
    /\ f \in Single => ~Validates(f, v)
    /\ reply' = Say("error")
    /\ UNCHANGED <<now, env, exec, applied, pending, tokens, fresh, shown, runs>>

\* The value is in force already: no prompt, and an older entry stays pending.
DecisionTimeNoop(f, v) ==
    /\ f \in Single
    /\ Validates(f, v)
    /\ AlreadyApplied(f, v)
    /\ reply' = Say("noop")
    /\ UNCHANGED <<now, env, exec, applied, pending, tokens, fresh, shown, runs>>

\* Mutant of Prompt: the two lifetimes are swapped.
PromptSwapsLifetimes(f, v) ==
    /\ f \in Single => Validates(f, v) /\ ~AlreadyApplied(f, v)
    /\ \E t \in fresh :
        /\ fresh' = fresh \ {t}
        /\ tokens' = tokens \cup
             {[token |-> t, function |-> f, until |-> now + PassthroughTimeout]}
        /\ pending' = [pending EXCEPT ![f] =
             [args |-> v, until |-> now + TokenTTL, token |-> t]]
    /\ reply' = Reply("prompt", f, v, None)
    /\ shown' = [function |-> f, args |-> v, until |-> now + TokenTTL]
    /\ UNCHANGED <<now, env, exec, applied, runs>>

\* The prompt: a token is issued and the pending entry of f is replaced; the
\* token of a replaced entry stays registered.
Prompt(f, v) ==
    /\ f \in Single => Validates(f, v) /\ ~AlreadyApplied(f, v)
    /\ \E t \in fresh :
        /\ fresh' = fresh \ {t}
        /\ tokens' = tokens \cup
             {[token |-> t, function |-> f, until |-> now + TokenTTL]}
        /\ pending' = [pending EXCEPT ![f] =
             [args |-> v, until |-> now + PassthroughTimeout, token |-> t]]
    /\ reply' = Reply("prompt", f, v, None)
    /\ shown' = [function |-> f, args |-> v, until |-> now + PassthroughTimeout]
    /\ UNCHANGED <<now, env, exec, applied, runs>>

\* An execute that carries a token.  The token is gone whatever comes of it.
ExecuteWithToken(f, v, t) ==
    /\ loop = "raw"
    /\ tokens' = tokens \ Entries(t)
    /\ IF Valid(t, f)
       THEN /\ pending' = [pending EXCEPT ![f] = None]
            /\ StartExecutor(f, v)
       ELSE /\ reply' = Say("error")
            /\ UNCHANGED <<pending, exec, runs>>
    /\ UNCHANGED <<now, env, applied, fresh, shown>>

-----------------------------------------------------------------------------
(* input messages: GAssistPlugin._handle_input.                            *)

\* Mutant of Addresses: a reply without a function resolves any entry there is.
AddressesAnyEntry(f) == f \in Awaiting

\* The function an input is taken to be about.
Addresses(f) == loop = "raw" \/ Awaiting = {f}

\* Nothing to resolve: no function named and not exactly one entry, or the
\* function named has none.
InputForNothing ==
    /\ \/ \A f \in Risky : Awaiting # {f}
       \/ loop = "raw"
    /\ reply' = Say("nothing")
    /\ UNCHANGED <<now, env, exec, applied, pending, tokens, fresh, shown, runs>>

\* Mutant of Close: the token is looked up but not consumed.
CloseKeepsToken(f) ==
    /\ f \in Awaiting
    /\ Addresses(f)
    /\ pending' = [pending EXCEPT ![f] = None]
    /\ UNCHANGED <<now, env, applied, tokens, fresh, shown>>

\* The entry leaves pending and its token is consumed.
Close(f) ==
    /\ f \in Awaiting
    /\ Addresses(f)
    /\ pending' = [pending EXCEPT ![f] = None]
    /\ tokens' = tokens \ Entries(pending[f].token)
    /\ UNCHANGED <<now, env, applied, fresh, shown>>

InputTooLate(f) ==
    /\ Close(f)
    /\ now > pending[f].until
    /\ reply' = Say("timedout")
    /\ UNCHANGED <<exec, runs>>

InputAffirmative(f) ==
    /\ Close(f)
    /\ now <= pending[f].until
    /\ IF \E e \in Entries(pending[f].token) : now <= e.until
       THEN StartExecutor(f, pending[f].args)
       ELSE /\ reply' = Say("invalid")
            /\ UNCHANGED <<exec, runs>>

InputNegative(f) ==
    /\ Close(f)
    /\ now <= pending[f].until
    /\ reply' = Say("cancelled")
    /\ UNCHANGED <<exec, runs>>

\* Mutant of InputUnclear: the token is consumed although the entry stays.
InputUnclearConsumes(f) ==
    /\ f \in Awaiting
    /\ Addresses(f)
    /\ now <= pending[f].until
    /\ tokens' = tokens \ Entries(pending[f].token)
    /\ reply' = Say("ask")
    /\ UNCHANGED <<now, env, exec, applied, pending, fresh, shown, runs>>

InputUnclear(f) ==
    /\ f \in Awaiting
    /\ Addresses(f)
    /\ now <= pending[f].until
    /\ reply' = Say("ask")
    /\ UNCHANGED <<now, env, exec, applied, pending, tokens, fresh, shown, runs>>

-----------------------------------------------------------------------------
Input(f) ==
    InputTooLate(f) \/ InputAffirmative(f) \/ InputNegative(f) \/ InputUnclear(f)

Execute(f, v) ==
    \/ Refuse(f, v)
    \/ DecisionTimeNoop(f, v)
    \/ Prompt(f, v)
    \/ \E t \in Tokens : ExecuteWithToken(f, v, t)

Executor == ExecutorValidates \/ ExecutorWrites \/ ExecutorEnds \/ ExecutorFails

\* The loop takes a request when no executor runs.
Request ==
    /\ busy = None
    /\ \/ InputForNothing
       \/ \E f \in LowRisk : ExecuteLowRisk(f)
       \/ \E f \in Risky : Input(f) \/ \E v \in Args(f) : Execute(f, v)

Next == Tick \/ AfterburnerToggles \/ Restart \/ Executor \/ Request

Spec == Init /\ [][Next]_vars

-----------------------------------------------------------------------------
(* Properties.                                                             *)

TypeOK ==
    /\ loop \in {"sdk", "raw"}
    /\ now \in 0..MaxClock
    /\ up \in BOOLEAN
    /\ limit \in Limits
    /\ applied \in [Single -> Nat]
    /\ busy \in Running \cup {None}
    /\ held \subseteq Limits
    /\ pending \in [Risky -> PendingEntry \cup {None}]
    /\ tokens \subseteq Entry
    /\ fresh \subseteq Tokens
    /\ runs \in [Risky -> Nat]

\* No two registered entries share a token and no fresh token is registered.
TokensAreUnique ==
    /\ \A e \in tokens : e.token \notin fresh
    /\ \A d, e \in tokens : d.token = e.token => d = e

\* Two pending functions never wait on the same token, and none waits on a
\* token that could still be drawn.
PendingAreUnique ==
    /\ \A f \in Risky : pending[f] # None => pending[f].token \notin fresh
    /\ \A f, g \in Risky :
        pending[f] # None /\ pending[g] # None /\ pending[f].token = pending[g].token
            => f = g

\* A registered token that a pending change waits on was issued for it, and
\* outlives the 60 seconds the user has to reply.
EntriesMatchPending ==
    \A f \in Risky : pending[f] # None =>
        \A e \in tokens : e.token = pending[f].token =>
            e.function = f /\ pending[f].until <= e.until

\* When callers hold no tokens, a change that awaits confirmation can always
\* be confirmed: its own token is registered for it and outlives the 60 seconds
\* the user has to reply (plugin.py, _risky and _consume_token).
EveryPendingHasItsToken ==
    loop = "sdk" =>
        \A f \in Risky : pending[f] # None =>
            \E e \in tokens :
                /\ e.token = pending[f].token
                /\ e.function = f
                /\ pending[f].until <= e.until

\* The inductive invariant: how the dictionary of pending changes and the token
\* registry, which two objects keep and two handlers update, stay in step.
IInv ==
    /\ TypeOK
    /\ TokensAreUnique
    /\ PendingAreUnique
    /\ EntriesMatchPending
    /\ EveryPendingHasItsToken

\* A user who replies in time is never told that the confirmation is no longer
\* valid (the "invalid" answer of _handle_input), unless a token was spent by
\* another caller.
InTimeReplyIsValid == loop = "sdk" => reply.kind # "invalid"

\* What a confirmed change applies lies within limits that held after the user
\* confirmed it, not those of the prompt: apply_single_value validates again.
\* They need not be those in force: the limits are read by one call and the value
\* is written by another, which looks at none (Requirement 6.1 asks for more).
AppliedWithinLimitsRead ==
    [][ (reply'.kind = "ran" /\ reply'.function \in Single) =>
            \E l \in held : reply'.value <= l ]_vars

\* Replies that name no function confirm only what the user was shown last, and
\* only within 60 seconds of that prompt (_handle_input under the SDK).
AffirmsLastPrompt ==
    [][ (runs' # runs /\ loop = "sdk") =>
            /\ reply'.function = shown.function
            /\ reply'.args = shown.args
            /\ now <= shown.until ]_vars

\* The flow implements the abstract one: every run of a risky function spends
\* one live consent given for that function, and no consent is spent twice.
Consents == INSTANCE Consent WITH open <- tokens

ImplementsConsent == Consents!Spec

\* requirements.md, Requirement 1.10: while an operation awaits confirmation, an
\* input that confirms or cancels it takes effect.  It does not when another
\* entry, even one long expired, is still in the dictionary.
AwaitedReplyIsHeard ==
    loop = "sdk" /\ reply.kind = "nothing" =>
        \A f \in Risky : pending[f] # None => now > pending[f].until
=============================================================================
