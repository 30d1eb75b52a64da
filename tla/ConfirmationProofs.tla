------------------------- MODULE ConfirmationProofs -------------------------
(***************************************************************************)
(* Proofs about Confirmation for every set of functions and tokens, every  *)
(* pair of timeouts with PassthroughTimeout <= TokenTTL and every bound on *)
(* time.                                                                   *)
(***************************************************************************)
EXTENDS Confirmation, TLAPS

\* Steps name what they leave alone as UNCHANGED env and UNCHANGED exec.
USE DEF env, exec

\* Starting an executor records what it runs with, and only the run counter of
\* its own function moves.
LEMMA StartExecutorType ==
    ASSUME TypeOK, NEW f \in Risky, NEW v \in Requests \cup {None}, StartExecutor(f, v)
    PROVE  /\ runs' \in [Risky -> Nat]
           /\ busy' \in Running
           /\ held' \subseteq Limits
  BY DEF StartExecutor, TypeOK, Running

Tables == <<loop, pending, tokens, fresh>>

\* What apply_control leaves behind are natural numbers.
LEMMA WrittenType ==
    ASSUME TypeOK, busy # None, busy.safe # None
    PROVE  /\ Written \subseteq [Single -> Nat]
           /\ busy \in Running
           /\ busy.safe \in Nat
<1>1. busy \in Running /\ busy.safe \in Nat
  BY DEF TypeOK, Running
<1>2. Target \in Single
  BY <1>1, ConfirmationAssumption DEF Target, Running
<1> QED
  BY <1>1, <1>2 DEF Written, TypeOK

\* An executor moves its own record and the values in force, and nothing of the
\* two dictionaries.
LEMMA ExecutorType ==
    ASSUME TypeOK, Executor
    PROVE  /\ UNCHANGED Tables
           /\ UNCHANGED <<now, up, limit, shown, runs>>
           /\ applied' \in [Single -> Nat]
           /\ busy' \in Running \cup {None}
           /\ held' \subseteq Limits
<1>0. busy # None /\ busy \in Running
  BY DEF Executor, ExecutorValidates, ExecutorWrites, ExecutorEnds, ExecutorFails, TypeOK
<1>1. CASE ExecutorValidates
  <2>1. SafeValues(busy.function, busy.args) \subseteq Nat
    <3>1. limit \in Nat
      BY ConfirmationAssumption DEF TypeOK
    <3>2. CASE busy.function \in Single
      <4>1. busy.args \in Nat
        BY <1>0, <1>1, <3>2, ConfirmationAssumption
        DEF ExecutorValidates, Validates, Running
      <4> QED BY <3>1, <3>2, <4>1 DEF SafeValues, Clamp
    <3> QED BY <3>1, <3>2 DEF SafeValues
  <2>2. busy' \in Running
    BY <1>0, <1>1, <2>1 DEF ExecutorValidates, Running
  <2> QED BY <1>1, <2>2 DEF ExecutorValidates, Tables, TypeOK
<1>2. CASE ExecutorWrites
  <2>1. applied' \in [Single -> Nat]
    BY <1>2, WrittenType DEF ExecutorWrites
  <2>2. busy' \in Running \cup {None}
    BY <1>0, <1>2 DEF ExecutorWrites, Running
  <2> QED BY <1>2, <2>1, <2>2 DEF ExecutorWrites, Tables, TypeOK
<1>3. CASE ExecutorEnds
  BY <1>3 DEF ExecutorEnds, Tables, TypeOK
<1>4. CASE ExecutorFails
  <2>1. applied' \in [Single -> Nat]
    BY <1>4, WrittenType DEF ExecutorFails, TypeOK
  <2> QED BY <1>4, <2>1 DEF ExecutorFails, Tables, TypeOK
<1> QED BY <1>1, <1>2, <1>3, <1>4 DEF Executor

\* The actions of Next, one disjunct each.
LEMMA NextCases ==
    ASSUME Next
    PROVE  \/ Tick
           \/ AfterburnerToggles
           \/ Restart
           \/ Executor
           \/ InputForNothing
           \/ \E f \in LowRisk : ExecuteLowRisk(f)
           \/ \E f \in Risky : InputTooLate(f)
           \/ \E f \in Risky : InputAffirmative(f)
           \/ \E f \in Risky : InputNegative(f)
           \/ \E f \in Risky : InputUnclear(f)
           \/ \E f \in Risky : \E v \in Args(f) : Refuse(f, v)
           \/ \E f \in Risky : \E v \in Args(f) : DecisionTimeNoop(f, v)
           \/ \E f \in Risky : \E v \in Args(f) : Prompt(f, v)
           \/ \E f \in Risky : \E v \in Args(f) : \E t \in Tokens : ExecuteWithToken(f, v, t)
  BY DEF Next, Request, Input, Execute

\* The message loop is chosen when the process starts.
LEMMA LoopIsFixed ==
    ASSUME [Next]_vars
    PROVE  loop' = loop
<1>1. CASE UNCHANGED vars
  BY <1>1 DEF vars
<1>2. CASE Next
  BY <1>2, NextCases
  DEF Executor, ExecutorValidates, ExecutorWrites, ExecutorEnds, ExecutorFails, Tick, AfterburnerToggles, Restart, InputForNothing, ExecuteLowRisk, InputTooLate,
      InputAffirmative, InputNegative, InputUnclear, Close, Refuse, DecisionTimeNoop,
      Prompt, ExecuteWithToken
<1> QED BY <1>1, <1>2

\* The initial states satisfy the invariant.
LEMMA InitInv == Init => IInv
  BY ConfirmationAssumption DEF Init, IInv, TypeOK, TokensAreUnique,
     PendingAreUnique, EntriesMatchPending, EveryPendingHasItsToken, Entry

-----------------------------------------------------------------------------
\* The part of the invariant that ties the two dictionaries together.
Links ==
    /\ TokensAreUnique
    /\ PendingAreUnique
    /\ EntriesMatchPending
    /\ EveryPendingHasItsToken

\* A step that leaves both dictionaries and the drawn tokens alone keeps Links.
LEMMA LinksUnchanged ==
    ASSUME Links, UNCHANGED Tables
    PROVE  Links'
  BY DEF Links, Tables, TokensAreUnique, PendingAreUnique, EntriesMatchPending,
         EveryPendingHasItsToken

\* Closing the entry of f with its token (_pending_input.pop, _consume_token)
\* takes no token away that another entry waits on.
LEMMA CloseKeepsLinks ==
    ASSUME IInv, NEW f \in Risky, Close(f)
    PROVE  /\ Links'
           /\ pending' \in [Risky -> PendingEntry \cup {None}]
           /\ tokens' \subseteq Entry
           /\ UNCHANGED <<now, env, applied, fresh, shown>>
<1> USE DEF IInv, Close, Awaiting
<1>0. loop' = loop
  OBVIOUS
<1>1. pending' \in [Risky -> PendingEntry \cup {None}]
  BY DEF TypeOK
<1>2. tokens' \subseteq tokens /\ tokens' \subseteq Entry
  BY DEF TypeOK
<1>3. \A g \in Risky : pending'[g] # None => g # f /\ pending'[g] = pending[g]
  BY DEF TypeOK
<1>4. TokensAreUnique'
  BY <1>2 DEF TokensAreUnique
<1>5. PendingAreUnique'
  BY <1>3 DEF PendingAreUnique
<1>6. EntriesMatchPending'
  BY <1>2, <1>3 DEF EntriesMatchPending
<1>7. EveryPendingHasItsToken'
  <2> SUFFICES ASSUME loop = "sdk", NEW g \in Risky, pending'[g] # None
               PROVE  \E e \in tokens' : /\ e.token = pending'[g].token
                                         /\ e.function = g
                                         /\ pending'[g].until <= e.until
    BY DEF EveryPendingHasItsToken
  <2>1. g # f /\ pending'[g] = pending[g]
    BY <1>3
  <2>2. PICK e \in tokens : /\ e.token = pending[g].token
                            /\ e.function = g
                            /\ pending[g].until <= e.until
    BY <2>1 DEF EveryPendingHasItsToken
  <2>3. pending[g].token # pending[f].token
    BY <2>1 DEF PendingAreUnique
  <2>4. e \in tokens'
    BY <2>2, <2>3 DEF Entries
  <2> QED BY <2>1, <2>2, <2>4
<1> QED BY <1>1, <1>2, <1>4, <1>5, <1>6, <1>7 DEF Links

\* A prompt draws a new token for the entry it records.
LEMMA PromptKeepsLinks ==
    ASSUME IInv, NEW f \in Risky, NEW v \in Args(f), Prompt(f, v)
    PROVE  /\ Links'
           /\ pending' \in [Risky -> PendingEntry \cup {None}]
           /\ tokens' \subseteq Entry
           /\ fresh' \subseteq Tokens
<1>1. PICK t \in fresh :
        /\ fresh' = fresh \ {t}
        /\ tokens' = tokens \cup
             {[token |-> t, function |-> f, until |-> now + TokenTTL]}
        /\ pending' = [pending EXCEPT ![f] =
             [args |-> v, until |-> now + PassthroughTimeout, token |-> t]]
  BY DEF Prompt
<1> DEFINE c == [token |-> t, function |-> f, until |-> now + TokenTTL]
           p == [args |-> v, until |-> now + PassthroughTimeout, token |-> t]
<1>0. loop' = loop
  BY DEF Prompt
<1>2. t \in Tokens /\ now \in Int /\ TokenTTL \in Int /\ PassthroughTimeout \in Int
  BY ConfirmationAssumption DEF IInv, TypeOK
<1>3. c \in Entry /\ p \in PendingEntry
  <2>1. c \in Entry
    BY <1>2 DEF Entry
  <2>2. v \in Requests \cup {None}
    BY DEF Args
  <2>3. p \in PendingEntry
    BY <1>2, <2>2 DEF PendingEntry
  <2> QED BY <2>1, <2>3
<1>4. tokens' \subseteq Entry /\ pending' \in [Risky -> PendingEntry \cup {None}]
  BY <1>1, <1>3 DEF IInv, TypeOK
<1>5. pending'[f] = p /\ \A g \in Risky \ {f} : pending'[g] = pending[g]
  BY <1>1 DEF IInv, TypeOK
<1>6. c.until >= p.until
  BY <1>2, ConfirmationAssumption
<1>7. TokensAreUnique'
  BY <1>1 DEF IInv, TokensAreUnique
<1>8. PendingAreUnique'
  BY <1>1, <1>5 DEF IInv, PendingAreUnique
<1>9. EntriesMatchPending'
  BY <1>1, <1>5, <1>6 DEF IInv, EntriesMatchPending, PendingAreUnique, TokensAreUnique
<1>10. EveryPendingHasItsToken'
  <2> SUFFICES ASSUME loop = "sdk", NEW g \in Risky, pending'[g] # None
               PROVE  \E e \in tokens' : /\ e.token = pending'[g].token
                                         /\ e.function = g
                                         /\ pending'[g].until <= e.until
    BY <1>0 DEF EveryPendingHasItsToken
  <2>1. CASE g = f
    <3>1. c \in tokens' /\ c.token = p.token /\ c.function = f
      BY <1>1
    <3>2. p.until <= c.until
      BY <1>2, ConfirmationAssumption
    <3> HIDE DEF c, p
    <3> QED BY <1>5, <2>1, <3>1, <3>2
  <2>2. CASE g # f
    BY <1>1, <1>5, <2>2 DEF IInv, EveryPendingHasItsToken
  <2> QED BY <2>1, <2>2
<1>11. fresh' \subseteq Tokens
  BY <1>1 DEF IInv, TypeOK
<1> QED BY <1>4, <1>7, <1>8, <1>9, <1>10, <1>11 DEF Links

-----------------------------------------------------------------------------
\* A presented token leaves the registry, whatever comes of it.
LEMMA TokenKeepsLinks ==
    ASSUME IInv, NEW f \in Risky, NEW v \in Args(f), NEW t \in Tokens,
           ExecuteWithToken(f, v, t)
    PROVE  /\ Links'
           /\ pending' \in [Risky -> PendingEntry \cup {None}]
           /\ tokens' \subseteq Entry
<1>1. tokens' \subseteq tokens /\ fresh' = fresh
  BY DEF ExecuteWithToken
<1>2. pending' \in [Risky -> PendingEntry \cup {None}]
  BY DEF ExecuteWithToken, IInv, TypeOK
<1>3. \A g \in Risky : pending'[g] # None => pending'[g] = pending[g]
  BY DEF ExecuteWithToken, IInv, TypeOK
<1>4. TokensAreUnique'
  BY <1>1 DEF IInv, TokensAreUnique
<1>5. PendingAreUnique'
  BY <1>1, <1>3 DEF IInv, PendingAreUnique
<1>6. EntriesMatchPending'
  BY <1>1, <1>3 DEF IInv, EntriesMatchPending
<1>7. EveryPendingHasItsToken'
  BY DEF ExecuteWithToken, EveryPendingHasItsToken
<1> QED BY <1>1, <1>2, <1>4, <1>5, <1>6, <1>7 DEF IInv, TypeOK, Links

\* One step of the plugin or of its surroundings keeps the invariant.
LEMMA StepInv ==
    ASSUME IInv, [Next]_vars
    PROVE  IInv'
<1> USE DEF IInv
<1>1. CASE Tick
  <2>1. Links'
    BY <1>1, LinksUnchanged DEF Tick, Links, Tables
  <2>2. TypeOK'
    BY <1>1, ConfirmationAssumption DEF Tick, TypeOK, env
  <2> QED BY <2>1, <2>2 DEF Links
<1>2. CASE AfterburnerToggles
  <2>1. Links'
    BY <1>2, LinksUnchanged DEF AfterburnerToggles, Links, Tables
  <2>2. limit' \in Limits
    BY <1>2 DEF AfterburnerToggles, TypeOK
  <2>3. applied' \in [Single -> Nat]
    BY <1>2, <2>2, ConfirmationAssumption DEF AfterburnerToggles, TypeOK
  <2>4. up' \in BOOLEAN /\ held' \subseteq Limits
    BY <1>2, <2>2 DEF AfterburnerToggles, TypeOK
  <2>5. TypeOK'
    BY <1>2, <2>2, <2>3, <2>4 DEF AfterburnerToggles, TypeOK
  <2> QED BY <2>1, <2>5 DEF Links
<1>3. CASE Restart
  <2>1. Links'
    BY <1>3 DEF Restart, Links, TokensAreUnique, PendingAreUnique,
       EntriesMatchPending, EveryPendingHasItsToken
  <2>2. TypeOK'
    BY <1>3 DEF Restart, TypeOK, env
  <2> QED BY <2>1, <2>2 DEF Links
<1>4. CASE InputForNothing
  <2>1. Links'
    BY <1>4, LinksUnchanged DEF InputForNothing, Links, Tables
  <2>2. TypeOK'
    BY <1>4 DEF InputForNothing, TypeOK, env
  <2> QED BY <2>1, <2>2 DEF Links
<1>5. ASSUME NEW f \in LowRisk, ExecuteLowRisk(f)
      PROVE  IInv'
  <2>1. Links'
    BY <1>5, LinksUnchanged DEF ExecuteLowRisk, Links, Tables
  <2>2. applied' \in [Single -> Nat]
    BY <1>5, ConfirmationAssumption DEF ExecuteLowRisk, TypeOK
  <2>3. TypeOK'
    BY <1>5, <2>2 DEF ExecuteLowRisk, TypeOK, env
  <2> QED BY <2>1, <2>3 DEF Links
<1>6. ASSUME NEW f \in Risky, InputTooLate(f) \/ InputNegative(f)
      PROVE  IInv'
  <2>1. Close(f) /\ UNCHANGED <<exec, runs>>
    BY <1>6 DEF InputTooLate, InputNegative
  <2> QED BY <2>1, CloseKeepsLinks DEF Links, TypeOK, env
<1>7. ASSUME NEW f \in Risky, InputAffirmative(f)
      PROVE  IInv'
  <2>1. Close(f)
    BY <1>7 DEF InputAffirmative
  <2>2. pending[f].args \in Requests \cup {None}
    BY <2>1 DEF Close, Awaiting, TypeOK, PendingEntry
  <2>3. /\ runs' \in [Risky -> Nat]
        /\ busy' \in Running \cup {None}
        /\ held' \subseteq Limits
    BY <1>7, <2>2, StartExecutorType DEF InputAffirmative, TypeOK
  <2> QED BY <2>1, <2>3, CloseKeepsLinks DEF Links, TypeOK, env
<1>8. ASSUME NEW f \in Risky, NEW v \in Args(f),
             InputUnclear(f) \/ Refuse(f, v) \/ DecisionTimeNoop(f, v)
      PROVE  IInv'
  <2>1. UNCHANGED <<now, env, exec, applied, pending, tokens, fresh, runs>>
    BY <1>8 DEF InputUnclear, Refuse, DecisionTimeNoop
  <2>2. Links'
    BY <2>1, LinksUnchanged DEF Links, Tables
  <2> QED BY <2>1, <2>2 DEF Links, TypeOK, env
<1>9. ASSUME NEW f \in Risky, NEW v \in Args(f), Prompt(f, v)
      PROVE  IInv'
  <2>1. UNCHANGED <<now, env, exec, applied, runs>>
    BY <1>9 DEF Prompt
  <2> QED BY <1>9, <2>1, PromptKeepsLinks DEF Links, TypeOK, env
<1>10. ASSUME NEW f \in Risky, NEW v \in Args(f), NEW t \in Tokens,
              ExecuteWithToken(f, v, t)
       PROVE  IInv'
  <2>1. UNCHANGED <<now, env, applied, fresh>>
    BY <1>10 DEF ExecuteWithToken
  <2>2. v \in Requests \cup {None}
    BY DEF Args
  <2>3. /\ runs' \in [Risky -> Nat]
        /\ busy' \in Running \cup {None}
        /\ held' \subseteq Limits
    BY <1>10, <2>2, StartExecutorType DEF ExecuteWithToken, TypeOK
  <2> QED BY <1>10, <2>1, <2>3, TokenKeepsLinks DEF Links, TypeOK, env
<1>11. CASE UNCHANGED vars
  <2>1. Links'
    BY <1>11, LinksUnchanged DEF vars, Links, Tables
  <2> QED BY <1>11, <2>1 DEF vars, env, Links, TypeOK
<1>12. ASSUME NEW f \in Risky, InputUnclear(f)
       PROVE  IInv'
  <2>1. None \in Args(f)
    BY DEF Args
  <2> QED BY <1>8, <1>12, <2>1
<1>13. CASE Executor
  <2>1. Links'
    BY <1>13, ExecutorType, LinksUnchanged DEF Links
  <2> QED BY <1>13, <2>1, ExecutorType DEF Links, TypeOK, Tables
<1> QED
  BY <1>1, <1>2, <1>3, <1>4, <1>5, <1>6, <1>7, <1>8, <1>9, <1>10, <1>11, <1>12,
     <1>13, NextCases

\* The two dictionaries stay in step for ever: tokens are registered once, every
\* pending change waits on a token of its own that was issued for its function
\* and outlives the time the user has to reply.
THEOREM ConfirmationInvariant == Spec => []IInv
<1>1. Init => IInv
  BY InitInv
<1>2. IInv /\ [Next]_vars => IInv'
  BY StepInv
<1> QED BY <1>1, <1>2, PTL DEF Spec

-----------------------------------------------------------------------------
\* A reply within 60 seconds is never answered "no longer valid": the token the
\* entry waits on is there and lives at least as long as the entry.
THEOREM InTimeReply == Spec => []InTimeReplyIsValid
<1>1. Init => InTimeReplyIsValid
  BY DEF Init, InTimeReplyIsValid, Say, Reply
<1>2. IInv /\ InTimeReplyIsValid /\ [Next]_vars => InTimeReplyIsValid'
  <2> SUFFICES ASSUME IInv, InTimeReplyIsValid, [Next]_vars, loop = "sdk"
               PROVE  reply'.kind # "invalid"
    BY LoopIsFixed DEF InTimeReplyIsValid
  <2>1. ASSUME NEW f \in Risky, NEW v, StartExecutor(f, v)
        PROVE  reply'.kind # "invalid"
    BY <2>1 DEF StartExecutor, Reply
  <2>2. ASSUME NEW f \in Risky, InputAffirmative(f)
        PROVE  reply'.kind # "invalid"
    <3>1. f \in Awaiting /\ now <= pending[f].until
      BY <2>2 DEF InputAffirmative, Close
    <3>2. PICK e \in tokens : /\ e.token = pending[f].token
                              /\ e.function = f
                              /\ pending[f].until <= e.until
      BY <3>1 DEF Awaiting, IInv, EveryPendingHasItsToken
    <3>3. now \in Int /\ pending[f].until \in Int /\ e.until \in Int
      BY <3>1, ConfirmationAssumption DEF IInv, TypeOK, Awaiting, PendingEntry, Entry
    <3>4. \E d \in Entries(pending[f].token) : now <= d.until
      BY <3>1, <3>2, <3>3 DEF Entries
    <3> QED BY <2>1, <2>2, <3>4 DEF InputAffirmative
  <2>3. CASE Tick \/ AfterburnerToggles \/ Restart \/ InputForNothing
    BY <2>3 DEF Tick, AfterburnerToggles, Restart, InputForNothing, Say, Reply
  <2>4. ASSUME NEW f \in LowRisk, ExecuteLowRisk(f)
        PROVE  reply'.kind # "invalid"
    BY <2>4 DEF ExecuteLowRisk, Reply
  <2>5. ASSUME NEW f \in Risky, InputTooLate(f) \/ InputNegative(f) \/ InputUnclear(f)
        PROVE  reply'.kind # "invalid"
    BY <2>5 DEF InputTooLate, InputNegative, InputUnclear, Say, Reply
  <2>6. ASSUME NEW f \in Risky, NEW v \in Args(f),
               Refuse(f, v) \/ DecisionTimeNoop(f, v) \/ Prompt(f, v)
        PROVE  reply'.kind # "invalid"
    BY <2>6 DEF Refuse, DecisionTimeNoop, Prompt, Say, Reply
  <2>7. ASSUME NEW f \in Risky, NEW v \in Args(f), NEW t \in Tokens,
               ExecuteWithToken(f, v, t)
        PROVE  reply'.kind # "invalid"
    BY <2>1, <2>7 DEF ExecuteWithToken, Say, Reply
  <2>8. CASE UNCHANGED vars
    BY <2>8 DEF vars, InTimeReplyIsValid
  <2>9. CASE Executor
    BY <2>9 DEF Executor, ExecutorValidates, ExecutorWrites, ExecutorEnds, ExecutorFails,
       Say, Reply
  <2> QED BY <2>1, <2>2, <2>3, <2>4, <2>5, <2>6, <2>7, <2>8, <2>9, NextCases
<1> QED BY <1>1, <1>2, ConfirmationInvariant, PTL DEF Spec

-----------------------------------------------------------------------------
\* Running a risky function spends exactly one registered, unexpired consent
\* that was given for it.
LEMMA RunSpends ==
    ASSUME IInv, NEW f \in Risky, NEW v, NEW e \in tokens,
           e.function = f, now <= e.until,
           tokens' = tokens \ Entries(e.token),
           StartExecutor(f, v), UNCHANGED <<now, fresh>>
    PROVE  Consents!Run(f)
<1>1. Entries(e.token) = {e}
  BY DEF Entries, IInv, TokensAreUnique
<1> QED BY <1>1 DEF Consents!Run, StartExecutor

\* Every step of the flow is a step of Consent or a stutter.
LEMMA StepImplements ==
    ASSUME IInv, [Next]_vars
    PROVE  [Consents!Next]_(Consents!vars)
<1> USE DEF Consents!Next, Consents!vars
<1>1. CASE Tick
  BY <1>1 DEF Tick, Consents!Pass
<1>2. CASE AfterburnerToggles \/ InputForNothing \/ UNCHANGED vars
  BY <1>2 DEF AfterburnerToggles, InputForNothing, vars
<1>3. CASE Restart
  BY <1>3 DEF Restart, Consents!Drop
<1>11. CASE Executor
  BY <1>11 DEF Executor, ExecutorValidates, ExecutorWrites, ExecutorEnds, ExecutorFails
<1>4. ASSUME NEW f \in LowRisk, ExecuteLowRisk(f)
      PROVE  UNCHANGED Consents!vars
  BY <1>4 DEF ExecuteLowRisk
<1>5. ASSUME NEW f \in Risky, InputTooLate(f) \/ InputNegative(f)
      PROVE  Consents!Drop
  BY <1>5 DEF InputTooLate, InputNegative, Close, Consents!Drop
<1>6. ASSUME NEW f \in Risky, InputAffirmative(f)
      PROVE  Consents!Run(f) \/ Consents!Drop
  <2>1. f \in Awaiting /\ tokens' = tokens \ Entries(pending[f].token)
        /\ UNCHANGED <<now, fresh>>
    BY <1>6 DEF InputAffirmative, Close
  <2>2. CASE \E e \in Entries(pending[f].token) : now <= e.until
    <3>1. PICK e \in Entries(pending[f].token) : now <= e.until
      BY <2>2
    <3>2. e \in tokens /\ e.token = pending[f].token /\ e.function = f
      BY <2>1, <3>1 DEF Entries, Awaiting, IInv, EntriesMatchPending
    <3>3. StartExecutor(f, pending[f].args)
      BY <1>6, <2>2 DEF InputAffirmative
    <3> QED BY <2>1, <3>1, <3>2, <3>3, RunSpends
  <2>3. CASE ~\E e \in Entries(pending[f].token) : now <= e.until
    BY <1>6, <2>1, <2>3 DEF InputAffirmative, Consents!Drop
  <2> QED BY <2>2, <2>3
<1>7. ASSUME NEW f \in Risky, NEW v \in Args(f),
             InputUnclear(f) \/ Refuse(f, v) \/ DecisionTimeNoop(f, v)
      PROVE  UNCHANGED Consents!vars
  BY <1>7 DEF InputUnclear, Refuse, DecisionTimeNoop
<1>8. ASSUME NEW f \in Risky, NEW v \in Args(f), Prompt(f, v)
      PROVE  \E t \in Tokens : Consents!Ask(t, f)
  <2>1. PICK t \in fresh :
          /\ fresh' = fresh \ {t}
          /\ tokens' = tokens \cup
               {[token |-> t, function |-> f, until |-> now + TokenTTL]}
    BY <1>8 DEF Prompt
  <2>2. t \in Tokens /\ now + TokenTTL >= now
    BY ConfirmationAssumption DEF IInv, TypeOK
  <2>3. UNCHANGED <<now, runs>>
    BY <1>8 DEF Prompt
  <2> QED BY <2>1, <2>2, <2>3 DEF Consents!Ask
<1>9. ASSUME NEW f \in Risky, NEW v \in Args(f), NEW t \in Tokens,
             ExecuteWithToken(f, v, t)
      PROVE  Consents!Run(f) \/ Consents!Drop
  <2>1. tokens' = tokens \ Entries(t) /\ UNCHANGED <<now, fresh>>
    BY <1>9 DEF ExecuteWithToken
  <2>2. CASE Valid(t, f)
    <3>1. PICK e \in Entries(t) : e.function = f /\ now <= e.until
      BY <2>2 DEF Valid
    <3>2. e \in tokens /\ e.token = t
      BY <3>1 DEF Entries
    <3>3. StartExecutor(f, v)
      BY <1>9, <2>2 DEF ExecuteWithToken
    <3> QED BY <2>1, <3>1, <3>2, <3>3, RunSpends
  <2>3. CASE ~Valid(t, f)
    BY <1>9, <2>1, <2>3 DEF ExecuteWithToken, Consents!Drop
  <2> QED BY <2>2, <2>3
<1>10. ASSUME NEW f \in Risky, InputUnclear(f)
       PROVE  UNCHANGED Consents!vars
  BY <1>10 DEF InputUnclear
<1> QED
  BY <1>1, <1>2, <1>3, <1>4, <1>5, <1>6, <1>7, <1>8, <1>9, <1>10, <1>11, NextCases

\* No risky function ever runs without a live consent of its own, and no consent
\* is used twice: the flow implements Consent.
THEOREM ConfirmationImplementsConsent == Spec => ImplementsConsent
<1>1. Init => Consents!Init
  BY DEF Init, Consents!Init
<1>2. IInv /\ [Next]_vars => [Consents!Next]_(Consents!vars)
  BY StepImplements
<1> QED
  BY <1>1, <1>2, ConfirmationInvariant, PTL
  DEF Spec, ImplementsConsent, Consents!Spec

-----------------------------------------------------------------------------
\* When replies name no function, the only entry a reply can resolve is the one
\* the user was shown last: an older entry makes the reply ambiguous, and a reply
\* is then refused, so entries leave the dictionary only one by one.
SoleEntryIsShown ==
    (loop = "sdk") =>
        \A f \in Risky : Awaiting = {f} =>
            shown = [function |-> f, args |-> pending[f].args, until |-> pending[f].until]

LEMMA StepSole ==
    ASSUME IInv, SoleEntryIsShown, [Next]_vars
    PROVE  SoleEntryIsShown'
<1> SUFFICES ASSUME loop = "sdk",
                    NEW g \in Risky, Awaiting' = {g}
             PROVE  shown' = [function |-> g, args |-> pending'[g].args,
                              until |-> pending'[g].until]
  BY LoopIsFixed DEF SoleEntryIsShown
<1>1. CASE UNCHANGED <<loop, pending, shown>>
  BY <1>1 DEF SoleEntryIsShown, Awaiting
<1>2. CASE Restart
  BY <1>2 DEF Restart, Awaiting
<1>3. ASSUME NEW f \in Risky, Close(f)
      PROVE  FALSE
  <2>1. Awaiting = {f}
    BY <1>3 DEF Close, Addresses
  <2>2. Awaiting' = {}
    BY <1>3, <2>1 DEF Close, Awaiting, IInv, TypeOK
  <2> QED BY <2>2
<1>4. ASSUME NEW f \in Risky, NEW v \in Args(f), Prompt(f, v)
      PROVE  shown' = [function |-> g, args |-> pending'[g].args,
                       until |-> pending'[g].until]
  <2>1. PICK t \in fresh :
          pending' = [pending EXCEPT ![f] =
             [args |-> v, until |-> now + PassthroughTimeout, token |-> t]]
    BY <1>4 DEF Prompt
  <2>2. pending'[f].args = v /\ pending'[f].until = now + PassthroughTimeout
    BY <2>1 DEF IInv, TypeOK
  <2>3. t \in Tokens /\ now \in Int /\ PassthroughTimeout \in Int
    BY ConfirmationAssumption DEF IInv, TypeOK
  <2>4. pending'[f] \in PendingEntry
    BY <2>1, <2>3 DEF IInv, TypeOK, PendingEntry, Args
  <2>5. f \in Awaiting'
    BY <2>4, ConfirmationAssumption DEF Awaiting
  <2> QED BY <1>4, <2>2, <2>5 DEF Prompt
<1>5. ASSUME ~UNCHANGED <<loop, pending, shown>>
      PROVE  \/ Restart
             \/ \E f \in Risky : Close(f)
             \/ \E f \in Risky : \E v \in Args(f) : Prompt(f, v)
  BY <1>5, NextCases
  DEF vars, Tick, AfterburnerToggles, InputForNothing, ExecuteLowRisk, InputTooLate,
      InputAffirmative, InputNegative, InputUnclear, Refuse, DecisionTimeNoop,
      ExecuteWithToken, Executor, ExecutorValidates, ExecutorWrites, ExecutorEnds,
      ExecutorFails
<1> QED BY <1>1, <1>2, <1>3, <1>4, <1>5

\* Under the SDK a reply runs only the change the user was shown last, with the
\* arguments of that prompt, and within 60 seconds of it.
THEOREM ReplyAffirmsLastPrompt == Spec => AffirmsLastPrompt
<1>1. Init => SoleEntryIsShown
  BY DEF Init, SoleEntryIsShown, Awaiting
<1>2. IInv /\ SoleEntryIsShown /\ [Next]_vars => SoleEntryIsShown'
  BY StepSole
<1>3. IInv /\ SoleEntryIsShown /\ [Next]_vars =>
        [ (runs' # runs /\ loop = "sdk") =>
            /\ reply'.function = shown.function
            /\ reply'.args = shown.args
            /\ now <= shown.until ]_vars
  <2> SUFFICES ASSUME IInv, SoleEntryIsShown, [Next]_vars,
                      runs' # runs, loop = "sdk"
               PROVE  /\ reply'.function = shown.function
                      /\ reply'.args = shown.args
                      /\ now <= shown.until
    OBVIOUS
  <2>1. PICK f \in Risky : InputAffirmative(f)
    BY NextCases
    DEF vars, Tick, AfterburnerToggles, Restart, InputForNothing, ExecuteLowRisk,
        InputTooLate, InputNegative, InputUnclear, Refuse, DecisionTimeNoop, Prompt,
        ExecuteWithToken, Executor, ExecutorValidates, ExecutorWrites, ExecutorEnds,
        ExecutorFails
  <2>2. Awaiting = {f} /\ now <= pending[f].until
    BY <2>1 DEF InputAffirmative, Close, Addresses
  <2>3. StartExecutor(f, pending[f].args)
    BY <2>1 DEF InputAffirmative
  <2>4. reply'.function = f /\ reply'.args = pending[f].args
    BY <2>3 DEF StartExecutor, Reply
  <2>5. shown = [function |-> f, args |-> pending[f].args, until |-> pending[f].until]
    BY <2>2 DEF SoleEntryIsShown
  <2> QED BY <2>2, <2>4, <2>5
<1> QED
  BY <1>1, <1>2, <1>3, ConfirmationInvariant, PTL DEF Spec, AffirmsLastPrompt

-----------------------------------------------------------------------------
\* While an executor runs, the limits of now are among those that held, and the
\* value it is about to write was clamped with one of them.
WriteIsClamped ==
    busy # None =>
        /\ limit \in held
        /\ (busy.safe # None /\ busy.function \in Single) =>
                \E l \in held : busy.safe <= l

LEMMA StepClamped ==
    ASSUME IInv, WriteIsClamped, [Next]_vars
    PROVE  WriteIsClamped'
<1>1. CASE UNCHANGED <<limit, exec>>
  BY <1>1 DEF WriteIsClamped
<1>2. CASE AfterburnerToggles
  BY <1>2 DEF AfterburnerToggles, WriteIsClamped
<1>3. CASE busy' = None
  BY <1>3 DEF WriteIsClamped
<1>4. ASSUME NEW f \in Risky, NEW v, StartExecutor(f, v), limit' = limit
      PROVE  WriteIsClamped'
  BY <1>4 DEF StartExecutor, WriteIsClamped
<1>5. CASE ExecutorValidates
  <2>1. busy \in Running /\ limit \in held /\ limit \in Nat
    BY <1>5, ConfirmationAssumption DEF ExecutorValidates, WriteIsClamped, IInv, TypeOK
  <2>2. PICK w \in SafeValues(busy.function, busy.args) :
          busy' = [busy EXCEPT !.safe = w]
    BY <1>5 DEF ExecutorValidates
  <2>3. busy'.safe = w /\ busy'.function = busy.function
    BY <2>1, <2>2 DEF Running
  <2>4. busy.function \in Single => w <= limit
    <3> SUFFICES ASSUME busy.function \in Single PROVE w <= limit
      OBVIOUS
    <3>1. busy.args \in Nat
      BY <1>5, <2>1, ConfirmationAssumption DEF ExecutorValidates, Validates, Running
    <3> QED BY <2>1, <2>2, <3>1 DEF SafeValues, Clamp
  <2>5. held' = held /\ limit' = limit
    BY <1>5 DEF ExecutorValidates
  <2> QED BY <2>1, <2>3, <2>4, <2>5 DEF WriteIsClamped
<1>6. CASE ExecutorWrites
  <2>1. CASE busy.function \in Single
    BY <1>3, <1>6, <2>1 DEF ExecutorWrites
  <2>2. CASE busy.function \notin Single
    <3>1. busy' = [busy EXCEPT !.safe = None] /\ busy \in Running
          /\ held' = held /\ limit' = limit /\ busy # None
      BY <1>6, <2>2 DEF ExecutorWrites, IInv, TypeOK
    <3>2. busy'.safe = None
      BY <3>1 DEF Running
    <3> QED BY <3>1, <3>2 DEF WriteIsClamped
  <2> QED BY <2>1, <2>2
<1>7. ASSUME Next, ~UNCHANGED <<limit, exec>>
      PROVE  \/ AfterburnerToggles
             \/ busy' = None
             \/ \E f \in Risky : \E v \in Requests \cup {None} :
                    StartExecutor(f, v) /\ limit' = limit
             \/ ExecutorValidates
             \/ ExecutorWrites
  <2>1. ASSUME NEW f \in Risky, InputAffirmative(f)
        PROVE  \/ UNCHANGED <<limit, exec>>
               \/ StartExecutor(f, pending[f].args) /\ limit' = limit
    BY <2>1 DEF InputAffirmative, Close
  <2>2. ASSUME NEW f \in Risky, InputAffirmative(f)
        PROVE  pending[f].args \in Requests \cup {None}
    BY <2>2 DEF InputAffirmative, Close, IInv, TypeOK, Awaiting, PendingEntry
  <2>3. ASSUME NEW f \in Risky, NEW v \in Args(f), NEW t \in Tokens,
               ExecuteWithToken(f, v, t)
        PROVE  /\ v \in Requests \cup {None}
               /\ \/ UNCHANGED <<limit, exec>>
                  \/ StartExecutor(f, v) /\ limit' = limit
    BY <2>3 DEF ExecuteWithToken, Args
  <2>4. \/ AfterburnerToggles
        \/ Restart
        \/ Executor
        \/ UNCHANGED <<limit, exec>>
        \/ \E f \in Risky : InputAffirmative(f)
        \/ \E f \in Risky : \E v \in Args(f) : \E t \in Tokens : ExecuteWithToken(f, v, t)
    BY <1>7, NextCases
    DEF Tick, InputForNothing, ExecuteLowRisk, InputTooLate, InputNegative, InputUnclear,
        Close, Refuse, DecisionTimeNoop, Prompt
  <2>5. Restart \/ ExecutorEnds \/ ExecutorFails => busy' = None
    BY DEF Restart, ExecutorEnds, ExecutorFails
  <2> QED BY <1>7, <2>1, <2>2, <2>3, <2>4, <2>5 DEF Executor
<1>8. UNCHANGED vars => UNCHANGED <<limit, exec>>
  BY DEF vars
<1> QED
  BY <1>1, <1>2, <1>3, <1>4, <1>5, <1>6, <1>7, <1>8

\* Only the write of a set_* function answers with a value.
LEMMA OnlyWritesRan ==
    ASSUME Next, reply'.kind = "ran", reply'.function \in Single
    PROVE  \/ ExecutorEnds
           \/ /\ ExecutorWrites
              /\ busy.function \in Single
              /\ reply'.value = busy.safe
<1>1. ASSUME NEW f \in Risky, NEW v, StartExecutor(f, v)
      PROVE  FALSE
  BY <1>1 DEF StartExecutor, Reply
<1>2. Executor
  <2>1. \A f \in Risky : ~InputAffirmative(f)
    BY <1>1 DEF InputAffirmative, Say, Reply
  <2>2. \A f \in Risky : \A v \in Args(f) : \A t \in Tokens : ~ExecuteWithToken(f, v, t)
    BY <1>1 DEF ExecuteWithToken, Say, Reply
  <2> QED
    BY <2>1, <2>2, NextCases
    DEF Tick, AfterburnerToggles, Restart, InputForNothing, ExecuteLowRisk, InputTooLate,
        InputNegative, InputUnclear, Refuse, DecisionTimeNoop, Prompt, Say, Reply
<1>3. ~ExecutorValidates /\ ~ExecutorFails
  BY DEF ExecutorValidates, ExecutorFails, Say, Reply
<1>4. CASE ExecutorWrites
  BY <1>4 DEF ExecutorWrites, Say, Reply
<1> QED
  BY <1>2, <1>3, <1>4 DEF Executor

\* What a confirmed change is reported to have applied lies within limits that
\* held while its executor ran, whatever they were at the prompt.
THEOREM AppliedIsWithinLimitsRead == Spec => AppliedWithinLimitsRead
<1>1. Init => WriteIsClamped
  BY DEF Init, WriteIsClamped
<1>2. IInv /\ WriteIsClamped /\ [Next]_vars => WriteIsClamped'
  BY StepClamped
<1>3. IInv /\ WriteIsClamped /\ [Next]_vars =>
        [ (reply'.kind = "ran" /\ reply'.function \in Single) =>
            \E l \in held : reply'.value <= l ]_vars
  <2> SUFFICES ASSUME IInv, WriteIsClamped, Next,
                      reply'.kind = "ran", reply'.function \in Single
               PROVE  \E l \in held : reply'.value <= l
    OBVIOUS
  <2>1. ~ExecutorEnds
    BY DEF ExecutorEnds, Reply
  <2>2. ExecutorWrites /\ busy.function \in Single /\ reply'.value = busy.safe
    BY <2>1, OnlyWritesRan
  <2> QED
    BY <2>2 DEF ExecutorWrites, WriteIsClamped
<1> QED
  BY <1>1, <1>2, <1>3, ConfirmationInvariant, PTL DEF Spec, AppliedWithinLimitsRead

=============================================================================
