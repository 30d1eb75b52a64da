--------------------------- MODULE NicknamesProofs ---------------------------
(***************************************************************************)
(* Proofs about Nicknames, for every set of slots and names.               *)
(*                                                                         *)
(* IInv is inductive.  Two steps need care.  At Replace the file becomes   *)
(* the temporary file, which SavesMemory says is the payload, whose names  *)
(* are the map in memory; all of them are valid, so that loading the file  *)
(* gives that map back (LoadRestores).  At NothingToClear the answer goes  *)
(* by the memory, which OthersAreSaved ties to the file in every slot      *)
(* whose last change was saved.                                            *)
(***************************************************************************)
EXTENDS Nicknames, TLAPS

USE NicknamesAssumption

\* What _save wrote, _load reads: no entry is dropped.
LEMMA LoadRestores ==
    ASSUME NEW f \in Contents, f.names \in [Slots -> Valid \cup {None}]
    PROVE  Load(f) = f.names
<1>1. f \notin {Absent, Broken}
  OBVIOUS
<1>2. \A s \in Slots : (IF f.names[s] \in Valid THEN f.names[s] ELSE None) = f.names[s]
  OBVIOUS
<1> QED
  BY <1>1, <1>2 DEF Load

\* _load lets only valid names through, whatever is in the file.
LEMMA LoadIsValid ==
    ASSUME NEW f \in Contents \cup {Absent, Broken}
    PROVE  Load(f) \in [Slots -> Valid \cup {None}]
  BY DEF Load, NoNames

\* A reference that is not refused is a slot.
LEMMA RefIsSlot ==
    ASSUME NEW r \in Slots \cup Names, Ref(r) # None
    PROVE  Ref(r) \in Slots
<1>1. \A n : Resolve(n) # None => Resolve(n) \in Slots
  <2> SUFFICES ASSUME NEW n, Resolve(n) # None
               PROVE  Resolve(n) \in Slots
    OBVIOUS
  <2>1. PICK s \in Slots : Owners(n) = {s}
    BY DEF Resolve
  <2> QED
    BY <2>1 DEF Resolve
<1> QED
  BY <1>1 DEF Ref

LEMMA InitInv == Init => IInv
<1> SUFFICES ASSUME Init PROVE IInv
  OBVIOUS
<1>1. file \in Contents \cup {Absent, Broken}
  BY DEF Init
<1>2. Load(file) \in [Slots -> Valid \cup {None}]
  BY <1>1, LoadIsValid
<1> QED
  BY <1>1, <1>2 DEF Init, IInv, TypeOK, SavesMemory, OthersAreSaved,
     AcknowledgedIsOnDisk

\* The map that is saved is the one that is in memory from now on.
LEMMA SetNameInv ==
    ASSUME IInv, NEW r \in Slots \cup Names, NEW n \in Names \cup {None}, SetName(r, n)
    PROVE  IInv'
<1>1. Ref(r) \in Slots
  BY RefIsSlot DEF SetName
<1>2. n \in Valid \cup {None}
  BY DEF SetName
<1>3. memory' \in [Slots -> Valid \cup {None}]
  BY <1>1, <1>2 DEF SetName, IInv, TypeOK
<1>4. memory' \in Maps
  BY <1>3 DEF Maps, Valid
<1>5. PICK o \in OtherSettings : payload' = [names |-> memory', other |-> o]
  BY DEF SetName
<1>6. o \in Others \cup {None}
  BY <1>5 DEF OtherSettings, Contents
<1>7. payload' \in Contents /\ payload'.names = memory'
  BY <1>4, <1>5, <1>6 DEF Contents
<1>8. TypeOK'
  BY <1>3, <1>7 DEF SetName, IInv, TypeOK
<1>9. SavesMemory'
  BY <1>7 DEF SetName, IInv, SavesMemory
<1>10. unsaved' = unsaved \cup {Ref(r)}
  BY DEF SetName
<1>11. AcknowledgedIsOnDisk'
  BY <1>10 DEF SetName, IInv, AcknowledgedIsOnDisk, Load
<1>12. OthersAreSaved'
  <2>1. \A s \in Slots \ unsaved' : memory'[s] = memory[s]
    BY <1>1, <1>10 DEF SetName, IInv, TypeOK
  <2> QED
    BY <1>10, <2>1 DEF SetName, IInv, OthersAreSaved, Load
<1> QED
  BY <1>8, <1>9, <1>11, <1>12 DEF IInv

\* The slot is answered for by the memory: the file agrees, or the slot is one whose
\* last change was not saved.
LEMMA NothingToClearInv ==
    ASSUME IInv, NEW r \in Slots \cup Names, NothingToClear(r)
    PROVE  IInv'
<1> DEFINE i == Ref(r)
<1>1. i \in Slots /\ memory[i] = None
  BY RefIsSlot DEF NothingToClear
<1>2. acked' = IF acked = None THEN None ELSE [acked EXCEPT ![i] = None]
  BY DEF NothingToClear
<1> HIDE DEF i
<1>3. TypeOK'
  <2>1. acked' \in [Slots -> Valid \cup {None}] \cup {None}
    BY <1>1, <1>2 DEF IInv, TypeOK
  <2> QED
    BY <2>1 DEF NothingToClear, IInv, TypeOK
<1>4. SavesMemory'
  BY DEF NothingToClear, IInv, SavesMemory
<1>5. acked' # None => acked # None
  BY <1>2
<1>6. OthersAreSaved'
  BY <1>5 DEF NothingToClear, IInv, OthersAreSaved, Load
<1>7. AcknowledgedIsOnDisk'
  <2> SUFFICES ASSUME acked' # None, NEW s \in Slots
               PROVE  \/ Load(file)[s] = acked'[s]
                      \/ s \in unsaved /\ acked'[s] = None
    BY DEF NothingToClear, AcknowledgedIsOnDisk, Load
  <2>1. acked \in [Slots -> Valid \cup {None}] /\ acked' = [acked EXCEPT ![i] = None]
    BY <1>2, <1>5 DEF IInv, TypeOK
  <2>2. CASE s = i
    <3>1. acked'[s] = None
      BY <2>1, <2>2
    <3>2. s \notin unsaved => Load(file)[s] = None
      BY <1>1, <1>5, <2>2 DEF IInv, OthersAreSaved, NothingToClear
    <3> QED
      BY <3>1, <3>2
  <2>3. CASE s # i
    <3>1. acked'[s] = acked[s]
      BY <2>1, <2>3
    <3> QED
      BY <1>5, <3>1 DEF IInv, AcknowledgedIsOnDisk
  <2> QED
    BY <2>2, <2>3
<1> QED
  BY <1>3, <1>4, <1>6, <1>7 DEF IInv

LEMMA ReplaceInv ==
    ASSUME IInv, Replace
    PROVE  IInv'
<1>1. tmp = payload /\ payload \in Contents /\ payload.names = memory
  BY DEF IInv, SavesMemory, TypeOK, Replace
<1>2. file' \in Contents /\ file'.names = memory
  BY <1>1 DEF Replace
<1>3. Load(file') = memory
  BY <1>2, LoadRestores DEF IInv, TypeOK
<1>4. AcknowledgedIsOnDisk'
  BY <1>3 DEF Replace, AcknowledgedIsOnDisk, Load
<1>5. TypeOK' /\ SavesMemory' /\ OthersAreSaved'
  BY <1>2, <1>3 DEF Replace, IInv, TypeOK, SavesMemory, OthersAreSaved, Load
<1> QED
  BY <1>4, <1>5 DEF IInv

LEMMA StepInv == IInv /\ [Next]_vars => IInv'
<1> SUFFICES ASSUME IInv, [Next]_vars PROVE IInv'
  OBVIOUS
<1> USE DEF IInv, TypeOK, SavesMemory, OthersAreSaved, AcknowledgedIsOnDisk, past
<1>1. ASSUME NEW r \in Slots \cup Names, NothingToClear(r) PROVE IInv'
  BY <1>1, NothingToClearInv
<1>2. ASSUME NEW r \in Slots \cup Names, NEW n \in Names \cup {None}, Refuse(r, n)
      PROVE  IInv'
  BY <1>2 DEF Refuse, Load
<1>3. ASSUME NEW r \in Slots \cup Names, NEW n \in Names \cup {None}, SetName(r, n)
      PROVE  IInv'
  BY <1>3, SetNameInv
<1>4. CASE WriteTmp
  BY <1>4 DEF WriteTmp, Load
<1>5. CASE Replace
  BY <1>5, ReplaceInv
<1>6. CASE SaveFails
  BY <1>6 DEF SaveFails, Load
<1>7. CASE Killed
  BY <1>7 DEF Killed, Load, NoNames
<1>8. CASE Start
  <2>1. Load(file) \in [Slots -> Valid \cup {None}]
    BY LoadIsValid
  <2> QED
    BY <1>8, <2>1 DEF Start, Load
<1>9. ASSUME NEW f \in Files, UserEdits(f) PROVE IInv'
  BY <1>9 DEF UserEdits
<1>10. CASE UNCHANGED vars
  BY <1>10 DEF vars, Load
<1> QED
  BY <1>1, <1>2, <1>3, <1>4, <1>5, <1>6, <1>7, <1>8, <1>9, <1>10 DEF Next

\* The invariant of the nickname store: what is on its way to the disk is the map
\* in memory, and the file agrees with the memory and with the answers but for
\* changes whose save failed, wherever it fails or the process is killed.
THEOREM NicknamesInvariant == Spec => []IInv
  BY InitInv, StepInv, PTL DEF Spec

\* A name that was acknowledged is what the next start loads (module docstring of
\* nicknames.py: "a partial JSON body cannot replace a good config"), and a slot said
\* to have none has none, unless its last change was not saved.
THEOREM AcknowledgedSurvives == Spec => []AcknowledgedIsOnDisk
<1>1. IInv => AcknowledgedIsOnDisk
  BY DEF IInv
<1> QED
  BY <1>1, NicknamesInvariant, PTL

-----------------------------------------------------------------------------
\* A name that resolves to no slot, or to this one, is held by no other slot, as
\* long as no two slots share a name.
LEMMA ResolveIsOwner ==
    ASSUME IInv, Unique(memory), NEW n \in Names, NEW s \in Slots,
           Resolve(n) \in {None, s}
    PROVE  Owners(n) \subseteq {s}
<1> SUFFICES ASSUME NEW t \in Owners(n) PROVE t = s
  OBVIOUS
<1>1. Owners(n) = {t}
  BY DEF Owners, Unique
<1>2. Resolve(n) = t
  BY <1>1 DEF Resolve, Owners
<1> QED
  BY <1>2 DEF Owners

LEMMA SetNameUnique ==
    ASSUME IInv, NEW r \in Slots \cup Names, NEW n \in Names \cup {None}, SetName(r, n),
           Unique(memory)
    PROVE  Unique(memory')
<1> DEFINE i == Ref(r)
<1>1. i \in Slots
  BY RefIsSlot DEF SetName
<1>2. memory \in [Slots -> Valid \cup {None}] /\ memory' = [memory EXCEPT ![i] = n]
  BY DEF SetName, IInv, TypeOK
<1>3. n # None => \A s \in Slots : s # i /\ memory[s] # None => Fold[memory[s]] # Fold[n]
  <2> SUFFICES ASSUME n # None PROVE Owners(n) \subseteq {i}
    BY DEF Owners
  <2> QED
    BY <1>1, ResolveIsOwner DEF SetName
<1> QED
  BY <1>1, <1>2, <1>3 DEF Unique

\* No request makes a nickname ambiguous.
THEOREM NoRequestMakesDoubles == Spec => StaysUnique
<1>1. IInv /\ [Next]_vars => [running /\ running' /\ Unique(memory) => Unique(memory')]_vars
  <2> SUFFICES ASSUME IInv, [Next]_vars, running, running', Unique(memory)
               PROVE  Unique(memory')
    OBVIOUS
  <2>1. ASSUME NEW r \in Slots \cup Names, NEW n \in Names \cup {None}, SetName(r, n)
        PROVE  Unique(memory')
    BY <2>1, SetNameUnique
  <2>2. CASE memory' = memory
    BY <2>2
  <2>3. CASE Killed \/ Start
    BY <2>3 DEF Killed, Start
  <2> QED
    BY <2>1, <2>2, <2>3 DEF Next, NothingToClear, Refuse, WriteTmp, Replace,
                            SaveFails, UserEdits, vars
<1> QED
  BY <1>1, NicknamesInvariant, PTL DEF Spec, StaysUnique
=============================================================================
