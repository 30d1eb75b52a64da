------------------------------ MODULE Nicknames ------------------------------
(***************************************************************************)
(* ProfileNicknames (afterburner/services/nicknames.py) and the way the    *)
(* plugin turns a reference into a slot (_resolve_profile_ref).            *)
(*                                                                         *)
(* A nickname is set in memory first; then the whole map is written to a   *)
(* temporary file, which replaces config.json.  The write may fail, and    *)
(* the process may be killed, between any two of these steps; the user may *)
(* edit config.json at any time.                                           *)
(***************************************************************************)
EXTENDS Naturals, FiniteSets

CONSTANTS
    Slots,      \* profile slots
    Names,      \* texts of the form _NICKNAME_RE asks for
    Fold,       \* the case-folded form of a name
    Reads,      \* the slot that _parse_profile_ref reads in it, or None
    Reserved,   \* names that _RESERVED holds, in any case
    Others,     \* what config.json may hold beside the nicknames
    Files,      \* what is in config.json at first or when the user edits it
    Absent,     \* no file
    Broken,     \* a file that is no JSON object, such as a part of one
    None        \* no name, no slot, nothing

Valid == Names \ Reserved

Maps == [Slots -> Names \cup {None}]

Contents == [names : Maps, other : Others \cup {None}]

ASSUME NicknamesAssumption ==
    /\ IsFiniteSet(Slots)
    /\ Fold \in [Names -> Names]
    /\ Reads \in [Names -> Slots \cup {None}]
    /\ Reserved \subseteq Names
    /\ None \notin Slots \cup Names \cup Others \cup Maps \cup Contents \cup {Absent, Broken}
    /\ Files \subseteq Contents \cup {Absent, Broken}
    /\ Absent \notin Contents
    /\ Broken \notin Contents \cup {Absent}

VARIABLES
    running,    \* is the plugin there
    memory,     \* _memory
    file,       \* config.json
    tmp,        \* config.json.tmp
    phase,      \* of set_nickname: "idle", "write" or "replace"
    payload,    \* what is being saved
    answer,     \* "ok", "error" or None
    acked,      \* history: the map that the answers since the last start vouched
                \* for; None if the file was edited since
    unsaved     \* history: slots whose change in memory has not reached the file

past == <<acked, unsaved>>
vars == <<running, memory, file, tmp, phase, payload, answer, past>>

-----------------------------------------------------------------------------
NoNames == [s \in Slots |-> None]

\* _load: entries that do not validate are dropped.
Load(f) ==
    IF f \in {Absent, Broken}
    THEN NoNames
    ELSE [s \in Slots |-> IF f.names[s] \in Valid THEN f.names[s] ELSE None]

\* The slots whose nickname is n but for its case.
Owners(n) == {s \in Slots : memory[s] # None /\ Fold[memory[s]] = Fold[n]}

\* Mutant of Resolve: the case counts.
ResolveExact(n) ==
    IF \E s \in Slots : {t \in Slots : memory[t] = n} = {s}
    THEN CHOOSE s \in Slots : memory[s] = n
    ELSE None

\* resolve: the slot with that nickname, if there is exactly one.
Resolve(n) ==
    IF \E s \in Slots : Owners(n) = {s}
    THEN CHOOSE s \in Slots : Owners(n) = {s}
    ELSE None

\* _resolve_profile_ref: the nicknames come first.  A number is a reference too.
Ref(r) ==
    IF r \in Slots THEN r
    ELSE IF Resolve(r) # None THEN Resolve(r) ELSE Reads[r]

Init ==
    /\ running = TRUE
    /\ file \in Files
    /\ memory = Load(file)
    /\ tmp = Absent
    /\ phase = "idle"
    /\ payload = None
    /\ answer = None
    /\ acked = memory
    /\ unsaved = {}

-----------------------------------------------------------------------------
\* The reference or the name is refused.
Refuse(r, n) ==
    /\ running
    /\ phase = "idle"
    /\ \/ Ref(r) = None
       \/ n \in Reserved
       \/ n # None /\ Resolve(n) \notin {None, Ref(r)}
    /\ answer' = "error"
    /\ UNCHANGED <<running, memory, file, tmp, phase, payload, past>>

\* The answer vouches for a slot without a name.  It is read from the memory alone
\* and nothing is saved.
NothingToClear(r) ==
    /\ running
    /\ phase = "idle"
    /\ Ref(r) # None
    /\ memory[Ref(r)] = None
    /\ answer' = "ok"
    /\ acked' = IF acked = None THEN None ELSE [acked EXCEPT ![Ref(r)] = None]
    /\ UNCHANGED <<running, memory, file, tmp, phase, payload, unsaved>>

\* _save begins: what else the file holds is kept, if the file can be read.
OtherSettings == IF file \in Contents THEN {file.other, None} ELSE {None}

\* Mutant of SetName: what is saved was collected before the change.
SetNameSavesOld(r, n) ==
    /\ running
    /\ phase = "idle"
    /\ Ref(r) # None
    /\ \/ n = None /\ memory[Ref(r)] # None
       \/ n \in Valid /\ Resolve(n) \in {None, Ref(r)}
    /\ memory' = [memory EXCEPT ![Ref(r)] = n]
    /\ \E o \in OtherSettings : payload' = [names |-> memory, other |-> o]
    /\ phase' = "write"
    /\ answer' = None
    /\ unsaved' = unsaved \cup {Ref(r)}
    /\ UNCHANGED <<running, file, tmp, acked>>

\* set_nickname: the memory changes before anything is saved.
SetName(r, n) ==
    /\ running
    /\ phase = "idle"
    /\ Ref(r) # None
    /\ \/ n = None /\ memory[Ref(r)] # None
       \/ n \in Valid /\ Resolve(n) \in {None, Ref(r)}
    /\ memory' = [memory EXCEPT ![Ref(r)] = n]
    /\ \E o \in OtherSettings : payload' = [names |-> memory', other |-> o]
    /\ phase' = "write"
    /\ answer' = None
    /\ unsaved' = unsaved \cup {Ref(r)}
    /\ UNCHANGED <<running, file, tmp, acked>>

\* Mutant of WriteTmp: the file itself is opened for writing.
WriteInPlace ==
    /\ phase = "write"
    /\ file' = Broken
    /\ tmp' = payload
    /\ phase' = "replace"
    /\ UNCHANGED <<running, memory, payload, answer, past>>

WriteTmp ==
    /\ phase = "write"
    /\ tmp' = payload
    /\ phase' = "replace"
    /\ UNCHANGED <<running, memory, file, payload, answer, past>>

Replace ==
    /\ phase = "replace"
    /\ file' = tmp
    /\ tmp' = Absent
    /\ phase' = "idle"
    /\ payload' = None
    /\ answer' = "ok"
    /\ acked' = memory
    /\ unsaved' = {}
    /\ UNCHANGED <<running, memory>>

\* OSError of the write or of the replacement: the temporary file is removed,
\* unless that fails as well; the memory keeps the new map.
SaveFails ==
    /\ phase # "idle"
    /\ tmp' \in {tmp, Absent} \cup (IF phase = "write" THEN {Broken} ELSE {})
    /\ phase' = "idle"
    /\ payload' = None
    /\ answer' = "error"
    /\ UNCHANGED <<running, memory, file, past>>

-----------------------------------------------------------------------------
\* The process is killed, perhaps while it writes the temporary file.
Killed ==
    /\ running
    /\ running' = FALSE
    /\ tmp' \in {tmp} \cup (IF phase = "write" THEN {Broken} ELSE {})
    /\ memory' = NoNames
    /\ phase' = "idle"
    /\ payload' = None
    /\ answer' = None
    /\ UNCHANGED <<file, past>>

\* __init__ loads the map.
Start ==
    /\ ~running
    /\ running' = TRUE
    /\ memory' = Load(file)
    /\ acked' = memory'
    /\ unsaved' = {}
    /\ UNCHANGED <<file, tmp, phase, payload, answer>>

UserEdits(f) ==
    /\ file' = f
    /\ acked' = None
    /\ answer' = None
    /\ UNCHANGED <<running, memory, tmp, phase, payload, unsaved>>

Next ==
    \/ \E r \in Slots \cup Names :
          \/ NothingToClear(r)
          \/ \E n \in Names \cup {None} : Refuse(r, n) \/ SetName(r, n)
    \/ WriteTmp
    \/ Replace
    \/ SaveFails
    \/ Killed
    \/ Start
    \/ \E f \in Files : UserEdits(f)

Spec == Init /\ [][Next]_vars

-----------------------------------------------------------------------------
(* Properties.                                                             *)

TypeOK ==
    /\ running \in BOOLEAN
    /\ memory \in [Slots -> Valid \cup {None}]
    /\ file \in Contents \cup {Absent, Broken}
    /\ tmp \in Contents \cup {Absent, Broken}
    /\ phase \in {"idle", "write", "replace"}
    /\ payload \in Contents \cup {None}
    /\ answer \in {"ok", "error", None}
    /\ acked \in [Slots -> Valid \cup {None}] \cup {None}
    /\ unsaved \subseteq Slots

\* What is on its way to the disk is the map in memory, whole: reading it back
\* gives that map.
SavesMemory ==
    /\ phase # "idle" => running /\ payload # None /\ payload.names = memory
    /\ phase = "replace" => tmp = payload

\* But for the slots whose last change was not saved, the file holds what is in
\* memory.
OthersAreSaved ==
    running /\ acked # None =>
        \A s \in Slots \ unsaved : Load(file)[s] = memory[s]

\* While nobody edits the file, it holds what the answers vouched for: neither a
\* failed save nor a kill at any point replaces a good config (nicknames.py, module
\* docstring), and a name once acknowledged is there at the next start.  The one
\* exception is an answer that a slot has no name to clear: after a clear whose save
\* failed the memory is ahead of the file, and the name comes back.
AcknowledgedIsOnDisk ==
    acked # None =>
        \A s \in Slots :
            Load(file)[s] = acked[s] \/ (s \in unsaved /\ acked[s] = None)

IInv == TypeOK /\ SavesMemory /\ OthersAreSaved /\ AcknowledgedIsOnDisk

\* Two slots never share a nickname, the case aside.
Unique(m) ==
    \A s, t \in Slots :
        s # t /\ m[s] # None /\ m[t] # None => Fold[m[s]] # Fold[m[t]]

\* No request makes a nickname ambiguous, however the names are moved from slot
\* to slot and whatever failed before; only a file edited by hand can.
StaysUnique == [][running /\ running' /\ Unique(memory) => Unique(memory')]_vars
=============================================================================
