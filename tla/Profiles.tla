------------------------------- MODULE Profiles -------------------------------
(***************************************************************************)
(* ProfileManager (afterburner/services/profiles.py): load_profile applies *)
(* the stored values of a slot one control after the other and reads them  *)
(* back; reset_profile does the same with the slot that matches the values *)
(* in force; get_profiles lists the slots and marks that one.              *)
(*                                                                         *)
(* The slots are read from the file when the operation begins.  Between    *)
(* any two steps the user may move a slider or save a slot, and            *)
(* Afterburner may exit or come back.                                      *)
(***************************************************************************)
EXTENDS Integers, ProfileFile

CONSTANTS
    Keys,           \* the mapped controls in the order they are applied
    Fan,            \* the one of them with an automatic mode
    Mode,           \* the key FanMode
    Fixed,          \* what FanMode says for a fixed fan speed
    Automatic,      \* what it says for a fan on automatic
    Ignored,        \* a key without a control, ThermalLimit for one
    Other,          \* a key that nothing looks up: any other name, and a known one
                    \* in other letters, since case counts
    Values,         \* values of a control, converted to its unit
    Limits,         \* maxima the controls may have; the minimum is 0
    Disks,          \* the Profiles directory as it is when the plugin starts
    Saves,          \* the slots the user saves to meanwhile
    Tolerance,      \* TUNING_MATCH_TOLERANCE
    Garbage         \* a stored text that is no finite number, or a value of a
                    \* control that this GPU lacks

Features == {Keys[i] : i \in 1..Len(Keys)}

\* What a slot may hold; an empty slot holds None throughout.
Stored == [SettingKeys -> Texts \cup {None}]

ASSUME ProfilesAssumption ==
    /\ Keys \in Seq(Features)
    /\ \A i, j \in 1..Len(Keys) : Keys[i] = Keys[j] => i = j
    /\ Fan \in Features /\ Features # {Fan}
    /\ {Mode, Ignored, Other} \cap Features = {}
    /\ Mode # Ignored /\ Mode # Other /\ Ignored # Other
    /\ IsFiniteSet(Slots)
    /\ SettingKeys = Features \cup {Mode, Ignored, Other}
    /\ Format \notin SettingKeys
    /\ Values \subseteq Nat
    /\ Texts = Values \cup {Garbage, Fixed, Automatic}
    /\ Fixed \notin Nat /\ Automatic \notin Nat /\ Fixed # Automatic
    /\ Limits \subseteq Values
    /\ \A d \in Disks : IsDirectory(d)
    /\ Saves \subseteq Slots
    /\ Tolerance \in Nat
    /\ Garbage \notin Nat
    /\ None \notin Nat \cup {Garbage} \cup Sections \cup Stored \cup {"load", "reset", "list", "report"}

VARIABLES
    avail,      \* is the control interface there
    limit,      \* the maximum of the controls
    inForce,    \* the applied value of each control
    auto,       \* is the fan in automatic mode
    disk,       \* the Profiles directory
    op,         \* the operation: "load", "reset", "list", or "report", which
                \* belongs to module Ownership; or None
    next,       \* the index of the next key to apply; past the last: verify;
                \* 0: the slot is still to be found
    shelf,      \* the slots as read from the file
    stored,     \* the slot that is applied
    safe,       \* what the validator made of the value at next, before it is
                \* written; or None
    applied,    \* the list of applied values, as a function
    notices,    \* was anything skipped or clamped
    answer,     \* the outcome of the last operation
    entry,      \* history: the values in force when the operation began, or
                \* Nothing if somebody else has changed them since
    matched     \* history: the slots that were the values in force at a moment
                \* of the running operation that is over

device == <<avail, limit, inForce, auto>>
work   == <<op, next, shelf, stored, safe, applied, notices, entry>>
vars   == <<device, disk, work, answer, matched>>

-----------------------------------------------------------------------------
Near(x, y) == x - y <= Tolerance /\ y - x <= Tolerance

Clamp(v) == IF v > limit THEN limit ELSE v

Nothing == [k \in Features |-> None]

\* _fan_mode_is_fixed: the stored fan speed counts.
FanIsFixed(s) == s[Mode] = Fixed

\* _slot_matches: every stored value equals the one in force, and there is one.  A
\* fan speed without a fixed mode is not looked at, and neither is the mode in
\* force.
Matches(s) ==
    LET compared == {k \in Features : s[k] # None /\ (k = Fan => FanIsFixed(s))}
    IN  /\ compared # {}
        /\ \A k \in compared : s[k] \in Values /\ Near(inForce[k], s[k])

MatchesOn(slots) == {i \in PresentIn(slots) : Matches(slots[i])}

Init ==
    /\ avail \in BOOLEAN
    /\ limit \in Limits
    /\ inForce \in [Features -> {v \in Values : v <= limit}]
    /\ auto \in BOOLEAN
    /\ disk \in Disks
    /\ op = None
    /\ next = 1
    /\ shelf = NoSlots
    /\ stored = Blank
    /\ safe = None
    /\ applied = Nothing
    /\ notices = FALSE
    /\ answer = None
    /\ entry = Nothing
    /\ matched = {}

-----------------------------------------------------------------------------
(* The environment.                                                        *)

\* History: while an operation looks for the active slot, the slots that match
\* before a change are kept.
Remember ==
    matched' = IF op \in {"list", "report"}
               THEN matched \cup MatchesOn(Read(disk).slots) ELSE matched

UserSets(k, v) ==
    /\ avail
    /\ v <= limit
    /\ v # inForce[k]
    /\ inForce' = [inForce EXCEPT ![k] = v]
    /\ entry' = Nothing
    /\ answer' = None
    /\ Remember
    /\ UNCHANGED <<avail, limit, auto, disk, op, next, shelf, stored, safe, applied, notices>>

\* Afterburner exits, or starts, perhaps with other limits.  The hardware keeps its
\* values, also those beyond a new limit; what Afterburner applies of its own when
\* it starts is a step of UserSets.
Toggle ==
    /\ avail' = ~avail
    /\ IF avail THEN UNCHANGED limit ELSE limit' \in Limits
    /\ answer' = None
    /\ UNCHANGED <<inForce, auto, disk, work, matched>>

\* The lines of all sections but this one.
Without(lines, i) ==
    LET kept[j \in 0..Len(lines)] ==
            IF j = 0 THEN <<>>
            ELSE IF CurrentAfter(lines)[j] # i
            THEN Append(kept[j - 1], lines[j])
            ELSE kept[j - 1]
    IN  kept[Len(lines)]

\* What Afterburner writes for a slot: the values in force.
Section(i) ==
    <<Header(i)>> \o [j \in 1..Len(Keys) |-> Setting(Keys[j], inForce[Keys[j]])]
        \o <<Setting(Mode, IF auto THEN Automatic ELSE Fixed)>>

\* The user saves the values in force to a slot; Afterburner rewrites the file.
UserSaves(i) ==
    /\ avail
    /\ ReaderState(disk) = "available"
    /\ \E c \in Attributed(disk.files) :
        disk' = [disk EXCEPT !.files[c] = Without(@, i) \o Section(i)]
    /\ answer' = None
    /\ Remember
    /\ UNCHANGED <<device, work>>

-----------------------------------------------------------------------------
(* The operations.                                                         *)

Finish(a) ==
    /\ op' = None
    /\ next' = 1
    /\ shelf' = NoSlots
    /\ stored' = Blank
    /\ safe' = None
    /\ applied' = Nothing
    /\ notices' = FALSE
    /\ entry' = Nothing
    /\ matched' = {}
    /\ answer' = a

Error == [kind |-> "error"]

\* An operation that is refused when it is called.
Refuse ==
    /\ answer' = Error
    /\ UNCHANGED <<device, disk, work, matched>>

\* _read_snapshot: a directory without a file for this GPU has no profiles, and
\* one that cannot be read or attributed is an error.
Readable(snapshot) == snapshot.state \in {"available", "no_gpu_file"}

\* The slot to apply is found.
Begin(o, s) ==
    /\ op' = o
    /\ next' = 1
    /\ shelf' = NoSlots
    /\ stored' = s
    /\ entry' = inForce
    /\ answer' = None
    /\ UNCHANGED <<device, disk, safe, applied, notices, matched>>

\* The file is read, and the slot is still to be found.
ReadShelf(o) ==
    /\ op' = o
    /\ next' = 0
    /\ shelf' = Read(disk).slots
    /\ answer' = None
    /\ UNCHANGED <<device, disk, stored, safe, applied, notices, entry, matched>>

\* _load_profile: an id without a stored slot is refused, and so is every load
\* without the control interface.
Load(i) ==
    /\ op = None
    /\ LET snapshot == Read(disk)
       IN  IF Readable(snapshot) /\ i \in PresentIn(snapshot.slots) /\ avail
           THEN Begin("load", snapshot.slots[i])
           ELSE Refuse

\* _reset_profile, up to the reading of the file.
Reset ==
    /\ op = None
    /\ LET snapshot == Read(disk)
       IN  IF avail /\ Readable(snapshot) /\ PresentIn(snapshot.slots) # {}
           THEN ReadShelf("reset")
           ELSE Refuse

\* The applied state is read, and exactly one slot must match it.
ResetFindsSlot ==
    /\ op = "reset"
    /\ next = 0
    /\ IF avail /\ Cardinality(MatchesOn(shelf)) = 1
       THEN \E i \in MatchesOn(shelf) : Begin("reset", shelf[i])
       ELSE Finish(Error) /\ UNCHANGED <<device, disk>>

\* Mutant of ActiveOn: a slot that is alone is the active one.
ActiveSole(slots) ==
    IF avail /\ Cardinality(PresentIn(slots)) = 1
    THEN CHOOSE i \in PresentIn(slots) : TRUE
    ELSE None

\* The slot that is marked: the only one that matches, if the applied state can
\* be read.
ActiveOn(slots) ==
    IF avail /\ Cardinality(MatchesOn(slots)) = 1
    THEN CHOOSE i \in MatchesOn(slots) : TRUE
    ELSE None

Listing(slots, active) == [kind |-> "list", listed |-> PresentIn(slots), active |-> active]

\* _get_profiles, up to the reading of the file.  Without slots the list is empty.
List ==
    /\ op = None
    /\ LET snapshot == Read(disk)
       IN  IF ~Readable(snapshot)
           THEN Refuse
           ELSE IF PresentIn(snapshot.slots) = {}
           THEN /\ answer' = Listing(NoSlots, None)
                /\ UNCHANGED <<device, disk, work, matched>>
           ELSE ReadShelf("list")

\* The applied state is read, and the slots are marked.
ListMarks ==
    /\ op = "list"
    /\ Finish(Listing(shelf, ActiveOn(shelf)))
    /\ UNCHANGED <<device, disk>>

Applying == op \in {"load", "reset"} /\ next >= 1

Key == Keys[next]

\* A stored number, and for the fan a fixed mode with it.
Usable == stored[Key] \in Values /\ (Key = Fan => FanIsFixed(stored))

\* Mutant of Skip: a stored value that cannot be applied passes silently.
SkipSilently ==
    /\ Applying
    /\ next <= Len(Keys)
    /\ safe = None
    /\ ~Usable \/ ~avail
    /\ next' = next + 1
    /\ answer' = None
    /\ UNCHANGED <<device, disk, op, shelf, stored, safe, applied, notices, entry, matched>>

\* _apply_one skips what it cannot convert or validate, with a notice; a value
\* that is not stored has none.  An interface that has just gone is a failure to
\* validate.
Skip ==
    /\ Applying
    /\ next <= Len(Keys)
    /\ safe = None
    /\ ~Usable \/ ~avail
    /\ next' = next + 1
    /\ notices' = (notices \/ stored[Key] # None)
    /\ answer' = None
    /\ UNCHANGED <<device, disk, op, shelf, stored, safe, applied, entry, matched>>

\* validate_and_clamp, with the limits as they are read now; a clamped value has a
\* notice.
Validate ==
    /\ Applying
    /\ next <= Len(Keys)
    /\ safe = None
    /\ Usable
    /\ avail
    /\ safe' = Clamp(stored[Key])
    /\ notices' = (notices \/ safe' # stored[Key])
    /\ answer' = None
    /\ UNCHANGED <<device, disk, op, next, shelf, stored, applied, entry, matched>>

\* apply_control: no write if the value is in force, and the hardware may refuse it
\* without an error.
Effect(k, v) ==
    LET same == Near(inForce[k], v) /\ ~(k = Fan /\ auto)
    IN  IF same
        THEN UNCHANGED <<inForce, auto>>
        ELSE \/ UNCHANGED <<inForce, auto>>
             \/ /\ inForce' = [inForce EXCEPT ![k] = v]
                /\ auto' = (auto /\ k # Fan)

\* The validated value is written, whatever has become of the limits.
ApplyOne ==
    /\ Applying
    /\ safe # None
    /\ avail
    /\ Effect(Key, safe)
    /\ applied' = [applied EXCEPT ![Key] = safe]
    /\ next' = next + 1
    /\ safe' = None
    /\ answer' = None
    /\ UNCHANGED <<avail, limit, disk, op, shelf, stored, notices, entry, matched>>

\* apply_control raises, before the write or after it, and so does the whole
\* operation: what was applied before stays.
ApplyFails ==
    /\ Applying
    /\ safe # None
    /\ IF avail THEN Effect(Key, safe) ELSE UNCHANGED <<inForce, auto>>
    /\ Finish(Error)
    /\ UNCHANGED <<avail, limit, disk>>

\* Afterburner goes away before it has taken the command (DISCONNECTED).
Disconnect ==
    /\ Applying
    /\ safe # None
    /\ avail
    /\ avail' = FALSE
    /\ Finish([kind |-> "lost", before |-> entry])
    /\ UNCHANGED <<limit, inForce, auto, disk>>

NothingApplied ==
    /\ Applying
    /\ next > Len(Keys)
    /\ applied = Nothing
    /\ Finish(Error)
    /\ UNCHANGED <<device, disk>>

\* The notices, with those for keys that have no control.
Noted == notices \/ stored[Ignored] # None

\* Mutant of Sticks: only the last control is compared.
SticksLast == LET k == Keys[Len(Keys)] IN applied[k] = None \/ Near(inForce[k], applied[k])

\* _verify_applied compares what was applied with the state that is read back.
Sticks == \A k \in Features : applied[k] # None => Near(inForce[k], applied[k])

\* Mutant of Verify: what did not stick is applied again.
VerifyRetries ==
    /\ Applying
    /\ next > Len(Keys)
    /\ applied # Nothing
    /\ IF avail /\ Sticks
       THEN Finish([kind |-> op, slot |-> stored, noted |-> Noted])
       ELSE /\ next' = 1
            /\ applied' = Nothing
            /\ UNCHANGED <<op, shelf, stored, safe, notices, answer, entry, matched>>
    /\ UNCHANGED <<device, disk>>

Verify ==
    /\ Applying
    /\ next > Len(Keys)
    /\ applied # Nothing
    /\ IF avail /\ Sticks
       THEN Finish([kind |-> op, slot |-> stored, noted |-> Noted])
       ELSE Finish(Error)
    /\ UNCHANGED <<device, disk>>

-----------------------------------------------------------------------------
Work ==
    \/ ResetFindsSlot \/ ListMarks
    \/ Skip \/ Validate \/ ApplyOne \/ ApplyFails \/ Disconnect \/ NothingApplied \/ Verify

Environment ==
    \/ Toggle
    \/ \E k \in Features, v \in Values : UserSets(k, v)
    \/ \E i \in Saves : UserSaves(i)

Next ==
    \/ Environment
    \/ \E i \in Slots : Load(i)
    \/ Reset \/ List
    \/ Work

Spec == Init /\ [][Next]_vars

-----------------------------------------------------------------------------
(* Properties.                                                             *)

TypeOK ==
    /\ avail \in BOOLEAN
    /\ limit \in Limits
    /\ inForce \in [Features -> Values]
    /\ auto \in BOOLEAN
    /\ IsDirectory(disk)
    /\ op \in {"load", "reset", "list", "report", None}
    /\ next \in 0..(Len(Keys) + 1)
    /\ shelf \in [Slots -> Stored]
    /\ stored \in Stored
    /\ safe \in Values \cup {None}
    /\ applied \in [Features -> Values \cup {None}]
    /\ notices \in BOOLEAN
    /\ entry \in [Features -> Values \cup {None}]
    /\ matched \subseteq Slots

\* A value for a control is the stored one, or a limit below it and a notice.
Fits(k, v) == v # stored[k] => notices /\ v \in Limits /\ v < stored[k]

\* What the operation believes it applied is what the slot stores, clamped to a
\* limit that was read for it, and a difference of the two is on record
\* (_apply_one).
AppliedIsStored ==
    \A k \in Features : applied[k] # None => stored[k] \in Values /\ Fits(k, applied[k])

\* So is the value about to be written.
SafeIsStored ==
    safe # None => Applying /\ next <= Len(Keys) /\ Usable /\ Fits(Key, safe)

\* A stored value that the loop has passed is applied or has a notice.
NothingIsDropped ==
    Applying =>
        \A i \in 1..(next - 1) :
            stored[Keys[i]] # None /\ applied[Keys[i]] = None => notices

IInv == TypeOK /\ AppliedIsStored /\ SafeIsStored /\ NothingIsDropped

\* A profile that is reported as applied or restored, with nothing to note, matches the
\* values in force in the sense in which get_profiles marks a profile active: two
\* pieces of code, _apply_slot with _verify_applied and _slot_matches, agree
\* although everything moves meanwhile.
LoadedIsActive ==
    answer # None /\ answer.kind \in {"load", "reset"} /\ ~answer.noted => Matches(answer.slot)

\* Whenever the file is read, what the reader reports of it is what the last line
\* for each key says, and a directory that is missing, unreadable or ambiguous has
\* no slots: no profile is ever made up (read, _parse_ini, _extract_slots).
SnapshotIsTheFile == ReadsTheFile(disk)

\* Requirement 13.5: if Afterburner disconnects during a control operation, the
\* prior settings are preserved.
DisconnectPreserves ==
    answer # None /\ answer.kind = "lost" /\ answer.before # Nothing =>
        inForce = answer.before
=============================================================================
