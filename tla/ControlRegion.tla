----------------------------- MODULE ControlRegion -----------------------------
(***************************************************************************)
(* The layout of the control map as afterburner/integration/macm.py takes  *)
(* it from the header (validate_control_region, _entry_offset), and the    *)
(* words that a write of one control copies back.  Offsets are in bytes.   *)
(***************************************************************************)
EXTENDS Integers

CONSTANTS
    Controls,       \* single-value controls with a named MACM field
    Fan,            \* the one with an automatic mode beside its value
    HeaderBytes,    \* the size of MACM_SHARED_MEMORY_HEADER
    EntryBytes,     \* the size of MACM_SHARED_MEMORY_GPU_ENTRY
    MaxEntries,     \* _MAX_GPU_ENTRIES
    CommandAt,      \* the offset of dwCommand in the header
    FieldAt,        \* the offset of the *_Cur word of each control in an entry
    FanFlagsAt,     \* the offset of dwFanFlagsCur in an entry
    Gpu,            \* the gpu_index of the calls
    Headers         \* headers a map may have, with the size of the mapped view

\* dwCommand and the named fields are whole words of their structures.
ASSUME ControlRegionAssumption ==
    /\ Fan \in Controls
    /\ HeaderBytes \in Nat /\ EntryBytes \in Nat /\ MaxEntries \in Nat
    /\ CommandAt \in Nat /\ CommandAt + 4 <= HeaderBytes
    /\ FieldAt \in [Controls -> Nat]
    /\ \A c \in Controls : FieldAt[c] + 4 <= EntryBytes
    /\ FanFlagsAt \in Nat /\ FanFlagsAt + 4 <= EntryBytes
    /\ Gpu \in Nat
    /\ Headers \subseteq [initialised : BOOLEAN, supported : BOOLEAN,
                          size : Nat, entries : Nat, esize : Nat, mapped : Nat]

-----------------------------------------------------------------------------
\* The end of the region a header declares.
RegionEnd(h) == h.size + h.entries * h.esize

\* Mutant of Verdict: a header is believed whatever was mapped.
VerdictTrusting(h) ==
    IF ~h.initialised THEN "unavailable"
    ELSE IF ~h.supported THEN "unsupported"
    ELSE IF h.size < HeaderBytes \/ h.entries > MaxEntries THEN "unavailable"
    ELSE IF h.entries > 0 /\ h.esize = 0 THEN "unavailable"
    ELSE IF h.entries > 0 /\ h.esize # EntryBytes THEN "unsupported"
    ELSE "ok"

\* validate_control_region: its checks in their order, for a signature that is not
\* 0xDEAD.
Verdict(h) ==
    IF h.mapped < HeaderBytes \/ ~h.initialised THEN "unavailable"
    ELSE IF ~h.supported THEN "unsupported"
    ELSE IF h.size < HeaderBytes \/ h.entries > MaxEntries THEN "unavailable"
    ELSE IF h.entries > 0 /\ h.esize = 0 THEN "unavailable"
    ELSE IF h.entries > 0 /\ h.esize # EntryBytes THEN "unsupported"
    ELSE IF RegionEnd(h) > h.mapped THEN "unavailable"
    ELSE "ok"

\* Can the entry of the GPU be used?  An index out of range is UNSUPPORTED_GPU, like
\* an unknown version nothing that a retry would mend.
Usable(h)  == Verdict(h) = "ok" /\ Gpu < h.entries
Refused(h) == Verdict(h) = "unsupported" \/ (Verdict(h) = "ok" /\ ~(Gpu < h.entries))

EntryOffset(h, gpu) == h.size + gpu * h.esize

\* The offsets of the words that apply_control_to_region returns for control c.
WordOffsets(h, c) ==
    {EntryOffset(h, Gpu) + FieldAt[c], CommandAt}
        \cup IF c = Fan THEN {EntryOffset(h, Gpu) + FanFlagsAt} ELSE {}

\* Does the word at offset w share a byte with the entry of a GPU?
Touches(h, gpu, w) ==
    w < EntryOffset(h, gpu) + h.esize /\ EntryOffset(h, gpu) < w + 4

\* The words of a write of control c lie in the mapped view; those that are not
\* the command belong to the entry of the GPU and to no other, and the command to
\* none.
OwnWords(h, c) ==
    \A w \in WordOffsets(h, c) :
        /\ w + 4 <= h.mapped
        /\ \A gpu \in 0..(h.entries - 1) :
               Touches(h, gpu, w) => gpu = Gpu /\ w # CommandAt
================================================================================
