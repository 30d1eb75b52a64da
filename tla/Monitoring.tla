------------------------------ MODULE Monitoring ------------------------------
(***************************************************************************)
(* AfterburnerMonitoringClient (afterburner/integration/mahm.py): detect   *)
(* and read_telemetry open a view of MAHMSharedMemory, copy it, validate   *)
(* the copy and build a sample from it.                                    *)
(*                                                                         *)
(* The reader takes no mutex.  While it copies, MSI Afterburner publishes  *)
(* new values, lays the map out anew, or exits and starts.  The header is  *)
(* whatever the map holds: nothing in it is trusted.                       *)
(***************************************************************************)
EXTENDS Integers, Sequences

CONSTANTS
    HeaderSize,     \* sizes of the bound structures: the header,
    EntrySize,      \* a monitoring entry
    GpuSize,        \* and a GPU entry
    MaxEntries,     \* _MAX_ENTRIES
    MaxGpus,        \* _MAX_GPU_ENTRIES
    Word,           \* 2^32: the fields of the header are DWORDs
    Headers,        \* headers the map may have
    Regions,        \* sizes of the mapped region
    Tables,         \* the monitoring entries the map may have
    Values,         \* values of a source
    Unavailable,    \* FLT_MAX, an infinity or a NaN in their place
    Fields,         \* fields of a sample
    Candidates,     \* for each, the sources it may come from (_SOURCE_TO_FIELD)
    None            \* no field, no answer

Header ==
    [sig : {"MAHM", "dead", "other"}, supported : BOOLEAN, size : 0..(Word - 1),
     n : 0..(Word - 1), esize : 0..(Word - 1), gpus : 0..(Word - 1), gsize : 0..(Word - 1)]

Sources == UNION {{Candidates[f][j] : j \in 1..Len(Candidates[f])} : f \in Fields}

\* A dwGpu that is no index of a GPU marks a global source.
Entry == [gpu : 0..(Word - 1), src : Sources, data : Values \cup {Unavailable}]

ASSUME MonitoringAssumption ==
    /\ HeaderSize \in Nat \ {0}
    /\ EntrySize \in Nat \ {0}
    /\ GpuSize \in Nat \ {0}
    /\ MaxEntries \in Nat
    /\ MaxGpus \in Nat
    /\ Word \in Nat \ {0}
    /\ Headers \subseteq Header
    /\ Regions \subseteq Nat
    /\ Tables \subseteq [1..MaxEntries -> Entry]
    /\ \A f \in Fields : Candidates[f] \in Seq(Sources)
    /\ Unavailable \notin Values
    /\ None \notin Values

VARIABLES
    \* MSI Afterburner
    present,    \* is there a map to open
    header,     \* its header
    table,      \* its monitoring entries
    region,     \* the size of the mapped region
    \* the reader
    pc,         \* where the call is
    op,         \* "detect" or "telemetry"
    gpu,        \* the gpu_index of read_telemetry
    view,       \* are the handle and the view open
    size,       \* _region_size
    seen,       \* the header in the copy
    rows,       \* the entries in the copy, as far as it got
    answer,     \* the outcome of the last call
    \* history
    steady,     \* has the map had its layout since the call began
    published   \* what its entries held since then

map    == <<present, header, table, region>>
call   == <<op, gpu>>
copy   == <<size, seen, rows>>
past   == <<steady, published>>
vars   == <<map, pc, call, view, copy, answer, past>>

-----------------------------------------------------------------------------
(* Parsing, on the copy alone.                                             *)

\* Mutant of RegionEnd: the monitoring entries are forgotten.
RegionEndNoEntries(h) == h.size + h.gpus * h.gsize

\* The end of the region a header declares; integers of Python do not wrap.
RegionEnd(h) == h.size + h.n * h.esize + h.gpus * h.gsize

\* The checks of _snapshot_from_map and parse_mahm, in their order.
Verdict(h, length) ==
    IF length < HeaderSize THEN "unavailable"
    ELSE IF h.sig = "dead" THEN "not_running"
    ELSE IF h.sig # "MAHM" THEN "unavailable"
    ELSE IF h.n > MaxEntries \/ h.gpus > MaxGpus THEN "unavailable"
    ELSE IF RegionEnd(h) > length THEN "unavailable"
    ELSE IF ~h.supported THEN "unsupported_version"
    ELSE IF h.size < HeaderSize THEN "unavailable"
    ELSE IF h.n > 0 /\ h.esize = 0 THEN "unavailable"
    ELSE IF h.n > 0 /\ h.esize # EntrySize THEN "unsupported_version"
    ELSE IF h.gpus > 0 /\ h.gsize = 0 THEN "unavailable"
    ELSE IF h.gpus > 0 /\ h.gsize # GpuSize THEN "unsupported_version"
    ELSE "ok"

\* Where the loops of parse_mahm read entry i and GPU entry i.
EntryAt(h, i) == h.size + i * h.esize
GpuAt(h, i)   == h.size + h.n * h.esize + i * h.gsize

\* Mutant of OfGpu: the sources of all GPUs.
OfAnyGpu(h, t, g) == 1..h.n

\* The entries sampled for GPU g (MahmGpu.entries).
OfGpu(h, t, g) == {i \in 1..h.n : t[i].gpu = g}

\* The row a field is taken from, if there is one: the first of its source, and
\* of its sources the first that this GPU has.
RowOf(h, t, g, f) ==
    {i \in OfGpu(h, t, g) : \E j \in 1..Len(Candidates[f]) :
        /\ t[i].src = Candidates[f][j]
        /\ \A k \in OfGpu(h, t, g) :
               /\ t[k].src = t[i].src => i <= k
               /\ \A m \in 1..(j - 1) : t[k].src # Candidates[f][m]}

\* If that source has no value the field is missing, whatever the later ones have.
FieldValue(h, t, g, f) ==
    LET row == CHOOSE i \in RowOf(h, t, g, f) : TRUE
    IN  IF RowOf(h, t, g, f) = {} \/ t[row].data = Unavailable THEN None ELSE t[row].data

Sample(h, t, g) == [f \in Fields |-> FieldValue(h, t, g, f)]

-----------------------------------------------------------------------------
Contents(t) == {t[i] : i \in 1..MaxEntries}

Answer(code, sample) == [op |-> op, gpu |-> gpu, code |-> code, sample |-> sample]

Init ==
    /\ present \in BOOLEAN
    /\ header \in Headers
    /\ table \in Tables
    /\ region \in Regions
    /\ pc = "idle"
    /\ op = "detect"
    /\ gpu = 0
    /\ view = FALSE
    /\ size = 0
    /\ seen = None
    /\ rows = << >>
    /\ answer = None
    /\ steady = TRUE
    /\ published = {}

-----------------------------------------------------------------------------
(* MSI Afterburner.                                                        *)

\* The next poll of a source.
Publish(i, d) ==
    /\ present
    /\ header.sig = "MAHM"
    /\ table' = [table EXCEPT ![i].data = d]
    /\ published' = IF pc = "idle" \/ ~steady THEN {} ELSE published \cup Contents(table')
    /\ UNCHANGED <<present, header, region, pc, call, view, copy, answer, steady>>

\* It exits: the map is marked, and goes when nobody has it open any more.
Exit ==
    /\ header.sig # "dead"
    /\ header' = [header EXCEPT !.sig = "dead"]
    /\ present' \in BOOLEAN
    /\ UNCHANGED <<table, region, pc, call, view, copy, answer, past>>

\* It starts, or lays the map out anew.  A map that a view holds open keeps its
\* size.
LayOut ==
    /\ present' = TRUE
    /\ header' \in Headers
    /\ table' \in Tables
    /\ region' \in IF view THEN {region} ELSE Regions
    /\ steady' = (pc = "idle")
    /\ published' = {}
    /\ UNCHANGED <<pc, call, view, copy, answer>>

-----------------------------------------------------------------------------
(* The reader.                                                             *)

\* detect (with an install directory) and read_telemetry.
Request(o, g) ==
    /\ pc = "idle"
    /\ op' = o
    /\ gpu' = g
    /\ pc' = "open"
    /\ answer' = None
    /\ steady' = TRUE
    /\ published' = Contents(table)
    /\ UNCHANGED <<map, view, copy>>

\* The call ends.  Leaving the with statement, or the except clause of __init__,
\* closes what is open.
Finish(code, sample) ==
    /\ pc' = "idle"
    /\ view' = FALSE
    /\ size' = 0
    /\ seen' = None
    /\ rows' = << >>
    /\ answer' = Answer(code, sample)
    /\ steady' = TRUE
    /\ published' = {}

\* _ReadOnlyView.__init__: OpenFileMappingW.
Open ==
    /\ pc = "open"
    /\ \/ /\ present
          /\ pc' = "map"
          /\ view' = TRUE
          /\ UNCHANGED <<copy, answer, past>>
       \/ \E code \in IF present THEN {"access_denied", "unavailable"} ELSE {"not_running"} :
              Finish(code, None)
    /\ UNCHANGED <<map, call>>

\* MapViewOfFile and VirtualQuery.
MapView ==
    /\ pc = "map"
    /\ pc' = "header"
    /\ size' = region
    /\ UNCHANGED <<map, call, view, seen, rows, answer, past>>

\* Mutant of MapFails: the handle stays open.
MapFailsLeaks ==
    /\ pc = "map"
    /\ pc' = "idle"
    /\ answer' \in {Answer(code, None) : code \in {"access_denied", "unavailable"}}
    /\ UNCHANGED <<map, call, view, copy, past>>

MapFails ==
    /\ pc = "map"
    /\ \E code \in {"access_denied", "unavailable"} : Finish(code, None)
    /\ UNCHANGED <<map, call>>

\* read_region copies the mapped bytes from the first to the last: the header,
CopyHeader ==
    /\ pc = "header"
    /\ seen' = header
    /\ pc' = "rows"
    /\ UNCHANGED <<map, call, view, size, rows, answer, past>>

\* and one entry after the other.
CopyRow ==
    /\ pc = "rows"
    /\ Len(rows) < MaxEntries
    /\ rows' = Append(rows, table[Len(rows) + 1])
    /\ UNCHANGED <<map, pc, call, view, size, seen, answer, past>>

Check ==
    /\ pc = "rows"
    /\ Len(rows) = MaxEntries
    /\ IF Verdict(seen, size) = "ok"
       THEN /\ pc' = "build"
            /\ UNCHANGED <<view, copy, answer, past>>
       ELSE Finish(Verdict(seen, size), None)
    /\ UNCHANGED <<map, call>>

\* What is built from a copy that passed: a sample, if the GPU is there.
Build ==
    /\ pc = "build"
    /\ IF op = "detect" THEN Finish("ok", None)
       ELSE IF gpu >= seen.gpus THEN Finish("unsupported_gpu", None)
       ELSE Finish("ok", Sample(seen, rows, gpu))
    /\ UNCHANGED <<map, call>>

-----------------------------------------------------------------------------
Afterburner ==
    \/ Exit \/ LayOut
    \/ \E i \in 1..MaxEntries, d \in Values \cup {Unavailable} : Publish(i, d)

Reader ==
    \/ Open \/ MapView \/ MapFails \/ CopyHeader \/ CopyRow \/ Check \/ Build

Next ==
    \/ Afterburner
    \/ Reader
    \/ Request("detect", 0)
    \/ \E g \in 0..MaxGpus : Request("telemetry", g)

Spec == Init /\ [][Next]_vars

-----------------------------------------------------------------------------
(* Properties.                                                             *)

TypeOK ==
    /\ present \in BOOLEAN
    /\ header \in Header
    /\ table \in [1..MaxEntries -> Entry]
    /\ region \in Nat
    /\ pc \in {"idle", "open", "map", "header", "rows", "build"}
    /\ op \in {"detect", "telemetry"}
    /\ gpu \in 0..MaxGpus
    /\ view \in BOOLEAN
    /\ size \in Nat
    /\ seen \in Header \cup {None}
    /\ rows \in Seq(Entry)
    /\ Len(rows) <= MaxEntries
    /\ steady \in BOOLEAN
    /\ published \subseteq Entry

\* The view is open while it is read and at no other time, on whatever path a
\* call ends.
ViewIsOpenWhileRead == view <=> pc \in {"map", "header", "rows", "build"}

\* Only a copy whose own header passed every check is taken apart.
CheckedBeforeBuilt ==
    /\ pc \in {"rows", "build"} => seen \in Header
    /\ pc = "build" => Verdict(seen, size) = "ok" /\ Len(rows) = MaxEntries

\* Nothing of the map outlives the call that copied it.
CopyIsOfThisCall == pc \notin {"rows", "build"} => rows = << >> /\ seen = None

\* What was copied was there since the call began.
RowsWerePublished ==
    steady /\ pc # "idle" =>
        /\ Contents(table) \subseteq published
        /\ \A i \in 1..Len(rows) : rows[i] \in published

\* The inductive invariant of the reader.
IInv ==
    /\ TypeOK
    /\ ViewIsOpenWhileRead
    /\ CheckedBeforeBuilt
    /\ CopyIsOfThisCall
    /\ RowsWerePublished

\* parse_mahm ("never crashes on malformed input"): whatever the header says and
\* however the map changed while it was copied, every structure is read whole,
\* within the copy, with GPU entries or without, and none overlaps another.
ReadsWithinCopy ==
    pc = "build" =>
        /\ \A i \in 0..(seen.n - 1) :
               /\ HeaderSize <= EntryAt(seen, i)
               /\ EntryAt(seen, i) + EntrySize <= EntryAt(seen, i + 1)
               /\ EntryAt(seen, i) + EntrySize <= GpuAt(seen, 0)
               /\ EntryAt(seen, i) + EntrySize <= size
        /\ \A i \in 0..(seen.gpus - 1) :
               /\ HeaderSize <= GpuAt(seen, i)
               /\ GpuAt(seen, i) + GpuSize <= GpuAt(seen, i + 1)
               /\ GpuAt(seen, i) + GpuSize <= size
        /\ GpuAt(seen, seen.gpus) <= size

\* A field of a sample is a value that Afterburner published during the call, for
\* this GPU and for a source of this field (telemetry_from_snapshot: "never a
\* fabricated value").  Afterburner may publish meanwhile, but not lay the map
\* out anew: nothing in the protocol of the map tells a reader of that.
SampleIsPublished ==
    [][ (pc # "idle" /\ pc' = "idle" /\ steady /\ answer'.sample # None) =>
            \A f \in Fields :
                answer'.sample[f] # None =>
                    \E e \in published :
                        /\ e.gpu = answer'.gpu
                        /\ e.data = answer'.sample[f]
                        /\ e.data # Unavailable
                        /\ \E j \in 1..Len(Candidates[f]) : e.src = Candidates[f][j] ]_vars
=============================================================================
