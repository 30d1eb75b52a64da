--------------------------- MODULE MonitoringProofs ---------------------------
(***************************************************************************)
(* Proofs about Monitoring, for any sizes of the structures, any header    *)
(* and any width of its fields.                                            *)
(*                                                                         *)
(* The arithmetic is in EntriesFit, GpusFit and RegionFits: a header that  *)
(* passes Verdict lays its structures side by side within the copy.  The   *)
(* rest shows that only such a header reaches the loops of parse_mahm, as  *)
(* the copy does not change after the check.  FieldIsTheFirst says which   *)
(* entry a field comes from.                                               *)
(***************************************************************************)
EXTENDS Monitoring, WellFoundedInduction, TLAPS

\* A product grows with its first factor.
LEMMA Monotone ==
    ASSUME NEW a \in Nat, NEW b \in Nat, NEW c \in Nat, a <= b
    PROVE  a * c <= b * c
  <1>1. (b - a) * c >= 0
    OBVIOUS
  <1>2. b * c = a * c + (b - a) * c
    OBVIOUS
  <1> QED
    BY <1>1, <1>2

\* The next entry begins where one ends.
LEMMA Successor ==
    ASSUME NEW i \in Nat, NEW c \in Nat
    PROVE  (i + 1) * c = i * c + c
  OBVIOUS

\* A product of natural numbers is one.
LEMMA Product ==
    ASSUME NEW a \in Nat, NEW b \in Nat
    PROVE  a * b \in Nat
  OBVIOUS

\* The fields of a header are natural numbers, and so is the end it declares.
LEMMA HeaderFields ==
    ASSUME NEW h \in Header
    PROVE  /\ h.size \in Nat /\ h.n \in Nat /\ h.esize \in Nat
           /\ h.gpus \in Nat /\ h.gsize \in Nat
           /\ h.n * h.esize \in Nat /\ h.gpus * h.gsize \in Nat
           /\ RegionEnd(h) \in Nat
  <1>1. /\ h.size \in Nat /\ h.n \in Nat /\ h.esize \in Nat
        /\ h.gpus \in Nat /\ h.gsize \in Nat
    BY MonitoringAssumption DEF Header
  <1>2. h.n * h.esize \in Nat /\ h.gpus * h.gsize \in Nat
    BY <1>1, Product
  <1> QED
    BY <1>1, <1>2 DEF RegionEnd

\* What a header that passed says about its structures.
LEMMA VerdictOK ==
    ASSUME NEW h \in Header, NEW length \in Nat, Verdict(h, length) = "ok"
    PROVE  /\ RegionEnd(h) <= length
           /\ h.size >= HeaderSize
           /\ h.n > 0 => h.esize = EntrySize
           /\ h.gpus > 0 => h.gsize = GpuSize
           /\ h.n <= MaxEntries
  <1>1. Verdict(h, length) = "ok" <=>
            /\ ~(length < HeaderSize) /\ h.sig # "dead" /\ h.sig = "MAHM"
            /\ ~(h.n > MaxEntries \/ h.gpus > MaxGpus) /\ ~(RegionEnd(h) > length)
            /\ h.supported /\ ~(h.size < HeaderSize)
            /\ ~(h.n > 0 /\ h.esize = 0) /\ ~(h.n > 0 /\ h.esize # EntrySize)
            /\ ~(h.gpus > 0 /\ h.gsize = 0) /\ ~(h.gpus > 0 /\ h.gsize # GpuSize)
    BY Zenon DEF Verdict
  <1>2. /\ h.size \in Nat /\ h.n \in Nat /\ h.esize \in Nat
        /\ h.gpus \in Nat /\ h.gsize \in Nat /\ RegionEnd(h) \in Nat
    BY HeaderFields
  <1>3. /\ HeaderSize \in Nat /\ EntrySize \in Nat /\ GpuSize \in Nat
        /\ MaxEntries \in Nat /\ MaxGpus \in Nat
    BY MonitoringAssumption
  <1> QED
    BY <1>1, <1>2, <1>3

\* Its entries lie behind the header, one after the other, before the GPU entries.
LEMMA EntriesFit ==
    ASSUME NEW h \in Header, NEW length \in Nat, Verdict(h, length) = "ok",
           NEW i \in 0..(h.n - 1)
    PROVE  /\ HeaderSize <= EntryAt(h, i)
           /\ EntryAt(h, i) + EntrySize <= EntryAt(h, i + 1)
           /\ EntryAt(h, i) + EntrySize <= GpuAt(h, 0)
           /\ EntryAt(h, i) + EntrySize <= length
  <1>1. h.esize = EntrySize /\ h.size >= HeaderSize /\ RegionEnd(h) <= length
    BY VerdictOK, HeaderFields
  <1>2. i \in Nat /\ i + 1 \in Nat /\ i + 1 <= h.n /\ h.size \in Nat /\ h.n \in Nat
        /\ h.esize \in Nat /\ HeaderSize \in Nat
    BY HeaderFields, MonitoringAssumption
  <1>3. i * h.esize \in Nat /\ (i + 1) * h.esize = i * h.esize + h.esize
    BY <1>2, Product, Successor
  <1>4. (i + 1) * h.esize <= h.n * h.esize
    BY <1>2, Monotone
  <1>5. 0 * h.gsize = 0 /\ h.n * h.esize \in Nat /\ h.gpus * h.gsize \in Nat
    BY HeaderFields
  <1> QED
    BY <1>1, <1>2, <1>3, <1>4, <1>5 DEF EntryAt, GpuAt, RegionEnd

\* Its GPU entries follow, one after the other, and end within the copy.
LEMMA GpusFit ==
    ASSUME NEW h \in Header, NEW length \in Nat, Verdict(h, length) = "ok",
           NEW i \in 0..(h.gpus - 1)
    PROVE  /\ HeaderSize <= GpuAt(h, i)
           /\ GpuAt(h, i) + GpuSize <= GpuAt(h, i + 1)
           /\ GpuAt(h, i) + GpuSize <= length
  <1>1. h.gsize = GpuSize /\ h.size >= HeaderSize /\ RegionEnd(h) <= length
    BY VerdictOK, HeaderFields
  <1>2. i \in Nat /\ i + 1 \in Nat /\ i + 1 <= h.gpus /\ h.size \in Nat /\ h.gpus \in Nat
        /\ h.gsize \in Nat /\ HeaderSize \in Nat /\ h.n * h.esize \in Nat
    BY HeaderFields, MonitoringAssumption
  <1>3. i * h.gsize \in Nat /\ (i + 1) * h.gsize = i * h.gsize + h.gsize
    BY <1>2, Successor
  <1>4. (i + 1) * h.gsize <= h.gpus * h.gsize /\ h.gpus * h.gsize \in Nat
    BY <1>2, Monotone
  <1> QED
    BY <1>1, <1>2, <1>3, <1>4 DEF GpuAt, RegionEnd

\* With GPU entries or without, the declared region ends within the copy.
LEMMA RegionFits ==
    ASSUME NEW h \in Header, NEW length \in Nat, Verdict(h, length) = "ok"
    PROVE  GpuAt(h, h.gpus) <= length
  BY VerdictOK, HeaderFields DEF GpuAt, RegionEnd

-----------------------------------------------------------------------------
\* An empty copy is one.
LEMMA EmptyCopy == << >> \in Seq(Entry) /\ Len(<< >>) = 0 /\ 0 <= MaxEntries
  BY MonitoringAssumption

\* The invariant holds initially.
LEMMA InitInv == Init => IInv
  <1> SUFFICES ASSUME Init PROVE IInv
    OBVIOUS
  <1>1. TypeOK
    <2>1. /\ header \in Header /\ table \in [1..MaxEntries -> Entry]
          /\ region \in Nat /\ gpu \in 0..MaxGpus
      BY MonitoringAssumption DEF Init
    <2> QED
      BY <2>1, EmptyCopy DEF Init, TypeOK
  <1>2. ViewIsOpenWhileRead /\ CheckedBeforeBuilt /\ CopyIsOfThisCall
        /\ RowsWerePublished
    BY DEF Init, ViewIsOpenWhileRead, CheckedBeforeBuilt, CopyIsOfThisCall, RowsWerePublished
  <1> QED
    BY <1>1, <1>2 DEF IInv

\* The end of a call keeps it.
LEMMA FinishInv ==
    ASSUME IInv, NEW code, NEW sample, Finish(code, sample), UNCHANGED <<map, call>>
    PROVE  IInv'
  <1>1. TypeOK'
    BY EmptyCopy DEF Finish, IInv, TypeOK, map, call
  <1>2. ViewIsOpenWhileRead' /\ CheckedBeforeBuilt' /\ CopyIsOfThisCall'
        /\ RowsWerePublished'
    BY DEF Finish, ViewIsOpenWhileRead, CheckedBeforeBuilt, CopyIsOfThisCall, RowsWerePublished
  <1> QED
    BY <1>1, <1>2 DEF IInv

\* So does every step of MSI Afterburner.
LEMMA AfterburnerInv == IInv /\ Afterburner => IInv'
  <1> SUFFICES ASSUME IInv, Afterburner PROVE IInv'
    OBVIOUS
  <1> USE MonitoringAssumption
  <1> USE DEF IInv, TypeOK, ViewIsOpenWhileRead, CheckedBeforeBuilt, CopyIsOfThisCall,
              RowsWerePublished, call, copy, past
  <1>1. CASE Exit
    <2>1. header' \in Header
      BY <1>1 DEF Exit, Header
    <2> QED
      BY <1>1, <2>1 DEF Exit
  <1>2. CASE LayOut
    <2>1. region' \in Nat
      BY <1>2 DEF LayOut
    <2>2. ~steady' \/ pc' = "idle"
      BY <1>2 DEF LayOut
    <2> QED
      BY <1>2, <2>1, <2>2 DEF LayOut
  <1>3. ASSUME NEW i \in 1..MaxEntries, NEW d \in Values \cup {Unavailable}, Publish(i, d)
        PROVE  IInv'
    <2>1. [table[i] EXCEPT !.data = d] \in Entry
      BY DEF Entry
    <2>2. table' \in [1..MaxEntries -> Entry]
      BY <1>3, <2>1 DEF Publish
    <2>3. Contents(table') \subseteq Entry
      BY <2>2 DEF Contents
    <2>4. published' \subseteq Entry
      BY <1>3, <2>3 DEF Publish
    <2>5. RowsWerePublished'
      BY <1>3 DEF Publish
    <2> QED
      BY <1>3, <2>2, <2>4, <2>5 DEF Publish
  <1> QED
    BY <1>1, <1>2, <1>3 DEF Afterburner

\* And every step of the reader.
LEMMA ReaderInv == IInv /\ Reader => IInv'
  <1> SUFFICES ASSUME IInv, Reader PROVE IInv'
    OBVIOUS
  <1> USE MonitoringAssumption
  <1>1. CASE Open
    <2>1. CASE pc' = "map"
      BY <1>1, <2>1 DEF Open, Finish, IInv, TypeOK, ViewIsOpenWhileRead,
         CheckedBeforeBuilt, CopyIsOfThisCall, RowsWerePublished, map, call, copy, past
    <2>2. CASE pc' # "map"
      BY <1>1, <2>2, FinishInv DEF Open
    <2> QED
      BY <2>1, <2>2
  <1>2. CASE MapView
    BY <1>2 DEF MapView, IInv, TypeOK, ViewIsOpenWhileRead, CheckedBeforeBuilt,
                CopyIsOfThisCall, RowsWerePublished, map, call, copy, past
  <1>3. CASE MapFails
    BY <1>3, FinishInv DEF MapFails
  <1>4. CASE CopyHeader
    BY <1>4 DEF CopyHeader, IInv, TypeOK, ViewIsOpenWhileRead, CheckedBeforeBuilt,
                CopyIsOfThisCall, RowsWerePublished, map, call, copy, past
  <1>5. CASE CopyRow
    <2> DEFINE k == Len(rows) + 1
    <2>1. rows \in Seq(Entry) /\ k \in 1..MaxEntries /\ table[k] \in Entry
      BY <1>5 DEF CopyRow, IInv, TypeOK
    <2>2. /\ rows' \in Seq(Entry) /\ Len(rows') = k
          /\ \A i \in 1..k : rows'[i] = IF i = k THEN table[k] ELSE rows[i]
      BY <1>5, <2>1 DEF CopyRow
    <2>3. TypeOK'
      BY <1>5, <2>1, <2>2 DEF CopyRow, IInv, TypeOK, map, call, past
    <2>4. steady /\ pc # "idle" => table[k] \in published
      BY <2>1 DEF IInv, RowsWerePublished, Contents
    <2>5. RowsWerePublished'
      BY <1>5, <2>1, <2>2, <2>4 DEF CopyRow, IInv, RowsWerePublished, Contents, map, past
    <2> QED
      BY <1>5, <2>3, <2>5 DEF CopyRow, IInv, ViewIsOpenWhileRead, CheckedBeforeBuilt,
                              CopyIsOfThisCall
  <1>6. CASE Check
    <2>1. CASE Verdict(seen, size) = "ok"
      BY <1>6, <2>1 DEF Check, IInv, TypeOK, ViewIsOpenWhileRead, CheckedBeforeBuilt,
         CopyIsOfThisCall, RowsWerePublished, Contents, map, call, copy, past
    <2>2. CASE Verdict(seen, size) # "ok"
      BY <1>6, <2>2, FinishInv DEF Check
    <2> QED
      BY <2>1, <2>2
  <1>7. CASE Build
    BY <1>7, FinishInv DEF Build
  <1> QED
    BY <1>1, <1>2, <1>3, <1>4, <1>5, <1>6, <1>7 DEF Reader

LEMMA RequestInv ==
    ASSUME IInv, NEW o \in {"detect", "telemetry"}, NEW g \in 0..MaxGpus, Request(o, g)
    PROVE  IInv'
  <1>1. published' \subseteq Entry
    BY DEF Request, Contents, IInv, TypeOK
  <1>2. TypeOK'
    BY <1>1 DEF Request, IInv, TypeOK, map, copy
  <1>3. ViewIsOpenWhileRead' /\ CheckedBeforeBuilt' /\ CopyIsOfThisCall'
    BY DEF Request, IInv, ViewIsOpenWhileRead, CheckedBeforeBuilt, CopyIsOfThisCall, copy
  <1>4. RowsWerePublished'
    BY DEF Request, IInv, RowsWerePublished, CopyIsOfThisCall, map, copy, Contents
  <1> QED
    BY <1>2, <1>3, <1>4 DEF IInv

LEMMA StutterInv == IInv /\ UNCHANGED vars => IInv'
  BY DEF vars, map, call, copy, past, IInv, TypeOK, ViewIsOpenWhileRead, CheckedBeforeBuilt,
         CopyIsOfThisCall, RowsWerePublished, Contents

LEMMA StepInv == IInv /\ [Next]_vars => IInv'
  BY AfterburnerInv, ReaderInv, RequestInv, StutterInv, MonitoringAssumption DEF Next

\* The inductive invariant of the reader.
THEOREM MonitoringInvariant == Spec => []IInv
  <1> QED
    BY InitInv, StepInv, PTL DEF Spec

\* Whatever the map holds and however it changes, the loops read whole structures
\* within the copy, and none overlaps another.
THEOREM EveryReadIsInside == Spec => []ReadsWithinCopy
  <1>1. IInv => ReadsWithinCopy
    BY EntriesFit, GpusFit, RegionFits DEF IInv, TypeOK, CheckedBeforeBuilt, ReadsWithinCopy
  <1> QED
    BY <1>1, MonitoringInvariant, PTL

-----------------------------------------------------------------------------
(* The row of a field.                                                     *)

\* A nonempty set of numbers has a least element.
LEMMA LeastNumber ==
    ASSUME NEW T \in SUBSET Nat, T # {}
    PROVE  \E x \in T : \A y \in T : x <= y
  <1> DEFINE R == {p \in Nat \X Nat : p[1] < p[2]}
  <1>1. IsWellFoundedOn(R, Nat)
    BY NatLessThanWellFounded DEF OpToRel
  <1>2. PICK x \in T : \A y \in T : <<y, x>> \notin R
    <2> HIDE DEF R
    <2> QED
      BY <1>1, WFMin
  <1>3. ASSUME NEW y \in T PROVE x <= y
    <2>1. <<y, x>> \notin R /\ x \in Nat /\ y \in Nat
      BY <1>2, <1>3
    <2> QED
      BY <2>1
  <1> QED
    BY <1>3

\* The entries of a GPU with source s.
Of(h, t, g, s) == {i \in OfGpu(h, t, g) : t[i].src = s}

\* The candidates for a field that the GPU has, by their positions.
Had(h, t, g, f) == {j \in 1..Len(Candidates[f]) : Of(h, t, g, Candidates[f][j]) # {}}

\* Two rows for one field are one.
LEMMA RowIsUnique ==
    ASSUME NEW h \in Header, NEW t, NEW g, NEW f \in Fields,
           NEW a \in RowOf(h, t, g, f), NEW b \in RowOf(h, t, g, f)
    PROVE  a = b
  <1>1. a \in OfGpu(h, t, g) /\ b \in OfGpu(h, t, g) /\ a \in Nat /\ b \in Nat
    BY HeaderFields DEF RowOf, OfGpu
  <1>2. PICK i \in 1..Len(Candidates[f]) :
            /\ t[a].src = Candidates[f][i]
            /\ \A k \in OfGpu(h, t, g) :
                   /\ t[k].src = t[a].src => a <= k
                   /\ \A m \in 1..(i - 1) : t[k].src # Candidates[f][m]
    BY DEF RowOf
  <1>3. PICK j \in 1..Len(Candidates[f]) :
            /\ t[b].src = Candidates[f][j]
            /\ \A k \in OfGpu(h, t, g) :
                   /\ t[k].src = t[b].src => b <= k
                   /\ \A m \in 1..(j - 1) : t[k].src # Candidates[f][m]
    BY DEF RowOf
  <1>4. i \notin 1..(j - 1) /\ j \notin 1..(i - 1)
    BY <1>1, <1>2, <1>3
  <1>5. i = j
    <2>1. i \in Nat /\ j \in Nat /\ 1 <= i /\ 1 <= j
      BY MonitoringAssumption
    <2> QED
      BY <1>4, <2>1
  <1> QED
    BY <1>1, <1>2, <1>3, <1>5

\* There is a row if the GPU has a source of the field.
LEMMA RowIsThere ==
    ASSUME NEW h \in Header, NEW t, NEW g, NEW f \in Fields, Had(h, t, g, f) # {}
    PROVE  RowOf(h, t, g, f) # {}
  <1> DEFINE J == Had(h, t, g, f)
  <1>1. Len(Candidates[f]) \in Nat
    BY MonitoringAssumption
  <1>2. J \in SUBSET Nat
    BY <1>1 DEF Had
  <1>3. PICK j \in J : \A m \in J : j <= m
    BY <1>2, LeastNumber
  <1> DEFINE S == Of(h, t, g, Candidates[f][j])
  <1>4. S \in SUBSET Nat /\ S # {}
    BY <1>3, HeaderFields DEF Of, OfGpu, Had
  <1>5. PICK i \in S : \A k \in S : i <= k
    <2> HIDE DEF S
    <2> QED
      BY <1>4, LeastNumber
  <1>6. j \in 1..Len(Candidates[f]) /\ j \in Nat
    BY <1>1, <1>3 DEF Had
  <1>7. i \in OfGpu(h, t, g) /\ t[i].src = Candidates[f][j]
    BY <1>5 DEF Of
  <1>8. ASSUME NEW k \in OfGpu(h, t, g)
        PROVE  /\ t[k].src = t[i].src => i <= k
               /\ \A m \in 1..(j - 1) : t[k].src # Candidates[f][m]
    <2>1. t[k].src = t[i].src => k \in S
      BY <1>7 DEF Of
    <2>2. ASSUME NEW m \in 1..(j - 1), t[k].src = Candidates[f][m] PROVE FALSE
      <3>1. m \in 1..Len(Candidates[f]) /\ m < j
        BY <1>1, <1>6
      <3>2. m \in J
        BY <2>2, <3>1 DEF Had, Of
      <3> QED
        BY <1>2, <1>3, <3>1, <3>2
    <2> QED
      BY <1>5, <2>1, <2>2
  <1> QED
    BY <1>6, <1>7, <1>8 DEF RowOf

\* A field of a sample is missing only if the GPU has no source of it, or if the first
\* entry of the first source it has holds no value; otherwise the field is that entry's
\* value, and no other entry is in question.
THEOREM FieldIsTheFirst ==
    ASSUME NEW h \in Header, NEW t, \A i \in 1..h.n : t[i] \in Entry, NEW g, NEW f \in Fields
    PROVE  IF \A i \in OfGpu(h, t, g), j \in 1..Len(Candidates[f]) : t[i].src # Candidates[f][j]
           THEN FieldValue(h, t, g, f) = None
           ELSE \E i \in 1..h.n :
                    /\ RowOf(h, t, g, f) = {i}
                    /\ FieldValue(h, t, g, f) = IF t[i].data = Unavailable THEN None ELSE t[i].data
                    /\ FieldValue(h, t, g, f) = None <=> t[i].data = Unavailable
  <1>1. CASE \A i \in OfGpu(h, t, g), j \in 1..Len(Candidates[f]) : t[i].src # Candidates[f][j]
    <2>1. RowOf(h, t, g, f) = {}
      BY <1>1 DEF RowOf
    <2> QED
      BY <1>1, <2>1 DEF FieldValue
  <1>2. CASE \E i \in OfGpu(h, t, g), j \in 1..Len(Candidates[f]) : t[i].src = Candidates[f][j]
    <2>1. Had(h, t, g, f) # {}
      BY <1>2 DEF Had, Of
    <2>2. PICK i : i \in RowOf(h, t, g, f)
      BY <2>1, RowIsThere
    <2>3. RowOf(h, t, g, f) = {i}
      BY <2>2, RowIsUnique
    <2>4. i \in 1..h.n
      BY <2>2 DEF RowOf, OfGpu
    <2>5. FieldValue(h, t, g, f) = IF t[i].data = Unavailable THEN None ELSE t[i].data
      BY <2>3 DEF FieldValue
    <2>6. t[i].data \in Values \cup {Unavailable}
      BY <2>4 DEF Entry
    <2>7. FieldValue(h, t, g, f) = None <=> t[i].data = Unavailable
      BY <2>5, <2>6, MonitoringAssumption
    <2> QED
      BY <1>2, <2>3, <2>4, <2>5, <2>7
  <1> QED
    BY <1>1, <1>2

\* A field that is present is the value of an entry of this GPU and of one of the
\* sources of the field.
LEMMA FieldHasARow ==
    ASSUME NEW h, NEW t, NEW g, NEW f, FieldValue(h, t, g, f) # None
    PROVE  \E i \in 1..h.n :
               /\ t[i].gpu = g
               /\ t[i].data = FieldValue(h, t, g, f)
               /\ t[i].data # Unavailable
               /\ \E j \in 1..Len(Candidates[f]) : t[i].src = Candidates[f][j]
  <1> DEFINE row == CHOOSE i \in RowOf(h, t, g, f) : TRUE
  <1>1. /\ RowOf(h, t, g, f) # {}
        /\ t[row].data # Unavailable
        /\ FieldValue(h, t, g, f) = t[row].data
    BY DEF FieldValue
  <1>2. row \in RowOf(h, t, g, f)
    BY <1>1
  <1>3. /\ row \in OfGpu(h, t, g)
        /\ \E j \in 1..Len(Candidates[f]) : t[row].src = Candidates[f][j]
    BY <1>2 DEF RowOf
  <1>4. row \in 1..h.n /\ t[row].gpu = g
    BY <1>3 DEF OfGpu
  <1> QED
    BY <1>1, <1>3, <1>4

\* What Build answers was published: the copy holds what was published, and its
\* header declares no more entries than were copied.
LEMMA BuildAnswersPublished ==
    ASSUME IInv, Build, steady, answer'.sample # None,
           NEW f \in Fields, answer'.sample[f] # None
    PROVE  \E e \in published :
               /\ e.gpu = answer'.gpu
               /\ e.data = answer'.sample[f]
               /\ e.data # Unavailable
               /\ \E j \in 1..Len(Candidates[f]) : e.src = Candidates[f][j]
  <1>1. pc = "build" /\ answer' = Answer("ok", Sample(seen, rows, gpu))
    BY DEF Build, Finish, Answer
  <1>2. answer'.gpu = gpu /\ answer'.sample = Sample(seen, rows, gpu)
    BY <1>1 DEF Answer
  <1>3. answer'.sample[f] = FieldValue(seen, rows, gpu, f)
    BY <1>2 DEF Sample
  <1>4. PICK i \in 1..seen.n :
            /\ rows[i].gpu = gpu
            /\ rows[i].data = FieldValue(seen, rows, gpu, f)
            /\ rows[i].data # Unavailable
            /\ \E j \in 1..Len(Candidates[f]) : rows[i].src = Candidates[f][j]
    BY <1>3, FieldHasARow
  <1>5. seen \in Header /\ Verdict(seen, size) = "ok" /\ Len(rows) = MaxEntries /\ size \in Nat
    BY <1>1 DEF IInv, TypeOK, CheckedBeforeBuilt
  <1>6. i \in 1..Len(rows)
    BY <1>5, VerdictOK, HeaderFields, MonitoringAssumption
  <1>7. rows[i] \in published
    BY <1>1, <1>6 DEF IInv, RowsWerePublished
  <1> QED
    BY <1>2, <1>3, <1>4, <1>7

\* A field of a sample is a value that Afterburner published during the call for
\* this GPU and a source of this field, unless the map was laid out anew.
THEOREM EverySampleIsPublished == Spec => SampleIsPublished
  <1> DEFINE Published ==
        (pc # "idle" /\ pc' = "idle" /\ steady /\ answer'.sample # None) =>
            \A f \in Fields :
                answer'.sample[f] # None =>
                    \E e \in published :
                        /\ e.gpu = answer'.gpu
                        /\ e.data = answer'.sample[f]
                        /\ e.data # Unavailable
                        /\ \E j \in 1..Len(Candidates[f]) : e.src = Candidates[f][j]
  <1>1. ASSUME IInv, [Next]_vars PROVE [Published]_vars
    <2>1. SUFFICES ASSUME pc # "idle", pc' = "idle", answer'.sample # None
                   PROVE  Build
      BY <1>1, BuildAnswersPublished
    <2>2. CASE Afterburner
      BY <2>1, <2>2 DEF Afterburner, Exit, LayOut, Publish
    <2>3. CASE Reader
      BY <2>1, <2>3 DEF Reader, Open, MapView, MapFails, CopyHeader, CopyRow, Check, Finish, Answer
    <2>4. CASE UNCHANGED vars
      BY <2>1, <2>4 DEF vars
    <2>5. ASSUME NEW o, NEW g, Request(o, g) PROVE FALSE
      BY <2>1, <2>5 DEF Request
    <2> QED
      BY <1>1, <2>2, <2>3, <2>4, <2>5 DEF Next
  <1> QED
    BY <1>1, MonitoringInvariant, PTL DEF Spec, SampleIsPublished
=============================================================================
