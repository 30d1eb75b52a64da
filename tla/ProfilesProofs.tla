---------------------------- MODULE ProfilesProofs ----------------------------
(***************************************************************************)
(* Proofs about ProfileFile, Profiles and Ownership, for every set of      *)
(* controls, values and files and any tolerance: the reader reports what   *)
(* the file says, whatever its lines; a profile that is reported as        *)
(* applied or restored is the active one, the slot that is named as active *)
(* was active at a moment of the call, and the parts of a report made      *)
(* while nothing moves belong together.                                    *)
(***************************************************************************)
EXTENDS Ownership, FiniteSetTheorems, WellFoundedInduction, TLAPS

-----------------------------------------------------------------------------
(* Numbers.                                                                *)

\* A nonempty set of numbers has a least element.
LEMMA LeastNumber ==
    ASSUME NEW T \in SUBSET Nat, T # {}
    PROVE  \E x \in T : \A y \in T : x <= y
  <1> DEFINE R == {p \in Nat \X Nat : p[1] < p[2]}
  <1>1. IsWellFoundedOn(R, Nat)
    BY NatLessThanWellFounded DEF OpToRel
  <1>2. PICK x \in T : \A y \in T : <<y, x>> \notin R
    <2> HIDE DEF R
    <2> QED
      BY <1>1, WFMin
  <1>3. ASSUME NEW y \in T PROVE x <= y
    <2>1. <<y, x>> \notin R /\ x \in Nat /\ y \in Nat
      BY <1>2, <1>3
    <2> QED
      BY <2>1
  <1> QED
    BY <1>3

\* Induction, for a set of numbers.
LEMMA Induction ==
    ASSUME NEW S, 0 \in S, \A n \in Nat : n \in S => n + 1 \in S
    PROVE  \A n \in Nat : n \in S
  <1> DEFINE T == {n \in Nat : n \notin S}
  <1> SUFFICES ASSUME T # {} PROVE FALSE
    OBVIOUS
  <1>1. PICK x \in T : \A y \in T : x <= y
    BY LeastNumber
  <1>2. x - 1 \in Nat /\ x - 1 \notin T
    BY <1>1
  <1> QED
    BY <1>1, <1>2

\* A nonempty set of numbers up to n has a greatest element.
LEMMA LatestNumber ==
    ASSUME NEW n \in Nat, NEW T \in SUBSET (1..n), T # {}
    PROVE  Latest(T) \in T /\ \A y \in T : y <= Latest(T)
  <1> DEFINE U == {n - y : y \in T}
  <1>1. U \in SUBSET Nat /\ U # {}
    <2>1. \A y \in T : y \in Nat /\ n - y \in Nat
      OBVIOUS
    <2> QED
      BY <2>1
  <1>2. PICK u \in U : \A v \in U : u <= v
    BY <1>1, LeastNumber
  <1>3. PICK x \in T : u = n - x
    OBVIOUS
  <1>4. ASSUME NEW y \in T PROVE y <= x
    <2>1. n - x <= n - y
      BY <1>2, <1>3, <1>4
    <2> QED
      BY <2>1
  <1> QED
    BY <1>4 DEF Latest

\* The greatest element is the only one.
LEMMA LatestIs ==
    ASSUME NEW n \in Nat, NEW T \in SUBSET (1..n), NEW x \in T, \A y \in T : y <= x
    PROVE  Latest(T) = x
  <1>1. Latest(T) \in T /\ x <= Latest(T) /\ Latest(T) <= x
    BY LatestNumber
  <1>2. \A y \in T : y \in Nat
    OBVIOUS
  <1>3. x \in Nat /\ Latest(T) \in Nat
    BY <1>1, <1>2
  <1> QED
    BY <1>1, <1>3

-----------------------------------------------------------------------------
(* Definitions by recursion over 0..n.                                      *)

\* Such a definition, as a base and what each step makes of a value of V.
Steps(n, V) == [1..n -> [V -> V]]

Runs(n, V, base, step) ==
    {f \in [0..n -> V] : f[0] = base /\ \A i \in 1..n : f[i] = step[i][f[i - 1]]}

\* Such a definition has a solution.
LEMMA Recursion ==
    ASSUME NEW n \in Nat, NEW V, NEW base \in V, NEW step \in Steps(n, V)
    PROVE  \E f : f \in Runs(n, V, base, step)
  <1> DEFINE Upto(m, f) == f[0] = base /\ \A i \in 1..m : f[i] = step[i][f[i - 1]]
             S == {m \in Nat : m <= n => \E f \in [0..m -> V] : Upto(m, f)}
  <1>1. 0 \in S
    <2>1. [i \in 0..0 |-> base] \in [0..0 -> V] /\ Upto(0, [i \in 0..0 |-> base])
      OBVIOUS
    <2> QED
      BY <2>1
  <1>2. ASSUME NEW m \in Nat, m \in S PROVE m + 1 \in S
    <2> SUFFICES ASSUME m + 1 <= n PROVE \E f \in [0..(m + 1) -> V] : Upto(m + 1, f)
      OBVIOUS
    <2>1. PICK f \in [0..m -> V] : Upto(m, f)
      BY <1>2
    <2> DEFINE g == [i \in 0..(m + 1) |-> IF i <= m THEN f[i] ELSE step[m + 1][f[m]]]
    <2>2. f[m] \in V /\ step[m + 1] \in [V -> V]
      BY DEF Steps
    <2>3. g \in [0..(m + 1) -> V]
      BY <2>2
    <2>4. Upto(m + 1, g)
      BY <2>1
    <2> QED
      BY <2>3, <2>4
  <1>3. n \in S
    <2> HIDE DEF S
    <2> QED
      BY <1>1, <1>2, Induction
  <1> QED
    BY <1>3 DEF Runs

-----------------------------------------------------------------------------
(* The parse.                                                              *)

\* The equation of the section that the lines belong to.
LEMMA CurrentEquation ==
    ASSUME NEW lines, Len(lines) \in Nat
    PROVE  /\ CurrentAfter(lines)[0] = None
           /\ \A i \in 1..Len(lines) :
                 CurrentAfter(lines)[i] = IF lines[i].tag = "header" THEN lines[i].name
                                          ELSE CurrentAfter(lines)[i - 1]
  <1> DEFINE n == Len(lines)
             V == {None} \cup {lines[i].name : i \in 1..n}
             step == [i \in 1..n |->
                        [v \in V |-> IF lines[i].tag = "header" THEN lines[i].name ELSE v]]
             Equation(f) == f = [i \in 0..n |->
                                    IF i = 0 THEN None
                                    ELSE IF lines[i].tag = "header" THEN lines[i].name
                                    ELSE f[i - 1]]
             current == CHOOSE f : Equation(f)
  <1>1. step \in Steps(n, V) /\ None \in V /\ n \in Nat
    BY DEF Steps
  <1>2. PICK f : f \in Runs(n, V, None, step)
    <2> HIDE DEF V, step, n
    <2> QED
      BY <1>1, Recursion
  <1>3. f \in [0..n -> V] /\ f[0] = None /\ \A i \in 1..n : f[i] = step[i][f[i - 1]]
    BY <1>2 DEF Runs
  <1>4. ASSUME NEW i \in 1..n
        PROVE  f[i] = IF lines[i].tag = "header" THEN lines[i].name ELSE f[i - 1]
    <2>1. i - 1 \in 0..n
      BY <1>1
    <2>2. f[i - 1] \in V
      BY <1>3, <2>1
    <2> QED
      BY <1>3, <2>2
  <1>5. Equation(f)
    <2> HIDE DEF V, step, n
    <2>1. \A i \in 0..n : i = 0 \/ i \in 1..n
      BY <1>1
    <2> QED
      BY <1>3, <1>4, <2>1
  <1>6. Equation(current)
    <2> HIDE DEF Equation
    <2> QED
      BY <1>5
  <1>7. current[0] = None
    <2> HIDE DEF current
    <2>1. 0 \in 0..n
      OBVIOUS
    <2> QED
      BY <1>6, <2>1
  <1>8. \A i \in 1..n : current[i] = IF lines[i].tag = "header" THEN lines[i].name
                                     ELSE current[i - 1]
    <2> HIDE DEF current
    <2> QED
      BY <1>6
  <1> QED
    BY <1>7, <1>8 DEF CurrentAfter

\* The equation of the text of a key.
LEMMA TextEquation ==
    ASSUME NEW lines, Len(lines) \in Nat, NEW s, NEW k
    PROVE  \E text :
               /\ text[0] = None
               /\ \A i \in 1..Len(lines) :
                     text[i] = IF CurrentAfter(lines)[i - 1] = s
                               THEN Assign(text[i - 1], lines[i], k) ELSE text[i - 1]
               /\ ParsedText(lines, s, k) = text[Len(lines)]
  <1> DEFINE n == Len(lines)
             V == {None} \cup {lines[i].text : i \in 1..n}
             step == [i \in 1..n |-> [v \in V |-> IF CurrentAfter(lines)[i - 1] = s
                                                  THEN Assign(v, lines[i], k) ELSE v]]
             Equation(f) == f = [i \in 0..n |->
                                    IF i = 0 THEN None
                                    ELSE IF CurrentAfter(lines)[i - 1] = s
                                    THEN Assign(f[i - 1], lines[i], k)
                                    ELSE f[i - 1]]
             text == CHOOSE f : Equation(f)
  <1>1. step \in Steps(n, V) /\ None \in V /\ n \in Nat
    BY DEF Steps, Assign
  <1>2. PICK f : f \in Runs(n, V, None, step)
    <2> HIDE DEF V, step, n
    <2> QED
      BY <1>1, Recursion
  <1>3. f \in [0..n -> V] /\ f[0] = None /\ \A i \in 1..n : f[i] = step[i][f[i - 1]]
    BY <1>2 DEF Runs
  <1>4. ASSUME NEW i \in 1..n
        PROVE  f[i] = IF CurrentAfter(lines)[i - 1] = s
                      THEN Assign(f[i - 1], lines[i], k) ELSE f[i - 1]
    <2>1. i - 1 \in 0..n
      BY <1>1
    <2>2. f[i - 1] \in V
      BY <1>3, <2>1
    <2> QED
      BY <1>3, <2>2
  <1>5. Equation(f)
    <2> HIDE DEF V, step, n
    <2>1. \A i \in 0..n : i = 0 \/ i \in 1..n
      BY <1>1
    <2> QED
      BY <1>3, <1>4, <2>1
  <1>6. Equation(text)
    <2> HIDE DEF Equation
    <2> QED
      BY <1>5
  <1>7. text[0] = None
    <2> HIDE DEF text
    <2>1. 0 \in 0..n
      OBVIOUS
    <2> QED
      BY <1>6, <2>1
  <1>8. \A i \in 1..n : text[i] = IF CurrentAfter(lines)[i - 1] = s
                                  THEN Assign(text[i - 1], lines[i], k) ELSE text[i - 1]
    <2> HIDE DEF text
    <2> QED
      BY <1>6
  <1>9. ParsedText(lines, s, k) = text[n]
    BY DEF ParsedText
  <1> HIDE DEF text
  <1> QED
    BY <1>7, <1>8, <1>9

\* The parser's section is that of the last header above the line.
LEMMA CurrentIsTheSection ==
    ASSUME NEW lines, Len(lines) \in Nat, NEW i \in 0..Len(lines)
    PROVE  CurrentAfter(lines)[i] = SectionAt(lines, i + 1)
  <1> DEFINE n == Len(lines)
             S == {m \in Nat : m <= n => CurrentAfter(lines)[m] = SectionAt(lines, m + 1)}
  <1>1. 0 \in S
    <2>1. 1..0 = {}
      OBVIOUS
    <2>2. SectionAt(lines, 1) = None
      BY <2>1 DEF SectionAt
    <2> QED
      BY <2>2, CurrentEquation
  <1>2. ASSUME NEW m \in Nat, m \in S PROVE m + 1 \in S
    <2> SUFFICES ASSUME m + 1 <= n PROVE CurrentAfter(lines)[m + 1] = SectionAt(lines, m + 2)
      OBVIOUS
    <2> DEFINE H(j) == {h \in 1..j : lines[h].tag = "header"}
    <2>1. /\ CurrentAfter(lines)[m] = SectionAt(lines, m + 1)
          /\ CurrentAfter(lines)[m + 1] = IF lines[m + 1].tag = "header" THEN lines[m + 1].name
                                          ELSE CurrentAfter(lines)[m]
      <3>1. m + 1 \in 1..n /\ (m + 1) - 1 = m /\ m <= n
        OBVIOUS
      <3> QED
        BY <1>2, <3>1, CurrentEquation
    <2>2. /\ SectionAt(lines, m + 1) = IF H(m) = {} THEN None ELSE lines[Latest(H(m))].name
          /\ SectionAt(lines, m + 2) = IF H(m + 1) = {} THEN None ELSE lines[Latest(H(m + 1))].name
      BY DEF SectionAt
    <2>3. CASE lines[m + 1].tag = "header"
      <3>1. /\ m + 1 \in Nat /\ m + 1 \in H(m + 1)
            /\ H(m + 1) \in SUBSET (1..(m + 1)) /\ \A h \in H(m + 1) : h <= m + 1
        BY <2>3
      <3>2. Latest(H(m + 1)) = m + 1
        <4> HIDE DEF H
        <4> QED
          BY <3>1, LatestIs
      <3> QED
        BY <2>1, <2>2, <2>3, <3>1, <3>2
    <2>4. CASE lines[m + 1].tag # "header"
      <3>1. H(m + 1) = H(m)
        BY <2>4
      <3> QED
        BY <2>1, <2>2, <2>4, <3>1
    <2> QED
      BY <2>3, <2>4
  <1>3. i \in S
    <2> HIDE DEF S
    <2> QED
      BY <1>1, <1>2, Induction
  <1> QED
    BY <1>3

\* The text the parser has for a key is that of the last line that sets it.
LEMMA TextIsTheLast ==
    ASSUME NEW lines, Len(lines) \in Nat, NEW s, NEW k
    PROVE  ParsedText(lines, s, k) =
               IF Setters(lines, s, k) = {} THEN None
               ELSE lines[Latest(Setters(lines, s, k))].text
  <1> DEFINE n == Len(lines)
             W(m) == {j \in 1..m : lines[j].tag = "setting" /\ lines[j].key = k
                                       /\ SectionAt(lines, j) = s}
             Last(m) == IF W(m) = {} THEN None ELSE lines[Latest(W(m))].text
  <1>1. PICK text :
            /\ text[0] = None
            /\ \A i \in 1..n :
                  text[i] = IF CurrentAfter(lines)[i - 1] = s
                            THEN Assign(text[i - 1], lines[i], k) ELSE text[i - 1]
            /\ ParsedText(lines, s, k) = text[n]
    BY TextEquation
  <1> DEFINE S == {m \in Nat : m <= n => text[m] = Last(m)}
  <1>2. 0 \in S
    BY <1>1
  <1>3. ASSUME NEW m \in Nat, m \in S PROVE m + 1 \in S
    <2> SUFFICES ASSUME m + 1 <= n PROVE text[m + 1] = Last(m + 1)
      OBVIOUS
    <2>1. m + 1 \in 1..n /\ (m + 1) - 1 = m /\ m <= n /\ m \in 0..n
      OBVIOUS
    <2>2. text[m] = Last(m) /\ CurrentAfter(lines)[m] = SectionAt(lines, m + 1)
      BY <1>3, <2>1, CurrentIsTheSection
    <2>3. text[m + 1] = IF SectionAt(lines, m + 1) = s
                        THEN Assign(text[m], lines[m + 1], k) ELSE text[m]
      BY <1>1, <2>1, <2>2
    <2>4. CASE m + 1 \in W(m + 1)
      <3>1. /\ m + 1 \in Nat /\ W(m + 1) \in SUBSET (1..(m + 1))
            /\ \A j \in W(m + 1) : j <= m + 1
        OBVIOUS
      <3>2. Latest(W(m + 1)) = m + 1
        <4> HIDE DEF W
        <4> QED
          BY <2>4, <3>1, LatestIs
      <3>3. text[m + 1] = lines[m + 1].text
        BY <2>3, <2>4 DEF Assign
      <3> QED
        BY <2>4, <3>2, <3>3
    <2>5. CASE m + 1 \notin W(m + 1)
      <3>1. W(m + 1) = W(m)
        BY <2>5
      <3>2. text[m + 1] = text[m]
        BY <2>1, <2>3, <2>5 DEF Assign
      <3> QED
        BY <2>2, <3>1, <3>2
    <2> QED
      BY <2>4, <2>5
  <1>4. text[n] = Last(n)
    <2>1. n \in S
      <3> HIDE DEF S
      <3> QED
        BY <1>2, <1>3, Induction
    <2> QED
      BY <2>1
  <1>5. W(n) = Setters(lines, s, k)
    BY DEF Setters
  <1> QED
    BY <1>1, <1>4, <1>5

\* A line that sets a key has one of the texts.
LEMMA ParsedTextType ==
    ASSUME NEW lines \in Seq(Line), NEW s, NEW k
    PROVE  ParsedText(lines, s, k) \in Texts \cup {Empty, None}
  <1> DEFINE T == Setters(lines, s, k)
  <1>1. Len(lines) \in Nat /\ \A i \in 1..Len(lines) : lines[i] \in Line
    OBVIOUS
  <1>2. CASE T = {}
    BY <1>1, <1>2, TextIsTheLast
  <1>3. CASE T # {}
    <2>1. T \in SUBSET (1..Len(lines))
      BY DEF Setters
    <2>2. Latest(T) \in T
      <3> HIDE DEF T
      <3> QED
        BY <1>1, <1>3, <2>1, LatestNumber
    <2>3. lines[Latest(T)] \in Line /\ lines[Latest(T)].tag = "setting"
      BY <1>1, <2>2 DEF Setters
    <2>4. lines[Latest(T)].text \in Texts \cup {Empty}
      BY <2>3 DEF Line, Header, Setting, Junk
    <2> QED
      BY <1>1, <1>3, <2>4, TextIsTheLast
  <1> QED
    BY <1>2, <1>3

\* What a key means, from the text the parser has for it.
LEMMA MeaningOfText ==
    ASSUME NEW lines, Len(lines) \in Nat
    PROVE  \A n, k : Meaning(lines, n, k) = IF ParsedText(lines, n, k) = Empty THEN None
                                            ELSE ParsedText(lines, n, k)
  BY TextIsTheLast DEF Meaning

\* An available file has been decoded.
LEMMA AvailableLines ==
    ASSUME NEW d, IsDirectory(d), ReaderState(d) = "available"
    PROVE  /\ Attributed(d.files) # {}
           /\ \A c \in Attributed(d.files) : d.files[c] \in Seq(Line)
           /\ LinesOf(d) \in Seq(Line)
  <1>1. /\ Attributed(d.files) # {}
        /\ \A c \in Attributed(d.files) : d.files[c] # Undecodable
    BY DEF ReaderState
  <1>2. Attributed(d.files) \subseteq DOMAIN d.files
    BY DEF Attributed
  <1>3. \A c \in Attributed(d.files) : d.files[c] \in Seq(Line)
    BY <1>1, <1>2 DEF IsDirectory, Contents
  <1> QED
    BY <1>1, <1>3 DEF LinesOf

\* What read() returns for an available file, key by key.
LEMMA ReadAvailable ==
    ASSUME NEW d, IsDirectory(d), ReaderState(d) = "available"
    PROVE  /\ Read(d).state = "available"
           /\ Read(d).slots = [i \in Slots |-> [k \in SettingKeys |-> Meaning(LinesOf(d), i, k)]]
           /\ Read(d).startup <=> \E k \in SettingKeys : Meaning(LinesOf(d), Startup, k) # None
  <1> DEFINE lines == LinesOf(d)
  <1>1. Len(lines) \in Nat
    BY AvailableLines
  <1>2. \A n, k : Meaning(lines, n, k) = IF ParsedText(lines, n, k) = Empty THEN None
                                         ELSE ParsedText(lines, n, k)
    BY <1>1, MeaningOfText
  <1> HIDE DEF lines
  <1>3. ASSUME NEW n \in Sections
        PROVE  Populated(ParseIni(lines)[n]) = [k \in SettingKeys |-> Meaning(lines, n, k)]
    BY <1>2 DEF Populated, ParseIni
  <1>4. ExtractSlots(ParseIni(lines)) = [i \in Slots |-> [k \in SettingKeys |-> Meaning(lines, i, k)]]
    BY <1>3 DEF ExtractSlots, Sections
  <1>5. ExtractStartup(ParseIni(lines)) <=> \E k \in SettingKeys : Meaning(lines, Startup, k) # None
    BY <1>3 DEF ExtractStartup, Blank, Sections
  <1> QED
    BY <1>4, <1>5 DEF Read, lines

\* What read() returns otherwise.
LEMMA ReadOtherwise ==
    ASSUME NEW d, ReaderState(d) # "available"
    PROVE  Read(d) = [state |-> ReaderState(d), slots |-> NoSlots, startup |-> FALSE]
  BY DEF Read

\* The reader reports what the file says.
LEMMA ReaderIsRight ==
    ASSUME NEW d, IsDirectory(d)
    PROVE  ReadsTheFile(d)
  <1>1. CASE ReaderState(d) = "available"
    <2>1. /\ Read(d).state = "available"
          /\ Read(d).slots = [i \in Slots |-> [k \in SettingKeys |-> Meaning(LinesOf(d), i, k)]]
          /\ Read(d).startup <=> \E k \in SettingKeys : Meaning(LinesOf(d), Startup, k) # None
      BY <1>1, ReadAvailable
    <2>2. \A i \in Slots, k \in SettingKeys : Read(d).slots[i][k] = Meaning(LinesOf(d), i, k)
      BY <2>1
    <2> QED
      BY <2>1, <2>2 DEF ReadsTheFile
  <1>2. CASE ReaderState(d) # "available"
    <2>1. PresentIn(NoSlots) = {}
      BY DEF PresentIn, NoSlots
    <2> QED
      BY <1>2, <2>1, ReadOtherwise DEF ReadsTheFile
  <1> QED
    BY <1>1, <1>2

\* What the reader finds in a slot are texts.
LEMMA ReaderTypes ==
    ASSUME NEW d, IsDirectory(d)
    PROVE  Read(d).slots \in [Slots -> [SettingKeys -> Texts \cup {None}]]
  <1>1. CASE ReaderState(d) = "available"
    <2>1. LinesOf(d) \in Seq(Line)
      BY <1>1, AvailableLines
    <2>2. \A n, k : Meaning(LinesOf(d), n, k) \in Texts \cup {None}
      <3> SUFFICES ASSUME NEW n, NEW k PROVE Meaning(LinesOf(d), n, k) \in Texts \cup {None}
        OBVIOUS
      <3>1. ParsedText(LinesOf(d), n, k) \in Texts \cup {Empty, None}
        BY <2>1, ParsedTextType
      <3>2. Meaning(LinesOf(d), n, k) = IF ParsedText(LinesOf(d), n, k) = Empty THEN None
                                        ELSE ParsedText(LinesOf(d), n, k)
        BY <2>1, MeaningOfText
      <3> QED
        BY <3>1, <3>2
    <2>3. Read(d).slots = [i \in Slots |-> [k \in SettingKeys |-> Meaning(LinesOf(d), i, k)]]
      BY <1>1, ReadAvailable
    <2> QED
      BY <2>2, <2>3
  <1>2. CASE ReaderState(d) # "available"
    BY <1>2, ReadOtherwise DEF NoSlots, Blank
  <1> QED
    BY <1>1, <1>2

-----------------------------------------------------------------------------
(* A file that is rewritten.                                               *)

\* The section that a line after the last one would stand in.
SectionAtEnd(lines) == SectionAt(lines, Len(lines) + 1)

\* The section a line stands in depends on the lines before it.
LEMMA SectionInPrefix ==
    ASSUME NEW lines, NEW more, Len(lines) \in Nat,
           \A p \in 1..Len(lines) : more[p] = lines[p],
           NEW i \in 1..(Len(lines) + 1)
    PROVE  SectionAt(more, i) = SectionAt(lines, i)
  <1> DEFINE H(x) == {j \in 1..(i - 1) : x[j].tag = "header"}
  <1>1. \A j \in 1..(i - 1) : more[j] = lines[j]
    OBVIOUS
  <1>2. H(more) = H(lines) /\ H(lines) \in SUBSET (1..(i - 1)) /\ i - 1 \in Nat
    BY <1>1
  <1>3. CASE H(lines) = {}
    BY <1>2, <1>3 DEF SectionAt
  <1>4. CASE H(lines) # {}
    <2>1. Latest(H(lines)) \in H(lines)
      <3> HIDE DEF H
      <3> QED
        BY <1>2, <1>4, LatestNumber
    <2>2. more[Latest(H(lines))].name = lines[Latest(H(lines))].name
      BY <1>1, <2>1
    <2> QED
      BY <1>2, <1>4, <2>2 DEF SectionAt
  <1> QED
    BY <1>3, <1>4

\* One more line.
LEMMA OneMoreLine ==
    ASSUME NEW lines \in Seq(Line), NEW x \in Line, NEW s, NEW k
    PROVE  /\ SectionAtEnd(Append(lines, x)) = IF x.tag = "header" THEN x.name
                                               ELSE SectionAtEnd(lines)
           /\ ParsedText(Append(lines, x), s, k) =
                  IF SectionAtEnd(lines) = s THEN Assign(ParsedText(lines, s, k), x, k)
                  ELSE ParsedText(lines, s, k)
  <1> DEFINE more == Append(lines, x)
             w == Len(lines)
  <1>1. /\ w \in Nat /\ Len(more) = w + 1 /\ more[w + 1] = x
        /\ \A p \in 1..w : more[p] = lines[p]
    OBVIOUS
  <1> HIDE DEF more
  <1>2. \A i \in 1..(w + 1) : SectionAt(more, i) = SectionAt(lines, i)
    BY <1>1, SectionInPrefix
  <1>3. SectionAtEnd(more) = IF x.tag = "header" THEN x.name ELSE SectionAtEnd(lines)
    <2>1. CurrentAfter(more)[w + 1] = IF more[w + 1].tag = "header" THEN more[w + 1].name
                                      ELSE CurrentAfter(more)[w]
      <3>1. w + 1 \in 1..Len(more) /\ (w + 1) - 1 = w
        BY <1>1
      <3> QED
        BY <1>1, <3>1, CurrentEquation
    <2>2. /\ CurrentAfter(more)[w + 1] = SectionAt(more, Len(more) + 1)
          /\ CurrentAfter(more)[w] = SectionAt(more, w + 1)
      <3>1. w + 1 \in 0..Len(more) /\ w \in 0..Len(more) /\ Len(more) \in Nat
        BY <1>1
      <3> QED
        BY <1>1, <3>1, CurrentIsTheSection
    <2>3. SectionAt(more, w + 1) = SectionAtEnd(lines)
      BY <1>1, <1>2 DEF SectionAtEnd
    <2> QED
      BY <1>1, <2>1, <2>2, <2>3 DEF SectionAtEnd
  <1>4. ParsedText(more, s, k) = IF SectionAtEnd(lines) = s
                                 THEN Assign(ParsedText(lines, s, k), x, k)
                                 ELSE ParsedText(lines, s, k)
    <2> DEFINE T == Setters(lines, s, k)
               U == Setters(more, s, k)
    <2>1. T \in SUBSET (1..w) /\ U \in SUBSET (1..(w + 1)) /\ Len(more) \in Nat
      BY <1>1 DEF Setters
    <2>2. \A i \in 1..w : i \in U <=> i \in T
      BY <1>1, <1>2 DEF Setters
    <2>3. w + 1 \in U <=> (SectionAtEnd(lines) = s /\ x.tag = "setting" /\ x.key = k)
      <3>1. SectionAt(more, w + 1) = SectionAtEnd(lines) /\ w + 1 \in 1..Len(more)
        BY <1>1, <1>2 DEF SectionAtEnd
      <3> QED
        BY <1>1, <3>1 DEF Setters
    <2>4. /\ ParsedText(lines, s, k) = IF T = {} THEN None ELSE lines[Latest(T)].text
          /\ ParsedText(more, s, k) = IF U = {} THEN None ELSE more[Latest(U)].text
      BY <1>1, <2>1, TextIsTheLast
    <2> HIDE DEF T, U
    <2>5. CASE w + 1 \in U
      <3>1. \A i \in U : i <= w + 1
        BY <1>1, <2>1
      <3>2. Latest(U) = w + 1
        <4>1. w + 1 \in Nat
          BY <1>1
        <4> QED
          BY <2>1, <2>5, <3>1, <4>1, LatestIs
      <3> QED
        BY <1>1, <2>3, <2>4, <2>5, <3>2 DEF Assign
    <2>6. CASE w + 1 \notin U
      <3>1. U = T
        <4>1. \A i \in U : i \in 1..w
          BY <1>1, <2>1, <2>6
        <4> QED
          BY <2>1, <2>2, <4>1
      <3>2. ParsedText(more, s, k) = ParsedText(lines, s, k)
        <4>1. CASE T = {}
          BY <2>4, <3>1, <4>1
        <4>2. CASE T # {}
          <5>1. Latest(T) \in 1..w
            BY <1>1, <2>1, <4>2, LatestNumber
          <5> QED
            BY <1>1, <2>4, <3>1, <4>2, <5>1
        <4> QED
          BY <4>1, <4>2
      <3> QED
        BY <2>3, <2>6, <3>2 DEF Assign
    <2> QED
      BY <2>5, <2>6
  <1> QED
    BY <1>3, <1>4 DEF more

\* The equation of the lines that are kept.
LEMMA KeptEquation ==
    ASSUME NEW lines \in Seq(Line), NEW i
    PROVE  \E kept \in [0..Len(lines) -> Seq(Line)] :
               /\ kept[0] = <<>>
               /\ \A j \in 1..Len(lines) :
                     kept[j] = IF CurrentAfter(lines)[j] # i
                               THEN Append(kept[j - 1], lines[j]) ELSE kept[j - 1]
               /\ Without(lines, i) = kept[Len(lines)]
  <1> DEFINE n == Len(lines)
             step == [j \in 1..n |-> [v \in Seq(Line) |-> IF CurrentAfter(lines)[j] # i
                                                          THEN Append(v, lines[j]) ELSE v]]
             Equation(f) == f = [j \in 0..n |->
                                    IF j = 0 THEN <<>>
                                    ELSE IF CurrentAfter(lines)[j] # i
                                    THEN Append(f[j - 1], lines[j])
                                    ELSE f[j - 1]]
             kept == CHOOSE f : Equation(f)
  <1>1. step \in Steps(n, Seq(Line)) /\ <<>> \in Seq(Line) /\ n \in Nat
    BY DEF Steps
  <1>2. PICK f : f \in Runs(n, Seq(Line), <<>>, step)
    <2> HIDE DEF step, n
    <2> QED
      BY <1>1, Recursion
  <1>3. f \in [0..n -> Seq(Line)] /\ f[0] = <<>> /\ \A j \in 1..n : f[j] = step[j][f[j - 1]]
    BY <1>2 DEF Runs
  <1>4. ASSUME NEW j \in 1..n
        PROVE  f[j] = IF CurrentAfter(lines)[j] # i
                      THEN Append(f[j - 1], lines[j]) ELSE f[j - 1]
    <2>1. j - 1 \in 0..n
      BY <1>1
    <2>2. f[j - 1] \in Seq(Line)
      BY <1>3, <2>1
    <2> QED
      BY <1>3, <2>2
  <1>5. Equation(f)
    <2> HIDE DEF step, n
    <2>1. \A j \in 0..n : j = 0 \/ j \in 1..n
      BY <1>1
    <2> QED
      BY <1>3, <1>4, <2>1
  <1>6. Equation(kept)
    <2> HIDE DEF Equation
    <2> QED
      BY <1>5
  <1>7. Without(lines, i) = kept[n]
    BY DEF Without
  <1> HIDE DEF kept
  <1>8. kept[0] = <<>>
    BY <1>1, <1>6
  <1>9. \A j \in 1..n : kept[j] = IF CurrentAfter(lines)[j] # i
                                  THEN Append(kept[j - 1], lines[j]) ELSE kept[j - 1]
    <2>1. \A j \in 1..n : j \in 0..n /\ j # 0
      BY <1>1
    <2> HIDE DEF n, step
    <2> QED
      BY <1>6, <2>1
  <1>10. \A j \in 0..n : kept[j] = f[j]
    <2> DEFINE S == {m \in Nat : m <= n => kept[m] = f[m]}
    <2>1. 0 \in S
      BY <1>3, <1>8
    <2>2. ASSUME NEW m \in Nat, m \in S PROVE m + 1 \in S
      <3> SUFFICES ASSUME m + 1 <= n PROVE kept[m + 1] = f[m + 1]
        OBVIOUS
      <3>1. m + 1 \in 1..n /\ (m + 1) - 1 = m /\ kept[m] = f[m]
        BY <1>1, <2>2
      <3>2. kept[m + 1] = IF CurrentAfter(lines)[m + 1] # i
                          THEN Append(kept[m], lines[m + 1]) ELSE kept[m]
        BY <1>9, <3>1
      <3>3. f[m + 1] = IF CurrentAfter(lines)[m + 1] # i
                       THEN Append(f[m], lines[m + 1]) ELSE f[m]
        BY <1>4, <3>1
      <3> QED
        BY <3>1, <3>2, <3>3
    <2>3. \A m \in Nat : m \in S
      <3> HIDE DEF S
      <3> QED
        BY <2>1, <2>2, Induction
    <2> QED
      BY <1>1, <2>3
  <1>11. kept = f
    BY <1>3, <1>6, <1>10
  <1> QED
    BY <1>3, <1>7, <1>8, <1>9, <1>11

\* What is kept of a file is lines.
LEMMA WithoutIsLines ==
    ASSUME NEW lines \in Seq(Line), NEW i
    PROVE  Without(lines, i) \in Seq(Line)
  <1>1. PICK kept \in [0..Len(lines) -> Seq(Line)] : Without(lines, i) = kept[Len(lines)]
    BY KeptEquation
  <1>2. Len(lines) \in 0..Len(lines)
    OBVIOUS
  <1> QED
    BY <1>1, <1>2

\* Without a section, the others say what they said.
LEMMA WithoutKeeps ==
    ASSUME NEW lines \in Seq(Line), NEW i, NEW s, s # i, NEW k
    PROVE  ParsedText(Without(lines, i), s, k) = ParsedText(lines, s, k)
  <1> DEFINE n == Len(lines)
             c == CurrentAfter(lines)
  <1>1. n \in Nat /\ \A j \in 1..n : lines[j] \in Line
    OBVIOUS
  <1>2. PICK kept \in [0..n -> Seq(Line)] :
            /\ kept[0] = <<>>
            /\ \A j \in 1..n : kept[j] = IF c[j] # i THEN Append(kept[j - 1], lines[j])
                                         ELSE kept[j - 1]
            /\ Without(lines, i) = kept[n]
    BY KeptEquation
  <1>3. PICK text :
            /\ text[0] = None
            /\ \A j \in 1..n : text[j] = IF c[j - 1] = s THEN Assign(text[j - 1], lines[j], k)
                                         ELSE text[j - 1]
            /\ ParsedText(lines, s, k) = text[n]
    BY <1>1, TextEquation
  <1>4. /\ c[0] = None
        /\ \A j \in 1..n : c[j] = IF lines[j].tag = "header" THEN lines[j].name ELSE c[j - 1]
    BY <1>1, CurrentEquation
  <1> HIDE DEF c
  <1> DEFINE S == {m \in Nat : m <= n =>
                       /\ c[m] # i => SectionAtEnd(kept[m]) = c[m]
                       /\ ParsedText(kept[m], s, k) = text[m]}
  <1>5. 0 \in S
    <2>1. Len(<<>>) = 0 /\ 1..0 = {}
      OBVIOUS
    <2>2. SectionAtEnd(<<>>) = None
      BY <2>1 DEF SectionAtEnd, SectionAt
    <2>3. Setters(<<>>, s, k) = {}
      BY <2>1 DEF Setters
    <2>4. ParsedText(<<>>, s, k) = None
      BY <2>1, <2>3, TextIsTheLast
    <2> QED
      BY <1>2, <1>3, <1>4, <2>2, <2>4
  <1>6. ASSUME NEW m \in Nat, m \in S PROVE m + 1 \in S
    <2> SUFFICES ASSUME m + 1 <= n
                 PROVE  /\ c[m + 1] # i => SectionAtEnd(kept[m + 1]) = c[m + 1]
                        /\ ParsedText(kept[m + 1], s, k) = text[m + 1]
      OBVIOUS
    <2> DEFINE x == lines[m + 1]
    <2>1. m + 1 \in 1..n /\ (m + 1) - 1 = m /\ m \in 0..n /\ m <= n
      BY <1>1
    <2>2. kept[m] \in Seq(Line) /\ x \in Line
      BY <1>1, <1>2, <2>1
    <2>3. /\ c[m] # i => SectionAtEnd(kept[m]) = c[m]
          /\ ParsedText(kept[m], s, k) = text[m]
      BY <1>6, <2>1
    <2>4. kept[m + 1] = IF c[m + 1] # i THEN Append(kept[m], x) ELSE kept[m]
      BY <1>2, <2>1
    <2>5. text[m + 1] = IF c[m] = s THEN Assign(text[m], x, k) ELSE text[m]
      BY <1>3, <2>1
    <2>6. c[m + 1] = IF x.tag = "header" THEN x.name ELSE c[m]
      BY <1>4, <2>1
    <2>7. /\ SectionAtEnd(Append(kept[m], x)) = IF x.tag = "header" THEN x.name
                                                ELSE SectionAtEnd(kept[m])
          /\ ParsedText(Append(kept[m], x), s, k) =
                 IF SectionAtEnd(kept[m]) = s THEN Assign(ParsedText(kept[m], s, k), x, k)
                 ELSE ParsedText(kept[m], s, k)
      BY <2>2, OneMoreLine
    <2>8. x.tag = "header" => \A t : Assign(t, x, k) = t
      BY DEF Assign
    <2> HIDE DEF x
    <2>9. CASE c[m + 1] # i
      BY <2>3, <2>4, <2>5, <2>6, <2>7, <2>8, <2>9
    <2>10. CASE c[m + 1] = i
      BY <2>3, <2>4, <2>5, <2>6, <2>8, <2>10
    <2> QED
      BY <2>9, <2>10
  <1>7. ParsedText(kept[n], s, k) = text[n]
    <2>1. n \in S
      <3> HIDE DEF S
      <3> QED
        BY <1>1, <1>5, <1>6, Induction
    <2> QED
      BY <1>1, <2>1
  <1> QED
    BY <1>2, <1>3, <1>7

-----------------------------------------------------------------------------
(* The operations.                                                         *)

\* The values, and what is under way, beside the slots.
Sane ==
    /\ limit \in Limits
    /\ inForce \in [Features -> Values]
    /\ next \in Nat
    /\ safe \in Values \cup {None}
    /\ applied \in [Features -> Values \cup {None}]
    /\ entry \in [Features -> Values \cup {None}]

\* Nothing is applied before there is a slot, nor is a fan speed without its mode.
AppliedInTurn ==
    /\ ~Applying => applied = Nothing
    /\ applied[Fan] # None => FanIsFixed(stored)

\* A value of this slot that counts for the match.
Counts(k) == stored[k] \in Values /\ (k = Fan => FanIsFixed(stored))

PInv ==
    /\ Sane
    /\ AppliedIsStored
    /\ SafeIsStored
    /\ NothingIsDropped
    /\ AppliedInTurn
    /\ LoadedIsActive

-----------------------------------------------------------------------------
LEMMA Constants ==
    /\ Values \subseteq Nat /\ Limits \subseteq Values /\ None \notin Nat /\ Fan \in Features
    /\ Len(Keys) \in Nat /\ Tolerance \in Nat
    /\ \A i \in 1..Len(Keys) : Keys[i] \in Features
    /\ \A k \in Features : \E i \in 1..Len(Keys) : k = Keys[i]
  BY ProfilesAssumption DEF Features

\* An answer of another kind is no report of a slot.
LEMMA OtherAnswers ==
    ASSUME answer' # None => answer'.kind \notin {"load", "reset"}
    PROVE  LoadedIsActive'
  BY DEF LoadedIsActive

\* A step that leaves the operation where it is, whatever it moves.
LEMMA Aside ==
    ASSUME PInv, limit' \in Limits, inForce' \in [Features -> Values],
           entry' \in [Features -> Values \cup {None}],
           UNCHANGED <<op, next, stored, safe, applied, notices>>,
           answer' # None => answer'.kind \notin {"load", "reset"}
    PROVE  PInv'
  <1>1. Sane' /\ NothingIsDropped' /\ AppliedInTurn'
    BY DEF PInv, Sane, NothingIsDropped, AppliedInTurn, Applying
  <1>2. AppliedIsStored' /\ SafeIsStored'
    BY DEF PInv, AppliedIsStored, SafeIsStored, Fits, Applying, Usable, Key, FanIsFixed
  <1> QED
    BY <1>1, <1>2, OtherAnswers DEF PInv

\* The end of an operation, whatever it left in force.
LEMMA Finished ==
    ASSUME PInv, NEW a, Finish(a), limit' = limit, inForce' \in [Features -> Values],
           LoadedIsActive'
    PROVE  PInv'
  <1>1. op' = None /\ next' = 1 /\ safe' = None /\ applied' = Nothing /\ entry' = Nothing
    BY DEF Finish
  <1>2. ~Applying'
    BY <1>1, ProfilesAssumption DEF Applying
  <1>3. Nothing \in [Features -> Values \cup {None}] /\ \A k \in Features : Nothing[k] = None
    BY DEF Nothing
  <1>4. Sane'
    BY <1>1, <1>3 DEF PInv, Sane
  <1>5. AppliedIsStored' /\ SafeIsStored' /\ AppliedInTurn' /\ NothingIsDropped'
    BY <1>1, <1>2, <1>3, Constants
       DEF AppliedIsStored, SafeIsStored, AppliedInTurn, NothingIsDropped
  <1> QED
    BY <1>4, <1>5 DEF PInv

\* A slot is taken up.
LEMMA Begun ==
    ASSUME PInv, ~Applying, NEW o \in {"load", "reset"}, NEW s, Begin(o, s)
    PROVE  PInv'
  <1>1. /\ op' = o /\ next' = 1 /\ stored' = s /\ entry' = inForce /\ answer' = None
        /\ UNCHANGED <<limit, inForce, safe, applied, notices>> /\ applied = Nothing /\ safe = None
    BY DEF Begin, device, PInv, AppliedInTurn, SafeIsStored
  <1>2. \A k \in Features : applied[k] = None
    BY <1>1 DEF Nothing
  <1>3. Sane'
    BY <1>1 DEF PInv, Sane
  <1>4. AppliedIsStored' /\ SafeIsStored' /\ AppliedInTurn' /\ NothingIsDropped'
    BY <1>1, <1>2, Constants
       DEF AppliedIsStored, SafeIsStored, AppliedInTurn, NothingIsDropped, Applying
  <1> QED
    BY <1>1, <1>3, <1>4, OtherAnswers DEF PInv

\* The file is read; nothing is applied yet.
LEMMA Shelved ==
    ASSUME PInv, ~Applying, NEW o, op' = o, next' = 0, answer' = None,
           UNCHANGED <<limit, inForce, stored, safe, applied, notices, entry>>
    PROVE  PInv'
  <1>1. applied = Nothing /\ safe = None
    BY DEF PInv, AppliedInTurn, SafeIsStored
  <1>2. Sane'
    BY DEF PInv, Sane
  <1>3. AppliedIsStored' /\ SafeIsStored' /\ AppliedInTurn' /\ NothingIsDropped'
    BY <1>1 DEF PInv, AppliedIsStored, SafeIsStored, Fits, AppliedInTurn, NothingIsDropped, Applying
  <1> QED
    BY <1>2, <1>3, OtherAnswers DEF PInv

\* A write leaves the value that was there or the one that was written.
LEMMA Written ==
    ASSUME inForce \in [Features -> Values], NEW k \in Features, NEW v \in Values, Effect(k, v)
    PROVE  inForce' \in [Features -> Values]
  BY DEF Effect

\* The key under way, and what it may be written with.
LEMMA KeyUnderWay ==
    ASSUME Sane, Applying, next <= Len(Keys)
    PROVE  Key \in Features /\ next \in 1..Len(Keys)
  <1>1. next \in 1..Len(Keys)
    BY Constants DEF Sane, Applying
  <1> QED
    BY <1>1, Constants DEF Key

LEMMA Skipped ==
    ASSUME PInv, Skip
    PROVE  PInv'
  <1>1. /\ Applying /\ next <= Len(Keys) /\ next' = next + 1 /\ answer' = None /\ safe = None
        /\ notices' = (notices \/ stored[Key] # None)
        /\ UNCHANGED <<limit, inForce, op, stored, safe, applied, entry>>
    BY DEF Skip, device
  <1>2. next \in Nat
    BY DEF PInv, Sane
  <1>3. (notices => notices') /\ (stored[Key] # None => notices')
    BY <1>1
  <1>4. AppliedIsStored' /\ SafeIsStored'
    BY <1>1, <1>3 DEF PInv, AppliedIsStored, SafeIsStored, Fits
  <1>5. Sane' /\ AppliedInTurn'
    BY <1>1, <1>2 DEF PInv, Sane, AppliedInTurn, Applying
  <1>6. NothingIsDropped'
    <2> SUFFICES ASSUME NEW i \in 1..next, stored[Keys[i]] # None, applied[Keys[i]] = None
                 PROVE  notices'
      BY <1>1, <1>2 DEF NothingIsDropped
    <2>1. CASE i = next
      BY <1>3, <2>1 DEF Key
    <2>2. CASE i # next
      <3>1. i \in 1..(next - 1)
        BY <1>2, <2>2
      <3> QED
        BY <1>1, <1>3, <3>1 DEF PInv, NothingIsDropped
    <2> QED
      BY <2>1, <2>2
  <1> QED
    BY <1>1, <1>4, <1>5, <1>6, OtherAnswers DEF PInv

\* The validator keeps the stored value, or takes the limit below it with a notice.
LEMMA Validated ==
    ASSUME PInv, Validate
    PROVE  PInv'
  <1>1. /\ Applying /\ next <= Len(Keys) /\ Usable /\ answer' = None
        /\ safe' = Clamp(stored[Key]) /\ notices' = (notices \/ safe' # stored[Key])
        /\ UNCHANGED <<limit, inForce, op, next, stored, applied, entry>>
    BY DEF Validate, device
  <1>2. /\ stored[Key] \in Values /\ stored[Key] \in Nat
        /\ limit \in Limits /\ limit \in Values /\ limit \in Nat /\ None \notin Nat
    BY <1>1, Constants DEF Usable, PInv, Sane
  <1>3. (notices => notices') /\ (safe' # stored[Key] => notices')
    BY <1>1
  <1>4. /\ safe' \in Values
        /\ safe' # stored[Key] => safe' \in Limits /\ safe' < stored[Key]
    BY <1>1, <1>2 DEF Clamp
  <1>5. Sane' /\ AppliedInTurn'
    BY <1>1, <1>4 DEF PInv, Sane, AppliedInTurn, Applying
  <1>6. AppliedIsStored'
    BY <1>1, <1>3 DEF PInv, AppliedIsStored, Fits
  <1>7. SafeIsStored'
    <2>1. Applying' /\ Key' = Key /\ Usable' /\ next' <= Len(Keys)
      BY <1>1 DEF Applying, Key, Usable, FanIsFixed
    <2> QED
      BY <1>1, <1>3, <1>4, <2>1 DEF SafeIsStored, Fits
  <1>8. NothingIsDropped'
    BY <1>1, <1>3 DEF PInv, NothingIsDropped, Applying
  <1> QED
    BY <1>1, <1>5, <1>6, <1>7, <1>8, OtherAnswers DEF PInv

LEMMA AppliedNext ==
    ASSUME PInv, ApplyOne
    PROVE  PInv'
  <1>1. /\ Applying /\ safe # None /\ Effect(Key, safe)
        /\ applied' = [applied EXCEPT ![Key] = safe]
        /\ next' = next + 1 /\ safe' = None /\ answer' = None
        /\ UNCHANGED <<limit, op, stored, notices, entry>>
    BY DEF ApplyOne
  <1>2. Sane /\ next \in Nat /\ next <= Len(Keys) /\ Usable /\ Fits(Key, safe) /\ safe \in Values
    BY <1>1 DEF PInv, Sane, SafeIsStored
  <1>3. Key \in Features
    BY <1>1, <1>2, KeyUnderWay
  <1>4. inForce' \in [Features -> Values]
    BY <1>1, <1>2, <1>3, Written DEF Sane
  <1>5. applied'[Key] = safe /\ \A j \in Features : j # Key => applied'[j] = applied[j]
    BY <1>1, <1>2, <1>3 DEF Sane
  <1>6. Sane' /\ SafeIsStored'
    BY <1>1, <1>2, <1>3, <1>4 DEF Sane, SafeIsStored
  <1>7. AppliedIsStored'
    <2> SUFFICES ASSUME NEW k \in Features, applied'[k] # None
                 PROVE  stored[k] \in Values /\ Fits(k, applied'[k])
      BY <1>1 DEF AppliedIsStored, Fits
    <2>1. CASE k = Key
      BY <1>2, <1>5, <2>1 DEF Usable
    <2>2. CASE k # Key
      BY <1>5, <2>2 DEF PInv, AppliedIsStored
    <2> QED
      BY <2>1, <2>2
  <1>8. AppliedInTurn'
    <2>1. Applying'
      BY <1>1, <1>2 DEF Applying
    <2>2. applied'[Fan] # None => FanIsFixed(stored)
      BY <1>2, <1>5, Constants DEF PInv, AppliedInTurn, Usable
    <2> QED
      BY <1>1, <2>1, <2>2 DEF AppliedInTurn, FanIsFixed
  <1>9. NothingIsDropped'
    <2> SUFFICES ASSUME NEW i \in 1..next, stored[Keys[i]] # None, applied'[Keys[i]] = None
                 PROVE  notices'
      BY <1>1, <1>2 DEF NothingIsDropped
    <2>1. Keys[i] # Key /\ i # next
      BY <1>1, <1>5 DEF Key
    <2>2. i \in 1..(next - 1) /\ Keys[i] \in Features
      BY <1>2, <2>1, Constants
    <2>3. applied[Keys[i]] = None
      BY <1>5, <2>1, <2>2
    <2> QED
      BY <1>1, <2>2, <2>3 DEF PInv, NothingIsDropped
  <1> QED
    BY <1>1, <1>6, <1>7, <1>8, <1>9, OtherAnswers DEF PInv

\* A profile that is reported as applied or restored without a notice is active.
LEMMA Verified ==
    ASSUME PInv, Verify
    PROVE  PInv'
  <1>1. /\ Applying /\ next > Len(Keys) /\ applied # Nothing /\ UNCHANGED <<limit, inForce>>
    BY DEF Verify, device
  <1>2. PICK a : Finish(a) /\ answer' = a
                 /\ \/ a = Error
                    \/ Sticks /\ a = [kind |-> op, slot |-> stored, noted |-> Noted]
    BY DEF Verify, Finish
  <1>3. LoadedIsActive'
    <2> SUFFICES ASSUME answer' # None, answer'.kind \in {"load", "reset"}, ~answer'.noted PROVE Matches(answer.slot)'
      BY DEF LoadedIsActive
    <2>1. Sticks /\ answer'.slot = stored /\ ~Noted
      BY <1>2 DEF Error
    <2> DEFINE compared == {k \in Features : stored[k] # None /\ (k = Fan => FanIsFixed(stored))}
    <2>2. ASSUME NEW k \in Features, applied[k] # None
          PROVE  k \in compared /\ stored[k] \in Values /\ Near(inForce[k], stored[k])
      <3>1. stored[k] \in Values /\ applied[k] = stored[k]
        BY <2>1, <2>2 DEF PInv, AppliedIsStored, Fits, Noted
      <3>2. k = Fan => FanIsFixed(stored)
        BY <2>2 DEF PInv, AppliedInTurn
      <3> QED
        BY <2>1, <2>2, <3>1, <3>2, Constants DEF Sticks
    <2>3. ASSUME NEW k \in compared PROVE applied[k] # None
      <3>1. PICK i \in 1..Len(Keys) : k = Keys[i]
        BY Constants
      <3>2. i \in 1..(next - 1)
        BY <1>1, Constants DEF PInv, Sane
      <3> QED
        BY <1>1, <2>1, <3>1, <3>2 DEF PInv, NothingIsDropped, Noted
    <2>4. \E k \in Features : applied[k] # None
      BY <1>1 DEF PInv, Sane, Nothing
    <2>5. \A k \in compared : stored[k] \in Values /\ Near(inForce[k], stored[k])
      BY <2>2, <2>3
    <2>6. Matches(stored)
      BY <2>2, <2>4, <2>5 DEF Matches
    <2> QED
      BY <1>1, <2>1, <2>6 DEF Matches, Near, FanIsFixed
  <1> QED
    BY <1>1, <1>2, <1>3, Finished DEF PInv, Sane

\* A step of the operations or of the environment.
LEMMA NextInv ==
    ASSUME PInv, Next
    PROVE  PInv'
  <1> USE DEF device, work
  <1>1. op = None => ~Applying
    BY ProfilesAssumption DEF Applying
  <1>2. Error.kind = "error"
    BY DEF Error
  <1>3. CASE Toggle \/ \E i \in Saves : UserSaves(i)
    BY <1>3, Aside DEF Toggle, UserSaves, PInv, Sane
  <1>4. ASSUME NEW k \in Features, NEW v \in Values, UserSets(k, v) PROVE PInv'
    <2>1. Nothing \in [Features -> Values \cup {None}]
      BY DEF Nothing
    <2> QED
      BY <1>4, <2>1, Aside DEF UserSets, PInv, Sane
  <1>5. ASSUME Refuse PROVE PInv'
    BY <1>2, <1>5, Aside DEF Refuse, PInv, Sane
  <1>6. ASSUME NEW i \in Slots, Load(i) PROVE PInv'
    BY <1>1, <1>5, <1>6, Begun DEF Load
  <1>7. CASE Reset
    BY <1>1, <1>5, <1>7, Shelved DEF Reset, ReadShelf
  <1>8. CASE List
    <2>1. Listing(NoSlots, None).kind = "list"
      BY DEF Listing
    <2> QED
      BY <1>1, <1>5, <1>8, <2>1, Shelved, Aside DEF List, ReadShelf, PInv, Sane
  <1>9. ASSUME NEW a, Finish(a), a.kind \notin {"load", "reset"}, UNCHANGED <<limit, inForce>>
        PROVE  PInv'
    <2>1. answer' = a
      BY <1>9 DEF Finish
    <2> QED
      BY <1>9, <2>1, Finished, OtherAnswers DEF PInv, Sane
  <1>10. CASE ResetFindsSlot
    <2>1. CASE Finish(Error) /\ UNCHANGED device
      BY <1>2, <1>9, <2>1
    <2>2. ASSUME NEW i \in MatchesOn(shelf), Begin("reset", shelf[i]) PROVE PInv'
      <3>1. ~Applying
        BY <1>10 DEF ResetFindsSlot, Applying
      <3> QED
        BY <2>2, <3>1, Begun
    <2> QED
      BY <1>10, <2>1, <2>2 DEF ResetFindsSlot
  <1>11. CASE ListMarks
    BY <1>9, <1>11 DEF ListMarks, Listing
  <1>12. CASE ApplyFails
    <2>1. /\ Applying /\ safe \in Values /\ next <= Len(Keys)
          /\ Finish(Error) /\ limit' = limit /\ Sane
          /\ Effect(Key, safe) \/ inForce' = inForce
      BY <1>12 DEF ApplyFails, PInv, Sane, SafeIsStored
    <2>2. Key \in Features
      BY <2>1, KeyUnderWay
    <2>3. answer' = Error
      BY <2>1 DEF Finish
    <2>4. inForce' \in [Features -> Values]
      BY <2>1, <2>2, Written DEF Sane
    <2> QED
      BY <1>2, <2>1, <2>3, <2>4, Finished, OtherAnswers
  <1>13. CASE Disconnect
    BY <1>9, <1>13 DEF Disconnect
  <1>14. CASE NothingApplied
    BY <1>2, <1>9, <1>14 DEF NothingApplied
  <1> QED
    BY <1>3, <1>4, <1>6, <1>7, <1>8, <1>10, <1>11, <1>12, <1>13, <1>14,
       Skipped, Validated, AppliedNext, Verified
       DEF Next, Environment, Work

LEMMA ReportInv ==
    ASSUME PInv, Detect \/ BuildReport
    PROVE  PInv'
  <1> USE DEF device, work
  <1>1. CASE Detect
    <2>1. ~Applying
      BY <1>1, ProfilesAssumption DEF Detect, Applying
    <2> QED
      BY <1>1, <2>1, Shelved DEF Detect
  <1>2. CASE ReadState \/ ReadProfiles \/ FindActive
    BY <1>2, Aside DEF ReadState, ReadProfiles, FindActive, PInv, Sane
  <1>3. CASE Conclude
    <2>1. PICK a : Finish(a) /\ a.kind = "report" /\ UNCHANGED <<limit, inForce>>
      BY <1>3 DEF Conclude
    <2>2. answer' = a
      BY <2>1 DEF Finish
    <2> QED
      BY <2>1, <2>2, Finished, OtherAnswers DEF PInv, Sane
  <1> QED
    BY <1>1, <1>2, <1>3 DEF BuildReport

THEOREM OperationsInvariant == OSpec => []PInv
  <1>1. Init => PInv
    <2> SUFFICES ASSUME Init PROVE PInv
      OBVIOUS
    <2>1. Nothing \in [Features -> Values \cup {None}] /\ \A k \in Features : Nothing[k] = None
      BY DEF Nothing
    <2>2. Sane
      BY <2>1, ProfilesAssumption DEF Init, Sane
    <2>3. AppliedIsStored /\ SafeIsStored /\ AppliedInTurn /\ NothingIsDropped
      BY <2>1, Constants, ProfilesAssumption
         DEF Init, AppliedIsStored, SafeIsStored, AppliedInTurn, NothingIsDropped, Applying
    <2>4. LoadedIsActive
      BY DEF Init, LoadedIsActive
    <2> QED
      BY <2>2, <2>3, <2>4 DEF PInv
  <1>2. PInv /\ [ONext]_ovars => PInv'
    <2> SUFFICES ASSUME PInv, [ONext]_ovars PROVE PInv'
      OBVIOUS
    <2>1. CASE UNCHANGED ovars
      <3>1. UNCHANGED <<limit, inForce, op, next, stored, safe, applied, notices, entry, answer>>
        BY <2>1 DEF ovars, vars, device, work
      <3>2. Sane' /\ NothingIsDropped' /\ AppliedInTurn'
        BY <3>1 DEF PInv, Sane, NothingIsDropped, AppliedInTurn, Applying
      <3>3. AppliedIsStored' /\ SafeIsStored'
        BY <3>1 DEF PInv, AppliedIsStored, SafeIsStored, Fits, Applying, Usable, Key, FanIsFixed
      <3>4. LoadedIsActive'
        BY <3>1 DEF PInv, LoadedIsActive, Matches, Near, FanIsFixed
      <3> QED
        BY <3>2, <3>3, <3>4 DEF PInv
    <2> QED
      BY <2>1, NextInv, ReportInv DEF ONext
  <1> QED
    BY <1>1, <1>2, PTL DEF OSpec, OInit

\* load_profile and reset_profile report success without a notice only for a slot
\* whose stored values are in force at that moment, as get_profiles would see them.
THEOREM LoadedIsAlwaysActive == OSpec => []LoadedIsActive
  <1>1. PInv => LoadedIsActive
    BY DEF PInv
  <1> QED
    BY <1>1, OperationsInvariant, PTL

-----------------------------------------------------------------------------
(* The report.                                                             *)

\* Where the report is, and that a record of its parts is kept.
Stationed ==
    /\ avail \in BOOLEAN
    /\ stage \in Stages \cup {None}
    /\ op = "report" <=> stage # None
    /\ moves \in Nat
    /\ report \in [ok : BOOLEAN, state : [Features -> Values \cup {None}], active : Slots \cup {None}]

\* As long as nothing has moved, every part that was read is as it was.
Calm ==
    op = "report" /\ moves = 0 =>
        /\ report.ok <=> avail
        /\ stage # "state" => report.state = IF report.ok THEN inForce ELSE Nothing
        /\ stage = "active" => shelf = Read(disk).slots
        /\ report.active # None => avail /\ MatchesOn(Read(disk).slots) = {report.active}

RInv == PInv /\ Stationed /\ Calm /\ QuietReportAgrees

LEMMA ValuesAreThere ==
    ASSUME Sane
    PROVE  inForce # Nothing /\ inForce \in [Features -> Values \cup {None}]
           /\ Nothing \in [Features -> Values \cup {None}]
  <1>1. inForce[Fan] # None /\ Nothing[Fan] = None
    BY Constants DEF Sane, Nothing
  <1> QED
    BY <1>1 DEF Sane, Nothing

LEMMA ActiveIsSole ==
    ASSUME NEW slots, ActiveOn(slots) # None
    PROVE  avail /\ MatchesOn(slots) = {ActiveOn(slots)} /\ ActiveOn(slots) \in Slots
  <1>1. avail /\ Cardinality(MatchesOn(slots)) = 1 /\ ActiveOn(slots) = CHOOSE i \in MatchesOn(slots) : TRUE
    BY DEF ActiveOn
  <1>2. MatchesOn(slots) \subseteq Slots
    BY DEF MatchesOn, PresentIn
  <1>3. IsFiniteSet(MatchesOn(slots))
    BY <1>2, FS_Subset, ProfilesAssumption
  <1>4. PICK i : MatchesOn(slots) = {i}
    BY <1>1, <1>3, FS_Singleton
  <1> QED
    BY <1>1, <1>2, <1>4

\* No other operation ends in a report, or turns into one.
LEMMA NextReports ==
    ASSUME Next
    PROVE  /\ answer' # None => answer'.kind # "report"
           /\ op' = "report" <=> op = "report"
  <1> USE DEF Error, Listing, device, work
  <1>1. None # "report"
    BY ProfilesAssumption
  <1>2. CASE Environment
    BY <1>2 DEF Environment, Toggle, UserSets, UserSaves
  <1>3. CASE \E i \in Slots : Load(i)
    BY <1>1, <1>3 DEF Load, Begin, Refuse
  <1>4. CASE Reset \/ List
    BY <1>1, <1>4 DEF Reset, List, ReadShelf, Refuse
  <1>5. CASE ResetFindsSlot \/ ListMarks
    BY <1>1, <1>5 DEF ResetFindsSlot, ListMarks, Begin, Finish
  <1>6. CASE Skip \/ Validate \/ ApplyOne
    BY <1>6 DEF Skip, Validate, ApplyOne, Applying
  <1>7. CASE ApplyFails \/ Disconnect \/ NothingApplied
    BY <1>1, <1>7 DEF ApplyFails, Disconnect, NothingApplied, Finish, Applying
  <1>8. CASE Verify
    BY <1>1, <1>8 DEF Verify, Finish, Applying
  <1> QED
    BY <1>2, <1>3, <1>4, <1>5, <1>6, <1>7, <1>8 DEF Next, Work

LEMMA NextToggles ==
    ASSUME avail \in BOOLEAN, Next
    PROVE  avail' \in BOOLEAN
  BY DEF Next, Environment, Toggle, UserSets, UserSaves, Load, Reset, List, ReadShelf, Refuse, Begin,
         Work, ResetFindsSlot, ListMarks, Skip, Validate, ApplyOne, ApplyFails, Disconnect, NothingApplied,
         Verify, device

LEMMA ReportStep ==
    ASSUME RInv, [ONext]_ovars
    PROVE  (Stationed /\ Calm /\ QuietReportAgrees)'
  <1> USE DEF device, work
  <1>1. /\ Sane /\ Stationed /\ Calm /\ None # "report"
        /\ "state" # None /\ "shelf" # None /\ "active" # None /\ "startup" # None
    BY ProfilesAssumption, OwnershipAssumption DEF RInv, PInv, Stages
  <1>2. CASE UNCHANGED ovars
    <2>1. UNCHANGED <<avail, limit, inForce, disk, op, shelf, answer, stage, report, moves>>
      BY <1>2 DEF ovars, vars, own
    <2>2. Stationed' /\ Calm'
      BY <1>1, <2>1 DEF Stationed, Calm, MatchesOn, Matches, Near, FanIsFixed
    <2>3. QuietReportAgrees'
      BY <2>1 DEF RInv, QuietReportAgrees, MatchesOn, Matches, Near, FanIsFixed
    <2> QED
      BY <2>2, <2>3
  <1>3. CASE Next /\ Beside
    <2>1. op' = "report" <=> op = "report"
      BY <1>3, NextReports
    <2>2. avail' \in BOOLEAN
      BY <1>1, <1>3, NextToggles DEF Stationed
    <2>3. Stationed'
      BY <1>1, <1>3, <2>1, <2>2 DEF Beside, Stationed
    <2>4. Calm'
      BY <1>1, <1>3, <2>1 DEF Beside, Stationed, Calm
    <2>5. QuietReportAgrees'
      BY <1>3, NextReports DEF QuietReportAgrees
    <2> QED
      BY <2>3, <2>4, <2>5
  <1>4. CASE Detect
    <2>1. report' = [ok |-> avail, state |-> Nothing, active |-> None]
      BY <1>4 DEF Detect, NoReport
    <2>2. Stationed'
      <3>1. /\ avail \in BOOLEAN /\ avail' = avail
            /\ op' = "report" /\ stage' = "state" /\ moves' = 0
        BY <1>1, <1>4 DEF Detect, Stationed
      <3> QED
        BY <1>1, <2>1, <3>1, ValuesAreThere DEF Stationed, Stages
    <2>3. Calm'
      BY <1>4, <2>1 DEF Detect, Calm
    <2> QED
      BY <1>4, <2>2, <2>3 DEF Detect, QuietReportAgrees
  <1>5. CASE ReadState
    <2>1. /\ report' = [report EXCEPT !.state = IF report.ok /\ avail THEN inForce ELSE Nothing]
          /\ stage = "state" /\ stage' = "shelf" /\ answer' = None
          /\ UNCHANGED <<avail, inForce, disk, op, shelf, moves>>
      BY <1>5 DEF ReadState
    <2>2. /\ report'.ok = report.ok /\ report'.active = report.active
          /\ report'.state = IF report.ok /\ avail THEN inForce ELSE Nothing
      BY <1>1, <2>1 DEF Stationed
    <2>3. Stationed'
      BY <1>1, <2>1, ValuesAreThere DEF Stationed, Stages
    <2>4. Calm'
      BY <1>1, <2>1, <2>2 DEF Calm, MatchesOn, Matches, Near, FanIsFixed
    <2> QED
      BY <2>1, <2>3, <2>4 DEF QuietReportAgrees
  <1>6. CASE ReadProfiles
    <2>1. /\ shelf' = Read(disk).slots /\ stage' \in {"active", "startup"} /\ stage = "shelf"
          /\ answer' = None /\ UNCHANGED <<avail, inForce, disk, op, report, moves>>
      BY <1>6 DEF ReadProfiles
    <2>2. Stationed'
      BY <1>1, <2>1 DEF Stationed, Stages
    <2>3. Calm'
      BY <1>1, <2>1 DEF Calm, MatchesOn, Matches, Near, FanIsFixed
    <2> QED
      BY <2>1, <2>2, <2>3 DEF QuietReportAgrees
  <1>7. CASE FindActive
    <2>1. /\ report' = [report EXCEPT !.active = ActiveOn(shelf)]
          /\ stage = "active" /\ stage' = "startup" /\ answer' = None
          /\ UNCHANGED <<avail, inForce, disk, op, moves>>
      BY <1>7 DEF FindActive
    <2>2. ActiveOn(shelf) \in Slots \cup {None}
      BY ActiveIsSole
    <2>3. report'.ok = report.ok /\ report'.state = report.state /\ report'.active = ActiveOn(shelf)
      BY <1>1, <2>1 DEF Stationed
    <2>4. Stationed'
      BY <1>1, <2>1, <2>2 DEF Stationed, Stages
    <2>5. ActiveOn(shelf) # None => avail /\ MatchesOn(shelf) = {ActiveOn(shelf)}
      BY ActiveIsSole
    <2>6. Calm'
      BY <1>1, <2>1, <2>3, <2>5 DEF Calm, MatchesOn, Matches, Near, FanIsFixed
    <2> QED
      BY <2>1, <2>4, <2>6 DEF QuietReportAgrees
  <1>8. CASE Conclude
    <2>1. /\ stage = "startup" /\ op' = None /\ stage' = None /\ report' = NoReport /\ moves' = 0
          /\ UNCHANGED <<avail, inForce, disk>>
      BY <1>8 DEF Conclude, Finish
    <2>2. answer' = [kind |-> "report", ok |-> report.ok, state |-> report.state,
                     active |-> report.active, startup |-> Read(disk).startup, calm |-> moves = 0]
      BY <1>8 DEF Conclude, Finish
    <2>3. Stationed'
      BY <1>1, <2>1, ValuesAreThere DEF Stationed, NoReport
    <2>4. Calm'
      BY <1>1, <2>1 DEF Calm
    <2>5. ASSUME moves = 0 PROVE QuietReportAgrees'
      <3>1. /\ report.ok <=> avail
            /\ report.state = IF report.ok THEN inForce ELSE Nothing
            /\ report.active # None => avail /\ MatchesOn(Read(disk).slots) = {report.active}
        BY <1>1, <2>1, <2>5 DEF Calm, Stationed
      <3>2. inForce # Nothing
        BY <1>1, ValuesAreThere
      <3>3. MatchesOn(Read(disk).slots)' = MatchesOn(Read(disk).slots)
        BY <2>1 DEF MatchesOn, Matches, Near, FanIsFixed
      <3> QED
        BY <2>1, <2>2, <3>1, <3>2, <3>3 DEF QuietReportAgrees
    <2>6. ASSUME moves # 0 PROVE QuietReportAgrees'
      BY <2>2, <2>6 DEF QuietReportAgrees
    <2> QED
      BY <2>3, <2>4, <2>5, <2>6
  <1> QED
    BY <1>2, <1>3, <1>4, <1>5, <1>6, <1>7, <1>8 DEF ONext, BuildReport

\* What a report has read, at every stage.
LEMMA ReportInvariant == OSpec => []RInv
  <1>1. OInit => Stationed /\ Calm /\ QuietReportAgrees
    <2>1. Nothing \in [Features -> Values \cup {None}]
      BY DEF Nothing
    <2> QED
      BY <2>1, ProfilesAssumption
         DEF OInit, Init, Stationed, Calm, QuietReportAgrees, NoReport
  <1>2. PInv /\ Stationed /\ Calm /\ QuietReportAgrees /\ [ONext]_ovars
            => (Stationed /\ Calm /\ QuietReportAgrees)'
    BY ReportStep DEF RInv
  <1>3. PInv /\ Stationed /\ Calm /\ QuietReportAgrees => RInv
    BY DEF RInv
  <1> QED
    BY <1>1, <1>2, <1>3, OperationsInvariant, PTL DEF OSpec

\* The parts of an ownership report belong together if nothing moved while they
\* were read.
THEOREM QuietReportsAgree == OSpec => []QuietReportAgrees
  <1>1. RInv => QuietReportAgrees
    BY DEF RInv
  <1> QED
    BY <1>1, ReportInvariant, PTL

-----------------------------------------------------------------------------
(* A slot that is saved while something looks for it.                      *)

\* What Afterburner writes for a slot: a header, a line for each control and one
\* for the mode.
LEMMA SectionLines ==
    ASSUME inForce \in [Features -> Values], NEW i \in Slots
    PROVE  /\ Section(i) \in Seq(Line)
           /\ Len(Section(i)) = Len(Keys) + 2
           /\ Section(i)[1] = Header(i)
           /\ \A j \in 1..Len(Keys) : Section(i)[j + 1] = Setting(Keys[j], inForce[Keys[j]])
           /\ \E t \in Texts : Section(i)[Len(Keys) + 2] = Setting(Mode, t)
  <1> DEFINE n == Len(Keys)
             controls == [j \in 1..n |-> Setting(Keys[j], inForce[Keys[j]])]
             t == IF auto THEN Automatic ELSE Fixed
  <1>1. n \in Nat
    BY Constants
  <1>2. ASSUME NEW j \in 1..n PROVE Setting(Keys[j], inForce[Keys[j]]) \in Line
    <2>1. Keys[j] \in SettingKeys /\ inForce[Keys[j]] \in Texts
      BY <1>2, Constants, ProfilesAssumption
    <2> QED
      BY <2>1 DEF Line
  <1>3. controls \in Seq(Line) /\ Len(controls) = n
        /\ \A j \in 1..n : controls[j] = Setting(Keys[j], inForce[Keys[j]])
    BY <1>1, <1>2
  <1>4. t \in Texts /\ Setting(Mode, t) \in Line /\ Header(i) \in Line
    <2>1. t \in Texts /\ Mode \in SettingKeys /\ i \in Sections
      BY ProfilesAssumption DEF Sections
    <2> QED
      BY <2>1 DEF Line
  <1>5. Section(i) = <<Header(i)>> \o controls \o <<Setting(Mode, t)>>
    BY DEF Section
  <1> HIDE DEF n, controls, t
  <1>6. /\ <<Header(i)>> \o controls \in Seq(Line)
        /\ Len(<<Header(i)>> \o controls) = n + 1
        /\ (<<Header(i)>> \o controls)[1] = Header(i)
        /\ \A j \in 1..n : (<<Header(i)>> \o controls)[j + 1] = controls[j]
    BY <1>1, <1>3, <1>4
  <1> DEFINE front == <<Header(i)>> \o controls
  <1> HIDE DEF front
  <1>7. /\ front \in Seq(Line) /\ Len(front) = n + 1
        /\ front[1] = Header(i) /\ \A j \in 1..n : front[j + 1] = controls[j]
    BY <1>6 DEF front
  <1>8. Section(i) = front \o <<Setting(Mode, t)>>
    BY <1>5 DEF front
  <1>9. /\ Section(i) \in Seq(Line) /\ Len(Section(i)) = n + 2
        /\ \A p \in 1..(n + 1) : Section(i)[p] = front[p]
        /\ Section(i)[n + 2] = Setting(Mode, t)
    BY <1>1, <1>4, <1>7, <1>8
  <1>10. \A j \in 1..n : j + 1 \in 1..(n + 1)
    BY <1>1
  <1>11. 1 \in 1..(n + 1)
    BY <1>1
  <1> QED
    BY <1>3, <1>4, <1>7, <1>9, <1>10, <1>11 DEF n

\* A file with the section of a slot rewritten: the slot stores the values in force,
\* and every other section says what it said.
LEMMA Rewritten ==
    ASSUME inForce \in [Features -> Values], NEW i \in Slots, NEW lines \in Seq(Line)
    PROVE  /\ Without(lines, i) \o Section(i) \in Seq(Line)
           /\ \A s, k : s # i =>
                  ParsedText(Without(lines, i) \o Section(i), s, k) = ParsedText(lines, s, k)
           /\ \A k \in Features : ParsedText(Without(lines, i) \o Section(i), i, k) = inForce[k]
  <1> DEFINE W == Without(lines, i)
             more == W \o Section(i)
             w == Len(W)
             n == Len(Keys)
  <1>1. /\ W \in Seq(Line) /\ w \in Nat /\ n \in Nat
        /\ \A s, k : s # i => ParsedText(W, s, k) = ParsedText(lines, s, k)
    <2>2. W \in Seq(Line)
      BY WithoutIsLines
    <2>3. \A t, k : t # i => ParsedText(W, t, k) = ParsedText(lines, t, k)
      BY WithoutKeeps
    <2> QED
      BY <2>2, <2>3, Constants
  <1>2. /\ Section(i) \in Seq(Line) /\ Len(Section(i)) = n + 2
        /\ Section(i)[1] = Header(i)
        /\ \A j \in 1..n : Section(i)[j + 1] = Setting(Keys[j], inForce[Keys[j]])
        /\ \E t \in Texts : Section(i)[n + 2] = Setting(Mode, t)
    BY SectionLines
  <1> HIDE DEF W, w, n
  <1>3. /\ more \in Seq(Line) /\ Len(more) = w + n + 2
        /\ \A p \in 1..w : more[p] = W[p]
        /\ \A p \in 1..(n + 2) : more[w + p] = Section(i)[p]
    <2>1. more \in Seq(Line) /\ Len(more) = w + n + 2
      <3>1. W \in Seq(Line) /\ Section(i) \in Seq(Line)
        BY <1>1, <1>2
      <3>2. more \in Seq(Line)
        BY <3>1
      <3>3. Len(more) = Len(W) + Len(Section(i))
        BY <3>1
      <3> QED
        BY <1>1, <1>2, <3>2, <3>3 DEF w
    <2>2. \A p \in 1..w : more[p] = W[p]
      BY <1>1, <1>2 DEF w
    <2>3. ASSUME NEW p \in 1..(n + 2) PROVE more[w + p] = Section(i)[p]
      <3>1. w + p \in 1..(w + (n + 2)) /\ w + p > w /\ (w + p) - w = p
        BY <1>1
      <3> QED
        BY <1>1, <1>2, <3>1 DEF w
    <2> QED
      BY <2>1, <2>2, <2>3
  <1> HIDE DEF more
  <1>4. /\ more[w + 1] = Header(i)
        /\ \A j \in 1..n : more[w + 1 + j] = Setting(Keys[j], inForce[Keys[j]])
        /\ \E t \in Texts : more[w + n + 2] = Setting(Mode, t)
    <2>1. 1 \in 1..(n + 2) /\ n + 2 \in 1..(n + 2) /\ w + (n + 2) = w + n + 2
      BY <1>1
    <2>2. \A j \in 1..n : j + 1 \in 1..(n + 2) /\ w + (j + 1) = w + 1 + j
      BY <1>1
    <2>3. \A j \in 1..n : more[w + 1 + j] = Section(i)[j + 1]
      BY <1>3, <2>2
    <2> QED
      BY <1>2, <1>3, <2>1, <2>3
  <1>5. \A p \in 1..(w + n + 2) : p \in 1..w \/ p = w + 1 \/ p = w + n + 2
                                     \/ \E j \in 1..n : p = w + 1 + j
    <2> SUFFICES ASSUME NEW p \in 1..(w + n + 2), p > w + 1, p < w + n + 2
                 PROVE  \E j \in 1..n : p = w + 1 + j
      BY <1>1
    <2>1. p - w - 1 \in 1..n /\ p = w + 1 + (p - w - 1)
      BY <1>1
    <2> QED
      BY <2>1
  <1>6. \A p \in 1..(w + n + 2) : p > w + 1 => more[p].tag = "setting"
    <2> SUFFICES ASSUME NEW p \in 1..(w + n + 2), p > w + 1
                 PROVE  more[p].tag = "setting"
      OBVIOUS
    <2>1. CASE p = w + n + 2
      BY <1>4, <2>1 DEF Setting
    <2>2. ASSUME NEW j \in 1..n, p = w + 1 + j PROVE more[p].tag = "setting"
      <3>1. more[p] = Setting(Keys[j], inForce[Keys[j]])
        BY <1>4, <2>2
      <3> QED
        BY <3>1 DEF Setting
    <2>3. p \notin 1..w /\ p # w + 1
      BY <1>1
    <2> QED
      BY <1>5, <2>1, <2>2, <2>3
  <1>7. \A p \in 1..(w + 1) : SectionAt(more, p) = SectionAt(W, p)
    BY <1>1, <1>3, SectionInPrefix DEF w
  <1>8. ASSUME NEW p \in 1..(w + n + 2), p > w + 1
        PROVE  SectionAt(more, p) = i
    <2> DEFINE H == {j \in 1..(p - 1) : more[j].tag = "header"}
    <2>1. p - 1 \in Nat /\ H \in SUBSET (1..(p - 1))
      BY <1>1
    <2>2. w + 1 \in H
      BY <1>1, <1>4, <1>8 DEF Header
    <2>3. \A j \in H : j <= w + 1
      BY <1>1, <1>6
    <2>4. SectionAt(more, p) = IF H = {} THEN None ELSE more[Latest(H)].name
      BY DEF SectionAt
    <2> HIDE DEF H
    <2>5. Latest(H) = w + 1
      BY <2>1, <2>2, <2>3, LatestIs
    <2> QED
      BY <1>4, <2>2, <2>4, <2>5 DEF Header
  <1>9. ASSUME NEW s, NEW k, s # i
        PROVE  ParsedText(more, s, k) = ParsedText(lines, s, k)
    <2> DEFINE T == Setters(W, s, k)
               U == Setters(more, s, k)
    <2>1. T \in SUBSET (1..w) /\ U \in SUBSET (1..(w + n + 2))
      BY <1>3 DEF Setters, w
    <2>2. \A p \in 1..w : p \in U <=> p \in T
      BY <1>1, <1>3, <1>7 DEF Setters, w
    <2>3. w + 1 \notin U
      BY <1>4 DEF Setters, Header
    <2>4. \A p \in 1..(w + n + 2) : p > w + 1 => p \notin U
      BY <1>8, <1>9 DEF Setters
    <2>5. /\ ParsedText(W, s, k) = IF T = {} THEN None ELSE W[Latest(T)].text
          /\ ParsedText(more, s, k) = IF U = {} THEN None ELSE more[Latest(U)].text
      <3>1. Len(W) \in Nat /\ Len(more) \in Nat
        BY <1>1, <1>3 DEF w
      <3> QED
        BY <3>1, TextIsTheLast
    <2> HIDE DEF T, U
    <2>6. U = T
      <3>1. \A p \in U : p \in 1..w
        BY <1>1, <2>1, <2>3, <2>4
      <3> QED
        BY <2>1, <2>2, <3>1
    <2>7. CASE T = {}
      BY <1>1, <1>9, <2>5, <2>6, <2>7
    <2>8. CASE T # {}
      <3>1. Latest(T) \in 1..w
        BY <1>1, <2>1, <2>8, LatestNumber
      <3> QED
        BY <1>1, <1>3, <1>9, <2>5, <2>6, <2>8, <3>1
    <2> QED
      BY <2>7, <2>8
  <1>10. ASSUME NEW k \in Features
         PROVE  ParsedText(more, i, k) = inForce[k]
    <2> DEFINE U == Setters(more, i, k)
    <2>1. PICK j \in 1..n : k = Keys[j]
      BY Constants DEF n
    <2>2. /\ w + 1 + j \in 1..(w + n + 2) /\ w + 1 + j > w + 1
          /\ more[w + 1 + j] = Setting(k, inForce[k])
      BY <1>1, <1>4, <2>1
    <2>3. w + 1 + j \in U
      BY <1>3, <1>8, <2>2 DEF Setters, Setting
    <2>4. ASSUME NEW p \in U PROVE p <= w + 1 + j
      <3>1. p \in 1..(w + n + 2) /\ more[p].key = k
        BY <1>3 DEF Setters
      <3>2. CASE p = w + n + 2
        <4>1. more[p].key = Mode /\ k # Mode
          BY <1>4, <3>2, ProfilesAssumption DEF Setting
        <4> QED
          BY <3>1, <4>1
      <3>3. ASSUME NEW h \in 1..n, p = w + 1 + h PROVE p <= w + 1 + j
        <4>1. more[p] = Setting(Keys[h], inForce[Keys[h]])
          BY <1>4, <3>3
        <4>2. Keys[h] = Keys[j]
          BY <2>1, <3>1, <4>1 DEF Setting
        <4>3. h = j
          BY <4>2, ProfilesAssumption DEF n
        <4> QED
          BY <1>1, <3>3, <4>3
      <3> QED
        BY <1>1, <1>5, <3>1, <3>2, <3>3
    <2>5. U \in SUBSET (1..(w + n + 2)) /\ w + n + 2 \in Nat /\ Len(more) \in Nat
      BY <1>1, <1>3 DEF Setters
    <2>6. ParsedText(more, i, k) = IF U = {} THEN None ELSE more[Latest(U)].text
      BY <2>5, TextIsTheLast
    <2> HIDE DEF U
    <2>7. Latest(U) = w + 1 + j
      BY <2>3, <2>4, <2>5, LatestIs
    <2> QED
      BY <2>2, <2>3, <2>6, <2>7 DEF Setting
  <1> QED
    BY <1>3, <1>9, <1>10 DEF more, W

\* At most one file is that of the GPU.
LEMMA AttributedIsSole ==
    ASSUME NEW d, IsDirectory(d), NEW c \in Attributed(d.files)
    PROVE  Attributed(d.files) = {c} /\ c \in DOMAIN d.files
  <1>1. IsFiniteSet(DOMAIN d.files)
    BY FS_Subset, ProfileFileAssumption DEF IsDirectory
  <1>2. CASE Card # None
    BY <1>2 DEF Attributed
  <1>3. CASE Card = None
    <2>1. Cardinality(DOMAIN d.files) = 1 /\ Attributed(d.files) = DOMAIN d.files
      BY <1>3 DEF Attributed
    <2>2. PICK x : DOMAIN d.files = {x}
      BY <1>1, <2>1, FS_Singleton
    <2> QED
      BY <2>1, <2>2
  <1> QED
    BY <1>2, <1>3

\* The slot that is saved holds the values in force, and no other slot changes.
LEMMA Saved ==
    ASSUME inForce \in [Features -> Values], IsDirectory(disk), NEW i \in Slots, UserSaves(i)
    PROVE  /\ IsDirectory(disk')
           /\ \A j \in Slots : j # i => Read(disk').slots[j] = Read(disk).slots[j]
           /\ i \in MatchesOn(Read(disk').slots)
  <1>1. ReaderState(disk) = "available"
    BY DEF UserSaves
  <1>2. PICK c \in Attributed(disk.files) :
            disk' = [disk EXCEPT !.files[c] = Without(@, i) \o Section(i)]
    BY DEF UserSaves
  <1> DEFINE lines == disk.files[c]
             more == Without(lines, i) \o Section(i)
  <1>3. Attributed(disk.files) = {c} /\ c \in DOMAIN disk.files /\ lines \in Seq(Line)
    BY <1>1, AttributedIsSole, AvailableLines
  <1>4. /\ more \in Seq(Line)
        /\ \A s, k : s # i => ParsedText(more, s, k) = ParsedText(lines, s, k)
        /\ \A k \in Features : ParsedText(more, i, k) = inForce[k]
    BY <1>3, Rewritten
  <1>5. /\ disk = Directory(disk.listing, disk.files)
        /\ disk.files \in [DOMAIN disk.files -> Contents] /\ DOMAIN disk.files \subseteq Cards
        /\ disk.listing \in {"missing", "refused", "listed"}
    BY DEF IsDirectory
  <1>6. /\ disk' = Directory(disk.listing, [disk.files EXCEPT ![c] = more])
        /\ disk'.listing = disk.listing /\ disk'.files = [disk.files EXCEPT ![c] = more]
    BY <1>2, <1>5 DEF Directory
  <1> HIDE DEF more
  <1>7. DOMAIN disk'.files = DOMAIN disk.files /\ disk'.files[c] = more
        /\ disk'.files \in [DOMAIN disk.files -> Contents]
    BY <1>3, <1>4, <1>5, <1>6 DEF Contents
  <1>8. IsDirectory(disk')
    BY <1>5, <1>6, <1>7 DEF IsDirectory
  <1>9. Attributed(disk'.files) = {c}
    BY <1>3, <1>7 DEF Attributed
  <1>10. ReaderState(disk') = "available"
    <2>1. more # Undecodable
      BY <1>4, ProfileFileAssumption
    <2>2. disk.listing # "missing" /\ disk.listing # "refused"
      BY <1>1 DEF ReaderState
    <2> QED
      BY <1>6, <1>7, <1>9, <2>1, <2>2 DEF ReaderState
  <1>11. LinesOf(disk) = lines /\ LinesOf(disk') = more
    BY <1>3, <1>7, <1>9 DEF LinesOf
  <1>12. /\ Read(disk).slots = [j \in Slots |-> [k \in SettingKeys |-> Meaning(lines, j, k)]]
         /\ Read(disk').slots = [j \in Slots |-> [k \in SettingKeys |-> Meaning(more, j, k)]]
    BY <1>1, <1>8, <1>10, <1>11, ReadAvailable
  <1>13. Len(lines) \in Nat /\ Len(more) \in Nat
    BY <1>3, <1>4
  <1>14. ASSUME NEW j \in Slots, j # i PROVE Read(disk').slots[j] = Read(disk).slots[j]
    <2>1. \A k \in SettingKeys : Meaning(more, j, k) = Meaning(lines, j, k)
      BY <1>4, <1>13, <1>14, MeaningOfText
    <2> QED
      BY <1>12, <2>1
  <1>15. \A k \in Features : /\ Read(disk').slots[i][k] = inForce[k]
                             /\ inForce[k] \in Values /\ inForce[k] \in Nat
    <2> SUFFICES ASSUME NEW k \in Features
                 PROVE  /\ Read(disk').slots[i][k] = inForce[k]
                        /\ inForce[k] \in Values /\ inForce[k] \in Nat
      OBVIOUS
    <2>1. /\ inForce[k] \in Values /\ inForce[k] \in Nat /\ inForce[k] # Empty
          /\ k \in SettingKeys
      <3>1. inForce[k] \in Values /\ inForce[k] \in Nat /\ k \in SettingKeys
        BY ProfilesAssumption
      <3>2. inForce[k] \in Texts /\ Empty \notin Texts
        BY <3>1, ProfilesAssumption, ProfileFileAssumption
      <3> QED
        BY <3>1, <3>2
    <2>2. Meaning(more, i, k) = inForce[k]
      BY <1>4, <1>13, <2>1, MeaningOfText
    <2> QED
      BY <1>12, <2>1, <2>2
  <1>16. PICK k \in Features : k # Fan
    BY ProfilesAssumption
  <1>17. i \in PresentIn(Read(disk').slots)
    <2>1. Read(disk').slots[i][k] # None /\ k \in SettingKeys
      BY <1>15, ProfilesAssumption
    <2>2. Blank[k] = None
      BY <2>1 DEF Blank
    <2> QED
      BY <2>1, <2>2 DEF PresentIn
  <1>18. Matches(Read(disk').slots[i])
    <2> DEFINE slot == Read(disk').slots[i]
    <2>1. \A f \in Features : slot[f] \in Values /\ Near(inForce[f], slot[f])
      BY <1>15, Constants DEF Near
    <2>2. slot[k] # None
      BY <1>15, <1>16, Constants
    <2> HIDE DEF slot
    <2>3. Matches(slot)
      BY <1>16, <2>1, <2>2 DEF Matches
    <2> QED
      BY <2>3 DEF slot
  <1> QED
    BY <1>8, <1>14, <1>17, <1>18 DEF MatchesOn

-----------------------------------------------------------------------------
(* Types, and what the reader makes of the file.                           *)

\* What is read may be stored.
LEMMA ReadIsStored ==
    ASSUME NEW d, IsDirectory(d)
    PROVE  Read(d).slots \in [Slots -> Stored] /\ PresentIn(Read(d).slots) \subseteq Slots
  BY ReaderTypes DEF Stored, PresentIn

\* Nothing is stored in an empty slot.
LEMMA EmptySlots == Blank \in Stored /\ NoSlots \in [Slots -> Stored]
  BY DEF Blank, Stored, NoSlots

\* The types of what Sane does not cover.
LEMMA TypeStep ==
    ASSUME TypeOK, Sane, Sane', SafeIsStored, Next
    PROVE  TypeOK'
  <1> USE DEF device, work
  <1>1. /\ avail \in BOOLEAN /\ limit \in Limits /\ auto \in BOOLEAN /\ IsDirectory(disk)
        /\ op \in {"load", "reset", "list", "report", None}
        /\ next \in 0..(Len(Keys) + 1) /\ next \in Nat /\ Len(Keys) \in Nat
        /\ shelf \in [Slots -> Stored] /\ stored \in Stored /\ notices \in BOOLEAN
        /\ matched \subseteq Slots
    BY Constants DEF TypeOK, Sane
  <1>2. /\ inForce' \in [Features -> Values] /\ applied' \in [Features -> Values \cup {None}]
        /\ entry' \in [Features -> Values \cup {None}]
        /\ safe' \in Values \cup {None} /\ limit' \in Limits
    BY DEF Sane
  <1>3. Remember => matched' \subseteq Slots
    BY <1>1 DEF Remember, MatchesOn, PresentIn
  <1>4. ASSUME NEW a, Finish(a), avail' \in BOOLEAN, auto' \in BOOLEAN, UNCHANGED <<limit, disk>>
        PROVE  TypeOK'
    <2>1. /\ op' = None /\ next' = 1 /\ shelf' = NoSlots /\ stored' = Blank
          /\ notices' = FALSE /\ matched' = {}
      BY <1>4 DEF Finish
    <2>2. IsDirectory(disk)' /\ limit' \in Limits /\ avail' \in BOOLEAN /\ auto' \in BOOLEAN
      BY <1>1, <1>4, <2>1 DEF IsDirectory
    <2>3. next' \in 0..(Len(Keys) + 1) /\ shelf' \in [Slots -> Stored] /\ stored' \in Stored
      BY <1>1, <2>1, EmptySlots
    <2> QED
      BY <1>2, <2>1, <2>2, <2>3 DEF TypeOK
  <1>5. ASSUME NEW o \in {"load", "reset"}, NEW s \in Stored, Begin(o, s)
        PROVE  TypeOK'
    BY <1>1, <1>2, <1>5, EmptySlots DEF TypeOK, Begin, IsDirectory
  <1>6. ASSUME NEW o \in {"list", "reset"}, ReadShelf(o)
        PROVE  TypeOK'
    <2>1. shelf' \in [Slots -> Stored]
      BY <1>1, <1>6, ReadIsStored DEF ReadShelf
    <2> QED
      BY <1>1, <1>2, <1>6, <2>1 DEF TypeOK, ReadShelf, IsDirectory
  <1>7. ASSUME Refuse PROVE TypeOK'
    BY <1>1, <1>2, <1>7 DEF TypeOK, Refuse, IsDirectory
  <1>8. CASE Toggle
    BY <1>1, <1>2, <1>8 DEF TypeOK, Toggle, IsDirectory
  <1>9. CASE \E k \in Features, v \in Values : UserSets(k, v)
    BY <1>1, <1>2, <1>3, <1>9 DEF TypeOK, UserSets, IsDirectory
  <1>10. ASSUME NEW i \in Saves, UserSaves(i) PROVE TypeOK'
    <2>1. i \in Slots /\ inForce \in [Features -> Values]
      BY ProfilesAssumption DEF Sane
    <2>2. IsDirectory(disk')
      BY <1>1, <1>10, <2>1, Saved
    <2>3. IsDirectory(disk)'
      BY <2>2 DEF IsDirectory
    <2> QED
      BY <1>1, <1>2, <1>3, <1>10, <2>3 DEF TypeOK, UserSaves
  <1>11. ASSUME NEW i \in Slots, Load(i) PROVE TypeOK'
    <2>1. Read(disk).slots[i] \in Stored
      BY <1>1, ReadIsStored
    <2> QED
      BY <1>5, <1>7, <1>11, <2>1 DEF Load
  <1>12. CASE Reset
    BY <1>6, <1>7, <1>12 DEF Reset
  <1>13. CASE List
    <2>1. ASSUME UNCHANGED <<device, disk, work, matched>> PROVE TypeOK'
      BY <1>1, <1>2, <2>1 DEF TypeOK, IsDirectory
    <2> QED
      BY <1>6, <1>7, <1>13, <2>1 DEF List
  <1>14. CASE ResetFindsSlot
    <2>1. ASSUME NEW i \in MatchesOn(shelf) PROVE shelf[i] \in Stored
      BY <1>1 DEF MatchesOn, PresentIn
    <2> QED
      BY <1>1, <1>4, <1>5, <1>14, <2>1 DEF ResetFindsSlot
  <1>15. CASE ListMarks \/ NothingApplied
    BY <1>1, <1>4, <1>15 DEF ListMarks, NothingApplied
  <1>16. CASE Disconnect
    BY <1>1, <1>4, <1>16 DEF Disconnect
  <1>17. CASE Verify
    BY <1>1, <1>4, <1>17 DEF Verify
  <1>18. ASSUME NEW k, NEW v, Effect(k, v) PROVE auto' \in BOOLEAN
    BY <1>1, <1>18 DEF Effect
  <1>19. CASE ApplyFails
    <2>1. auto' \in BOOLEAN
      BY <1>1, <1>18, <1>19 DEF ApplyFails
    <2> QED
      BY <1>1, <1>4, <1>19, <2>1 DEF ApplyFails
  <1>20. CASE Skip \/ Validate
    <2>1. next <= Len(Keys) /\ (next' = next + 1 \/ next' = next)
          /\ UNCHANGED <<avail, auto, disk, op, shelf, stored, matched>>
      BY <1>20 DEF Skip, Validate
    <2>2. notices' \in BOOLEAN
      BY <1>1, <1>20 DEF Skip, Validate
    <2>3. next' \in 0..(Len(Keys) + 1)
      BY <1>1, <2>1
    <2> QED
      BY <1>1, <1>2, <2>1, <2>2, <2>3 DEF TypeOK, IsDirectory
  <1>21. CASE ApplyOne
    <2>1. auto' \in BOOLEAN /\ notices' \in BOOLEAN /\ next' = next + 1 /\ next <= Len(Keys)
          /\ UNCHANGED <<avail, limit, disk, op, shelf, stored, matched>>
      BY <1>1, <1>18, <1>21 DEF ApplyOne, SafeIsStored
    <2> QED
      BY <1>1, <1>2, <2>1 DEF TypeOK, IsDirectory
  <1> QED
    BY <1>8, <1>9, <1>10, <1>11, <1>12, <1>13, <1>14, <1>15, <1>16, <1>17, <1>19, <1>20, <1>21
       DEF Next, Environment, Work

\* A step of the report keeps the types.
LEMMA TypeStepReport ==
    ASSUME TypeOK, Sane', Detect \/ BuildReport
    PROVE  TypeOK'
  <1> USE DEF device, work
  <1>1. /\ avail \in BOOLEAN /\ limit \in Limits /\ auto \in BOOLEAN /\ IsDirectory(disk)
        /\ op \in {"load", "reset", "list", "report", None}
        /\ next \in 0..(Len(Keys) + 1) /\ Len(Keys) \in Nat
        /\ shelf \in [Slots -> Stored] /\ stored \in Stored /\ notices \in BOOLEAN
        /\ matched \subseteq Slots
    BY Constants DEF TypeOK
  <1>2. /\ inForce' \in [Features -> Values] /\ applied' \in [Features -> Values \cup {None}]
        /\ entry' \in [Features -> Values \cup {None}]
        /\ safe' \in Values \cup {None} /\ limit' \in Limits
    BY DEF Sane
  <1>3. Read(disk).slots \in [Slots -> Stored]
    BY <1>1, ReadIsStored
  <1>4. CASE Detect
    BY <1>1, <1>2, <1>4 DEF Detect, TypeOK, IsDirectory
  <1>5. CASE ReadState \/ FindActive
    BY <1>1, <1>2, <1>5 DEF ReadState, FindActive, TypeOK, IsDirectory
  <1>6. CASE ReadProfiles
    BY <1>1, <1>2, <1>3, <1>6 DEF ReadProfiles, TypeOK, IsDirectory
  <1>7. CASE Conclude
    <2>1. /\ op' = None /\ next' = 1 /\ shelf' = NoSlots /\ stored' = Blank
          /\ notices' = FALSE /\ matched' = {} /\ UNCHANGED <<device, disk>>
      BY <1>7 DEF Conclude, Finish
    <2>2. IsDirectory(disk)' /\ limit' \in Limits /\ avail' \in BOOLEAN /\ auto' \in BOOLEAN
      BY <1>1, <2>1 DEF IsDirectory
    <2>3. next' \in 0..(Len(Keys) + 1) /\ shelf' \in [Slots -> Stored] /\ stored' \in Stored
      BY <1>1, <2>1, EmptySlots
    <2> QED
      BY <1>2, <2>1, <2>2, <2>3 DEF TypeOK
  <1> QED
    BY <1>4, <1>5, <1>6, <1>7 DEF BuildReport

\* What Stationed leaves open of the stages.
Placed ==
    /\ stage = None => report = NoReport
    /\ report.active # None => stage = "startup"
    /\ moves \in 0..MaxMoves

\* A step keeps the report at a stage that its parts fit.
LEMMA PlacedStep ==
    ASSUME Stationed, Placed, [ONext]_ovars
    PROVE  Placed'
  <1>1. /\ None \notin Stages /\ MaxMoves \in Nat /\ NoReport.active = None
        /\ Stages = {"state", "shelf", "active", "startup"}
    BY OwnershipAssumption DEF NoReport, Stages
  <1>2. \A r : [report EXCEPT !.state = r].active = report.active
    BY DEF Stationed
  <1>3. CASE UNCHANGED ovars
    BY <1>3 DEF ovars, own, Placed, NoReport, Nothing
  <1>4. CASE Next /\ Beside
    <2>1. UNCHANGED <<stage, report>> /\ moves' \in 0..MaxMoves
      BY <1>1, <1>4 DEF Beside, Placed
    <2> QED
      BY <2>1 DEF Placed, NoReport, Nothing
  <1>5. CASE Detect
    BY <1>1, <1>5 DEF Detect, Placed, NoReport
  <1>6. CASE ReadState
    BY <1>1, <1>2, <1>6 DEF ReadState, Placed
  <1>7. CASE ReadProfiles
    BY <1>1, <1>7 DEF ReadProfiles, Placed
  <1>8. CASE FindActive
    BY <1>1, <1>8 DEF FindActive, Placed
  <1>9. CASE Conclude
    BY <1>1, <1>9 DEF Conclude, Placed, NoReport, Nothing
  <1> QED
    BY <1>3, <1>4, <1>5, <1>6, <1>7, <1>8, <1>9 DEF ONext, BuildReport

\* Every variable keeps its type, with what was read of the file among them; the
\* report is where its parts say; what was applied is what is stored; nothing that
\* is stored is dropped without a notice.
THEOREM TypesAndStages == OSpec => []OInv
  <1>1. OInit => TypeOK /\ Placed
    <2> SUFFICES ASSUME OInit PROVE TypeOK /\ Placed
      OBVIOUS
    <2>1. IsDirectory(disk) /\ limit \in Limits /\ inForce \in [Features -> Values]
      BY ProfilesAssumption DEF OInit, Init
    <2>2. Nothing \in [Features -> Values \cup {None}] /\ 1 \in 0..(Len(Keys) + 1)
      BY Constants DEF Nothing
    <2>3. Placed
      BY OwnershipAssumption DEF OInit, Placed, NoReport
    <2>4. notices \in BOOLEAN /\ shelf \in [Slots -> Stored] /\ stored \in Stored
      BY EmptySlots DEF OInit, Init
    <2> QED
      BY <2>1, <2>2, <2>3, <2>4 DEF OInit, Init, TypeOK
  <1>2. TypeOK /\ RInv /\ RInv' /\ [ONext]_ovars => TypeOK'
    <2> SUFFICES ASSUME TypeOK, RInv, RInv', [ONext]_ovars PROVE TypeOK'
      OBVIOUS
    <2>1. Sane /\ Sane' /\ SafeIsStored
      BY DEF RInv, PInv
    <2>2. CASE UNCHANGED ovars
      BY <2>2 DEF ovars, vars, device, work, TypeOK, IsDirectory
    <2> QED
      BY <2>1, <2>2, TypeStep, TypeStepReport DEF ONext
  <1>3. RInv /\ Placed /\ [ONext]_ovars => Placed'
    BY PlacedStep DEF RInv
  <1>4. RInv /\ TypeOK /\ Placed => OInv
    BY DEF RInv, PInv, Stationed, Placed, OInv, IInv, OTypeOK, ReportInStages
  <1> QED
    BY <1>1, <1>2, <1>3, <1>4, ReportInvariant, PTL DEF OSpec

\* read() reports of every directory, however often the file is rewritten, what the
\* last line for each key says.
THEOREM SnapshotsAreTheFile == OSpec => []SnapshotIsTheFile
  <1>1. OInv => SnapshotIsTheFile
    BY ReaderIsRight DEF OInv, IInv, TypeOK, SnapshotIsTheFile
  <1> QED
    BY <1>1, TypesAndStages, PTL

-----------------------------------------------------------------------------
(* The slot that is named.                                                 *)

\* The slots that were in force at a moment of the call, the present one included.
Witnessed == matched \cup MatchesOn(Read(disk).slots)

\* The file is read, and the applied state is still to be read.
Looking == op = "list" \/ stage = "active"

\* A slot that was read is still what the file says, or has been in force since.
Remembered ==
    /\ Looking => \A i \in Slots : shelf[i] = Read(disk).slots[i] \/ i \in Witnessed
    /\ report.active # None => report.active \in Witnessed

\* The step of NamedWasActive.
Names ==
    answer' # None /\ answer'.kind \in {"list", "report"} =>
        (answer'.active # None => answer'.active \in Witnessed)

\* The slot that is marked has been in force.
LEMMA MarkedIsWitnessed ==
    ASSUME Looking, Remembered, ActiveOn(shelf) # None
    PROVE  ActiveOn(shelf) \in Witnessed
  <1>1. ActiveOn(shelf) \in MatchesOn(shelf) /\ ActiveOn(shelf) \in Slots
    BY ActiveIsSole
  <1> QED
    BY <1>1 DEF Remembered, Witnessed, MatchesOn, PresentIn

\* Of the steps beside the report, only ListMarks names a slot.
LEMMA OnlyListNames ==
    ASSUME Next, ~ListMarks, answer' # None, answer'.kind \in {"list", "report"}
    PROVE  answer'.active = None
  <1> USE DEF Error, device, work
  <1>1. answer'.kind = "list"
    BY NextReports
  <1>2. ~Environment
    BY DEF Environment, Toggle, UserSets, UserSaves
  <1>3. CASE \E i \in Slots : Load(i)
    BY <1>1, <1>3 DEF Load, Begin, Refuse
  <1>4. CASE Reset
    BY <1>1, <1>4 DEF Reset, ReadShelf, Refuse
  <1>5. CASE List
    BY <1>1, <1>5 DEF List, ReadShelf, Refuse, Listing
  <1>6. CASE ResetFindsSlot
    BY <1>1, <1>6 DEF ResetFindsSlot, Begin, Finish
  <1>7. CASE Skip \/ Validate \/ ApplyOne \/ ApplyFails \/ Disconnect \/ NothingApplied \/ Verify
    BY <1>1, <1>7 DEF Skip, Validate, ApplyOne, ApplyFails, Disconnect, NothingApplied, Verify, Finish, Applying
  <1> QED
    BY <1>2, <1>3, <1>4, <1>5, <1>6, <1>7 DEF Next, Work

\* A listing starts with the slots of the file.
LEMMA LookingStarts ==
    ASSUME Next, ~Environment, op' = "list"
    PROVE  op = None /\ shelf' = Read(disk).slots /\ disk' = disk
  <1> USE DEF Error, device, work
  <1>1. None # "list"
    BY ProfilesAssumption
  <1>2. CASE \E i \in Slots : Load(i)
    BY <1>1, <1>2 DEF Load, Begin, Refuse
  <1>3. CASE Reset
    BY <1>1, <1>3 DEF Reset, ReadShelf, Refuse
  <1>4. CASE List
    BY <1>1, <1>4 DEF List, ReadShelf, Refuse
  <1>5. CASE ResetFindsSlot \/ ListMarks
    BY <1>1, <1>5 DEF ResetFindsSlot, ListMarks, Begin, Finish
  <1>6. CASE Skip \/ Validate \/ ApplyOne \/ ApplyFails \/ Disconnect \/ NothingApplied \/ Verify
    BY <1>1, <1>6 DEF Skip, Validate, ApplyOne, ApplyFails, Disconnect, NothingApplied, Verify, Finish, Applying
  <1> QED
    BY <1>2, <1>3, <1>4, <1>5, <1>6 DEF Next, Work

\* While a slot is looked for, only the environment moves, and ListMarks ends it.
LEMMA LookingOnly ==
    ASSUME Next, ~Environment, op \in {"list", "report"}
    PROVE  ListMarks
  BY ProfilesAssumption
     DEF Next, Work, Load, Reset, List, ResetFindsSlot, Skip, Validate, ApplyOne, ApplyFails, Disconnect,
         NothingApplied, Verify, Applying

\* The user moves a slider or saves a slot while a slot is looked for.
LEMMA RememberedMeanwhile ==
    ASSUME TypeOK, Stationed, Placed, Remembered, Environment, Beside
    PROVE  Remembered'
  <1> USE DEF device, work
  <1>1. IsDirectory(disk) /\ inForce \in [Features -> Values] /\ MatchesOn(Read(disk).slots) \subseteq Slots
    BY DEF TypeOK, MatchesOn, PresentIn
  <1>2. UNCHANGED <<op, shelf, stage, report>>
    BY DEF Environment, Toggle, UserSets, UserSaves, Beside
  <1>3. CASE Toggle
    BY <1>2, <1>3 DEF Toggle, Remembered, Looking, Witnessed, MatchesOn, Matches, Near, FanIsFixed
  <1>4. CASE op \notin {"list", "report"}
    <2>1. ~Looking /\ report.active = None
      BY <1>4, OwnershipAssumption DEF Looking, Stationed, Placed, NoReport, Stages
    <2> QED
      BY <1>2, <2>1 DEF Remembered, Looking
  <1>5. ASSUME Remember, op \in {"list", "report"} PROVE matched' = Witnessed
    BY <1>5 DEF Remember, Witnessed
  <1>6. CASE op \in {"list", "report"} /\ \E k \in Features, v \in Values : UserSets(k, v)
    <2>1. matched' = Witnessed /\ disk' = disk
      BY <1>5, <1>6 DEF UserSets
    <2> QED
      BY <1>2, <2>1 DEF Remembered, Looking, Witnessed
  <1>7. ASSUME op \in {"list", "report"}, NEW j \in Saves, UserSaves(j) PROVE Remembered'
    <2>1. matched' = Witnessed /\ inForce' = inForce
      BY <1>5, <1>7 DEF UserSaves
    <2>2. j \in Slots
      BY ProfilesAssumption
    <2>3. /\ \A i \in Slots : i # j => Read(disk').slots[i] = Read(disk).slots[i]
          /\ j \in MatchesOn(Read(disk').slots)
      BY <1>1, <1>7, <2>2, Saved
    <2>4. MatchesOn(Read(disk).slots)' = MatchesOn(Read(disk').slots)
      BY <2>1 DEF MatchesOn, Matches, Near, FanIsFixed
    <2>5. Witnessed' = Witnessed \cup MatchesOn(Read(disk').slots)
      BY <2>1, <2>4 DEF Witnessed
    <2>6. Read(disk)'.slots = Read(disk').slots
      OBVIOUS
    <2>7. ASSUME Looking', NEW i \in Slots
          PROVE  shelf'[i] = Read(disk').slots[i] \/ i \in Witnessed'
      <3>1. shelf[i] = Read(disk).slots[i] \/ i \in Witnessed
        BY <1>2, <2>7 DEF Remembered, Looking
      <3> QED
        BY <1>2, <2>3, <2>5, <3>1
    <2>8. report'.active # None => report'.active \in Witnessed'
      BY <1>2, <2>5 DEF Remembered
    <2> QED
      BY <2>7, <2>8 DEF Remembered
  <1> QED
    BY <1>3, <1>4, <1>6, <1>7 DEF Environment

\* A step of the operations or of the report.
LEMMA RememberedStep ==
    ASSUME TypeOK, Stationed, Placed, Remembered, [ONext]_ovars
    PROVE  Remembered'
  <1> USE DEF device, work
  <1>1. /\ None \notin Stages /\ NoReport.active = None /\ None \notin {"list", "report"}
        /\ Stages = {"state", "shelf", "active", "startup"}
    BY OwnershipAssumption, ProfilesAssumption DEF NoReport, Stages
  <1>2. CASE UNCHANGED ovars
    BY <1>2 DEF ovars, vars, own, Remembered, Looking, Witnessed, MatchesOn, Matches, Near, FanIsFixed
  <1>3. CASE Environment /\ Beside
    BY <1>3, RememberedMeanwhile
  <1>4. CASE Next /\ ~Environment /\ Beside
    <2>1. UNCHANGED <<stage, report>>
      BY <1>4 DEF Beside
    <2>2. CASE op \in {"list", "report"}
      <3>1. op = "list" /\ op' = None
        BY <1>4, <2>2, LookingOnly DEF ListMarks, Finish
      <3>2. ~Looking' /\ report'.active = None
        BY <1>1, <2>1, <3>1 DEF Looking, Stationed, Placed
      <3> QED
        BY <3>2 DEF Remembered
    <2>3. CASE op \notin {"list", "report"}
      <3>1. stage' # "active" /\ report'.active = None
        BY <1>1, <2>1, <2>3 DEF Stationed, Placed
      <3>2. CASE op' = "list"
        <4>1. shelf' = Read(disk').slots
          BY <1>4, <3>2, LookingStarts
        <4> QED
          BY <3>1, <4>1 DEF Remembered
      <3>3. CASE op' # "list"
        BY <3>1, <3>3 DEF Remembered, Looking
      <3> QED
        BY <3>2, <3>3
    <2> QED
      BY <2>2, <2>3
  <1>5. CASE Detect
    BY <1>1, <1>5 DEF Detect, Remembered, Looking, NoReport
  <1>6. ASSUME BuildReport PROVE op = "report" /\ stage # None
    BY <1>1, <1>6 DEF BuildReport, ReadState, ReadProfiles, FindActive, Conclude, Stationed
  <1>7. CASE ReadState
    <2>1. report'.active = report.active /\ ~Looking'
          /\ UNCHANGED <<disk, inForce, matched>>
      BY <1>6, <1>7 DEF ReadState, Looking, Stationed, BuildReport
    <2> QED
      BY <2>1 DEF Remembered, Witnessed, MatchesOn, Matches, Near, FanIsFixed
  <1>8. CASE ReadProfiles
    <2>1. shelf' = Read(disk').slots /\ UNCHANGED <<disk, inForce, matched, report>>
      BY <1>8 DEF ReadProfiles
    <2> QED
      BY <2>1 DEF Remembered, Witnessed, MatchesOn, Matches, Near, FanIsFixed
  <1>9. CASE FindActive
    <2>1. /\ report'.active = ActiveOn(shelf) /\ ~Looking'
          /\ UNCHANGED <<disk, inForce, matched>>
      BY <1>6, <1>9 DEF FindActive, Looking, Stationed, BuildReport
    <2>2. ActiveOn(shelf) # None => ActiveOn(shelf) \in Witnessed
      BY <1>9, MarkedIsWitnessed DEF FindActive, Looking
    <2> QED
      BY <2>1, <2>2 DEF Remembered, Witnessed, MatchesOn, Matches, Near, FanIsFixed
  <1>10. CASE Conclude
    <2>1. op' = None /\ stage' = None /\ report'.active = None
      BY <1>1, <1>10 DEF Conclude, Finish
    <2> QED
      BY <1>1, <2>1 DEF Remembered, Looking
  <1> QED
    BY <1>2, <1>3, <1>4, <1>5, <1>7, <1>8, <1>9, <1>10 DEF ONext, BuildReport

\* A step that names a slot names one that was in force.
LEMMA NamesStep ==
    ASSUME Stationed, Remembered, ONext
    PROVE  Names
  <1>1. CASE Next /\ ~ListMarks
    BY <1>1, OnlyListNames DEF Names
  <1>2. CASE ListMarks
    <2>1. answer' = Listing(shelf, ActiveOn(shelf)) /\ op = "list"
      BY <1>2 DEF ListMarks, Finish
    <2> QED
      BY <2>1, MarkedIsWitnessed DEF Names, Listing, Looking
  <1>3. CASE Detect \/ ReadState \/ ReadProfiles \/ FindActive
    BY <1>3 DEF Detect, ReadState, ReadProfiles, FindActive, Names
  <1>4. CASE Conclude
    <2>1. answer'.active = report.active
      BY <1>4 DEF Conclude, Finish
    <2> QED
      BY <2>1 DEF Remembered, Names
  <1> QED
    BY <1>1, <1>2, <1>3, <1>4 DEF ONext, BuildReport

\* The slot that get_profiles or a report names as active was in force at a moment
\* of the call, however the user moves sliders and saves slots in between.
THEOREM NamedWasAlwaysActive == OSpec => NamedWasActive
  <1>1. OInit => Remembered
    BY ProfilesAssumption, OwnershipAssumption
       DEF OInit, Init, Remembered, Looking, NoReport, Stages
  <1>2. OInv => TypeOK /\ Placed
    BY DEF OInv, IInv, OTypeOK, ReportInStages, Placed
  <1>3. RInv /\ TypeOK /\ Placed /\ Remembered /\ [ONext]_ovars => Remembered'
    BY RememberedStep DEF RInv
  <1>4. RInv /\ Remembered /\ [ONext]_ovars
            => [ (answer' # answer /\ answer' # None /\ answer'.kind \in {"list", "report"}) =>
                    (answer'.active # None =>
                        answer'.active \in matched \cup MatchesOn(Read(disk).slots)) ]_ovars
    BY NamesStep DEF RInv, Names, Witnessed
  <1> QED
    BY <1>1, <1>2, <1>3, <1>4, TypesAndStages, ReportInvariant, PTL DEF OSpec, NamedWasActive

-----------------------------------------------------------------------------
(* How many steps an operation takes: what liveness needs besides fairness. *)

Counted == Left \in 0..(2 * Len(Keys) + 4) /\ (Left = 0 <=> op = None)

\* The operation's steps lower the count, and those of the user and of Afterburner
\* leave it alone.
Descends ==
    op # None =>
        \/ Left' < Left
        \/ UNCHANGED <<op, next, shelf, stored, safe, applied, notices, stage, report>>

LEMMA LeftIsCounted == OInv => Counted
  <1> SUFFICES ASSUME OInv PROVE Counted
    OBVIOUS
  <1>1. /\ op \in {"load", "reset", "list", "report", None} /\ next \in 0..(Len(Keys) + 1)
        /\ Len(Keys) \in Nat /\ safe # None => next <= Len(Keys)
    BY Constants DEF OInv, IInv, TypeOK, SafeIsStored
  <1>2. op = "report" => stage \in {"state", "shelf", "active", "startup"}
    BY DEF OInv, OTypeOK, ReportInStages, Stages
  <1>3. None \notin {"load", "reset", "list", "report"}
    BY ProfilesAssumption
  <1> QED
    BY <1>1, <1>2, <1>3 DEF Counted, Left

LEMMA WorkDescends ==
    ASSUME OInv, OInv', op # None, (Work /\ Beside) \/ BuildReport
    PROVE  Left' < Left
  <1>1. /\ Len(Keys) \in Nat /\ next \in Nat
        /\ None \notin {"load", "reset", "list", "report"}
        /\ op = "report" <=> stage # None
        /\ safe # None => Applying /\ next <= Len(Keys)
    BY Constants, ProfilesAssumption DEF OInv, IInv, TypeOK, ReportInStages, SafeIsStored
  <1>2. None \notin Stages
    BY OwnershipAssumption
  <1>3. CASE op' = None
    <2>1. Left' = 0
      BY <1>1, <1>3 DEF Left
    <2>2. Left \in Nat /\ Left # 0
      BY <1>1, LeftIsCounted DEF Counted
    <2> QED
      BY <2>1, <2>2
  <1>4. CASE op' # None /\ Work
    <2>1. /\ op \in {"load", "reset"} /\ op' = op
          /\ \/ next' = next + 1 /\ safe' = None
             \/ next = 0 /\ next' = 1 /\ safe = None /\ safe' = None
             \/ next' = next /\ safe = None /\ safe' # None
      <3>1. CASE ResetFindsSlot
        BY <1>1, <1>4, <3>1 DEF ResetFindsSlot, Begin, Finish, Applying
      <3>2. CASE Skip \/ ApplyOne
        BY <1>1, <1>4, <3>2 DEF Skip, ApplyOne, Applying
      <3>3. CASE Validate
        <4>1. safe' \in Values \cup {None} /\ safe' = Clamp(stored[Key]) /\ Usable
              /\ limit \in Values
          BY <3>3, ProfilesAssumption DEF Validate, OInv, IInv, TypeOK
        <4>2. safe' # None
          BY <4>1, Constants DEF Usable, Clamp
        <4> QED
          BY <3>3, <4>2 DEF Validate, Applying
      <3>4. CASE ListMarks \/ ApplyFails \/ Disconnect \/ NothingApplied \/ Verify
        BY <1>4, <3>4 DEF ListMarks, ApplyFails, Disconnect, NothingApplied, Verify, Finish
      <3> QED
        BY <1>4, <3>1, <3>2, <3>3, <3>4 DEF Work
    <2>2. CASE next' = next + 1 /\ safe' = None
      <3>1. Left' = 2 * (Len(Keys) + 1 - (next + 1)) + 1
        BY <1>1, <2>1, <2>2 DEF Left
      <3>2. Left = 2 * (Len(Keys) + 1 - next) + (IF safe = None THEN 1 ELSE 0)
        BY <1>1, <2>1 DEF Left
      <3> QED
        BY <1>1, <3>1, <3>2
    <2>3. CASE next = 0 /\ next' = 1 /\ safe = None /\ safe' = None
      BY <1>1, <2>1, <2>3 DEF Left
    <2>4. CASE next' = next /\ safe = None /\ safe' # None
      BY <1>1, <2>1, <2>4 DEF Left
    <2> QED
      BY <2>1, <2>2, <2>3, <2>4
  <1>5. CASE op' # None /\ BuildReport
    <2>1. op' = op /\ op = "report"
      BY <1>1, <1>2, <1>5 DEF BuildReport, ReadState, ReadProfiles, FindActive, Conclude, Finish,
                              work, Stages
    <2> QED
      BY <1>1, <1>5, <2>1 DEF BuildReport, ReadState, ReadProfiles, FindActive, Conclude, Finish, Left
  <1> QED
    BY <1>3, <1>4, <1>5

\* An operation takes at most two steps for each control and four more, whatever the
\* files hold, the interface does and the user saves: none tries a control again, and
\* none waits.
THEOREM OperationsCountDown == OSpec => []Counted /\ OperationsShorten
  <1>1. OInv => Counted
    BY LeftIsCounted
  <1>2. OInv /\ OInv' /\ [ONext]_ovars => [Descends]_ovars
    <2> SUFFICES ASSUME OInv, OInv', ONext, op # None PROVE Descends
      BY DEF Descends
    <2>1. CASE (Work /\ Beside) \/ BuildReport
      BY <2>1, WorkDescends DEF Descends
    <2>2. CASE Environment /\ Beside
      BY <2>2 DEF Environment, Toggle, UserSets, UserSaves, Beside, work, Descends
    <2>3. ~(\E i \in Slots : Load(i)) /\ ~Reset /\ ~List /\ ~Detect
      BY DEF Load, Reset, List, Detect
    <2> QED
      BY <2>1, <2>2, <2>3 DEF ONext, Next
  <1>3. [Descends]_ovars => [op # None =>
            \/ Left' < Left
            \/ UNCHANGED <<op, next, shelf, stored, safe, applied, notices, stage, report>>]_ovars
    BY DEF Descends
  <1> QED
    BY <1>1, <1>2, <1>3, TypesAndStages, PTL DEF OSpec, OperationsShorten
=============================================================================
