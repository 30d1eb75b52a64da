------------------------------ MODULE ProfileFile ------------------------------
(***************************************************************************)
(* ProfileFileReader (afterburner/integration/profiles.py): which file of  *)
(* the Profiles directory belongs to the GPU, and what the tolerant parse  *)
(* makes of its lines.  Nothing here is ever written.                      *)
(***************************************************************************)
EXTENDS Naturals, FiniteSets, Sequences

CONSTANTS
    Slots,          \* the sections [Profile1] to [Profile5]
    Startup,        \* the section [Startup]
    Elsewhere,      \* any other section: [Defaults], [Settings], ..., [profile1]
                    \* too, since case counts
    SettingKeys,    \* the keys of a section, Format aside
    Format,         \* the key Format
    Texts,          \* what may follow a key, other than nothing
    Empty,          \* nothing follows the key
    Cards,          \* names of per-GPU files
    Card,           \* the instance id the reader was given; None: no id
    Undecodable,    \* a file that cannot be opened or decoded
    None            \* no section, no text, no file

Sections == Slots \cup {Startup, Elsewhere}

\* A header without its closing bracket has no name.  Comments, lines without
\* '=' and lines without a key are junk.
Header(n)     == [tag |-> "header", name |-> n]
Setting(k, t) == [tag |-> "setting", key |-> k, text |-> t]
Junk          == [tag |-> "junk"]

Line ==
    {Header(n) : n \in Sections \cup {None}} \cup {Junk}
        \cup {Setting(k, t) : k \in SettingKeys \cup {Format}, t \in Texts \cup {Empty}}

Contents == Seq(Line) \cup {Undecodable}

\* A directory: is it there and can it be listed, and its per-GPU files.
Directory(listing, files) == [listing |-> listing, files |-> files]

IsDirectory(d) ==
    /\ d = Directory(d.listing, d.files)
    /\ d.listing \in {"missing", "refused", "listed"}
    /\ DOMAIN d.files \subseteq Cards
    /\ d.files \in [DOMAIN d.files -> Contents]

ASSUME ProfileFileAssumption ==
    /\ IsFiniteSet(Cards)
    /\ Undecodable \notin Seq(Line)
    /\ Empty \notin Texts

-----------------------------------------------------------------------------
(* The parse.                                                              *)

\* The section that the lines after the first i belong to.
CurrentAfter(lines) ==
    LET current[i \in 0..Len(lines)] ==
            IF i = 0 THEN None
            ELSE IF lines[i].tag = "header" THEN lines[i].name
            ELSE current[i - 1]
    IN  current

\* Mutant of Assign: the first of two equal keys is kept.
AssignFirst(text, line, k) ==
    IF line.tag = "setting" /\ line.key = k /\ text = None THEN line.text ELSE text

\* What a line of its section leaves of the text of key k: of two equal keys the
\* last is kept.
Assign(text, line, k) ==
    IF line.tag = "setting" /\ line.key = k THEN line.text ELSE text

\* _parse_ini, the text of key k in section n: sections of one name are merged, and
\* what precedes the first header or follows a broken one is skipped.
ParsedText(lines, n, k) ==
    LET text[i \in 0..Len(lines)] ==
            IF i = 0 THEN None
            ELSE IF CurrentAfter(lines)[i - 1] = n
            THEN Assign(text[i - 1], lines[i], k)
            ELSE text[i - 1]
    IN  text[Len(lines)]

ParseIni(lines) ==
    [n \in Sections |-> [k \in SettingKeys |-> ParsedText(lines, n, k)]]

\* The populated keys of a section, Format excluded.
Populated(section) ==
    [k \in SettingKeys |-> IF section[k] = Empty THEN None ELSE section[k]]

Blank == [k \in SettingKeys |-> None]

ExtractSlots(sections) == [i \in Slots |-> Populated(sections[i])]

ExtractStartup(sections) == Populated(sections[Startup]) # Blank

-----------------------------------------------------------------------------
(* The scan of the directory.                                              *)

\* _attribute: the file with the given id or, without an id, the only one.
Attributed(files) ==
    IF Card # None THEN DOMAIN files \cap {Card}
    ELSE IF Cardinality(DOMAIN files) = 1 THEN DOMAIN files
    ELSE {}

ReaderState(disk) ==
    CASE disk.listing = "missing" -> "no_directory"
      [] disk.listing = "refused" -> "unparseable"
      [] OTHER ->
            IF Attributed(disk.files) = {}
            THEN IF Cardinality(DOMAIN disk.files) > 1
                 THEN "ambiguous_gpu_file" ELSE "no_gpu_file"
            ELSE IF \E c \in Attributed(disk.files) : disk.files[c] = Undecodable
                 THEN "unparseable" ELSE "available"

\* The lines of the attributed file.
LinesOf(disk) == disk.files[CHOOSE c \in Attributed(disk.files) : TRUE]

NoSlots == [i \in Slots |-> Blank]

\* ProfileFileReader.read
Read(disk) ==
    LET state == ReaderState(disk)
    IN  IF state # "available"
        THEN [state |-> state, slots |-> NoSlots, startup |-> FALSE]
        ELSE LET sections == ParseIni(LinesOf(disk))
             IN  [state   |-> state,
                  slots   |-> ExtractSlots(sections),
                  startup |-> ExtractStartup(sections)]

\* A slot is present if any of its keys is populated.
PresentIn(slots) == {i \in Slots : slots[i] # Blank}

-----------------------------------------------------------------------------
(* What a file means, without the parser.                                  *)

Latest(indices) == CHOOSE i \in indices : \A j \in indices : j <= i

\* The section that line i of the file stands in: the last header above it.
SectionAt(lines, i) ==
    LET headers == {j \in 1..(i - 1) : lines[j].tag = "header"}
    IN  IF headers = {} THEN None ELSE lines[Latest(headers)].name

Setters(lines, n, k) ==
    {i \in 1..Len(lines) :
        lines[i].tag = "setting" /\ lines[i].key = k /\ SectionAt(lines, i) = n}

\* The text of key k in section n: that of the last line which sets it.
Meaning(lines, n, k) ==
    LET setters == Setters(lines, n, k)
        last    == lines[Latest(setters)].text
    IN  IF setters = {} \/ last = Empty THEN None ELSE last

\* The slots and the startup flag that read() reports are what the last line for
\* each key says, under headers that are repeated, broken or unknown; without an
\* attributed, readable file there are none.
ReadsTheFile(disk) ==
    LET snapshot == Read(disk)
    IN  IF snapshot.state = "available"
        THEN /\ \A i \in Slots, k \in SettingKeys :
                    snapshot.slots[i][k] = Meaning(LinesOf(disk), i, k)
             /\ snapshot.startup <=>
                    \E k \in SettingKeys : Meaning(LinesOf(disk), Startup, k) # None
        ELSE PresentIn(snapshot.slots) = {} /\ ~snapshot.startup
================================================================================
