------------------------------ MODULE MCProfiles ------------------------------
(* Two slots, two controls with a maximum of 2 or 4 that a restart may change, *)
(* stored values that are clamped to within the tolerance and farther, and up  *)
(* to two per-GPU files.                                                       *)
EXTENDS Ownership

CONSTANTS power, fan, g1, g2

MCKeys        == <<power, fan>>
MCSettingKeys == {power, fan, Mode, Ignored, Other}
MCValues      == {2, 4, 5, 8}
MCTexts       == MCValues \cup {Garbage, Fixed, Automatic}

P1 == Header(1)
P2 == Header(2)

\* Files as Afterburner writes them, and files with every oddity the parser is
\* meant to bear.
MCFiles ==
    { <<P1, Setting(power, 8), P2, Setting(power, 4), Setting(fan, 5), Setting(Mode, Fixed)>>,
      <<Setting(power, 5), P2, Junk, Setting(fan, 2), Setting(power, 2), Setting(power, Garbage),
        Setting(Ignored, 5), Header(Startup), Setting(power, 2), Header(None), Setting(power, 8)>>,
      <<P1, Setting(power, 4), Header(Startup), Setting(Format, 2), P2, Setting(power, 5),
        Setting(power, Empty), Setting(Other, 5), P1, Setting(power, 2), Setting(Mode, Automatic), Setting(fan, 4),
        Header(Elsewhere), Setting(power, 8)>>,
      Undecodable }

MCDisks ==
    { Directory("listed", [c \in {g1} |-> f]) : f \in MCFiles }
    \cup
    { Directory("missing", <<>>), Directory("refused", <<>>), Directory("listed", <<>>),
      Directory("listed", [c \in {g1, g2} |-> <<P1, Setting(power, 4)>>]) }
=============================================================================
