----------------------------- MODULE MCMonitoring -----------------------------
(* Small structures and DWORDs of three bits: a good header, and those that  *)
(* differ from it in one field or in two.                                    *)
EXTENDS Monitoring

CONSTANTS temp, fan1, fan2

MCFields     == {"temperature", "fan"}
MCCandidates == [temperature |-> <<temp>>, fan |-> <<fan1, fan2>>]

Good == [sig |-> "MAHM", supported |-> TRUE, size |-> 2, n |-> 1, esize |-> 3,
         gpus |-> 1, gsize |-> 2]

\* Good declares 7 bytes, 10 with two entries, 8 with two entries and no GPU entry.
MCHeaders ==
    {Good,
     [Good EXCEPT !.sig = "other"],
     [Good EXCEPT !.supported = FALSE],
     [Good EXCEPT !.size = 1],
     [Good EXCEPT !.gsize = 3],
     [Good EXCEPT !.n = 0, !.esize = 7],
     [Good EXCEPT !.n = 2],
     [Good EXCEPT !.n = 2, !.gpus = 0, !.gsize = 7]}

Row(g, s, d) == [gpu |-> g, src |-> s, data |-> d]

\* A GPU with two fans, and one among others.
MCTables ==
    {<<Row(0, fan1, 1), Row(0, fan2, 1)>>,
     <<Row(1, fan1, 1), Row(0, temp, 1)>>}
=============================================================================
