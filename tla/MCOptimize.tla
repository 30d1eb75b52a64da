------------------------------ MODULE MCOptimize ------------------------------
(* Small instances of Optimize: full speed is 5 units and thermal steps take  *)
(* 2, so the last one is cut short; two reads a window instead of 30.         *)
EXTENDS Optimize

\* Fans that go up to full speed, with and without a floor.
MCFullRanges == {[min |-> 0, max |-> Full], [min |-> 2, max |-> Full]}

\* A fan whose reported maximum is below full speed.
MCLowRanges == {[min |-> 0, max |-> Full - 1]}
=============================================================================
