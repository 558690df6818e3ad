-------------------------------- MODULE MCLz4 --------------------------------
(* Instances of Lz4RoundTrip for TLC.                                      *)
EXTENDS Lz4RoundTrip

MCRun(len) == [i \in 1 .. len |-> 0]
MCAlternating(len) == [i \in 1 .. len |-> i % 2]
MCHalves(len) == [i \in 1 .. len |-> IF i <= len \div 2 THEN i % 2 ELSE (i + 1) % 3]

(* No byte twice in a row of `period`, and then all of them again.         *)
MCAgain(period, len) == [i \in 1 .. len |-> (i - 1) % period]

MCSources ==
  {MCRun(k) : k \in {0, 1, 5, 6, 9, 15}} \cup {MCHalves(14), MCAlternating(13)}
  \cup {MCAgain(16, 23), MCAgain(15, 32), MCRun(33)}
MCCapacities == 0 .. 26 \cup {34, 50}

MCUnset == 999
==============================================================================
