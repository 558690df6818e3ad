------------------------------- MODULE MCLz4Hc -------------------------------
(* Instances of Lz4Hc for TLC.                                             *)
EXTENDS Lz4Hc

LOCAL INSTANCE SequencesExt

(* Different bytes with equal numbers: chains of other bytes, too.         *)
MCHash(quad) == (quad[1] + 2 * quad[2] + quad[4]) % 3
MCHashes == 0 .. 2

(* All words of 7 bytes, three times over, with one byte changed or none   *)
(* (at 0): repetitions, short matches before longer ones, matches farther  *)
(* away than a distance can be written.                                    *)
MCChanged(word, at) == [i \in DOMAIN word |-> IF i = at THEN 1 - word[i] ELSE word[i]]

MCWords ==
  {MCChanged(word \o word \o word, at) :
     word \in {<<0>> \o w : w \in [1 .. 6 -> 0 .. 1]}, at \in {0, 11}}

(* Ones with so many zeros between them: matches that end where another,   *)
(* longer one has begun, in all the ways that the hash chain parser tells  *)
(* apart.                                                                  *)
MCGaps ==
  {<<0, 1, 4, 2, 5, 9, 5>>, <<2, 5, 3, 4, 5, 4>>, <<1, 4, 2, 5, 12>>, <<2, 6, 10, 3, 3, 3>>,
   <<0, 1, 2, 1, 2, 2, 1, 1, 2, 1, 1, 1, 1, 1, 1>>, <<0, 2, 1, 3, 2, 2, 3, 3, 3, 0>>,
   <<1, 1, 0, 2, 1, 1, 2, 1, 2, 2, 2, 2>>, <<1, 4, 1, 2, 1, 1, 1, 2, 2, 2, 1>>,
   <<2, 1, 3, 2, 3, 3, 2, 0, 2, 3>>, <<3, 2, 3, 3, 2, 0, 4, 0>>, <<1, 3, 9, 9>>}

MCOnes(gaps) ==
  FlattenSeq([i \in DOMAIN gaps |->
               [k \in 1 .. gaps[i] |-> 0] \o IF i < Len(gaps) THEN <<1>> ELSE <<>>])

(* And one that is too short to be searched by one parser only.            *)
MCSources == {[i \in 1 .. MFLIMIT |-> 0]} \cup MCWords \cup {MCOnes(gaps) : gaps \in MCGaps}

MCCapacities == {10, 40}

(* As level 10, with few candidates, and as level 12; as a low level and   *)
(* as level 9.                                                             *)
MCLevels ==
  {[strat |-> "lz4opt", nbSearches |-> 3, targetLength |-> 6, full |-> FALSE],
   [strat |-> "lz4opt", nbSearches |-> 8, targetLength |-> 11, full |-> TRUE],
   [strat |-> "lz4hc", nbSearches |-> 2, targetLength |-> 16, full |-> FALSE],
   [strat |-> "lz4hc", nbSearches |-> 9, targetLength |-> 16, full |-> FALSE]}
==============================================================================
