----------------------------- MODULE MCLz4Decoders -----------------------------
(* Instances of Lz4Decoders for TLC.                                       *)
EXTENDS Lz4Decoders

LOCAL INSTANCE SequencesExt

CONSTANTS
  Blocks,       (* What the caller has, and how many bytes it stands for.  *)
  Cuts,         (* How many of its bytes are missing,                      *)
  Rooms,        (* how much more or less room there is,                    *)
  Dictionaries  (* what comes before it.                                   *)

MCTrailer == [i \in 1 .. 20 |-> 17]

MCInit ==
  /\ \E b \in Blocks, cut \in Cuts, room \in Rooms, d \in Dictionaries :
       /\ cut <= Len(b.bytes) /\ 0 <= b.size + room
       /\ srcSize = Len(b.bytes) - cut
       /\ input = SubSeq(b.bytes, 1, srcSize) \o MCTrailer
       /\ capacity = b.size + room
       /\ prefix = d.prefix /\ ext = d.ext
  /\ DecodersInit

MCSpec == MCInit /\ [][DecodersNext]_allVars
-----------------------------------------------------------------------------
(* Sequences of literals, distance and match; then the last literals.      *)
MCLiterals(n) == [i \in 1 .. n |-> (i % 7) + 1]

MCSequence(s) ==
  <<Token(s[1], s[3] - MINMATCH)>> \o Extension(s[1]) \o MCLiterals(s[1])
  \o LE16(s[2]) \o Extension(s[3] - MINMATCH)

MCBlock(sequences, last) ==
  [bytes |-> FlattenSeq([i \in DOMAIN sequences |-> MCSequence(sequences[i])])
             \o <<Token(last, 0)>> \o Extension(last) \o MCLiterals(last),
   size  |-> FoldLeft(LAMBDA n, s : n + s[1] + s[3], last, sequences)]

(* One match, near the end or far from it, at any small distance.          *)
MCOneMatch ==
  {MCBlock(<<<<20, off, len>>>>, last) :
     off \in 0 .. 9 \cup {16, 22}, len \in {4, 18, 19, 30}, last \in {5, 9, 70}}

(* Two matches, of which the first is far from the end.                    *)
MCTwoMatches ==
  {MCBlock(<<<<lits, 6, len>>, <<lits, 12, len>>>>, last) :
     lits \in {2, 14, 15, 40}, len \in {4, 12, 19}, last \in {0, 5, 70}}

(* Too few literals behind the last match.                                 *)
MCShortEnd ==
  {MCBlock(<<<<lits, 8, len>>>>, last) :
     lits \in {13, 14}, len \in {17, 18}, last \in 0 .. 4}

(* One byte is not as it was.                                              *)
MCChanged ==
  LET b == MCBlock(<<<<15, 3, 19>>, <<1, 9, 5>>>>, 16)
  IN  {[b EXCEPT !.bytes[i] = v] : i \in DOMAIN b.bytes, v \in {0, 15, 240, 255}}

(* Only literals, and a last length of which the rest is missing.          *)
MCLiteralsOnly ==
  {MCBlock(<<>>, last) : last \in {0, 2, 15}}
  \cup {[bytes |-> MCSequence(<<2, 2, len>>) \o <<240, 255, 3>>, size |-> len + more] :
          len \in {4, 70}, more \in {20, 100}}

(* Bytes that are no block.                                                *)
MCAnyBytes ==
  {[bytes |-> b, size |-> n] :
     b \in [1 .. 4 -> {0, 1, 17, 240, 255}], n \in {5, 20}}

MCBlocks == MCShortEnd \cup MCOneMatch \cup MCTwoMatches \cup MCChanged \cup MCLiteralsOnly \cup MCAnyBytes
MCCuts == {0, 1, 2, 6}
MCRooms == {-1, 0, 70}
MCDictionaries ==
  {[prefix |-> <<>>, ext |-> <<>>], [prefix |-> <<8, 9>>, ext |-> <<10, 11, 12>>]}
MCTargets == {0, 3, 21, 40, 90}
MCUnset == 999
MCOld == 998
MCForeign == 997
==============================================================================
