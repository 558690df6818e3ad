-------------------------- MODULE Lz4RoundTripProofs --------------------------
(***************************************************************************)
(* Lz4Encoder stays inside its buffers and, in a buffer of CompressBound   *)
(* bytes, succeeds; and what it writes, Lz4Decoder gives back.  For all    *)
(* inputs, modes, capacities and matches, and all numbers of the format    *)
(* that Lz4Assumption admits.                                              *)
(*                                                                         *)
(* The first part is about the encoder.  The invariant of the second is    *)
(* about a list of pairs, where sequences begin in out and in src.  The    *)
(* encoder adds a pair with every sequence; the decoder goes from pair to  *)
(* pair.  What it needs besides is that no sequence ends too near to the   *)
(* end of what is going to be encoded, which in a buffer that is to be     *)
(* filled is known only when the last literals are cut.                    *)
(***************************************************************************)
EXTENDS Lz4RoundTrip, Lz4FormatTheorems

(* The mode is right for the capacity.                                     *)
ModeFits == limit \in Modes

ReachTypeOK == reach \in [dst : Nat, src : Nat]

(* A call that has not returned was given an input that is not too long,   *)
(* and has reported nothing.                                               *)
NothingReported ==
  pc # "done" => n <= MAX_INPUT_SIZE /\ result = 0 /\ consumed = 0

(* What is written so far: in a buffer of CompressBound bytes a MAXBYTE-th *)
(* more than what it encodes; if the buffer is to be filled, all but the   *)
(* token of the last literals.                                             *)
RoomLeft ==
  pc # "done" =>
    /\ limit = "notLimited" => Len(out) <= anchor + (anchor \div MAXBYTE)
    /\ limit = "fillOutput" => Len(out) + 1 <= capacity

(* The sequence that did not fit can still be written.                     *)
OverflowKnown ==
  pc = "overflow" =>
    /\ limit = "fillOutput"
    /\ over.ip \in anchor .. n - MFLIMIT
    /\ over.m \in Matches(over.ip)

(* The inductive invariant.                                                *)
IInv ==
  /\ TypeOK
  /\ ModeFits
  /\ ReachTypeOK
  /\ NothingReported
  /\ RoomLeft
  /\ OverflowKnown
  /\ StaysInBuffers
  /\ BoundSuffices
-----------------------------------------------------------------------------
(* What a run of literals takes with its token; the room for it, with what *)
(* a copy in whole pieces adds.                                            *)
LEMMA LiteralsCostIs ==
  ASSUME NEW ll \in Nat
  PROVE  LiteralsCost(ll) = 1 + ExtensionSize(ll) + ll
<1> USE Lz4Assumption
<1> DEFINE r == ll - MASK
<1>0. MAXBYTE \in Nat \ {0} /\ MASK \in Nat \ {0} /\ MASK <= MAXBYTE
  BY Numbers
<1>1. CASE ll < MASK
  <2> DEFINE a == ll + MAXBYTE - MASK
  <2>1. a \in Nat /\ a < (0 + 1) * MAXBYTE
    BY <1>0, <1>1
  <2>2. a \div MAXBYTE <= 0 /\ a \div MAXBYTE \in Nat
    <3> HIDE DEF a
    <3> QED
      BY <2>1, <1>0, QuotientAtMost, QuotientTimes
  <2>3. a \div MAXBYTE = 0
    BY <2>2
  <2> QED
    BY <2>3, <1>1 DEF LiteralsCost, ExtensionSize
<1>2. CASE ll >= MASK
  <2>1. r \in Nat /\ ll + MAXBYTE - MASK = r + MAXBYTE
    BY <1>0, <1>2
  <2>2. (r + MAXBYTE) \div MAXBYTE = (r \div MAXBYTE) + 1
    <3> HIDE DEF r
    <3> QED
      BY <2>1, <1>0, QuotientNext
  <2>3. LiteralsCost(ll) = 1 + ((r + MAXBYTE) \div MAXBYTE) + ll
    BY <2>1 DEF LiteralsCost
  <2>4. ExtensionSize(ll) = (r \div MAXBYTE) + 1
    BY <1>0, <1>2 DEF ExtensionSize
  <2> QED
    BY <2>2, <2>3, <2>4
<1> QED
  BY <1>1, <1>2, <1>0

(* Literals are bytes of src.                                              *)
LEMMA LiteralsType ==
  ASSUME src \in Seq(U8), NEW from \in Nat, NEW to \in from .. n
  PROVE  Literals(from, to) \in Seq(U8) /\ Len(Literals(from, to)) = to - from
<1>1. n \in Nat /\ to \in Nat /\ from + 1 \in Int /\ to \in Int
  BY LenProperties DEF n
<1>2. \A i \in from + 1 .. to : src[i] \in U8
  <2>1. \A i \in from + 1 .. to : i \in 1 .. Len(src)
    BY <1>1 DEF n
  <2> QED
    BY <2>1, ElementOfSeq
<1>3. /\ SubSeq(src, from + 1, to) \in Seq(U8)
      /\ Len(SubSeq(src, from + 1, to)) = IF from + 1 <= to THEN to - (from + 1) + 1 ELSE 0
  BY <1>1, <1>2, SubSeqProperties
<1> QED
  BY <1>1, <1>3 DEF Literals

(* The bytes of a sequence.                                                *)
LEMMA SequenceBytes ==
  ASSUME src \in Seq(U8), anchor \in Nat, NEW at \in anchor .. n,
         NEW m, m.offset \in 1 .. DISTANCE_MAX, m.len \in Nat, m.len >= MINMATCH
  PROVE  /\ FirstPart(at, m) \in Seq(U8)
         /\ Len(FirstPart(at, m)) = 1 + ExtensionSize(at - anchor) + (at - anchor)
         /\ Sequence(at, m) \in Seq(U8)
         /\ Len(Sequence(at, m)) = 1 + ExtensionSize(at - anchor) + (at - anchor)
                                     + 2 + ExtensionSize(m.len - MINMATCH)
<1> DEFINE ll == at - anchor
           ml == m.len - MINMATCH
           t == <<Token(ll, ml)>>
<1>1. ll \in Nat /\ ml \in Nat /\ n \in Nat /\ at \in Nat
  BY Lz4Assumption, LenProperties DEF n
<1>2. t \in Seq(U8) /\ Len(t) = 1
  <2>1. Token(ll, ml) \in U8
    BY <1>1, TokenType
  <2> HIDE DEF ll, ml
  <2> QED
    BY <2>1
<1>3. Literals(anchor, at) \in Seq(U8) /\ Len(Literals(anchor, at)) = ll
  BY <1>1, LiteralsType
<1>4. /\ Extension(ll) \in Seq(U8) /\ Len(Extension(ll)) = ExtensionSize(ll)
      /\ Extension(ml) \in Seq(U8) /\ Len(Extension(ml)) = ExtensionSize(ml)
      /\ ExtensionSize(ll) \in Nat /\ ExtensionSize(ml) \in Nat
  <2> HIDE DEF ll, ml
  <2> QED
    BY <1>1, ExtensionType, ExtensionCost
<1>5. LE16(m.offset) \in Seq(U8) /\ Len(LE16(m.offset)) = 2
  BY LE16Type
<1>6. /\ FirstPart(at, m) = (t \o Extension(ll)) \o Literals(anchor, at)
      /\ Sequence(at, m) = (FirstPart(at, m) \o LE16(m.offset)) \o Extension(ml)
  BY DEF FirstPart, Sequence
<1> DEFINE e == Extension(ll)
           f == Extension(ml)
           l == Literals(anchor, at)
           o == LE16(m.offset)
           p == FirstPart(at, m)
           te == t \o e
           po == p \o o
<1> HIDE DEF ll, ml, t, e, f, l, o
<1>7. /\ e \in Seq(U8) /\ Len(e) = ExtensionSize(ll)
      /\ f \in Seq(U8) /\ Len(f) = ExtensionSize(ml)
      /\ l \in Seq(U8) /\ Len(l) = ll
      /\ o \in Seq(U8) /\ Len(o) = 2
      /\ ExtensionSize(ll) \in Nat /\ ExtensionSize(ml) \in Nat
  BY <1>3, <1>4, <1>5 DEF e, f, l, o
<1>8. te \in Seq(U8) /\ Len(te) = Len(t) + Len(e)
  BY <1>2, <1>7, ConcatProperties
<1>9. p \in Seq(U8) /\ Len(p) = Len(te) + Len(l)
  <2>1. p = te \o l
    BY <1>6 DEF e, l
  <2> HIDE DEF te, p
  <2>2. te \o l \in Seq(U8) /\ Len(te \o l) = Len(te) + Len(l)
    BY <1>7, <1>8, ConcatProperties
  <2> QED
    BY <2>1, <2>2
<1> HIDE DEF te, p
<1>10. po \in Seq(U8) /\ Len(po) = Len(p) + Len(o)
  BY <1>7, <1>9, ConcatProperties
<1> HIDE DEF po
<1>11. po \o f \in Seq(U8) /\ Len(po \o f) = Len(po) + Len(f)
  BY <1>7, <1>10, ConcatProperties
<1>12. Sequence(at, m) = po \o f
  BY <1>6 DEF po, p, o, f
<1>13. Len(p) = 1 + ExtensionSize(ll) + ll
  BY <1>1, <1>2, <1>7, <1>8, <1>9
<1>14. /\ Sequence(at, m) \in Seq(U8)
       /\ Len(Sequence(at, m)) = 1 + ExtensionSize(ll) + ll + 2 + ExtensionSize(ml)
  BY <1>1, <1>7, <1>10, <1>11, <1>12, <1>13
<1> QED
  BY <1>9, <1>13, <1>14 DEF ll, ml, p
-----------------------------------------------------------------------------
(* What the invariant says of the numbers.                                 *)
LEMMA InvNumbers ==
  ASSUME IInv
  PROVE  /\ src \in Seq(U8) /\ out \in Seq(U8)
         /\ n \in Nat /\ capacity \in Nat /\ anchor \in Nat /\ anchor <= n
         /\ Len(out) \in Nat
         /\ reach \in [dst : Nat, src : Nat]
         /\ reach.dst \in Nat /\ reach.dst <= capacity
         /\ reach.src \in Nat /\ reach.src <= n
<1>1. src \in Seq(U8) /\ out \in Seq(U8) /\ capacity \in Nat /\ anchor \in 0 .. n
  BY EncoderAssumption DEF IInv, TypeOK
<1>2. n \in Nat /\ Len(out) \in Nat
  BY <1>1, LenProperties DEF n
<1>3. reach \in [dst : Nat, src : Nat] /\ reach.dst <= capacity /\ reach.src <= n
  BY DEF IInv, ReachTypeOK, StaysInBuffers
<1> QED
  BY <1>1, <1>2, <1>3

(* CompressBound is monotonic.                                             *)
LEMMA BoundMono ==
  ASSUME NEW a \in Nat, NEW b \in Nat, a <= b
  PROVE  /\ a \div MAXBYTE <= b \div MAXBYTE
         /\ a + (a \div MAXBYTE) <= b + (b \div MAXBYTE)
         /\ a \div MAXBYTE \in Nat /\ b \div MAXBYTE \in Nat
<1> DEFINE d == b - a
<1>1. MAXBYTE \in Nat \ {0} /\ d \in Nat /\ a + d <= b
  BY Numbers
<1> HIDE DEF d
<1>2. (a \div MAXBYTE) + (d \div MAXBYTE) <= b \div MAXBYTE
  BY <1>1, QuotientSum
<1>3. a \div MAXBYTE \in Nat /\ b \div MAXBYTE \in Nat /\ d \div MAXBYTE \in Nat
  BY <1>1, QuotientTimes
<1> QED
  BY <1>2, <1>3

(* What is written for literals and a match is within the bound of what it *)
(* encodes: the match pays for its token, its distance and its length.     *)
LEMMA CostInBound ==
  ASSUME NEW a \in Nat, NEW ll \in Nat, NEW ml \in Nat, NEW op \in Nat,
         op <= a + (a \div MAXBYTE)
  PROVE  /\ op + 1 + ExtensionSize(ll) + ll <= (a + ll) + ((a + ll) \div MAXBYTE) + 2
         /\ op + 1 + ExtensionSize(ll) + ll + 2 + ExtensionSize(ml)
              <= (a + ll + MINMATCH + ml) + ((a + ll + MINMATCH + ml) \div MAXBYTE)
<1> DEFINE b == a + ll
           c == a + ll + MINMATCH + ml
<1>1. MAXBYTE \in Nat \ {0} /\ MINMATCH \in Nat /\ MINMATCH >= 4
  BY Numbers, Lz4Assumption
<1>2. b \in Nat /\ c \in Nat /\ b <= c /\ a + ll <= b
  BY <1>1
<1>3. c = b + MINMATCH + ml
  BY <1>1
<1>4. /\ (a \div MAXBYTE) + (ll \div MAXBYTE) <= b \div MAXBYTE
      /\ a \div MAXBYTE \in Nat /\ ll \div MAXBYTE \in Nat /\ b \div MAXBYTE \in Nat
  <2> HIDE DEF b, c
  <2> QED
    BY <1>1, <1>2, QuotientSum, QuotientTimes
<1>5. b \div MAXBYTE <= c \div MAXBYTE /\ c \div MAXBYTE \in Nat
  <2> HIDE DEF b, c
  <2> QED
    BY <1>2, BoundMono
<1>7. /\ ExtensionSize(ll) \in Nat /\ ExtensionSize(ll) <= ll \div MAXBYTE + 1
      /\ ExtensionSize(ml) \in Nat /\ ExtensionSize(ml) <= ml
  BY ExtensionCost
<1>8. b = a + ll
  OBVIOUS
<1> HIDE DEF b, c
<1>9. op + 1 + ExtensionSize(ll) + ll <= b + (b \div MAXBYTE) + 2
  BY <1>2, <1>4, <1>7, <1>8
<1>10. op + 1 + ExtensionSize(ll) + ll + 2 + ExtensionSize(ml) <= c + (c \div MAXBYTE)
  BY <1>1, <1>2, <1>3, <1>5, <1>7, <1>9
<1> QED
  BY <1>9, <1>10 DEF b, c

(* How far the history of reads and writes goes after a copy.              *)
LEMMA ReachAfter ==
  ASSUME reach \in [dst : Nat, src : Nat],
         NEW d \in Nat, NEW s \in Nat, NEW e \in Nat,
         NEW c \in Nat, NEW k \in Nat,
         reach.dst <= c, d <= c, e <= c, reach.src <= k, s <= k
  PROVE  LET r == [Reached(d, s) EXCEPT !.dst = Farther(@, e)]
         IN  /\ r \in [dst : Nat, src : Nat]
             /\ r.dst <= c /\ r.src <= k
<1> DEFINE x == Farther(reach.dst, d)
           y == Farther(reach.src, s)
           z == Farther(x, e)
           r == [Reached(d, s) EXCEPT !.dst = Farther(@, e)]
<1>1. x \in Nat /\ x <= c /\ y \in Nat /\ y <= k
  BY DEF Farther
<1>2. z \in Nat /\ z <= c
  BY <1>1 DEF Farther
<1>3. Reached(d, s) = [dst |-> x, src |-> y]
  BY DEF Reached
<1>4. r = [dst |-> z, src |-> y]
  BY <1>3
<1> HIDE DEF x, y, z, r
<1>5. r \in [dst : Nat, src : Nat] /\ r.dst <= c /\ r.src <= k
  BY <1>1, <1>2, <1>4
<1> QED
  BY <1>5 DEF r

-----------------------------------------------------------------------------
(* A copy of the literals in whole pieces, with the token before and the   *)
(* bytes that RoomForLiterals keeps.                                       *)
LEMMA LiteralsStayInside ==
  ASSUME NEW op \in Nat, NEW ll \in Nat, NEW c \in Nat,
         op + 1 + (ll \div MAXBYTE) + ll + (2 + 1 + LASTLITERALS) <= c
  PROVE  /\ WildCopyEnd(op + 1 + ExtensionSize(ll), ll) <= c
         /\ op + 1 + ExtensionSize(ll) + ll + 2 <= c
<1> DEFINE e == ExtensionSize(ll)
           f == op + 1 + e
<1>1. /\ e \in Nat /\ e <= ll \div MAXBYTE + 1 /\ ll \div MAXBYTE \in Nat
      /\ ll = 0 => e = 0
      /\ LASTLITERALS \in Nat \ {0} /\ WILDCOPYLENGTH = LASTLITERALS + 3
  <2>1. /\ MAXBYTE \in Nat \ {0}
        /\ LASTLITERALS \in Nat \ {0} /\ WILDCOPYLENGTH = LASTLITERALS + 3
    BY Numbers, Lz4Assumption
  <2>2. ll \div MAXBYTE \in Nat
    BY <2>1, QuotientTimes
  <2>3. e \in Nat /\ e <= ll \div MAXBYTE + 1 /\ e <= ll
    BY ExtensionCost
  <2> HIDE DEF e
  <2> QED
    BY <2>1, <2>2, <2>3
<1>2. f \in Nat
  BY <1>1
<1>3. /\ WildCopyEnd(f, ll) \in Nat
      /\ WildCopyEnd(f, ll) <= f + ll + WILDCOPYLENGTH
      /\ ll > 0 => WildCopyEnd(f, ll) <= f + ll + WILDCOPYLENGTH - 1
  <2> HIDE DEF f
  <2> QED
    BY <1>2, WildCopyReach
<1>4. f = op + 1 + e
  OBVIOUS
<1> HIDE DEF e, f
<1>5. WildCopyEnd(f, ll) <= c
  BY <1>1, <1>2, <1>3, <1>4
<1>6. op + 1 + e + ll + 2 <= c
  BY <1>1
<1> QED
  BY <1>5, <1>6 DEF e, f

(* The literals are read inside src: the match starts MFLIMIT bytes before *)
(* its end.                                                                *)
LEMMA LiteralsReadInside ==
  ASSUME IInv, NEW at \in anchor .. n - MFLIMIT
  PROVE  /\ at \in Nat /\ at <= n /\ at - anchor \in Nat
         /\ WildCopyEnd(anchor, at - anchor) \in Nat
         /\ WildCopyEnd(anchor, at - anchor) <= n
<1> DEFINE ll == at - anchor
<1>1. /\ MFLIMIT \in Nat /\ WILDCOPYLENGTH \in Nat /\ WILDCOPYLENGTH <= MFLIMIT
      /\ n \in Nat /\ anchor \in Nat
  BY Numbers, Lz4Assumption, InvNumbers
<1>2. at \in Nat /\ at <= n - MFLIMIT /\ ll \in Nat /\ anchor + ll = at
  BY <1>1
<1> HIDE DEF ll
<1>3. WildCopyEnd(anchor, ll) \in Nat /\ WildCopyEnd(anchor, ll) <= anchor + ll + WILDCOPYLENGTH
  BY <1>1, <1>2, WildCopyReach
<1>4. WildCopyEnd(anchor, ll) <= n
  BY <1>1, <1>2, <1>3
<1> QED
  BY <1>1, <1>2, <1>3, <1>4 DEF ll

(* The copy of the literals, and whatever else is written up to e.         *)
LEMMA CopyStaysInside ==
  ASSUME IInv, NEW at \in anchor .. n - MFLIMIT, NEW e \in Nat, e <= capacity,
         WildCopyEnd(Len(out) + 1 + ExtensionSize(at - anchor), at - anchor) <= capacity
  PROVE  LET r == [CopyReach(at, Len(out)) EXCEPT !.dst = Farther(@, e)]
         IN  /\ r \in [dst : Nat, src : Nat]
             /\ r.dst <= capacity /\ r.src <= n
<1> DEFINE ll == at - anchor
           f == Len(out) + 1 + ExtensionSize(ll)
           d == WildCopyEnd(f, ll)
           s == WildCopyEnd(anchor, ll)
           r == [CopyReach(at, Len(out)) EXCEPT !.dst = Farther(@, e)]
<1>1. ll \in Nat /\ s \in Nat /\ s <= n
  BY LiteralsReadInside
<1>2. /\ Len(out) \in Nat /\ n \in Nat /\ capacity \in Nat
      /\ reach \in [dst : Nat, src : Nat] /\ reach.dst <= capacity /\ reach.src <= n
  BY InvNumbers
<1>3. f \in Nat
  <2>1. ExtensionSize(ll) \in Nat
    BY <1>1, ExtensionCost
  <2> HIDE DEF ll
  <2> QED
    BY <1>2, <2>1
<1>4. d \in Nat /\ d <= capacity
  <2>1. d \in Nat
    <3> HIDE DEF ll, f
    <3> QED
      BY <1>1, <1>3, WildCopyReach
  <2> QED
    BY <2>1
<1>5. r = [Reached(d, s) EXCEPT !.dst = Farther(@, e)]
  BY DEF CopyReach
<1> HIDE DEF d, s, r
<1>6. r \in [dst : Nat, src : Nat] /\ r.dst <= capacity /\ r.src <= n
  BY <1>1, <1>2, <1>4, <1>5, ReachAfter
<1> QED
  BY <1>6 DEF r

(* In the mode without checks the buffer has room for the bound.           *)
LEMMA RoomForBound ==
  ASSUME IInv, pc # "done", limit = "notLimited"
  PROVE  n + (n \div MAXBYTE) + 2 <= capacity /\ n \div MAXBYTE \in Nat
<1>1. capacity >= CompressBound(n) /\ n <= MAX_INPUT_SIZE
  <2>1. limit \in Modes /\ n <= MAX_INPUT_SIZE
    BY DEF IInv, ModeFits, NothingReported
  <2>2. ~(capacity < CompressBound(n))
    BY <2>1 DEF Modes
  <2>3. n \in Nat /\ capacity \in Nat /\ MAX_INPUT_SIZE \in Nat
    BY InvNumbers, Lz4Assumption
  <2>4. CompressBound(n) \in Int
    <3>1. n \div MAXBYTE \in Nat
      BY <2>3, Numbers, QuotientTimes
    <3> QED
      BY <2>3, <3>1, Lz4Assumption DEF CompressBound
  <2> QED
    BY <2>1, <2>2, <2>3, <2>4
<1>2. n \in Nat /\ capacity \in Nat /\ MAXBYTE \in Nat \ {0} /\ SLACK \in Nat /\ SLACK >= 2
  BY InvNumbers, Numbers, Lz4Assumption
<1>3. n \div MAXBYTE \in Nat
  BY <1>2, QuotientTimes
<1>4. CompressBound(n) = n + (n \div MAXBYTE) + SLACK
  BY <1>1, <1>2, Lz4Assumption DEF CompressBound
<1> QED
  BY <1>1, <1>2, <1>3, <1>4

(* A match ends inside src.                                                *)
LEMMA MatchEnds ==
  ASSUME NEW k \in Nat, NEW a \in Nat, NEW at \in a .. k - MFLIMIT,
         NEW len \in MINMATCH .. k - LASTLITERALS - at
  PROVE  /\ at \in a .. k /\ at \in Nat
         /\ len \in Nat /\ len >= MINMATCH /\ at + len \in 0 .. k
  BY Numbers

(* A sequence for which there is room preserves the invariant, whether it  *)
(* is written as a whole or shortened.                                     *)
LEMMA SequenceKeepsInv ==
  ASSUME IInv, pc \in {"parse", "overflow"}, pc' \in {"parse", "last"},
         NEW at \in anchor .. n - MFLIMIT, NEW m,
         m.offset \in 1 .. DISTANCE_MAX, m.len \in MINMATCH .. n - LASTLITERALS - at,
         NEW end, end = Len(out) + Len(Sequence(at, m)),
         end <= capacity,
         WildCopyEnd(Len(out) + 1 + ExtensionSize(at - anchor), at - anchor) <= capacity,
         limit = "notLimited" => end <= at + m.len + ((at + m.len) \div MAXBYTE),
         limit = "fillOutput" => end + 1 <= capacity,
         out' = out \o Sequence(at, m),
         anchor' = at + m.len,
         reach' = [CopyReach(at, Len(out)) EXCEPT !.dst = Farther(@, Len(out'))],
         UNCHANGED <<src, capacity, limit, consumed, result>>
  PROVE  IInv'
<1>1. /\ src \in Seq(U8) /\ out \in Seq(U8) /\ n \in Nat /\ anchor \in Nat
      /\ Len(out) \in Nat /\ n' = n
      /\ MINMATCH \in Nat /\ LASTLITERALS \in Nat /\ MFLIMIT \in Nat
  BY InvNumbers, Numbers DEF n
<1>2. at \in anchor .. n /\ at \in Nat /\ m.len \in Nat /\ m.len >= MINMATCH
      /\ at + m.len \in 0 .. n
  BY <1>1, MatchEnds
<1>3. Sequence(at, m) \in Seq(U8)
  BY <1>1, <1>2, SequenceBytes
<1>4. out' \in Seq(U8) /\ Len(out') = end
  <2> DEFINE q == Sequence(at, m)
  <2>1. q \in Seq(U8)
    BY <1>3
  <2> HIDE DEF q
  <2>2. out \o q \in Seq(U8) /\ Len(out \o q) = Len(out) + Len(q)
    BY <1>1, <2>1, ConcatProperties
  <2> QED
    BY <2>2 DEF q
<1>5. end \in Nat
  BY <1>4, LenProperties
<1>6. TypeOK'
  <2>1. /\ src' \in Sources /\ capacity' \in Capacities
        /\ limit' \in {"notLimited", "limitedOutput", "fillOutput"}
        /\ consumed' \in 0 .. n' /\ result' = 0
    BY <1>1 DEF IInv, TypeOK, NothingReported
  <2>2. anchor' \in 0 .. n'
    BY <1>1, <1>2
  <2> QED
    BY <1>4, <2>1, <2>2 DEF TypeOK
<1>7. ModeFits'
  BY <1>1 DEF IInv, ModeFits, Modes
<1>8. ReachTypeOK' /\ StaysInBuffers'
  <2> DEFINE r == [CopyReach(at, Len(out)) EXCEPT !.dst = Farther(@, end)]
  <2>1. r \in [dst : Nat, src : Nat] /\ r.dst <= capacity /\ r.src <= n
    BY <1>5, CopyStaysInside
  <2>2. reach' = r
    BY <1>4
  <2> HIDE DEF r
  <2> QED
    BY <1>1, <2>1, <2>2 DEF ReachTypeOK, StaysInBuffers
<1>9. NothingReported' /\ OverflowKnown' /\ BoundSuffices'
  BY <1>1 DEF IInv, NothingReported, OverflowKnown, BoundSuffices
<1>10. RoomLeft'
  BY <1>4 DEF RoomLeft
<1> QED
  BY <1>6, <1>7, <1>8, <1>9, <1>10 DEF IInv

(* What is known of a match of the finder.                                 *)
LEMMA MatchOf ==
  ASSUME IInv, NEW at \in anchor .. n - MFLIMIT, NEW m \in Matches(at)
  PROVE  /\ m.offset \in 1 .. DISTANCE_MAX
         /\ m.len \in MINMATCH .. n - LASTLITERALS - at
<1>1. m \in [offset : 1 .. (IF at < DISTANCE_MAX THEN at ELSE DISTANCE_MAX),
             len : MINMATCH .. (n - LASTLITERALS - at)]
  BY DEF Matches
<1>2. at \in Int /\ DISTANCE_MAX \in Nat
  BY InvNumbers, Numbers, Lz4Assumption
<1>3. m.offset \in 1 .. (IF at < DISTANCE_MAX THEN at ELSE DISTANCE_MAX)
  BY <1>1
<1> QED
  BY <1>1, <1>2, <1>3

(* A sequence that fits leaves the room that it must leave.                *)
LEMMA FittingSequence ==
  ASSUME IInv, pc = "parse", NEW at \in anchor .. n - MFLIMIT, NEW m \in Matches(at),
         Fits(at, m)
  PROVE  LET end == Len(out) + Len(Sequence(at, m))
         IN  /\ end <= capacity
             /\ WildCopyEnd(Len(out) + 1 + ExtensionSize(at - anchor), at - anchor) <= capacity
             /\ limit = "notLimited" => end <= at + m.len + ((at + m.len) \div MAXBYTE)
             /\ limit = "fillOutput" => end + 1 <= capacity
<1> DEFINE ll == at - anchor
           ml == m.len - MINMATCH
           op == Len(out)
           e == ExtensionSize(ll)
           f == ExtensionSize(ml)
           end == op + Len(Sequence(at, m))
           last == at + m.len
           wild == WildCopyEnd(op + 1 + e, ll)
<1>1. /\ src \in Seq(U8) /\ out \in Seq(U8) /\ n \in Nat /\ anchor \in Nat
      /\ op \in Nat /\ capacity \in Nat
      /\ MINMATCH \in Nat /\ LASTLITERALS \in Nat \ {0} /\ MAXBYTE \in Nat \ {0}
  BY InvNumbers, Numbers
<1>2. m.offset \in 1 .. DISTANCE_MAX /\ m.len \in MINMATCH .. n - LASTLITERALS - at
  BY MatchOf
<1>3. at \in anchor .. n /\ at \in Nat /\ m.len \in Nat /\ m.len >= MINMATCH /\ last \in 0 .. n
  BY <1>1, <1>2, MatchEnds
<1>4. ll \in Nat /\ ml \in Nat /\ anchor + ll = at /\ anchor + ll + MINMATCH + ml = last
  BY <1>1, <1>3
<1>5. Len(FirstPart(at, m)) = 1 + e + ll /\ FirstPart(at, m) \in Seq(U8)
      /\ end = op + (1 + e + ll + 2 + f)
  BY <1>1, <1>2, <1>3, SequenceBytes
<1>6. e \in Nat /\ f \in Nat /\ f <= ml \div MAXBYTE + 1 /\ ml \div MAXBYTE \in Nat
  <2> HIDE DEF ll, ml
  <2>1. ml \div MAXBYTE \in Nat
    BY <1>1, <1>4, QuotientTimes
  <2> QED
    BY <1>4, <2>1, ExtensionCost
<1>7. CASE limit = "notLimited"
  <2>1. op <= anchor + (anchor \div MAXBYTE)
    BY <1>7 DEF IInv, RoomLeft
  <2>2. /\ op + 1 + e + ll <= at + (at \div MAXBYTE) + 2
        /\ op + 1 + e + ll + 2 + f <= last + (last \div MAXBYTE)
    <3> HIDE DEF op, ll, ml, last
    <3> QED
      BY <1>1, <1>4, <2>1, CostInBound
  <2>3. n + (n \div MAXBYTE) + 2 <= capacity /\ n \div MAXBYTE \in Nat
    BY <1>7, RoomForBound
  <2>4. /\ last + (last \div MAXBYTE) <= n + (n \div MAXBYTE)
        /\ last \div MAXBYTE \in Nat
    <3>1. last \in Nat /\ last <= n
      BY <1>1, <1>3
    <3> HIDE DEF last
    <3> QED
      BY <1>1, <3>1, BoundMono
  <2>5. /\ at \div MAXBYTE <= n \div MAXBYTE /\ at \div MAXBYTE \in Nat
    <3>1. at <= n
      BY <1>1, <1>3
    <3> QED
      BY <1>1, <1>3, <3>1, BoundMono
  <2>6. wild \in Nat /\ wild <= op + 1 + e + ll + WILDCOPYLENGTH
    <3> DEFINE g == op + 1 + e
    <3>1. g \in Nat
      BY <1>1, <1>6
    <3> HIDE DEF g, ll
    <3>2. WildCopyEnd(g, ll) \in Nat /\ WildCopyEnd(g, ll) <= g + ll + WILDCOPYLENGTH
      BY <1>4, <3>1, WildCopyReach
    <3> QED
      BY <3>2 DEF g
  <2>7. at <= n - MFLIMIT /\ WILDCOPYLENGTH <= MFLIMIT /\ MFLIMIT \in Nat /\ WILDCOPYLENGTH \in Nat
    BY <1>1, Numbers, Lz4Assumption
  <2> HIDE DEF end, op, ll, e, f, last, wild
  <2>8. wild <= capacity
    BY <1>1, <1>3, <1>4, <1>6, <2>2, <2>3, <2>5, <2>6, <2>7
  <2>9. end <= last + (last \div MAXBYTE)
    BY <1>1, <1>3, <1>4, <1>5, <1>6, <2>2, <2>4
  <2>10. end <= capacity
    BY <1>1, <1>3, <1>4, <1>5, <1>6, <2>3, <2>4, <2>9
  <2> QED
    BY <1>7, <2>8, <2>9, <2>10 DEF end, op, ll, e, last, wild
<1>8. CASE limit # "notLimited"
  <2>1. RoomForLiterals(op, ll) /\ RoomForMatch(Len(out \o FirstPart(at, m)) + 2, ml)
    BY <1>8 DEF Fits
  <2>2. Len(out \o FirstPart(at, m)) = op + (1 + e + ll)
    <3> DEFINE q == FirstPart(at, m)
    <3>1. q \in Seq(U8) /\ Len(q) = 1 + e + ll
      BY <1>5
    <3> HIDE DEF q, e, ll
    <3>2. Len(out \o q) = Len(out) + Len(q)
      BY <1>1, <3>1, ConcatProperties
    <3>3. Len(out \o q) = op + (1 + e + ll)
      BY <3>1, <3>2
    <3> QED
      BY <3>3 DEF q
  <2>3. /\ Oend \in Int /\ Oend <= capacity
        /\ limit = "fillOutput" => Oend = capacity - LASTLITERALS
    BY <1>1 DEF Oend
  <2>4. /\ op + 1 + (ll \div MAXBYTE) + ll + (2 + 1 + LASTLITERALS) <= Oend
        /\ op + (1 + e + ll) + 2 + (ml \div MAXBYTE) + (1 + LASTLITERALS) <= Oend
    BY <2>1, <2>2 DEF RoomForLiterals, RoomForMatch
  <2>5. ll \div MAXBYTE \in Nat
    <3> HIDE DEF ll
    <3> QED
      BY <1>1, <1>4, QuotientTimes
  <2>6. wild <= capacity
    <3>1. op + 1 + (ll \div MAXBYTE) + ll + (2 + 1 + LASTLITERALS) <= capacity
      <4> DEFINE q == ll \div MAXBYTE
      <4>1. q \in Nat /\ op + 1 + q + ll + (2 + 1 + LASTLITERALS) <= Oend
        BY <2>4, <2>5
      <4> HIDE DEF q, ll, op
      <4>2. op + 1 + q + ll + (2 + 1 + LASTLITERALS) <= capacity
        BY <1>1, <1>4, <2>3, <4>1
      <4> QED
        BY <4>2 DEF q
    <3> HIDE DEF op, ll
    <3> QED
      BY <1>1, <1>4, <3>1, LiteralsStayInside
  <2> HIDE DEF end, op, ll, ml, e, f, last, wild
  <2>7. end + LASTLITERALS <= Oend
    BY <1>1, <1>4, <1>5, <1>6, <2>3, <2>4
  <2>8. end \in Nat
    BY <1>1, <1>4, <1>5, <1>6
  <2>9. end <= capacity /\ end + 1 <= capacity
    BY <1>1, <2>3, <2>7, <2>8
  <2> QED
    BY <1>8, <2>6, <2>9 DEF end, op, ll, e, wild
<1> QED
  BY <1>7, <1>8

(* A sequence that is shortened leaves the room that it must leave: what a *)
(* match of MaxMatch(room) bytes takes is room.                            *)
LEMMA ShortenedSequence ==
  ASSUME IInv, pc = "overflow", NEW m \in Shortened
  PROVE  /\ over.ip \in anchor .. n - MFLIMIT
         /\ m.offset \in 1 .. DISTANCE_MAX
         /\ m.len \in MINMATCH .. n - LASTLITERALS - over.ip
         /\ LET ll  == over.ip - anchor
                end == Len(out) + Len(Sequence(over.ip, m))
            IN  /\ WildCopyEnd(Len(out) + 1 + ExtensionSize(ll), ll) <= capacity
                /\ end + 1 <= capacity
<1> DEFINE at == over.ip
           ll == at - anchor
           op == Len(out)
           e == ExtensionSize(ll)
           litEnd == op + LiteralsCost(ll)
           room == (Oend - 3) - litEnd
           len == IF over.m.len > MaxMatch(room) THEN MaxMatch(room) ELSE over.m.len
           end == op + Len(Sequence(at, m))
           wild == WildCopyEnd(op + 1 + e, ll)
<1>1. /\ src \in Seq(U8) /\ out \in Seq(U8) /\ n \in Nat /\ anchor \in Nat
      /\ op \in Nat /\ capacity \in Nat
      /\ MINMATCH \in Nat /\ LASTLITERALS \in Nat \ {0} /\ MAXBYTE \in Nat \ {0}
      /\ MASK \in Nat \ {0} /\ WILDCOPYLENGTH = LASTLITERALS + 3
  BY InvNumbers, Numbers, Lz4Assumption
<1>2. limit = "fillOutput" /\ at \in anchor .. n - MFLIMIT /\ over.m \in Matches(at)
  BY DEF IInv, OverflowKnown
<1>3. over.m.offset \in 1 .. DISTANCE_MAX /\ over.m.len \in MINMATCH .. n - LASTLITERALS - at
  BY <1>2, MatchOf
<1>4. at \in Nat /\ ll \in Nat /\ over.m.len \in Nat /\ over.m.len >= MINMATCH
  <2>1. at \in anchor .. n /\ at \in Nat /\ over.m.len \in Nat /\ over.m.len >= MINMATCH
    BY <1>1, <1>2, <1>3, MatchEnds
  <2> QED
    BY <1>1, <2>1
<1>5. e \in Nat /\ (ll = 0 => e = 0) /\ litEnd = op + 1 + e + ll
  <2>1. e \in Nat /\ e <= ll
    BY <1>4, ExtensionCost
  <2>2. LiteralsCost(ll) = 1 + e + ll
    BY <1>4, LiteralsCostIs
  <2>3. litEnd = op + LiteralsCost(ll)
    OBVIOUS
  <2> HIDE DEF ll, e, op, litEnd
  <2> QED
    BY <1>1, <1>4, <2>1, <2>2, <2>3
<1>6. Oend = capacity - LASTLITERALS
  BY <1>2 DEF Oend
<1>7. room >= 0 /\ m = [over.m EXCEPT !.len = len]
  BY DEF Shortened
<1>8. room \in Nat
  <2>1. room = (Oend - 3) - litEnd
    OBVIOUS
  <2> HIDE DEF op, e, ll, litEnd, room
  <2> QED
    BY <1>1, <1>4, <1>5, <1>6, <1>7, <2>1
<1>9. m.offset \in 1 .. DISTANCE_MAX /\ m.len = len
  BY <1>2, <1>3, <1>7 DEF Matches
<1>10. /\ MaxMatch(room) \in Nat /\ MaxMatch(room) >= MINMATCH
       /\ MaxMatch(room) = MINMATCH + (MASK - 1) + room * MAXBYTE
       /\ room * MAXBYTE \in Nat
  <2> HIDE DEF room
  <2>1. room * MAXBYTE \in Nat
    BY <1>1, <1>8
  <2> QED
    BY <1>1, <2>1 DEF MaxMatch
<1>11. len \in Nat /\ len >= MINMATCH /\ len <= over.m.len /\ len <= MaxMatch(room)
  BY <1>4, <1>10
<1>12. m.len \in MINMATCH .. n - LASTLITERALS - at
  <2> HIDE DEF len, at
  <2> QED
    BY <1>1, <1>3, <1>4, <1>9, <1>11
<1>13. ExtensionSize(m.len - MINMATCH) <= room /\ ExtensionSize(m.len - MINMATCH) \in Nat
  <2> DEFINE ml == m.len - MINMATCH
  <2>1. ml \in Nat /\ ml < MASK + room * MAXBYTE
    <3> HIDE DEF len, room
    <3> QED
      BY <1>1, <1>9, <1>10, <1>11
  <2> HIDE DEF ml, room
  <2>2. ExtensionSize(ml) <= room /\ ExtensionSize(ml) \in Nat
    BY <1>8, <2>1, ExtensionFits, ExtensionCost
  <2> QED
    BY <2>2 DEF ml
<1>14. end = op + (1 + e + ll + 2 + ExtensionSize(m.len - MINMATCH))
  <2>1. at \in anchor .. n /\ m.len \in Nat /\ m.len >= MINMATCH
    BY <1>1, <1>2, <1>12, MatchEnds
  <2> QED
    BY <1>1, <1>9, <2>1, SequenceBytes
<1>15. /\ wild <= op + 1 + e + ll + WILDCOPYLENGTH /\ wild \in Nat
  <2> DEFINE g == op + 1 + e
  <2>1. g \in Nat
    BY <1>1, <1>5
  <2> HIDE DEF g, ll
  <2>2. WildCopyEnd(g, ll) \in Nat /\ WildCopyEnd(g, ll) <= g + ll + WILDCOPYLENGTH
    BY <1>4, <2>1, WildCopyReach
  <2> QED
    BY <2>2 DEF g
<1>16. room = (Oend - 3) - litEnd
  OBVIOUS
<1> HIDE DEF at, ll, op, e, litEnd, room, len, end, wild
<1>17. wild <= capacity
  BY <1>1, <1>4, <1>5, <1>6, <1>8, <1>15, <1>16
<1>18. end + 1 <= capacity
  BY <1>1, <1>4, <1>5, <1>6, <1>8, <1>13, <1>14, <1>16
<1> QED
  BY <1>2, <1>9, <1>12, <1>17, <1>18 DEF at, ll, op, e, end, wild

(* The last literals are literals that are left, and there is room for     *)
(* them; without a limit, or if they all fit, they are all that are left.  *)
LEMMA LastRunFits ==
  ASSUME IInv, pc # "done", ~TooSmall
  PROVE  /\ LastRun \in 0 .. n - anchor
         /\ Len(out) + 1 + ExtensionSize(LastRun) + LastRun <= capacity
         /\ limit # "fillOutput" => LastRun = n - anchor
<1> DEFINE all == n - anchor
           op == Len(out)
           room == capacity - op - 1
           cost == LiteralsCost(all)
<1>1. /\ n \in Nat /\ anchor \in Nat /\ all \in Nat /\ op \in Nat /\ capacity \in Nat
      /\ MAXBYTE \in Nat \ {0} /\ MASK \in Nat \ {0} /\ MASK <= MAXBYTE
  BY InvNumbers, Numbers
<1>2. cost = 1 + ExtensionSize(all) + all /\ ExtensionSize(all) \in Nat
  BY <1>1, LiteralsCostIs, ExtensionCost
<1>3. limit \in {"notLimited", "limitedOutput", "fillOutput"}
  BY DEF IInv, TypeOK
<1>4. CASE limit = "notLimited"
  <2>1. LastRun = all
    BY <1>4 DEF LastRun
  <2>2. op <= anchor + (anchor \div MAXBYTE)
    BY <1>4 DEF IInv, RoomLeft
  <2>3. op + 1 + ExtensionSize(all) + all <= n + (n \div MAXBYTE) + 2
    <3>1. 0 \in Nat /\ anchor + all = n
      BY <1>1
    <3> HIDE DEF op, all
    <3> QED
      BY <1>1, <2>2, <3>1, CostInBound
  <2>4. n + (n \div MAXBYTE) + 2 <= capacity /\ n \div MAXBYTE \in Nat
    BY <1>4, RoomForBound
  <2>5. op + 1 + ExtensionSize(all) + all <= capacity
    BY <1>1, <1>2, <2>3, <2>4
  <2> QED
    BY <1>1, <2>1, <2>5
<1>5. CASE limit # "notLimited" /\ cost <= room + 1
  <2>1. LastRun = all
    BY <1>5 DEF LastRun
  <2> QED
    BY <1>1, <1>2, <1>5, <2>1
<1>6. CASE limit # "notLimited" /\ ~(cost <= room + 1)
  <2> DEFINE k == MAXBYTE + 1
             a == room + MAXBYTE + 1 - MASK
             q == a \div k
             r == room - q
  <2>1. limit = "fillOutput"
    <3>1. op + cost > capacity
      BY <1>1, <1>2, <1>6
    <3> QED
      BY <1>3, <1>6, <3>1 DEF TooSmall
  <2>2. room \in Nat
    <3>1. op + 1 <= capacity
      BY <2>1 DEF IInv, RoomLeft
    <3> QED
      BY <1>1, <3>1
  <2>3. LastRun = r
    BY <1>6 DEF LastRun
  <2>4. k \in Nat \ {0} /\ a \in Nat
    BY <1>1, <2>2
  <2>5. q \in Nat /\ q * k \in Nat /\ a < q * k + k
    <3> HIDE DEF k, a
    <3> QED
      BY <2>4, QuotientRemainder
  <2>6. q <= room
    <3>1. room \in Nat /\ room * k = room * MAXBYTE + room /\ room * MAXBYTE \in Nat
      <4> HIDE DEF room
      <4> QED
        BY <1>1, <2>2
    <3>2. (room + 1) * k = room * k + k
      <4> HIDE DEF room, k
      <4> QED
        BY <2>2, <2>4
    <3>3. a < (room + 1) * k
      <4> HIDE DEF room
      <4> QED
        BY <1>1, <2>2, <3>1, <3>2
    <3> HIDE DEF room, a, k
    <3> QED
      BY <2>2, <2>4, <3>3, QuotientAtMost
  <2>7. r \in Nat /\ r + q = room
    <3> HIDE DEF q, room
    <3> QED
      BY <2>2, <2>5, <2>6
  <2>8. r < MASK + q * MAXBYTE
    <3>1. q * k = q * MAXBYTE + q /\ q * MAXBYTE \in Nat
      <4> HIDE DEF q
      <4> QED
        BY <1>1, <2>5
    <3>2. a = room + MAXBYTE + 1 - MASK /\ k = MAXBYTE + 1
      OBVIOUS
    <3> HIDE DEF q, r, room, a, k
    <3> QED
      BY <1>1, <2>2, <2>4, <2>5, <2>7, <3>1, <3>2
  <2>9. ExtensionSize(r) <= q /\ ExtensionSize(r) \in Nat
    <3> HIDE DEF r, q
    <3> QED
      BY <2>5, <2>7, <2>8, ExtensionFits, ExtensionCost
  <2>10. op + 1 + ExtensionSize(r) + r <= capacity
    <3>1. room = capacity - op - 1
      OBVIOUS
    <3> HIDE DEF r, q, op, room
    <3> QED
      BY <1>1, <2>2, <2>5, <2>7, <2>9, <3>1
  <2>11. r <= all
    <3> HIDE DEF r, q, op, room, all, cost
    <3>1. SUFFICES ASSUME all < r PROVE FALSE
      BY <1>1, <2>7
    <3>2. ExtensionSize(all) <= ExtensionSize(r)
      BY <1>1, <2>7, <3>1, ExtensionMono
    <3> QED
      BY <1>1, <1>2, <1>6, <2>2, <2>5, <2>7, <2>9, <3>1, <3>2
  <2> HIDE DEF r
  <2> QED
    BY <1>1, <2>1, <2>3, <2>7, <2>10, <2>11
<1> QED
  BY <1>4, <1>5, <1>6

-----------------------------------------------------------------------------
(* The invariant holds initially.                                          *)
LEMMA InitIInv == Init => IInv
<1> SUFFICES ASSUME Init PROVE IInv
  OBVIOUS
<1>1. src \in Seq(U8) /\ capacity \in Nat /\ n \in Nat /\ MAX_INPUT_SIZE \in Nat
  BY EncoderAssumption, LenProperties, Lz4Assumption DEF Init, n
<1>2. out = <<>> /\ Len(out) = 0 /\ out \in Seq(U8)
  BY EmptySeq DEF Init
<1>3. limit \in Modes /\ limit \in {"notLimited", "limitedOutput", "fillOutput"}
  BY DEF Init, Modes
<1>4. TypeOK
  BY <1>1, <1>2, <1>3 DEF Init, TypeOK
<1>5. ReachTypeOK /\ StaysInBuffers
  BY <1>1 DEF Init, ReachTypeOK, StaysInBuffers
<1>6. pc # "done" => n <= MAX_INPUT_SIZE /\ (limit = "fillOutput" => capacity >= 1)
  BY <1>1 DEF Init
<1>7. NothingReported
  BY <1>6 DEF Init, NothingReported
<1>8. RoomLeft
  <2>1. anchor = 0
    BY DEF Init
  <2>2. 0 \div MAXBYTE \in Nat
    BY Numbers, QuotientTimes
  <2>3. anchor \div MAXBYTE \in Nat
    BY <2>1, <2>2
  <2>4. 0 <= anchor + (anchor \div MAXBYTE)
    BY <2>1, <2>3
  <2> QED
    BY <1>1, <1>2, <1>6, <2>4 DEF RoomLeft
<1>9. OverflowKnown
  BY DEF Init, OverflowKnown
<1>10. BoundSuffices
  <2> SUFFICES ASSUME pc = "done", limit # "fillOutput"
               PROVE  ~(n <= MAX_INPUT_SIZE) /\ ~(result > 0)
    BY DEF BoundSuffices
  <2> QED
    BY <1>1 DEF Init
<1> QED
  BY <1>3, <1>4, <1>5, <1>7, <1>8, <1>9, <1>10 DEF IInv, ModeFits

(* A sequence that fits.                                                   *)
LEMMA EncodeKeepsInv ==
  ASSUME IInv, NEW at \in anchor .. n - MFLIMIT, NEW m \in Matches(at),
         EncodeSequence(at, m)
  PROVE  IInv'
<1> DEFINE end == Len(out) + Len(Sequence(at, m))
<1>1. pc = "parse" /\ pc' = "parse" /\ Fits(at, m)
  BY DEF EncodeSequence
<1>2. m.offset \in 1 .. DISTANCE_MAX /\ m.len \in MINMATCH .. n - LASTLITERALS - at
  BY MatchOf
<1>3. /\ end <= capacity
      /\ WildCopyEnd(Len(out) + 1 + ExtensionSize(at - anchor), at - anchor) <= capacity
      /\ limit = "notLimited" => end <= at + m.len + ((at + m.len) \div MAXBYTE)
      /\ limit = "fillOutput" => end + 1 <= capacity
  BY <1>1, FittingSequence
<1>4. /\ out' = out \o Sequence(at, m)
      /\ anchor' = at + m.len
      /\ reach' = [CopyReach(at, Len(out)) EXCEPT !.dst = Farther(@, Len(out'))]
      /\ UNCHANGED <<src, capacity, limit, consumed, result>>
  BY DEF EncodeSequence
<1>5. end = Len(out) + Len(Sequence(at, m))
  OBVIOUS
<1> HIDE DEF end
<1> QED
  BY <1>1, <1>2, <1>3, <1>4, <1>5, SequenceKeepsInv

(* A sequence that does not fit: what was written of it is in the buffer.  *)
LEMMA OverflowKeepsInv ==
  ASSUME IInv, NEW at \in anchor .. n - MFLIMIT, NEW m \in Matches(at),
         Overflow(at, m)
  PROVE  IInv'
<1>1. /\ pc = "parse" /\ limit # "notLimited"
      /\ UNCHANGED <<src, capacity, limit, anchor, out, consumed, result>>
  BY DEF Overflow, Fits
<1>2. n' = n /\ src \in Seq(U8) /\ out \in Seq(U8) /\ n \in Nat /\ anchor \in Nat
      /\ Len(out) \in Nat /\ capacity \in Nat
  BY <1>1, InvNumbers DEF n
<1>3. /\ limit = "fillOutput" => pc' = "overflow" /\ over'.ip = at /\ over'.m = m
      /\ limit # "fillOutput" => pc' = "done"
  BY DEF Overflow
<1>4. result = 0 /\ consumed = 0
  BY <1>1 DEF IInv, NothingReported
<1>5. TypeOK'
  BY <1>1, <1>2, <1>3 DEF IInv, TypeOK
<1>6. ModeFits' /\ NothingReported'
  BY <1>1, <1>2 DEF IInv, ModeFits, Modes, NothingReported
<1>7. RoomLeft'
  BY <1>1, <1>2, <1>3 DEF IInv, RoomLeft
<1>8. OverflowKnown'
  <2>1. Matches(at)' = Matches(at)
    BY <1>1, <1>2 DEF Matches
  <2> QED
    BY <1>1, <1>2, <1>3, <2>1 DEF OverflowKnown
<1>9. BoundSuffices'
  <2>1. limit = "limitedOutput" => capacity < CompressBound(n)
    BY DEF IInv, ModeFits, Modes
  <2>2. limit = "limitedOutput" \/ limit = "fillOutput"
    BY <1>1 DEF IInv, TypeOK
  <2>3. CompressBound(n) \in Int
    <3>1. n \div MAXBYTE \in Nat
      BY <1>2, Numbers, QuotientTimes
    <3> QED
      BY <1>2, <3>1, Lz4Assumption DEF CompressBound
  <2>4. limit = "limitedOutput" => ~(capacity >= CompressBound(n))
    BY <1>2, <2>1, <2>3
  <2> QED
    BY <1>1, <1>2, <1>4, <2>2, <2>4 DEF BoundSuffices
<1>10. ReachTypeOK' /\ StaysInBuffers'
  <2>1. CASE ~RoomForLiterals(Len(out), at - anchor)
    <3>1. reach' = reach
      BY <2>1 DEF Overflow
    <3> QED
      BY <1>1, <1>2, <3>1 DEF IInv, ReachTypeOK, StaysInBuffers
  <2>2. CASE RoomForLiterals(Len(out), at - anchor)
    <3> DEFINE ll == at - anchor
               e == Len(out \o FirstPart(at, m)) + 2
               r == [CopyReach(at, Len(out)) EXCEPT !.dst = Farther(@, e)]
    <3>1. at \in anchor .. n /\ m.len \in Nat /\ m.len >= MINMATCH
          /\ m.offset \in 1 .. DISTANCE_MAX /\ ll \in Nat
      BY <1>2, MatchOf, MatchEnds, LiteralsReadInside
    <3>2. e = Len(out) + 1 + ExtensionSize(ll) + ll + 2
      <4> DEFINE q == FirstPart(at, m)
      <4>1. q \in Seq(U8) /\ Len(q) = 1 + ExtensionSize(ll) + ll
        BY <1>2, <3>1, SequenceBytes
      <4>2. ExtensionSize(ll) \in Nat
        BY <3>1, ExtensionCost
      <4> HIDE DEF q
      <4>3. Len(out \o q) = Len(out) + Len(q)
        BY <1>2, <4>1, ConcatProperties
      <4>4. e = Len(out \o q) + 2
        BY DEF q
      <4> HIDE DEF e, ll
      <4> QED
        BY <1>2, <3>1, <4>1, <4>2, <4>3, <4>4
    <3>3. Len(out) + 1 + (ll \div MAXBYTE) + ll + (2 + 1 + LASTLITERALS) <= capacity
      <4> DEFINE q == ll \div MAXBYTE
      <4>1. q \in Nat /\ LASTLITERALS \in Nat
        <5> HIDE DEF ll
        <5> QED
          BY <3>1, Numbers, QuotientTimes
      <4>2. Len(out) + 1 + q + ll + (2 + 1 + LASTLITERALS) <= Oend
        BY <2>2 DEF RoomForLiterals
      <4>3. Oend \in Int /\ Oend <= capacity
        BY <1>2, <4>1 DEF Oend
      <4> HIDE DEF q, ll
      <4>4. Len(out) + 1 + q + ll + (2 + 1 + LASTLITERALS) <= capacity
        BY <1>2, <3>1, <4>1, <4>2, <4>3
      <4> QED
        BY <4>4 DEF q
    <3>4. /\ WildCopyEnd(Len(out) + 1 + ExtensionSize(ll), ll) <= capacity
          /\ Len(out) + 1 + ExtensionSize(ll) + ll + 2 <= capacity
      <4> HIDE DEF ll
      <4> QED
        BY <1>2, <3>1, <3>3, LiteralsStayInside
    <3>5. e \in Nat /\ e <= capacity
      <4>1. ExtensionSize(ll) \in Nat
        BY <3>1, ExtensionCost
      <4> HIDE DEF e, ll
      <4> QED
        BY <1>2, <3>1, <3>2, <3>4, <4>1
    <3>6. reach' = r
      BY <2>2 DEF Overflow
    <3>7. r \in [dst : Nat, src : Nat] /\ r.dst <= capacity /\ r.src <= n
      <4> HIDE DEF e
      <4> QED
        BY <3>4, <3>5, CopyStaysInside
    <3> HIDE DEF r
    <3> QED
      BY <1>1, <1>2, <3>6, <3>7 DEF ReachTypeOK, StaysInBuffers
  <2> QED
    BY <2>1, <2>2
<1> QED
  BY <1>5, <1>6, <1>7, <1>8, <1>9, <1>10 DEF IInv

(* The last match is shortened, or its sequence given up.                  *)
LEMMA ShortenKeepsInv ==
  ASSUME IInv, ShortenSequence
  PROVE  IInv'
<1>1. /\ pc = "overflow" /\ pc' = "last"
      /\ UNCHANGED <<src, capacity, limit, over, consumed, result>>
  BY DEF ShortenSequence
<1>2. limit = "fillOutput"
  BY <1>1 DEF IInv, OverflowKnown
<1>3. CASE UNCHANGED <<anchor, out, reach>>
  <2>1. n' = n
    BY <1>1 DEF n
  <2>2. TypeOK' /\ ModeFits' /\ ReachTypeOK' /\ StaysInBuffers'
    BY <1>1, <1>3, <2>1
    DEF IInv, TypeOK, ModeFits, Modes, ReachTypeOK, StaysInBuffers
  <2>3. NothingReported' /\ RoomLeft' /\ OverflowKnown' /\ BoundSuffices'
    BY <1>1, <1>3, <2>1
    DEF IInv, NothingReported, RoomLeft, OverflowKnown, BoundSuffices
  <2> QED
    BY <2>2, <2>3 DEF IInv
<1>4. ASSUME NEW m \in Shortened,
             out' = out \o Sequence(over.ip, m),
             anchor' = over.ip + m.len,
             reach' = [CopyReach(over.ip, Len(out)) EXCEPT !.dst = Farther(@, Len(out'))]
      PROVE  IInv'
  <2> DEFINE at == over.ip
             end == Len(out) + Len(Sequence(at, m))
  <2>1. /\ at \in anchor .. n - MFLIMIT
        /\ m.offset \in 1 .. DISTANCE_MAX /\ m.len \in MINMATCH .. n - LASTLITERALS - at
        /\ WildCopyEnd(Len(out) + 1 + ExtensionSize(at - anchor), at - anchor) <= capacity
        /\ end + 1 <= capacity
    BY <1>1, ShortenedSequence
  <2>2. end \in Nat /\ capacity \in Nat
    <3>1. /\ at \in anchor .. n /\ m.len \in Nat /\ m.len >= MINMATCH
          /\ n \in Nat /\ anchor \in Nat /\ Len(out) \in Nat /\ src \in Seq(U8)
          /\ capacity \in Nat
      BY <2>1, InvNumbers, MatchEnds
    <3>2. Sequence(at, m) \in Seq(U8)
      BY <2>1, <3>1, SequenceBytes
    <3>3. Len(Sequence(at, m)) \in Nat
      BY <3>2, LenProperties
    <3> QED
      BY <3>1, <3>3
  <2>3. /\ out' = out \o Sequence(at, m) /\ anchor' = at + m.len
        /\ reach' = [CopyReach(at, Len(out)) EXCEPT !.dst = Farther(@, Len(out'))]
        /\ end = Len(out) + Len(Sequence(at, m))
    BY <1>4
  <2> HIDE DEF at, end
  <2>4. end <= capacity
    BY <2>1, <2>2
  <2> QED
    BY <1>1, <1>2, <2>1, <2>3, <2>4, SequenceKeepsInv
<1> QED
  BY <1>3, <1>4 DEF ShortenSequence

(* The block ends with its last literals, or there is no room for them.    *)
LEMMA LastLiteralsKeepsInv ==
  ASSUME IInv, LastLiterals
  PROVE  IInv'
<1>1. /\ pc # "done" /\ pc' = "done"
      /\ UNCHANGED <<src, capacity, limit, over>>
  BY DEF LastLiterals
<1>2. /\ n' = n /\ src \in Seq(U8) /\ out \in Seq(U8) /\ n \in Nat /\ anchor \in Nat
      /\ anchor <= n /\ Len(out) \in Nat /\ capacity \in Nat
      /\ reach \in [dst : Nat, src : Nat]
      /\ reach.dst \in Nat /\ reach.dst <= capacity /\ reach.src \in Nat /\ reach.src <= n
  BY <1>1, InvNumbers DEF n
<1>3. result = 0 /\ consumed = 0 /\ n <= MAX_INPUT_SIZE
  BY <1>1 DEF IInv, NothingReported
<1>4. ModeFits' /\ NothingReported' /\ RoomLeft' /\ OverflowKnown'
  BY <1>1, <1>2
  DEF IInv, ModeFits, Modes, NothingReported, RoomLeft, OverflowKnown
<1>5. CASE TooSmall /\ UNCHANGED <<anchor, out, reach, consumed, result>>
  <2>1. TypeOK' /\ ReachTypeOK' /\ StaysInBuffers'
    BY <1>1, <1>2, <1>5 DEF IInv, TypeOK, ReachTypeOK, StaysInBuffers
  <2>2. BoundSuffices'
    <3>1. limit = "limitedOutput" /\ capacity < CompressBound(n)
      BY <1>5 DEF IInv, ModeFits, Modes, TooSmall
    <3>2. CompressBound(n) \in Int
      <4>1. n \div MAXBYTE \in Nat
        BY <1>2, Numbers, QuotientTimes
      <4> QED
        BY <1>2, <4>1, Lz4Assumption DEF CompressBound
    <3>3. ~(capacity >= CompressBound(n))
      BY <1>2, <3>1, <3>2
    <3> QED
      BY <1>1, <1>2, <1>3, <1>5, <3>3 DEF BoundSuffices
  <2> QED
    BY <1>4, <2>1, <2>2 DEF IInv
<1>6. CASE /\ ~TooSmall
           /\ out' = out \o <<Token(LastRun, 0)>> \o Extension(LastRun)
                          \o Literals(anchor, anchor + LastRun)
           /\ anchor' = anchor + LastRun
           /\ reach' = Reached(Len(out'), anchor')
           /\ consumed' = anchor'
           /\ result' = Len(out')
  <2> DEFINE r == LastRun
             t == <<Token(r, 0)>>
             e == Extension(r)
             l == Literals(anchor, anchor + r)
             ot == out \o t
             ote == ot \o e
  <2>1. /\ r \in 0 .. n - anchor
        /\ Len(out) + 1 + ExtensionSize(r) + r <= capacity
        /\ limit # "fillOutput" => r = n - anchor
    BY <1>1, <1>6, LastRunFits
  <2> HIDE DEF r
  <2>2. r \in Nat /\ anchor + r \in anchor .. n /\ anchor + r - anchor = r
    BY <1>2, <2>1
  <2>3. t \in Seq(U8) /\ Len(t) = 1
    <3>1. Token(r, 0) \in U8
      BY <2>2, TokenType
    <3> QED
      BY <3>1
  <2>4. e \in Seq(U8) /\ Len(e) = ExtensionSize(r) /\ ExtensionSize(r) \in Nat
    BY <2>2, ExtensionType, ExtensionCost
  <2>5. l \in Seq(U8) /\ Len(l) = r
    <3> DEFINE k == anchor + r
    <3>1. k \in anchor .. n /\ k - anchor = r
      BY <1>2, <2>1, <2>2
    <3> HIDE DEF k
    <3>2. Literals(anchor, k) \in Seq(U8) /\ Len(Literals(anchor, k)) = r
      BY <1>2, <3>1, LiteralsType
    <3> QED
      BY <3>2 DEF k
  <2>6. out' = ote \o l /\ anchor' = anchor + r
    BY <1>6 DEF r
  <2> HIDE DEF t, e, l
  <2>7. ot \in Seq(U8) /\ Len(ot) = Len(out) + Len(t)
    BY <1>2, <2>3, ConcatProperties
  <2> HIDE DEF ot
  <2>8. ote \in Seq(U8) /\ Len(ote) = Len(ot) + Len(e)
    BY <2>4, <2>7, ConcatProperties
  <2> HIDE DEF ote
  <2>9. ote \o l \in Seq(U8) /\ Len(ote \o l) = Len(ote) + Len(l)
    BY <2>5, <2>8, ConcatProperties
  <2>10. /\ out' \in Seq(U8) /\ Len(out') = Len(out) + 1 + ExtensionSize(r) + r
         /\ Len(out') \in Nat /\ Len(out') > 0 /\ Len(out') <= capacity
    <3>1. out' \in Seq(U8) /\ Len(out') = Len(ote) + Len(l)
      BY <2>6, <2>9
    <3> QED
      BY <1>2, <2>1, <2>2, <2>3, <2>4, <2>5, <2>7, <2>8, <3>1
  <2>11. anchor' \in 0 .. n /\ (limit # "fillOutput" => anchor' = n)
    BY <1>2, <2>1, <2>2, <2>6
  <2>12. TypeOK'
    BY <1>1, <1>2, <1>6, <2>10, <2>11 DEF IInv, TypeOK
  <2>13. ReachTypeOK' /\ StaysInBuffers'
    <3> DEFINE x == Farther(reach.dst, Len(out'))
               y == Farther(reach.src, anchor')
    <3>1. x \in Nat /\ x <= capacity /\ y \in Nat /\ y <= n
      BY <1>2, <2>10, <2>11 DEF Farther
    <3>2. reach' = [dst |-> x, src |-> y]
      BY <1>6 DEF Reached
    <3> HIDE DEF x, y
    <3> QED
      BY <1>1, <1>2, <3>1, <3>2 DEF ReachTypeOK, StaysInBuffers
  <2>14. BoundSuffices'
    BY <1>1, <1>2, <1>6, <2>10, <2>11 DEF BoundSuffices
  <2> QED
    BY <1>4, <2>12, <2>13, <2>14 DEF IInv
<1> QED
  BY <1>5, <1>6 DEF LastLiterals

(* Every step preserves the invariant.                                     *)
LEMMA NextIInv == IInv /\ [Next]_vars => IInv'
<1> SUFFICES ASSUME IInv, [Next]_vars PROVE IInv'
  OBVIOUS
<1>1. ASSUME NEW at \in anchor .. n - MFLIMIT, NEW m \in Matches(at),
             EncodeSequence(at, m)
      PROVE  IInv'
  BY <1>1, EncodeKeepsInv
<1>2. ASSUME NEW at \in anchor .. n - MFLIMIT, NEW m \in Matches(at),
             Overflow(at, m)
      PROVE  IInv'
  BY <1>2, OverflowKeepsInv
<1>3. CASE ShortenSequence
  BY <1>3, ShortenKeepsInv
<1>4. CASE LastLiterals
  BY <1>4, LastLiteralsKeepsInv
<1>5. CASE UNCHANGED vars
  <2>1. UNCHANGED <<src, capacity, limit, pc, anchor, out, over, reach, consumed, result>>
    BY <1>5 DEF vars
  <2>2. n' = n
    BY <2>1 DEF n
  <2>3. TypeOK' /\ ModeFits' /\ ReachTypeOK' /\ StaysInBuffers'
    BY <2>1, <2>2 DEF IInv, TypeOK, ModeFits, Modes, ReachTypeOK, StaysInBuffers
  <2>4. NothingReported' /\ RoomLeft' /\ BoundSuffices'
    BY <2>1, <2>2 DEF IInv, NothingReported, RoomLeft, BoundSuffices
  <2>5. OverflowKnown'
    BY <2>1, <2>2 DEF IInv, OverflowKnown, Matches
  <2> QED
    BY <2>3, <2>4, <2>5 DEF IInv
<1> QED
  BY <1>1, <1>2, <1>3, <1>4, <1>5 DEF Next

(* The invariant holds in every state.                                     *)
LEMMA Invariant == Spec => []IInv
BY InitIInv, NextIInv, PTL DEF Spec

(* What is written are bytes, anchor stays in the input, and the result is *)
(* the length of the block or 0.                                           *)
THEOREM TypeCorrect == Spec => []TypeOK
<1>1. IInv => TypeOK
  BY DEF IInv
<1> QED
  BY <1>1, Invariant, PTL

(* LZ4HC_encodeSequence and LZ4HC_compress_optimal never write behind the  *)
(* end of dst nor read behind the end of src, in any of the three modes.   *)
THEOREM NeverOutside == Spec => []StaysInBuffers
<1>1. IInv => StaysInBuffers
  BY DEF IInv
<1> QED
  BY <1>1, Invariant, PTL

(* LZ4_compress_HC succeeds in a buffer of LZ4_compressBound() bytes, and  *)
(* encodes all of src whenever it succeeds.                                *)
THEOREM SucceedsWithinBound == Spec => []BoundSuffices
<1>1. IInv => BoundSuffices
  BY DEF IInv
<1> QED
  BY <1>1, Invariant, PTL

-----------------------------------------------------------------------------
(* The bytes w are written in b, from position pos on.                     *)
Stands(b, pos, w) ==
  /\ pos + Len(w) <= Len(b)
  /\ \A i \in 1 .. Len(w) : b[pos + i] = w[i]
-----------------------------------------------------------------------------
(* What is appended stands behind what there was, which stays where it is. *)
LEMMA StandsAppended ==
  ASSUME NEW S, NEW b \in Seq(S), NEW w \in Seq(S)
  PROVE  Stands(b \o w, Len(b), w)
<1>1. Len(b \o w) = Len(b) + Len(w) /\ Len(b) \in Nat /\ Len(w) \in Nat
  BY ConcatProperties, LenProperties
<1>2. ASSUME NEW i \in 1 .. Len(w) PROVE (b \o w)[Len(b) + i] = w[i]
  <2>1. Len(b) + i \in 1 .. Len(b) + Len(w) /\ ~(Len(b) + i <= Len(b)) /\ (Len(b) + i) - Len(b) = i
    BY <1>1
  <2> DEFINE k == Len(b) + i
  <2> HIDE DEF k
  <2>2. k \in 1 .. Len(b) + Len(w) => (b \o w)[k] = IF k <= Len(b) THEN b[k] ELSE w[k - Len(b)]
    BY ConcatProperties
  <2> QED
    BY <2>1, <2>2 DEF k
<1> QED
  BY <1>1, <1>2 DEF Stands

LEMMA StandsKept ==
  ASSUME NEW S, NEW b \in Seq(S), NEW v \in Seq(S), NEW w \in Seq(S), NEW pos \in Nat,
         Stands(b, pos, w)
  PROVE  Stands(b \o v, pos, w)
<1>1. Len(b \o v) = Len(b) + Len(v) /\ Len(b) \in Nat /\ Len(v) \in Nat /\ Len(w) \in Nat
  BY ConcatProperties, LenProperties
<1>2. pos + Len(w) <= Len(b) /\ \A i \in 1 .. Len(w) : b[pos + i] = w[i]
  BY DEF Stands
<1>3. ASSUME NEW i \in 1 .. Len(w) PROVE (b \o v)[pos + i] = w[i]
  <2> DEFINE k == pos + i
  <2>1. k \in 1 .. Len(b) + Len(v) /\ k <= Len(b)
    BY <1>1, <1>2
  <2>2. b[k] = w[i]
    BY <1>2
  <2> HIDE DEF k
  <2>3. (b \o v)[k] = IF k <= Len(b) THEN b[k] ELSE v[k - Len(b)]
    BY <2>1, ConcatProperties
  <2> QED
    BY <2>1, <2>2, <2>3 DEF k
<1> QED
  BY <1>1, <1>2, <1>3 DEF Stands

(* Bytes in a row stand one behind the other.                              *)
LEMMA StandsApart ==
  ASSUME NEW S, NEW b, Len(b) \in Nat, NEW v \in Seq(S), NEW w \in Seq(S), NEW pos \in Nat,
         Stands(b, pos, v \o w)
  PROVE  Stands(b, pos, v) /\ Stands(b, pos + Len(v), w)
<1>1. Len(v \o w) = Len(v) + Len(w) /\ Len(v) \in Nat /\ Len(w) \in Nat
  BY ConcatProperties, LenProperties
<1>2. pos + Len(v \o w) <= Len(b) /\ \A i \in 1 .. Len(v \o w) : b[pos + i] = (v \o w)[i]
  BY DEF Stands
<1>3. \A k \in 1 .. Len(v) + Len(w) : (v \o w)[k] = IF k <= Len(v) THEN v[k] ELSE w[k - Len(v)]
  BY ConcatProperties
<1>4. ASSUME NEW i \in 1 .. Len(v) PROVE b[pos + i] = v[i]
  <2>1. i \in 1 .. Len(v) + Len(w) /\ i <= Len(v)
    BY <1>1
  <2> QED
    BY <1>1, <1>2, <1>3, <2>1
<1>5. ASSUME NEW i \in 1 .. Len(w) PROVE b[(pos + Len(v)) + i] = w[i]
  <2> DEFINE k == Len(v) + i
  <2>1. k \in 1 .. Len(v) + Len(w) /\ ~(k <= Len(v)) /\ k - Len(v) = i /\ (pos + Len(v)) + i = pos + k
    BY <1>1
  <2> HIDE DEF k
  <2>2. b[pos + k] = (v \o w)[k]
    BY <1>1, <1>2, <2>1
  <2>3. (v \o w)[k] = w[i]
    BY <1>3, <2>1
  <2> QED
    BY <2>1, <2>2, <2>3
<1> QED
  BY <1>1, <1>2, <1>4, <1>5 DEF Stands
-----------------------------------------------------------------------------
(* What the decoder reads of a length of which the rest stands at pos.     *)
LEMMA LongRead ==
  ASSUME NEW len \in Nat, MASK <= len, NEW pos \in Nat, out \in Seq(U8),
         Stands(out, pos, Extension(len))
  PROVE  Decoder!LongAt(pos) = {[len |-> len - MASK, next |-> pos + ExtensionSize(len)]}
<1> DEFINE k == ExtensionSize(len)
           q == (len - MASK) \div MAXBYTE
           r == (len - MASK) % MAXBYTE
           ends == {i \in pos + 1 .. Len(out) : out[i] # MAXBYTE}
           end == CHOOSE i \in ends : \A j \in ends : i <= j
<1>1. MAXBYTE \in Nat \ {0} /\ len - MASK \in Nat /\ MASK \in Nat \ {0} /\ Len(out) \in Nat
  BY Numbers, LenProperties
<1>2. q \in Nat /\ r \in 0 .. MAXBYTE - 1 /\ q * MAXBYTE + r = len - MASK
  BY <1>1, QuotientRemainder
<1>3. k = q + 1
  BY <1>1 DEF ExtensionSize
<1>4. \A i \in 1 .. k : out[pos + i] = IF i < k THEN MAXBYTE ELSE r
  BY ExtensionType DEF Stands, Extension
<1>5. pos + k <= Len(out)
  BY ExtensionType DEF Stands
<1> HIDE DEF k, q, r
<1>6. k \in Nat \ {0} /\ r # MAXBYTE /\ out[pos + k] = r
  <2>1. k \in Nat \ {0} /\ k \in 1 .. k /\ r # MAXBYTE
    BY <1>1, <1>2, <1>3
  <2>2. out[pos + k] = IF k < k THEN MAXBYTE ELSE r
    BY <1>4, <2>1, Zenon
  <2> QED
    BY <2>1, <2>2
<1>7. pos + k \in ends
  BY <1>1, <1>5, <1>6
<1>8. \A i \in ends : i \in Nat /\ pos + k <= i
  <2> SUFFICES ASSUME NEW i \in ends, i < pos + k PROVE FALSE
    BY <1>1, <1>6
  <2> DEFINE d == i - pos
  <2>1. d \in 1 .. k /\ d < k /\ i = pos + d
    BY <1>1, <1>6
  <2>2. out[pos + d] = MAXBYTE
    <3> HIDE DEF d
    <3> QED
      BY <1>4, <2>1
  <2> QED
    BY <2>1, <2>2
<1>9. end = pos + k
  <2> HIDE DEF ends
  <2>1. end \in ends /\ \A i \in ends : end <= i
    BY <1>7, <1>8
  <2> HIDE DEF end
  <2> QED
    BY <1>1, <1>6, <1>7, <1>8, <2>1
<1>10. Decoder!LongAt(pos) =
         IF ends = {} THEN {} ELSE {[len |-> (end - pos - 1) * MAXBYTE + out[end], next |-> end]}
  BY DEF Decoder!LongAt
<1>11. (pos + k) - pos - 1 = q
  BY <1>2, <1>3
<1> HIDE DEF ends, end
<1>12. Decoder!LongAt(pos) = {[len |-> q * MAXBYTE + r, next |-> pos + k]}
  BY <1>6, <1>7, <1>9, <1>10, <1>11
<1> QED
  BY <1>2, <1>12 DEF k

(* A length is read as it was written.                                     *)
LEMMA LengthRead ==
  ASSUME NEW len \in Nat, NEW pos \in Nat, out \in Seq(U8), Stands(out, pos, Extension(len))
  PROVE  Decoder!LengthAt(Short(len), pos) = {[len |-> len, next |-> pos + ExtensionSize(len)]}
<1>0. MASK \in Nat \ {0}
  BY Numbers
<1>1. CASE len < MASK
  <2>1. Short(len) = len /\ ExtensionSize(len) = 0
    BY <1>0, <1>1 DEF Short, ExtensionSize
  <2> QED
    BY <1>0, <1>1, <2>1 DEF Decoder!LengthAt
<1>2. CASE MASK <= len
  <2> DEFINE k == ExtensionSize(len)
             l == [len |-> len - MASK, next |-> pos + k]
  <2>1. Short(len) = MASK
    BY <1>0, <1>2 DEF Short
  <2>2. Decoder!LongAt(pos) = {l}
    BY <1>2, LongRead
  <2>3. Decoder!LengthAt(MASK, pos) = {[x EXCEPT !.len = @ + MASK] : x \in {l}}
    BY <1>0, <2>2 DEF Decoder!LengthAt
  <2>4. [l EXCEPT !.len = @ + MASK] = [len |-> len, next |-> pos + k]
    BY <1>0, <1>2
  <2> HIDE DEF l, k
  <2> QED
    BY <2>1, <2>3, <2>4 DEF k
<1> QED
  BY <1>0, <1>1, <1>2
-----------------------------------------------------------------------------
(* A match as the finder has it.                                           *)
IsMatch(s, j, m) ==
  /\ m.offset \in 1 .. j /\ m.offset <= DISTANCE_MAX
  /\ m.len \in Nat /\ MINMATCH <= m.len
  /\ \A i \in 1 .. m.len : s[j + i] = s[j - m.offset + i]

(* What is written for it if all before position a is encoded, and for the *)
(* last literals, up to position c.                                        *)
SequenceOf(s, a, j, m) ==
  <<Token(j - a, m.len - MINMATCH)>> \o Extension(j - a) \o SubSeq(s, a + 1, j)
  \o LE16(m.offset) \o Extension(m.len - MINMATCH)

LastOf(s, a, c) == <<Token(c - a, 0)>> \o Extension(c - a) \o SubSeq(s, a + 1, c)

(* A part of an input.                                                     *)
LEMMA PartOf ==
  ASSUME NEW s \in Seq(U8), NEW a \in Nat, NEW j \in a .. Len(s)
  PROVE  /\ SubSeq(s, a + 1, j) \in Seq(U8) /\ Len(SubSeq(s, a + 1, j)) = j - a
         /\ \A i \in 1 .. j - a : SubSeq(s, a + 1, j)[i] = s[a + i]
<1>1. Len(s) \in Nat /\ j \in Nat /\ a + 1 \in Int /\ j \in Int
  BY LenProperties
<1>2. \A i \in a + 1 .. j : s[i] \in U8
  <2>1. \A i \in a + 1 .. j : i \in 1 .. Len(s)
    BY <1>1
  <2> QED
    BY <2>1, ElementOfSeq
<1>3. /\ SubSeq(s, a + 1, j) \in Seq(U8)
      /\ Len(SubSeq(s, a + 1, j)) = IF a + 1 <= j THEN j - (a + 1) + 1 ELSE 0
      /\ \A i \in 1 .. j - (a + 1) + 1 : SubSeq(s, a + 1, j)[i] = s[a + 1 + i - 1]
  BY <1>1, <1>2, SubSeqProperties
<1>4. ASSUME NEW i \in 1 .. j - a PROVE SubSeq(s, a + 1, j)[i] = s[a + i]
  <2>1. i \in 1 .. j - (a + 1) + 1 /\ a + 1 + i - 1 = a + i
    BY <1>1
  <2> QED
    BY <1>3, <2>1
<1> QED
  BY <1>1, <1>3, <1>4

(* The last literals, byte by byte.                                        *)
LEMMA LastStands ==
  ASSUME NEW s \in Seq(U8), NEW a \in Nat, NEW c \in a .. Len(s), NEW b \in Seq(U8), NEW o \in Nat
  PROVE  LET lits == c - a
             p    == o + 1 + ExtensionSize(lits)
         IN  /\ LastOf(s, a, c) \in Seq(U8)
             /\ Len(LastOf(s, a, c)) = 1 + ExtensionSize(lits) + lits
             /\ Stands(b, o, LastOf(s, a, c)) =>
                  /\ o + 1 <= Len(b) /\ b[o + 1] = Token(lits, 0)
                  /\ Stands(b, o + 1, Extension(lits))
                  /\ Stands(b, p, SubSeq(s, a + 1, c))
<1> DEFINE lits == c - a
           k == ExtensionSize(lits)
           t == <<Token(lits, 0)>>
           e == Extension(lits)
           l == SubSeq(s, a + 1, c)
           te == t \o e
<1>1. lits \in Nat /\ Len(b) \in Nat
  BY LenProperties
<1>2. t \in Seq(U8) /\ Len(t) = 1
  <2>1. Token(lits, 0) \in U8
    BY <1>1, TokenType
  <2> HIDE DEF lits
  <2> QED
    BY <2>1
<1>3. e \in Seq(U8) /\ Len(e) = k /\ k \in Nat
  <2> HIDE DEF lits
  <2> QED
    BY <1>1, ExtensionType, ExtensionCost
<1>4. l \in Seq(U8) /\ Len(l) = lits
  BY PartOf
<1>5. LastOf(s, a, c) = te \o l
  BY DEF LastOf
<1>6. t[1] = Token(lits, 0)
  OBVIOUS
<1> HIDE DEF lits, k, t, e, l
<1>7. te \in Seq(U8) /\ Len(te) = 1 + k
  BY <1>2, <1>3, ConcatProperties
<1>8. te \o l \in Seq(U8) /\ Len(te \o l) = 1 + k + lits
  <2> HIDE DEF te
  <2> QED
    BY <1>1, <1>3, <1>4, <1>7, ConcatProperties
<1>9. ASSUME Stands(b, o, te \o l)
      PROVE  /\ o + 1 <= Len(b) /\ b[o + 1] = Token(lits, 0)
             /\ Stands(b, o + 1, e) /\ Stands(b, o + 1 + k, l)
  <2>1. Stands(b, o, te) /\ Stands(b, o + (1 + k), l)
    <3> HIDE DEF te
    <3> QED
      BY <1>1, <1>4, <1>7, <1>9, StandsApart
  <2>2. Stands(b, o, t) /\ Stands(b, o + 1, e)
    BY <1>1, <1>2, <1>3, <2>1, StandsApart
  <2>3. o + 1 <= Len(b) /\ b[o + 1] = t[1]
    BY <1>2, <2>2 DEF Stands
  <2>4. o + (1 + k) = o + 1 + k
    BY <1>3
  <2> QED
    BY <1>6, <2>1, <2>2, <2>3, <2>4
<1> QED
  BY <1>5, <1>8, <1>9 DEF lits, k, e, l

(* A sequence, byte by byte.                                               *)
LEMMA SequenceStands ==
  ASSUME NEW s \in Seq(U8), NEW a \in Nat, NEW j \in a .. Len(s), NEW m,
         m.offset \in 1 .. DISTANCE_MAX, m.len \in Nat, MINMATCH <= m.len,
         NEW b \in Seq(U8), NEW o \in Nat
  PROVE  LET lits == j - a
             rest == m.len - MINMATCH
             p    == o + 1 + ExtensionSize(lits)
             q    == p + lits
         IN  /\ SequenceOf(s, a, j, m) \in Seq(U8)
             /\ Len(SequenceOf(s, a, j, m)) =
                  1 + ExtensionSize(lits) + lits + 2 + ExtensionSize(rest)
             /\ Stands(b, o, SequenceOf(s, a, j, m)) =>
                  /\ o + 1 <= Len(b) /\ b[o + 1] = Token(lits, rest)
                  /\ Stands(b, o + 1, Extension(lits))
                  /\ Stands(b, p, SubSeq(s, a + 1, j))
                  /\ q + 2 <= Len(b)
                  /\ b[q + 1] = m.offset % (MAXBYTE + 1)
                  /\ b[q + 2] = m.offset \div (MAXBYTE + 1)
                  /\ Stands(b, q + 2, Extension(rest))
<1> DEFINE lits == j - a
           rest == m.len - MINMATCH
           k == ExtensionSize(lits)
           h == ExtensionSize(rest)
           t == <<Token(lits, rest)>>
           e == Extension(lits)
           l == SubSeq(s, a + 1, j)
           w == LE16(m.offset)
           f == Extension(rest)
           te == t \o e
           tel == te \o l
           telw == tel \o w
<1>1. lits \in Nat /\ rest \in Nat /\ Len(b) \in Nat
  BY LenProperties, Numbers
<1>2. t \in Seq(U8) /\ Len(t) = 1
  <2>1. Token(lits, rest) \in U8
    BY <1>1, TokenType
  <2> HIDE DEF lits, rest
  <2> QED
    BY <2>1
<1>3. e \in Seq(U8) /\ Len(e) = k /\ k \in Nat /\ f \in Seq(U8) /\ Len(f) = h /\ h \in Nat
  <2> HIDE DEF lits, rest
  <2> QED
    BY <1>1, ExtensionType, ExtensionCost
<1>4. l \in Seq(U8) /\ Len(l) = lits
  BY PartOf
<1>5. w \in Seq(U8) /\ Len(w) = 2
  BY LE16Type
<1>6. w[1] = m.offset % (MAXBYTE + 1) /\ w[2] = m.offset \div (MAXBYTE + 1)
  BY DEF LE16
<1>7. SequenceOf(s, a, j, m) = telw \o f
  BY DEF SequenceOf
<1>8. t[1] = Token(lits, rest)
  OBVIOUS
<1> HIDE DEF lits, rest, k, h, t, e, l, w, f, te, tel, telw
<1>9. te \in Seq(U8) /\ Len(te) = 1 + k
  BY <1>2, <1>3, ConcatProperties DEF te
<1>10. tel \in Seq(U8) /\ Len(tel) = 1 + k + lits
  <2>1. te \o l \in Seq(U8) /\ Len(te \o l) = Len(te) + Len(l)
    BY <1>4, <1>9, ConcatProperties
  <2> QED
    BY <1>4, <1>9, <2>1 DEF tel
<1>11. telw \in Seq(U8) /\ Len(telw) = 1 + k + lits + 2
  <2>1. tel \o w \in Seq(U8) /\ Len(tel \o w) = Len(tel) + Len(w)
    BY <1>5, <1>10, ConcatProperties
  <2> QED
    BY <1>5, <1>10, <2>1 DEF telw
<1>12. telw \o f \in Seq(U8) /\ Len(telw \o f) = 1 + k + lits + 2 + h
  <2>1. telw \o f \in Seq(U8) /\ Len(telw \o f) = Len(telw) + Len(f)
    BY <1>3, <1>11, ConcatProperties
  <2> QED
    BY <1>3, <1>11, <2>1
<1>13. ASSUME Stands(b, o, telw \o f)
       PROVE  /\ o + 1 <= Len(b) /\ b[o + 1] = Token(lits, rest)
              /\ Stands(b, o + 1, e) /\ Stands(b, o + 1 + k, l)
              /\ o + 1 + k + lits + 2 <= Len(b)
              /\ b[o + 1 + k + lits + 1] = w[1] /\ b[o + 1 + k + lits + 2] = w[2]
              /\ Stands(b, o + 1 + k + lits + 2, f)
  <2>1. Stands(b, o, telw) /\ Stands(b, o + (1 + k + lits + 2), f)
    BY <1>1, <1>3, <1>11, <1>13, StandsApart
  <2>2. Stands(b, o, tel) /\ Stands(b, o + (1 + k + lits), w)
    BY <1>1, <1>5, <1>10, <2>1, StandsApart DEF telw
  <2>3. Stands(b, o, te) /\ Stands(b, o + (1 + k), l)
    BY <1>1, <1>4, <1>9, <2>2, StandsApart DEF tel
  <2>4. Stands(b, o, t) /\ Stands(b, o + 1, e)
    BY <1>1, <1>2, <1>3, <2>3, StandsApart DEF te
  <2>5. o + 1 <= Len(b) /\ b[o + 1] = t[1]
    BY <1>2, <2>4 DEF Stands
  <2> DEFINE q == o + 1 + k + lits
  <2>6. /\ o + (1 + k) = o + 1 + k /\ o + (1 + k + lits) = q
        /\ o + (1 + k + lits + 2) = q + 2 /\ q \in Nat
    BY <1>1, <1>3
  <2> HIDE DEF q
  <2>7. q + 2 <= Len(b) /\ b[q + 1] = w[1] /\ b[q + 2] = w[2]
    BY <1>5, <2>2, <2>6 DEF Stands
  <2> QED
    BY <1>8, <2>1, <2>3, <2>4, <2>5, <2>6, <2>7 DEF q
<1> QED
  BY <1>6, <1>7, <1>12, <1>13 DEF lits, rest, k, h, e, l, f
-----------------------------------------------------------------------------
(* How much of src is going to be encoded at least, if no other sequence   *)
(* follows.                                                                *)
End ==
  IF pc = "done" THEN consumed
  ELSE IF limit = "fillOutput" THEN anchor + LastRun ELSE n

(* e is a position in b and one in s.  The sequence that is written there  *)
(* leads to another pair of B, and it begins and ends far enough from the  *)
(* end for the decoder.                                                    *)
Leads(b, s, B, end, e) ==
  \E j \in e[2] .. Len(s), m \in [offset : Nat, len : Nat] :
    /\ IsMatch(s, j, m)
    /\ j + MFLIMIT <= end /\ j + m.len + LASTLITERALS <= end
    /\ Stands(b, e[1], SequenceOf(s, e[2], j, m))
    /\ <<e[1] + Len(SequenceOf(s, e[2], j, m)), j + m.len>> \in B

(* The last literals stand there.                                          *)
Finishes(b, s, c, e) ==
  /\ e[2] <= c
  /\ Stands(b, e[1], LastOf(s, e[2], c))
  /\ e[1] + Len(LastOf(s, e[2], c)) = Len(b)

(* B: where sequences begin, in out and in src.                            *)
Encoded(B) ==
  /\ B \subseteq (0 .. Len(out)) \X (0 .. anchor)
  /\ <<0, 0>> \in B
  /\ pc # "done" => \A e \in B : e = <<Len(out), anchor>> \/ Leads(out, src, B, End, e)
  /\ pc = "done" /\ result > 0 =>
       /\ consumed = anchor
       /\ \A e \in B : Finishes(out, src, consumed, e) \/ Leads(out, src, B, consumed, e)

(* Sequences before another one end farther from the end than that.       *)
LEMMA Earlier ==
  ASSUME NEW i \in Nat, NEW x \in Nat, NEW a \in Nat, NEW j \in Nat, NEW m \in Nat, NEW z \in Nat,
         i + x <= a, a <= j, NEW f \in Nat, NEW l \in Nat, j + f <= z, j + m + l <= z
  PROVE  i + f <= z /\ i + x + l <= z
  OBVIOUS

(* A sequence is added.                                                    *)
LEMMA AddSequence ==
  ASSUME IInv, pc \in {"parse", "overflow"}, pc' \in {"parse", "last"},
         NEW j \in anchor .. n - MFLIMIT, NEW m \in [offset : Nat, len : Nat],
         IsMatch(src, j, m), m.len <= n - LASTLITERALS - j,
         out' = out \o Sequence(j, m), anchor' = j + m.len, src' = src,
         End' \in Nat, j + MFLIMIT <= End', j + m.len + LASTLITERALS <= End',
         NEW B, Encoded(B),
         NEW C, C = B \cup {<<Len(out'), anchor'>>}
  PROVE  Encoded(C)'
<1> DEFINE w == SequenceOf(src, anchor, j, m)
           o == Len(out)
<1>1. /\ src \in Seq(U8) /\ out \in Seq(U8) /\ n \in Nat /\ anchor \in Nat /\ o \in Nat
      /\ anchor <= n /\ n = Len(src)
  BY InvNumbers DEF n
<1>2. MFLIMIT \in Nat /\ LASTLITERALS \in Nat /\ MINMATCH \in Nat
  BY Numbers
<1>3. /\ j \in anchor .. Len(src) /\ j \in Nat /\ m.len \in Nat /\ MINMATCH <= m.len
      /\ m.offset \in 1 .. DISTANCE_MAX
  BY <1>1, <1>2, Lz4Assumption DEF IsMatch
<1>4. Sequence(j, m) = w
  BY DEF Sequence, FirstPart, SequenceOf, Literals
<1>5. w \in Seq(U8) /\ Len(w) \in Nat
  BY <1>1, <1>3, SequenceStands, LenProperties
<1>6. out' = out \o w /\ out' \in Seq(U8) /\ Len(out') = o + Len(w)
  BY <1>1, <1>4, <1>5, ConcatProperties
<1>7. anchor' = j + m.len /\ anchor' \in Nat /\ anchor <= anchor'
  BY <1>1, <1>3
<1>8. /\ B \subseteq (0 .. o) \X (0 .. anchor) /\ <<0, 0>> \in B
      /\ \A e \in B : e = <<o, anchor>> \/ Leads(out, src, B, End, e)
  BY DEF Encoded
<1>9. C \subseteq (0 .. Len(out')) \X (0 .. anchor')
  BY <1>1, <1>5, <1>6, <1>7, <1>8
<1>10. Leads(out', src, C, End', <<o, anchor>>)
  <2>1. Stands(out', o, w)
    BY <1>1, <1>5, <1>6, StandsAppended
  <2>2. <<o + Len(w), j + m.len>> \in C
    BY <1>6, <1>7
  <2> DEFINE e == <<o, anchor>>
  <2>3. e[1] = o /\ e[2] = anchor
    OBVIOUS
  <2> HIDE DEF e
  <2> QED
    BY <1>3, <2>1, <2>2, <2>3 DEF Leads, e
<1>11. ASSUME NEW e \in B, Leads(out, src, B, End, e)
       PROVE  Leads(out', src, C, End', e)
  <2>1. PICK i \in e[2] .. Len(src), x \in [offset : Nat, len : Nat] :
          /\ IsMatch(src, i, x)
          /\ Stands(out, e[1], SequenceOf(src, e[2], i, x))
          /\ <<e[1] + Len(SequenceOf(src, e[2], i, x)), i + x.len>> \in B
    BY <1>11 DEF Leads
  <2>2. e[1] \in Nat /\ e[2] \in Nat
    BY <1>8
  <2> DEFINE v == SequenceOf(src, e[2], i, x)
  <2>3. i \in Nat /\ x.len \in Nat /\ i + x.len \in 0 .. anchor
    BY <1>1, <1>8, <2>1, <2>2
  <2>4. v \in Seq(U8)
    <3>1. x.offset \in 1 .. DISTANCE_MAX /\ x.len \in Nat /\ MINMATCH <= x.len
      BY <2>1, <2>3, Lz4Assumption DEF IsMatch
    <3> QED
      BY <1>1, <2>1, <2>2, <3>1, SequenceStands
  <2> HIDE DEF v
  <2>5. Stands(out', e[1], v)
    BY <1>1, <1>5, <1>6, <2>1, <2>2, <2>4, StandsKept DEF v
  <2>6. i + MFLIMIT <= End' /\ i + x.len + LASTLITERALS <= End'
    <3> DEFINE z == End'
    <3>1. z \in Nat /\ j + MFLIMIT <= z /\ j + m.len + LASTLITERALS <= z
      OBVIOUS
    <3>2. anchor <= j /\ anchor \in Nat
      BY <1>1, <1>3
    <3> HIDE DEF z
    <3>3. i + x.len <= anchor
      BY <2>3
    <3>4. i + MFLIMIT <= z /\ i + x.len + LASTLITERALS <= z
      BY <1>2, <1>3, <2>3, <3>1, <3>2, <3>3, Earlier
    <3> QED
      BY <3>4 DEF z
  <2>7. <<e[1] + Len(v), i + x.len>> \in C
    BY <2>1 DEF v
  <2> QED
    BY <2>1, <2>5, <2>6, <2>7 DEF Leads, v
<1>12. \A e \in C : e = <<Len(out'), anchor'>> \/ Leads(out', src, C, End', e)
  BY <1>8, <1>10, <1>11
<1> QED
  BY <1>8, <1>9, <1>12 DEF Encoded
-----------------------------------------------------------------------------
(* LastRun, by whether all literals fit, how many they are, and the room.  *)
RunOf(fit, all, room) ==
  IF fit THEN all ELSE room - ((room + MAXBYTE + 1 - MASK) \div (MAXBYTE + 1))

(* How many literals end a block at least.                                 *)
LEMMA RunAtLeast ==
  ASSUME NEW fit \in BOOLEAN, NEW all \in Nat, NEW room \in Nat, NEW k \in Nat,
         k <= all, k <= room, k <= MASK - 1
  PROVE  k <= RunOf(fit, all, room) /\ RunOf(fit, all, room) \in Nat
<1>1. MAXBYTE \in Nat \ {0} /\ MASK \in Nat \ {0} /\ MASK <= MAXBYTE
  BY Numbers
<1>2. CASE fit
  BY <1>2 DEF RunOf
<1>3. CASE ~fit
  <2> DEFINE b == MAXBYTE + 1
             x == room + MAXBYTE + 1 - MASK
             q == x \div b
  <2>1. b \in Nat \ {0} /\ x \in Nat /\ RunOf(fit, all, room) = room - q
    BY <1>1, <1>3 DEF RunOf
  <2>2. CASE room < MASK
    <3>1. x < (0 + 1) * b
      BY <1>1, <2>2
    <3> HIDE DEF b, x
    <3>2. q <= 0 /\ q \in Nat
      BY <2>1, <3>1, QuotientAtMost, QuotientTimes
    <3> HIDE DEF q
    <3> QED
      BY <2>1, <3>2
  <2>3. CASE MASK <= room
    <3> DEFINE d == room - MASK
    <3>1. d \in Nat /\ x = d + b
      BY <1>1, <2>3
    <3> HIDE DEF d, b, x
    <3>2. x \div b = (d \div b) + 1
      BY <2>1, <3>1, QuotientNext
    <3>3. d \div b \in Nat /\ d \div b <= d
      <4> DEFINE e == d \div b
      <4>1. e \in Nat /\ e * b \in Nat /\ e * b <= d
        BY <2>1, <3>1, QuotientTimes
      <4> HIDE DEF e
      <4>2. e * 1 <= e * b
        BY <2>1, <4>1, ProductMono
      <4> QED
        BY <2>1, <3>1, <4>1, <4>2 DEF e
    <3>4. q <= room - MASK + 1 /\ q \in Nat
      BY <2>1, <3>1, <3>2, <3>3 DEF d
    <3> HIDE DEF q
    <3> QED
      BY <1>1, <2>1, <2>3, <3>4
  <2> QED
    BY <1>1, <2>2, <2>3
<1> QED
  BY <1>2, <1>3

(* A sequence ends and begins far enough from the end of the block.        *)
LEMMA RunReaches ==
  ASSUME NEW fit \in BOOLEAN, NEW j \in Nat, NEW l \in Nat, NEW k \in Nat, NEW room \in Nat,
         MINMATCH <= l, j + MFLIMIT <= k, j + l + LASTLITERALS <= k,
         LASTLITERALS <= room, l < MINMATCH + MASK => MFLIMIT <= room + l
  PROVE  LET r == RunOf(fit, k - (j + l), room)
         IN  r \in Nat /\ j + MFLIMIT <= j + l + r /\ LASTLITERALS <= r
<1> DEFINE all == k - (j + l)
           r == RunOf(fit, all, room)
           x == IF MFLIMIT <= l THEN 0 ELSE MFLIMIT - l
<1>1. /\ MASK \in Nat /\ LASTLITERALS \in Nat /\ MFLIMIT \in Nat /\ MINMATCH \in Nat
      /\ LASTLITERALS <= MASK - 1 /\ MFLIMIT - MINMATCH <= MASK - 1 /\ 2 * LASTLITERALS <= MASK - 1
  BY Lz4Assumption
<1>2. all \in Nat /\ LASTLITERALS <= all /\ x \in Nat /\ x <= all
  BY <1>1
<1>3. x <= MASK - 1
  BY <1>1
<1>4. x <= room
  BY <1>1
<1> HIDE DEF x, all, r
<1>5. x <= r /\ r \in Nat
  BY <1>2, <1>3, <1>4, RunAtLeast DEF r
<1>6. LASTLITERALS <= r
  BY <1>1, <1>2, RunAtLeast DEF r
<1> QED
  BY <1>1, <1>5, <1>6 DEF x, r, all

(* What Matches says of a match.                                           *)
LEMMA FoundMatch ==
  ASSUME IInv, NEW j \in anchor .. n - MFLIMIT, NEW m \in Matches(j)
  PROVE  /\ m \in [offset : Nat, len : Nat] /\ IsMatch(src, j, m)
         /\ m.len <= n - LASTLITERALS - j /\ j \in Nat
<1>1. n \in Nat /\ anchor \in Nat /\ MFLIMIT \in Nat /\ DISTANCE_MAX \in Nat
      /\ MINMATCH \in Nat /\ LASTLITERALS \in Nat
  BY InvNumbers, Numbers, Lz4Assumption
<1> DEFINE most == IF j < DISTANCE_MAX THEN j ELSE DISTANCE_MAX
<1>2. m \in [offset : 1 .. most, len : MINMATCH .. (n - LASTLITERALS - j)]
      /\ \A i \in 1 .. m.len : src[j + i] = src[j - m.offset + i]
  BY DEF Matches
<1>3. j \in Nat /\ most \in Nat /\ most <= j /\ most <= DISTANCE_MAX
  BY <1>1
<1> HIDE DEF most
<1>4. m.offset \in 1 .. most /\ m.len \in MINMATCH .. (n - LASTLITERALS - j)
      /\ m = [offset |-> m.offset, len |-> m.len]
  BY <1>2
<1>5. /\ m.offset \in 1 .. j /\ m.offset <= DISTANCE_MAX /\ m.offset \in Nat
      /\ m.len \in Nat /\ MINMATCH <= m.len /\ m.len <= n - LASTLITERALS - j
  BY <1>1, <1>3, <1>4
<1> QED
  BY <1>2, <1>3, <1>4, <1>5 DEF IsMatch

(* What is going to be encoded after a sequence was written.               *)
LEMMA EndAfter ==
  ASSUME n \in Nat, NEW j \in Nat, NEW l \in Nat,
         MINMATCH <= l, j + MFLIMIT <= n, j + l + LASTLITERALS <= n,
         pc' # "done", src' = src, limit' = limit, capacity' = capacity, anchor' = j + l,
         limit = "fillOutput" =>
           LET room == capacity - Len(out') - 1
           IN  /\ room \in Nat /\ LASTLITERALS <= room
               /\ l < MINMATCH + MASK => MFLIMIT <= room + l
  PROVE  End' \in Nat /\ j + MFLIMIT <= End' /\ j + l + LASTLITERALS <= End'
<1>1. n' = n
  BY DEF n
<1>2. CASE limit # "fillOutput"
  <2>1. End' = n
    BY <1>1, <1>2 DEF End
  <2> QED
    BY <2>1
<1>3. CASE limit = "fillOutput"
  <2> DEFINE room == capacity - Len(out') - 1
             fit == limit' = "notLimited" \/ LiteralsCost(n' - anchor') <= room + 1
             r == RunOf(fit, n - (j + l), room)
  <2>1. fit \in BOOLEAN
    OBVIOUS
  <2>2. room \in Nat /\ LASTLITERALS <= room /\ (l < MINMATCH + MASK => MFLIMIT <= room + l)
    BY <1>3
  <2>3. LastRun' = r
    BY <1>1 DEF LastRun, RunOf
  <2>4. End' = anchor' + LastRun'
    BY <1>3 DEF End
  <2> HIDE DEF room, fit
  <2>5. r \in Nat /\ j + MFLIMIT <= j + l + r /\ LASTLITERALS <= r
    BY <2>1, <2>2, RunReaches
  <2> HIDE DEF r
  <2>6. End' = j + l + r
    BY <2>3, <2>4
  <2>7. j + l + LASTLITERALS <= j + l + r /\ j + l + r \in Nat
    BY <2>5, Numbers
  <2> QED
    BY <2>5, <2>6, <2>7
<1> QED
  BY <1>2, <1>3

(* A sequence that fits is added.                                          *)
LEMMA EncodeAdds ==
  ASSUME IInv, NEW j \in anchor .. n - MFLIMIT, NEW m \in Matches(j), EncodeSequence(j, m),
         NEW B, Encoded(B), NEW C, C = B \cup {<<Len(out'), anchor'>>}
  PROVE  Encoded(C)'
<1>1. /\ pc = "parse" /\ pc' = "parse" /\ Fits(j, m)
      /\ out' = out \o Sequence(j, m) /\ anchor' = j + m.len
      /\ UNCHANGED <<src, capacity, limit>>
  BY DEF EncodeSequence
<1>2. /\ m \in [offset : Nat, len : Nat] /\ IsMatch(src, j, m)
      /\ m.len <= n - LASTLITERALS - j /\ j \in Nat
  BY FoundMatch
<1>3. /\ src \in Seq(U8) /\ out \in Seq(U8) /\ n \in Nat /\ anchor \in Nat /\ capacity \in Nat
      /\ MINMATCH \in Nat /\ LASTLITERALS \in Nat \ {0} /\ MFLIMIT \in Nat /\ MASK \in Nat
      /\ Len(out) \in Nat /\ MAXBYTE \in Nat \ {0}
  BY InvNumbers, Numbers
<1>4. /\ m.len \in Nat /\ MINMATCH <= m.len /\ m.offset \in 1 .. DISTANCE_MAX
      /\ j \in anchor .. n
  BY <1>2, <1>3, Lz4Assumption DEF IsMatch
<1> DEFINE rest == m.len - MINMATCH
           p == Len(out) + Len(FirstPart(j, m))
           h == ExtensionSize(rest)
           room == capacity - Len(out') - 1
<1>5. /\ FirstPart(j, m) \in Seq(U8) /\ Sequence(j, m) \in Seq(U8)
      /\ Len(Sequence(j, m)) = Len(FirstPart(j, m)) + 2 + h
  <2>1. m.len >= MINMATCH
    BY <1>3, <1>4
  <2>2. /\ FirstPart(j, m) \in Seq(U8) /\ Sequence(j, m) \in Seq(U8)
        /\ Len(FirstPart(j, m)) = 1 + ExtensionSize(j - anchor) + (j - anchor)
        /\ Len(Sequence(j, m)) = 1 + ExtensionSize(j - anchor) + (j - anchor) + 2 + h
    BY <1>3, <1>4, <2>1, SequenceBytes
  <2> QED
    BY <2>2
<1>6. rest \in Nat /\ h \in Nat /\ h <= rest \div MAXBYTE + 1 /\ (rest < MASK => h = 0)
      /\ rest \div MAXBYTE \in Nat
  <2>1. rest \in Nat
    BY <1>3, <1>4
  <2> HIDE DEF rest
  <2> QED
    BY <1>3, <2>1, ExtensionCost, QuotientTimes
<1>7. Len(out') = p + 2 + h /\ p \in Nat
  <2>1. Len(out \o Sequence(j, m)) = Len(out) + Len(Sequence(j, m))
    BY <1>3, <1>5, ConcatProperties
  <2>2. Len(FirstPart(j, m)) \in Nat
    BY <1>5, LenProperties
  <2> HIDE DEF h
  <2> QED
    BY <1>1, <1>3, <1>5, <1>6, <2>1, <2>2
<1>8. ASSUME limit = "fillOutput"
      PROVE  /\ room \in Nat /\ LASTLITERALS <= room
             /\ m.len < MINMATCH + MASK => MFLIMIT <= room + m.len
  <2>1. RoomForMatch(Len(out \o FirstPart(j, m)) + 2, rest)
    BY <1>1, <1>8 DEF Fits
  <2>2. Len(out \o FirstPart(j, m)) = p
    BY <1>3, <1>5, ConcatProperties
  <2>3. Oend = capacity - LASTLITERALS
    BY <1>8 DEF Oend
  <2>4. p + 2 + (rest \div MAXBYTE) + (1 + LASTLITERALS) <= capacity - LASTLITERALS
    BY <2>1, <2>2, <2>3 DEF RoomForMatch
  <2>5. m.len = rest + MINMATCH
    BY <1>3, <1>4
  <2>6. MFLIMIT <= 2 * LASTLITERALS + MINMATCH
    BY Lz4Assumption
  <2>7. LASTLITERALS + h + p + 3 <= capacity /\ (rest < MASK => 2 * LASTLITERALS + p + 3 <= capacity)
    <3> DEFINE d == rest \div MAXBYTE
    <3> HIDE DEF d, p, h, rest
    <3>1. d \in Nat /\ h <= d + 1 /\ p + 2 + d + (1 + LASTLITERALS) <= capacity - LASTLITERALS
      BY <1>6, <2>4 DEF d
    <3> QED
      BY <1>3, <1>6, <1>7, <3>1
  <2> HIDE DEF p, h, rest
  <2> QED
    BY <1>3, <1>4, <1>6, <1>7, <2>5, <2>6, <2>7
<1>9. End' \in Nat /\ j + MFLIMIT <= End' /\ j + m.len + LASTLITERALS <= End'
  <2> DEFINE l == m.len
  <2>1. /\ l \in Nat /\ MINMATCH <= l /\ j + MFLIMIT <= n /\ j + l + LASTLITERALS <= n
        /\ anchor' = j + l
    BY <1>1, <1>2, <1>3, <1>4
  <2>2. limit = "fillOutput" =>
          /\ room \in Nat /\ LASTLITERALS <= room
          /\ l < MINMATCH + MASK => MFLIMIT <= room + l
    BY <1>8
  <2> HIDE DEF l
  <2>3. End' \in Nat /\ j + MFLIMIT <= End' /\ j + l + LASTLITERALS <= End'
    BY <1>1, <1>2, <1>3, <2>1, <2>2, EndAfter
  <2> QED
    BY <2>3 DEF l
<1> QED
  BY <1>1, <1>2, <1>9, AddSequence

(* So is one that is shortened.                                            *)
LEMMA ShortenedMatch ==
  ASSUME IInv, pc = "overflow", NEW m \in Shortened
  PROVE  /\ m \in [offset : Nat, len : Nat] /\ IsMatch(src, over.ip, m)
         /\ m.len <= n - LASTLITERALS - over.ip
         /\ over.ip \in anchor .. n - MFLIMIT /\ over.ip \in Nat
<1> DEFINE j == over.ip
           v == over.m
<1>1. j \in anchor .. n - MFLIMIT /\ v \in Matches(j)
  BY DEF IInv, OverflowKnown
<1>2. /\ v \in [offset : Nat, len : Nat] /\ IsMatch(src, j, v)
      /\ v.len <= n - LASTLITERALS - j /\ j \in Nat
  <2> HIDE DEF j, v
  <2> QED
    BY <1>1, FoundMatch
<1>3. m.offset \in 1 .. DISTANCE_MAX /\ m.len \in MINMATCH .. n - LASTLITERALS - j
  BY ShortenedSequence
<1>4. PICK len : m = [v EXCEPT !.len = len] /\ (len = v.len \/ v.len > len)
  BY DEF Shortened
<1>5. n \in Nat /\ LASTLITERALS \in Nat /\ MINMATCH \in Nat
  BY InvNumbers, Numbers
<1> HIDE DEF j, v
<1>6. m.len = len /\ m.offset = v.offset /\ m = [offset |-> v.offset, len |-> len]
  BY <1>2, <1>4
<1>7. len \in Nat /\ MINMATCH <= len /\ len <= n - LASTLITERALS - j
  BY <1>2, <1>3, <1>5, <1>6
<1>8. len <= v.len /\ v.len \in Nat
  BY <1>2, <1>4, <1>7
<1>9. \A i \in 1 .. len : src[j + i] = src[j - v.offset + i]
  BY <1>2, <1>7, <1>8 DEF IsMatch
<1>10. IsMatch(src, j, m)
  BY <1>2, <1>6, <1>7, <1>9 DEF IsMatch
<1> QED
  BY <1>1, <1>2, <1>6, <1>7, <1>10 DEF j

LEMMA ShortenAdds ==
  ASSUME IInv, ShortenSequence, NEW m \in Shortened,
         out' = out \o Sequence(over.ip, m), anchor' = over.ip + m.len,
         NEW B, Encoded(B), NEW C, C = B \cup {<<Len(out'), anchor'>>}
  PROVE  Encoded(C)'
<1> DEFINE j == over.ip
           ll == j - anchor
           rest == m.len - MINMATCH
           h == ExtensionSize(rest)
           litEnd == Len(out) + LiteralsCost(ll)
           left == (Oend - 3) - litEnd
           room == capacity - Len(out') - 1
<1>1. /\ pc = "overflow" /\ pc' = "last" /\ UNCHANGED <<src, capacity, limit>>
      /\ limit = "fillOutput"
  BY DEF ShortenSequence, IInv, OverflowKnown
<1>2. /\ m \in [offset : Nat, len : Nat] /\ IsMatch(src, j, m)
      /\ m.len <= n - LASTLITERALS - j /\ j \in anchor .. n - MFLIMIT /\ j \in Nat
  BY <1>1, ShortenedMatch
<1>3. /\ src \in Seq(U8) /\ out \in Seq(U8) /\ n \in Nat /\ anchor \in Nat /\ capacity \in Nat
      /\ MINMATCH \in Nat /\ LASTLITERALS \in Nat \ {0} /\ MFLIMIT \in Nat /\ MASK \in Nat \ {0}
      /\ Len(out) \in Nat /\ MAXBYTE \in Nat \ {0}
  BY InvNumbers, Numbers
<1>4. Oend = capacity - LASTLITERALS /\ left >= 0 /\ m.len <= MaxMatch(left)
      /\ WorthShortening(litEnd, m.len)
  <2> DEFINE len == IF over.m.len > MaxMatch(left) THEN MaxMatch(left) ELSE over.m.len
  <2>1. left >= 0 /\ WorthShortening(litEnd, len) /\ m = [over.m EXCEPT !.len = len]
    BY DEF Shortened
  <2>2. over.m \in [offset : Nat, len : Nat]
    <3> DEFINE v == over.m
    <3>1. v \in Matches(j)
      BY <1>1 DEF IInv, OverflowKnown
    <3> HIDE DEF v, j
    <3>2. v \in [offset : Nat, len : Nat]
      BY <1>2, <3>1, FoundMatch
    <3> QED
      BY <3>2 DEF v
  <2>3. MaxMatch(left) \in Int
    <3>1. LiteralsCost(ll) \in Int
      <4>1. ll \in Nat
        BY <1>2, <1>3
      <4> HIDE DEF ll
      <4>2. LiteralsCost(ll) = 1 + ExtensionSize(ll) + ll /\ ExtensionSize(ll) \in Nat
        BY <4>1, LiteralsCostIs, ExtensionCost
      <4> QED
        BY <4>1, <4>2
    <3>2. left \in Int
      BY <1>1, <1>3, <3>1 DEF Oend
    <3> HIDE DEF left
    <3> QED
      BY <1>3, <3>2 DEF MaxMatch
  <2>4. m.len = len /\ len <= MaxMatch(left)
    <3> HIDE DEF left
    <3> QED
      BY <2>1, <2>2, <2>3
  <2>5. Oend = capacity - LASTLITERALS
    BY <1>1 DEF Oend
  <2> QED
    BY <2>1, <2>4, <2>5
<1>5. /\ m.len \in Nat /\ MINMATCH <= m.len /\ m.len >= MINMATCH /\ m.offset \in 1 .. DISTANCE_MAX
      /\ j \in anchor .. n
  BY <1>2, <1>3, Lz4Assumption DEF IsMatch
<1>6. ll \in Nat /\ rest \in Nat
  BY <1>2, <1>3, <1>5
<1>7. /\ LiteralsCost(ll) = 1 + ExtensionSize(ll) + ll /\ ExtensionSize(ll) \in Nat
      /\ h \in Nat /\ (rest < MASK => h = 0)
  <2> HIDE DEF ll, rest
  <2> QED
    BY <1>6, LiteralsCostIs, ExtensionCost
<1>8. Len(out') = litEnd + 2 + h /\ litEnd \in Nat
  <2>1. /\ Sequence(j, m) \in Seq(U8)
        /\ Len(Sequence(j, m)) = 1 + ExtensionSize(j - anchor) + (j - anchor) + 2 + h
    <3> HIDE DEF j
    <3> QED
      BY <1>3, <1>5, SequenceBytes
  <2>2. Len(out \o Sequence(j, m)) = Len(out) + Len(Sequence(j, m))
    <3> HIDE DEF j
    <3> QED
      BY <1>3, <2>1, ConcatProperties
  <2>3. Len(out') = Len(out) + (1 + ExtensionSize(ll) + ll + 2 + h)
    BY <2>1, <2>2
  <2> HIDE DEF ll, h
  <2> QED
    BY <1>3, <1>6, <1>7, <2>3
<1>9. h <= left /\ left \in Nat
  <2>1. left \in Nat
    <3> HIDE DEF litEnd
    <3> QED
      BY <1>3, <1>4, <1>8
  <2> HIDE DEF left
  <2>2. left * MAXBYTE \in Nat
    BY <1>3, <2>1
  <2>3. rest < MASK + left * MAXBYTE
    BY <1>3, <1>4, <1>5, <2>1, <2>2 DEF MaxMatch
  <2> HIDE DEF rest
  <2> QED
    BY <1>6, <2>1, <2>3, ExtensionFits
<1>10. /\ room \in Nat /\ LASTLITERALS <= room
       /\ m.len < MINMATCH + MASK => MFLIMIT <= room + m.len
  <2>1. capacity - (litEnd + 2) - 1 + m.len >= MFLIMIT
    BY <1>3, <1>4 DEF WorthShortening
  <2>2. left = capacity - LASTLITERALS - 3 - litEnd
    BY <1>3, <1>4, <1>8
  <2>3. m.len = rest + MINMATCH
    BY <1>3, <1>5
  <2> HIDE DEF litEnd, h, rest, left
  <2> QED
    BY <1>3, <1>5, <1>6, <1>7, <1>8, <1>9, <2>1, <2>2, <2>3
<1>11. End' \in Nat /\ j + MFLIMIT <= End' /\ j + m.len + LASTLITERALS <= End'
  <2> DEFINE l == m.len
  <2>1. /\ l \in Nat /\ MINMATCH <= l /\ j + MFLIMIT <= n /\ j + l + LASTLITERALS <= n
        /\ anchor' = j + l
    BY <1>1, <1>2, <1>3, <1>5
  <2>2. /\ room \in Nat /\ LASTLITERALS <= room
        /\ l < MINMATCH + MASK => MFLIMIT <= room + l
    BY <1>10
  <2> HIDE DEF l, j
  <2>3. End' \in Nat /\ j + MFLIMIT <= End' /\ j + l + LASTLITERALS <= End'
    BY <1>1, <1>2, <1>3, <2>1, <2>2, EndAfter
  <2> QED
    BY <2>3 DEF l
<1>12. out' = out \o Sequence(j, m) /\ anchor' = j + m.len
  OBVIOUS
<1> HIDE DEF j
<1> QED
  BY <1>1, <1>2, <1>11, <1>12, AddSequence
-----------------------------------------------------------------------------
(* What leads on still does when more is written.                          *)
LEMMA LeadsKept ==
  ASSUME NEW s \in Seq(U8), NEW b \in Seq(U8), NEW w \in Seq(U8), NEW B, NEW z,
         NEW e, e[1] \in Nat, e[2] \in Nat, Leads(b, s, B, z, e)
  PROVE  Leads(b \o w, s, B, z, e)
<1>1. PICK i \in e[2] .. Len(s), x \in [offset : Nat, len : Nat] :
        /\ IsMatch(s, i, x)
        /\ i + MFLIMIT <= z /\ i + x.len + LASTLITERALS <= z
        /\ Stands(b, e[1], SequenceOf(s, e[2], i, x))
        /\ <<e[1] + Len(SequenceOf(s, e[2], i, x)), i + x.len>> \in B
  BY DEF Leads
<1> DEFINE v == SequenceOf(s, e[2], i, x)
<1>2. x.offset \in 1 .. DISTANCE_MAX /\ x.len \in Nat /\ MINMATCH <= x.len
  <2>1. i \in Nat /\ x.offset \in 1 .. i
    BY <1>1, LenProperties DEF IsMatch
  <2> QED
    BY <1>1, <2>1, Lz4Assumption DEF IsMatch
<1>3. v \in Seq(U8)
  BY <1>1, <1>2, SequenceStands
<1> HIDE DEF v
<1>4. Stands(b \o w, e[1], v)
  BY <1>1, <1>3, StandsKept DEF v
<1> QED
  BY <1>1, <1>4 DEF Leads, v

(* The block ends with its last literals.                                  *)
LEMMA LastAdds ==
  ASSUME IInv, LastLiterals, NEW B, Encoded(B)
  PROVE  Encoded(B)'
<1>1. /\ pc # "done" /\ pc' = "done" /\ UNCHANGED <<src, limit>>
  BY DEF LastLiterals
<1>2. /\ src \in Seq(U8) /\ out \in Seq(U8) /\ n \in Nat /\ anchor \in Nat
      /\ anchor <= n /\ n = Len(src) /\ Len(out) \in Nat
  BY InvNumbers DEF n
<1>3. result = 0
  BY <1>1 DEF IInv, NothingReported
<1>4. /\ B \subseteq (0 .. Len(out)) \X (0 .. anchor) /\ <<0, 0>> \in B
      /\ \A e \in B : e = <<Len(out), anchor>> \/ Leads(out, src, B, End, e)
  BY <1>1 DEF Encoded
<1>5. CASE TooSmall /\ UNCHANGED <<anchor, out, reach, consumed, result>>
  BY <1>1, <1>3, <1>4, <1>5 DEF Encoded
<1>6. CASE /\ ~TooSmall
           /\ out' = out \o <<Token(LastRun, 0)>> \o Extension(LastRun)
                          \o Literals(anchor, anchor + LastRun)
           /\ anchor' = anchor + LastRun
           /\ consumed' = anchor'
  <2> DEFINE r == LastRun
             c == anchor + r
             t == <<Token(r, 0)>>
             x == Extension(r)
             l == SubSeq(src, anchor + 1, c)
             w == LastOf(src, anchor, c)
  <2>1. r \in 0 .. n - anchor /\ (limit # "fillOutput" => r = n - anchor)
    BY <1>1, <1>6, LastRunFits
  <2>2. End = c
    <3> HIDE DEF r
    <3>1. limit # "fillOutput" => n = c
      BY <1>2, <2>1
    <3> QED
      BY <1>1, <3>1 DEF End, r
  <2>3. /\ out' = ((out \o t) \o x) \o l /\ anchor' = c /\ consumed' = c
    BY <1>6 DEF Literals
  <2> HIDE DEF r
  <2>4. r \in Nat /\ c \in anchor .. Len(src) /\ c - anchor = r /\ c \in Nat /\ anchor <= c
    BY <1>2, <2>1
  <2>5. t \in Seq(U8)
    <3>1. Token(r, 0) \in U8
      BY <2>4, TokenType
    <3> QED
      BY <3>1
  <2>6. x \in Seq(U8)
    BY <2>4, ExtensionType
  <2> HIDE DEF c
  <2>7. l \in Seq(U8)
    BY <1>2, <2>4, PartOf
  <2>8. w = (t \o x) \o l
    BY <2>4 DEF LastOf
  <2> HIDE DEF t, x, l, w
  <2>9. out' = out \o w /\ w \in Seq(U8)
    <3> DEFINE tx == t \o x
    <3>1. tx \in Seq(U8) /\ (out \o t) \o x = out \o tx
      BY <1>2, <2>5, <2>6, ConcatAssociative, ConcatProperties
    <3>2. w = tx \o l
      BY <2>8
    <3>3. out' = (out \o tx) \o l
      BY <2>3, <3>1
    <3> HIDE DEF tx
    <3>4. (out \o tx) \o l = out \o (tx \o l) /\ tx \o l \in Seq(U8)
      BY <1>2, <2>7, <3>1, ConcatAssociative, ConcatProperties
    <3> QED
      BY <3>2, <3>3, <3>4
  <2>10. out' \in Seq(U8) /\ Len(out') = Len(out) + Len(w) /\ Len(w) \in Nat
    BY <1>2, <2>9, ConcatProperties, LenProperties
  <2>11. Stands(out', Len(out), w)
    BY <1>2, <2>9, StandsAppended
  <2>12. Finishes(out', src, c, <<Len(out), anchor>>)
    <3> DEFINE e == <<Len(out), anchor>>
    <3>1. e[1] = Len(out) /\ e[2] = anchor
      OBVIOUS
    <3> HIDE DEF e
    <3> QED
      BY <2>4, <2>10, <2>11, <3>1 DEF Finishes, w, e
  <2>13. ASSUME NEW e \in B PROVE Finishes(out', src, c, e) \/ Leads(out', src, B, c, e)
    <3>1. CASE e = <<Len(out), anchor>>
      BY <2>12, <3>1
    <3>2. CASE Leads(out, src, B, c, e)
      <4>1. e[1] \in Nat /\ e[2] \in Nat
        BY <1>2, <1>4
      <4> QED
        BY <1>2, <2>9, <3>2, <4>1, LeadsKept
    <3> QED
      BY <1>4, <2>2, <3>1, <3>2
  <2>14. B \subseteq (0 .. Len(out')) \X (0 .. anchor')
    BY <1>2, <1>4, <2>3, <2>4, <2>10
  <2> QED
    BY <1>1, <1>4, <2>3, <2>13, <2>14 DEF Encoded
<1> QED
  BY <1>5, <1>6 DEF LastLiterals

(* A sequence that cannot be written leaves all as it is.                  *)
LEMMA OverflowAdds ==
  ASSUME IInv, NEW j, NEW m, Overflow(j, m), NEW B, Encoded(B)
  PROVE  Encoded(B)'
<1>1. /\ pc = "parse" /\ UNCHANGED <<src, capacity, limit, anchor, out, result>>
      /\ limit = "fillOutput" => pc' = "overflow"
      /\ limit # "fillOutput" => pc' = "done"
  BY DEF Overflow
<1>2. result = 0
  BY <1>1 DEF IInv, NothingReported
<1>3. limit = "fillOutput" => End' = End
  BY <1>1 DEF End, LastRun, n
<1> QED
  BY <1>1, <1>2, <1>3 DEF Encoded

LEMMA ShortenDrops ==
  ASSUME IInv, ShortenSequence, UNCHANGED <<anchor, out, reach>>, NEW B, Encoded(B)
  PROVE  Encoded(B)'
<1>1. /\ pc = "overflow" /\ pc' = "last" /\ UNCHANGED <<src, capacity, limit, anchor, out>>
  BY DEF ShortenSequence
<1>2. End' = End
  BY <1>1 DEF End, LastRun, n
<1> QED
  BY <1>1, <1>2 DEF Encoded

(* Whatever the encoder does, there is such a list.                        *)
LEMMA EncoderAdds ==
  ASSUME IInv, Next, NEW B, Encoded(B)
  PROVE  \E C : Encoded(C)'
<1>1. ASSUME NEW j \in anchor .. n - MFLIMIT, NEW m \in Matches(j), EncodeSequence(j, m)
      PROVE  \E C : Encoded(C)'
  <2>1. PICK C : C = B \cup {<<Len(out'), anchor'>>}
    OBVIOUS
  <2>2. Encoded(C)'
    BY <1>1, <2>1, EncodeAdds
  <2> QED
    BY <2>2
<1>2. ASSUME NEW j, NEW m, Overflow(j, m) PROVE \E C : Encoded(C)'
  <2>1. Encoded(B)'
    BY <1>2, OverflowAdds
  <2> QED
    BY <2>1
<1>3. CASE ShortenSequence
  <2>1. CASE UNCHANGED <<anchor, out, reach>>
    <3>1. Encoded(B)'
      BY <1>3, <2>1, ShortenDrops
    <3> QED
      BY <3>1
  <2>2. ASSUME NEW m \in Shortened, out' = out \o Sequence(over.ip, m),
               anchor' = over.ip + m.len
        PROVE  \E C : Encoded(C)'
    <3>1. PICK C : C = B \cup {<<Len(out'), anchor'>>}
      OBVIOUS
    <3>2. Encoded(C)'
      BY <1>3, <2>2, <3>1, ShortenAdds
    <3> QED
      BY <3>2
  <2> QED
    BY <1>3, <2>1, <2>2 DEF ShortenSequence
<1>4. CASE LastLiterals
  <2>1. Encoded(B)'
    BY <1>4, LastAdds
  <2> QED
    BY <2>1
<1> QED
  BY <1>1, <1>2, <1>3, <1>4 DEF Next
-----------------------------------------------------------------------------
(* What the decoder has produced is what src begins with.                  *)
Produced ==
  /\ dst \in Seq(U8) /\ Len(dst) <= Len(src)
  /\ \A i \in 1 .. Len(dst) : dst[i] = src[i]

(* The distance and the length of a match are about to be read.            *)
MatchNext(B) ==
  \E m \in [offset : Nat, len : Nat] :
    LET rest == m.len - MINMATCH
    IN  /\ IsMatch(src, Len(dst), m)
        /\ Len(dst) + m.len + LASTLITERALS <= consumed
        /\ ip + 2 <= Len(out)
        /\ out[ip + 1] = m.offset % (MAXBYTE + 1)
        /\ out[ip + 2] = m.offset \div (MAXBYTE + 1)
        /\ Stands(out, ip + 2, Extension(rest))
        /\ token % (MASK + 1) = Short(rest)
        /\ <<ip + 2 + ExtensionSize(rest), Len(dst) + m.len>> \in B

(* The decoder goes from one beginning of a sequence to the next.          *)
Decoding(B) ==
  /\ step \in {"idle", "literals", "match", "done"}
  /\ ip \in Nat /\ Produced
  /\ step = "idle" => Len(dst) = 0 /\ ip = 0
  /\ step # "idle" => pc = "done" /\ result > 0 /\ size = consumed
  /\ step = "literals" => <<ip, Len(dst)>> \in B
  /\ step = "match" => MatchNext(B)
  /\ step = "done" => Len(dst) = consumed /\ ip = Len(out)

(* What is known while the decoder reads.                                  *)
LEMMA ReadNumbers ==
  ASSUME IInv, NEW B, Encoded(B), Decoding(B), step # "idle"
  PROVE  /\ src \in Seq(U8) /\ out \in Seq(U8) /\ Len(src) \in Nat /\ Len(out) \in Nat
         /\ dst \in Seq(U8) /\ Len(dst) \in Nat /\ ip \in Nat
         /\ consumed \in 0 .. Len(src) /\ consumed \in Nat /\ size = consumed
         /\ B \subseteq (0 .. Len(out)) \X (0 .. consumed)
         /\ \A e \in B : Finishes(out, src, consumed, e) \/ Leads(out, src, B, consumed, e)
<1>1. pc = "done" /\ result > 0 /\ size = consumed
  BY DEF Decoding
<1>2. /\ src \in Seq(U8) /\ out \in Seq(U8) /\ Len(src) \in Nat /\ Len(out) \in Nat
      /\ consumed \in 0 .. Len(src)
  BY InvNumbers DEF IInv, TypeOK, n
<1>3. dst \in Seq(U8) /\ Len(dst) \in Nat /\ ip \in Nat
  BY LenProperties DEF Decoding, Produced
<1>4. /\ consumed = anchor
      /\ B \subseteq (0 .. Len(out)) \X (0 .. anchor)
      /\ \A e \in B : Finishes(out, src, consumed, e) \/ Leads(out, src, B, consumed, e)
  BY <1>1 DEF Encoded
<1> QED
  BY <1>1, <1>2, <1>3, <1>4

(* More of src is produced.                                                *)
LEMMA ProducesMore ==
  ASSUME src' = src, src \in Seq(U8), Produced, NEW w \in Seq(U8), dst' = dst \o w,
         Len(dst) + Len(w) <= Len(src),
         \A i \in 1 .. Len(w) : w[i] = src[Len(dst) + i]
  PROVE  Produced' /\ Len(dst') = Len(dst) + Len(w)
<1>1. dst \in Seq(U8) /\ Len(dst) \in Nat /\ Len(w) \in Nat
  BY LenProperties DEF Produced
<1>2. dst' \in Seq(U8) /\ Len(dst') = Len(dst) + Len(w)
  BY <1>1, ConcatProperties
<1>3. ASSUME NEW i \in 1 .. Len(dst') PROVE dst'[i] = src[i]
  <2>1. i \in 1 .. Len(dst) + Len(w)
    BY <1>2
  <2>2. (dst \o w)[i] = IF i <= Len(dst) THEN dst[i] ELSE w[i - Len(dst)]
    BY <1>1, <2>1, ConcatProperties
  <2>3. CASE i <= Len(dst)
    BY <1>1, <2>1, <2>2, <2>3 DEF Produced
  <2>4. CASE ~(i <= Len(dst))
    <3> DEFINE k == i - Len(dst)
    <3>1. k \in 1 .. Len(w) /\ Len(dst) + k = i
      BY <1>1, <2>1, <2>4
    <3>2. dst'[i] = w[k]
      BY <2>2, <2>4
    <3> HIDE DEF k
    <3> QED
      BY <3>1, <3>2
  <2> QED
    BY <2>3, <2>4
<1> QED
  BY <1>2, <1>3 DEF Produced

(* A token and literals that are read.                                     *)
LEMMA AheadOfLiterals ==
  ASSUME ip \in Nat, out \in Seq(U8), NEW lits \in Nat, NEW rest \in Nat,
         ip + 1 <= Len(out), out[ip + 1] = Token(lits, rest),
         Stands(out, ip + 1, Extension(lits)),
         ip + 1 + ExtensionSize(lits) + lits <= Len(out)
  PROVE  Decoder!LiteralsAhead = {[len |-> lits, next |-> ip + 1 + ExtensionSize(lits)]}
<1> DEFINE l == [len |-> lits, next |-> ip + 1 + ExtensionSize(lits)]
<1>1. Decoder!LengthAt(out[ip + 1] \div (MASK + 1), ip + 1) = {l}
  <2>1. out[ip + 1] \div (MASK + 1) = Short(lits)
    BY TokenRead
  <2>2. ip + 1 \in Nat
    OBVIOUS
  <2>3. Decoder!LengthAt(Short(lits), ip + 1) = {l}
    BY <2>2, LengthRead
  <2> QED
    BY <2>1, <2>3
<1>2. ip # Len(out)
  BY LenProperties
<1>3. l.next + l.len <= Len(out)
  OBVIOUS
<1>4. Decoder!LiteralsAhead = {x \in {l} : x.len > Decoder!left \/ x.next + x.len <= Len(out)}
  BY <1>1, <1>2 DEF Decoder!LiteralsAhead
<1> HIDE DEF l
<1> QED
  BY <1>3, <1>4 DEF l

LEMMA ReadsLiterals ==
  ASSUME IInv, NEW B, Encoded(B), Decoding(B), step = "literals",
         Decoder!Literals, UNCHANGED vars, NEW lits \in Nat, NEW rest \in Nat,
         Len(dst) + lits <= consumed,
         ip + 1 <= Len(out), out[ip + 1] = Token(lits, rest),
         Stands(out, ip + 1, Extension(lits)),
         Stands(out, ip + 1 + ExtensionSize(lits), SubSeq(src, Len(dst) + 1, Len(dst) + lits))
  PROVE  /\ Produced' /\ Len(dst') = Len(dst) + lits
         /\ ip' = ip + 1 + ExtensionSize(lits) + lits /\ ip' \in Nat
         /\ token' = Token(lits, rest) /\ size' = size
         /\ step' = Decoder!AfterLiterals(consumed - (Len(dst) + lits))
<1> DEFINE p == ip + 1 + ExtensionSize(lits)
           a == Len(dst)
           j == Len(dst) + lits
           w == SubSeq(out, p + 1, p + lits)
           v == SubSeq(src, a + 1, j)
<1>1. /\ src \in Seq(U8) /\ out \in Seq(U8) /\ Len(src) \in Nat /\ Len(out) \in Nat
      /\ dst \in Seq(U8) /\ a \in Nat /\ ip \in Nat
      /\ consumed \in 0 .. Len(src) /\ size = consumed
  BY ReadNumbers
<1>2. ExtensionSize(lits) \in Nat /\ p \in Nat
  <2>1. ExtensionSize(lits) \in Nat
    BY ExtensionCost
  <2> QED
    BY <1>1, <2>1
<1>3. j \in a .. Len(src) /\ j - a = lits
  BY <1>1
<1>4. Len(v) = lits /\ \A i \in 1 .. lits : v[i] = src[a + i]
  <2> HIDE DEF j
  <2> QED
    BY <1>1, <1>3, PartOf
<1>5. p + lits <= Len(out) /\ \A i \in 1 .. lits : out[p + i] = v[i]
  <2> HIDE DEF v
  <2> QED
    BY <1>4 DEF Stands, v
<1>6. Decoder!LiteralsAhead = {[len |-> lits, next |-> p]}
  BY <1>1, <1>5, AheadOfLiterals
<1>7. w \in Seq(U8) /\ Len(w) = lits /\ \A i \in 1 .. lits : w[i] = out[p + i]
  <2> DEFINE k == p + lits
  <2> HIDE DEF p, v
  <2>1. k \in p .. Len(out) /\ k - p = lits
    BY <1>1, <1>2, <1>5
  <2> HIDE DEF k
  <2>2. SubSeq(out, p + 1, k) \in Seq(U8) /\ Len(SubSeq(out, p + 1, k)) = lits
        /\ \A i \in 1 .. lits : SubSeq(out, p + 1, k)[i] = out[p + i]
    BY <1>1, <1>2, <2>1, PartOf
  <2> QED
    BY <2>2 DEF k
<1>8. ~(lits > Decoder!left) /\ Decoder!left - lits = consumed - j
  BY <1>1 DEF Decoder!left
<1>9. /\ token' = out[ip + 1] /\ size' = size
      /\ dst' = dst \o w /\ ip' = p + lits
      /\ step' = Decoder!AfterLiterals(Decoder!left - lits)
  <2> DEFINE l == [len |-> lits, next |-> p]
  <2>1. l.len = lits /\ l.next = p
    OBVIOUS
  <2> HIDE DEF l, p
  <2>2. /\ token' = out[ip + 1] /\ size' = size
        /\ dst' = dst \o SubSeq(out, l.next + 1, l.next + l.len) /\ ip' = l.next + l.len
        /\ step' = Decoder!AfterLiterals(Decoder!left - l.len)
    BY <1>6, <1>8, <2>1 DEF Decoder!Literals, l
  <2> QED
    BY <2>1, <2>2
<1>10. Produced' /\ Len(dst') = a + lits
  <2>1. src' = src /\ Produced
    BY DEF vars, Decoding
  <2>2. \A i \in 1 .. Len(w) : w[i] = src[Len(dst) + i]
    BY <1>4, <1>5, <1>7
  <2>3. Len(dst) + Len(w) <= Len(src)
    BY <1>3, <1>7
  <2> HIDE DEF w
  <2>4. Produced' /\ Len(dst') = Len(dst) + Len(w)
    BY <1>1, <1>7, <1>9, <2>1, <2>2, <2>3, ProducesMore
  <2> QED
    BY <1>7, <2>4
<1> QED
  BY <1>2, <1>8, <1>9, <1>10

(* A distance and the length of a match that are read.                     *)
LEMMA AheadOfMatch ==
  ASSUME ip \in Nat, out \in Seq(U8), NEW rest \in Nat, ip + 2 <= Len(out),
         token % (MASK + 1) = Short(rest), Stands(out, ip + 2, Extension(rest))
  PROVE  Decoder!MatchAhead = {[len |-> rest, next |-> ip + 2 + ExtensionSize(rest)]}
<1>1. ~(ip + 2 > Len(out)) /\ ip + 2 \in Nat
  BY LenProperties
<1>2. Decoder!LengthAt(Short(rest), ip + 2)
        = {[len |-> rest, next |-> ip + 2 + ExtensionSize(rest)]}
  BY <1>1, LengthRead
<1> QED
  BY <1>1, <1>2 DEF Decoder!MatchAhead

LEMMA DistanceRead ==
  ASSUME NEW off \in Nat, NEW b, NEW p \in Nat,
         b[p + 1] = off % (MAXBYTE + 1), b[p + 2] = off \div (MAXBYTE + 1)
  PROVE  Decoder!ReadLE16(b, p) = off
<1> DEFINE z == MAXBYTE + 1
           q == off \div z
           r == off % z
<1>1. z \in Nat \ {0}
  BY Numbers
<1>2. q * z + r = off /\ q \in Nat /\ r \in Nat
  <2> HIDE DEF z
  <2>1. q * z + r = off /\ q \in Nat /\ r \in 0 .. z - 1
    BY <1>1, QuotientRemainder
  <2> HIDE DEF q, r
  <2> QED
    BY <1>1, <2>1
<1>3. Decoder!ReadLE16(b, p) = r + q * z
  BY DEF Decoder!ReadLE16
<1> HIDE DEF q, r, z
<1>4. q * z \in Nat
  BY <1>1, <1>2
<1> QED
  BY <1>2, <1>3, <1>4

(* The copy of a match is what src has there.                              *)
LEMMA CopyGives ==
  ASSUME src \in Seq(U8), Produced, NEW m \in [offset : Nat, len : Nat],
         IsMatch(src, Len(dst), m), Len(dst) + m.len <= Len(src)
  PROVE  LET w == Decoder!Copied(m.offset, m.len)
         IN  /\ w \in Seq(U8) /\ Len(w) = m.len
             /\ \A i \in 1 .. Len(w) : w[i] = src[Len(dst) + i]
<1> DEFINE j == Len(dst)
           off == m.offset
           len == m.len
           At(i) == j - off + 1 + ((i - 1) % off)
           w == Decoder!Copied(off, len)
<1>1. /\ dst \in Seq(U8) /\ j \in Nat /\ len \in Nat /\ off \in 1 .. j
      /\ Len(src) \in Nat /\ off \in Nat \ {0}
      /\ \A i \in 1 .. len : src[j + i] = src[j - off + i]
  BY LenProperties DEF Produced, IsMatch
<1>2. <<>> \o dst = dst
  BY <1>1, ConcatEmptySeq
<1>3. w = [i \in 1 .. len |-> dst[At(i)]]
  <2>1. off # 0
    BY <1>1
  <2>2. w = Decoder!CopyMatch(dst, off, len)
    <3> HIDE DEF off, len
    <3> QED
      BY <1>2, <2>1 DEF Decoder!Copied
  <2> QED
    BY <2>2 DEF Decoder!CopyMatch
<1>4. ASSUME NEW i \in 1 .. len
      PROVE  dst[At(i)] = src[j + i] /\ src[j + i] \in U8
  <2>1. (i - 1) % off \in 0 .. off - 1
    <3> DEFINE k == i - 1
    <3>1. k \in Nat
      BY <1>1
    <3> HIDE DEF k, off
    <3>2. k % off \in 0 .. off - 1
      BY <1>1, <3>1, QuotientRemainder
    <3> QED
      BY <3>2 DEF k
  <2>2. At(i) \in 1 .. j
    <3> DEFINE k == (i - 1) % off
    <3>1. k \in 0 .. off - 1
      BY <2>1
    <3> HIDE DEF k, off, j
    <3>2. j - off + 1 + k \in 1 .. j
      BY <1>1, <3>1
    <3> QED
      BY <3>2 DEF k
  <2>3. dst[At(i)] = src[At(i)]
    <3> DEFINE k == At(i)
    <3>1. k \in 1 .. Len(dst)
      BY <2>2
    <3> HIDE DEF k
    <3>2. dst[k] = src[k]
      BY <3>1 DEF Produced
    <3> QED
      BY <3>2 DEF k
  <2>4. src[j + i] = src[At(i)]
    <3> HIDE DEF j, off, len
    <3>1. /\ j \in Nat /\ len \in Nat /\ off \in 1 .. j
          /\ Periodic(src, j, off, len)
      BY <1>1 DEF Periodic
    <3>2. \A x \in 1 .. len : src[j + x] = src[j - off + 1 + ((x - 1) % off)]
      BY <3>1, OverlapRepeats
    <3> QED
      BY <3>2
  <2>5. src[j + i] \in U8
    <3> DEFINE k == j + i
    <3> HIDE DEF j, len
    <3>1. k \in 1 .. Len(src)
      BY <1>1 DEF j, len
    <3> HIDE DEF k
    <3>2. src[k] \in U8
      BY <3>1, ElementOfSeq
    <3> QED
      BY <3>2 DEF k
  <2> HIDE DEF At
  <2> QED
    BY <2>3, <2>4, <2>5
<1> HIDE DEF j, off, len, At
<1>5. w \in Seq(U8) /\ Len(w) = len /\ \A i \in 1 .. len : w[i] = src[j + i]
  <2>1. \A i \in 1 .. len : dst[At(i)] \in U8
    BY <1>4
  <2>2. w = [i \in 1 .. len |-> dst[At(i)]] /\ w \in [1 .. len -> U8]
    BY <1>3, <2>1
  <2>3. w \in Seq(U8) /\ Len(w) = len
    <3> HIDE DEF w
    <3> QED
      BY <1>1, <2>2, SeqDef, LenProperties
  <2> HIDE DEF w
  <2> QED
    BY <1>4, <2>2, <2>3
<1> HIDE DEF w
<1> QED
  BY <1>5 DEF w, j, off, len

LEMMA ReadsMatch ==
  ASSUME IInv, NEW B, Encoded(B), Decoding(B), step = "match",
         Decoder!Match, UNCHANGED vars
  PROVE  Decoding(B)'
<1> DEFINE j == Len(dst)
<1>1. PICK m \in [offset : Nat, len : Nat] :
        LET rest == m.len - MINMATCH
        IN  /\ IsMatch(src, Len(dst), m)
            /\ Len(dst) + m.len + LASTLITERALS <= consumed
            /\ ip + 2 <= Len(out)
            /\ out[ip + 1] = m.offset % (MAXBYTE + 1)
            /\ out[ip + 2] = m.offset \div (MAXBYTE + 1)
            /\ Stands(out, ip + 2, Extension(rest))
            /\ token % (MASK + 1) = Short(rest)
            /\ <<ip + 2 + ExtensionSize(rest), Len(dst) + m.len>> \in B
  BY DEF Decoding, MatchNext
<1> DEFINE rest == m.len - MINMATCH
           next == ip + 2 + ExtensionSize(rest)
           w == Decoder!Copied(m.offset, m.len)
<1>2. /\ src \in Seq(U8) /\ out \in Seq(U8) /\ Len(src) \in Nat /\ Len(out) \in Nat
      /\ dst \in Seq(U8) /\ j \in Nat /\ ip \in Nat
      /\ consumed \in 0 .. Len(src) /\ size = consumed /\ Produced
      /\ B \subseteq (0 .. Len(out)) \X (0 .. consumed)
  BY ReadNumbers DEF Decoding
<1>3. /\ m.len \in Nat /\ rest \in Nat /\ m.offset \in 1 .. j /\ rest + MINMATCH = m.len
      /\ LASTLITERALS \in Nat
  BY <1>1, Numbers DEF IsMatch
<1>4. Decoder!MatchAhead = {[len |-> rest, next |-> next]}
  BY <1>1, <1>2, <1>3, AheadOfMatch
<1>5. Decoder!ReadLE16(out, ip) = m.offset
  BY <1>1, <1>2, DistanceRead
<1>6. j + m.len <= consumed /\ LASTLITERALS <= consumed - (j + m.len)
  BY <1>1, <1>2, <1>3
<1>7. ~Decoder!TooLong(m.len) /\ ~Decoder!OutOfRange(m.offset)
  <2>1. Decoder!left = consumed - j
    BY <1>2 DEF Decoder!left
  <2>2. ~(m.len > Decoder!left)
    BY <1>2, <1>3, <1>6, <2>1
  <2>3. Len(<<>>) = 0
    OBVIOUS
  <2>4. ~(m.offset > Len(dst) + Len(<<>>))
    BY <1>2, <1>3, <2>3
  <2> QED
    BY <2>2, <2>4 DEF Decoder!TooLong, Decoder!OutOfRange
<1>8. /\ dst' = dst \o w /\ ip' = next /\ size' = size
      /\ step' = IF Decoder!left - m.len < LASTLITERALS THEN "failed" ELSE "literals"
  <2> DEFINE l == [len |-> rest, next |-> next]
  <2>1. l.len + MINMATCH = m.len /\ l.next = next
    BY <1>3
  <2>2. Decoder!MatchAhead = {l}
    BY <1>4
  <2> HIDE DEF l, next, rest, w
  <2>3. IF Decoder!TooLong(l.len + MINMATCH) \/ Decoder!OutOfRange(Decoder!ReadLE16(out, ip))
          THEN step' = "failed" /\ UNCHANGED <<ip, dst>>
          ELSE /\ dst' = dst \o Decoder!Copied(Decoder!ReadLE16(out, ip), l.len + MINMATCH)
               /\ ip' = l.next
               /\ step' = IF Decoder!left - (l.len + MINMATCH) < LASTLITERALS
                            THEN "failed" ELSE "literals"
    BY <2>2 DEF Decoder!Match
  <2>4. size' = size
    BY DEF Decoder!Match
  <2> QED
    BY <1>5, <1>7, <2>1, <2>3, <2>4 DEF w
<1>9. step' = "literals"
  <2>1. Decoder!left - m.len = consumed - (j + m.len)
    BY <1>2, <1>3 DEF Decoder!left
  <2>2. ~(Decoder!left - m.len < LASTLITERALS)
    BY <1>2, <1>3, <1>6, <2>1
  <2> QED
    BY <1>8, <2>2
<1>10. Produced' /\ Len(dst') = j + m.len
  <2>1. src' = src
    BY DEF vars
  <2>2. Len(dst) + m.len <= Len(src)
    BY <1>2, <1>3, <1>6
  <2>3. w \in Seq(U8) /\ Len(w) = m.len /\ \A i \in 1 .. Len(w) : w[i] = src[Len(dst) + i]
    BY <1>1, <1>2, <2>2, CopyGives
  <2> HIDE DEF w
  <2>4. Produced' /\ Len(dst') = Len(dst) + Len(w)
    BY <1>2, <1>8, <2>1, <2>2, <2>3, ProducesMore
  <2> QED
    BY <2>3, <2>4
<1>11. <<ip', Len(dst')>> \in B /\ ip' \in Nat
  <2>1. <<next, j + m.len>> \in B
    BY <1>1
  <2> HIDE DEF next, j
  <2> QED
    BY <1>2, <1>8, <1>10, <2>1
<1>12. pc' = "done" /\ result' > 0 /\ size' = consumed' /\ consumed' = consumed
  BY <1>8 DEF Decoding, vars
<1> QED
  BY <1>9, <1>10, <1>11, <1>12 DEF Decoding
-----------------------------------------------------------------------------
(* What the decoder has before it at the beginning of a sequence: literals *)
(* up to position j of src, with `rest` in the token for what follows.     *)
Ahead(j, rest) ==
  LET lits == j - Len(dst)
  IN  /\ j \in Len(dst) .. consumed
      /\ ip + 1 + ExtensionSize(lits) + lits <= Len(out)
      /\ ip + 1 <= Len(out) /\ out[ip + 1] = Token(lits, rest)
      /\ Stands(out, ip + 1, Extension(lits))
      /\ Stands(out, ip + 1 + ExtensionSize(lits), SubSeq(src, Len(dst) + 1, j))

(* Behind the literals a match, or the end of the block.                   *)
MatchBehind(B, j, m) ==
  LET rest == m.len - MINMATCH
      q    == ip + 1 + ExtensionSize(j - Len(dst)) + (j - Len(dst))
  IN  /\ IsMatch(src, j, m)
      /\ j + MFLIMIT <= consumed /\ j + m.len + LASTLITERALS <= consumed
      /\ Ahead(j, rest)
      /\ q + 2 <= Len(out)
      /\ out[q + 1] = m.offset % (MAXBYTE + 1) /\ out[q + 2] = m.offset \div (MAXBYTE + 1)
      /\ Stands(out, q + 2, Extension(rest))
      /\ <<q + 2 + ExtensionSize(rest), j + m.len>> \in B

EndAhead ==
  /\ Ahead(consumed, 0)
  /\ ip + 1 + ExtensionSize(consumed - Len(dst)) + (consumed - Len(dst)) = Len(out)

LEMMA SequenceAhead ==
  ASSUME IInv, NEW B, Encoded(B), Decoding(B), step = "literals"
  PROVE  \/ EndAhead
         \/ \E j \in Nat, m \in [offset : Nat, len : Nat] : MatchBehind(B, j, m)
<1> DEFINE a == Len(dst)
           e == <<ip, a>>
<1>1. /\ src \in Seq(U8) /\ out \in Seq(U8) /\ Len(src) \in Nat /\ Len(out) \in Nat
      /\ a \in Nat /\ ip \in Nat /\ consumed \in 0 .. Len(src)
      /\ B \subseteq (0 .. Len(out)) \X (0 .. consumed)
  BY ReadNumbers
<1>2. e[1] = ip /\ e[2] = a
  OBVIOUS
<1>3. Finishes(out, src, consumed, e) \/ Leads(out, src, B, consumed, e)
  BY ReadNumbers DEF Decoding
<1> HIDE DEF e
<1>4. CASE Finishes(out, src, consumed, e)
  <2> DEFINE lits == consumed - a
             w == LastOf(src, a, consumed)
  <2>1. a <= consumed /\ Stands(out, ip, w) /\ ip + Len(w) = Len(out)
    BY <1>2, <1>4 DEF Finishes
  <2>2. consumed \in a .. Len(src) /\ consumed \in a .. consumed /\ lits \in Nat
    BY <1>1, <2>1
  <2>3. /\ Len(w) = 1 + ExtensionSize(lits) + lits
        /\ ip + 1 <= Len(out) /\ out[ip + 1] = Token(lits, 0)
        /\ Stands(out, ip + 1, Extension(lits))
        /\ Stands(out, ip + 1 + ExtensionSize(lits), SubSeq(src, a + 1, consumed))
    <3> HIDE DEF a
    <3> QED
      BY <1>1, <2>1, <2>2, LastStands
  <2>4. ip + 1 + ExtensionSize(lits) + lits = Len(out)
    <3>1. ExtensionSize(lits) \in Nat
      <4> HIDE DEF lits
      <4> QED
        BY <2>2, ExtensionCost
    <3> HIDE DEF lits, w
    <3> QED
      BY <1>1, <2>1, <2>2, <2>3, <3>1
  <2>5. Ahead(consumed, 0)
    BY <1>1, <2>2, <2>3, <2>4 DEF Ahead
  <2> QED
    BY <2>4, <2>5 DEF EndAhead
<1>5. CASE Leads(out, src, B, consumed, e)
  <2>1. PICK j \in a .. Len(src), m \in [offset : Nat, len : Nat] :
          /\ IsMatch(src, j, m)
          /\ j + MFLIMIT <= consumed /\ j + m.len + LASTLITERALS <= consumed
          /\ Stands(out, ip, SequenceOf(src, a, j, m))
          /\ <<ip + Len(SequenceOf(src, a, j, m)), j + m.len>> \in B
    BY <1>2, <1>5 DEF Leads
  <2> DEFINE lits == j - a
             rest == m.len - MINMATCH
             w == SequenceOf(src, a, j, m)
             q == ip + 1 + ExtensionSize(lits) + lits
  <2>2. /\ j \in Nat /\ lits \in Nat /\ m.len \in Nat /\ MINMATCH <= m.len
        /\ m.offset \in 1 .. DISTANCE_MAX /\ rest \in Nat
    <3>1. j \in Nat /\ lits \in Nat /\ m.len \in Nat /\ MINMATCH <= m.len
      BY <1>1, <2>1 DEF IsMatch
    <3>2. m.offset \in 1 .. DISTANCE_MAX
      BY <2>1, <3>1, Lz4Assumption DEF IsMatch
    <3> QED
      BY <3>1, <3>2, Numbers
  <2>3. j \in a .. consumed
    BY <1>1, <2>1, <2>2, Numbers
  <2>4. /\ Len(w) = 1 + ExtensionSize(lits) + lits + 2 + ExtensionSize(rest)
        /\ ip + 1 <= Len(out) /\ out[ip + 1] = Token(lits, rest)
        /\ Stands(out, ip + 1, Extension(lits))
        /\ Stands(out, ip + 1 + ExtensionSize(lits), SubSeq(src, a + 1, j))
        /\ q + 2 <= Len(out)
        /\ out[q + 1] = m.offset % (MAXBYTE + 1)
        /\ out[q + 2] = m.offset \div (MAXBYTE + 1)
        /\ Stands(out, q + 2, Extension(rest))
    <3> HIDE DEF a
    <3>1. j \in a .. Len(src) /\ Stands(out, ip, SequenceOf(src, a, j, m))
      BY <2>1
    <3>2. /\ m.offset \in 1 .. DISTANCE_MAX /\ m.len \in Nat /\ MINMATCH <= m.len
          /\ src \in Seq(U8) /\ out \in Seq(U8) /\ a \in Nat /\ ip \in Nat
      BY <1>1, <2>2
    <3> QED
      BY <3>1, <3>2, SequenceStands
  <2>5. ExtensionSize(lits) \in Nat /\ ExtensionSize(rest) \in Nat
    <3> HIDE DEF lits, rest
    <3> QED
      BY <2>2, ExtensionCost
  <2>6. ip + Len(w) = q + 2 + ExtensionSize(rest) /\ q <= Len(out)
    <3> DEFINE x == ExtensionSize(lits)
               y == ExtensionSize(rest)
    <3>1. q = ip + 1 + x + lits /\ Len(w) = 1 + x + lits + 2 + y
      BY <2>4
    <3>2. x \in Nat /\ y \in Nat /\ lits \in Nat /\ q + 2 <= Len(out) /\ y = ExtensionSize(rest)
      BY <2>2, <2>4, <2>5
    <3> HIDE DEF w, lits, x, y, q
    <3> QED
      BY <1>1, <3>1, <3>2
  <2>7. Ahead(j, rest)
    BY <2>3, <2>4, <2>6 DEF Ahead
  <2>8. <<q + 2 + ExtensionSize(rest), j + m.len>> \in B
    <3> HIDE DEF q, rest
    <3> QED
      BY <2>1, <2>6
  <2>9. MatchBehind(B, j, m)
    BY <2>1, <2>4, <2>7, <2>8 DEF MatchBehind
  <2> QED
    BY <2>2, <2>9
<1> QED
  BY <1>3, <1>4, <1>5

(* The literals are read: a match or the end comes next.                   *)
LEMMA ReadsOn ==
  ASSUME IInv, NEW B, Encoded(B), Decoding(B), step = "literals",
         Decoder!Literals, UNCHANGED vars, NEW j \in Nat, NEW rest \in Nat, Ahead(j, rest)
  PROVE  /\ Produced' /\ Len(dst') = j
         /\ ip' = ip + 1 + ExtensionSize(j - Len(dst)) + (j - Len(dst)) /\ ip' \in Nat
         /\ token' = Token(j - Len(dst), rest) /\ size' = size
         /\ step' = Decoder!AfterLiterals(consumed - j)
<1> DEFINE lits == j - Len(dst)
<1>1. Len(dst) \in Nat /\ consumed \in Nat
  BY ReadNumbers
<1>2. lits \in Nat /\ Len(dst) + lits = j /\ Len(dst) + lits <= consumed
  BY <1>1 DEF Ahead
<1>3. /\ ip + 1 <= Len(out) /\ out[ip + 1] = Token(lits, rest)
      /\ Stands(out, ip + 1, Extension(lits))
      /\ Stands(out, ip + 1 + ExtensionSize(lits), SubSeq(src, Len(dst) + 1, Len(dst) + lits))
  BY <1>2 DEF Ahead
<1> HIDE DEF lits
<1>4. /\ Produced' /\ Len(dst') = Len(dst) + lits
      /\ ip' = ip + 1 + ExtensionSize(lits) + lits /\ ip' \in Nat
      /\ token' = Token(lits, rest) /\ size' = size
      /\ step' = Decoder!AfterLiterals(consumed - (Len(dst) + lits))
  BY <1>2, <1>3, ReadsLiterals
<1> QED
  BY <1>2, <1>4 DEF lits

LEMMA ReadsSequence ==
  ASSUME IInv, NEW B, Encoded(B), Decoding(B), step = "literals",
         Decoder!Literals, UNCHANGED vars
  PROVE  Decoding(B)'
<1>1. /\ Len(dst) \in Nat /\ ip \in Nat /\ consumed \in Nat /\ MFLIMIT \in Nat \ {0}
  BY ReadNumbers, Lz4Assumption
<1>2. /\ pc' = "done" /\ result' > 0 /\ consumed' = consumed /\ out' = out /\ src' = src
      /\ size = consumed
  BY DEF Decoding, vars
<1>3. CASE EndAhead
  <2>1. /\ Produced' /\ Len(dst') = consumed /\ size' = size
        /\ ip' = ip + 1 + ExtensionSize(consumed - Len(dst)) + (consumed - Len(dst))
        /\ ip' \in Nat
        /\ step' = Decoder!AfterLiterals(consumed - consumed)
    BY <1>1, <1>3, ReadsOn DEF EndAhead
  <2>2. step' = "done"
    <3>1. consumed - consumed = 0 /\ ~(0 >= MFLIMIT)
      BY <1>1
    <3> QED
      BY <2>1, <3>1 DEF Decoder!AfterLiterals
  <2>3. ip' = Len(out')
    BY <1>2, <1>3, <2>1 DEF EndAhead
  <2> QED
    BY <1>2, <2>1, <2>2, <2>3 DEF Decoding
<1>4. ASSUME NEW j \in Nat, NEW m \in [offset : Nat, len : Nat], MatchBehind(B, j, m)
      PROVE  Decoding(B)'
  <2> DEFINE rest == m.len - MINMATCH
             lits == j - Len(dst)
             q == ip + 1 + ExtensionSize(lits) + lits
  <2>1. /\ IsMatch(src, j, m)
        /\ j + MFLIMIT <= consumed /\ j + m.len + LASTLITERALS <= consumed
        /\ Ahead(j, rest)
        /\ q + 2 <= Len(out)
        /\ out[q + 1] = m.offset % (MAXBYTE + 1) /\ out[q + 2] = m.offset \div (MAXBYTE + 1)
        /\ Stands(out, q + 2, Extension(rest))
        /\ <<q + 2 + ExtensionSize(rest), j + m.len>> \in B
    BY <1>4 DEF MatchBehind
  <2>2. rest \in Nat /\ lits \in Nat
    <3>1. m.len \in Nat /\ MINMATCH <= m.len
      BY <2>1 DEF IsMatch
    <3>2. j \in Len(dst) .. consumed
      BY <2>1 DEF Ahead
    <3> QED
      BY <1>1, <3>1, <3>2, Numbers
  <2>3. /\ Produced' /\ Len(dst') = j /\ size' = size
        /\ ip' = q /\ ip' \in Nat /\ token' = Token(lits, rest)
        /\ step' = Decoder!AfterLiterals(consumed - j)
    <3> HIDE DEF rest
    <3> QED
      BY <2>1, <2>2, ReadsOn
  <2>4. step' = "match"
    <3>1. consumed - j >= MFLIMIT
      BY <1>1, <2>1
    <3> QED
      BY <2>3, <3>1 DEF Decoder!AfterLiterals
  <2>5. token' % (MASK + 1) = Short(rest)
    <3> HIDE DEF rest, lits
    <3> QED
      BY <2>2, <2>3, TokenRead
  <2> HIDE DEF q
  <2>6. MatchNext(B)'
    BY <1>2, <2>1, <2>3, <2>5 DEF MatchNext
  <2> QED
    BY <1>2, <2>3, <2>4, <2>6 DEF Decoding
<1> QED
  BY <1>3, <1>4, SequenceAhead

(* All that the decoder reads is in the block.                             *)
LEMMA ReadsInside ==
  ASSUME IInv, NEW B, Encoded(B), Decoding(B)
  PROVE  ~Decoder!Outside
<1>1. CASE step = "literals"
  <2>1. out \in Seq(U8) /\ ip \in Nat /\ Len(dst) \in Nat /\ consumed \in Nat
    BY <1>1, ReadNumbers
  <2>2. ASSUME NEW j \in Nat, NEW rest \in Nat, Ahead(j, rest)
        PROVE  Decoder!LiteralsAhead # {}
    <3> DEFINE lits == j - Len(dst)
    <3>1. lits \in Nat
      BY <2>1, <2>2 DEF Ahead
    <3>2. /\ ip + 1 <= Len(out) /\ out[ip + 1] = Token(lits, rest)
          /\ Stands(out, ip + 1, Extension(lits))
          /\ ip + 1 + ExtensionSize(lits) + lits <= Len(out)
      BY <2>2 DEF Ahead
    <3> HIDE DEF lits
    <3>3. Decoder!LiteralsAhead = {[len |-> lits, next |-> ip + 1 + ExtensionSize(lits)]}
      BY <2>1, <3>1, <3>2, AheadOfLiterals
    <3> QED
      BY <3>3
  <2>3. CASE EndAhead
    BY <1>1, <2>1, <2>2, <2>3 DEF EndAhead, Decoder!Outside
  <2>4. ASSUME NEW j \in Nat, NEW m \in [offset : Nat, len : Nat], MatchBehind(B, j, m)
        PROVE  Decoder!LiteralsAhead # {}
    <3> DEFINE rest == m.len - MINMATCH
    <3>1. Ahead(j, rest) /\ rest \in Nat
      BY <2>4, Numbers DEF MatchBehind, IsMatch
    <3> HIDE DEF rest
    <3> QED
      BY <2>2, <3>1
  <2> QED
    BY <1>1, <2>3, <2>4, SequenceAhead DEF Decoder!Outside
<1>2. CASE step = "match"
  <2>1. out \in Seq(U8) /\ ip \in Nat
    BY <1>2, ReadNumbers
  <2>2. PICK m \in [offset : Nat, len : Nat] :
          LET rest == m.len - MINMATCH
          IN  /\ IsMatch(src, Len(dst), m) /\ ip + 2 <= Len(out)
              /\ Stands(out, ip + 2, Extension(rest)) /\ token % (MASK + 1) = Short(rest)
    BY <1>2 DEF Decoding, MatchNext
  <2> DEFINE rest == m.len - MINMATCH
  <2>3. rest \in Nat
    BY <2>2, Numbers DEF IsMatch
  <2>4. Decoder!MatchAhead = {[len |-> rest, next |-> ip + 2 + ExtensionSize(rest)]}
    <3> HIDE DEF rest
    <3> QED
      BY <2>1, <2>2, <2>3, AheadOfMatch DEF rest
  <2> HIDE DEF rest
  <2> QED
    BY <1>2, <2>4 DEF Decoder!Outside
<1> QED
  BY <1>1, <1>2 DEF Decoder!Outside
-----------------------------------------------------------------------------
(* The inductive invariant: with what the encoder keeps, a list of where   *)
(* sequences begin that the block bears out and the decoder follows.       *)
RInv ==
  /\ IInv
  /\ \E B : Encoded(B) /\ Decoding(B)

LEMMA InitRInv == RoundTripInit => RInv
<1> SUFFICES ASSUME RoundTripInit PROVE RInv
  OBVIOUS
<1>1. Init /\ Decoder!Init
  BY DEF RoundTripInit
<1>2. IInv
  BY <1>1, InitIInv
<1>3. anchor = 0 /\ out = <<>> /\ result = 0 /\ Len(out) = 0 /\ Len(src) \in Nat
  BY <1>1, <1>2, InvNumbers, LenProperties DEF Init
<1>4. Encoded({<<0, 0>>})
  BY <1>3 DEF Encoded
<1>5. Decoding({<<0, 0>>})
  <2>1. step = "idle" /\ ip = 0 /\ dst = <<>> /\ Len(dst) = 0
    BY <1>1 DEF Decoder!Init
  <2>2. Produced
    BY <1>3, <2>1, EmptySeq DEF Produced
  <2> QED
    BY <2>1, <2>2 DEF Decoding
<1> QED
  BY <1>2, <1>4, <1>5 DEF RInv

LEMMA NextRInv == RInv /\ [RoundTripNext]_<<vars, readVars>> => RInv'
<1> SUFFICES ASSUME RInv, [RoundTripNext]_<<vars, readVars>> PROVE RInv'
  OBVIOUS
<1>1. PICK B : Encoded(B) /\ Decoding(B)
  BY DEF RInv
<1>2. IInv
  BY DEF RInv
<1>3. CASE Encode
  <2>1. Next /\ UNCHANGED readVars /\ pc # "done"
    BY <1>3 DEF Encode, Next, EncodeSequence, Overflow, ShortenSequence, LastLiterals
  <2>2. IInv'
    BY <1>2, <2>1, NextIInv
  <2>3. PICK C : Encoded(C)'
    BY <1>1, <1>2, <2>1, EncoderAdds
  <2>4. step = "idle"
    BY <1>1, <2>1 DEF Decoding
  <2>5. src' = src
    BY <2>1 DEF Next, EncodeSequence, Overflow, ShortenSequence, LastLiterals
  <2>6. Decoding(C)'
    BY <1>1, <2>1, <2>4, <2>5 DEF Decoding, Produced, readVars
  <2> QED
    BY <2>2, <2>3, <2>6 DEF RInv
<1>4. ASSUME UNCHANGED vars PROVE IInv' /\ Encoded(B)'
  <2>1. IInv'
    BY <1>2, <1>4, NextIInv
  <2>2. Encoded(B)'
    BY <1>1, <1>4 DEF Encoded, End, LastRun, n, vars
  <2> QED
    BY <2>1, <2>2
<1>5. CASE Call
  <2>1. /\ pc = "done" /\ result > 0 /\ UNCHANGED vars
        /\ step = "idle" /\ step' = "literals" /\ size' = consumed /\ UNCHANGED <<ip, token, dst>>
    BY <1>5 DEF Call, Decoder!Call
  <2>2. Decoding(B)'
    <3>1. <<ip, Len(dst)>> = <<0, 0>> /\ <<0, 0>> \in B
      BY <1>1, <2>1 DEF Decoding, Encoded
    <3> QED
      BY <1>1, <2>1, <3>1 DEF Decoding, Produced, vars
  <2> QED
    BY <1>4, <2>1, <2>2 DEF RInv
<1>6. CASE Decode
  <2>1. UNCHANGED vars /\ (Decoder!Literals \/ Decoder!Match)
    BY <1>1, <1>2, <1>6, ReadsInside DEF Decode, Decoder!Decode
  <2>2. Decoding(B)'
    <3>1. CASE Decoder!Literals
      BY <1>1, <1>2, <2>1, <3>1, ReadsSequence DEF Decoder!Literals
    <3>2. CASE Decoder!Match
      BY <1>1, <1>2, <2>1, <3>2, ReadsMatch DEF Decoder!Match
    <3> QED
      BY <2>1, <3>1, <3>2
  <2> QED
    BY <1>4, <2>1, <2>2 DEF RInv
<1>7. CASE UNCHANGED <<vars, readVars>>
  <2>1. Decoding(B)'
    BY <1>1, <1>7 DEF Decoding, Produced, MatchNext, vars, readVars
  <2> QED
    BY <1>4, <1>7, <2>1 DEF RInv
<1> QED
  BY <1>3, <1>5, <1>6, <1>7 DEF RoundTripNext, Returned

LEMMA RoundTripInvariant == RoundTripSpec => []RInv
BY InitRInv, NextRInv, PTL DEF RoundTripSpec

(* LZ4_decompress_fast gives back what LZ4_compress_HC consumed, and stops *)
(* where the block ends, for every input, mode, capacity and choice of     *)
(* matches: it never fails and never reads behind the block.               *)
THEOREM DecompressionRestores == RoundTripSpec => []Restores
<1>1. RInv => Restores
  <2> SUFFICES ASSUME RInv PROVE Restores
    OBVIOUS
  <2>1. PICK B : Encoded(B) /\ Decoding(B)
    BY DEF RInv
  <2>2. step \notin {"failed", "outside"}
    BY <2>1 DEF Decoding
  <2>3. ASSUME step = "done" PROVE dst = SubSeq(src, 1, consumed) /\ ip = Len(out)
    <3>1. Len(dst) = consumed /\ ip = Len(out) /\ Produced
      BY <2>1, <2>3 DEF Decoding
    <3>2. src \in Seq(U8) /\ consumed \in 0 .. Len(src) /\ Len(src) \in Nat
      BY InvNumbers DEF RInv, IInv, TypeOK, n
    <3> DEFINE w == SubSeq(src, 1, consumed)
    <3>3. w \in Seq(U8) /\ Len(w) = consumed /\ \A i \in 1 .. consumed : w[i] = src[i]
      <4>1. /\ SubSeq(src, 0 + 1, consumed) \in Seq(U8)
            /\ Len(SubSeq(src, 0 + 1, consumed)) = consumed - 0
            /\ \A i \in 1 .. consumed - 0 : SubSeq(src, 0 + 1, consumed)[i] = src[0 + i]
        BY <3>2, PartOf
      <4>2. 0 + 1 = 1 /\ consumed - 0 = consumed /\ \A i \in 1 .. consumed : 0 + i = i
        BY <3>2
      <4> QED
        BY <4>1, <4>2
    <3> HIDE DEF w
    <3>4. dst = w
      BY <3>1, <3>2, <3>3, SeqEqual DEF Produced
    <3> QED
      BY <3>1, <3>4 DEF w
  <2> QED
    BY <2>2, <2>3 DEF Restores
<1> QED
  BY <1>1, RoundTripInvariant, PTL
==============================================================================
