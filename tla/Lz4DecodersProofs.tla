------------------------- MODULE Lz4DecodersProofs -------------------------
(***************************************************************************)
(* That the decoders of lz4.c stay inside their buffers, and that they     *)
(* agree, whatever bytes they are given: for every input, however much of  *)
(* it the caller says is the block, every size of the output and all       *)
(* dictionaries.                                                           *)
(*                                                                         *)
(* The copies of the safe decoder write more bytes than they need.  What   *)
(* keeps them inside is that at each stage there is room for the next      *)
(* ones: Margins says how much.                                            *)
(*                                                                         *)
(* A block is a chain of sequences, each with the place in the output      *)
(* where its literals go; how far the chain goes depends on the block and  *)
(* the sizes alone.  LZ4_decompress_fast leaves it with the bytes that it  *)
(* stands for (FastKnows); the safe decoder follows it, at each stage with *)
(* the numbers of the sequence it is at, and holds those bytes in front of *)
(* op (SafeAt).  That a copy brings the bytes of a match, in whatever      *)
(* pieces, is Repeats.                                                     *)
(***************************************************************************)
EXTENDS Lz4Decoders, Lz4FormatTheorems

-----------------------------------------------------------------------------
(* The block and the dictionaries are bytes, the sizes are numbers.        *)
Given ==
  /\ input \in Seq(U8) /\ srcSize \in 0 .. Len(input) /\ capacity \in Nat
  /\ prefix \in Seq(U8) /\ ext \in Seq(U8)

(* The safe decoder.                                                       *)
Stages ==
  {"idle", "fast", "safe", "literals", "fastMatch", "shortcut", "copyMatch", "match", "done"}

SafeTypeOK ==
  /\ stage \in Stages
  /\ iend \in Nat /\ oend \in Nat /\ partial \in BOOLEAN
  /\ ip \in Nat /\ op \in Nat /\ token \in U8 /\ length \in Nat /\ offset \in Nat
  /\ read \in Nat /\ DOMAIN mem \subseteq Nat

(* How far the decoder may be in the input and in the output, at each of   *)
(* its stages: so much room there is for all that it writes and reads      *)
(* without looking again.                                                  *)
Room(n) == op + n <= oend
Short15 == length <= MASK

Margins ==
  /\ stage = "fast"      => ip < iend /\ Room(FASTLOOP_SAFE_DISTANCE)
  /\ stage = "safe"      => ip < iend /\ Room(0)
  /\ stage = "literals"  => ip <= iend /\ Room(0)
  /\ stage = "fastMatch" => ip < iend /\ Room(32) /\ Short15
  /\ stage = "shortcut"  => ip < iend /\ Room(18) /\ Short15
  /\ stage = "copyMatch" => ip < iend /\ Room(IF partial THEN 0 ELSE MFLIMIT) /\ Short15
  /\ stage = "match"     => ip < iend /\ Room(IF partial THEN 0 ELSE MFLIMIT)
                                      /\ length >= MINMATCH

SafeInv == SafeTypeOK /\ Margins /\ StaysInside

(* LZ4_decompress_fast.                                                    *)
FastInv ==
  /\ step \in {"idle", "literals", "match", "done", "failed", "outside"}
  /\ size \in Nat /\ fastToken \in U8
  /\ fastIp \in 0 .. srcSize
  /\ dst \in Seq(U8 \cup {Unset}) /\ Len(dst) <= size
  /\ step = "idle" => Len(dst) = 0

DInv == Given /\ SafeInv /\ FastInv
-----------------------------------------------------------------------------
(* A memory of which the bytes behind the output are as they were.         *)
Guarded(m) ==
  /\ DOMAIN m \subseteq Nat
  /\ \A i \in DOMAIN m : i > Len(prefix) + oend => m[i] = Foreign

(* The sizes, as far as the copies need them.                              *)
Sizes == Len(prefix) \in Nat /\ oend \in Nat

(* What is put in front of the end leaves the bytes behind it alone.       *)
LEMMA PutGuarded ==
  ASSUME Sizes, NEW m, Guarded(m), NEW to \in Int, NEW k \in Int, to + k <= oend,
         NEW bytes, DOMAIN bytes \subseteq 1 .. k
  PROVE  Guarded(Put(m, to, bytes))
<1>1. DOMAIN Put(m, to, bytes) = DOMAIN m
  BY DEF Put
<1>2. ASSUME NEW i \in DOMAIN m, i > Len(prefix) + oend
      PROVE  Put(m, to, bytes)[i] = Foreign
  <2>1. i - Len(prefix) - to \notin 1 .. k
    BY <1>2 DEF Sizes, Guarded
  <2>2. Put(m, to, bytes)[i] = m[i]
    BY <2>1 DEF Put
  <2> QED
    BY <1>2, <2>2 DEF Guarded
<1> QED
  BY <1>1, <1>2 DEF Guarded

(* memcpy of n bytes: they end at the end of the output or before it.      *)
LEMMA CopyGuarded ==
  ASSUME Sizes, NEW m, Guarded(m), NEW to \in Int, NEW from, NEW n \in Int, to + n <= oend
  PROVE  Guarded(Copy(m, to, from, n))
<1>1. DOMAIN Bytes(m, from, n) = 1 .. n
  BY DEF Bytes
<1> QED
  BY <1>1, PutGuarded DEF Copy

(* A copy of one byte at a time, of bytes that it may itself have written. *)
LEMMA OverlappingGuarded ==
  ASSUME Sizes, NEW m, Guarded(m), NEW to \in Int, NEW distance, NEW n \in Int, to + n <= oend
  PROVE  Guarded(Overlapping(m, to, distance, n))
<1> DEFINE bytes == [i \in 1 .. n |-> At(m, to - distance + ((i - 1) % distance))]
<1>1. DOMAIN bytes = 1 .. n
  OBVIOUS
<1> HIDE DEF bytes
<1>2. Guarded(Put(m, to, bytes))
  BY <1>1, PutGuarded
<1> QED
  BY <1>2 DEF Overlapping, bytes

-----------------------------------------------------------------------------
(* f is the recursive function of CopyPieces for so many copies.           *)
Built(f, c, m, to, from, n) ==
  f = [k \in 0 .. c |->
        IF k = 0 THEN m ELSE Copy(f[k - 1], to + (k - 1) * n, from + (k - 1) * n, n)]

(* The recursive function of CopyPieces exists, by the least number for    *)
(* which it would not.                                                     *)
LEMMA CanBeBuilt ==
  ASSUME NEW c \in Nat, NEW m, NEW to, NEW from, NEW n
  PROVE  \E f : Built(f, c, m, to, from, n)
<1> DEFINE Bad == {d \in Nat : ~\E f : Built(f, d, m, to, from, n)}
<1>1. SUFFICES ASSUME Bad # {} PROVE FALSE
  BY <1>1
<1>2. PICK d \in Bad : \A e \in Bad : d <= e
  BY <1>1, LeastNatural
<1>3. CASE d = 0
  <2> DEFINE f == [k \in 0 .. 0 |-> m]
  <2>1. Built(f, 0, m, to, from, n)
    BY DEF Built
  <2> QED
    BY <1>2, <1>3, <2>1
<1>4. CASE d # 0
  <2>1. d - 1 \in Nat /\ d - 1 \notin Bad
    BY <1>2, <1>4
  <2>2. PICK f : Built(f, d - 1, m, to, from, n)
    BY <2>1
  <2> DEFINE g == [k \in 0 .. d |->
                    IF k < d THEN f[k]
                    ELSE Copy(f[k - 1], to + (k - 1) * n, from + (k - 1) * n, n)]
  <2>3. Built(g, d, m, to, from, n)
    <3>1. ASSUME NEW k \in 0 .. d
          PROVE  g[k] = IF k = 0 THEN m
                        ELSE Copy(g[k - 1], to + (k - 1) * n, from + (k - 1) * n, n)
      <4>1. CASE k = 0
        BY <1>4, <2>1, <2>2, <4>1 DEF Built
      <4>2. CASE k # 0
        <5>1. k - 1 \in 0 .. d /\ k - 1 < d /\ g[k - 1] = f[k - 1]
          BY <4>2, <2>1
        <5>2. g[k] = Copy(f[k - 1], to + (k - 1) * n, from + (k - 1) * n, n)
          <6>1. CASE k = d
            BY <6>1
          <6>2. CASE k # d
            <7>1. k \in 0 .. d - 1 /\ k < d
              BY <6>2, <2>1
            <7>2. f[k] = Copy(f[k - 1], to + (k - 1) * n, from + (k - 1) * n, n)
              BY <2>2, <4>2, <7>1 DEF Built
            <7> QED
              BY <7>1, <7>2
          <6> QED
            BY <6>1, <6>2
        <5> QED
          BY <4>2, <5>1, <5>2
      <4> QED
        BY <4>1, <4>2
    <3> DEFINE h == [k \in 0 .. d |-> IF k = 0 THEN m
                        ELSE Copy(g[k - 1], to + (k - 1) * n, from + (k - 1) * n, n)]
    <3>2. g = h
      <4>1. \A k \in 0 .. d : g[k] = h[k]
        BY <3>1
      <4>2. g = [k \in 0 .. d |-> g[k]] /\ h = [k \in 0 .. d |-> h[k]]
        OBVIOUS
      <4> HIDE DEF g, h
      <4> QED
        BY <4>1, <4>2
    <3> QED
      BY <3>2 DEF Built
  <2> QED
    BY <1>2, <2>3
<1> QED
  BY <1>3, <1>4

(* Built piece by piece, every one of them in front of the end.            *)
LEMMA BuiltGuarded ==
  ASSUME Sizes, NEW c \in Nat, NEW m, Guarded(m), NEW to \in Int, NEW from, NEW n \in Nat,
         to + c * n <= oend, NEW f, Built(f, c, m, to, from, n)
  PROVE  Guarded(f[c])
<1> DEFINE Bad == {k \in 0 .. c : ~Guarded(f[k])}
<1>1. SUFFICES ASSUME Bad # {} PROVE FALSE
  BY <1>1
<1>2. PICK k \in Bad : \A e \in Bad : k <= e
  <2>1. Bad \subseteq Nat
    OBVIOUS
  <2> HIDE DEF Bad
  <2> QED
    BY <1>1, <2>1, LeastNatural
<1>3. k # 0
  BY <1>2 DEF Built
<1>4. k - 1 \in 0 .. c /\ k \in Nat /\ k <= c
  BY <1>2, <1>3
<1>5. Guarded(f[k - 1])
  BY <1>2, <1>4
<1>6. f[k] = Copy(f[k - 1], to + (k - 1) * n, from + (k - 1) * n, n)
  BY <1>2, <1>3, <1>4 DEF Built
<1>7. /\ k * n <= c * n /\ k * n \in Nat /\ c * n \in Nat
      /\ (k - 1) * n = k * n - n /\ (k - 1) * n \in Int
  BY <1>4, ProductMono
<1> DEFINE at == (k - 1) * n
           last == k * n
           all == c * n
<1>8. to + at \in Int /\ (to + at) + n <= oend
  <2>1. at \in Int /\ at = last - n /\ last <= all /\ last \in Nat /\ all \in Nat
        /\ to + all <= oend
    BY <1>7
  <2> HIDE DEF at, last, all
  <2> QED
    BY <2>1 DEF Sizes
<1>9. Guarded(Copy(f[k - 1], to + at, from + at, n))
  <2> HIDE DEF at
  <2> QED
    BY <1>5, <1>8, CopyGuarded
<1> QED
  BY <1>2, <1>6, <1>9

(* A loop in steps of so many bytes goes past its end by less than a step. *)
LEMMA PiecesBound ==
  ASSUME NEW n \in Int, NEW w \in Nat \ {0}
  PROVE  /\ Pieces(n, w) \in Nat
         /\ Pieces(n, w) <= IF n <= 0 THEN w ELSE n + w - 1
<1>1. CASE n <= 0
  BY <1>1 DEF Pieces
<1>2. CASE ~(n <= 0)
  <2> DEFINE a == n + w - 1
  <2>1. a \in Nat
    BY <1>2
  <2>2. (a \div w) * w \in Nat /\ (a \div w) * w <= a
    <3> HIDE DEF a
    <3> QED
      BY <2>1, QuotientTimes
  <2>3. Pieces(n, w) = (a \div w) * w
    BY <1>2 DEF Pieces
  <2> QED
    BY <1>2, <2>2, <2>3
<1> QED
  BY <1>1, <1>2

(* The loop of LZ4_wildCopy: room for one step, and for what it overshoots.*)
LEMMA CopyPiecesGuarded ==
  ASSUME Sizes, NEW m, Guarded(m), NEW to \in Int, NEW from, NEW end \in Int,
         NEW n \in Nat \ {0}, to + n <= oend, end + n - 1 <= oend
  PROVE  Guarded(CopyPieces(m, to, from, end, n))
<1> DEFINE P == Pieces(end - to, n)
           c == P \div n
<1>1. P \in Nat /\ to + P <= oend
  <2>1. end - to \in Int
    OBVIOUS
  <2>2. P \in Nat /\ P <= IF end - to <= 0 THEN n ELSE end - to + n - 1
    BY <2>1, PiecesBound
  <2> HIDE DEF P
  <2> QED
    BY <2>2 DEF Sizes
<1>2. c \in Nat /\ c * n \in Nat /\ c * n <= P
  <2> HIDE DEF P
  <2> QED
    BY <1>1, QuotientTimes
<1>3. to + c * n <= oend
  <2> DEFINE all == c * n
  <2>1. all \in Nat /\ all <= P
    BY <1>2
  <2> HIDE DEF P, c, all
  <2>2. to + all <= oend
    BY <1>1, <2>1 DEF Sizes
  <2> QED
    BY <2>2 DEF all
<1> DEFINE f == CHOOSE g : Built(g, c, m, to, from, n)
<1>4. Built(f, c, m, to, from, n)
  <2> HIDE DEF c
  <2> QED
    BY <1>2, CanBeBuilt
<1>5. Guarded(f[c])
  <2> HIDE DEF c, f
  <2> QED
    BY <1>2, <1>3, <1>4, BuiltGuarded
<1>6. CopyPieces(m, to, from, end, n) = f[c]
  BY DEF CopyPieces, Built
<1> QED
  BY <1>5, <1>6

-----------------------------------------------------------------------------
(* The copies of the decoder, and how much room each of them needs.        *)
LEMMA First8Guarded ==
  ASSUME Sizes, NEW m, Guarded(m), op \in Nat, offset \in Nat, op + 8 <= oend
  PROVE  Guarded(First8(m).mem)
<1>1. CASE offset >= 8
  <2>1. First8(m).mem = Copy(m, op, match, 8)
    BY <1>1 DEF First8
  <2> QED
    BY <2>1, CopyGuarded
<1>2. CASE ~(offset >= 8)
  <2> DEFINE four == IF offset = 0 THEN Put(m, op, <<0, 0, 0, 0>>)
                     ELSE Overlapping(m, op, offset, 4)
             next == match + inc32table[offset + 1]
  <2>1. Guarded(four)
    <3>1. Guarded(Put(m, op, <<0, 0, 0, 0>>))
      <4>1. DOMAIN <<0, 0, 0, 0>> \subseteq 1 .. 4 /\ op + 4 <= oend
        BY DEF Sizes
      <4> QED
        BY <4>1, PutGuarded
    <3>2. Guarded(Overlapping(m, op, offset, 4))
      BY OverlappingGuarded DEF Sizes
    <3> QED
      BY <3>1, <3>2
  <2>2. First8(m).mem = Copy(four, op + 4, next, 4)
    BY <1>2 DEF First8
  <2> HIDE DEF four, next
  <2>3. op + 4 \in Int /\ (op + 4) + 4 <= oend
    BY DEF Sizes
  <2>4. Guarded(Copy(four, op + 4, next, 4))
    BY <2>1, <2>3, CopyGuarded
  <2> QED
    BY <2>2, <2>4
<1> QED
  BY <1>1, <1>2

(* LZ4_wildCopy8 overshoots by 7 bytes.                                    *)
LEMMA WildCopy8Guarded ==
  ASSUME Sizes, NEW m, Guarded(m), NEW to \in Int, NEW from, NEW end \in Int,
         to + 8 <= oend, end + 7 <= oend
  PROVE  Guarded(WildCopy8(m, to, from, end))
<1>1. WildCopy8(m, to, from, end) = CopyPieces(m, to, from, end, 8)
  BY SafeDecoderAssumption DEF WildCopy8
<1>2. end + 8 - 1 <= oend
  BY DEF Sizes
<1> QED
  BY <1>1, <1>2, CopyPiecesGuarded

(* LZ4_wildCopy32 copies twice 16 bytes at a time and overshoots by 31     *)
(* bytes at most; the lemma on CopyPieces asks for 15 more, which there    *)
(* are.                                                                    *)
LEMMA WildCopy32Guarded ==
  ASSUME Sizes, NEW m, Guarded(m), NEW to \in Int, NEW from, NEW end \in Int,
         to + 47 <= oend, end + 46 <= oend
  PROVE  Guarded(WildCopy32(m, to, from, end))
<1> DEFINE d == end - to
           P == Pieces(d, 32)
<1>1. d \in Int /\ 32 \in Nat \ {0}
  OBVIOUS
<1>2. P \in Nat /\ P <= IF d <= 0 THEN 32 ELSE d + 32 - 1
  <2> HIDE DEF d
  <2> QED
    BY <1>1, PiecesBound
<1> HIDE DEF P
<1>3. to + P \in Int /\ to + 16 <= oend /\ (to + P) + 16 - 1 <= oend
  BY <1>2 DEF Sizes
<1>4. Guarded(CopyPieces(m, to, from, to + P, 16))
  BY <1>3, CopyPiecesGuarded
<1> QED
  BY <1>4 DEF WildCopy32, P

(* The 18 bytes the fast loop and the shortcut copy for any short match.   *)
LEMMA ThreePiecesGuarded ==
  ASSUME Sizes, Guarded(mem), op \in Nat, offset \in Nat, op + 18 <= oend
  PROVE  Guarded(ThreePieces)
<1>1. Guarded(Copy(mem, op, match, 8))
  BY CopyGuarded DEF Sizes
<1> DEFINE one == Copy(mem, op, match, 8)
           two == Copy(one, op + 8, match + 8, 8)
<1>2. Guarded(two)
  <2> HIDE DEF one
  <2>1. op + 8 \in Int /\ (op + 8) + 8 <= oend
    BY DEF Sizes
  <2> QED
    BY <1>1, <2>1, CopyGuarded DEF one
<1>3. Guarded(Copy(two, op + 16, match + 16, 2))
  <2> HIDE DEF two
  <2>1. op + 16 \in Int /\ (op + 16) + 2 <= oend
    BY DEF Sizes
  <2> QED
    BY <1>2, <2>1, CopyGuarded
<1> QED
  BY <1>3 DEF ThreePieces

(* LZ4_memcpy_using_offset.                                                *)
LEMMA CopyUsingOffsetGuarded ==
  ASSUME Sizes, NEW m, Guarded(m), op \in Nat, offset \in Nat, NEW end \in Int,
         op + 16 <= oend, end + 7 <= oend
  PROVE  Guarded(CopyUsingOffset(m, end))
<1>1. CASE offset \in {1, 2, 4}
  <2> DEFINE d == end - op
             P == Pieces(d, 8)
  <2>1. d \in Int /\ 8 \in Nat \ {0}
    OBVIOUS
  <2>2. P \in Nat /\ P <= IF d <= 0 THEN 8 ELSE d + 8 - 1
    <3> HIDE DEF d
    <3> QED
      BY <2>1, PiecesBound
  <2> HIDE DEF P
  <2>3. op + P <= oend
    BY <2>2 DEF Sizes
  <2>4. Guarded(Overlapping(m, op, offset, P))
    BY <2>2, <2>3, OverlappingGuarded
  <2> QED
    BY <1>1, <2>4 DEF CopyUsingOffset, P
<1>2. CASE offset \notin {1, 2, 4}
  <2> DEFINE first == First8(m)
  <2>1. Guarded(first.mem)
    BY First8Guarded DEF Sizes
  <2>2. op + 8 \in Int /\ (op + 8) + 8 <= oend
    BY DEF Sizes
  <2> HIDE DEF first
  <2>3. Guarded(WildCopy8(first.mem, op + 8, first.from, end))
    BY <2>1, <2>2, WildCopy8Guarded
  <2> QED
    BY <1>2, <2>3 DEF CopyUsingOffset, first
<1> QED
  BY <1>1, <1>2

(* A piece of the external dictionary is as long as it should be.          *)
LEMMA PieceOfExt ==
  ASSUME NEW s, NEW i \in Int, NEW j \in Int, NEW k \in Int, j - i + 1 <= k, 0 <= k
  PROVE  DOMAIN SubSeq(s, i, j) \subseteq 1 .. k
<1> DEFINE S == {s[l] : l \in i .. j}
<1>1. \A l \in i .. j : s[l] \in S
  OBVIOUS
<1> HIDE DEF S
<1>2. SubSeq(s, i, j) \in Seq(S) /\ Len(SubSeq(s, i, j)) = IF i <= j THEN j - i + 1 ELSE 0
  BY <1>1, SubSeqProperties
<1>3. DOMAIN SubSeq(s, i, j) = 1 .. Len(SubSeq(s, i, j))
  BY <1>2
<1> QED
  BY <1>2, <1>3

(* A match that begins in the external dictionary.                         *)
LEMMA FromExtGuarded ==
  ASSUME Sizes, Guarded(mem), op \in Nat, offset \in Nat, Len(ext) \in Nat,
         NEW n \in Nat, op + n <= oend, match < lowPrefix
  PROVE  Guarded(FromExt(n))
<1> DEFINE k == lowPrefix - match
<1>1. k \in Nat /\ k > 0
  BY DEF Sizes, lowPrefix, match
<1> HIDE DEF k
<1>2. CASE n <= k
  <2> DEFINE first == SubSeq(ext, Len(ext) - k + 1, Len(ext) - k + n)
  <2>1. /\ Len(ext) - k + 1 \in Int /\ Len(ext) - k + n \in Int
        /\ (Len(ext) - k + n) - (Len(ext) - k + 1) + 1 <= n /\ 0 <= n
    BY <1>1
  <2>2. DOMAIN first \subseteq 1 .. n
    BY <2>1, PieceOfExt
  <2> HIDE DEF first
  <2>3. Guarded(Put(mem, op, first))
    <3>1. op \in Int /\ n \in Int
      OBVIOUS
    <3> QED
      BY <2>2, <3>1, PutGuarded
  <2> QED
    BY <1>2, <2>3 DEF FromExt, k, first
<1>3. CASE ~(n <= k)
  <2> DEFINE first == SubSeq(ext, Len(ext) - k + 1, Len(ext))
             m == Put(mem, op, first)
  <2>1. /\ Len(ext) - k + 1 \in Int /\ Len(ext) \in Int
        /\ Len(ext) - (Len(ext) - k + 1) + 1 <= k /\ 0 <= k
    BY <1>1
  <2>2. DOMAIN first \subseteq 1 .. k
    BY <2>1, PieceOfExt, <1>1
  <2> HIDE DEF first
  <2>3. Guarded(m)
    <3>1. op + k <= oend /\ k \in Int /\ op \in Int
      BY <1>1, <1>3 DEF Sizes
    <3> QED
      BY <2>2, <3>1, PutGuarded
  <2> HIDE DEF m
  <2>4. op + k \in Int /\ n - k \in Int /\ (op + k) + (n - k) <= oend
    BY <1>1, <1>3 DEF Sizes
  <2>5. Guarded(Overlapping(m, op + k, op + k - lowPrefix, n - k))
    BY <2>3, <2>4, OverlappingGuarded
  <2> QED
    BY <1>3, <2>5 DEF FromExt, k, m, first
<1> QED
  BY <1>2, <1>3, <1>1

(* A match that comes close to the end: the last bytes one at a time.      *)
LEMMA ToTheEndGuarded ==
  ASSUME Sizes, NEW first, Guarded(first.mem), op \in Nat, length \in Nat,
         op + 8 <= oend, op + length <= oend
  PROVE  Guarded(ToTheEnd(first))
<1> DEFINE until == oend - (WILDCOPYLENGTH - 1)
           at == IF op + 8 < until THEN until ELSE op + 8
           m == IF op + 8 < until THEN WildCopy8(first.mem, op + 8, first.from, until)
                ELSE first.mem
           d == op + 8 - first.from
<1>1. until = oend - 7 /\ until \in Int
  BY SafeDecoderAssumption DEF Sizes
<1> HIDE DEF until
<1>2. Guarded(m)
  <2>1. CASE op + 8 < until
    <3>1. op + 8 \in Int /\ (op + 8) + 8 <= oend /\ until + 7 <= oend
      BY <1>1, <2>1 DEF Sizes
    <3>2. Guarded(WildCopy8(first.mem, op + 8, first.from, until))
      BY <1>1, <3>1, WildCopy8Guarded
    <3> QED
      BY <2>1, <3>2
  <2>2. CASE ~(op + 8 < until)
    BY <2>2
  <2> QED
    BY <2>1, <2>2
<1>3. at \in Int
  BY <1>1
<1> HIDE DEF m, at, d
<1>4. op + length - at \in Int /\ at + (op + length - at) <= oend
  BY <1>3 DEF Sizes
<1>5. Guarded(Overlapping(m, at, d, op + length - at))
  BY <1>2, <1>3, <1>4, OverlappingGuarded
<1> QED
  BY <1>5 DEF ToTheEnd, m, at, d, until

(* A match that ends at least 7 bytes before the end.                      *)
LEMMA FarFromEndGuarded ==
  ASSUME Sizes, NEW first, Guarded(first.mem), op \in Nat, length \in Nat,
         op + 16 <= oend, op + length + 7 <= oend
  PROVE  Guarded(FarFromEnd(first))
<1> DEFINE m == Copy(first.mem, op + 8, first.from, 8)
<1>1. Guarded(m)
  <2>1. op + 8 \in Int /\ (op + 8) + 8 <= oend
    BY DEF Sizes
  <2> QED
    BY <2>1, CopyGuarded
<1> HIDE DEF m
<1>2. CASE length > 16
  <2>1. op + 16 \in Int /\ (op + 16) + 8 <= oend /\ op + length \in Int
    BY <1>2 DEF Sizes
  <2>2. Guarded(WildCopy8(m, op + 16, first.from + 8, op + length))
    BY <1>1, <2>1, WildCopy8Guarded
  <2> QED
    BY <1>2, <2>2 DEF FarFromEnd, m
<1>3. CASE ~(length > 16)
  BY <1>1, <1>3 DEF FarFromEnd, m
<1> QED
  BY <1>2, <1>3

-----------------------------------------------------------------------------
(* Least and greatest.                                                     *)
LEMMA MaxOfTwo ==
  ASSUME NEW a \in Int, NEW b \in Int
  PROVE  Max({a, b}) \in {a, b} /\ Max({a, b}) >= a /\ Max({a, b}) >= b
<1>1. \E x \in {a, b} : \A y \in {a, b} : x >= y
  <2>1. CASE a >= b
    BY <2>1
  <2>2. CASE ~(a >= b)
    BY <2>2
  <2> QED
    BY <2>1, <2>2
<1> DEFINE x == Max({a, b})
<1>2. x \in {a, b} /\ \A y \in {a, b} : x >= y
  BY <1>1 DEF Max
<1> QED
  BY <1>2

LEMMA MinOfNaturals ==
  ASSUME NEW T, T \subseteq Nat, T # {}
  PROVE  Min(T) \in T /\ \A y \in T : Min(T) <= y
<1>1. \E x \in T : \A y \in T : x <= y
  BY LeastNatural
<1> QED
  BY <1>1 DEF Min

-----------------------------------------------------------------------------
(* The input.                                                              *)
LEMMA InputByte ==
  ASSUME input \in Seq(U8), NEW i \in Nat
  PROVE  In(i) \in U8
BY Numbers DEF In, U8

LEMMA OffsetBound ==
  ASSUME input \in Seq(U8), NEW i \in Nat
  PROVE  Offset(i) \in Nat
<1>1. In(i) \in U8 /\ In(i + 1) \in U8
  BY InputByte
<1>2. MAXBYTE = 255
  BY SafeDecoderAssumption
<1> DEFINE a == In(i)
           b == In(i + 1)
<1>3. a \in 0 .. 255 /\ b \in 0 .. 255
  BY <1>1, <1>2 DEF U8
<1> HIDE DEF a, b
<1>4. a + b * 256 \in Nat
  BY <1>3
<1> QED
  BY <1>2, <1>4 DEF Offset, a, b

(* Where the rest of a length ends.                                        *)
LEMMA LengthRead ==
  ASSUME input \in Seq(U8), NEW short \in Nat, NEW pos \in Nat, NEW limit \in Int,
         NEW check \in BOOLEAN
  PROVE  LET r == ReadLength(short, pos, limit, check)
         IN  /\ r.next \in Nat /\ r.len \in Nat
             /\ short # MASK => r.ok /\ r.len = short /\ r.next = pos
             /\ short = MASK /\ r.ok => r.next <= limit /\ r.len >= MASK
             /\ limit > pos => r.next <= limit + 1
             /\ limit <= pos => r.next <= IF check THEN pos ELSE pos + 1
<1> DEFINE last == IF limit > pos THEN limit ELSE pos
           ends == {i \in pos .. last : i + 1 > limit \/ In(i) # MAXBYTE}
           end == Min(ends)
           r == ReadLength(short, pos, limit, check)
<1>1. last \in Nat /\ last >= pos /\ last >= limit
  OBVIOUS
<1>2. ends \subseteq Nat /\ ends # {}
  <2>1. last \in ends
    BY <1>1
  <2> HIDE DEF last
  <2>2. ends \subseteq Nat
    BY <1>1
  <2> HIDE DEF ends
  <2> QED
    BY <2>1, <2>2
<1>3. end \in ends
  <2> HIDE DEF ends
  <2> QED
    BY <1>2, MinOfNaturals
<1>4. end \in Nat /\ pos <= end /\ end <= last
  BY <1>1, <1>3
<1>5. CASE short # MASK
  BY <1>5 DEF ReadLength
<1>6. CASE short = MASK /\ check /\ pos >= limit
  <2>1. r = [ok |-> FALSE, len |-> 0, next |-> pos]
    BY <1>6 DEF ReadLength
  <2> HIDE DEF r
  <2>2. r.ok = FALSE /\ r.len = 0 /\ r.next = pos
    BY <2>1
  <2>3. /\ r.next \in Nat /\ r.len \in Nat
        /\ short # MASK => r.ok /\ r.len = short /\ r.next = pos
        /\ short = MASK /\ r.ok => r.next <= limit /\ r.len >= MASK
        /\ limit > pos => r.next <= limit + 1
        /\ limit <= pos => r.next <= IF check THEN pos ELSE pos + 1
    BY <1>6, <2>2
  <2> QED
    BY <2>3 DEF r
<1>7. CASE short = MASK /\ ~(check /\ pos >= limit)
  <2>1. r = [ok |-> end + 1 <= limit, next |-> end + 1,
             len |-> short + (end - pos) * MAXBYTE + In(end)]
    BY <1>7 DEF ReadLength
  <2>2. In(end) \in Nat
    <3> HIDE DEF end
    <3>1. In(end) \in U8
      BY <1>4, InputByte
    <3> QED
      BY <3>1, Numbers DEF U8
  <2> HIDE DEF end, r
  <2>3. (end - pos) * MAXBYTE \in Nat
    BY <1>4, Numbers
  <2>4. r.len \in Nat /\ r.len >= short
    <3> DEFINE a == (end - pos) * MAXBYTE
    <3>1. a \in Nat /\ r.len = short + a + In(end)
      BY <2>1, <2>3
    <3> HIDE DEF a
    <3> QED
      BY <3>1, <2>2
  <2>5. r.ok = (end + 1 <= limit) /\ r.next = end + 1
    BY <2>1
  <2>6. r.next \in Nat
    BY <1>4, <2>5
  <2>7. limit > pos => r.next <= limit + 1
    BY <1>4, <2>5
  <2>8. limit <= pos => r.next <= IF check THEN pos ELSE pos + 1
    BY <1>4, <1>7, <2>5
  <2>9. r.ok => r.next <= limit
    BY <2>5
  <2> QED
    BY <1>7, <2>4, <2>6, <2>7, <2>8, <2>9 DEF r
<1> QED
  BY <1>5, <1>6, <1>7

(* The length of the literals: its bytes lie within the input; a long one  *)
(* ends far from its end.                                                  *)
LEMMA LiteralsRead ==
  ASSUME input \in Seq(U8), ip \in Nat, iend \in Nat, ip < iend
  PROVE  LET l == LiteralsLength
             short == In(ip) \div (MASK + 1)
         IN  /\ l.next \in Nat /\ l.len \in Nat /\ l.next <= iend
             /\ short # MASK => l.ok /\ l.len <= 14 /\ l.next = ip + 1
             /\ short = MASK /\ l.ok => l.len >= 15
<1> DEFINE short == In(ip) \div (MASK + 1)
           pos == ip + 1
           limit == iend - MASK
           l == ReadLength(short, pos, limit, TRUE)
<1>1. MASK = 15 /\ MAXBYTE = 255
  BY SafeDecoderAssumption
<1>2. short \in Nat /\ short <= 15
  <2>1. In(ip) \in 0 .. 255
    BY <1>1, InputByte DEF U8
  <2> DEFINE b == In(ip)
  <2>2. MASK + 1 = 16 /\ b \in 0 .. 255
    BY <1>1, <2>1
  <2> HIDE DEF b
  <2>3. b \div 16 \in Nat /\ b \div 16 <= 15
    BY <2>2
  <2>4. short = b \div 16
    BY <2>2 DEF b
  <2> QED
    BY <2>3, <2>4
<1>3. pos \in Nat /\ limit \in Int /\ pos <= iend /\ limit + 15 = iend
  BY <1>1
<1> HIDE DEF short, pos, limit
<1>4. /\ l.next \in Nat /\ l.len \in Nat
      /\ short # MASK => l.ok /\ l.len = short /\ l.next = pos
      /\ short = MASK /\ l.ok => l.next <= limit /\ l.len >= MASK
      /\ limit > pos => l.next <= limit + 1
      /\ limit <= pos => l.next <= IF TRUE THEN pos ELSE pos + 1
  BY <1>2, <1>3, LengthRead
<1> HIDE DEF l
<1>5. l.next <= iend
  BY <1>3, <1>4
<1>6. LiteralsLength = l
  BY DEF LiteralsLength, l, short, pos, limit
<1>7. short # MASK => l.len <= 14
  BY <1>1, <1>2, <1>4
<1> QED
  BY <1>1, <1>4, <1>5, <1>6, <1>7 DEF short, pos

(* The length of a match: after it there are bytes left.                   *)
LEMMA MatchRead ==
  ASSUME input \in Seq(U8), ip \in Nat, iend \in Nat, ip < iend, NEW short \in Nat
  PROVE  LET l == MatchLength(short)
         IN  /\ l.next \in Nat /\ l.len \in Nat /\ l.next <= iend
             /\ l.ok => l.next < iend
<1> DEFINE limit == iend - LASTLITERALS + 1
           l == ReadLength(short, ip, limit, FALSE)
<1>1. LASTLITERALS = 5
  BY SafeDecoderAssumption, Lz4Assumption
<1>2. limit \in Int /\ limit + 4 = iend
  BY <1>1
<1> HIDE DEF limit
<1>3. /\ l.next \in Nat /\ l.len \in Nat
      /\ short # MASK => l.ok /\ l.len = short /\ l.next = ip
      /\ short = MASK /\ l.ok => l.next <= limit /\ l.len >= MASK
      /\ limit > ip => l.next <= limit + 1
      /\ limit <= ip => l.next <= IF FALSE THEN ip ELSE ip + 1
  BY <1>2, LengthRead
<1> HIDE DEF l
<1>4. l.next <= iend /\ (l.ok => l.next < iend)
  BY <1>2, <1>3
<1>5. MatchLength(short) = l
  BY DEF MatchLength, l, limit
<1> QED
  BY <1>3, <1>4, <1>5

-----------------------------------------------------------------------------
(* What the steps of the safe decoder have in common.                      *)
LEMMA SafeFacts ==
  ASSUME Given, SafeInv
  PROVE  /\ Sizes /\ Guarded(mem)
         /\ input \in Seq(U8) /\ Len(ext) \in Nat
         /\ stage \in Stages /\ iend \in Nat /\ oend \in Nat /\ partial \in BOOLEAN
         /\ ip \in Nat /\ op \in Nat /\ token \in U8 /\ length \in Nat /\ offset \in Nat
         /\ read \in Nat /\ read <= iend
BY DEF Given, SafeInv, SafeTypeOK, StaysInside, Sizes, Guarded

LEMMA FormatNumbers ==
  /\ MASK = 15 /\ MAXBYTE = 255 /\ MINMATCH = 4 /\ WILDCOPYLENGTH = 8 /\ LASTLITERALS = 5
  /\ MFLIMIT \in 9 .. 14
  /\ FASTLOOP_SAFE_DISTANCE = 64 /\ MATCH_SAFEGUARD_DISTANCE = 12
BY Lz4Assumption, SafeDecoderAssumption DEF FASTLOOP_SAFE_DISTANCE, MATCH_SAFEGUARD_DISTANCE

(* What each step of LZ4_decompress_generic is shown to do is enough.      *)
LEMMA SafeKept ==
  ASSUME Given, SafeInv, UNCHANGED callVars,
         stage' \in Stages, token' \in U8, ip' \in Nat, op' \in Nat, length' \in Nat,
         offset' \in Nat, read' \in Nat, read' <= iend, Guarded(mem'), Margins'
  PROVE  SafeInv'
<1>1. /\ input' = input /\ prefix' = prefix /\ ext' = ext
      /\ iend' = iend /\ oend' = oend /\ partial' = partial
  BY DEF callVars
<1>2. SafeTypeOK'
  BY <1>1 DEF SafeInv, SafeTypeOK, Guarded
<1>3. StaysInside'
  BY <1>1 DEF StaysInside, Guarded
<1> QED
  BY <1>2, <1>3 DEF SafeInv

LEMMA ReadToBound ==
  ASSUME read \in Nat, read <= iend, iend \in Nat, NEW pos \in Nat, pos <= iend
  PROVE  ReadTo(pos) \in Nat /\ ReadTo(pos) <= iend
BY DEF ReadTo

(* The shapes of its steps: it returns, gives up, goes on to a stage, has  *)
(* copied literals, has copied a match.                                    *)
LEMMA DoneKeeps ==
  ASSUME Given, SafeInv, UNCHANGED callVars, stage' = "done",
         token' \in U8, ip' \in Nat, op' \in Nat, length' \in Nat, offset' \in Nat,
         read' \in Nat, read' <= iend, Guarded(mem')
  PROVE  SafeInv'
<1>1. Margins' /\ stage' \in Stages
  BY DEF Margins, Stages
<1> QED
  BY <1>1, SafeKept

LEMMA FailedAtKeeps ==
  ASSUME Given, SafeInv, UNCHANGED callVars, token' \in U8,
         NEW pos \in Nat, pos <= iend, FailedAt(pos)
  PROVE  SafeInv'
<1>1. /\ stage' = "done" /\ ip' \in Nat /\ read' = ReadTo(pos)
      /\ op' = op /\ length' = length /\ offset' = offset /\ mem' = mem
  BY DEF FailedAt, Returned
<1>2. read' \in Nat /\ read' <= iend
  BY <1>1, SafeFacts, ReadToBound
<1> QED
  BY <1>1, <1>2, SafeFacts, DoneKeeps

LEMMA GoToKeeps ==
  ASSUME Given, SafeInv, UNCHANGED callVars, token' \in U8,
         NEW next \in {"literals", "copyMatch", "match"},
         NEW pos \in Nat, pos <= iend, NEW len \in Nat, GoTo(next, pos, len),
         op <= oend,
         next # "literals" => pos < iend /\ op + (IF partial THEN 0 ELSE MFLIMIT) <= oend,
         next = "copyMatch" => len <= MASK,
         next = "match" => len >= MINMATCH
  PROVE  SafeInv'
<1>1. /\ stage' = next /\ ip' = pos /\ length' = len /\ read' = ReadTo(pos)
      /\ op' = op /\ offset' = offset /\ mem' = mem
  BY DEF GoTo
<1>2. read' \in Nat /\ read' <= iend
  BY <1>1, SafeFacts, ReadToBound
<1>3. iend' = iend /\ oend' = oend /\ partial' = partial
  BY DEF callVars
<1>4. Margins'
  BY <1>1, <1>3, SafeFacts DEF Margins, Room, Short15
<1>5. stage' \in Stages
  BY <1>1 DEF Stages
<1> QED
  BY <1>1, <1>2, <1>4, <1>5, SafeFacts, SafeKept

LEMMA LiteralsKeep ==
  ASSUME Given, SafeInv, UNCHANGED callVars, token' \in U8,
         NEW next \in {"fastMatch", "shortcut", "copyMatch"},
         NEW from \in Nat, NEW n \in Nat, NEW copied \in Nat,
         LiteralsThenOffset(from, n, copied, next),
         from + copied <= iend, from + n + 2 < iend, op + copied <= oend,
         op + n + (IF next = "fastMatch" THEN 32
                   ELSE IF next = "shortcut" THEN 18
                   ELSE IF partial THEN 0 ELSE MFLIMIT) <= oend
  PROVE  SafeInv'
<1> DEFINE far == Max({from + copied, from + n + 2})
<1>1. /\ mem' = Put(mem, op, Input(from, copied)) /\ op' = op + n /\ ip' = from + n + 2
      /\ offset' = Offset(from + n) /\ read' = ReadTo(far)
      /\ length' = token' % (MASK + 1) /\ stage' = next
  BY DEF LiteralsThenOffset
<1>2. far \in Nat /\ far <= iend
  <2> DEFINE a == from + copied
             b == from + n + 2
  <2>1. iend \in Nat
    BY SafeFacts
  <2>2. a \in Nat /\ b \in Nat /\ a <= iend /\ b <= iend /\ a \in Int /\ b \in Int
    BY <2>1
  <2> HIDE DEF a, b
  <2>3. Max({a, b}) \in {a, b}
    BY <2>2, MaxOfTwo
  <2> QED
    BY <2>2, <2>3 DEF a, b
<1> HIDE DEF far
<1>3. read' \in Nat /\ read' <= iend
  BY <1>1, <1>2, SafeFacts, ReadToBound
<1>4. Guarded(mem')
  <2>1. DOMAIN Input(from, copied) \subseteq 1 .. copied
    BY DEF Input
  <2>2. op \in Int /\ copied \in Int
    BY SafeFacts
  <2> QED
    BY <1>1, <2>1, <2>2, SafeFacts, PutGuarded
<1>5. offset' \in Nat
  <2>1. from + n \in Nat
    OBVIOUS
  <2> QED
    BY <1>1, <2>1, SafeFacts, OffsetBound
<1>6. length' \in Nat /\ length' <= MASK
  <2>1. token' \in Nat /\ MASK + 1 = 16
    BY FormatNumbers DEF U8
  <2>2. length' = token' % 16
    BY <1>1, <2>1
  <2> DEFINE t == token'
  <2>3. t \in Nat
    BY <2>1
  <2> HIDE DEF t
  <2>4. t % 16 \in 0 .. 15
    BY <2>3
  <2> QED
    BY <2>2, <2>4, FormatNumbers DEF t
<1>7. iend' = iend /\ oend' = oend /\ partial' = partial
  BY DEF callVars
<1>8. op' \in Nat /\ ip' \in Nat /\ ip' < iend
  <2>1. op \in Nat /\ iend \in Nat
    BY SafeFacts
  <2> QED
    BY <1>1, <2>1
<1>9. Margins'
  BY <1>1, <1>6, <1>7, <1>8, SafeFacts DEF Margins, Room, Short15
<1>10. stage' \in Stages
  BY <1>1 DEF Stages
<1> QED
  BY <1>3, <1>4, <1>5, <1>6, <1>8, <1>9, <1>10, SafeKept

LEMMA MatchKeeps ==
  ASSUME Given, SafeInv, UNCHANGED callVars, token' = token,
         ip' \in Nat, ip' < iend, read' \in Nat, read' <= iend,
         NEW m, Guarded(m), NEW n \in Nat, NEW next \in {"fast", "safe"},
         MatchDone(m, n, next),
         op + n + (IF next = "fast" THEN 64 ELSE 0) <= oend
  PROVE  SafeInv'
<1>1. mem' = m /\ op' = op + n /\ stage' = next /\ length' = length /\ offset' = offset
  BY DEF MatchDone
<1>2. iend' = iend /\ oend' = oend /\ partial' = partial
  BY DEF callVars
<1>3. op' \in Nat
  <2>1. op \in Nat
    BY SafeFacts
  <2> QED
    BY <1>1, <2>1
<1>4. Margins'
  BY <1>1, <1>2, <1>3, SafeFacts, FormatNumbers DEF Margins, Room, Short15
<1>5. stage' \in Stages
  BY <1>1 DEF Stages
<1> QED
  BY <1>1, <1>3, <1>4, <1>5, SafeFacts, SafeKept

-----------------------------------------------------------------------------
(* The steps of the safe decoder, one by one.                              *)
LEMMA FastLiteralsKeeps ==
  ASSUME Given, SafeInv, FastLiterals
  PROVE  SafeInv'
<1> DEFINE l == LiteralsLength
           short == In(ip) \div (MASK + 1)
           long == short = MASK
           room == IF long THEN op + l.len <= oend - 32 /\ l.next + l.len <= iend - 32
                   ELSE l.next <= iend - (16 + 1)
           copied == IF long THEN Pieces(l.len, 32) ELSE 16
<1>1. /\ UNCHANGED callVars /\ token' = In(ip)
      /\ \/ ~l.ok /\ FailedAt(l.next)
         \/ l.ok /\ ~room /\ GoTo("literals", l.next, l.len)
         \/ l.ok /\ room /\ LiteralsThenOffset(l.next, l.len, copied, "fastMatch")
  BY DEF FastLiterals
<1>2. ip \in Nat /\ op \in Nat /\ iend \in Nat /\ oend \in Nat /\ input \in Seq(U8)
  BY SafeFacts
<1>3. ip < iend /\ op + 64 <= oend
  BY FormatNumbers DEF FastLiterals, SafeInv, Margins, Room
<1>4. token' \in U8
  BY <1>1, <1>2, InputByte
<1>5. /\ l.next \in Nat /\ l.len \in Nat /\ l.next <= iend
      /\ ~long => l.ok /\ l.len <= 14 /\ l.next = ip + 1
      /\ long /\ l.ok => l.len >= 15
  BY <1>2, <1>3, LiteralsRead
<1> HIDE DEF l, short, long
<1>6. CASE ~l.ok /\ FailedAt(l.next)
  BY <1>1, <1>4, <1>5, <1>6, FailedAtKeeps
<1>7. CASE l.ok /\ ~room /\ GoTo("literals", l.next, l.len)
  <2>1. op <= oend
    BY <1>2, <1>3
  <2> QED
    BY <1>1, <1>4, <1>5, <1>7, <2>1, GoToKeeps
<1>8. CASE l.ok /\ room /\ LiteralsThenOffset(l.next, l.len, copied, "fastMatch")
  <2> DEFINE n == l.len
             from == l.next
  <2>1. n \in Nat /\ from \in Nat
    BY <1>5
  <2>2. /\ copied \in Nat /\ from + copied <= iend /\ from + n + 2 < iend
        /\ op + copied <= oend /\ op + n + 32 <= oend
    <3>1. CASE long
      <4> DEFINE P == Pieces(n, 32)
      <4>1. n >= 15 /\ op + n <= oend - 32 /\ from + n <= iend - 32
        BY <1>5, <1>8, <3>1
      <4>2. n \in Int /\ 32 \in Nat \ {0}
        BY <2>1
      <4> HIDE DEF n, from
      <4>3. P \in Nat /\ P <= IF n <= 0 THEN 32 ELSE n + 32 - 1
        BY <4>2, PiecesBound
      <4>4. copied = P
        BY <3>1 DEF n
      <4> HIDE DEF P, copied
      <4> QED
        BY <1>2, <2>1, <4>1, <4>3, <4>4
    <3>2. CASE ~long
      <4>1. n <= 14 /\ from <= iend - 17 /\ copied = 16
        BY <1>5, <1>8, <3>2
      <4> HIDE DEF n, from, copied
      <4> QED
        BY <1>2, <1>3, <2>1, <4>1
    <3> QED
      BY <3>1, <3>2
  <2>3. LiteralsThenOffset(from, n, copied, "fastMatch")
    BY <1>8
  <2> HIDE DEF n, from, copied
  <2> QED
    BY <1>1, <1>4, <2>1, <2>2, <2>3, LiteralsKeep
<1> QED
  BY <1>1, <1>6, <1>7, <1>8

LEMMA SafeLiteralsKeeps ==
  ASSUME Given, SafeInv, SafeLiterals
  PROVE  SafeInv'
<1> DEFINE l == LiteralsLength
           short == In(ip) \div (MASK + 1)
           shortcut == /\ short # MASK
                       /\ ip + 1 < iend - 14 - 2 /\ op <= oend - 14 - 18
<1>1. /\ UNCHANGED callVars /\ token' = In(ip)
      /\ \/ shortcut /\ LiteralsThenOffset(l.next, l.len, 16, "shortcut")
         \/ ~shortcut /\ ~l.ok /\ FailedAt(l.next)
         \/ ~shortcut /\ l.ok /\ GoTo("literals", l.next, l.len)
  BY DEF SafeLiterals
<1>2. ip \in Nat /\ op \in Nat /\ iend \in Nat /\ oend \in Nat /\ input \in Seq(U8)
  BY SafeFacts
<1>3. ip < iend /\ op <= oend
  BY <1>2 DEF SafeLiterals, SafeInv, Margins, Room
<1>4. token' \in U8
  BY <1>1, <1>2, InputByte
<1>5. /\ l.next \in Nat /\ l.len \in Nat /\ l.next <= iend
      /\ short # MASK => l.ok /\ l.len <= 14 /\ l.next = ip + 1
      /\ short = MASK /\ l.ok => l.len >= 15
  BY <1>2, <1>3, LiteralsRead
<1> HIDE DEF l, short
<1>6. CASE shortcut /\ LiteralsThenOffset(l.next, l.len, 16, "shortcut")
  <2> DEFINE n == l.len
             from == l.next
  <2>1. n \in Nat /\ from \in Nat /\ n <= 14 /\ from = ip + 1 /\ ip + 17 < iend
        /\ op + 32 <= oend
    BY <1>2, <1>5, <1>6
  <2>2. LiteralsThenOffset(from, n, 16, "shortcut") /\ 16 \in Nat
    BY <1>6
  <2> HIDE DEF n, from
  <2>3. /\ from + 16 <= iend /\ from + n + 2 < iend
        /\ op + 16 <= oend /\ op + n + 18 <= oend
    BY <1>2, <2>1
  <2> QED
    BY <1>1, <1>4, <2>1, <2>2, <2>3, LiteralsKeep
<1>7. CASE ~l.ok /\ FailedAt(l.next)
  BY <1>1, <1>4, <1>5, <1>7, FailedAtKeeps
<1>8. CASE l.ok /\ GoTo("literals", l.next, l.len)
  BY <1>1, <1>3, <1>4, <1>5, <1>8, GoToKeeps
<1> QED
  BY <1>1, <1>6, <1>7, <1>8

LEMMA CopyLiteralsKeeps ==
  ASSUME Given, SafeInv, CopyLiterals
  PROVE  SafeInv'
<1> DEFINE P == Pieces(length, 8)
<1>1. /\ UNCHANGED callVars /\ token' = token
      /\ LiteralsThenOffset(ip, length, P, "copyMatch")
  BY FormatNumbers DEF CopyLiterals
<1>2. /\ ip \in Nat /\ op \in Nat /\ iend \in Nat /\ oend \in Nat /\ length \in Nat
      /\ token \in U8
  BY SafeFacts
<1>3. op + length <= oend - MFLIMIT /\ ip + length <= iend - 8
  BY <1>2, FormatNumbers DEF CopyLiterals, LastLiteralsOrNone
<1>4. P \in Nat /\ P <= IF length <= 0 THEN 8 ELSE length + 8 - 1
  <2>1. length \in Int /\ 8 \in Nat \ {0}
    BY <1>2
  <2> QED
    BY <2>1, PiecesBound
<1> HIDE DEF P
<1>5. /\ ip + P <= iend /\ ip + length + 2 < iend /\ op + P <= oend
      /\ op + length + (IF partial THEN 0 ELSE MFLIMIT) <= oend
  BY <1>2, <1>3, <1>4, FormatNumbers
<1> QED
  BY <1>1, <1>2, <1>4, <1>5, LiteralsKeep

LEMMA LastLiteralsKeeps ==
  ASSUME Given, SafeInv, LastLiterals
  PROVE  SafeInv'
<1>1. UNCHANGED <<callVars, ip, op, token, length, offset>> /\ stage' = "done"
  BY DEF LastLiterals, Failed, Returned
<1>2. /\ ip \in Nat /\ op \in Nat /\ iend \in Nat /\ oend \in Nat /\ length \in Nat
      /\ read \in Nat /\ read <= iend
  BY SafeFacts
<1>3. read' \in Nat /\ read' <= iend /\ Guarded(mem')
  <2>1. CASE ip + length # iend \/ op + length > oend
    BY <2>1, SafeFacts DEF LastLiterals
  <2>2. CASE ~(ip + length # iend \/ op + length > oend)
    <3>1. mem' = Put(mem, op, Input(ip, length)) /\ read' = ReadTo(ip + length)
      BY <2>2 DEF LastLiterals
    <3>2. ip + length \in Nat /\ ip + length <= iend /\ op + length <= oend
      BY <1>2, <2>2
    <3>3. DOMAIN Input(ip, length) \subseteq 1 .. length /\ op \in Int /\ length \in Int
      BY <1>2 DEF Input
    <3>4. Guarded(mem')
      BY <3>1, <3>2, <3>3, SafeFacts, PutGuarded
    <3> QED
      BY <1>2, <3>1, <3>2, <3>4, ReadToBound
  <2> QED
    BY <2>1, <2>2
<1> QED
  BY <1>1, <1>3, SafeFacts, DoneKeeps

LEMMA PartialLiteralsKeeps ==
  ASSUME Given, SafeInv, PartialLiterals
  PROVE  SafeInv'
<1> DEFINE n == LiteralsLeft
<1>1. UNCHANGED callVars /\ token' = token /\ partial /\ stage = "literals"
  BY DEF PartialLiterals
<1>2. /\ ip \in Nat /\ op \in Nat /\ iend \in Nat /\ oend \in Nat /\ length \in Nat
      /\ read \in Nat /\ read <= iend /\ token \in U8
  BY SafeFacts
<1>3. ip <= iend /\ op <= oend
  BY <1>1, <1>2 DEF SafeInv, Margins, Room
<1>4. n \in Nat /\ n <= length /\ n <= iend - ip /\ n <= oend - op
  <2> DEFINE T == {length, iend - ip, oend - op}
  <2>1. T \subseteq Nat /\ T # {}
    BY <1>2, <1>3
  <2>2. n = Min(T) /\ length \in T /\ iend - ip \in T /\ oend - op \in T
    BY DEF LiteralsLeft
  <2> HIDE DEF T, n
  <2> QED
    BY <2>1, <2>2, MinOfNaturals
<1>5. CASE op + n = oend \/ ip + n >= iend - 2
  <2>1. /\ mem' = Put(mem, op, Input(ip, n)) /\ read' = ReadTo(ip + n)
        /\ stage' = "done" /\ UNCHANGED <<ip, op, length, offset>>
    BY <1>5 DEF PartialLiterals, Returned
  <2> HIDE DEF n
  <2>2. ip + n \in Nat /\ ip + n <= iend /\ op + n <= oend
    BY <1>2, <1>4
  <2>3. DOMAIN Input(ip, n) \subseteq 1 .. n /\ op \in Int /\ n \in Int
    BY <1>2, <1>4 DEF Input
  <2>4. Guarded(mem')
    BY <2>1, <2>2, <2>3, SafeFacts, PutGuarded
  <2>5. read' \in Nat /\ read' <= iend
    BY <1>2, <2>1, <2>2, ReadToBound
  <2> QED
    BY <1>1, <2>1, <2>4, <2>5, SafeFacts, DoneKeeps
<1>6. CASE ~(op + n = oend \/ ip + n >= iend - 2)
  <2>1. LiteralsThenOffset(ip, n, n, "copyMatch")
    BY <1>6 DEF PartialLiterals
  <2> HIDE DEF n
  <2>2. /\ ip + n <= iend /\ ip + n + 2 < iend /\ op + n <= oend
        /\ op + n + (IF partial THEN 0 ELSE MFLIMIT) <= oend
    BY <1>1, <1>2, <1>4, <1>6
  <2> QED
    BY <1>1, <1>2, <1>4, <2>1, <2>2, LiteralsKeep
<1> QED
  BY <1>5, <1>6

LEMMA FastMatchKeeps ==
  ASSUME Given, SafeInv, FastMatch
  PROVE  SafeInv'
<1> DEFINE l == MatchLength(length)
           n == l.len + MINMATCH
           near == op + n >= oend - FASTLOOP_SAFE_DISTANCE
           bad == ~l.ok \/ (OutsideBuffers /\ (length = MASK \/ ~near))
           m == IF length # MASK /\ InThreePieces THEN ThreePieces
                ELSE IF match < lowPrefix THEN FromExt(n)
                ELSE IF offset < 16 THEN CopyUsingOffset(mem, op + n)
                ELSE WildCopy32(mem, op, match, op + n)
<1>1. /\ UNCHANGED <<callVars, token>>
      /\ \/ bad /\ FailedAt(l.next)
         \/ ~bad /\ near /\ GoTo("match", l.next, n)
         \/ /\ ~bad /\ ~near
            /\ ip' = l.next /\ read' = ReadTo(l.next) /\ MatchDone(m, n, "fast")
  BY DEF FastMatch
<1>2. /\ ip \in Nat /\ op \in Nat /\ iend \in Nat /\ oend \in Nat /\ length \in Nat
      /\ read \in Nat /\ read <= iend /\ offset \in Nat /\ token \in U8
      /\ input \in Seq(U8) /\ Len(ext) \in Nat
  BY SafeFacts
<1>3. ip < iend /\ op + 32 <= oend
  BY DEF FastMatch, SafeInv, Margins, Room
<1>4. l.next \in Nat /\ l.len \in Nat /\ l.next <= iend /\ (l.ok => l.next < iend)
  BY <1>2, <1>3, MatchRead
<1>5. n \in Nat /\ n >= MINMATCH /\ token' \in U8
  <2>1. token' \in U8
    BY <1>1, <1>2
  <2> HIDE DEF l
  <2>2. n \in Nat /\ n >= MINMATCH
    BY <1>4, FormatNumbers
  <2> QED
    BY <2>1, <2>2
<1>6. ~bad => l.ok
  OBVIOUS
<1> HIDE DEF l, n
<1>7. CASE bad /\ FailedAt(l.next)
  BY <1>1, <1>4, <1>5, <1>7, FailedAtKeeps
<1>8. CASE ~bad /\ near /\ GoTo("match", l.next, n)
  <2>1. op <= oend /\ op + (IF partial THEN 0 ELSE MFLIMIT) <= oend
    BY <1>2, <1>3, FormatNumbers
  <2> QED
    BY <1>1, <1>4, <1>5, <1>6, <1>8, <2>1, GoToKeeps
<1>9. CASE /\ ~bad /\ ~near
           /\ ip' = l.next /\ read' = ReadTo(l.next) /\ MatchDone(m, n, "fast")
  <2>1. op + n + 64 < oend
    BY <1>2, <1>5, <1>9, FormatNumbers
  <2>2. /\ op + 18 <= oend /\ op + n <= oend /\ op + 16 <= oend
        /\ op + n \in Int /\ op \in Int /\ op + n + 7 <= oend
        /\ op + 47 <= oend /\ op + n + 46 <= oend /\ op + n + 64 <= oend
    BY <1>2, <1>5, <2>1
  <2>3. Guarded(m)
    <3>1. CASE length # MASK /\ InThreePieces
      BY <1>2, <2>2, <3>1, SafeFacts, ThreePiecesGuarded
    <3>2. CASE ~(length # MASK /\ InThreePieces) /\ match < lowPrefix
      <4>1. Guarded(FromExt(n))
        BY <1>2, <1>5, <2>2, <3>2, SafeFacts, FromExtGuarded
      <4> QED
        BY <3>2, <4>1
    <3>3. CASE ~(length # MASK /\ InThreePieces) /\ ~(match < lowPrefix) /\ offset < 16
      <4>1. Guarded(CopyUsingOffset(mem, op + n))
        BY <1>2, <2>2, SafeFacts, CopyUsingOffsetGuarded
      <4> QED
        BY <3>3, <4>1
    <3>4. CASE ~(length # MASK /\ InThreePieces) /\ ~(match < lowPrefix) /\ ~(offset < 16)
      <4>1. Guarded(WildCopy32(mem, op, match, op + n))
        BY <2>2, SafeFacts, WildCopy32Guarded
      <4> QED
        BY <3>4, <4>1
    <3> QED
      BY <3>1, <3>2, <3>3, <3>4
  <2>4. read' \in Nat /\ read' <= iend
    BY <1>2, <1>4, <1>9, ReadToBound
  <2>5. ip' \in Nat /\ ip' < iend
    BY <1>4, <1>6, <1>9
  <2>6. MatchDone(m, n, "fast")
    BY <1>9
  <2> HIDE DEF m
  <2> QED
    BY <1>1, <1>5, <2>2, <2>3, <2>4, <2>5, <2>6, MatchKeeps
<1> QED
  BY <1>1, <1>7, <1>8, <1>9

LEMMA ShortcutKeeps ==
  ASSUME Given, SafeInv, Shortcut
  PROVE  SafeInv'
<1>1. /\ UNCHANGED <<callVars, token>>
      /\ IF length # MASK /\ InThreePieces
           THEN MatchDone(ThreePieces, length + MINMATCH, "safe") /\ UNCHANGED <<ip, read>>
           ELSE GoTo("copyMatch", ip, length)
  BY DEF Shortcut
<1>2. /\ ip \in Nat /\ op \in Nat /\ iend \in Nat /\ oend \in Nat /\ length \in Nat
      /\ read \in Nat /\ read <= iend /\ offset \in Nat /\ token \in U8
  BY SafeFacts
<1>3. ip < iend /\ op + 18 <= oend /\ length <= MASK
  BY DEF Shortcut, SafeInv, Margins, Room, Short15
<1>4. token' \in U8
  BY <1>1, <1>2
<1>5. CASE length # MASK /\ InThreePieces
  <2> DEFINE n == length + MINMATCH
  <2>1. n \in Nat /\ op + n + 0 <= oend
    BY <1>2, <1>3, <1>5, FormatNumbers
  <2>2. Guarded(ThreePieces)
    BY <1>2, <1>3, SafeFacts, ThreePiecesGuarded
  <2>3. MatchDone(ThreePieces, n, "safe") /\ ip' = ip /\ read' = read
    BY <1>1, <1>5
  <2> HIDE DEF n
  <2> QED
    BY <1>1, <1>2, <1>3, <2>1, <2>2, <2>3, MatchKeeps
<1>6. CASE ~(length # MASK /\ InThreePieces)
  <2>1. op <= oend /\ op + (IF partial THEN 0 ELSE MFLIMIT) <= oend /\ ip <= iend
    BY <1>2, <1>3, FormatNumbers
  <2>2. GoTo("copyMatch", ip, length)
    BY <1>1, <1>6
  <2> QED
    BY <1>1, <1>2, <1>3, <1>4, <2>1, <2>2, GoToKeeps
<1> QED
  BY <1>5, <1>6

LEMMA ReadMatchLengthKeeps ==
  ASSUME Given, SafeInv, ReadMatchLength
  PROVE  SafeInv'
<1> DEFINE l == MatchLength(length)
           n == l.len + MINMATCH
<1>1. /\ UNCHANGED <<callVars, token>>
      /\ \/ ~l.ok /\ FailedAt(l.next)
         \/ l.ok /\ GoTo("match", l.next, n)
  BY DEF ReadMatchLength
<1>2. /\ ip \in Nat /\ op \in Nat /\ iend \in Nat /\ oend \in Nat /\ length \in Nat
      /\ token \in U8 /\ input \in Seq(U8)
  BY SafeFacts
<1>3. ip < iend /\ op + (IF partial THEN 0 ELSE MFLIMIT) <= oend
  BY DEF ReadMatchLength, SafeInv, Margins, Room
<1>4. l.next \in Nat /\ l.len \in Nat /\ l.next <= iend /\ (l.ok => l.next < iend)
  BY <1>2, <1>3, MatchRead
<1>5. n \in Nat /\ n >= MINMATCH /\ token' \in U8
  BY <1>1, <1>2, <1>4, FormatNumbers
<1>6. op <= oend
  BY <1>2, <1>3, FormatNumbers
<1> HIDE DEF l, n
<1>7. CASE ~l.ok /\ FailedAt(l.next)
  BY <1>1, <1>4, <1>5, <1>7, FailedAtKeeps
<1>8. CASE l.ok /\ GoTo("match", l.next, n)
  BY <1>1, <1>3, <1>4, <1>5, <1>6, <1>8, GoToKeeps
<1> QED
  BY <1>1, <1>7, <1>8

(* Of each step at "match" there is this to know.                          *)
LEMMA AtMatch ==
  ASSUME Given, SafeInv, stage = "match"
  PROVE  /\ ip \in Nat /\ op \in Nat /\ iend \in Nat /\ oend \in Nat /\ length \in Nat
         /\ read \in Nat /\ read <= iend /\ offset \in Nat /\ Len(ext) \in Nat
         /\ Sizes /\ Guarded(mem)
         /\ ip < iend /\ op <= oend /\ (~partial => op + 8 <= oend) /\ length >= 4
         /\ PastEnd <=> op + length > oend - 5
         /\ NearEnd <=> op + length > oend - 12
<1>1. ip < iend /\ op + (IF partial THEN 0 ELSE MFLIMIT) <= oend /\ length >= MINMATCH
  BY DEF SafeInv, Margins, Room
<1>2. /\ ip \in Nat /\ op \in Nat /\ iend \in Nat /\ oend \in Nat /\ length \in Nat
      /\ read \in Nat /\ read <= iend /\ offset \in Nat /\ Len(ext) \in Nat
      /\ Sizes /\ Guarded(mem) /\ partial \in BOOLEAN
  BY SafeFacts
<1> QED
  BY <1>1, <1>2, FormatNumbers DEF PastEnd, NearEnd

(* What is left of a partial decoding's output.                            *)
LEMMA LengthLeftBound ==
  ASSUME length \in Nat, op \in Nat, oend \in Nat, op <= oend
  PROVE  LengthLeft \in Nat /\ op + LengthLeft <= oend
<1> DEFINE T == {length, oend - op}
           n == LengthLeft
<1>1. T \subseteq Nat /\ T # {} /\ oend - op \in T
  OBVIOUS
<1>2. n = Min(T)
  BY DEF LengthLeft
<1> HIDE DEF T, n
<1>3. n \in Nat /\ n <= oend - op
  BY <1>1, <1>2, MinOfNaturals
<1> QED
  BY <1>3 DEF n

LEMMA BadMatchKeeps ==
  ASSUME Given, SafeInv, BadMatch
  PROVE  SafeInv'
<1>1. /\ UNCHANGED callVars /\ stage' = "done" /\ stage = "match"
      /\ UNCHANGED <<ip, op, token, length, offset, read>>
      /\ OutsideBuffers \/ ~partial
      /\ mem' = IF OutsideBuffers \/ InExt THEN mem ELSE First8(mem).mem
  BY DEF BadMatch, Failed, Returned
<1>2. Guarded(mem')
  <2>1. CASE OutsideBuffers \/ InExt
    BY <1>1, <2>1, AtMatch
  <2>2. CASE ~(OutsideBuffers \/ InExt)
    <3>1. op + 8 <= oend /\ op \in Nat /\ offset \in Nat /\ Sizes /\ Guarded(mem)
      BY <1>1, <2>2, AtMatch
    <3>2. Guarded(First8(mem).mem)
      BY <3>1, First8Guarded
    <3> QED
      BY <1>1, <2>2, <3>2
  <2> QED
    BY <2>1, <2>2
<1> QED
  BY <1>1, <1>2, SafeFacts, DoneKeeps

LEMMA MatchFromExtKeeps ==
  ASSUME Given, SafeInv, MatchFromExt
  PROVE  SafeInv'
<1> DEFINE n == IF PastEnd THEN LengthLeft ELSE length
<1>1. /\ UNCHANGED callVars /\ token' = token /\ ip' = ip /\ read' = read
      /\ stage = "match" /\ match < lowPrefix
      /\ MatchDone(FromExt(n), n, "safe")
  BY DEF MatchFromExt, InExt
<1>2. /\ ip \in Nat /\ op \in Nat /\ iend \in Nat /\ oend \in Nat /\ length \in Nat
      /\ read \in Nat /\ read <= iend /\ offset \in Nat /\ Len(ext) \in Nat
      /\ Sizes /\ Guarded(mem) /\ ip < iend /\ op <= oend
      /\ PastEnd <=> op + length > oend - 5
  BY <1>1, AtMatch
<1>3. n \in Nat /\ op + n <= oend
  <2>1. CASE PastEnd
    BY <1>2, <2>1, LengthLeftBound
  <2>2. CASE ~PastEnd
    BY <1>2, <2>2
  <2> QED
    BY <2>1, <2>2
<1> HIDE DEF n
<1>4. Guarded(FromExt(n))
  BY <1>1, <1>2, <1>3, FromExtGuarded
<1>5. op + n + 0 <= oend
  BY <1>2, <1>3
<1> QED
  BY <1>1, <1>2, <1>3, <1>4, <1>5, MatchKeeps

LEMMA PartialMatchKeeps ==
  ASSUME Given, SafeInv, PartialMatch
  PROVE  SafeInv'
<1> DEFINE n == LengthLeft
<1>1. /\ UNCHANGED callVars /\ UNCHANGED <<ip, token, length, offset, read>>
      /\ stage = "match" /\ stage' \in {"safe", "done"}
      /\ mem' = (IF offset = 0 THEN mem ELSE Overlapping(mem, op, offset, n))
      /\ op' = op + n
  BY DEF PartialMatch, Returned
<1>2. /\ ip \in Nat /\ op \in Nat /\ iend \in Nat /\ oend \in Nat /\ length \in Nat
      /\ read \in Nat /\ read <= iend /\ offset \in Nat
      /\ Sizes /\ Guarded(mem) /\ ip < iend /\ op <= oend
  BY <1>1, AtMatch
<1>3. n \in Nat /\ op + n <= oend
  BY <1>2, LengthLeftBound
<1> HIDE DEF n
<1>4. Guarded(mem')
  <2>1. Guarded(Overlapping(mem, op, offset, n))
    <3>1. op \in Int /\ n \in Int
      BY <1>2, <1>3
    <3> QED
      BY <1>2, <1>3, <3>1, OverlappingGuarded
  <2> QED
    BY <1>1, <1>2, <2>1
<1>5. iend' = iend /\ oend' = oend /\ partial' = partial
  BY <1>1 DEF callVars
<1>6. op' \in Nat /\ op' <= oend /\ stage' \in Stages
  BY <1>1, <1>2, <1>3 DEF Stages
<1>7. Margins'
  BY <1>1, <1>2, <1>5, <1>6 DEF Margins, Room
<1>8. token' \in U8
  BY <1>1, SafeFacts
<1> QED
  BY <1>1, <1>2, <1>4, <1>6, <1>7, <1>8, SafeKept

LEMMA MatchInBlockKeeps ==
  ASSUME Given, SafeInv, MatchInBlock
  PROVE  SafeInv'
<1> DEFINE first == First8(mem)
           m == IF NearEnd THEN ToTheEnd(first) ELSE FarFromEnd(first)
<1>1. /\ UNCHANGED callVars /\ token' = token /\ ip' = ip /\ read' = read
      /\ stage = "match" /\ ~PastEnd /\ ~(partial /\ NearEnd)
      /\ MatchDone(m, length, "safe")
  BY DEF MatchInBlock
<1>2. /\ ip \in Nat /\ op \in Nat /\ iend \in Nat /\ oend \in Nat /\ length \in Nat
      /\ read \in Nat /\ read <= iend /\ offset \in Nat
      /\ Sizes /\ Guarded(mem) /\ ip < iend /\ op <= oend /\ length >= 4
      /\ ~partial => op + 8 <= oend
      /\ PastEnd <=> op + length > oend - 5
      /\ NearEnd <=> op + length > oend - 12
  BY <1>1, AtMatch
<1>3. op + 8 <= oend /\ op + length <= oend
  BY <1>1, <1>2
<1>4. Guarded(first.mem)
  BY <1>2, <1>3, First8Guarded
<1> HIDE DEF first
<1>5. Guarded(m)
  <2>1. CASE NearEnd
    <3>1. Guarded(ToTheEnd(first))
      BY <1>2, <1>3, <1>4, ToTheEndGuarded
    <3> QED
      BY <2>1, <3>1
  <2>2. CASE ~NearEnd
    <3>1. op + 16 <= oend /\ op + length + 7 <= oend
      BY <1>2, <2>2
    <3>2. Guarded(FarFromEnd(first))
      BY <1>2, <1>4, <3>1, FarFromEndGuarded
    <3> QED
      BY <2>2, <3>2
  <2> QED
    BY <2>1, <2>2
<1>6. op + length + 0 <= oend
  BY <1>2, <1>3
<1> HIDE DEF m
<1> QED
  BY <1>1, <1>2, <1>5, <1>6, MatchKeeps

LEMMA DecodeKeeps ==
  ASSUME Given, SafeInv, Decode
  PROVE  SafeInv'
BY FastLiteralsKeeps, SafeLiteralsKeeps, CopyLiteralsKeeps, LastLiteralsKeeps,
   PartialLiteralsKeeps, FastMatchKeeps, ShortcutKeeps, ReadMatchLengthKeeps,
   BadMatchKeeps, MatchFromExtKeeps, PartialMatchKeeps, MatchInBlockKeeps DEF Decode

LEMMA CallKeeps ==
  ASSUME Given, SafeInv, NEW n \in Nat, NEW room \in Nat, NEW part \in BOOLEAN,
         Call(n, room, part)
  PROVE  SafeInv'
<1>1. /\ iend' = n /\ oend' = room /\ partial' = part
      /\ ip' = 0 /\ op' = 0 /\ token' = 0 /\ length' = 0 /\ offset' = 0
      /\ mem' = prefix \o [i \in 1 .. room |-> Old] \o [i \in 1 .. BEHIND |-> Foreign]
      /\ read' = IF room = 0 /\ ~part /\ n = 1 THEN 1 ELSE 0
      /\ prefix' = prefix
  BY DEF Call
<1>2. \/ stage' = "done"
      \/ /\ n # 0 /\ room # 0
         /\ stage' = IF room < FASTLOOP_SAFE_DISTANCE THEN "safe" ELSE "fast"
  BY DEF Call, Returned
<1>3. DOMAIN mem' \subseteq Nat
      /\ \A i \in DOMAIN mem' : i > Len(prefix) + room => mem'[i] = Foreign
  <2> DEFINE S == U8 \cup {Old, Foreign}
             inside == [i \in 1 .. room |-> Old]
             behind == [i \in 1 .. BEHIND |-> Foreign]
             one == prefix \o inside
             all == one \o behind
  <2>1. /\ prefix \in Seq(S) /\ Len(prefix) \in Nat
        /\ inside \in Seq(S) /\ Len(inside) = room
    BY DEF Given
  <2>2. /\ behind \in Seq(S) /\ Len(behind) = BEHIND
        /\ \A i \in 1 .. BEHIND : behind[i] = Foreign
    BY DEF BEHIND
  <2>3. BEHIND \in Nat
    BY DEF BEHIND
  <2> HIDE DEF S, inside, behind
  <2>4. one \in Seq(S) /\ Len(one) = Len(prefix) + room
    BY <2>1
  <2> HIDE DEF one
  <2>5. /\ all \in Seq(S) /\ Len(all) = Len(one) + BEHIND
        /\ \A i \in Len(one) + 1 .. Len(one) + BEHIND : all[i] = behind[i - Len(one)]
    <3>1. /\ all \in Seq(S) /\ Len(all) = Len(one) + Len(behind)
          /\ \A i \in 1 .. Len(one) + Len(behind) :
               all[i] = IF i <= Len(one) THEN one[i] ELSE behind[i - Len(one)]
      BY <2>2, <2>4, ConcatProperties
    <3>2. Len(one) \in Nat
      BY <2>4
    <3> HIDE DEF all
    <3> QED
      BY <2>2, <2>3, <3>1, <3>2
  <2> HIDE DEF all
  <2>6. DOMAIN all = 1 .. Len(prefix) + room + BEHIND
    BY <2>1, <2>4, <2>5
  <2>7. ASSUME NEW i \in DOMAIN all, i > Len(prefix) + room
        PROVE  all[i] = Foreign
    <3>1. i \in Len(one) + 1 .. Len(one) + BEHIND /\ i - Len(one) \in 1 .. BEHIND
      BY <2>1, <2>3, <2>4, <2>6, <2>7
    <3> QED
      BY <2>2, <2>5, <3>1
  <2>8. mem' = all
    BY <1>1 DEF all, one, inside, behind
  <2> QED
    BY <2>1, <2>3, <2>6, <2>7, <2>8
<1>4. StaysInside'
  <2>1. read' <= iend'
    BY <1>1
  <2>2. \A i \in DOMAIN mem' : i > Len(prefix') + oend' => mem'[i] = Foreign
    <3>1. prefix' = prefix /\ oend' = room
      BY <1>1
    <3> QED
      BY <1>3, <3>1
  <2> QED
    BY <2>1, <2>2 DEF StaysInside
<1>5. SafeTypeOK'
  BY <1>1, <1>2, <1>3, FormatNumbers DEF SafeTypeOK, Stages, U8
<1>6. Margins'
  BY <1>1, <1>2, FormatNumbers DEF Margins, Room, Short15
<1> QED
  BY <1>4, <1>5, <1>6 DEF SafeInv

-----------------------------------------------------------------------------
(* LZ4_decompress_fast.                                                    *)
LEMMA FastInput ==
  ASSUME Given
  PROVE  /\ SubSeq(input, 1, srcSize) \in Seq(U8) /\ Len(SubSeq(input, 1, srcSize)) = srcSize
         /\ srcSize \in Nat
         /\ \A i \in 1 .. srcSize : SubSeq(input, 1, srcSize)[i] \in U8
<1>1. srcSize \in Nat /\ \A i \in 1 .. srcSize : input[i] \in U8
  BY DEF Given
<1>2. /\ SubSeq(input, 1, srcSize) \in Seq(U8)
      /\ Len(SubSeq(input, 1, srcSize)) = IF 1 <= srcSize THEN srcSize - 1 + 1 ELSE 0
  BY <1>1, SubSeqProperties
<1> QED
  BY <1>1, <1>2

(* A length, of which the rest ends within the input.                      *)
LEMMA FastLongAt ==
  ASSUME Given, NEW pos \in Nat, NEW l \in Fast!LongAt(pos)
  PROVE  l.len \in Nat /\ l.next \in pos + 1 .. srcSize
         /\ l = [len |-> l.len, next |-> l.next]
<1> DEFINE inp == SubSeq(input, 1, srcSize)
           ends == {i \in pos + 1 .. Len(inp) : inp[i] # MAXBYTE}
           end == CHOOSE i \in ends : \A j \in ends : i <= j
<1>1. Len(inp) = srcSize /\ srcSize \in Nat /\ \A i \in 1 .. srcSize : inp[i] \in U8
  BY FastInput
<1>2. ends # {} /\ l = [len |-> (end - pos - 1) * MAXBYTE + inp[end], next |-> end]
  BY DEF Fast!LongAt
<1>3. ends \subseteq Nat /\ ends \subseteq pos + 1 .. srcSize
  BY <1>1
<1> HIDE DEF inp
<1>4. end \in ends
  <2> HIDE DEF ends
  <2>1. \E i \in ends : \A j \in ends : i <= j
    BY <1>2, <1>3, LeastNatural
  <2> QED
    BY <2>1
<1> HIDE DEF end
<1>5. end \in pos + 1 .. srcSize /\ end \in 1 .. srcSize /\ end \in Nat
  BY <1>3, <1>4
<1> HIDE DEF ends
<1>6. inp[end] \in Nat
  <2>1. inp[end] \in U8
    BY <1>1, <1>5
  <2> QED
    BY <2>1, Numbers DEF U8
<1>7. (end - pos - 1) * MAXBYTE + inp[end] \in Nat
  <2> DEFINE k == end - pos - 1
  <2>1. k \in Nat
    BY <1>5
  <2> HIDE DEF k
  <2>2. k * MAXBYTE \in Nat
    BY <2>1, Numbers
  <2> QED
    BY <1>6, <2>2 DEF k
<1> QED
  BY <1>2, <1>5, <1>7

(* LZ4_decompress_fast: its lengths are read from the input.               *)
LEMMA FastLengthAt ==
  ASSUME Given, NEW short \in Nat, NEW pos \in 0 .. srcSize, NEW l \in Fast!LengthAt(short, pos)
  PROVE  l.len \in Nat /\ l.next \in pos .. srcSize
<1>0. srcSize \in Nat /\ pos \in Nat
  BY DEF Given
<1>1. CASE short < MASK
  BY <1>0, <1>1 DEF Fast!LengthAt
<1>2. CASE ~(short < MASK)
  <2>1. PICK k \in Fast!LongAt(pos) : l = [k EXCEPT !.len = @ + short]
    BY <1>2 DEF Fast!LengthAt
  <2>2. k.len \in Nat /\ k.next \in pos + 1 .. srcSize /\ k = [len |-> k.len, next |-> k.next]
    BY <1>0, FastLongAt
  <2>3. l.len = k.len + short /\ l.next = k.next
    BY <2>1, <2>2
  <2> QED
    BY <1>0, <2>2, <2>3
<1> QED
  BY <1>1, <1>2

Slots == U8 \cup {Unset}

LEMMA FastFacts ==
  ASSUME Given, FastInv
  PROVE  /\ size \in Nat /\ fastIp \in 0 .. srcSize /\ srcSize \in Nat /\ fastIp \in Nat
         /\ dst \in Seq(Slots) /\ Len(dst) \in Nat /\ Len(dst) <= size /\ fastToken \in U8
         /\ Fast!left = size - Len(dst) /\ Fast!left \in Nat
BY DEF Given, FastInv, Slots, Fast!left

LEMMA PlainLiteralsKeep ==
  ASSUME Given, FastInv, srcSize' = srcSize, Fast!Literals
  PROVE  FastInv'
<1> DEFINE inp == SubSeq(input, 1, srcSize)
           t == inp[fastIp + 1]
<1>1. /\ size \in Nat /\ fastIp \in 0 .. srcSize /\ srcSize \in Nat /\ fastIp \in Nat
      /\ dst \in Seq(Slots) /\ Len(dst) \in Nat /\ Len(dst) <= size /\ fastToken \in U8
      /\ Fast!left = size - Len(dst) /\ Fast!left \in Nat
  BY FastFacts
<1>2. inp \in Seq(U8) /\ Len(inp) = srcSize /\ \A i \in 1 .. srcSize : inp[i] \in U8
  BY FastInput
<1>3. PICK l \in Fast!LiteralsAhead :
        /\ fastToken' = t
        /\ IF l.len > Fast!left
             THEN step' = "failed" /\ UNCHANGED <<fastIp, dst>>
             ELSE /\ dst' = dst \o SubSeq(inp, l.next + 1, l.next + l.len)
                  /\ fastIp' = l.next + l.len
                  /\ step' = Fast!AfterLiterals(Fast!left - l.len)
  BY DEF Fast!Literals
<1>4. size' = size
  BY DEF Fast!Literals
<1>5. /\ fastIp # srcSize /\ l \in Fast!LengthAt(t \div (MASK + 1), fastIp + 1)
      /\ l.len > Fast!left \/ l.next + l.len <= srcSize
  BY <1>2 DEF Fast!LiteralsAhead
<1>6. fastIp + 1 \in 1 .. srcSize /\ fastIp + 1 \in 0 .. srcSize
  BY <1>1, <1>5
<1>7. t \in U8
  BY <1>2, <1>6
<1> HIDE DEF t
<1>8. t \div (MASK + 1) \in Nat
  <2>1. t \in Nat /\ MASK + 1 = 16
    BY <1>7, FormatNumbers DEF U8
  <2>2. t \div 16 \in Nat
    BY <2>1
  <2> QED
    BY <2>1, <2>2
<1>9. l.len \in Nat /\ l.next \in fastIp + 1 .. srcSize
  <2> DEFINE short == t \div (MASK + 1)
             pos == fastIp + 1
  <2>1. short \in Nat /\ pos \in 0 .. srcSize /\ l \in Fast!LengthAt(short, pos)
    BY <1>5, <1>6, <1>8
  <2> HIDE DEF short, pos
  <2>2. l.len \in Nat /\ l.next \in pos .. srcSize
    BY <2>1, FastLengthAt
  <2> QED
    BY <2>2 DEF pos
<1>10. step' \in {"match", "done", "failed"}
  BY <1>3 DEF Fast!AfterLiterals
<1>11. /\ fastIp' \in 0 .. srcSize /\ dst' \in Seq(Slots) /\ Len(dst') <= size
  <2>1. CASE l.len > Fast!left
    BY <1>1, <1>3, <2>1
  <2>2. CASE ~(l.len > Fast!left)
    <3> DEFINE more == SubSeq(inp, l.next + 1, l.next + l.len)
    <3>1. /\ l.next + 1 \in Int /\ l.next + l.len \in Int /\ l.next + l.len <= srcSize
          /\ l.next + l.len \in 0 .. srcSize /\ l.len <= size - Len(dst)
      BY <1>1, <1>5, <1>9, <2>2
    <3>2. \A i \in l.next + 1 .. l.next + l.len : inp[i] \in Slots
      <4>1. \A i \in l.next + 1 .. l.next + l.len : i \in 1 .. srcSize
        BY <1>1, <1>9, <3>1
      <4> HIDE DEF inp
      <4> QED
        BY <1>2, <4>1 DEF Slots
    <3>3. more \in Seq(Slots) /\ Len(more) = l.len
      <4> DEFINE a == l.next + 1
                 b == l.next + l.len
      <4>1. a \in Int /\ b \in Int /\ \A i \in a .. b : inp[i] \in Slots
        BY <3>1, <3>2
      <4>2. IF a <= b THEN b - a + 1 = l.len ELSE l.len = 0
        BY <1>1, <1>9
      <4> HIDE DEF a, b, inp
      <4>3. SubSeq(inp, a, b) \in Seq(Slots)
            /\ Len(SubSeq(inp, a, b)) = IF a <= b THEN b - a + 1 ELSE 0
        BY <4>1, SubSeqProperties
      <4> QED
        BY <4>2, <4>3 DEF a, b
    <3>4. dst' = dst \o more /\ fastIp' = l.next + l.len
      BY <1>3, <2>2
    <3> HIDE DEF more
    <3>5. dst \o more \in Seq(Slots) /\ Len(dst \o more) = Len(dst) + Len(more)
      BY <1>1, <3>3, ConcatProperties
    <3> QED
      BY <1>1, <1>9, <3>1, <3>3, <3>4, <3>5
  <2> QED
    BY <2>1, <2>2
<1> QED
  BY <1>1, <1>3, <1>4, <1>7, <1>10, <1>11 DEF FastInv, Slots

(* What a match copies are bytes of what is there, or bytes that a         *)
(* distance of 0 leaves as they were.                                      *)
LEMMA CopiedType ==
  ASSUME Given, dst \in Seq(Slots), NEW offset_ \in Nat, NEW len \in Nat,
         ~Fast!OutOfRange(offset_)
  PROVE  Fast!Copied(offset_, len) \in Seq(Slots) /\ Len(Fast!Copied(offset_, len)) = len
<1>1. CASE offset_ = 0
  <2>1. Fast!Copied(offset_, len) = [i \in 1 .. len |-> Unset]
    BY <1>1 DEF Fast!Copied
  <2> QED
    BY <2>1 DEF Slots
<1>2. CASE offset_ # 0
  <2> DEFINE window == (ext \o prefix) \o dst
             c == [i \in 1 .. len |->
                    window[Len(window) - offset_ + 1 + ((i - 1) % offset_)]]
  <2>1. Fast!Copied(offset_, len) = c
    BY <1>2 DEF Fast!Copied, Fast!CopyMatch
  <2>2. window \in Seq(Slots) /\ Len(window) = Len(ext \o prefix) + Len(dst)
        /\ Len(ext \o prefix) \in Nat /\ Len(dst) \in Nat
    <3>1. ext \in Seq(Slots) /\ prefix \in Seq(Slots)
      BY DEF Given, Slots
    <3>2. ext \o prefix \in Seq(Slots)
      BY <3>1
    <3> DEFINE h == ext \o prefix
    <3> HIDE DEF h
    <3>3. h \o dst \in Seq(Slots) /\ Len(h \o dst) = Len(h) + Len(dst)
          /\ Len(h) \in Nat /\ Len(dst) \in Nat
      BY <3>2, ConcatProperties DEF h
    <3> QED
      BY <3>3 DEF h
  <2>3. offset_ <= Len(window)
    BY <2>2 DEF Fast!OutOfRange
  <2> HIDE DEF window
  <2>4. Len(window) \in Nat /\ \A i \in 1 .. Len(window) : window[i] \in Slots
    BY <2>2
  <2>5. ASSUME NEW i \in 1 .. len
        PROVE  window[Len(window) - offset_ + 1 + ((i - 1) % offset_)] \in Slots
    <3> DEFINE r == (i - 1) % offset_
    <3>1. i - 1 \in Nat /\ offset_ \in Nat \ {0}
      BY <1>2
    <3>2. r \in 0 .. offset_ - 1
      <4> DEFINE k == i - 1
      <4> HIDE DEF k
      <4> QED
        BY <3>1, QuotientRemainder DEF k
    <3> HIDE DEF r
    <3>3. Len(window) - offset_ + 1 + r \in 1 .. Len(window)
      BY <2>3, <2>4, <3>1, <3>2
    <3> QED
      BY <2>4, <3>3 DEF r
  <2>6. c \in [1 .. len -> Slots]
    BY <2>5
  <2> HIDE DEF c
  <2>7. c \in Seq(Slots) /\ Len(c) = len
    BY <2>6
  <2> QED
    BY <2>1, <2>7
<1> QED
  BY <1>1, <1>2

LEMMA PlainMatchKeeps ==
  ASSUME Given, FastInv, srcSize' = srcSize, Fast!Match
  PROVE  FastInv'
<1> DEFINE inp == SubSeq(input, 1, srcSize)
           d == Fast!ReadLE16(inp, fastIp)
<1>1. /\ size \in Nat /\ fastIp \in 0 .. srcSize /\ srcSize \in Nat /\ fastIp \in Nat
      /\ dst \in Seq(Slots) /\ Len(dst) \in Nat /\ Len(dst) <= size /\ fastToken \in U8
      /\ Fast!left = size - Len(dst) /\ Fast!left \in Nat
  BY FastFacts
<1>2. inp \in Seq(U8) /\ Len(inp) = srcSize /\ \A i \in 1 .. srcSize : inp[i] \in U8
  BY FastInput
<1>3. PICK l \in Fast!MatchAhead :
        IF Fast!TooLong(l.len + MINMATCH) \/ Fast!OutOfRange(d)
          THEN step' = "failed" /\ UNCHANGED <<fastIp, dst>>
          ELSE /\ dst' = dst \o Fast!Copied(d, l.len + MINMATCH)
               /\ fastIp' = l.next
               /\ step' = IF Fast!left - (l.len + MINMATCH) < LASTLITERALS THEN "failed"
                          ELSE "literals"
  BY DEF Fast!Match
<1>4. size' = size /\ fastToken' = fastToken
  BY DEF Fast!Match
<1>5. ~(fastIp + 2 > srcSize) /\ l \in Fast!LengthAt(fastToken % (MASK + 1), fastIp + 2)
  BY <1>2 DEF Fast!MatchAhead
<1>6. fastIp + 2 \in 0 .. srcSize /\ fastIp + 1 \in 1 .. srcSize /\ fastIp + 2 \in 1 .. srcSize
  BY <1>1, <1>5
<1>7. d \in Nat
  <2> DEFINE a == inp[fastIp + 1]
             b == inp[fastIp + 2]
  <2>1. a \in U8 /\ b \in U8
    BY <1>2, <1>6
  <2>2. d = a + b * (MAXBYTE + 1)
    BY DEF Fast!ReadLE16
  <2> HIDE DEF a, b, d
  <2>3. a \in Nat /\ b \in Nat /\ MAXBYTE + 1 = 256
    BY <2>1, FormatNumbers DEF U8
  <2>4. a + b * 256 \in Nat
    BY <2>3
  <2> QED
    BY <2>2, <2>3, <2>4
<1> HIDE DEF d
<1>8. fastToken % (MASK + 1) \in Nat
  <2>1. fastToken \in Nat /\ MASK + 1 = 16
    BY <1>1, FormatNumbers DEF U8
  <2>2. fastToken % 16 \in Nat
    BY <2>1
  <2> QED
    BY <2>1, <2>2
<1>9. l.len \in Nat /\ l.next \in fastIp + 2 .. srcSize
  <2> DEFINE short == fastToken % (MASK + 1)
             pos == fastIp + 2
  <2>1. short \in Nat /\ pos \in 0 .. srcSize /\ l \in Fast!LengthAt(short, pos)
    BY <1>5, <1>6, <1>8
  <2> HIDE DEF short, pos
  <2>2. l.len \in Nat /\ l.next \in pos .. srcSize
    BY <2>1, FastLengthAt
  <2> QED
    BY <2>2 DEF pos
<1>10. step' \in {"failed", "literals"}
  BY <1>3
<1>11. /\ fastIp' \in 0 .. srcSize /\ dst' \in Seq(Slots) /\ Len(dst') <= size
  <2> DEFINE len == l.len + MINMATCH
  <2>1. len \in Nat
    BY <1>9, FormatNumbers
  <2>2. CASE Fast!TooLong(len) \/ Fast!OutOfRange(d)
    BY <1>1, <1>3, <2>2
  <2>3. CASE ~(Fast!TooLong(len) \/ Fast!OutOfRange(d))
    <3> DEFINE more == Fast!Copied(d, len)
    <3>1. dst' = dst \o more /\ fastIp' = l.next
      BY <1>3, <2>3
    <3>2. len <= size - Len(dst)
      BY <1>1, <2>1, <2>3 DEF Fast!TooLong
    <3> HIDE DEF len
    <3>3. more \in Seq(Slots) /\ Len(more) = len
      BY <1>1, <1>7, <2>1, <2>3, CopiedType
    <3> HIDE DEF more
    <3>4. dst \o more \in Seq(Slots) /\ Len(dst \o more) = Len(dst) + Len(more)
      BY <1>1, <3>3, ConcatProperties
    <3> QED
      BY <1>1, <1>9, <2>1, <3>1, <3>2, <3>3, <3>4
  <2> QED
    BY <2>2, <2>3
<1> QED
  BY <1>1, <1>4, <1>10, <1>11 DEF FastInv, Slots

LEMMA PlainKeeps ==
  ASSUME Given, FastInv, srcSize' = srcSize, Fast!Decode
  PROVE  FastInv'
<1>1. CASE Fast!Outside
  BY <1>1 DEF Fast!Outside, FastInv
<1> QED
  BY <1>1, PlainLiteralsKeep, PlainMatchKeeps DEF Fast!Decode

-----------------------------------------------------------------------------
LEMMA DecodersInitially == DecodersInit => DInv
<1> SUFFICES ASSUME DecodersInit PROVE DInv
  OBVIOUS
<1>1. Given
  BY DEF DecodersInit, Given
<1>2. SafeInv
  <2>1. mem = <<>> /\ DOMAIN mem = {}
    BY DEF DecodersInit, SafeInit
  <2>2. /\ stage = "idle" /\ iend = 0 /\ oend = 0 /\ partial = FALSE
        /\ ip = 0 /\ op = 0 /\ token = 0 /\ length = 0 /\ offset = 0 /\ read = 0
    BY DEF DecodersInit, SafeInit
  <2>3. SafeTypeOK
    <3>1. DOMAIN mem \subseteq Nat
      BY <2>1
    <3>2. partial \in BOOLEAN
      BY <2>2
    <3>3. token \in U8 /\ stage \in Stages
      BY <2>2, FormatNumbers DEF U8, Stages
    <3>4. iend \in Nat /\ oend \in Nat /\ ip \in Nat /\ op \in Nat /\ length \in Nat
          /\ offset \in Nat /\ read \in Nat
      BY <2>2
    <3> QED
      BY <3>1, <3>2, <3>3, <3>4 DEF SafeTypeOK
  <2>4. Margins
    BY <2>2 DEF Margins
  <2>5. StaysInside
    BY <2>1, <2>2 DEF StaysInside
  <2> QED
    BY <2>3, <2>4, <2>5 DEF SafeInv
<1>3. FastInv
  <2>1. dst = <<>> /\ dst \in Seq(U8 \cup {Unset}) /\ Len(dst) = 0
    BY DEF DecodersInit, Fast!Init
  <2> QED
    BY <1>1, <2>1, FormatNumbers DEF DecodersInit, Fast!Init, FastInv, Given, U8
<1> QED
  BY <1>1, <1>2, <1>3 DEF DInv

LEMMA DecodersStep == DInv /\ [DecodersNext]_allVars => DInv'
<1> SUFFICES ASSUME DInv, [DecodersNext]_allVars PROVE DInv'
  OBVIOUS
<1>1. Given /\ SafeInv /\ FastInv
  BY DEF DInv
<1>2. UNCHANGED safeVars => SafeInv'
  BY <1>1 DEF safeVars, SafeInv, SafeTypeOK, Margins, StaysInside, Room, Short15
<1>3. UNCHANGED fastVars /\ srcSize' = srcSize => FastInv'
  BY <1>1 DEF fastVars, FastInv
<1>4. UNCHANGED <<input, prefix, ext, srcSize, capacity>> => Given'
  BY <1>1 DEF Given
<1>5. CASE CallFast
  <2>1. /\ UNCHANGED safeVars /\ UNCHANGED <<input, prefix, ext, srcSize, capacity>>
        /\ Fast!Call(capacity)
    BY <1>5 DEF CallFast, safeVars
  <2>2. FastInv'
    BY <1>1, <2>1 DEF Fast!Call, FastInv, Fast!Init, Given
  <2> QED
    BY <1>2, <1>4, <2>1, <2>2 DEF DInv
<1>6. CASE DecodeFast
  <2>1. /\ UNCHANGED safeVars /\ UNCHANGED <<input, prefix, ext, srcSize, capacity>>
        /\ Fast!Decode
    BY <1>6 DEF DecodeFast, safeVars
  <2>2. FastInv'
    BY <1>1, <2>1, PlainKeeps
  <2> QED
    BY <1>2, <1>4, <2>1, <2>2 DEF DInv
<1>7. CASE CallSafe
  <2>1. /\ UNCHANGED fastVars /\ UNCHANGED <<input, prefix, ext, srcSize, capacity>>
        /\ Call(srcSize, capacity, FALSE)
    BY <1>7 DEF CallSafe, Call
  <2>2. SafeInv'
    <3>1. srcSize \in Nat /\ capacity \in Nat /\ FALSE \in BOOLEAN
      BY <1>1 DEF Given
    <3> QED
      BY <1>1, <2>1, <3>1, CallKeeps
  <2> QED
    BY <1>3, <1>4, <2>1, <2>2 DEF DInv
<1>8. CASE DecodeSafe
  <2>1. UNCHANGED fastVars /\ srcSize' = srcSize /\ capacity' = capacity /\ Decode
    BY <1>8 DEF DecodeSafe
  <2>2. SafeInv'
    BY <1>1, <2>1, DecodeKeeps
  <2>3. UNCHANGED <<input, prefix, ext>>
    BY <2>1 DEF Decode, callVars, FastLiterals, SafeLiterals, CopyLiterals, LastLiterals,
       PartialLiterals, FastMatch, Shortcut, ReadMatchLength, BadMatch, MatchFromExt,
       PartialMatch, MatchInBlock
  <2> QED
    BY <1>3, <1>4, <2>1, <2>2, <2>3 DEF DInv
<1>9. ASSUME NEW n \in {srcSize, Len(input)}, NEW t \in Targets, CallPartial(n, t)
      PROVE  DInv'
  <2>1. /\ UNCHANGED fastVars /\ UNCHANGED <<input, prefix, ext, srcSize, capacity>>
        /\ Call(n, t, TRUE)
    BY <1>9 DEF CallPartial, Call
  <2>2. SafeInv'
    <3>1. n \in Nat /\ t \in Nat /\ TRUE \in BOOLEAN
      BY <1>1, <1>9, DecodersAssumption DEF Given
    <3> QED
      BY <1>1, <2>1, <3>1, CallKeeps
  <2> QED
    BY <1>3, <1>4, <2>1, <2>2 DEF DInv
<1>10. CASE UNCHANGED allVars
  BY <1>2, <1>3, <1>4, <1>10 DEF allVars, safeVars, DInv
<1>11. CASE Finished
  BY <1>10, <1>11 DEF Finished
<1> QED
  BY <1>5, <1>6, <1>7, <1>8, <1>9, <1>10, <1>11 DEF DecodersNext

(* Everywhere, there is the room that the next copies need.                *)
THEOREM DecodersHaveRoom == DecodersSpec => []DInv
<1>1. DecodersInit => DInv
  BY DecodersInitially
<1>2. DInv /\ [DecodersNext]_allVars => DInv'
  BY DecodersStep
<1> QED
  BY <1>1, <1>2, PTL DEF DecodersSpec

(* LZ4_decompress_safe, its partial variant, and those with a prefix or an *)
(* external dictionary, never write behind the output buffer, nor read     *)
(* behind the input, "whatever bytes" they are given (lz4.h:199).          *)
THEOREM SafeDecoderStaysInside == DecodersSpec => []StaysInside
<1>1. DInv => StaysInside
  BY DEF DInv, SafeInv
<1> QED
  BY <1>1, DecodersHaveRoom, PTL

(* LZ4_decompress_fast, which has no size of its input, never writes past  *)
(* the output buffer either (lz4.h:834).                                   *)
THEOREM FastDecoderStaysInside == DecodersSpec => []NeverPastOutput
<1>1. DInv => NeverPastOutput
  BY DEF DInv, FastInv, NeverPastOutput, Fast!NeverPastOutput
<1> QED
  BY <1>1, DecodersHaveRoom, PTL

-----------------------------------------------------------------------------
(* That the decoders agree.  A sequence at position i of the bytes b: how  *)
(* a length goes on, how many literals there are and where, the distance   *)
(* and the length of the match, and where the next sequence is.            *)
ByteAt(b, i) == IF i < Len(b) THEN b[i + 1] ELSE 0

EndOf(b, pos) ==
  CHOOSE i \in Nat :
    /\ pos <= i /\ ByteAt(b, i) # MAXBYTE
    /\ \A j \in pos .. i - 1 : ByteAt(b, j) = MAXBYTE

LengthEnd(b, short, pos) == IF short # MASK THEN pos ELSE EndOf(b, pos) + 1
LengthIs(b, short, pos) ==
  IF short # MASK THEN short
  ELSE short + (EndOf(b, pos) - pos) * MAXBYTE + ByteAt(b, EndOf(b, pos))

LitCode(b, i) == ByteAt(b, i) \div (MASK + 1)
MatchCode(b, i) == ByteAt(b, i) % (MASK + 1)
LitFrom(b, i) == LengthEnd(b, LitCode(b, i), i + 1)
LitLen(b, i) == LengthIs(b, LitCode(b, i), i + 1)
LitEnd(b, i) == LitFrom(b, i) + LitLen(b, i)
DistAt(b, i) == ByteAt(b, LitEnd(b, i)) + ByteAt(b, LitEnd(b, i) + 1) * (MAXBYTE + 1)
MatchLen(b, i) == LengthIs(b, MatchCode(b, i), LitEnd(b, i) + 2) + MINMATCH
NextIp(b, i) == LengthEnd(b, MatchCode(b, i), LitEnd(b, i) + 2)

LEMMA ByteIs ==
  ASSUME NEW b \in Seq(U8), NEW i \in Nat
  PROVE  ByteAt(b, i) \in U8 /\ ByteAt(b, i) \in 0 .. 255
<1>1. ByteAt(b, i) \in U8
  <2>1. CASE i < Len(b)
    <3>1. i + 1 \in 1 .. Len(b)
      BY <2>1
    <3>2. b[i + 1] \in U8
      BY <3>1
    <3> QED
      BY <2>1, <3>2 DEF ByteAt
  <2>2. CASE ~(i < Len(b))
    BY <2>2, FormatNumbers DEF ByteAt, U8
  <2> QED
    BY <2>1, <2>2
<1> QED
  BY <1>1, FormatNumbers DEF U8

(* Every length ends: behind the bytes there is a 0.                       *)
LEMMA EndExists ==
  ASSUME NEW b \in Seq(U8), NEW pos \in Nat
  PROVE  /\ EndOf(b, pos) \in Nat /\ pos <= EndOf(b, pos)
         /\ ByteAt(b, EndOf(b, pos)) # MAXBYTE
         /\ \A j \in pos .. EndOf(b, pos) - 1 : ByteAt(b, j) = MAXBYTE
<1> DEFINE T == {i \in Nat : pos <= i /\ ByteAt(b, i) # MAXBYTE}
           z == IF pos <= Len(b) THEN Len(b) ELSE pos
<1>1. z \in T
  <2>1. z \in Nat /\ pos <= z /\ ~(z < Len(b))
    OBVIOUS
  <2>2. ByteAt(b, z) = 0
    BY <2>1 DEF ByteAt
  <2> QED
    BY <2>1, <2>2, FormatNumbers
<1>2. PICK e \in T : \A y \in T : e <= y
  <2>1. T \subseteq Nat /\ T # {}
    BY <1>1
  <2> HIDE DEF T
  <2> QED
    BY <2>1, LeastNatural
<1>3. \A j \in pos .. e - 1 : ByteAt(b, j) = MAXBYTE
  <2>1. \A j \in pos .. e - 1 : j \in Nat /\ pos <= j /\ ~(e <= j)
    BY <1>2
  <2> QED
    BY <1>2, <2>1
<1> QED
  BY <1>2, <1>3 DEF EndOf

LEMMA LengthNumbers ==
  ASSUME NEW b \in Seq(U8), NEW short \in Nat, NEW pos \in Nat
  PROVE  /\ LengthEnd(b, short, pos) \in Nat /\ LengthIs(b, short, pos) \in Nat
         /\ short # MASK => LengthEnd(b, short, pos) = pos /\ LengthIs(b, short, pos) = short
         /\ short = MASK => LengthEnd(b, short, pos) > pos /\ LengthIs(b, short, pos) >= MASK
         /\ LengthEnd(b, short, pos) >= pos
<1> DEFINE e == EndOf(b, pos)
<1>1. e \in Nat /\ pos <= e
  BY EndExists
<1>2. ByteAt(b, e) \in 0 .. 255
  BY <1>1, ByteIs
<1> HIDE DEF e
<1> DEFINE k == (e - pos) * MAXBYTE
<1>3. k \in Nat
  BY <1>1, FormatNumbers
<1> HIDE DEF k
<1>4. PICK v \in 0 .. 255 : v = ByteAt(b, e)
  BY <1>2
<1>5. short + k + v \in Nat /\ short + k + v >= short
  BY <1>3
<1>6. LengthEnd(b, short, pos) = IF short # MASK THEN pos ELSE e + 1
  BY DEF LengthEnd, e
<1>7. LengthIs(b, short, pos) = IF short # MASK THEN short ELSE short + k + v
  BY <1>4 DEF LengthIs, e, k
<1> QED
  BY <1>1, <1>5, <1>6, <1>7

LEMMA CodeNumbers ==
  ASSUME NEW a \in 0 .. 255
  PROVE  a \div (MASK + 1) \in 0 .. 15 /\ a % (MASK + 1) \in 0 .. 15
<1>1. a \div 16 \in 0 .. 15 /\ a % 16 \in 0 .. 15
  OBVIOUS
<1> QED
  BY <1>1, FormatNumbers

(* The numbers of a sequence.                                              *)
LEMMA SequenceNumbers ==
  ASSUME NEW b \in Seq(U8), NEW i \in Nat
  PROVE  /\ LitCode(b, i) \in 0 .. 15 /\ MatchCode(b, i) \in 0 .. 15
         /\ LitFrom(b, i) \in Nat /\ LitLen(b, i) \in Nat /\ LitEnd(b, i) \in Nat
         /\ MatchLen(b, i) \in Nat /\ NextIp(b, i) \in Nat
         /\ LitFrom(b, i) >= i + 1 /\ LitEnd(b, i) = LitFrom(b, i) + LitLen(b, i)
         /\ NextIp(b, i) >= LitEnd(b, i) + 2 /\ MatchLen(b, i) >= 4
         /\ LitCode(b, i) # 15 => LitFrom(b, i) = i + 1 /\ LitLen(b, i) = LitCode(b, i)
         /\ LitCode(b, i) = 15 => LitLen(b, i) >= 15
         /\ MatchCode(b, i) # 15 => /\ NextIp(b, i) = LitEnd(b, i) + 2
                                    /\ MatchLen(b, i) = MatchCode(b, i) + 4
         /\ MatchCode(b, i) = 15 => MatchLen(b, i) >= 19
<1>1. ByteAt(b, i) \in 0 .. 255
  BY ByteIs
<1>2. LitCode(b, i) \in 0 .. 15 /\ MatchCode(b, i) \in 0 .. 15
  BY <1>1, CodeNumbers DEF LitCode, MatchCode
<1>3. PICK s : s = LitCode(b, i)
  OBVIOUS
<1>4. PICK u : u = MatchCode(b, i)
  OBVIOUS
<1>5. PICK from, n : from = LitFrom(b, i) /\ n = LitLen(b, i)
  OBVIOUS
<1>6. /\ from \in Nat /\ n \in Nat /\ from >= i + 1
      /\ s # 15 => from = i + 1 /\ n = s
      /\ s = 15 => n >= 15
  <2>1. PICK p : p = i + 1 /\ p \in Nat
    OBVIOUS
  <2>2. s \in Nat
    BY <1>2, <1>3
  <2>3. from = LengthEnd(b, s, p) /\ n = LengthIs(b, s, p)
    BY <1>3, <1>5, <2>1 DEF LitFrom, LitLen
  <2> QED
    BY <2>1, <2>2, <2>3, LengthNumbers, FormatNumbers
<1>7. PICK p : p = LitEnd(b, i) + 2
  OBVIOUS
<1>8. LitEnd(b, i) = from + n /\ p = from + n + 2 /\ p \in Nat
  BY <1>5, <1>6, <1>7 DEF LitEnd
<1>9. PICK m, next : m = MatchLen(b, i) /\ next = NextIp(b, i)
  OBVIOUS
<1>10. /\ m \in Nat /\ next \in Nat /\ next >= p /\ m >= 4
       /\ u # 15 => next = p /\ m = u + 4
       /\ u = 15 => m >= 19
  <2>1. u \in Nat
    BY <1>2, <1>4
  <2>2. next = LengthEnd(b, u, p) /\ m = LengthIs(b, u, p) + 4
    BY <1>4, <1>7, <1>9, FormatNumbers DEF NextIp, MatchLen
  <2>3. PICK l : l = LengthIs(b, u, p)
    OBVIOUS
  <2>4. /\ next \in Nat /\ l \in Nat /\ next >= p
        /\ u # 15 => next = p /\ l = u
        /\ u = 15 => l >= 15
    BY <1>8, <2>1, <2>2, <2>3, LengthNumbers, FormatNumbers
  <2> QED
    BY ONLY <2>1, <2>2, <2>3, <2>4
<1>11. PICK e : e = LitEnd(b, i)
  OBVIOUS
<1>12. /\ s \in 0 .. 15 /\ u \in 0 .. 15 /\ from \in Nat /\ n \in Nat /\ e \in Nat
       /\ m \in Nat /\ next \in Nat /\ from >= i + 1 /\ e = from + n
       /\ next >= e + 2 /\ m >= 4
       /\ s # 15 => from = i + 1 /\ n = s
       /\ s = 15 => n >= 15
       /\ u # 15 => next = e + 2 /\ m = u + 4
       /\ u = 15 => m >= 19
  BY <1>2, <1>3, <1>4, <1>6, <1>8, <1>10, <1>11
<1>13. /\ LitCode(b, i) = s /\ MatchCode(b, i) = u /\ LitFrom(b, i) = from
       /\ LitLen(b, i) = n /\ LitEnd(b, i) = e /\ MatchLen(b, i) = m /\ NextIp(b, i) = next
  BY <1>3, <1>4, <1>5, <1>9, <1>11
<1>14. /\ LitCode(b, i) \in 0 .. 15 /\ MatchCode(b, i) \in 0 .. 15
       /\ LitFrom(b, i) \in Nat /\ LitLen(b, i) \in Nat /\ LitEnd(b, i) \in Nat
       /\ MatchLen(b, i) \in Nat /\ NextIp(b, i) \in Nat
  BY ONLY <1>12, <1>13
<1>15. LitFrom(b, i) >= i + 1 /\ LitEnd(b, i) = LitFrom(b, i) + LitLen(b, i)
  BY <1>12, <1>13
<1>16. NextIp(b, i) >= LitEnd(b, i) + 2 /\ MatchLen(b, i) >= 4
  BY <1>12, <1>13
<1>17. /\ LitCode(b, i) # 15 => LitFrom(b, i) = i + 1 /\ LitLen(b, i) = LitCode(b, i)
       /\ LitCode(b, i) = 15 => LitLen(b, i) >= 15
  BY <1>12, <1>13
<1>18. /\ MatchCode(b, i) # 15 => /\ NextIp(b, i) = LitEnd(b, i) + 2
                                  /\ MatchLen(b, i) = MatchCode(b, i) + 4
       /\ MatchCode(b, i) = 15 => MatchLen(b, i) >= 19
  BY <1>12, <1>13
<1> QED
  BY ONLY <1>14, <1>15, <1>16, <1>17, <1>18
LEMMA DistanceNumbers ==
  ASSUME NEW b \in Seq(U8), NEW i \in Nat
  PROVE  DistAt(b, i) \in Nat /\ DistAt(b, i) < 256 * 256
<1>1. PICK q : q = LitEnd(b, i) /\ q \in Nat
  BY SequenceNumbers
<1>2. PICK x, y : x = ByteAt(b, q) /\ y = ByteAt(b, q + 1)
  OBVIOUS
<1>3. x \in 0 .. 255 /\ y \in 0 .. 255
  <2>1. q + 1 \in Nat
    BY <1>1
  <2> QED
    BY <1>1, <1>2, <2>1, ByteIs
<1>4. PICK v \in Nat : v = x + y * 256 /\ v < 256 * 256
  BY <1>3
<1>5. DistAt(b, i) = v
  <2>1. DistAt(b, i) = x + y * (MAXBYTE + 1)
    BY ONLY <1>1, <1>2 DEF DistAt
  <2>2. MAXBYTE + 1 = 256
    BY FormatNumbers
  <2> QED
    BY <1>4, <2>1, <2>2
<1> QED
  BY <1>4, <1>5

(* Both decoders read these numbers.                                       *)
LEMMA InIs ==
  ASSUME NEW i
  PROVE  In(i) = ByteAt(input, i)
BY DEF In, ByteAt

LEMMA ReadsLength ==
  ASSUME input \in Seq(U8), NEW short \in Nat, NEW pos \in Nat, NEW limit \in Int,
         NEW check \in BOOLEAN
  PROVE  LET r == ReadLength(short, pos, limit, check)
         IN  /\ r.ok <=> (short = MASK => LengthEnd(input, short, pos) <= limit)
             /\ r.ok => r.len = LengthIs(input, short, pos) /\ r.next = LengthEnd(input, short, pos)
<1> DEFINE last == IF limit > pos THEN limit ELSE pos
           ends == {i \in pos .. last : i + 1 > limit \/ In(i) # MAXBYTE}
           end == Min(ends)
           r == ReadLength(short, pos, limit, check)
<1>1. PICK e : e = EndOf(input, pos)
  OBVIOUS
<1>2. /\ e \in Nat /\ pos <= e /\ ByteAt(input, e) # MAXBYTE
      /\ \A j \in pos .. e - 1 : ByteAt(input, j) = MAXBYTE
  BY <1>1, EndExists
<1>3. CASE short # MASK
  <2>1. r = [ok |-> TRUE, len |-> short, next |-> pos]
    BY <1>3 DEF ReadLength
  <2>2. LengthEnd(input, short, pos) = pos /\ LengthIs(input, short, pos) = short
    BY <1>3 DEF LengthEnd, LengthIs
  <2> QED
    BY <1>3, <2>1, <2>2
<1>4. CASE short = MASK
  <2>1. LengthEnd(input, short, pos) = e + 1
    BY <1>1, <1>4 DEF LengthEnd
  <2>2. LengthIs(input, short, pos) = short + (e - pos) * MAXBYTE + ByteAt(input, e)
    BY <1>1, <1>4 DEF LengthIs
  <2>3. ends \subseteq Nat /\ last \in ends /\ last \in Nat
    <3>1. last \in Nat /\ last >= pos /\ last + 1 > limit
      OBVIOUS
    <3> HIDE DEF last
    <3> QED
      BY <3>1
  <2>4. end \in ends /\ \A y \in ends : end <= y
    <3> HIDE DEF ends, last
    <3> QED
      BY <2>3, MinOfNaturals
  <2>5. CASE e + 1 <= limit
    <3>1. e \in ends
      <4>1. e \in pos .. last
        BY <1>2, <2>5
      <4>2. In(e) # MAXBYTE
        BY <1>2, InIs
      <4> QED
        BY <4>1, <4>2
    <3>2. \A y \in ends : ~(y < e)
      <4> SUFFICES ASSUME NEW y \in ends, y < e PROVE FALSE
        OBVIOUS
      <4>1. y \in pos .. e - 1 /\ ~(y + 1 > limit)
        BY <1>2, <2>5
      <4>2. In(y) = MAXBYTE
        BY <1>2, <4>1, InIs
      <4> QED
        BY <4>1, <4>2
    <3>3. end = e
      <4>1. end <= e /\ ~(end < e) /\ end \in Nat
        BY <2>3, <2>4, <3>1, <3>2
      <4> HIDE DEF end
      <4> QED
        BY <1>2, <4>1
    <3>4. ~(check /\ pos >= limit)
      BY <1>2, <2>5
    <3>5. r = [ok |-> end + 1 <= limit, next |-> end + 1,
               len |-> short + (end - pos) * MAXBYTE + In(end)]
      BY <1>4, <3>4 DEF ReadLength
    <3> HIDE DEF end, r
    <3>6. r = [ok |-> e + 1 <= limit, next |-> e + 1,
               len |-> short + (e - pos) * MAXBYTE + ByteAt(input, e)]
      BY <3>3, <3>5, InIs
    <3>7. r.ok = (e + 1 <= limit) /\ r.next = e + 1
          /\ r.len = short + (e - pos) * MAXBYTE + ByteAt(input, e)
      BY <3>6
    <3>8. r.ok /\ r.next = LengthEnd(input, short, pos) /\ r.len = LengthIs(input, short, pos)
          /\ LengthEnd(input, short, pos) <= limit
      BY <2>1, <2>2, <2>5, <3>7
    <3> QED
      BY <3>8 DEF r
  <2>6. CASE ~(e + 1 <= limit)
    <3>1. CASE check /\ pos >= limit
      <4>1. r = [ok |-> FALSE, len |-> 0, next |-> pos]
        BY <1>4, <3>1 DEF ReadLength
      <4> QED
        BY <1>4, <2>1, <2>6, <4>1
    <3>2. CASE ~(check /\ pos >= limit)
      <4>1. r = [ok |-> end + 1 <= limit, next |-> end + 1,
                 len |-> short + (end - pos) * MAXBYTE + In(end)]
        BY <1>4, <3>2 DEF ReadLength
      <4>2. ~(end + 1 <= limit)
        <5> SUFFICES ASSUME end + 1 <= limit PROVE FALSE
          OBVIOUS
        <5>1. end \in pos .. last /\ In(end) # MAXBYTE
          BY <2>4
        <5> HIDE DEF end
        <5>2. end \in pos .. e - 1
          BY <1>2, <2>3, <2>6, <5>1
        <5> QED
          BY <1>2, <5>1, <5>2, InIs
      <4> HIDE DEF end, r
      <4>3. r.ok <=> FALSE
        <5>1. r.ok = (end + 1 <= limit)
          BY <4>1
        <5> QED
          BY <4>2, <5>1, Zenon
      <4> QED
        BY <1>4, <2>1, <2>6, <4>3 DEF r
    <3> QED
      BY <3>1, <3>2
  <2> QED
    BY <2>5, <2>6
<1> QED
  BY <1>3, <1>4

LEMMA FastReads ==
  ASSUME Given, NEW short \in 0 .. 15, NEW pos \in 0 .. srcSize
  PROVE  Fast!LengthAt(short, pos) =
           IF short = MASK /\ LengthEnd(input, short, pos) > srcSize THEN {}
           ELSE {[len |-> LengthIs(input, short, pos), next |-> LengthEnd(input, short, pos)]}
<1> DEFINE inp == SubSeq(input, 1, srcSize)
           ends == {i \in pos + 1 .. Len(inp) : inp[i] # MAXBYTE}
           end == CHOOSE i \in ends : \A j \in ends : i <= j
<1>1. PICK e : e = EndOf(input, pos)
  OBVIOUS
<1>2. input \in Seq(U8) /\ srcSize \in Nat /\ pos \in Nat /\ srcSize <= Len(input)
  BY DEF Given
<1>3. /\ e \in Nat /\ pos <= e /\ ByteAt(input, e) # MAXBYTE
      /\ \A j \in pos .. e - 1 : ByteAt(input, j) = MAXBYTE
  BY <1>1, <1>2, EndExists
<1>4. Len(inp) = srcSize /\ \A i \in 1 .. srcSize : inp[i] = ByteAt(input, i - 1)
  <2>1. Len(inp) = srcSize
    BY FastInput
  <2>2. ASSUME NEW i \in 1 .. srcSize PROVE inp[i] = ByteAt(input, i - 1)
    <3>1. inp[i] = input[i]
      BY <1>2
    <3>2. i - 1 < Len(input) /\ (i - 1) + 1 = i
      BY <1>2
    <3> QED
      BY <3>1, <3>2 DEF ByteAt
  <2> QED
    BY <2>1, <2>2
<1>5. short < MASK <=> short # MASK
  BY FormatNumbers
<1>6. CASE short # MASK
  BY <1>5, <1>6 DEF Fast!LengthAt, LengthEnd, LengthIs
<1>7. CASE short = MASK
  <2>1. LengthEnd(input, short, pos) = e + 1
    BY <1>1, <1>7 DEF LengthEnd
  <2>2. LengthIs(input, short, pos) = short + (e - pos) * MAXBYTE + ByteAt(input, e)
    BY <1>1, <1>7 DEF LengthIs
  <2>3. Fast!LengthAt(short, pos) = {[l EXCEPT !.len = @ + short] : l \in Fast!LongAt(pos)}
    BY <1>5, <1>7 DEF Fast!LengthAt
  <2>4. Fast!LongAt(pos) = IF ends = {} THEN {}
                           ELSE {[len |-> (end - pos - 1) * MAXBYTE + inp[end], next |-> end]}
    BY DEF Fast!LongAt
  <2> HIDE DEF inp
  <2>5. CASE e + 1 > srcSize
    <3>1. ends = {}
      <4> SUFFICES ASSUME NEW i \in ends PROVE FALSE
        OBVIOUS
      <4>1. i \in pos + 1 .. srcSize /\ inp[i] # MAXBYTE
        BY <1>4
      <4>2. i \in 1 .. srcSize /\ i - 1 \in pos .. e - 1
        BY <1>2, <1>3, <2>5, <4>1
      <4> QED
        BY <1>3, <1>4, <4>1, <4>2
    <3> HIDE DEF ends
    <3>2. Fast!LengthAt(short, pos) = {}
      BY <2>3, <2>4, <3>1
    <3> QED
      BY <1>7, <2>1, <2>5, <3>2
  <2>6. CASE ~(e + 1 > srcSize)
    <3>1. e + 1 \in 1 .. srcSize /\ (e + 1) - 1 = e
      BY <1>2, <1>3, <2>6
    <3>2. inp[e + 1] = ByteAt(input, e)
      BY <1>4, <3>1
    <3>3. e + 1 \in ends
      BY <1>3, <1>4, <3>1, <3>2
    <3>4. \A i \in ends : e + 1 <= i
      <4> SUFFICES ASSUME NEW i \in ends, ~(e + 1 <= i) PROVE FALSE
        OBVIOUS
      <4>1. i \in pos + 1 .. srcSize /\ inp[i] # MAXBYTE
        BY <1>4
      <4>2. i \in 1 .. srcSize /\ i - 1 \in pos .. e - 1
        BY <1>2, <1>3, <4>1
      <4> QED
        BY <1>3, <1>4, <4>1, <4>2
    <3>5. end = e + 1
      <4>1. end \in ends /\ \A j \in ends : end <= j
        <5>1. \E i \in ends : \A j \in ends : i <= j
          BY <3>3, <3>4
        <5> HIDE DEF ends
        <5> QED
          BY <5>1
      <4>2. ends \subseteq Int
        BY <1>2, <1>4
      <4> HIDE DEF end, ends
      <4>3. end \in Int /\ end <= e + 1 /\ e + 1 <= end
        BY <3>3, <3>4, <4>1, <4>2
      <4> QED
        BY <1>3, <4>3
    <3> HIDE DEF ends, end
    <3>6. Fast!LongAt(pos) = {[len |-> (e - pos) * MAXBYTE + ByteAt(input, e), next |-> e + 1]}
      <4>1. (end - pos - 1) = e - pos
        BY <1>2, <1>3, <3>5
      <4> QED
        BY <2>4, <3>2, <3>3, <3>5, <4>1
    <3> DEFINE k == (e - pos) * MAXBYTE
               v == ByteAt(input, e)
    <3>7. k \in Nat /\ v \in 0 .. 255
      <4>1. v \in 0 .. 255
        BY <1>2, <1>3, ByteIs
      <4> QED
        BY <1>2, <1>3, <4>1, FormatNumbers
    <3>8. Fast!LongAt(pos) = {[len |-> k + v, next |-> e + 1]}
      BY <3>6
    <3>9. LengthIs(input, short, pos) = short + k + v
      BY <2>2
    <3> HIDE DEF k, v
    <3>10. k + v + short = short + k + v
      BY <3>7
    <3>11. [[len |-> k + v, next |-> e + 1] EXCEPT !.len = @ + short]
             = [len |-> short + k + v, next |-> e + 1]
      BY <3>10
    <3>12. Fast!LengthAt(short, pos) = {[len |-> short + k + v, next |-> e + 1]}
      BY <2>3, <3>8, <3>11
    <3>13. ~(LengthEnd(input, short, pos) > srcSize)
      BY <2>1, <2>6
    <3> QED
      BY <2>1, <3>9, <3>12, <3>13
  <2> QED
    BY <2>5, <2>6
<1> QED
  BY <1>6, <1>7

-----------------------------------------------------------------------------
(* What LZ4_decompress_fast has done.  A head is where a sequence begins,  *)
(* in the input and in the output.  From one head it goes on to the next   *)
(* if the match is read, not too far away, and not too long.               *)
LitOp(b, h) == h[2] + LitLen(b, h[1])
NextOp(b, h) == LitOp(b, h) + MatchLen(b, h[1])
After(b, h) == <<NextIp(b, h[1]), NextOp(b, h)>>

Goes(b, z, c, n, h) ==
  /\ NextIp(b, h[1]) <= z
  /\ LitOp(b, h) + MFLIMIT <= c /\ NextOp(b, h) <= c
  /\ DistAt(b, h[1]) <= LitOp(b, h) + n

(* The byte at p of the output, or in front of it.                         *)
SourceAt(w, d, p) == IF p >= 0 THEN d[p + 1] ELSE w[Len(w) + p + 1]

LitsShown(b, d, h) ==
  \A i \in 1 .. LitLen(b, h[1]) : d[h[2] + i] = ByteAt(b, (LitFrom(b, h[1]) + i) - 1)

MatchShown(b, d, w, h) ==
  \A i \in 0 .. MatchLen(b, h[1]) - 1 :
    d[LitOp(b, h) + i + 1] =
      IF DistAt(b, h[1]) = 0 THEN Unset
      ELSE SourceAt(w, d, (LitOp(b, h) - DistAt(b, h[1])) + (i % DistAt(b, h[1])))

(* The heads it has come to, and what of the output they account for.      *)
Heads(H, last, b, z, c, n) ==
  /\ H \subseteq Nat \X Nat /\ <<0, 0>> \in H /\ last \in H
  /\ \A h \in H : h[2] <= last[2]
  /\ \A h \in H : h # last =>
       /\ h[1] < last[1] /\ Goes(b, z, c, n, h) /\ After(b, h) \in H
       /\ \A g \in H : g[1] <= h[1] \/ After(b, h)[1] <= g[1]

AllShown(H, last, b, d, w, n) ==
  \A h \in H : h # last =>
    NextOp(b, h) <= n /\ LitsShown(b, d, h) /\ MatchShown(b, d, w, h)

Dict == ext \o prefix

Complete(h) == LitEnd(input, h[1]) <= srcSize /\ LitOp(input, h) <= capacity

AtEnd(h) == h[1] # 0 /\ h[2] + LASTLITERALS > capacity

FastAt(h) ==
  /\ step # "idle" /\ size = capacity
  /\ step = "literals" => fastIp = h[1] /\ Len(dst) = h[2] /\ ~AtEnd(h)
  /\ step \in {"match", "done"} =>
       /\ ~AtEnd(h) /\ Complete(h) /\ LitsShown(input, dst, h)
       /\ fastIp = LitEnd(input, h[1]) /\ Len(dst) = LitOp(input, h)
  /\ step = "match" => /\ fastToken = ByteAt(input, h[1])
                       /\ LitOp(input, h) + MFLIMIT <= capacity
  /\ step = "done" => LitOp(input, h) = capacity
  /\ step \in {"failed", "outside"} =>
       /\ ~Goes(input, srcSize, capacity, Len(Dict), h)
       /\ AtEnd(h) => step = "failed" /\ Len(dst) = h[2]
       /\ ~AtEnd(h) /\ Complete(h) => /\ LitOp(input, h) # capacity
                                      /\ Len(dst) = LitOp(input, h)
                                      /\ LitsShown(input, dst, h)

FastKnows ==
  \E H \in SUBSET (Nat \X Nat) : \E last \in H :
    /\ Heads(H, last, input, srcSize, capacity, Len(Dict))
    /\ AllShown(H, last, input, dst, Dict, Len(dst))
    /\ FastAt(last)

(* The numbers of a head.                                                  *)
LEMMA HeadNumbers ==
  ASSUME NEW b \in Seq(U8), NEW h \in Nat \X Nat
  PROVE  /\ h[1] \in Nat /\ h[2] \in Nat
         /\ LitOp(b, h) \in Nat /\ LitOp(b, h) = h[2] + LitLen(b, h[1])
         /\ NextOp(b, h) \in Nat /\ NextOp(b, h) = LitOp(b, h) + MatchLen(b, h[1])
         /\ NextOp(b, h) >= LitOp(b, h) + 4 /\ LitOp(b, h) >= h[2]
         /\ After(b, h) \in Nat \X Nat
         /\ After(b, h)[1] = NextIp(b, h[1]) /\ After(b, h)[2] = NextOp(b, h)
         /\ After(b, h)[1] > h[1] + 2
<1>1. PICK i \in Nat, o \in Nat : i = h[1] /\ o = h[2]
  OBVIOUS
<1>2. PICK n, m, f, e, x : /\ n = LitLen(b, i) /\ m = MatchLen(b, i) /\ f = LitFrom(b, i)
                           /\ e = LitEnd(b, i) /\ x = NextIp(b, i)
  OBVIOUS
<1>3. /\ n \in Nat /\ m \in Nat /\ m >= 4 /\ x \in Nat /\ f \in Nat /\ e \in Nat
      /\ f >= i + 1 /\ e = f + n /\ x >= e + 2
  BY <1>1, <1>2, SequenceNumbers
<1>4. LitOp(b, h) = o + n /\ NextOp(b, h) = o + n + m
  BY <1>1, <1>2 DEF LitOp, NextOp
<1>5. After(b, h) = <<x, NextOp(b, h)>>
  BY <1>1, <1>2 DEF After
<1>6. x > i + 2 /\ o + n \in Nat /\ o + n + m \in Nat /\ o + n + m >= o + n + 4 /\ o + n >= o
  BY ONLY <1>3, i \in Nat, o \in Nat
<1>7. PICK p, q : p = o + n /\ q = o + n + m
  OBVIOUS
<1>8. p \in Nat /\ q \in Nat /\ q = p + m /\ q >= p + 4 /\ p >= o /\ x \in Nat
  BY ONLY <1>3, <1>6, <1>7, o \in Nat
<1>9. After(b, h)[1] = x /\ After(b, h)[2] = q /\ After(b, h) \in Nat \X Nat
  <2>1. NextOp(b, h) = q
    BY <1>4, <1>7
  <2>2. After(b, h) = <<x, q>>
    BY <1>5, <2>1
  <2> QED
    BY <1>8, <2>2
<1> QED
  BY <1>1, <1>2, <1>4, <1>6, <1>7, <1>8, <1>9

(* What is shown by the first bytes is still shown when more are added.    *)
LEMMA ShownSame ==
  ASSUME NEW b \in Seq(U8), NEW h \in Nat \X Nat, NEW d, NEW e, NEW w, NEW n \in Nat,
         \A i \in 1 .. n : e[i] = d[i]
  PROVE  /\ LitOp(b, h) <= n /\ LitsShown(b, d, h) => LitsShown(b, e, h)
         /\ NextOp(b, h) <= n /\ MatchShown(b, d, w, h) => MatchShown(b, e, w, h)
<1>1. PICK o \in Nat : o = h[2]
  OBVIOUS
<1>2. PICK l, p, m, k : /\ l = LitLen(b, h[1]) /\ p = LitOp(b, h) /\ m = MatchLen(b, h[1])
                        /\ k = DistAt(b, h[1])
  OBVIOUS
<1>3. /\ l \in Nat /\ p \in Nat /\ m \in Nat /\ k \in Nat /\ p = o + l
      /\ NextOp(b, h) = p + m
  <2>1. h[1] \in Nat
    OBVIOUS
  <2>2. l \in Nat /\ m \in Nat
    BY <1>2, <2>1, SequenceNumbers
  <2>3. k \in Nat
    BY <1>2, <2>1, DistanceNumbers
  <2>4. p \in Nat /\ p = o + l /\ NextOp(b, h) = p + m
    BY <1>1, <1>2, HeadNumbers
  <2> QED
    BY <2>2, <2>3, <2>4
<1>4. ASSUME p <= n, LitsShown(b, d, h) PROVE LitsShown(b, e, h)
  <2> SUFFICES ASSUME NEW i \in 1 .. l
               PROVE  e[o + i] = ByteAt(b, (LitFrom(b, h[1]) + i) - 1)
    BY <1>1, <1>2 DEF LitsShown
  <2>1. d[o + i] = ByteAt(b, (LitFrom(b, h[1]) + i) - 1)
    BY <1>1, <1>2, <1>4 DEF LitsShown
  <2>2. o + i \in 1 .. n
    <3>1. p = o + l /\ l \in Nat /\ p <= n
      BY <1>3, <1>4
    <3> QED
      BY ONLY <3>1, i \in 1 .. l, o \in Nat, n \in Nat
  <2> QED
    BY <2>1, <2>2
<1>5. ASSUME p + m <= n, MatchShown(b, d, w, h) PROVE MatchShown(b, e, w, h)
  <2> SUFFICES ASSUME NEW i \in 0 .. m - 1
               PROVE  e[p + i + 1] = IF k = 0 THEN Unset
                                     ELSE SourceAt(w, e, (p - k) + (i % k))
    BY <1>2 DEF MatchShown
  <2>1. d[p + i + 1] = IF k = 0 THEN Unset ELSE SourceAt(w, d, (p - k) + (i % k))
    BY <1>2, <1>5 DEF MatchShown
  <2>2. p + i + 1 \in 1 .. n
    <3>1. p \in Nat /\ m \in Nat /\ p + m <= n
      BY <1>3, <1>5
    <3> QED
      BY ONLY <3>1, i \in 0 .. m - 1, n \in Nat
  <2>3. e[p + i + 1] = d[p + i + 1]
    BY <2>2
  <2>4. CASE k # 0
    <3>1. PICK r : r = i % k
      OBVIOUS
    <3>2. r \in 0 .. k - 1
      BY <1>3, <2>4, <3>1, QuotientRemainder
    <3>3. PICK s : s = (p - k) + r
      OBVIOUS
    <3>4. s \in Int /\ s + 1 <= n
      BY <1>3, <1>5, <3>2, <3>3
    <3>5. s >= 0 => e[s + 1] = d[s + 1]
      BY <3>4
    <3>6. SourceAt(w, e, s) = SourceAt(w, d, s)
      BY <3>5 DEF SourceAt
    <3> QED
      BY <2>1, <2>3, <2>4, <3>1, <3>3, <3>6
  <2> QED
    BY <2>1, <2>3, <2>4
<1> QED
  BY <1>2, <1>3, <1>4, <1>5

-----------------------------------------------------------------------------
(* The steps of LZ4_decompress_fast: what it reads are these numbers.      *)
LEMMA FastByte ==
  ASSUME Given, NEW i \in 1 .. srcSize
  PROVE  SubSeq(input, 1, srcSize)[i] = ByteAt(input, i - 1)
<1>1. input \in Seq(U8) /\ srcSize \in Nat /\ srcSize <= Len(input) /\ Len(input) \in Nat
  BY DEF Given
<1>2. SubSeq(input, 1, srcSize)[i] = input[i]
  BY <1>1
<1>3. i - 1 < Len(input) /\ (i - 1) + 1 = i
  BY <1>1
<1> QED
  BY <1>2, <1>3 DEF ByteAt

LEMMA FastLiteralsRead ==
  ASSUME Given, fastIp \in 0 .. srcSize
  PROVE  LET l == [len |-> LitLen(input, fastIp), next |-> LitFrom(input, fastIp)]
         IN  Fast!LiteralsAhead =
               IF LitFrom(input, fastIp) > srcSize THEN {}
               ELSE {k \in {l} : k.len > Fast!left \/ k.next + k.len <= srcSize}
<1> DEFINE inp == SubSeq(input, 1, srcSize)
<1>1. PICK i : i = fastIp /\ i \in 0 .. srcSize
  OBVIOUS
<1>2. input \in Seq(U8) /\ srcSize \in Nat /\ i \in Nat /\ Len(inp) = srcSize
  BY <1>1, FastInput DEF Given
<1>3. PICK from : from = LitFrom(input, i) /\ from \in Nat /\ from >= i + 1
  BY <1>2, SequenceNumbers
<1>4. Fast!LiteralsAhead =
        IF i = srcSize THEN {}
        ELSE {k \in Fast!LengthAt(inp[i + 1] \div (MASK + 1), i + 1) :
                k.len > Fast!left \/ k.next + k.len <= srcSize}
  BY <1>1, <1>2 DEF Fast!LiteralsAhead
<1>5. CASE i = srcSize
  BY <1>1, <1>2, <1>3, <1>4, <1>5
<1>6. CASE i # srcSize
  <2>1. i + 1 \in 1 .. srcSize /\ i + 1 \in 0 .. srcSize /\ (i + 1) - 1 = i
    BY <1>1, <1>2, <1>6
  <2>2. inp[i + 1] = ByteAt(input, i)
    BY <2>1, FastByte
  <2>3. PICK s \in 0 .. 15 : s = LitCode(input, i)
    BY <1>2, SequenceNumbers
  <2>4. inp[i + 1] \div (MASK + 1) = s
    BY <2>2, <2>3 DEF LitCode
  <2>5. Fast!LengthAt(s, i + 1) =
          IF s = MASK /\ LengthEnd(input, s, i + 1) > srcSize THEN {}
          ELSE {[len |-> LengthIs(input, s, i + 1), next |-> LengthEnd(input, s, i + 1)]}
    BY <2>1, FastReads
  <2>6. LengthEnd(input, s, i + 1) = from /\ LengthIs(input, s, i + 1) = LitLen(input, i)
    BY <1>3, <2>3 DEF LitFrom, LitLen
  <2>7. s # MASK => from <= srcSize
    <3>1. s # MASK => from = i + 1
      BY <2>6 DEF LengthEnd
    <3> QED
      BY <2>1, <3>1
  <2>8. Fast!LengthAt(s, i + 1) =
          IF from > srcSize THEN {} ELSE {[len |-> LitLen(input, i), next |-> from]}
    <3>1. (s = MASK /\ from > srcSize) <=> from > srcSize
      BY <1>2, <1>3, <2>7
    <3> QED
      BY ONLY <2>5, <2>6, <3>1, Zenon
  <2>9. Fast!LiteralsAhead =
          {k \in Fast!LengthAt(s, i + 1) : k.len > Fast!left \/ k.next + k.len <= srcSize}
    BY <1>4, <1>6, <2>4
  <2> QED
    BY <1>1, <1>3, <2>8, <2>9
<1> QED
  BY <1>5, <1>6

LEMMA FastMatchRead ==
  ASSUME Given, fastIp \in 0 .. srcSize, NEW i \in Nat, fastToken = ByteAt(input, i),
         fastIp = LitEnd(input, i)
  PROVE  /\ Fast!MatchAhead =
              IF NextIp(input, i) > srcSize THEN {}
              ELSE {[len |-> LengthIs(input, MatchCode(input, i), LitEnd(input, i) + 2),
                     next |-> NextIp(input, i)]}
         /\ NextIp(input, i) <= srcSize =>
              Fast!ReadLE16(SubSeq(input, 1, srcSize), fastIp) = DistAt(input, i)
<1> DEFINE inp == SubSeq(input, 1, srcSize)
<1>1. PICK e : e = fastIp /\ e \in 0 .. srcSize
  OBVIOUS
<1>2. input \in Seq(U8) /\ srcSize \in Nat /\ e \in Nat /\ Len(inp) = srcSize
  BY <1>1, FastInput DEF Given
<1>3. PICK next : next = NextIp(input, i) /\ next \in Nat /\ next >= e + 2
  BY <1>1, <1>2, SequenceNumbers
<1>4. Fast!MatchAhead =
        IF e + 2 > srcSize THEN {} ELSE Fast!LengthAt(fastToken % (MASK + 1), e + 2)
  BY <1>1, <1>2 DEF Fast!MatchAhead
<1>5. CASE e + 2 > srcSize
  <2>1. next > srcSize
    BY <1>2, <1>3, <1>5
  <2> QED
    BY <1>2, <1>3, <1>4, <1>5, <2>1
<1>6. CASE ~(e + 2 > srcSize)
  <2>1. e + 2 \in 0 .. srcSize /\ e + 1 \in 1 .. srcSize /\ e + 2 \in 1 .. srcSize
        /\ (e + 1) - 1 = e /\ (e + 2) - 1 = e + 1
    BY <1>1, <1>2, <1>6
  <2>2. PICK u \in 0 .. 15 : u = MatchCode(input, i)
    BY <1>2, SequenceNumbers
  <2>3. fastToken % (MASK + 1) = u
    BY <2>2 DEF MatchCode
  <2>4. Fast!LengthAt(u, e + 2) =
          IF u = MASK /\ LengthEnd(input, u, e + 2) > srcSize THEN {}
          ELSE {[len |-> LengthIs(input, u, e + 2), next |-> LengthEnd(input, u, e + 2)]}
    BY <2>1, FastReads
  <2>5. LengthEnd(input, u, e + 2) = next
    BY <1>1, <1>3, <2>2 DEF NextIp
  <2>6. u # MASK => next <= srcSize
    <3>1. u # MASK => next = e + 2
      BY <2>5 DEF LengthEnd
    <3> QED
      BY <2>1, <3>1
  <2>7. Fast!LengthAt(u, e + 2) =
          IF next > srcSize THEN {} ELSE {[len |-> LengthIs(input, u, e + 2), next |-> next]}
    <3>1. (u = MASK /\ next > srcSize) <=> next > srcSize
      BY <1>2, <1>3, <2>6
    <3> QED
      BY ONLY <2>4, <2>5, <3>1, Zenon
  <2>8. inp[e + 1] = ByteAt(input, e) /\ inp[e + 2] = ByteAt(input, e + 1)
    BY <2>1, FastByte
  <2>9. Fast!ReadLE16(inp, fastIp) = DistAt(input, i)
    BY <1>1, <2>8 DEF Fast!ReadLE16, DistAt
  <2> QED
    BY <1>1, <1>3, <1>4, <1>6, <2>2, <2>3, <2>7, <2>9
<1> QED
  BY <1>5, <1>6

(* The numbers of the head that it is at.                                  *)
LEMMA GoesOnlyInside ==
  ASSUME Given, NEW h \in Nat \X Nat, NEW n \in Nat,
         \/ ~Complete(h) \/ LitOp(input, h) + MFLIMIT > capacity
         \/ NextIp(input, h[1]) > srcSize \/ NextOp(input, h) > capacity
         \/ DistAt(input, h[1]) > LitOp(input, h) + n
  PROVE  ~Goes(input, srcSize, capacity, n, h)
<1> SUFFICES ASSUME Goes(input, srcSize, capacity, n, h) PROVE FALSE
  OBVIOUS
<1>1. PICK p, q, x, e : /\ p = LitOp(input, h) /\ q = NextOp(input, h)
                        /\ x = NextIp(input, h[1]) /\ e = LitEnd(input, h[1])
  OBVIOUS
<1>2. /\ p \in Nat /\ q \in Nat /\ x \in Nat /\ e \in Nat /\ x >= e + 2
  <2>1. input \in Seq(U8) /\ h[1] \in Nat
    BY DEF Given
  <2> QED
    BY <1>1, <2>1, HeadNumbers, SequenceNumbers
<1>3. srcSize \in Nat /\ capacity \in Nat /\ MFLIMIT \in 9 .. 14
  BY FormatNumbers DEF Given
<1>4. x <= srcSize /\ p + MFLIMIT <= capacity /\ q <= capacity /\ DistAt(input, h[1]) <= p + n
  BY <1>1 DEF Goes
<1>5. e <= srcSize /\ p <= capacity
  BY ONLY <1>2, <1>3, <1>4
<1>6. Complete(h)
  BY <1>1, <1>5 DEF Complete
<1>7. DistAt(input, h[1]) \in Nat
  BY DistanceNumbers DEF Given
<1> QED
  BY <1>1, <1>2, <1>3, <1>4, <1>6, <1>7

LEMMA DictLength ==
  ASSUME Given
  PROVE  /\ Dict \in Seq(U8) /\ Len(Dict) \in Nat /\ Len(Dict) = Len(ext) + Len(prefix)
         /\ Len(ext) \in Nat /\ Len(prefix) \in Nat
<1>1. ext \in Seq(U8) /\ prefix \in Seq(U8)
  BY DEF Given
<1>2. ext \o prefix \in Seq(U8) /\ Len(ext \o prefix) = Len(ext) + Len(prefix)
      /\ Len(ext) \in Nat /\ Len(prefix) \in Nat
  BY <1>1, ConcatProperties
<1> QED
  BY <1>2 DEF Dict

LEMMA AllShownSame ==
  ASSUME NEW b \in Seq(U8), NEW H \in SUBSET (Nat \X Nat), NEW last, NEW d, NEW e, NEW w,
         NEW n \in Nat, NEW m \in Nat, n <= m, \A i \in 1 .. n : e[i] = d[i],
         AllShown(H, last, b, d, w, n)
  PROVE  AllShown(H, last, b, e, w, m)
<1> SUFFICES ASSUME NEW h \in H, h # last
             PROVE  NextOp(b, h) <= m /\ LitsShown(b, e, h) /\ MatchShown(b, e, w, h)
  BY DEF AllShown
<1>1. NextOp(b, h) <= n /\ LitsShown(b, d, h) /\ MatchShown(b, d, w, h)
  BY DEF AllShown
<1>2. PICK p, q : p = LitOp(b, h) /\ q = NextOp(b, h)
  OBVIOUS
<1>3. h \in Nat \X Nat /\ p \in Nat /\ q \in Nat /\ q >= p + 4
  BY <1>2, HeadNumbers
<1>4. q <= n /\ p <= n /\ q <= m
  BY <1>1, <1>2, <1>3
<1>5. LitOp(b, h) <= n /\ NextOp(b, h) <= n
  BY <1>2, <1>4
<1>6. LitsShown(b, e, h) /\ MatchShown(b, e, w, h)
  BY <1>1, <1>3, <1>5, ShownSame
<1> QED
  BY <1>2, <1>4, <1>6

(* A part of a sequence, and one sequence behind another.                  *)
LEMMA PartIs ==
  ASSUME NEW S, NEW s \in Seq(S), NEW a \in Nat, NEW n \in Nat, a + n <= Len(s)
  PROVE  /\ SubSeq(s, a + 1, a + n) \in Seq(S) /\ Len(SubSeq(s, a + 1, a + n)) = n
         /\ \A k \in 1 .. n : SubSeq(s, a + 1, a + n)[k] = s[a + k]
<1> DEFINE f == a + 1
           t == a + n
<1>1. /\ f \in Int /\ t \in Int /\ IF f <= t THEN (t - f) + 1 = n ELSE n = 0
  OBVIOUS
<1>2. \A i \in f .. t : s[i] \in S
  BY Len(s) \in Nat
<1>3. \A k \in 1 .. n : k \in 1 .. (t - f) + 1 /\ (f + k) - 1 = a + k
  OBVIOUS
<1> HIDE DEF f, t
<1>4. /\ SubSeq(s, f, t) \in Seq(S)
      /\ Len(SubSeq(s, f, t)) = IF f <= t THEN t - f + 1 ELSE 0
      /\ \A i \in 1 .. t - f + 1 : SubSeq(s, f, t)[i] = s[f + i - 1]
  BY <1>1, <1>2, SubSeqProperties
<1>5. Len(SubSeq(s, f, t)) = n
  BY <1>1, <1>4
<1>6. \A k \in 1 .. n : SubSeq(s, f, t)[k] = s[a + k]
  BY <1>1, <1>3, <1>4
<1> QED
  BY <1>4, <1>5, <1>6 DEF f, t

LEMMA JoinIs ==
  ASSUME NEW S, NEW s \in Seq(S), NEW t \in Seq(S)
  PROVE  /\ s \o t \in Seq(S) /\ Len(s \o t) = Len(s) + Len(t)
         /\ \A k \in 1 .. Len(s) : (s \o t)[k] = s[k]
         /\ \A k \in 1 .. Len(t) : (s \o t)[Len(s) + k] = t[k]
<1>1. Len(s) \in Nat /\ Len(t) \in Nat
  OBVIOUS
<1>2. /\ s \o t \in Seq(S) /\ Len(s \o t) = Len(s) + Len(t)
      /\ \A i \in 1 .. Len(s) + Len(t) :
           (s \o t)[i] = IF i <= Len(s) THEN s[i] ELSE t[i - Len(s)]
  BY ConcatProperties
<1>3. ASSUME NEW k \in 1 .. Len(s) PROVE (s \o t)[k] = s[k]
  <2>1. k \in 1 .. Len(s) + Len(t) /\ k <= Len(s)
    BY <1>1
  <2> QED
    BY <1>2, <2>1
<1>4. ASSUME NEW k \in 1 .. Len(t) PROVE (s \o t)[Len(s) + k] = t[k]
  <2>1. /\ Len(s) + k \in 1 .. Len(s) + Len(t) /\ ~(Len(s) + k <= Len(s))
        /\ (Len(s) + k) - Len(s) = k
    BY <1>1
  <2> QED
    BY <1>2, <2>1
<1> QED
  BY <1>2, <1>3, <1>4

LEMMA PlainLiteralsKnow ==
  ASSUME Given, FastInv, FastKnows, Fast!Literals,
         UNCHANGED <<input, prefix, ext, srcSize, capacity>>
  PROVE  FastKnows'
<1>0. PICK H \in SUBSET (Nat \X Nat) : \E last \in H :
        /\ Heads(H, last, input, srcSize, capacity, Len(Dict))
        /\ AllShown(H, last, input, dst, Dict, Len(dst))
        /\ FastAt(last)
  BY DEF FastKnows
<1>1. PICK last \in H :
        /\ Heads(H, last, input, srcSize, capacity, Len(Dict))
        /\ AllShown(H, last, input, dst, Dict, Len(dst))
        /\ FastAt(last)
  BY <1>0
<1> DEFINE inp == SubSeq(input, 1, srcSize)
<1>2. PICK i \in Nat, o \in Nat : i = last[1] /\ o = last[2]
  OBVIOUS
<1>3. PICK from, n, e, p : /\ from = LitFrom(input, i) /\ n = LitLen(input, i)
                           /\ e = LitEnd(input, i) /\ p = LitOp(input, last)
  OBVIOUS
<1>4. /\ input \in Seq(U8) /\ srcSize \in Nat /\ capacity \in Nat /\ last \in Nat \X Nat
      /\ fastIp \in 0 .. srcSize /\ dst \in Seq(Slots) /\ Len(dst) \in Nat
  BY <1>1, FastFacts DEF Given
<1>5. from \in Nat /\ n \in Nat /\ e \in Nat /\ e = from + n /\ from >= i + 1 /\ p = o + n
  BY <1>2, <1>3, <1>4, SequenceNumbers, HeadNumbers
<1>6. /\ step = "literals" /\ fastIp = i /\ Len(dst) = o /\ ~AtEnd(last)
      /\ size = capacity /\ Fast!left = capacity - o
  BY <1>1, <1>2 DEF Fast!Literals, FastAt, Fast!left
<1>7. PICK l \in Fast!LiteralsAhead :
        /\ fastToken' = inp[fastIp + 1]
        /\ IF l.len > Fast!left
             THEN step' = "failed" /\ UNCHANGED <<fastIp, dst>>
             ELSE /\ dst' = dst \o SubSeq(inp, l.next + 1, l.next + l.len)
                  /\ fastIp' = l.next + l.len
                  /\ step' = Fast!AfterLiterals(Fast!left - l.len)
  BY DEF Fast!Literals
<1>8. size' = size /\ step' # "idle"
  BY <1>7 DEF Fast!Literals, Fast!AfterLiterals
<1>9. /\ from <= srcSize /\ l = [len |-> n, next |-> from]
      /\ n > capacity - o \/ e <= srcSize
  <2>1. Fast!LiteralsAhead =
          IF from > srcSize THEN {}
          ELSE {k \in {[len |-> n, next |-> from]} :
                  k.len > Fast!left \/ k.next + k.len <= srcSize}
    BY <1>3, <1>4, <1>6, FastLiteralsRead
  <2>2. ~(from > srcSize) /\ l = [len |-> n, next |-> from]
        /\ (l.len > Fast!left \/ l.next + l.len <= srcSize)
    BY <2>1
  <2>3. l.len = n /\ l.next = from
    BY <2>2
  <2> QED
    BY <1>4, <1>5, <1>6, <2>2, <2>3
<1>10. l.len = n /\ l.next = from
  BY <1>9
<1>11. fastToken' = ByteAt(input, i)
  <2>1. i + 1 \in 1 .. srcSize /\ (i + 1) - 1 = i
    BY <1>4, <1>5, <1>9
  <2> QED
    BY <1>6, <1>7, <2>1, FastByte
<1>12. AtEnd(last)' <=> AtEnd(last)
  BY DEF AtEnd
<1>13. Complete(last)' <=> (e <= srcSize /\ p <= capacity)
  BY <1>2, <1>3 DEF Complete
<1>14. Dict' = Dict
  BY DEF Dict
<1>15. CASE n > capacity - o
  <2>1. p > capacity
    BY <1>4, <1>5, <1>15
  <2>2. step' = "failed" /\ dst' = dst
    BY <1>6, <1>7, <1>10, <1>15
  <2>3. ~Complete(last)
    <3>1. ~(p <= capacity)
      BY <1>4, <1>5, <2>1
    <3> QED
      BY <1>3, <3>1 DEF Complete
  <2>4. ~Goes(input, srcSize, capacity, Len(Dict), last)
    BY <1>4, <2>3, GoesOnlyInside, DictLength
  <2>5. FastAt(last)'
    BY <1>4, <1>5, <1>6, <1>8, <1>12, <1>13, <1>14, <2>1, <2>2, <2>4 DEF FastAt
  <2> QED
    BY <1>1, <1>14, <2>2, <2>5 DEF FastKnows
<1>16. CASE ~(n > capacity - o)
  <2> DEFINE more == SubSeq(inp, from + 1, from + n)
  <2>1. e <= srcSize /\ p <= capacity
    BY <1>4, <1>5, <1>9, <1>16
  <2>2. dst' = dst \o more /\ fastIp' = e /\ step' = Fast!AfterLiterals(capacity - p)
    <3>1. (capacity - o) - n = capacity - p
      BY <1>4, <1>5
    <3> QED
      BY <1>5, <1>6, <1>7, <1>10, <1>16, <3>1
  <2>3. /\ more \in Seq(U8) /\ Len(more) = n
        /\ \A k \in 1 .. n : more[k] = ByteAt(input, (from + k) - 1)
    <3>1. Len(inp) = srcSize /\ inp \in Seq(U8)
      BY FastInput
    <3>2. more \in Seq(U8) /\ Len(more) = n /\ \A k \in 1 .. n : more[k] = inp[from + k]
      <4>1. from + n <= Len(inp)
        BY <1>5, <2>1, <3>1
      <4> HIDE DEF inp
      <4> QED
        BY <1>5, <3>1, <4>1, PartIs
    <3>3. \A k \in 1 .. n : from + k \in 1 .. srcSize
      BY <1>4, <1>5, <2>1
    <3> QED
      BY <3>2, <3>3, FastByte
  <2> HIDE DEF more
  <2>4. /\ Len(dst') = p
        /\ \A k \in 1 .. o : dst'[k] = dst[k]
        /\ \A k \in 1 .. n : dst'[o + k] = more[k]
    <3>1. more \in Seq(Slots)
      BY <2>3 DEF Slots
    <3>2. /\ Len(dst \o more) = Len(dst) + Len(more)
          /\ \A k \in 1 .. Len(dst) : (dst \o more)[k] = dst[k]
          /\ \A k \in 1 .. Len(more) : (dst \o more)[Len(dst) + k] = more[k]
      BY <1>4, <3>1, JoinIs
    <3> QED
      BY <1>5, <1>6, <2>2, <2>3, <3>2
  <2>5. LitsShown(input, dst', last)
    BY <1>2, <1>3, <2>3, <2>4 DEF LitsShown
  <2>6. AllShown(H, last, input, dst', Dict, Len(dst'))
    <3>1. o <= p /\ o \in Nat /\ p \in Nat
      BY <1>5
    <3> QED
      BY <1>1, <1>4, <1>6, <2>4, <3>1, AllShownSame
  <2>7. FastAt(last)'
    <3>1. CASE capacity - p >= MFLIMIT
      <4>1. step' = "match"
        BY <2>2, <3>1 DEF Fast!AfterLiterals
      <4>2. p + MFLIMIT <= capacity
        BY <1>4, <1>5, <3>1, FormatNumbers
      <4> QED
        BY <1>2, <1>3, <1>6, <1>8, <1>11, <1>12, <1>13, <2>1, <2>2, <2>4, <2>5, <4>1, <4>2
        DEF FastAt
    <3>2. CASE ~(capacity - p >= MFLIMIT) /\ capacity - p = 0
      <4>1. step' = "done"
        BY <2>2, <3>2 DEF Fast!AfterLiterals
      <4>2. p = capacity
        BY <1>4, <1>5, <3>2
      <4> QED
        BY <1>2, <1>3, <1>6, <1>8, <1>12, <1>13, <2>1, <2>2, <2>4, <2>5, <4>1, <4>2
        DEF FastAt
    <3>3. CASE ~(capacity - p >= MFLIMIT) /\ capacity - p # 0
      <4>1. step' = "failed"
        BY <2>2, <3>3 DEF Fast!AfterLiterals
      <4>2. p # capacity /\ p + MFLIMIT > capacity
        BY <1>4, <1>5, <3>3, FormatNumbers
      <4>3. ~Goes(input, srcSize, capacity, Len(Dict), last)
        BY <1>3, <1>4, <4>2, GoesOnlyInside, DictLength
      <4> QED
        BY <1>2, <1>3, <1>6, <1>8, <1>12, <1>13, <1>14, <2>4, <2>5, <4>1, <4>2, <4>3
        DEF FastAt
    <3> QED
      BY <3>1, <3>2, <3>3
  <2> QED
    BY <1>1, <1>14, <2>6, <2>7 DEF FastKnows
<1> QED
  BY <1>15, <1>16

LEMMA CopiedShown ==
  ASSUME Given, dst \in Seq(Slots), NEW o \in Nat, NEW len \in Nat, ~Fast!OutOfRange(o),
         NEW k \in 0 .. len - 1
  PROVE  Fast!Copied(o, len)[k + 1] =
           IF o = 0 THEN Unset ELSE SourceAt(Dict, dst, (Len(dst) - o) + (k % o))
<1>0. k + 1 \in 1 .. len /\ (k + 1) - 1 = k /\ k \in Nat
  OBVIOUS
<1>1. CASE o = 0
  BY <1>0, <1>1 DEF Fast!Copied
<1>2. CASE o # 0
  <2> DEFINE window == Dict \o dst
  <2>1. /\ Dict \in Seq(Slots) /\ Len(Dict) \in Nat /\ Len(dst) \in Nat
    <3>1. Dict \in Seq(U8) /\ Len(Dict) \in Nat
      BY DictLength
    <3> QED
      BY <3>1 DEF Slots
  <2>2. /\ Len(window) = Len(Dict) + Len(dst)
        /\ \A j \in 1 .. Len(Dict) : window[j] = Dict[j]
        /\ \A j \in 1 .. Len(dst) : window[Len(Dict) + j] = dst[j]
    BY <2>1, JoinIs
  <2>3. o <= Len(dst) + Len(Dict)
    <3>1. ~(o > Len(dst) + Len(Dict))
      BY DEF Fast!OutOfRange, Dict
    <3> QED
      BY <2>1, <3>1
  <2>4. PICK r : r = k % o
    OBVIOUS
  <2>5. r \in 0 .. o - 1
    <3>1. o \in Nat \ {0}
      BY <1>2
    <3> QED
      BY <1>0, <2>4, <3>1, QuotientRemainder
  <2>6. Fast!Copied(o, len)[k + 1] = window[Len(window) - o + 1 + r]
    <3>1. Fast!Copied(o, len) =
            [i \in 1 .. len |-> window[Len(window) - o + 1 + ((i - 1) % o)]]
      BY <1>2 DEF Fast!Copied, Fast!CopyMatch, Dict
    <3> HIDE DEF window
    <3> QED
      BY <1>0, <2>4, <3>1
  <2> HIDE DEF window
  <2>7. PICK x, n, c : x = (Len(dst) - o) + r /\ n = Len(dst) /\ c = Len(Dict)
    OBVIOUS
  <2>8. n \in Nat /\ c \in Nat /\ x = (n - o) + r /\ x \in Int /\ x < n /\ x + c >= 0
    BY <2>1, <2>3, <2>5, <2>7
  <2>9. Len(window) - o + 1 + r = c + (x + 1)
    <3>1. Len(window) = c + n
      BY <2>2, <2>7
    <3> QED
      BY <2>5, <2>8, <3>1
  <2>10. window[c + (x + 1)] = SourceAt(Dict, dst, x)
    <3>1. CASE x >= 0
      <4>1. x + 1 \in 1 .. n
        BY <2>8, <3>1
      <4> QED
        BY <2>2, <2>7, <3>1, <4>1 DEF SourceAt
    <3>2. CASE ~(x >= 0)
      <4>1. c + (x + 1) \in 1 .. c /\ c + x + 1 = c + (x + 1)
        BY <2>8, <3>2
      <4> QED
        BY <2>2, <2>7, <3>2, <4>1 DEF SourceAt
    <3> QED
      BY <3>1, <3>2
  <2> QED
    BY <1>2, <2>4, <2>6, <2>7, <2>9, <2>10
<1> QED
  BY <1>1, <1>2

(* From the last head on to the next one.                                  *)
LEMMA HeadsGrow ==
  ASSUME NEW b \in Seq(U8), NEW H \in SUBSET (Nat \X Nat), NEW last \in H,
         NEW z, NEW c, NEW n, Heads(H, last, b, z, c, n), Goes(b, z, c, n, last)
  PROVE  Heads(H \cup {After(b, last)}, After(b, last), b, z, c, n)
<1> DEFINE g == After(b, last)
           G == H \cup {g}
<1>1. /\ last \in Nat \X Nat /\ g \in Nat \X Nat /\ g[1] > last[1] /\ g[2] >= last[2]
      /\ last[1] \in Nat /\ last[2] \in Nat /\ g[1] \in Nat /\ g[2] \in Nat
  <2>1. last \in Nat \X Nat
    OBVIOUS
  <2>2. PICK i, o, p, q, j : /\ i = last[1] /\ o = last[2] /\ p = LitOp(b, last)
                             /\ q = g[2] /\ j = g[1]
    OBVIOUS
  <2>3. i \in Nat /\ o \in Nat /\ p \in Nat /\ q \in Nat /\ j \in Nat /\ q >= p + 4 /\ p >= o
        /\ j > i + 2 /\ g \in Nat \X Nat
    BY <2>1, <2>2, HeadNumbers
  <2>4. j > i /\ q >= o
    BY <2>3
  <2> QED
    BY <2>1, <2>2, <2>3, <2>4
<1> HIDE DEF g
<1>2. ASSUME NEW h \in H PROVE h[1] \in Nat /\ h[2] \in Nat /\ h[1] <= last[1] /\ h[2] <= last[2]
  BY <1>1 DEF Heads
<1>3. ASSUME NEW h \in G PROVE h[2] <= g[2]
  BY <1>1, <1>2
<1>4. ASSUME NEW h \in G, h # g
      PROVE  /\ h[1] < g[1] /\ Goes(b, z, c, n, h) /\ After(b, h) \in G
             /\ \A y \in G : y[1] <= h[1] \/ After(b, h)[1] <= y[1]
  <2>1. h \in H
    BY <1>4
  <2>2. h[1] < g[1]
    BY <1>1, <1>2, <2>1
  <2>3. CASE h = last
    <3>1. \A y \in G : y[1] <= h[1] \/ After(b, h)[1] <= y[1]
      BY <1>1, <1>2, <2>3 DEF g
    <3> QED
      BY <2>2, <2>3, <3>1 DEF g
  <2>4. CASE h # last
    <3>1. /\ Goes(b, z, c, n, h) /\ After(b, h) \in H
          /\ \A y \in H : y[1] <= h[1] \/ After(b, h)[1] <= y[1]
      BY <2>1, <2>4 DEF Heads
    <3>2. After(b, h)[1] <= g[1]
      BY <1>1, <1>2, <3>1
    <3> QED
      BY <2>2, <3>1, <3>2
  <2> QED
    BY <2>3, <2>4
<1>5. G \subseteq Nat \X Nat /\ <<0, 0>> \in G /\ g \in G
  BY <1>1 DEF Heads
<1> QED
  BY <1>3, <1>4, <1>5 DEF Heads, g

LEMMA PlainMatchKnows ==
  ASSUME Given, FastInv, FastKnows, Fast!Match,
         UNCHANGED <<input, prefix, ext, srcSize, capacity>>
  PROVE  FastKnows'
<1>0. PICK H \in SUBSET (Nat \X Nat) : \E last \in H :
        /\ Heads(H, last, input, srcSize, capacity, Len(Dict))
        /\ AllShown(H, last, input, dst, Dict, Len(dst))
        /\ FastAt(last)
  BY DEF FastKnows
<1>1. PICK last \in H :
        /\ Heads(H, last, input, srcSize, capacity, Len(Dict))
        /\ AllShown(H, last, input, dst, Dict, Len(dst))
        /\ FastAt(last)
  BY <1>0
<1> DEFINE inp == SubSeq(input, 1, srcSize)
<1>2. PICK i \in Nat, o \in Nat : i = last[1] /\ o = last[2]
  OBVIOUS
<1>3. PICK e, p, m, next, q, k :
        /\ e = LitEnd(input, i) /\ p = LitOp(input, last) /\ m = MatchLen(input, i)
        /\ next = NextIp(input, i) /\ q = NextOp(input, last) /\ k = DistAt(input, i)
  OBVIOUS
<1>4. /\ input \in Seq(U8) /\ srcSize \in Nat /\ capacity \in Nat /\ last \in Nat \X Nat
      /\ fastIp \in 0 .. srcSize /\ dst \in Seq(Slots) /\ Len(dst) \in Nat
  BY <1>1, FastFacts DEF Given
<1>5. /\ e \in Nat /\ p \in Nat /\ m \in Nat /\ next \in Nat /\ q \in Nat /\ k \in Nat
      /\ q = p + m /\ m >= 4
  BY <1>2, <1>3, <1>4, SequenceNumbers, HeadNumbers, DistanceNumbers
<1>6. /\ step = "match" /\ fastIp = e /\ Len(dst) = p /\ ~AtEnd(last)
      /\ size = capacity /\ Fast!left = capacity - p /\ fastToken = ByteAt(input, i)
      /\ e <= srcSize /\ p + MFLIMIT <= capacity /\ Complete(last) /\ LitsShown(input, dst, last)
  BY <1>1, <1>2, <1>3 DEF Fast!Match, FastAt, Fast!left, Complete
<1>7. PICK l \in Fast!MatchAhead :
        LET d == Fast!ReadLE16(inp, fastIp)
            len == l.len + MINMATCH
        IN  IF Fast!TooLong(len) \/ Fast!OutOfRange(d)
              THEN step' = "failed" /\ UNCHANGED <<fastIp, dst>>
              ELSE /\ dst' = dst \o Fast!Copied(d, len)
                   /\ fastIp' = l.next
                   /\ step' = IF Fast!left - len < LASTLITERALS THEN "failed" ELSE "literals"
  BY DEF Fast!Match
<1>8. size' = size /\ fastToken' = fastToken
  BY DEF Fast!Match
<1>9. next <= srcSize /\ l.len + MINMATCH = m /\ l.next = next
      /\ Fast!ReadLE16(inp, fastIp) = k
  <2>1. /\ Fast!MatchAhead =
             IF next > srcSize THEN {}
             ELSE {[len |-> LengthIs(input, MatchCode(input, i), e + 2), next |-> next]}
        /\ next <= srcSize => Fast!ReadLE16(inp, fastIp) = k
    BY <1>3, <1>4, <1>6, FastMatchRead
  <2>2. ~(next > srcSize)
        /\ l = [len |-> LengthIs(input, MatchCode(input, i), e + 2), next |-> next]
    BY <2>1
  <2>3. l.len = LengthIs(input, MatchCode(input, i), e + 2) /\ l.next = next
    BY <2>2
  <2>4. l.len + MINMATCH = m
    BY <1>3, <2>3 DEF MatchLen
  <2> QED
    BY <1>4, <1>5, <2>1, <2>2, <2>3, <2>4
<1>10. IF Fast!TooLong(m) \/ Fast!OutOfRange(k)
         THEN step' = "failed" /\ UNCHANGED <<fastIp, dst>>
         ELSE /\ dst' = dst \o Fast!Copied(k, m)
              /\ fastIp' = next
              /\ step' = IF Fast!left - m < LASTLITERALS THEN "failed" ELSE "literals"
  BY <1>7, <1>9
<1>11. Dict' = Dict
  BY DEF Dict
<1>12. /\ Fast!TooLong(m) <=> q > capacity
       /\ Fast!OutOfRange(k) <=> k > p + Len(Dict)
  <2>1. Fast!TooLong(m) <=> m > capacity - p
    BY <1>6 DEF Fast!TooLong
  <2>2. m > capacity - p <=> q > capacity
    BY <1>4, <1>5
  <2> QED
    BY <1>6, <2>1, <2>2 DEF Fast!OutOfRange, Dict
<1>13. CASE Fast!TooLong(m) \/ Fast!OutOfRange(k)
  <2>1. step' = "failed" /\ dst' = dst
    BY <1>10, <1>13
  <2>2. ~Goes(input, srcSize, capacity, Len(Dict), last)
    BY <1>2, <1>3, <1>4, <1>12, <1>13, GoesOnlyInside, DictLength
  <2>3. AtEnd(last)' <=> AtEnd(last)
    BY DEF AtEnd
  <2>4. p # capacity
    BY <1>4, <1>5, <1>6, FormatNumbers
  <2>5. FastAt(last)'
    BY <1>3, <1>4, <1>6, <1>8, <1>11, <2>1, <2>2, <2>3, <2>4 DEF FastAt
  <2> QED
    BY <1>1, <1>11, <2>1, <2>5 DEF FastKnows
<1>14. CASE ~(Fast!TooLong(m) \/ Fast!OutOfRange(k))
  <2> DEFINE more == Fast!Copied(k, m)
  <2>0. PICK g : g = After(input, last)
    OBVIOUS
  <2> DEFINE G == H \cup {g}
  <2>1. /\ dst' = dst \o more /\ fastIp' = next
        /\ step' = IF Fast!left - m < LASTLITERALS THEN "failed" ELSE "literals"
    BY <1>10, <1>14
  <2>2. q <= capacity /\ k <= p + Len(Dict)
    BY <1>4, <1>5, <1>12, <1>14, DictLength
  <2>3. Goes(input, srcSize, capacity, Len(Dict), last)
    BY <1>2, <1>3, <1>6, <1>9, <2>2 DEF Goes
  <2>4. more \in Seq(Slots) /\ Len(more) = m
        /\ \A j \in 0 .. m - 1 :
             more[j + 1] = IF k = 0 THEN Unset ELSE SourceAt(Dict, dst, (p - k) + (j % k))
    BY <1>4, <1>5, <1>6, <1>14, CopiedType, CopiedShown
  <2> HIDE DEF more
  <2>5. /\ Len(dst') = q
        /\ \A j \in 1 .. p : dst'[j] = dst[j]
        /\ \A j \in 1 .. m : dst'[p + j] = more[j]
    <3>0. dst \in Seq(Slots) /\ more \in Seq(Slots)
      BY <1>4, <2>4
    <3>1. /\ Len(dst \o more) = Len(dst) + Len(more)
          /\ \A j \in 1 .. Len(dst) : (dst \o more)[j] = dst[j]
          /\ \A j \in 1 .. Len(more) : (dst \o more)[Len(dst) + j] = more[j]
      BY ONLY <3>0, JoinIs
    <3> QED
      BY <1>5, <1>6, <2>1, <2>4, <3>1
  <2>6. Heads(G, g, input, srcSize, capacity, Len(Dict))
    BY <1>1, <1>4, <2>0, <2>3, HeadsGrow
  <2>7. g \in Nat \X Nat /\ g[1] = next /\ g[2] = q /\ g[1] # 0
    <3>1. g \in Nat \X Nat /\ g[1] = next /\ g[2] = q
      BY <1>2, <1>3, <1>4, <2>0, HeadNumbers
    <3>2. next >= e + 2
      BY <1>2, <1>3, <1>4, SequenceNumbers
    <3>3. next # 0
      BY <1>5, <3>2
    <3> QED
      BY <3>1, <3>3
  <2>8. MatchShown(input, dst', Dict, last)
    <3> SUFFICES ASSUME NEW j \in 0 .. m - 1
                 PROVE  dst'[p + j + 1] =
                          IF k = 0 THEN Unset ELSE SourceAt(Dict, dst', (p - k) + (j % k))
      BY <1>2, <1>3 DEF MatchShown
    <3>1. j + 1 \in 1 .. m /\ p + j + 1 = p + (j + 1) /\ j \in Nat
      BY <1>5
    <3>2. dst'[p + j + 1] =
            IF k = 0 THEN Unset ELSE SourceAt(Dict, dst, (p - k) + (j % k))
      BY <2>4, <2>5, <3>1
    <3>3. CASE k # 0
      <4>1. PICK r : r = j % k
        OBVIOUS
      <4>2. r \in 0 .. k - 1
        BY <1>5, <3>1, <3>3, <4>1, QuotientRemainder
      <4>3. PICK s : s = (p - k) + r
        OBVIOUS
      <4>4. s \in Int /\ s < p
        BY <1>5, <4>2, <4>3
      <4>5. s >= 0 => s + 1 \in 1 .. p
        BY <1>5, <4>4
      <4>6. SourceAt(Dict, dst', s) = SourceAt(Dict, dst, s)
        BY <2>5, <4>5 DEF SourceAt
      <4> QED
        BY <3>2, <3>3, <4>1, <4>3, <4>6
    <3> QED
      BY <3>2, <3>3
  <2>9. AllShown(G, g, input, dst', Dict, q)
    <3> SUFFICES ASSUME NEW h \in G, h # g
                 PROVE  NextOp(input, h) <= q /\ LitsShown(input, dst', h)
                        /\ MatchShown(input, dst', Dict, h)
      BY DEF AllShown
    <3>1. h \in H
      OBVIOUS
    <3>2. CASE h = last
      <4>1. LitsShown(input, dst', last)
        <5>1. /\ input \in Seq(U8) /\ last \in Nat \X Nat /\ p \in Nat
              /\ \A j \in 1 .. p : dst'[j] = dst[j]
          BY <1>4, <1>5, <2>5
        <5>2. LitOp(input, last) <= p => (LitsShown(input, dst, last) => LitsShown(input, dst', last))
          BY ONLY <5>1, ShownSame
        <5>3. LitOp(input, last) <= p
          BY <1>3, <1>5
        <5> QED
          BY <1>6, <5>2, <5>3
      <4>2. NextOp(input, last) <= q
        BY <1>3, <1>5
      <4> QED
        BY <2>8, <3>2, <4>1, <4>2
    <3>3. CASE h # last
      <4>1. AllShown(H, last, input, dst', Dict, q)
        <5>1. p <= q
          BY <1>5
        <5>2. AllShown(H, last, input, dst, Dict, p)
          BY <1>1, <1>6
        <5> QED
          BY <1>4, <1>5, <2>5, <5>1, <5>2, AllShownSame
      <4> QED
        BY <3>1, <3>3, <4>1 DEF AllShown
    <3> QED
      BY <3>2, <3>3
  <2>10. AtEnd(g)' <=> q + LASTLITERALS > capacity
    BY <2>7 DEF AtEnd
  <2>11. Fast!left - m < LASTLITERALS <=> q + LASTLITERALS > capacity
    BY <1>4, <1>5, <1>6, FormatNumbers
  <2>12. FastAt(g)'
    <3>1. CASE q + LASTLITERALS > capacity
      <4>1. step' = "failed"
        BY <2>1, <2>11, <3>1
      <4>2. LitOp(input, g) + MFLIMIT > capacity
        <5>1. PICK y : y = LitOp(input, g)
          OBVIOUS
        <5>2. y \in Nat /\ y >= q
          BY <1>4, <2>7, <5>1, HeadNumbers
        <5>3. y + MFLIMIT > capacity
          BY ONLY <1>4, <1>5, <3>1, <5>2, FormatNumbers
        <5> QED
          BY <5>1, <5>3
      <4>3. ~Goes(input, srcSize, capacity, Len(Dict), g)
        BY <1>4, <2>7, <4>2, GoesOnlyInside, DictLength
      <4> QED
        BY <1>6, <1>8, <1>11, <2>5, <2>7, <2>10, <3>1, <4>1, <4>3 DEF FastAt
    <3>2. CASE ~(q + LASTLITERALS > capacity)
      <4>1. step' = "literals"
        BY <2>1, <2>11, <3>2
      <4> QED
        BY <1>6, <1>8, <2>1, <2>5, <2>7, <2>10, <3>2, <4>1 DEF FastAt
    <3> QED
      BY <3>1, <3>2
  <2>13. G \in SUBSET (Nat \X Nat) /\ g \in G
    BY <2>7
  <2> QED
    BY <1>11, <2>5, <2>6, <2>9, <2>12, <2>13 DEF FastKnows
<1> QED
  BY <1>13, <1>14

LEMMA PlainOutsideKnows ==
  ASSUME Given, FastInv, FastKnows, Fast!Outside,
         UNCHANGED <<input, prefix, ext, srcSize, capacity>>
  PROVE  FastKnows'
<1>0. PICK H \in SUBSET (Nat \X Nat) : \E last \in H :
        /\ Heads(H, last, input, srcSize, capacity, Len(Dict))
        /\ AllShown(H, last, input, dst, Dict, Len(dst))
        /\ FastAt(last)
  BY DEF FastKnows
<1>1. PICK last \in H :
        /\ Heads(H, last, input, srcSize, capacity, Len(Dict))
        /\ AllShown(H, last, input, dst, Dict, Len(dst))
        /\ FastAt(last)
  BY <1>0
<1>2. PICK i \in Nat, o \in Nat : i = last[1] /\ o = last[2]
  OBVIOUS
<1>3. /\ input \in Seq(U8) /\ srcSize \in Nat /\ capacity \in Nat /\ last \in Nat \X Nat
      /\ fastIp \in 0 .. srcSize /\ dst \in Seq(Slots) /\ Len(dst) \in Nat
  BY <1>1, FastFacts DEF Given
<1>4. step' = "outside" /\ dst' = dst /\ size' = size /\ Dict' = Dict
  BY DEF Fast!Outside, Dict
<1>5. AtEnd(last)' <=> AtEnd(last)
  BY DEF AtEnd
<1>6. ~AtEnd(last) /\ size = capacity
  BY <1>1 DEF Fast!Outside, FastAt
<1>7. PICK from, n, e, p, x : /\ from = LitFrom(input, i) /\ n = LitLen(input, i)
                              /\ e = LitEnd(input, i) /\ p = LitOp(input, last)
                              /\ x = NextIp(input, i)
  OBVIOUS
<1>8. /\ from \in Nat /\ n \in Nat /\ e \in Nat /\ e = from + n /\ from >= i + 1 /\ p = o + n
      /\ x \in Nat /\ x >= e + 2
  BY <1>2, <1>3, <1>7, SequenceNumbers, HeadNumbers
<1>9. CASE step = "literals" /\ Fast!LiteralsAhead = {}
  <2>1. fastIp = i /\ Len(dst) = o
    BY <1>1, <1>2, <1>9 DEF FastAt
  <2>2. Fast!LiteralsAhead =
          IF from > srcSize THEN {}
          ELSE {k \in {[len |-> n, next |-> from]} :
                  k.len > Fast!left \/ k.next + k.len <= srcSize}
    BY <1>3, <1>7, <2>1, FastLiteralsRead
  <2>3. e > srcSize
    <3>1. CASE from > srcSize
      BY <1>3, <1>8, <3>1
    <3>2. CASE ~(from > srcSize)
      <4>1. ~(from + n <= srcSize)
        <5>1. [len |-> n, next |-> from].len = n /\ [len |-> n, next |-> from].next = from
          OBVIOUS
        <5> QED
          BY <1>9, <2>2, <3>2, <5>1
      <4> QED
        BY <1>3, <1>8, <4>1
    <3> QED
      BY <3>1, <3>2
  <2>4. ~Complete(last)
    <3>1. ~(e <= srcSize)
      BY <1>3, <1>8, <2>3
    <3> QED
      BY <1>2, <1>7, <3>1 DEF Complete
  <2>5. ~Goes(input, srcSize, capacity, Len(Dict), last)
    BY <1>3, <2>4, GoesOnlyInside, DictLength
  <2>6. Complete(last)' <=> Complete(last)
    BY DEF Complete
  <2>7. FastAt(last)'
    BY <1>4, <1>5, <1>6, <2>4, <2>5, <2>6 DEF FastAt
  <2> QED
    BY <1>1, <1>4, <2>7 DEF FastKnows
<1>10. CASE step = "match" /\ Fast!MatchAhead = {}
  <2>1. /\ fastIp = e /\ Len(dst) = p /\ fastToken = ByteAt(input, i)
        /\ p + MFLIMIT <= capacity /\ LitsShown(input, dst, last)
    BY <1>1, <1>2, <1>7, <1>10 DEF FastAt
  <2>2. Fast!MatchAhead =
          IF x > srcSize THEN {}
          ELSE {[len |-> LengthIs(input, MatchCode(input, i), e + 2), next |-> x]}
    BY <1>3, <1>7, <2>1, FastMatchRead
  <2>3. x > srcSize
    BY <1>10, <2>2
  <2>4. ~Goes(input, srcSize, capacity, Len(Dict), last)
    BY <1>2, <1>3, <1>7, <2>3, GoesOnlyInside, DictLength
  <2>5. p # capacity
    BY <1>3, <1>8, <2>1, FormatNumbers
  <2>6. FastAt(last)'
    BY <1>4, <1>5, <1>6, <1>7, <2>1, <2>4, <2>5 DEF FastAt
  <2> QED
    BY <1>1, <1>4, <2>6 DEF FastKnows
<1> QED
  BY <1>9, <1>10 DEF Fast!Outside

(* The call: it is at the first sequence.                                  *)
LEMMA PlainCallKnows ==
  ASSUME Given, FastInv, Fast!Call(capacity), fastIp = 0,
         UNCHANGED <<input, prefix, ext, srcSize, capacity>>
  PROVE  FastKnows'
<1> DEFINE h == <<0, 0>>
           H == {h}
<1>1. size' = capacity /\ step' = "literals" /\ fastIp' = 0 /\ dst' = dst /\ Len(dst) = 0
  BY DEF Fast!Call, FastInv
<1>2. h \in Nat \X Nat /\ h[1] = 0 /\ h[2] = 0
  OBVIOUS
<1>3. Heads(H, h, input, srcSize, capacity, Len(Dict)')
  BY <1>2 DEF Heads
<1>4. AllShown(H, h, input, dst', Dict', Len(dst)')
  BY DEF AllShown
<1> HIDE DEF h
<1>5. FastAt(h)'
  BY <1>1, <1>2 DEF FastAt, AtEnd
<1>6. H \in SUBSET (Nat \X Nat) /\ h \in H
  BY <1>2
<1> QED
  BY <1>3, <1>4, <1>5, <1>6 DEF FastKnows

-----------------------------------------------------------------------------
(* What the copies of the safe decoder write.  The memory is as long as it *)
(* is at the call; what lies before op stays as it is.                     *)
Memory == DOMAIN mem = 1 .. Len(prefix) + oend + BEHIND

Stays(m) ==
  /\ DOMAIN m = DOMAIN mem
  /\ \A i \in DOMAIN mem : i <= Len(prefix) + op => m[i] = mem[i]

(* A byte in front of op: of the output, of the prefix, or of the external *)
(* dictionary.                                                             *)
WinAt(p) == IF p >= lowPrefix THEN At(mem, p) ELSE ext[Len(ext) + (p - lowPrefix) + 1]

(* The first q bytes from op on repeat those from match on.                *)
Repeats(m, q) == Stays(m) /\ \A i \in 0 .. q - 1 : At(m, op + i) = WinAt(match + (i % offset))

Here == Sizes /\ Memory /\ op \in Nat /\ op <= oend /\ offset \in Nat

LEMMA PutStays ==
  ASSUME Here, NEW m, Stays(m), NEW to \in Int, to >= op, NEW bytes, DOMAIN bytes \subseteq Nat \ {0}
  PROVE  Stays(Put(m, to, bytes))
<1>1. DOMAIN Put(m, to, bytes) = DOMAIN mem
  BY DEF Put, Stays
<1>2. ASSUME NEW i \in DOMAIN mem, i <= Len(prefix) + op
      PROVE  Put(m, to, bytes)[i] = mem[i]
  <2>1. i \in Nat /\ Len(prefix) \in Nat /\ op \in Nat
    BY DEF Here, Memory, Sizes
  <2>2. i - Len(prefix) - to \notin DOMAIN bytes
    BY <1>2, <2>1
  <2>3. Put(m, to, bytes)[i] = m[i]
    BY <2>2 DEF Put, Stays
  <2> QED
    BY <1>2, <2>3 DEF Stays
<1> QED
  BY <1>1, <1>2 DEF Stays

LEMMA CopyStays ==
  ASSUME Here, NEW m, Stays(m), NEW to \in Int, to >= op, NEW from, NEW n \in Int
  PROVE  Stays(Copy(m, to, from, n))
<1>1. DOMAIN Bytes(m, from, n) \subseteq Nat \ {0}
  BY DEF Bytes
<1> QED
  BY <1>1, PutStays DEF Copy

LEMMA OverlappingStays ==
  ASSUME Here, NEW m, Stays(m), NEW to \in Int, to >= op, NEW distance, NEW n \in Int
  PROVE  Stays(Overlapping(m, to, distance, n))
<1> DEFINE bytes == [i \in 1 .. n |-> At(m, to - distance + ((i - 1) % distance))]
<1>1. DOMAIN bytes \subseteq Nat \ {0}
  OBVIOUS
<1> HIDE DEF bytes
<1>2. Stays(Put(m, to, bytes))
  BY <1>1, PutStays
<1> QED
  BY <1>2 DEF Overlapping, bytes

LEMMA BuiltStays ==
  ASSUME Here, NEW c \in Nat, NEW m, Stays(m), NEW to \in Int, to >= op, NEW from, NEW n \in Nat,
         NEW f, Built(f, c, m, to, from, n)
  PROVE  Stays(f[c])
<1> DEFINE Bad == {k \in 0 .. c : ~Stays(f[k])}
<1>1. SUFFICES ASSUME Bad # {} PROVE FALSE
  BY <1>1
<1>2. PICK k \in Bad : \A e \in Bad : k <= e
  <2>1. Bad \subseteq Nat
    OBVIOUS
  <2> HIDE DEF Bad
  <2> QED
    BY <1>1, <2>1, LeastNatural
<1>3. k # 0
  BY <1>2 DEF Built
<1>4. k - 1 \in 0 .. c /\ k \in Nat /\ k - 1 \in Nat
  BY <1>2, <1>3
<1>5. Stays(f[k - 1])
  BY <1>2, <1>4
<1>6. f[k] = Copy(f[k - 1], to + (k - 1) * n, from + (k - 1) * n, n)
  BY <1>2, <1>3, <1>4 DEF Built
<1>7. PICK at \in Nat : at = (k - 1) * n
  BY <1>4
<1>8. to + at \in Int /\ to + at >= op
  BY DEF Here
<1>9. Stays(Copy(f[k - 1], to + at, from + at, n))
  BY <1>5, <1>8, CopyStays
<1> QED
  BY <1>2, <1>6, <1>7, <1>9

LEMMA CopyPiecesStays ==
  ASSUME Here, NEW m, Stays(m), NEW to \in Int, to >= op, NEW from, NEW end \in Int,
         NEW n \in Nat \ {0}
  PROVE  Stays(CopyPieces(m, to, from, end, n))
<1> DEFINE P == Pieces(end - to, n)
           c == P \div n
<1>1. P \in Nat
  <2>1. end - to \in Int
    OBVIOUS
  <2> QED
    BY <2>1, PiecesBound
<1>2. c \in Nat
  <2> HIDE DEF P
  <2> QED
    BY <1>1, QuotientTimes
<1> DEFINE f == CHOOSE g : Built(g, c, m, to, from, n)
<1>4. Built(f, c, m, to, from, n)
  <2> HIDE DEF c
  <2> QED
    BY <1>2, CanBeBuilt
<1>5. Stays(f[c])
  <2> HIDE DEF c, f
  <2> QED
    BY <1>2, <1>4, BuiltStays
<1>6. CopyPieces(m, to, from, end, n) = f[c]
  BY DEF CopyPieces, Built
<1> QED
  BY <1>5, <1>6

LEMMA WildCopy8Stays ==
  ASSUME Here, NEW m, Stays(m), NEW to \in Int, to >= op, NEW from, NEW end \in Int
  PROVE  Stays(WildCopy8(m, to, from, end))
<1>1. WildCopy8(m, to, from, end) = CopyPieces(m, to, from, end, 8)
  BY SafeDecoderAssumption DEF WildCopy8
<1> QED
  BY <1>1, CopyPiecesStays

LEMMA First8Stays ==
  ASSUME Here
  PROVE  Stays(First8(mem).mem)
<1>0. Stays(mem) /\ op \in Int /\ op >= op /\ op + 4 \in Int /\ op + 4 >= op
  BY DEF Stays, Here
<1>1. CASE offset >= 8
  <2>1. First8(mem).mem = Copy(mem, op, match, 8)
    BY <1>1 DEF First8
  <2> QED
    BY <1>0, <2>1, CopyStays
<1>2. CASE ~(offset >= 8)
  <2> DEFINE four == IF offset = 0 THEN Put(mem, op, <<0, 0, 0, 0>>)
                     ELSE Overlapping(mem, op, offset, 4)
             next == match + inc32table[offset + 1]
  <2>1. Stays(four)
    <3>1. Stays(Put(mem, op, <<0, 0, 0, 0>>))
      <4>1. DOMAIN <<0, 0, 0, 0>> \subseteq Nat \ {0}
        OBVIOUS
      <4> QED
        BY <1>0, <4>1, PutStays
    <3>2. Stays(Overlapping(mem, op, offset, 4))
      BY <1>0, OverlappingStays
    <3> QED
      BY <3>1, <3>2
  <2>2. First8(mem).mem = Copy(four, op + 4, next, 4)
    BY <1>2 DEF First8
  <2> HIDE DEF four, next
  <2>4. Stays(Copy(four, op + 4, next, 4))
    BY <1>0, <2>1, CopyStays
  <2> QED
    BY <2>2, <2>4
<1> QED
  BY <1>1, <1>2

LEMMA CopyUsingOffsetStays ==
  ASSUME Here, NEW end \in Int
  PROVE  Stays(CopyUsingOffset(mem, end))
<1>0. Stays(mem) /\ op \in Int /\ op >= op /\ op + 8 \in Int /\ op + 8 >= op
  BY DEF Stays, Here
<1>1. CASE offset \in {1, 2, 4}
  <2>1. Pieces(end - op, 8) \in Int
    <3>1. end - op \in Int /\ 8 \in Nat \ {0}
      BY DEF Here
    <3> QED
      BY <3>1, PiecesBound
  <2>2. Stays(Overlapping(mem, op, offset, Pieces(end - op, 8)))
    BY <1>0, <2>1, OverlappingStays
  <2> QED
    BY <1>1, <2>2 DEF CopyUsingOffset
<1>2. CASE offset \notin {1, 2, 4}
  <2> DEFINE first == First8(mem)
  <2>1. Stays(first.mem)
    BY First8Stays
  <2> HIDE DEF first
  <2>3. Stays(WildCopy8(first.mem, op + 8, first.from, end))
    BY <1>0, <2>1, WildCopy8Stays
  <2> QED
    BY <1>2, <2>3 DEF CopyUsingOffset, first
<1> QED
  BY <1>1, <1>2

LEMMA ToTheEndStays ==
  ASSUME Here, NEW first, Stays(first.mem), length \in Nat
  PROVE  Stays(ToTheEnd(first))
<1> DEFINE until == oend - (WILDCOPYLENGTH - 1)
           at    == IF op + 8 < until THEN until ELSE op + 8
           m     == IF op + 8 < until THEN WildCopy8(first.mem, op + 8, first.from, until)
                    ELSE first.mem
<1>1. until \in Int /\ at \in Int /\ at >= op /\ op + 8 \in Int /\ op + 8 >= op
  BY FormatNumbers DEF Here, Sizes
<1>2. Stays(m)
  <2> HIDE DEF until
  <2> QED
    BY <1>1, WildCopy8Stays
<1>3. Stays(Overlapping(m, at, op + 8 - first.from, op + length - at))
  <2>1. op + length - at \in Int
    <3> HIDE DEF at
    <3> QED
      BY <1>1 DEF Here
  <2> HIDE DEF m, at
  <2> QED
    BY <1>1, <1>2, <2>1, OverlappingStays
<1> QED
  BY <1>3 DEF ToTheEnd

LEMMA FarFromEndStays ==
  ASSUME Here, NEW first, Stays(first.mem), length \in Nat
  PROVE  Stays(FarFromEnd(first))
<1>1. op + 8 \in Int /\ op + 8 >= op /\ op + 16 \in Int /\ op + 16 >= op /\ op + length \in Int
  BY DEF Here
<1> DEFINE m == Copy(first.mem, op + 8, first.from, 8)
<1>2. Stays(m)
  BY <1>1, CopyStays
<1> HIDE DEF m
<1>3. Stays(WildCopy8(m, op + 16, first.from + 8, op + length))
  BY <1>1, <1>2, WildCopy8Stays
<1> QED
  BY <1>2, <1>3 DEF FarFromEnd, m

-----------------------------------------------------------------------------
(* What a Put puts, and what it leaves.                                    *)
LEMMA PutNew ==
  ASSUME Here, NEW m, DOMAIN m = DOMAIN mem, NEW to \in Nat, NEW n \in Nat, NEW bytes,
         DOMAIN bytes = 1 .. n, to + n <= oend + 64, NEW y \in Int, to <= y, y < to + n
  PROVE  At(Put(m, to, bytes), y) = bytes[(y - to) + 1]
<1>1. PICK l \in Nat, z \in Nat : l = Len(prefix) /\ z = oend
  BY DEF Here, Sizes
<1>2. DOMAIN m = 1 .. l + z + 64 /\ to + n <= z + 64
  BY <1>1 DEF Here, Memory, BEHIND
<1>0. PICK k \in 1 .. n : k = (y - to) + 1
  OBVIOUS
<1>3. l + y + 1 \in 1 .. l + z + 64 /\ ((l + y + 1) - l) - to = k
  BY <1>0, <1>2
<1>4. PICK i \in DOMAIN m : i = l + y + 1 /\ (i - l) - to = k
  BY <1>2, <1>3
<1>5. Put(m, to, bytes)[i] = bytes[k]
  <2>1. i - Len(prefix) - to = k
    BY <1>1, <1>4
  <2> QED
    BY <1>0, <2>1 DEF Put
<1> QED
  BY <1>0, <1>1, <1>4, <1>5 DEF At

LEMMA PutOld ==
  ASSUME Here, NEW m, DOMAIN m = DOMAIN mem, NEW to \in Nat, NEW n \in Nat, NEW bytes,
         DOMAIN bytes = 1 .. n, to + n <= oend + 64,
         NEW x \in Int, 0 - Len(prefix) <= x, x < to
  PROVE  At(Put(m, to, bytes), x) = At(m, x)
<1>1. PICK l \in Nat, z \in Nat : l = Len(prefix) /\ z = oend
  BY DEF Here, Sizes
<1>2. DOMAIN m = 1 .. l + z + 64 /\ to + n <= z + 64
  BY <1>1 DEF Here, Memory, BEHIND
<1>3. l + x + 1 \in 1 .. l + z + 64 /\ ((l + x + 1) - l) - to \notin 1 .. n
  BY <1>1, <1>2
<1>4. PICK i \in DOMAIN m : i = l + x + 1 /\ (i - l) - to \notin 1 .. n
  BY <1>2, <1>3
<1>5. Put(m, to, bytes)[i] = m[i]
  <2>1. i - Len(prefix) - to \notin 1 .. n
    BY <1>1, <1>4
  <2> QED
    BY <2>1 DEF Put
<1> QED
  BY <1>1, <1>4, <1>5 DEF At

(* A byte in front of op stays.                                            *)
LEMMA StaysAt ==
  ASSUME Here, NEW m, Stays(m), NEW x \in Int, 0 - Len(prefix) <= x, x < op
  PROVE  At(m, x) = At(mem, x)
<1>1. PICK l \in Nat, z \in Nat, p \in Nat : l = Len(prefix) /\ z = oend /\ p = op
  BY DEF Here, Sizes
<1>2. DOMAIN mem = 1 .. l + z + 64
  BY <1>1 DEF Here, Memory, BEHIND
<1>3. CASE l + x + 1 \in DOMAIN mem
  <2>1. l + x + 1 <= l + p
    BY <1>1
  <2> QED
    BY <1>1, <1>3, <2>1 DEF Stays, At
<1>4. CASE l + x + 1 \notin DOMAIN mem
  <2>1. x >= z + 64
    BY <1>1, <1>2, <1>4
  <2> QED
    BY <1>1, <2>1 DEF Here
<1> QED
  BY <1>3, <1>4

-----------------------------------------------------------------------------
(* A byte that was repeated is the one at the same place of every round.   *)
LEMMA RepeatedByte ==
  ASSUME Here, offset # 0, NEW m, NEW q \in Nat, Repeats(m, q), match >= lowPrefix,
         NEW x \in Int, NEW i \in Nat, NEW c \in Nat, i = x + c * offset,
         0 - offset <= x, x < q
  PROVE  At(m, op + x) = WinAt(match + (i % offset))
<1>1. PICK l \in Nat, o \in Nat \ {0}, p \in Nat : l = Len(prefix) /\ o = offset /\ p = op
  BY DEF Here, Sizes
<1>2. match = p - o /\ lowPrefix = 0 - l /\ p - o >= 0 - l
  BY <1>1 DEF match, lowPrefix
<1>3. CASE x >= 0
  <2>1. x \in Nat
    BY <1>3
  <2>2. PICK a \in Nat, r \in 0 .. o - 1 : a = x \div o /\ r = x % o /\ a * o + r = x
    BY <2>1, QuotientRemainder
  <2>3. (a + c) * o = a * o + c * o /\ a + c \in Nat
    OBVIOUS
  <2>4. i = (a + c) * o + r
    <3>1. PICK u \in Int, v \in Int : u = a * o /\ v = c * o
      OBVIOUS
    <3>2. i = x + v /\ u + r = x /\ (a + c) * o = u + v
      BY <1>1, <2>2, <2>3, <3>1
    <3>3. i = (u + v) + r
      BY ONLY <3>2, u \in Int, v \in Int, x \in Int, r \in 0 .. o - 1, o \in Nat
    <3> QED
      BY <3>2, <3>3
  <2>5. i % o = r
    <3>1. PICK b \in Nat : b = a + c
      OBVIOUS
    <3>2. i = b * o + r
      BY <2>4, <3>1
    <3> QED
      BY ONLY <3>2, b \in Nat, o \in Nat \ {0}, r \in 0 .. o - 1, i \in Nat, RemainderUnique
  <2>6. x \in 0 .. q - 1
    BY <2>1
  <2>7. At(m, op + x) = WinAt(match + (x % offset))
    BY <2>6 DEF Repeats
  <2> QED
    BY <1>1, <2>2, <2>5, <2>7
<1>4. CASE ~(x >= 0)
  <2>1. c # 0
    <3>1. c = 0 => i = x
      <4>1. 0 * o = 0
        OBVIOUS
      <4> QED
        BY <1>1, <4>1
    <3> QED
      BY <1>4, <3>1
  <2>2. PICK d \in Nat : c = d + 1
    <3>1. c - 1 \in Nat /\ c = (c - 1) + 1
      BY <2>1
    <3> QED
      BY <3>1
  <2>3. x + o \in 0 .. o - 1
    BY <1>1, <1>4
  <2>4. i = d * o + (x + o)
    <3>1. (d + 1) * o = d * o + o
      OBVIOUS
    <3>2. PICK u \in Int : u = d * o
      OBVIOUS
    <3>3. i = x + (u + o)
      BY <1>1, <2>2, <3>1, <3>2
    <3>4. i = u + (x + o)
      BY ONLY <3>3, u \in Int, x \in Int, o \in Nat
    <3> QED
      BY <3>2, <3>4
  <2>5. i % o = x + o
    <3>1. PICK r \in 0 .. o - 1 : r = x + o
      BY <2>3
    <3>2. i = d * o + r
      BY <2>4, <3>1
    <3>3. i % o = r
      BY ONLY <3>2, d \in Nat, o \in Nat \ {0}, r \in 0 .. o - 1, i \in Nat, RemainderUnique
    <3> QED
      BY <3>1, <3>3
  <2>6. match + (x + o) = op + x /\ op + x >= lowPrefix /\ op + x \in Int /\ op + x < op
        /\ 0 - Len(prefix) <= op + x
    BY <1>1, <1>2, <1>4
  <2>7. WinAt(op + x) = At(mem, op + x)
    BY <2>6 DEF WinAt
  <2>8. At(m, op + x) = At(mem, op + x)
    BY <2>6, StaysAt DEF Repeats
  <2> QED
    BY <1>1, <2>5, <2>6, <2>7, <2>8
<1> QED
  BY <1>3, <1>4

(* One piece more, from a distance that is a multiple of the offset.       *)
LEMMA CopyRepeats ==
  ASSUME Here, offset # 0, NEW m, NEW q \in Nat, Repeats(m, q), match >= lowPrefix,
         NEW d \in Nat, NEW c \in Nat, d = c * offset, NEW n \in Nat, n <= d, d <= q + offset,
         op + q + n <= oend + 64
  PROVE  Repeats(Copy(m, op + q, op + q - d, n), q + n)
<1> DEFINE bytes == Bytes(m, op + q - d, n)
           w == Copy(m, op + q, op + q - d, n)
<1>1. PICK o \in Nat \ {0}, p \in Nat, z \in Nat : o = offset /\ p = op /\ z = oend
  BY DEF Here, Sizes
<1>2. Stays(w)
  <2>1. op + q \in Int /\ op + q >= op /\ Stays(m)
    BY <1>1 DEF Repeats
  <2> QED
    BY <2>1, CopyStays
<1>3. DOMAIN bytes = 1 .. n /\ w = Put(m, op + q, bytes) /\ op + q \in Nat
  BY <1>1 DEF Bytes, Copy
<1>4. \A j \in 1 .. n : bytes[j] = At(m, (op + q - d) + j - 1)
  BY DEF Bytes
<1> HIDE DEF bytes, w
<1>5. /\ \A j \in 0 .. n - 1 : At(w, (op + q) + j) = bytes[j + 1]
      /\ \A x \in Int : 0 - Len(prefix) <= x /\ x < op + q => At(w, x) = At(m, x)
  <2>1. PICK to \in Nat : to = op + q
    BY <1>3
  <2>2. to + n <= oend + 64 /\ DOMAIN m = DOMAIN mem /\ DOMAIN bytes = 1 .. n
        /\ w = Put(m, to, bytes)
    BY <1>1, <1>3, <2>1 DEF Repeats, Stays
  <2>3. ASSUME NEW j \in 0 .. n - 1 PROVE At(Put(m, to, bytes), to + j) = bytes[j + 1]
    <3>1. PICK y \in Int : y = to + j /\ to <= y /\ y < to + n /\ (y - to) + 1 = j + 1
      OBVIOUS
    <3>2. At(Put(m, to, bytes), y) = bytes[(y - to) + 1]
      BY <2>2, <3>1, PutNew
    <3> QED
      BY <3>1, <3>2
  <2>5. ASSUME NEW x \in Int, 0 - Len(prefix) <= x, x < to
        PROVE  At(Put(m, to, bytes), x) = At(m, x)
    BY <2>2, <2>5, PutOld
  <2>4. /\ \A j \in 0 .. n - 1 : At(w, to + j) = bytes[j + 1]
        /\ \A x \in Int : 0 - Len(prefix) <= x /\ x < to => At(w, x) = At(m, x)
    BY <2>2, <2>3, <2>5
  <2> QED
    BY <2>1, <2>4
<1>6. ASSUME NEW i \in 0 .. (q + n) - 1 PROVE At(w, op + i) = WinAt(match + (i % offset))
  <2>1. CASE i < q
    <3>1. i \in 0 .. q - 1 /\ op + i \in Int /\ 0 - Len(prefix) <= op + i /\ op + i < op + q
      BY <1>1, <2>1 DEF Here, Sizes
    <3>2. At(m, op + i) = WinAt(match + (i % offset))
      BY <3>1 DEF Repeats
    <3> QED
      BY <1>5, <3>1, <3>2
  <2>2. CASE ~(i < q)
    <3>1. PICK x \in Int : x = i - d
      OBVIOUS
    <3>2. /\ i \in Nat /\ 0 - offset <= x /\ x < q /\ i = x + c * offset
      <4>1. 0 - o <= x /\ x < q /\ i \in Nat /\ i = x + d
        BY <1>1, <2>2, <3>1
      <4> QED
        BY <1>1, <4>1
    <3>3. i - q \in 0 .. n - 1 /\ (op + q) + (i - q) = op + i /\ (i - q) + 1 \in 1 .. n
          /\ (op + q - d) + ((i - q) + 1) - 1 = op + x
      BY <1>1, <2>2, <3>1
    <3>4. At(w, op + i) = At(m, op + x)
      BY <1>4, <1>5, <3>3
    <3> QED
      BY <3>2, <3>4, RepeatedByte
  <2> QED
    BY <2>1, <2>2
<1> QED
  BY <1>2, <1>6 DEF Repeats, w

(* Byte by byte.                                                           *)
LEMMA OverlappingRepeats ==
  ASSUME Here, offset # 0, NEW m, NEW q \in Nat, Repeats(m, q), match >= lowPrefix,
         NEW d \in Nat \ {0}, NEW c \in Nat, d = c * offset, d <= q + offset,
         NEW n \in Nat, op + q + n <= oend + 64
  PROVE  Repeats(Overlapping(m, op + q, d, n), q + n)
<1> DEFINE bytes == [i \in 1 .. n |-> At(m, op + q - d + ((i - 1) % d))]
           w == Overlapping(m, op + q, d, n)
<1>1. PICK o \in Nat \ {0}, p \in Nat, z \in Nat : o = offset /\ p = op /\ z = oend
  BY DEF Here, Sizes
<1>2. Stays(w)
  <2>1. op + q \in Int /\ op + q >= op /\ Stays(m)
    BY <1>1 DEF Repeats
  <2> QED
    BY <2>1, OverlappingStays
<1>3. DOMAIN bytes = 1 .. n /\ w = Put(m, op + q, bytes) /\ op + q \in Nat
  BY <1>1 DEF Overlapping
<1>4. \A j \in 1 .. n : bytes[j] = At(m, op + q - d + ((j - 1) % d))
  OBVIOUS
<1> HIDE DEF bytes, w
<1>5. /\ \A j \in 0 .. n - 1 : At(w, (op + q) + j) = bytes[j + 1]
      /\ \A x \in Int : 0 - Len(prefix) <= x /\ x < op + q => At(w, x) = At(m, x)
  <2>1. PICK to \in Nat : to = op + q
    BY <1>3
  <2>2. to + n <= oend + 64 /\ DOMAIN m = DOMAIN mem /\ DOMAIN bytes = 1 .. n
        /\ w = Put(m, to, bytes)
    BY <1>1, <1>3, <2>1 DEF Repeats, Stays
  <2>3. ASSUME NEW j \in 0 .. n - 1 PROVE At(Put(m, to, bytes), to + j) = bytes[j + 1]
    <3>1. PICK y \in Int : y = to + j /\ to <= y /\ y < to + n /\ (y - to) + 1 = j + 1
      OBVIOUS
    <3>2. At(Put(m, to, bytes), y) = bytes[(y - to) + 1]
      BY <2>2, <3>1, PutNew
    <3> QED
      BY <3>1, <3>2
  <2>5. ASSUME NEW x \in Int, 0 - Len(prefix) <= x, x < to
        PROVE  At(Put(m, to, bytes), x) = At(m, x)
    BY <2>2, <2>5, PutOld
  <2>4. /\ \A j \in 0 .. n - 1 : At(w, to + j) = bytes[j + 1]
        /\ \A x \in Int : 0 - Len(prefix) <= x /\ x < to => At(w, x) = At(m, x)
    BY <2>2, <2>3, <2>5
  <2> QED
    BY <2>1, <2>4
<1>6. ASSUME NEW i \in 0 .. (q + n) - 1 PROVE At(w, op + i) = WinAt(match + (i % offset))
  <2>1. CASE i < q
    <3>1. i \in 0 .. q - 1 /\ op + i \in Int /\ 0 - Len(prefix) <= op + i /\ op + i < op + q
      BY <1>1, <2>1 DEF Here, Sizes
    <3>2. At(m, op + i) = WinAt(match + (i % offset))
      BY <3>1 DEF Repeats
    <3> QED
      BY <1>5, <3>1, <3>2
  <2>2. CASE ~(i < q)
    <3>1. PICK j \in Nat : j = i - q
      BY <2>2
    <3>2. PICK a \in Nat, r \in 0 .. d - 1 : a = j \div d /\ r = j % d /\ a * d + r = j
      BY ONLY j \in Nat, d \in Nat \ {0}, QuotientRemainder
    <3>3. PICK x \in Int : x = (q - d) + r
      OBVIOUS
    <3>4. PICK e \in Nat : e = (a + 1) * c
      OBVIOUS
    <3>5. e * o = a * d + d
      <4>1. d = c * o
        BY <1>1
      <4>2. ((a + 1) * c) * o = (a + 1) * (c * o)
        OBVIOUS
      <4>3. (a + 1) * d = a * d + d
        OBVIOUS
      <4> QED
        BY <3>4, <4>1, <4>2, <4>3
    <3>6. i \in Nat /\ 0 - offset <= x /\ x < q /\ i = x + e * offset
      <4>1. PICK u \in Int : u = a * d
        OBVIOUS
      <4>2. u + r = j /\ e * o = u + d
        BY <3>2, <3>5, <4>1
      <4>3. i \in Nat /\ 0 - o <= x /\ x < q /\ i = x + (u + d)
        <5>1. d <= q + o
          BY <1>1
        <5> QED
          BY <2>2, <3>1, <3>3, <4>2, <5>1
      <4> QED
        BY <1>1, <4>2, <4>3
    <3>7. j \in 0 .. n - 1 /\ (op + q) + j = op + i /\ j + 1 \in 1 .. n /\ (j + 1) - 1 = j
          /\ op + q - d + r = op + x
      BY <1>1, <2>2, <3>1, <3>3
    <3>8. bytes[j + 1] = At(m, op + q - d + r)
      BY <1>4, <3>2, <3>7
    <3>9. At(w, op + i) = At(m, op + x)
      BY <1>5, <3>7, <3>8
    <3> QED
      BY <3>6, <3>9, RepeatedByte
  <2> QED
    BY <2>1, <2>2
<1> QED
  BY <1>2, <1>6 DEF Repeats, w

LEMMA RepeatsLess ==
  ASSUME NEW m, NEW q \in Int, NEW k \in Int, k <= q, Repeats(m, q)
  PROVE  Repeats(m, k)
<1>1. \A i \in 0 .. k - 1 : i \in 0 .. q - 1
  OBVIOUS
<1> QED
  BY <1>1 DEF Repeats

(* Piece by piece.                                                         *)
LEMMA BuiltRepeats ==
  ASSUME Here, offset # 0, NEW m, NEW q \in Nat, Repeats(m, q), match >= lowPrefix,
         NEW d \in Nat, NEW e \in Nat, d = e * offset, NEW n \in Nat, n <= d, d <= q + offset,
         NEW c \in Nat, op + q + c * n <= oend + 64,
         NEW f, Built(f, c, m, op + q, op + q - d, n)
  PROVE  Repeats(f[c], q + c * n)
<1> DEFINE Bad == {k \in 0 .. c : ~Repeats(f[k], q + k * n)}
<1>1. SUFFICES ASSUME Bad # {} PROVE FALSE
  BY <1>1
<1>2. PICK k \in Bad : \A y \in Bad : k <= y
  <2>1. Bad \subseteq Nat
    OBVIOUS
  <2> HIDE DEF Bad
  <2> QED
    BY <1>1, <2>1, LeastNatural
<1>3. k # 0
  <2>1. f[0] = m
    BY DEF Built
  <2>2. 0 * n = 0 /\ q + 0 = q
    OBVIOUS
  <2> QED
    BY <1>2, <2>1, <2>2
<1>4. k - 1 \in 0 .. c /\ k \in Nat /\ k <= c /\ k - 1 \in Nat
  BY <1>2, <1>3
<1>5. Repeats(f[k - 1], q + (k - 1) * n)
  BY <1>2, <1>4
<1>6. f[k] = Copy(f[k - 1], op + q + (k - 1) * n, op + q - d + (k - 1) * n, n)
  BY <1>2, <1>3, <1>4 DEF Built
<1>7. PICK at \in Nat, last \in Nat, all \in Nat :
        /\ at = (k - 1) * n /\ last = k * n /\ all = c * n
        /\ last <= all /\ at + n = last
  <2>1. k * n <= c * n
    BY <1>4, ProductMono
  <2>2. (k - 1) * n + n = k * n /\ (k - 1) * n \in Nat /\ k * n \in Nat /\ c * n \in Nat
    BY <1>4
  <2> QED
    BY <2>1, <2>2
<1>8. PICK o \in Nat, p \in Nat, z \in Nat : o = offset /\ p = op /\ z = oend
  BY DEF Here, Sizes
<1>9. PICK x \in Nat : x = q + at
  OBVIOUS
<1>10. /\ op + x = op + q + at /\ op + x - d = op + q - d + at
       /\ d <= x + offset /\ op + x + n <= oend + 64
  <2>1. d <= q + o /\ p + q + all <= z + 64
    BY <1>7, <1>8
  <2>2. p + x = p + q + at /\ p + x - d = p + q - d + at /\ d <= x + o /\ p + x + n <= z + 64
    BY <1>7, <1>9, <2>1
  <2> QED
    BY <1>8, <2>2
<1>11. f[k] = Copy(f[k - 1], op + x, op + x - d, n) /\ Repeats(f[k - 1], x)
  BY <1>5, <1>6, <1>7, <1>9, <1>10
<1>12. Repeats(Copy(f[k - 1], op + x, op + x - d, n), x + n)
  BY <1>10, <1>11, CopyRepeats
<1>13. x + n = q + k * n
  BY <1>7, <1>9
<1> QED
  BY <1>2, <1>11, <1>12, <1>13

(* As many pieces as are needed.                                           *)
LEMMA PiecesCover ==
  ASSUME NEW n \in Int, NEW w \in Nat \ {0}
  PROVE  /\ Pieces(n, w) \div w \in Nat /\ (Pieces(n, w) \div w) * w = Pieces(n, w)
         /\ n <= Pieces(n, w)
<1>1. CASE n <= 0
  <2>1. w = 1 * w + 0 /\ 0 \in 0 .. w - 1 /\ w \in Nat
    OBVIOUS
  <2>2. w \div w = 1
    BY <2>1, RemainderUnique
  <2> QED
    BY <1>1, <2>1, <2>2 DEF Pieces
<1>2. CASE ~(n <= 0)
  <2>1. PICK a \in Nat : a = (n + w) - 1
    BY <1>2
  <2>2. PICK t \in Nat, r \in 0 .. w - 1 : t = a \div w /\ t * w + r = a
    BY QuotientRemainder
  <2>3. PICK P \in Nat : P = t * w
    OBVIOUS
  <2>4. Pieces(n, w) = P
    <3>1. n + w - 1 = a
      BY <2>1
    <3> QED
      BY <1>2, <2>2, <2>3, <3>1 DEF Pieces
  <2>5. P \div w = t
    <3>1. P = t * w + 0 /\ 0 \in 0 .. w - 1
      BY <2>3
    <3> QED
      BY ONLY <3>1, P \in Nat, t \in Nat, w \in Nat \ {0}, RemainderUnique
  <2>6. n <= P
    BY <2>1, <2>2, <2>3
  <2> QED
    BY <2>3, <2>4, <2>5, <2>6
<1> QED
  BY <1>1, <1>2

LEMMA CopyPiecesRepeats ==
  ASSUME Here, offset # 0, NEW m, NEW q \in Nat, Repeats(m, q), match >= lowPrefix,
         NEW d \in Nat, NEW e \in Nat, d = e * offset, NEW n \in Nat \ {0}, n <= d,
         d <= q + offset, NEW end \in Int, NEW to, to = op + q, NEW from, from = op + q - d,
         to + n <= oend + 64, end + n <= oend + 65, NEW k \in Int, op + k <= end
  PROVE  Repeats(CopyPieces(m, to, from, end, n), k)
<1>1. PICK p \in Nat, z \in Nat : p = op /\ z = oend
  BY DEF Here, Sizes
<1>2. PICK x \in Int : x = end - to
  BY <1>1
<1>3. PICK P \in Nat : /\ P = Pieces(x, n) /\ x <= P /\ P <= IF x <= 0 THEN n ELSE x + n - 1
                       /\ P \div n \in Nat /\ (P \div n) * n = P
  BY PiecesBound, PiecesCover
<1>4. PICK c \in Nat : c = P \div n /\ c * n = P
  BY <1>3
<1>5. p + q + P <= z + 64 /\ k <= q + P
  <2>1. x = end - (p + q) /\ (p + q) + n <= z + 64 /\ end + n <= z + 65 /\ p + k <= end
    BY <1>1, <1>2
  <2> QED
    BY <1>3, <2>1
<1>6. op + q + c * n <= oend + 64
  BY <1>1, <1>4, <1>5
<1> DEFINE f == CHOOSE g : Built(g, c, m, to, from, n)
<1>7. Built(f, c, m, to, from, n)
  BY CanBeBuilt
<1> HIDE DEF f
<1>8. Repeats(f[c], q + c * n)
  BY <1>6, <1>7, BuiltRepeats
<1>9. CopyPieces(m, to, from, end, n) = f[c]
  BY <1>2, <1>3, <1>4 DEF CopyPieces, Built, f
<1>10. Repeats(f[c], k)
  <2>1. q + c * n \in Int /\ k <= q + c * n
    BY <1>4, <1>5
  <2> QED
    BY <1>8, <2>1, RepeatsLess
<1> QED
  BY <1>9, <1>10

-----------------------------------------------------------------------------
(* The copies of the decoder: each repeats the match as far as it is long. *)
First8Right ==
  /\ Repeats(First8(mem).mem, 8)
  /\ \E d \in Nat, e \in Nat : /\ d = e * offset /\ 8 <= d /\ d <= 8 + offset
                               /\ First8(mem).from = op + 8 - d

LEMMA MemRepeats ==
  ASSUME Here
  PROVE  Repeats(mem, 0)
BY DEF Repeats, Stays

LEMMA First8Repeats ==
  ASSUME Here, offset # 0, match >= lowPrefix, op + 8 <= oend
  PROVE  First8Right
<1>1. PICK o \in Nat \ {0}, p \in Nat, z \in Nat : o = offset /\ p = op /\ z = oend
  BY DEF Here, Sizes
<1>2. match = p - o /\ op + 0 = op
  BY <1>1 DEF match
<1>3. CASE offset >= 8
  <2>1. First8(mem) = [mem |-> Copy(mem, op, match, 8), from |-> match + 8]
    BY <1>3 DEF First8
  <2>2. First8(mem).mem = Copy(mem, op, match, 8) /\ First8(mem).from = match + 8
    BY <2>1
  <2>3. o = 1 * o /\ 8 <= o /\ o <= 0 + o /\ p + 0 + 8 <= z + 64 /\ 0 + 8 = 8 /\ o <= 8 + o
    BY <1>1, <1>3
  <2>4. Repeats(Copy(mem, op + 0, op + 0 - o, 8), 0 + 8)
    <3>1. Repeats(mem, 0)
      BY MemRepeats
    <3>2. o = 1 * offset /\ o <= 0 + offset /\ op + 0 + 8 <= oend + 64 /\ 8 <= o
      BY <1>1, <2>3
    <3> QED
      BY <3>1, <3>2, CopyRepeats
  <2>5. op + 0 - o = match /\ match + 8 = op + 8 - o
    BY <1>1, <1>2
  <2>6. Repeats(Copy(mem, op, match, 8), 8)
    BY <1>2, <2>3, <2>4, <2>5
  <2> QED
    BY <1>1, <2>2, <2>3, <2>5, <2>6 DEF First8Right
<1>4. CASE ~(offset >= 8)
  <2> DEFINE four == Overlapping(mem, op, offset, 4)
  <2>1. PICK i \in Nat, c \in Int : i = inc32table[o + 1] /\ c = dec64table[o + 1]
    <3>1. o \in {1, 2, 3, 4, 5, 6, 7}
      BY <1>1, <1>4
    <3>2. inc32table[o + 1] \in Nat /\ dec64table[o + 1] \in Int
      BY <3>1 DEF inc32table, dec64table
    <3> QED
      BY <3>2
  <2>2. First8(mem) = [mem  |-> Copy(four, op + 4, match + i, 4), from |-> (match + i) - c]
    BY <1>1, <1>4, <2>1 DEF First8
  <2>3. First8(mem).mem = Copy(four, op + 4, match + i, 4) /\ First8(mem).from = (match + i) - c
    BY <2>2
  <2>4. Repeats(four, 4)
    <3>1. Repeats(mem, 0)
      BY MemRepeats
    <3>2. o = 1 * offset /\ o <= 0 + offset /\ op + 0 + 4 <= oend + 64
      BY <1>1
    <3>3. Repeats(Overlapping(mem, op + 0, o, 4), 0 + 4)
      BY <3>1, <3>2, OverlappingRepeats
    <3> QED
      BY <1>1, <1>2, <3>3
  <2> HIDE DEF four
  <2>5. PICK e \in Nat, h \in Nat :
          /\ (4 + o) - i = e * o /\ 4 <= (4 + o) - i /\ (4 + o) - i <= 4 + o
          /\ (8 + o) - (i - c) = h * o /\ 8 <= (8 + o) - (i - c) /\ (8 + o) - (i - c) <= 8 + o
    <3>1. o \in {1, 2, 3, 4, 5, 6, 7}
      BY <1>1, <1>4
    <3>2. CASE o = 1
      <4>1. i = 1 /\ c = 0
        BY <2>1, <3>2 DEF inc32table, dec64table
      <4>2. /\ (4 + o) - i = 4 * o /\ 4 <= (4 + o) - i /\ (4 + o) - i <= 4 + o
            /\ (8 + o) - (i - c) = 8 * o /\ 8 <= (8 + o) - (i - c)
            /\ (8 + o) - (i - c) <= 8 + o
        BY <3>2, <4>1
      <4>3. 4 \in Nat /\ 8 \in Nat
        OBVIOUS
      <4> QED
        BY ONLY <4>2, <4>3
    <3>3. CASE o = 2
      <4>1. i = 2 /\ c = 0
        BY <2>1, <3>3 DEF inc32table, dec64table
      <4>2. /\ (4 + o) - i = 2 * o /\ 4 <= (4 + o) - i /\ (4 + o) - i <= 4 + o
            /\ (8 + o) - (i - c) = 4 * o /\ 8 <= (8 + o) - (i - c)
            /\ (8 + o) - (i - c) <= 8 + o
        BY <3>3, <4>1
      <4>3. 2 \in Nat /\ 4 \in Nat
        OBVIOUS
      <4> QED
        BY ONLY <4>2, <4>3
    <3>4. CASE o = 3
      <4>1. i = 1 /\ c = -1
        BY <2>1, <3>4 DEF inc32table, dec64table
      <4>2. /\ (4 + o) - i = 2 * o /\ 4 <= (4 + o) - i /\ (4 + o) - i <= 4 + o
            /\ (8 + o) - (i - c) = 3 * o /\ 8 <= (8 + o) - (i - c)
            /\ (8 + o) - (i - c) <= 8 + o
        BY <3>4, <4>1
      <4>3. 2 \in Nat /\ 3 \in Nat
        OBVIOUS
      <4> QED
        BY ONLY <4>2, <4>3
    <3>5. CASE o = 4
      <4>1. i = 0 /\ c = -4
        BY <2>1, <3>5 DEF inc32table, dec64table
      <4>2. /\ (4 + o) - i = 2 * o /\ 4 <= (4 + o) - i /\ (4 + o) - i <= 4 + o
            /\ (8 + o) - (i - c) = 2 * o /\ 8 <= (8 + o) - (i - c)
            /\ (8 + o) - (i - c) <= 8 + o
        BY <3>5, <4>1
      <4>3. 2 \in Nat /\ 2 \in Nat
        OBVIOUS
      <4> QED
        BY ONLY <4>2, <4>3
    <3>6. CASE o = 5
      <4>1. i = 4 /\ c = 1
        BY <2>1, <3>6 DEF inc32table, dec64table
      <4>2. /\ (4 + o) - i = 1 * o /\ 4 <= (4 + o) - i /\ (4 + o) - i <= 4 + o
            /\ (8 + o) - (i - c) = 2 * o /\ 8 <= (8 + o) - (i - c)
            /\ (8 + o) - (i - c) <= 8 + o
        BY <3>6, <4>1
      <4>3. 1 \in Nat /\ 2 \in Nat
        OBVIOUS
      <4> QED
        BY ONLY <4>2, <4>3
    <3>7. CASE o = 6
      <4>1. i = 4 /\ c = 2
        BY <2>1, <3>7 DEF inc32table, dec64table
      <4>2. /\ (4 + o) - i = 1 * o /\ 4 <= (4 + o) - i /\ (4 + o) - i <= 4 + o
            /\ (8 + o) - (i - c) = 2 * o /\ 8 <= (8 + o) - (i - c)
            /\ (8 + o) - (i - c) <= 8 + o
        BY <3>7, <4>1
      <4>3. 1 \in Nat /\ 2 \in Nat
        OBVIOUS
      <4> QED
        BY ONLY <4>2, <4>3
    <3>8. CASE o = 7
      <4>1. i = 4 /\ c = 3
        BY <2>1, <3>8 DEF inc32table, dec64table
      <4>2. /\ (4 + o) - i = 1 * o /\ 4 <= (4 + o) - i /\ (4 + o) - i <= 4 + o
            /\ (8 + o) - (i - c) = 2 * o /\ 8 <= (8 + o) - (i - c)
            /\ (8 + o) - (i - c) <= 8 + o
        BY <3>8, <4>1
      <4>3. 1 \in Nat /\ 2 \in Nat
        OBVIOUS
      <4> QED
        BY ONLY <4>2, <4>3
    <3> QED
      BY <3>1, <3>2, <3>3, <3>4, <3>5, <3>6, <3>7, <3>8
  <2>10. PICK d \in Nat, g \in Nat : d = (4 + o) - i /\ g = (8 + o) - (i - c)
    BY <2>5
  <2>6. match + i = op + 4 - d /\ (match + i) - c = op + 8 - g /\ 4 + 4 = 8
    BY <1>1, <1>2, <2>5, <2>10
  <2>7. Repeats(Copy(four, op + 4, op + 4 - d, 4), 4 + 4)
    <3>1. d = e * offset /\ d <= 4 + offset /\ op + 4 + 4 <= oend + 64
      BY <1>1, <2>5, <2>10
    <3> QED
      BY <2>4, <2>5, <2>10, <3>1, CopyRepeats
  <2>8. Repeats(First8(mem).mem, 8)
    BY <2>3, <2>6, <2>7
  <2>9. First8(mem).from = op + 8 - g
    BY <2>3, <2>6
  <2> QED
    BY <1>1, <2>5, <2>8, <2>9, <2>10 DEF First8Right
<1> QED
  BY <1>3, <1>4

LEMMA ThreePiecesRepeat ==
  ASSUME Here, offset >= 8, match >= lowPrefix, op + 18 <= oend
  PROVE  Repeats(ThreePieces, 18)
<1>1. PICK o \in Nat \ {0}, p \in Nat, z \in Nat : o = offset /\ p = op /\ z = oend /\ o >= 8
  BY DEF Here, Sizes
<1>2. match = p - o
  BY <1>1 DEF match
<1>3. /\ o = 1 * offset /\ offset # 0 /\ o <= 0 + offset /\ o <= 8 + offset /\ o <= 16 + offset
      /\ op + 0 + 8 <= oend + 64 /\ op + 8 + 8 <= oend + 64 /\ op + 16 + 2 <= oend + 64
      /\ 8 <= o /\ 2 <= o
  BY <1>1
<1>4. /\ op + 0 = op /\ op + 0 - o = match /\ op + 8 - o = match + 8 /\ op + 16 - o = match + 16
      /\ 0 + 8 = 8 /\ 8 + 8 = 16 /\ 16 + 2 = 18
  BY <1>1, <1>2
<1> DEFINE one == Copy(mem, op, match, 8)
           two == Copy(one, op + 8, match + 8, 8)
<1>5. Repeats(one, 8)
  <2>1. Repeats(Copy(mem, op + 0, op + 0 - o, 8), 0 + 8)
    BY <1>3, MemRepeats, CopyRepeats
  <2> QED
    BY <1>4, <2>1
<1>6. Repeats(two, 16)
  <2> HIDE DEF one
  <2>1. Repeats(Copy(one, op + 8, op + 8 - o, 8), 8 + 8)
    BY <1>3, <1>5, CopyRepeats
  <2> QED
    BY <1>4, <2>1 DEF one
<1>7. Repeats(Copy(two, op + 16, match + 16, 2), 18)
  <2> HIDE DEF two
  <2>1. Repeats(Copy(two, op + 16, op + 16 - o, 2), 16 + 2)
    BY <1>3, <1>6, CopyRepeats
  <2> QED
    BY <1>4, <2>1
<1> QED
  BY <1>7 DEF ThreePieces

LEMMA WildCopy8Repeats ==
  ASSUME Here, offset # 0, NEW m, NEW q \in Nat, Repeats(m, q), match >= lowPrefix,
         NEW d \in Nat, NEW e \in Nat, d = e * offset, 8 <= d, d <= q + offset,
         NEW end \in Int, NEW to, to = op + q, NEW from, from = op + q - d,
         to + 8 <= oend + 64, end + 8 <= oend + 65, NEW k \in Int, op + k <= end
  PROVE  Repeats(WildCopy8(m, to, from, end), k)
<1>1. WildCopy8(m, to, from, end) = CopyPieces(m, to, from, end, 8)
  BY SafeDecoderAssumption DEF WildCopy8
<1>2. 8 \in Nat \ {0}
  OBVIOUS
<1>3. Repeats(CopyPieces(m, to, from, end, 8), k)
  BY <1>2, CopyPiecesRepeats
<1> QED
  BY <1>1, <1>3

LEMMA WildCopy32Repeats ==
  ASSUME Here, offset >= 16, match >= lowPrefix, NEW n \in Nat, op + n + 64 <= oend
  PROVE  Repeats(WildCopy32(mem, op, match, op + n), n)
<1>1. PICK o \in Nat \ {0}, p \in Nat, z \in Nat : o = offset /\ p = op /\ z = oend /\ o >= 16
  BY DEF Here, Sizes
<1>2. match = p - o
  BY <1>1 DEF match
<1>3. PICK P \in Nat : P = Pieces(n, 32) /\ n <= P /\ P <= IF n <= 0 THEN 32 ELSE n + 32 - 1
  <2>1. PICK x \in Int, w \in Nat \ {0} : x = n /\ w = 32
    OBVIOUS
  <2>2. Pieces(x, w) \in Nat /\ x <= Pieces(x, w) /\ Pieces(x, w) <= IF x <= 0 THEN w ELSE x + w - 1
    BY PiecesBound, PiecesCover
  <2> QED
    BY <2>1, <2>2
<1>4. (op + n) - op = n
  BY <1>1
<1>5. WildCopy32(mem, op, match, op + n) = CopyPieces(mem, op, match, op + P, 16)
  BY <1>3, <1>4 DEF WildCopy32
<1>6. /\ o = 1 * offset /\ offset # 0 /\ 16 <= o /\ o <= 0 + offset
      /\ op = op + 0 /\ match = op + 0 - o /\ op + 16 <= oend + 64
      /\ (op + P) + 16 <= oend + 65 /\ op + n <= op + P /\ op + P \in Int
  BY <1>1, <1>2, <1>3
<1>7. Repeats(mem, 0) /\ 16 \in Nat \ {0}
  BY MemRepeats
<1>8. PICK end \in Int, d \in Nat : end = op + P /\ d = o
  BY <1>6
<1>10. PICK to, from : to = op /\ from = match
  OBVIOUS
<1>9. Repeats(CopyPieces(mem, to, from, end, 16), n)
  <2>1. /\ d = 1 * offset /\ offset # 0 /\ 16 <= d /\ d <= 0 + offset
        /\ to = op + 0 /\ from = op + 0 - d /\ to + 16 <= oend + 64
        /\ end + 16 <= oend + 65 /\ op + n <= end
    BY <1>6, <1>8, <1>10
  <2> QED
    BY <1>7, <2>1, CopyPiecesRepeats
<1> QED
  BY <1>5, <1>8, <1>9, <1>10

LEMMA CopyUsingOffsetRepeats ==
  ASSUME Here, offset # 0, match >= lowPrefix, NEW n \in Nat, op + n + 64 <= oend
  PROVE  Repeats(CopyUsingOffset(mem, op + n), n)
<1>1. PICK o \in Nat \ {0}, p \in Nat, z \in Nat :
        o = offset /\ p = op /\ z = oend /\ p + n + 64 <= z
  BY DEF Here, Sizes
<1>2. CASE offset \in {1, 2, 4}
  <2>1. (op + n) - op = n
    BY <1>1
  <2>2. PICK P \in Nat : P = Pieces(n, 8) /\ n <= P /\ P <= IF n <= 0 THEN 8 ELSE n + 8 - 1
    <3>1. PICK x \in Int, w \in Nat \ {0} : x = n /\ w = 8
      OBVIOUS
    <3>2. Pieces(x, w) \in Nat /\ x <= Pieces(x, w) /\ Pieces(x, w) <= IF x <= 0 THEN w ELSE x + w - 1
      BY PiecesBound, PiecesCover
    <3> QED
      BY <3>1, <3>2
  <2>3. CopyUsingOffset(mem, op + n) = Overlapping(mem, op, o, P)
    BY <1>1, <1>2, <2>1, <2>2 DEF CopyUsingOffset
  <2>4. o = 1 * offset /\ o <= 0 + offset /\ op + 0 + P <= oend + 64 /\ op + 0 = op /\ 0 + P = P
    BY <1>1, <2>2
  <2>5. Repeats(Overlapping(mem, op + 0, o, P), 0 + P)
    BY <2>4, MemRepeats, OverlappingRepeats
  <2> QED
    BY <2>2, <2>3, <2>4, <2>5, RepeatsLess
<1>3. CASE offset \notin {1, 2, 4}
  <2> DEFINE first == First8(mem)
  <2>1. First8Right
    BY <1>1, First8Repeats
  <2>2. PICK d \in Nat, e \in Nat : /\ d = e * offset /\ 8 <= d /\ d <= 8 + offset
                                    /\ first.from = op + 8 - d
    BY <2>1 DEF First8Right
  <2>3. Repeats(first.mem, 8)
    BY <2>1 DEF First8Right
  <2>4. CopyUsingOffset(mem, op + n) = WildCopy8(first.mem, op + 8, first.from, op + n)
    BY <1>3 DEF CopyUsingOffset
  <2> HIDE DEF first
  <2>5. PICK end \in Int : end = op + n
    BY <1>1
  <2>8. PICK to, from, m : to = op + 8 /\ from = first.from /\ m = first.mem
    OBVIOUS
  <2>6. to + 8 <= oend + 64 /\ end + 8 <= oend + 65 /\ op + n <= end
    BY <1>1, <2>5, <2>8
  <2>7. Repeats(WildCopy8(m, to, from, end), n)
    BY <2>2, <2>3, <2>5, <2>6, <2>8, WildCopy8Repeats
  <2> QED
    BY <2>4, <2>5, <2>7, <2>8
<1> QED
  BY <1>2, <1>3

LEMMA ToTheEndRepeats ==
  ASSUME Here, offset # 0, match >= lowPrefix, length \in Nat, op + 8 <= oend,
         op + length <= oend
  PROVE  Repeats(ToTheEnd(First8(mem)), length)
<1> DEFINE first == First8(mem)
           until == oend - (WILDCOPYLENGTH - 1)
           at    == IF op + 8 < until THEN until ELSE op + 8
           m     == IF op + 8 < until THEN WildCopy8(first.mem, op + 8, first.from, until)
                    ELSE first.mem
<1>1. PICK o \in Nat \ {0}, p \in Nat, z \in Nat, n \in Nat :
        /\ o = offset /\ p = op /\ z = oend /\ n = length
        /\ p + 8 <= z /\ p + n <= z
  BY DEF Here, Sizes
<1>2. ToTheEnd(first) = Overlapping(m, at, op + 8 - first.from, op + length - at)
  BY DEF ToTheEnd
<1>3. First8Right
  BY First8Repeats
<1>4. PICK d \in Nat, e \in Nat : /\ d = e * offset /\ 8 <= d /\ d <= 8 + offset
                                  /\ first.from = op + 8 - d
  BY <1>3 DEF First8Right
<1>5. Repeats(first.mem, 8)
  BY <1>3 DEF First8Right
<1> HIDE DEF first
<1>6. until = z - 7
  BY <1>1, FormatNumbers
<1>7. PICK q \in Nat : q >= 8 /\ at = op + q /\ Repeats(m, q) /\ p + q <= z
  <2>1. CASE op + 8 < until
    <3>1. PICK q \in Nat : q = (z - 7) - p
      BY <1>1, <1>6, <2>1
    <3>2. q >= 8 /\ at = op + q /\ p + q <= z
      BY <1>1, <1>6, <2>1, <3>1
    <3>3. PICK end \in Int : end = until
      BY <1>6
    <3>6. PICK to, from, w : to = op + 8 /\ from = first.from /\ w = first.mem
      OBVIOUS
    <3>4. to + 8 <= oend + 64 /\ end + 8 <= oend + 65 /\ op + q <= end
      BY <1>1, <1>6, <3>1, <3>3, <3>6
    <3>5. Repeats(WildCopy8(w, to, from, end), q)
      BY <1>4, <1>5, <3>3, <3>4, <3>6, WildCopy8Repeats
    <3> QED
      BY <2>1, <3>2, <3>3, <3>5, <3>6
  <2>2. CASE ~(op + 8 < until)
    BY <1>1, <1>5, <2>2
  <2> QED
    BY <2>1, <2>2
<1> HIDE DEF until, at, m
<1>8. op + 8 - first.from = d
  BY <1>1, <1>4
<1>9. PICK k \in Int : k = n - q /\ op + length - at = k
  BY <1>1, <1>7
<1>10. ToTheEnd(first) = Overlapping(m, op + q, d, k)
  BY <1>2, <1>7, <1>8, <1>9
<1>11. d \in Nat \ {0} /\ d <= q + offset
  BY <1>1, <1>4, <1>7
<1>12. CASE k >= 0
  <2>1. k \in Nat /\ op + q + k <= oend + 64 /\ q + k = length
    BY <1>1, <1>7, <1>9, <1>12
  <2>2. Repeats(Overlapping(m, op + q, d, k), q + k)
    BY <1>4, <1>7, <1>11, <2>1, OverlappingRepeats
  <2> QED
    BY <1>10, <2>1, <2>2 DEF first
<1>13. CASE ~(k >= 0)
  <2>1. [i \in 1 .. k |-> At(m, op + q - d + ((i - 1) % d))]
          = [i \in 1 .. 0 |-> At(m, op + q - d + ((i - 1) % d))]
    <3>1. 1 .. k = {} /\ 1 .. 0 = {}
      BY <1>13
    <3> QED
      BY <3>1
  <2>2. Overlapping(m, op + q, d, k) = Overlapping(m, op + q, d, 0)
    BY <2>1 DEF Overlapping
  <2>3. op + q + 0 <= oend + 64 /\ q + 0 = q /\ length <= q
    BY <1>1, <1>7, <1>9, <1>13
  <2>4. Repeats(Overlapping(m, op + q, d, 0), q + 0)
    BY <1>4, <1>7, <1>11, <2>3, OverlappingRepeats
  <2>5. Repeats(Overlapping(m, op + q, d, 0), length)
    BY <2>3, <2>4, RepeatsLess
  <2> QED
    BY <1>10, <2>2, <2>5 DEF first
<1> QED
  BY <1>12, <1>13

LEMMA FarFromEndRepeats ==
  ASSUME Here, offset # 0, match >= lowPrefix, length \in Nat, op + 12 <= oend,
         op + length + 12 <= oend
  PROVE  Repeats(FarFromEnd(First8(mem)), length)
<1> DEFINE first == First8(mem)
           m == Copy(first.mem, op + 8, first.from, 8)
<1>1. PICK o \in Nat \ {0}, p \in Nat, z \in Nat, n \in Nat :
        /\ o = offset /\ p = op /\ z = oend /\ n = length
        /\ p + 12 <= z /\ p + n + 12 <= z
  BY DEF Here, Sizes
<1>2. op + 8 <= oend
  BY <1>1
<1>3. First8Right
  BY <1>2, First8Repeats
<1>4. PICK d \in Nat, e \in Nat : /\ d = e * offset /\ 8 <= d /\ d <= 8 + offset
                                  /\ first.from = op + 8 - d
  BY <1>3 DEF First8Right
<1>5. Repeats(first.mem, 8)
  BY <1>3 DEF First8Right
<1>6. FarFromEnd(first) =
        IF length > 16 THEN WildCopy8(m, op + 16, first.from + 8, op + length) ELSE m
  BY DEF FarFromEnd
<1> HIDE DEF first
<1>7. Repeats(m, 16)
  <2>1. Repeats(Copy(first.mem, op + 8, op + 8 - d, 8), 8 + 8)
    <3>1. op + 8 + 8 <= oend + 64
      BY <1>1
    <3> QED
      BY <1>4, <1>5, <3>1, CopyRepeats
  <2>2. 8 + 8 = 16
    OBVIOUS
  <2> QED
    BY <1>4, <2>1, <2>2
<1> HIDE DEF m
<1>8. CASE length > 16
  <2>1. PICK end \in Int : end = op + length
    BY <1>1
  <2>4. PICK to, from : to = op + 16 /\ from = first.from + 8
    OBVIOUS
  <2>2. /\ to + 8 <= oend + 64 /\ end + 8 <= oend + 65 /\ op + length <= end
        /\ from = op + 16 - d /\ d <= 16 + offset
    BY <1>1, <1>4, <2>1, <2>4
  <2>3. Repeats(WildCopy8(m, to, from, end), length)
    BY <1>4, <1>7, <2>1, <2>2, <2>4, WildCopy8Repeats
  <2> QED
    BY <1>6, <1>8, <2>1, <2>3, <2>4 DEF first
<1>9. CASE ~(length > 16)
  <2>1. length <= 16
    BY <1>1, <1>9
  <2>2. Repeats(m, length)
    BY <1>7, <2>1, RepeatsLess
  <2> QED
    BY <1>6, <1>9, <2>2 DEF first
<1> QED
  BY <1>8, <1>9

-----------------------------------------------------------------------------
(* A match that begins in the external dictionary.                         *)
LEMMA ExtByte ==
  ASSUME Here, Given, NEW m, DOMAIN m = DOMAIN mem, match < lowPrefix,
         NEW n \in Nat, n <= lowPrefix - match, op + n <= oend + 64,
         NEW bytes, DOMAIN bytes = 1 .. n,
         \A j \in 1 .. n : bytes[j] = ext[(Len(ext) - (lowPrefix - match)) + j],
         NEW y \in Int, op <= y, y < op + n, NEW x \in Int, x = match + (y - op)
  PROVE  At(Put(m, op, bytes), y) = WinAt(x)
<1>1. PICK e \in Nat, p \in Nat, l \in Int, q \in Int :
        e = Len(ext) /\ p = op /\ l = lowPrefix /\ q = match
  <2>1. Len(ext) \in Nat
    BY DEF Given
  <2>2. op \in Nat /\ offset \in Nat /\ Len(prefix) \in Nat
    BY DEF Here, Sizes
  <2>3. lowPrefix \in Int
    BY <2>2 DEF lowPrefix
  <2>4. match \in Int
    BY <2>2 DEF match
  <2> QED
    BY <2>1, <2>2, <2>3, <2>4
<1>2. op \in Nat
  BY <1>1
<1>3. At(Put(m, op, bytes), y) = bytes[(y - op) + 1]
  BY ONLY Here, DOMAIN m = DOMAIN mem, op + n <= oend + 64, n \in Nat, y \in Int, op <= y,
          y < op + n, DOMAIN bytes = 1 .. n, <1>2, PutNew
<1>4. PICK j \in 1 .. n : j = (y - op) + 1
  BY <1>1
<1>5. bytes[j] = ext[(e - (l - q)) + j]
  BY <1>1
<1>6. ~(x >= l) /\ e + (x - l) + 1 = (e - (l - q)) + j
  BY <1>1, <1>4
<1>7. WinAt(x) = ext[e + (x - l) + 1]
  BY <1>1, <1>6 DEF WinAt
<1> QED
  BY <1>3, <1>4, <1>5, <1>6, <1>7

LEMMA ExtPart ==
  ASSUME Given, NEW k \in Nat, k <= Len(ext), NEW n \in Nat, n <= k, NEW bytes,
         bytes = SubSeq(ext, Len(ext) - k + 1, Len(ext) - k + n)
  PROVE  DOMAIN bytes = 1 .. n /\ \A j \in 1 .. n : bytes[j] = ext[(Len(ext) - k) + j]
<1>1. PICK e \in Nat : e = Len(ext)
  BY DEF Given
<1>2. PICK a \in Nat : a = e - k /\ a + n <= Len(ext)
  <2>1. e - k \in Nat /\ (e - k) + n <= e
    BY <1>1
  <2> QED
    BY <1>1, <2>1
<1>3. bytes = SubSeq(ext, a + 1, a + n)
  BY <1>1, <1>2
<1>4. ext \in Seq(U8) /\ a + n <= Len(ext)
  BY <1>2 DEF Given
<1>5. LET t == SubSeq(ext, a + 1, a + n)
      IN  t \in Seq(U8) /\ Len(t) = n /\ \A j \in 1 .. n : t[j] = ext[a + j]
  BY ONLY <1>4, a \in Nat, n \in Nat, PartIs
<1>6. bytes \in Seq(U8) /\ Len(bytes) = n /\ \A j \in 1 .. n : bytes[j] = ext[a + j]
  BY <1>3, <1>5
<1> QED
  BY <1>1, <1>2, <1>6

LEMMA FromExtRepeats ==
  ASSUME Here, Given, match < lowPrefix, lowPrefix - match <= Len(ext),
         NEW n \in Nat, op + n <= oend
  PROVE  Repeats(FromExt(n), n)
<1>1. PICK k \in Nat \ {0}, p \in Nat, o \in Nat \ {0}, l \in Nat, z \in Nat, e \in Nat :
        /\ k = lowPrefix - match /\ p = op /\ o = offset /\ l = Len(prefix) /\ z = oend
        /\ e = Len(ext) /\ k = o - (p + l)
  <2>0. PICK k, p, o, l, z, e :
          /\ k = lowPrefix - match /\ p = op /\ o = offset /\ l = Len(prefix) /\ z = oend
          /\ e = Len(ext)
    OBVIOUS
  <2>1. op \in Nat /\ offset \in Nat /\ Len(prefix) \in Nat /\ oend \in Nat /\ Len(ext) \in Nat
    BY DEF Here, Sizes, Given
  <2>2. lowPrefix = 0 - l /\ match = p - o
    BY <2>0 DEF lowPrefix, match
  <2>3. p \in Nat /\ o \in Nat /\ l \in Nat /\ z \in Nat /\ e \in Nat
    BY <2>0, <2>1
  <2>4. k = o - (p + l) /\ k > 0 /\ o > 0
    <3>1. p - o < 0 - l /\ k = (0 - l) - (p - o)
      BY <2>0, <2>2
    <3> QED
      BY ONLY <2>3, <3>1
  <2>5. k \in Nat \ {0} /\ o \in Nat \ {0}
    BY <2>3, <2>4
  <2> QED
    BY <2>0, <2>3, <2>4, <2>5
<1>2. k <= o /\ p + n <= z /\ k <= e
  BY <1>1
<1>3. Stays(mem) /\ DOMAIN mem = DOMAIN mem
  BY DEF Stays
<1>4. CASE n <= k
  <2> DEFINE first == SubSeq(ext, Len(ext) - k + 1, Len(ext) - k + n)
             m == Put(mem, op, first)
  <2>1. FromExt(n) = m
    BY <1>1, <1>4 DEF FromExt
  <2> HIDE DEF first
  <2>2. op + n <= oend + 64 /\ n <= lowPrefix - match
    BY <1>1, <1>2, <1>4
  <2>4. DOMAIN first = 1 .. n /\ \A j \in 1 .. n : first[j] = ext[(Len(ext) - k) + j]
    <3>1. k <= Len(ext) /\ k \in Nat
      BY <1>1, <1>2
    <3> QED
      BY ONLY Given, <1>4, <3>1, n \in Nat, ExtPart DEF first
  <2>3. ASSUME NEW i \in 0 .. n - 1 PROVE At(m, op + i) = WinAt(match + (i % offset))
    <3>1. i \in Nat /\ i < n /\ i \in 0 .. o - 1
      BY <1>2, <1>4
    <3>2. i % offset = i
      <4>1. i = 0 * o + i /\ 0 \in Nat
        BY <1>1
      <4>2. i % o = i
        BY ONLY <3>1, <4>1, o \in Nat \ {0}, RemainderUnique
      <4> QED
        BY <1>1, <4>2
    <3>3. At(m, op + i) = WinAt(match + i)
      <4>2. PICK y \in Int, x \in Int : y = op + i /\ x = match + i
        BY <1>1 DEF match
      <4>3. x = match + (y - op) /\ op <= y /\ y < op + n
        BY <1>1, <3>1, <4>2
      <4>4. \A j \in 1 .. n : first[j] = ext[(Len(ext) - (lowPrefix - match)) + j]
        BY <1>1, <2>4
      <4>5. At(Put(mem, op, first), y) = WinAt(x)
        BY ONLY Here, Given, match < lowPrefix, <2>2, <2>4, <4>3, <4>4, y \in Int, x \in Int,
                n \in Nat, ExtByte
      <4> QED
        BY <4>2, <4>5
    <3> QED
      BY <3>2, <3>3
  <2>5. DOMAIN first \subseteq Nat \ {0}
    BY <2>4
  <2>6. Stays(m)
    <3>1. op \in Int /\ op >= op
      BY <1>1
    <3> QED
      BY <1>3, <2>5, <3>1, PutStays
  <2> HIDE DEF m
  <2> QED
    BY <2>1, <2>3, <2>6 DEF Repeats
<1>5. CASE ~(n <= k)
  <2> DEFINE first == SubSeq(ext, Len(ext) - k + 1, Len(ext) - k + k)
             m == Put(mem, op, first)
             b == [i \in 1 .. n - k |->
                    At(m, (op + k) - (op + k - lowPrefix) + ((i - 1) % (op + k - lowPrefix)))]
             w == Put(m, op + k, b)
  <2>0. Len(ext) - k + k = Len(ext) /\ op + k - lowPrefix = o /\ lowPrefix = 0 - l
    BY <1>1 DEF lowPrefix
  <2>1. FromExt(n) = w
    BY <1>1, <1>5, <2>0 DEF FromExt, Overlapping
  <2> HIDE DEF first
  <2>2. op + k <= oend + 64 /\ k <= lowPrefix - match
    BY <1>1, <1>2, <1>5
  <2>4. DOMAIN first = 1 .. k /\ \A j \in 1 .. k : first[j] = ext[(Len(ext) - k) + j]
    <3>1. k <= Len(ext) /\ k \in Nat /\ k <= k
      BY <1>1, <1>2
    <3> QED
      BY ONLY Given, <3>1, ExtPart DEF first
  <2>3. ASSUME NEW i \in Nat, i < k PROVE At(m, op + i) = WinAt(match + i)
    <3>1. PICK y \in Int, x \in Int : y = op + i /\ x = match + i
      BY <1>1 DEF match
    <3>2. x = match + (y - op) /\ op <= y /\ y < op + k
      BY <1>1, <2>3, <3>1
    <3>3. \A j \in 1 .. k : first[j] = ext[(Len(ext) - (lowPrefix - match)) + j]
      BY <1>1, <2>4
    <3>4. At(Put(mem, op, first), y) = WinAt(x)
      BY ONLY Here, Given, match < lowPrefix, <2>2, <2>4, <3>2, <3>3, y \in Int, x \in Int,
              k \in Nat, ExtByte
    <3> QED
      BY <3>1, <3>4
  <2>5. Stays(m)
    <3>1. op \in Int /\ op >= op /\ DOMAIN first \subseteq Nat \ {0}
      BY <1>1, <2>4
    <3> QED
      BY <1>3, <3>1, PutStays
  <2> HIDE DEF m
  <2>6. DOMAIN b = 1 .. n - k
    OBVIOUS
  <2>7. ASSUME NEW j \in 0 .. (n - k) - 1 PROVE b[j + 1] = At(m, (0 - l) + (j % o))
    <3>1. j + 1 \in 1 .. n - k /\ (j + 1) - 1 = j
      BY <1>1
    <3>2. b[j + 1] = At(m, (op + k) - o + (j % o))
      BY <2>0, <3>1
    <3>3. (op + k) - o = 0 - l
      BY <1>1
    <3> QED
      BY <3>2, <3>3
  <2> HIDE DEF b
  <2>8. Stays(w)
    <3>1. op + k \in Int /\ op + k >= op /\ DOMAIN b \subseteq Nat \ {0}
      BY <1>1, <2>6
    <3> QED
      BY <2>5, <3>1, PutStays
  <2>9. PICK to \in Nat, c \in Nat : to = op + k /\ c = n - k
    BY <1>1, <1>5
  <2>10. /\ DOMAIN m = DOMAIN mem /\ DOMAIN b = 1 .. c /\ to + c <= oend + 64
         /\ w = Put(m, to, b)
    <3>1. to + c <= oend + 64
      BY <1>1, <1>2, <2>9
    <3> QED
      BY <2>5, <2>6, <2>9, <3>1 DEF Stays
  <2>11. ASSUME NEW i \in 0 .. n - 1 PROVE At(w, op + i) = WinAt(match + (i % offset))
    <3>1. PICK y \in Int : y = op + i /\ y = p + i
      BY <1>1
    <3>2. CASE i < k
      <4>1. 0 - Len(prefix) <= y /\ y < to
        BY <1>1, <2>9, <3>1, <3>2
      <4>2. At(Put(m, to, b), y) = At(m, y)
        BY <2>10, <4>1, PutOld
      <4>3. At(m, op + i) = WinAt(match + i)
        BY <2>3, <3>2
      <4>4. i % o = i
        <5>1. i = 0 * o + i /\ 0 \in Nat /\ i \in Nat /\ i \in 0 .. o - 1
          BY <1>2, <3>2
        <5> QED
          BY ONLY <5>1, o \in Nat \ {0}, RemainderUnique
      <4> QED
        BY <1>1, <2>10, <3>1, <4>2, <4>3, <4>4
    <3>3. CASE ~(i < k)
      <4>1. PICK j \in Nat : j = i - k
        BY <1>1, <3>3
      <4>2. to <= y /\ y < to + c /\ (y - to) + 1 = j + 1 /\ j \in 0 .. (n - k) - 1
        <5>1. to = p + k /\ c = n - k /\ y = p + i /\ j = i - k /\ i >= k
          <6>1. to = p + k /\ c = n - k
            BY <1>1, <2>9
          <6>2. y = p + i /\ j = i - k
            BY <3>1, <4>1
          <6>3. i >= k
            BY <1>1, <3>3
          <6> QED
            BY <6>1, <6>2, <6>3
        <5>2. i <= n - 1
          OBVIOUS
        <5> QED
          BY ONLY <5>1, <5>2, i \in Nat, p \in Nat, k \in Nat, n \in Nat, j \in Nat,
                  c \in Nat, to \in Nat, y \in Int
      <4>3. At(w, y) = b[j + 1]
        BY <2>10, <4>2, PutNew
      <4>4. PICK a \in Nat, r \in 0 .. o - 1 : a = j \div o /\ r = j % o /\ a * o + r = j
        BY ONLY j \in Nat, o \in Nat \ {0}, QuotientRemainder
      <4>5. At(w, y) = At(m, (0 - l) + r)
        BY <2>7, <4>2, <4>3, <4>4
      <4>6. CASE k + r < o
        <5>1. i % o = k + r
          <6>1. i = a * o + (k + r) /\ i \in Nat /\ k + r \in 0 .. o - 1
            <7>1. PICK u \in Int : u = a * o
              OBVIOUS
            <7>2. u + r = j /\ j = i - k
              BY <4>1, <4>4, <7>1
            <7>3. i = u + (k + r)
              BY ONLY <7>2, u \in Int, r \in 0 .. o - 1, j \in Nat, i \in 0 .. n - 1, k \in Nat \ {0}, n \in Nat, o \in Nat \ {0}
            <7>4. k + r \in 0 .. o - 1
              BY ONLY <4>6, r \in 0 .. o - 1, k \in Nat \ {0}, o \in Nat \ {0}
            <7> QED
              BY <7>1, <7>3, <7>4
          <6>2. PICK s \in 0 .. o - 1 : s = k + r
            BY <6>1
          <6>3. i = a * o + s /\ i \in Nat
            BY <6>1, <6>2
          <6>4. i % o = s
            BY ONLY <6>3, s \in 0 .. o - 1, a \in Nat, o \in Nat \ {0}, RemainderUnique
          <6> QED
            BY <6>2, <6>4
        <5>2. PICK x \in Int : x = (0 - l) + r
          OBVIOUS
        <5>3. 0 - Len(prefix) <= x /\ x < op /\ match + (k + r) = x /\ x >= lowPrefix
          <6>1. lowPrefix = 0 - l /\ match = p - o /\ Len(prefix) = l /\ op = p
            BY <1>1, <2>0 DEF match
          <6>2. 0 - l <= x /\ x < p /\ (p - o) + (k + r) = x
            <7>1. k = o - (p + l)
              BY <1>1
            <7> QED
              BY ONLY <4>6, <5>2, <7>1, p \in Nat, k \in Nat \ {0}, o \in Nat \ {0}, l \in Nat,
                      r \in 0 .. o - 1, x \in Int
          <6> QED
            BY <6>1, <6>2
        <5>4. At(m, x) = At(mem, x)
          BY <2>5, <5>3, StaysAt
        <5>5. WinAt(x) = At(mem, x)
          BY <5>3 DEF WinAt
        <5> QED
          BY <1>1, <3>1, <4>5, <5>1, <5>2, <5>3, <5>4, <5>5
      <4>7. CASE ~(k + r < o)
        <5>1. PICK s \in Nat : s = (k + r) - o /\ s < k /\ s \in 0 .. o - 1
          <6>1. (k + r) - o \in Nat /\ (k + r) - o < k /\ (k + r) - o \in 0 .. o - 1
            BY ONLY <4>7, <1>2, k \in Nat \ {0}, o \in Nat \ {0}, r \in 0 .. o - 1
          <6> QED
            BY <6>1
        <5>2. i % o = s
          <6>1. PICK u \in Int, v \in Int : u = a * o /\ v = (a + 1) * o /\ v = u + o
            OBVIOUS
          <6>2. u + r = j /\ j = i - k
            BY <4>1, <4>4, <6>1
          <6>3. i = v + s
            BY ONLY <5>1, <6>1, <6>2, u \in Int, v \in Int, r \in 0 .. o - 1, j \in Nat, i \in 0 .. n - 1,
                    k \in Nat \ {0}, n \in Nat, o \in Nat \ {0}, s \in Nat
          <6>4. PICK g \in Nat : g = a + 1
            OBVIOUS
          <6>5. i = g * o + s /\ i \in Nat /\ s \in 0 .. o - 1
            BY <5>1, <6>1, <6>3, <6>4
          <6> QED
            BY ONLY <6>5, g \in Nat, o \in Nat \ {0}, RemainderUnique
        <5>3. (0 - l) + r = op + s
          BY <1>1, <5>1
        <5>4. At(m, op + s) = WinAt(match + s)
          BY <2>3, <5>1
        <5> QED
          BY <1>1, <3>1, <4>5, <5>2, <5>3, <5>4
      <4> QED
        BY <4>6, <4>7
    <3> QED
      BY <3>2, <3>3
  <2> HIDE DEF w
  <2> QED
    BY <2>1, <2>8, <2>11 DEF Repeats
<1> QED
  BY <1>4, <1>5

(* A match that a partial decoding cuts short.                             *)
LEMMA LeftRepeats ==
  ASSUME Here, offset # 0, match >= lowPrefix, NEW n \in Nat, op + n <= oend
  PROVE  Repeats(Overlapping(mem, op, offset, n), n)
<1>1. PICK o \in Nat \ {0}, p \in Nat, z \in Nat : o = offset /\ p = op /\ z = oend
  BY DEF Here, Sizes
<1>2. /\ o \in Nat \ {0} /\ o = 1 * offset /\ o <= 0 + offset /\ op + 0 + n <= oend + 64
      /\ 1 \in Nat /\ 0 \in Nat
  BY <1>1
<1>3. Repeats(Overlapping(mem, op + 0, o, n), 0 + n)
  BY <1>2, MemRepeats, OverlappingRepeats
<1>4. op + 0 = op /\ 0 + n = n
  BY <1>1
<1> QED
  BY <1>1, <1>3, <1>4

-----------------------------------------------------------------------------
(* The safe decoder knows what LZ4_decompress_fast has done.               *)
EndsWell(h) ==
  LitEnd(input, h[1]) = srcSize /\ LitOp(input, h) = capacity /\ ~AtEnd(h)

Block(H, last, d) ==
  /\ Heads(H, last, input, srcSize, capacity, Len(Dict))
  /\ ~Goes(input, srcSize, capacity, Len(Dict), last)
  /\ AllShown(H, last, input, d, Dict, Len(dst))
  /\ Complete(last) => LitsShown(input, d, last)
  /\ size = capacity /\ \A i \in 1 .. Len(dst) : d[i] = dst[i]
  /\ LitEnd(input, last[1]) = srcSize /\ LitOp(input, last) = capacity =>
       (step = "done" /\ fastIp = srcSize) \/ EndsInMatch
  /\ step = "done" /\ fastIp = srcSize => EndsWell(last)

Unknown(d, i) == i <= Len(dst) /\ d[i] = Unset
HeldIn(m, d, n) == \A i \in 1 .. n : At(m, i - 1) = d[i] \/ Unknown(d, i)
PrefixIn(m) == \A i \in 1 .. Len(prefix) : m[i] = prefix[i]

Passed(i) == MatchCode(input, i) = MASK => NextIp(input, i) <= srcSize - LASTLITERALS + 1

Reached(H, last, r) ==
  /\ LitEnd(input, last[1]) = srcSize /\ LitOp(input, last) = r /\ r <= capacity
  /\ \A h \in H : h # last => Passed(h[1])

Sure(last) == IF partial THEN whole.result >= 0 ELSE EndsWell(last)

(* At which of its stages it is with which values, at the sequence h.      *)
SafeAt(H, last, d, h, st, at, to, n, tok, off, m) ==
  /\ st \in Stages \ {"idle", "done"} /\ HeldIn(m, d, to)
  /\ ~partial => \A g \in H : g[1] < h[1] => Passed(g[1])
  /\ st \in {"fast", "safe"} => at = h[1]
  /\ st = "literals" => /\ at = LitFrom(input, h[1]) /\ n = LitLen(input, h[1])
                        /\ tok = ByteAt(input, h[1])
  /\ st \in {"fast", "safe", "literals"} =>
       to = h[2] \/ (partial /\ st # "fast" /\ to = oend /\ oend <= h[2])
  /\ st \in {"fastMatch", "shortcut", "copyMatch"} =>
       at = LitEnd(input, h[1]) + 2 /\ n = MatchCode(input, h[1])
  /\ st = "match" => /\ at = NextIp(input, h[1]) /\ n = MatchLen(input, h[1])
                     /\ ~partial => Passed(h[1])
  /\ st \in {"fastMatch", "shortcut", "copyMatch", "match"} =>
       /\ off = DistAt(input, h[1]) /\ to = LitOp(input, h)
       /\ Sure(last) => h # last

Sized(H, last, d) ==
  /\ Memory /\ PrefixIn(mem)
  /\ ~partial => iend = srcSize /\ oend = capacity
  /\ partial => srcSize <= iend /\ (iend # srcSize => oend <= whole.result)
  /\ partial /\ whole.result >= 0 =>
       /\ Reached(H, last, whole.result)
       /\ \A i \in 1 .. whole.result : whole.out[i] = d[i] \/ Unknown(d, i)

(* What it returns, and what the output is then.                           *)
Ended(H, last, d, r, m) ==
  IF partial THEN r = Min({oend, whole.result}) /\ HeldIn(m, d, r)
  ELSE /\ oend > 0 /\ EndsWell(last) => r = oend
       /\ r >= 0 => Reached(H, last, r) /\ HeldIn(m, d, r)

Shown(H, last, d, st, at, to, n, tok, off, m, r) ==
  IF st = "done" THEN Ended(H, last, d, r, m)
  ELSE \E h \in H : SafeAt(H, last, d, h, st, at, to, n, tok, off, m)

SafeState(H, last, d) ==
  /\ Sized(H, last, d)
  /\ (partial => whole.result >= 0) =>
       Shown(H, last, d, stage, ip, op, length, token, offset, mem, result)

SafeKnows ==
  \E H \in SUBSET (Nat \X Nat) : \E last \in H : \E d :
    Block(H, last, d) /\ SafeState(H, last, d)

(* What the memory held in front of op it still holds.                     *)
LEMMA PrefixStays ==
  ASSUME Here, NEW m, Stays(m), PrefixIn(mem)
  PROVE  PrefixIn(m)
<1>1. PICK l \in Nat, z \in Nat, p \in Nat : l = Len(prefix) /\ z = oend /\ p = op
  BY DEF Here, Sizes
<1>2. DOMAIN mem = 1 .. l + z + 64
  BY <1>1 DEF Here, Memory, BEHIND
<1> SUFFICES ASSUME NEW i \in 1 .. l PROVE m[i] = prefix[i]
  BY <1>1 DEF PrefixIn
<1>3. i \in DOMAIN mem /\ i <= l + p
  BY <1>2
<1>4. m[i] = mem[i]
  BY <1>1, <1>3 DEF Stays
<1> QED
  BY <1>1, <1>4 DEF PrefixIn

LEMMA HeldStays ==
  ASSUME Here, NEW m, Stays(m), NEW d, HeldIn(mem, d, op)
  PROVE  HeldIn(m, d, op)
<1> SUFFICES ASSUME NEW i \in 1 .. op PROVE At(m, i - 1) = d[i] \/ Unknown(d, i)
  BY DEF HeldIn
<1>1. PICK x \in Int : x = i - 1
  BY DEF Here
<1>2. 0 - Len(prefix) <= x /\ x < op
  BY <1>1 DEF Here, Sizes
<1>3. At(m, x) = At(mem, x)
  BY <1>2, StaysAt
<1> QED
  BY <1>1, <1>3 DEF HeldIn

(* A byte in front of op is the one that a match would take.               *)
LEMMA WinIs ==
  ASSUME Here, Given, NEW d, PrefixIn(mem), HeldIn(mem, d, op),
         NEW p \in Int, p < op, 0 - p <= Len(Dict)
  PROVE  WinAt(p) = SourceAt(Dict, d, p) \/ (p >= 0 /\ Unknown(d, p + 1))
<1>1. PICK l \in Nat, e \in Nat : l = Len(prefix) /\ e = Len(ext)
  BY DEF Given
<1>2. Len(Dict) = e + l /\ lowPrefix = 0 - l
  BY <1>1, DictLength DEF lowPrefix
<1>3. CASE p >= 0
  <2>1. WinAt(p) = At(mem, p)
    BY <1>2, <1>3 DEF WinAt
  <2>2. PICK i \in 1 .. op : i = p + 1 /\ i - 1 = p
    BY <1>3 DEF Here
  <2>3. At(mem, p) = d[i] \/ Unknown(d, i)
    BY <2>2 DEF HeldIn
  <2>4. SourceAt(Dict, d, p) = d[i]
    BY <1>3, <2>2 DEF SourceAt
  <2> QED
    BY <1>3, <2>1, <2>2, <2>3, <2>4
<1>4. CASE ~(p >= 0)
  <2>1. SourceAt(Dict, d, p) = Dict[(e + l) + p + 1]
    BY <1>2, <1>4 DEF SourceAt
  <2>2. ext \in Seq(U8) /\ prefix \in Seq(U8) /\ Dict = ext \o prefix
    BY DEF Given, Dict
  <2>3. /\ \A k \in 1 .. e : Dict[k] = ext[k]
        /\ \A k \in 1 .. l : Dict[e + k] = prefix[k]
    BY <1>1, <2>2, JoinIs
  <2>4. CASE p >= 0 - l
    <3>1. PICK k \in 1 .. l : k = l + p + 1
      BY <1>4, <2>4
    <3>2. WinAt(p) = mem[k]
      BY <1>1, <1>2, <2>4, <3>1 DEF WinAt, At
    <3>3. mem[k] = prefix[k]
      BY <1>1 DEF PrefixIn
    <3>4. e + k = (e + l) + p + 1
      BY <3>1
    <3> QED
      BY <2>1, <2>3, <3>2, <3>3, <3>4
  <2>5. CASE ~(p >= 0 - l)
    <3>1. PICK k \in 1 .. e : k = (e + l) + p + 1
      BY <1>2, <2>5
    <3>2. WinAt(p) = ext[k]
      <4>1. e + (p - lowPrefix) + 1 = k
        BY <1>2, <3>1
      <4> QED
        BY <1>1, <1>2, <2>5, <4>1 DEF WinAt
    <3> QED
      BY <2>1, <2>3, <3>1, <3>2
  <2> QED
    BY <2>4, <2>5
<1> QED
  BY <1>3, <1>4

(* Literals that were put are held.                                        *)
LEMMA LitsHeld ==
  ASSUME Here, Given, NEW d, NEW h \in Nat \X Nat, LitsShown(input, d, h), op = h[2],
         HeldIn(mem, d, op), NEW copied \in Nat, op + copied <= oend + 64,
         NEW n \in Nat, n <= copied, n <= LitLen(input, h[1])
  PROVE  /\ HeldIn(Put(mem, op, Input(LitFrom(input, h[1]), copied)), d, op + n)
         /\ Stays(Put(mem, op, Input(LitFrom(input, h[1]), copied)))
<1>1. PICK p \in Nat, from \in Nat, len \in Nat :
        p = op /\ from = LitFrom(input, h[1]) /\ len = LitLen(input, h[1])
  <2>1. input \in Seq(U8) /\ h[1] \in Nat /\ op \in Nat
    BY DEF Given, Here
  <2> QED
    BY <2>1, SequenceNumbers
<1> DEFINE bytes == Input(from, copied)
           m == Put(mem, op, bytes)
<1>2. DOMAIN bytes = 1 .. copied /\ \A j \in 1 .. copied : bytes[j] = In(from + j - 1)
  BY DEF Input
<1> HIDE DEF bytes
<1>3. Stays(mem)
  BY DEF Stays
<1>4. Stays(m)
  <2>1. op \in Int /\ op >= op /\ DOMAIN bytes \subseteq Nat \ {0}
    BY <1>1, <1>2
  <2> QED
    BY <1>3, <2>1, PutStays
<1>5. HeldIn(m, d, op)
  BY <1>4, HeldStays
<1>6. ASSUME NEW i \in 1 .. op + n PROVE At(m, i - 1) = d[i] \/ Unknown(d, i)
  <2>1. CASE i <= op
    <3>1. i \in 1 .. op
      BY <1>1, <2>1
    <3> QED
      BY <1>5, <3>1 DEF HeldIn
  <2>2. CASE ~(i <= op)
    <3>1. PICK y \in Int : y = i - 1
      BY <1>1
    <3>2. PICK j \in 1 .. n : j = i - op
      BY <1>1, <2>2
    <3>3. op <= y /\ y < op + copied /\ (y - op) + 1 = j /\ j \in 1 .. copied
      BY <1>1, <3>1, <3>2
    <3>4. At(m, y) = bytes[(y - op) + 1]
      <4>1. op \in Nat /\ DOMAIN mem = DOMAIN mem
        BY <1>1
      <4> QED
        BY ONLY Here, <1>2, <3>3, <4>1, op + copied <= oend + 64, copied \in Nat, y \in Int, PutNew
    <3>5. bytes[j] = ByteAt(input, (from + j) - 1)
      BY <1>2, <3>3, InIs
    <3>6. d[op + j] = ByteAt(input, (from + j) - 1)
      <4>1. j \in 1 .. len
        BY <1>1
      <4> QED
        BY <1>1, <4>1 DEF LitsShown
    <3>7. op + j = i
      BY <1>1, <3>2
    <3> QED
      BY <3>1, <3>3, <3>4, <3>5, <3>6, <3>7
  <2> QED
    BY <2>1, <2>2
<1>7. m = Put(mem, op, Input(LitFrom(input, h[1]), copied))
  BY <1>1 DEF bytes
<1>8. HeldIn(m, d, op + n)
  <2> HIDE DEF m
  <2> QED
    BY <1>6 DEF HeldIn
<1> QED
  BY <1>4, <1>7, <1>8

(* A match that was copied is held, as far as it was.                      *)
LEMMA MatchHeld ==
  ASSUME Here, Given, NEW d, NEW h \in Nat \X Nat, MatchShown(input, d, Dict, h),
         op = LitOp(input, h), offset = DistAt(input, h[1]), offset <= op + Len(Dict),
         HeldIn(mem, d, op), PrefixIn(mem), Len(dst) \in Nat, NextOp(input, h) <= Len(dst),
         NEW n \in Nat, n <= MatchLen(input, h[1]),
         NEW m, Stays(m), offset # 0 => Repeats(m, n)
  PROVE  HeldIn(m, d, op + n)
<1>1. PICK p \in Nat, o \in Nat, len \in Nat, w \in Nat :
        /\ p = op /\ o = offset /\ len = MatchLen(input, h[1]) /\ w = Len(Dict)
  <2>1. input \in Seq(U8) /\ h[1] \in Nat /\ op \in Nat /\ offset \in Nat
    BY DEF Given, Here
  <2> QED
    BY <2>1, SequenceNumbers, DictLength
<1>2. p + len <= Len(dst) /\ n <= len /\ o <= p + w
  <2>1. input \in Seq(U8)
    BY DEF Given
  <2>2. NextOp(input, h) = LitOp(input, h) + MatchLen(input, h[1])
    BY <2>1, HeadNumbers
  <2> QED
    BY <1>1, <2>2
<1>3. HeldIn(m, d, op)
  BY HeldStays
<1>4. ASSUME NEW i \in 1 .. op + n PROVE At(m, i - 1) = d[i] \/ Unknown(d, i)
  <2>1. CASE i <= op
    <3>1. i \in 1 .. op
      BY <1>1, <2>1
    <3> QED
      BY <1>3, <3>1 DEF HeldIn
  <2>2. CASE ~(i <= op)
    <3>1. PICK j \in 0 .. n - 1 : j = (i - 1) - op
      BY <1>1, <2>2
    <3>0. i \in Int /\ i <= p + n
      BY <1>1
    <3>2. /\ j \in 0 .. len - 1 /\ op + j + 1 = i /\ op + j = i - 1 /\ i <= p + n
      <4>1. op \in Nat
        BY <1>1
      <4> QED
        BY ONLY <1>2, <3>0, <3>1, <4>1, j \in 0 .. n - 1, n \in Nat, len \in Nat
    <3>3. d[i] = IF o = 0 THEN Unset ELSE SourceAt(Dict, d, (p - o) + (j % o))
      BY <1>1, <3>2 DEF MatchShown
    <3>4. CASE o = 0
      <4>1. i <= Len(dst)
        BY ONLY <1>2, <3>0, p \in Nat, n \in Nat, len \in Nat, Len(dst) \in Nat
      <4> QED
        BY <3>3, <3>4, <4>1 DEF Unknown
    <3>5. CASE o # 0
      <4>1. PICK r \in 0 .. o - 1 : r = j % o
        <5>1. j \in Nat /\ o \in Nat \ {0}
          BY <3>5
        <5>2. j % o \in 0 .. o - 1
          BY ONLY <5>1, QuotientRemainder
        <5> QED
          BY <5>2
      <4>2. PICK x \in Int : x = (p - o) + r
        OBVIOUS
      <4>3. x < op /\ 0 - x <= Len(Dict) /\ match + r = x
        <5>1. match = p - o /\ op = p /\ Len(Dict) = w
          BY <1>1 DEF match
        <5>2. x < p /\ 0 - x <= w /\ (p - o) + r = x
          BY ONLY <1>2, <3>5, <4>2, r \in 0 .. o - 1, p \in Nat, o \in Nat, w \in Nat, x \in Int
        <5> QED
          BY <5>1, <5>2
      <4>4. At(m, op + j) = WinAt(x)
        BY <1>1, <3>5, <4>1, <4>3 DEF Repeats
      <4>5. d[i] = SourceAt(Dict, d, x)
        BY <3>3, <3>5, <4>1, <4>2
      <4>6. CASE WinAt(x) = SourceAt(Dict, d, x)
        BY <3>2, <4>4, <4>5, <4>6
      <4>7. CASE x >= 0 /\ Unknown(d, x + 1)
        <5>1. SourceAt(Dict, d, x) = Unset
          BY <4>7 DEF SourceAt, Unknown
        <5>2. i <= Len(dst)
          BY <1>2, <3>2
        <5> QED
          BY <4>5, <5>1, <5>2 DEF Unknown
      <4> QED
        BY <4>3, <4>6, <4>7, WinIs
    <3> QED
      BY <3>4, <3>5
  <2> QED
    BY <2>1, <2>2
<1> QED
  BY <1>4 DEF HeldIn

-----------------------------------------------------------------------------
(* What LZ4_decompress_fast has done, when it has returned, as it is to be *)
(* known to the others.                                                    *)
LEMMA BlockKnown ==
  ASSUME Given, FastInv, FastKnows, FastReturned
  PROVE  \E H \in SUBSET (Nat \X Nat) : \E last \in H : \E d : Block(H, last, d)
<1>1. PICK H \in SUBSET (Nat \X Nat) : \E last \in H :
        /\ Heads(H, last, input, srcSize, capacity, Len(Dict))
        /\ AllShown(H, last, input, dst, Dict, Len(dst))
        /\ FastAt(last)
  BY DEF FastKnows
<1>2. PICK last \in H :
        /\ Heads(H, last, input, srcSize, capacity, Len(Dict))
        /\ AllShown(H, last, input, dst, Dict, Len(dst))
        /\ FastAt(last)
  BY <1>1
<1>3. PICK n \in Nat, o \in Nat, len \in Nat, from \in Nat :
        n = Len(dst) /\ o = last[2] /\ len = LitLen(input, last[1]) /\ from = LitFrom(input, last[1])
  <2>1. input \in Seq(U8) /\ last \in Nat \X Nat /\ Len(dst) \in Nat
    BY <1>1, FastFacts DEF Given
  <2>2. last[1] \in Nat /\ last[2] \in Nat
    BY <2>1
  <2> QED
    BY <2>1, <2>2, SequenceNumbers
<1>4. LitOp(input, last) = o + len
  BY <1>3 DEF LitOp
<1>5. step \in {"done", "failed", "outside"} /\ size = capacity /\ capacity \in Nat /\ srcSize \in Nat
  BY <1>2 DEF FastReturned, FastAt, Given
<1> DEFINE d == [i \in Nat |-> IF i <= n THEN dst[i] ELSE ByteAt(input, (from + (i - o)) - 1)]
<1>6. /\ \A i \in 1 .. n : d[i] = dst[i]
      /\ \A i \in Nat : i > n => d[i] = ByteAt(input, (from + (i - o)) - 1)
  OBVIOUS
<1> HIDE DEF d
<1>7. AllShown(H, last, input, d, Dict, Len(dst))
  <2>1. input \in Seq(U8) /\ n <= n
    BY DEF Given
  <2>2. AllShown(H, last, input, dst, Dict, n)
    BY <1>2, <1>3
  <2>3. AllShown(H, last, input, d, Dict, n)
    BY ONLY <1>6, <2>1, <2>2, H \in SUBSET (Nat \X Nat), n \in Nat, AllShownSame
  <2> QED
    BY <1>3, <2>3
<1>8. ~Goes(input, srcSize, capacity, Len(Dict), last)
  <2>1. CASE step = "done"
    <3>1. LitOp(input, last) + MFLIMIT > capacity
      BY <1>2, <1>3, <1>4, <1>5, <2>1, FormatNumbers DEF FastAt
    <3> QED
      BY <3>1, <1>1, GoesOnlyInside, DictLength
  <2>2. CASE step # "done"
    BY <1>2, <1>5, <2>2 DEF FastAt
  <2> QED
    BY <2>1, <2>2
<1>9. Complete(last) => LitsShown(input, d, last)
  <2> SUFFICES ASSUME Complete(last) PROVE LitsShown(input, d, last)
    OBVIOUS
  <2>1. CASE AtEnd(last)
    <3>1. n = o
      BY <1>2, <1>3, <1>5, <2>1 DEF FastAt
    <3>2. ASSUME NEW i \in 1 .. len PROVE d[o + i] = ByteAt(input, (from + i) - 1)
      <4>1. o + i \in Nat /\ o + i > n /\ (o + i) - o = i
        BY <3>1
      <4> QED
        BY <1>6, <4>1
    <3> QED
      BY <1>3, <3>2 DEF LitsShown
  <2>2. CASE ~AtEnd(last)
    <3>1. LitsShown(input, dst, last) /\ n = o + len
      BY <1>2, <1>3, <1>4, <1>5, <2>2 DEF FastAt
    <3>2. ASSUME NEW i \in 1 .. len PROVE d[o + i] = ByteAt(input, (from + i) - 1)
      <4>1. o + i \in 1 .. n
        BY <3>1
      <4>2. dst[o + i] = ByteAt(input, (from + i) - 1)
        BY <1>3, <3>1 DEF LitsShown
      <4> QED
        BY <1>6, <4>1, <4>2
    <3> QED
      BY <1>3, <3>2 DEF LitsShown
  <2> QED
    BY <2>1, <2>2
<1>10. LitEnd(input, last[1]) = srcSize /\ LitOp(input, last) = capacity =>
         (step = "done" /\ fastIp = srcSize) \/ EndsInMatch
  <2> SUFFICES ASSUME LitEnd(input, last[1]) = srcSize, LitOp(input, last) = capacity
               PROVE  (step = "done" /\ fastIp = srcSize) \/ EndsInMatch
    OBVIOUS
  <2>1. Complete(last)
    BY <1>5 DEF Complete
  <2>2. CASE step = "done"
    BY <1>2, <2>2 DEF FastAt
  <2>3. CASE step # "done"
    <3>1. AtEnd(last)
      BY <1>2, <1>5, <2>1, <2>3 DEF FastAt
    <3>2. step = "failed" /\ n = o
      BY <1>2, <1>3, <1>5, <2>3, <3>1 DEF FastAt
    <3>3. size - n < 5
      BY <1>3, <1>5, <3>1, <3>2, FormatNumbers DEF AtEnd
    <3> QED
      BY <1>3, <3>2, <3>3, FormatNumbers DEF EndsInMatch
  <2> QED
    BY <2>2, <2>3
<1>11. step = "done" /\ fastIp = srcSize => EndsWell(last)
  BY <1>2 DEF FastAt, EndsWell
<1>12. \A i \in 1 .. Len(dst) : d[i] = dst[i]
  BY <1>3, <1>6
<1>13. Block(H, last, d)
  BY <1>2, <1>5, <1>7, <1>8, <1>9, <1>10, <1>11, <1>12 DEF Block
<1> QED
  BY <1>13

(* Of the sequences but the last.                                          *)
LEMMA HeadFacts ==
  ASSUME Given, NEW H \in SUBSET (Nat \X Nat), NEW last \in H, NEW d, Block(H, last, d),
         NEW h \in H, h # last
  PROVE  /\ h[1] < last[1] /\ NextIp(input, h[1]) <= last[1] /\ NextOp(input, h) <= last[2]
         /\ Goes(input, srcSize, capacity, Len(Dict), h)
         /\ After(input, h) \in H
         /\ \A g \in H : g[1] <= h[1] \/ After(input, h)[1] <= g[1]
         /\ NextOp(input, h) <= Len(dst)
         /\ LitsShown(input, d, h) /\ MatchShown(input, d, Dict, h)
<1>1. Heads(H, last, input, srcSize, capacity, Len(Dict)) /\ AllShown(H, last, input, d, Dict, Len(dst))
  BY DEF Block
<1>2. h[1] < last[1] /\ Goes(input, srcSize, capacity, Len(Dict), h) /\ After(input, h) \in H
      /\ \A g \in H : g[1] <= h[1] \/ After(input, h)[1] <= g[1]
  BY <1>1 DEF Heads
<1>3. NextOp(input, h) <= Len(dst) /\ LitsShown(input, d, h) /\ MatchShown(input, d, Dict, h)
  BY <1>1 DEF AllShown
<1>4. PICK g \in H : g = After(input, h)
  BY <1>2
<1>5. g[1] = NextIp(input, h[1]) /\ g[2] = NextOp(input, h)
  <2>1. input \in Seq(U8) /\ h \in Nat \X Nat
    BY DEF Given
  <2> QED
    BY <1>4, <2>1, HeadNumbers
<1>6. g[2] <= last[2]
  BY <1>1 DEF Heads
<1>7. g[1] <= last[1]
  <2>1. CASE g = last
    BY <2>1
  <2>2. CASE g # last
    <3>1. g[1] < last[1] /\ g[1] \in Nat /\ last[1] \in Nat
      BY <1>1, <2>2 DEF Heads
    <3> QED
      BY <3>1
  <2> QED
    BY <2>1, <2>2
<1> QED
  BY <1>2, <1>3, <1>5, <1>6, <1>7

(* The numbers of a sequence, and of the one that is last.                 *)
LEMMA HeadIs ==
  ASSUME Given, NEW h \in Nat \X Nat
  PROVE  /\ h[1] \in Nat /\ h[2] \in Nat /\ LitFrom(input, h[1]) \in Nat
         /\ LitLen(input, h[1]) \in Nat /\ LitEnd(input, h[1]) \in Nat
         /\ LitOp(input, h) \in Nat /\ NextOp(input, h) \in Nat /\ NextIp(input, h[1]) \in Nat
         /\ MatchLen(input, h[1]) \in Nat /\ MatchLen(input, h[1]) >= 4
         /\ DistAt(input, h[1]) \in Nat
         /\ LitFrom(input, h[1]) >= h[1] + 1
         /\ LitEnd(input, h[1]) = LitFrom(input, h[1]) + LitLen(input, h[1])
         /\ LitOp(input, h) = h[2] + LitLen(input, h[1])
         /\ NextOp(input, h) = LitOp(input, h) + MatchLen(input, h[1])
         /\ NextIp(input, h[1]) >= LitEnd(input, h[1]) + 2
<1>1. input \in Seq(U8) /\ h[1] \in Nat
  BY DEF Given
<1>2. DistAt(input, h[1]) \in Nat
  BY <1>1, DistanceNumbers
<1>3. /\ h[1] \in Nat /\ h[2] \in Nat /\ LitOp(input, h) \in Nat /\ NextOp(input, h) \in Nat
      /\ LitOp(input, h) = h[2] + LitLen(input, h[1])
      /\ NextOp(input, h) = LitOp(input, h) + MatchLen(input, h[1])
  BY <1>1, HeadNumbers
<1>4. /\ LitFrom(input, h[1]) \in Nat /\ LitLen(input, h[1]) \in Nat
      /\ LitEnd(input, h[1]) \in Nat /\ NextIp(input, h[1]) \in Nat
      /\ MatchLen(input, h[1]) \in Nat /\ MatchLen(input, h[1]) >= 4
      /\ LitFrom(input, h[1]) >= h[1] + 1
      /\ LitEnd(input, h[1]) = LitFrom(input, h[1]) + LitLen(input, h[1])
      /\ NextIp(input, h[1]) >= LitEnd(input, h[1]) + 2
  BY <1>1, SequenceNumbers
<1> QED
  BY <1>2, <1>3, <1>4

(* A block that ends well: its last literals are five at least, so that no *)
(* length of a match is read further than it may be.                       *)
LEMMA EndsReached ==
  ASSUME Given, NEW H \in SUBSET (Nat \X Nat), NEW last \in H, NEW d, Block(H, last, d),
         EndsWell(last)
  PROVE  /\ Reached(H, last, capacity)
         /\ \A h \in H : h # last => /\ LitEnd(input, h[1]) + 8 <= srcSize
                                     /\ NextOp(input, h) + 5 <= capacity
<1>1. PICK f, n, i, o : f = LitFrom(input, last[1]) /\ n = LitLen(input, last[1])
                        /\ i = last[1] /\ o = last[2]
  OBVIOUS
<1>2. /\ f \in Nat /\ n \in Nat /\ i \in Nat /\ o \in Nat /\ f >= i + 1 /\ srcSize = f + n
      /\ capacity = o + n /\ (i # 0 => o + 5 <= capacity)
  <2>1. last \in Nat \X Nat
    OBVIOUS
  <2>2. LitEnd(input, last[1]) = srcSize /\ LitOp(input, last) = capacity
        /\ (last[1] # 0 => ~(last[2] + 5 > capacity))
    BY FormatNumbers DEF EndsWell, AtEnd
  <2>3. /\ f \in Nat /\ n \in Nat /\ i \in Nat /\ o \in Nat /\ f >= i + 1
        /\ LitEnd(input, last[1]) = f + n /\ LitOp(input, last) = o + n
    BY <1>1, <2>1, HeadIs
  <2> QED
    BY <1>1, <2>2, <2>3
<1>3. ASSUME NEW h \in H, h # last
      PROVE  /\ Passed(h[1]) /\ LitEnd(input, h[1]) + 8 <= srcSize
             /\ NextOp(input, h) + 5 <= capacity
  <2>1. PICK e, x, q : e = LitEnd(input, h[1]) /\ x = NextIp(input, h[1]) /\ q = NextOp(input, h)
    OBVIOUS
  <2>2. e \in Nat /\ x \in Nat /\ q \in Nat /\ x >= e + 2
    <3>1. h \in Nat \X Nat
      OBVIOUS
    <3> QED
      BY <2>1, <3>1, HeadIs
  <2>3. x <= i /\ q <= o
    BY <1>1, <1>3, <2>1, HeadFacts
  <2>4. e + 8 <= srcSize /\ q + 5 <= capacity /\ x <= srcSize - 4
    BY ONLY <1>2, <2>2, <2>3
  <2>5. Passed(h[1])
    <3>1. x <= srcSize - LASTLITERALS + 1
      BY <1>2, <2>2, <2>4, FormatNumbers
    <3> QED
      BY <2>1, <3>1 DEF Passed
  <2> QED
    BY <2>1, <2>4, <2>5
<1>4. Reached(H, last, capacity)
  <2>1. LitEnd(input, last[1]) = srcSize /\ LitOp(input, last) = capacity /\ capacity <= capacity
    BY <1>2 DEF EndsWell
  <2> QED
    BY <1>3, <2>1 DEF Reached
<1> QED
  BY <1>3, <1>4

(* If it is sure to succeed, what there is for the decoder to come to.     *)
LEMMA SureFacts ==
  ASSUME Given, NEW H \in SUBSET (Nat \X Nat), NEW last \in H, NEW d, Block(H, last, d),
         Sized(H, last, d), Sure(last)
  PROVE  \E r \in Nat :
           /\ Reached(H, last, r) /\ srcSize <= iend /\ (iend # srcSize => oend <= r)
           /\ IF partial THEN r = whole.result ELSE r = oend /\ iend = srcSize
<1>1. srcSize \in Nat /\ capacity \in Nat
  BY DEF Given
<1>2. CASE partial
  <2>1. /\ Reached(H, last, whole.result) /\ srcSize <= iend
        /\ (iend # srcSize => oend <= whole.result)
    BY <1>2 DEF Sized, Sure
  <2>2. whole.result \in Nat
    <3>1. last \in Nat \X Nat
      OBVIOUS
    <3>2. LitOp(input, last) \in Nat
      BY <3>1, HeadIs
    <3> QED
      BY <2>1, <3>2 DEF Reached
  <2> QED
    BY <1>2, <2>1, <2>2
<1>3. CASE ~partial
  <2>1. iend = srcSize /\ oend = capacity /\ EndsWell(last)
    BY <1>3 DEF Sized, Sure
  <2>2. Reached(H, last, capacity)
    BY <2>1, EndsReached
  <2>3. srcSize <= iend
    BY <1>1, <2>1
  <2> QED
    BY <1>1, <1>3, <2>1, <2>2, <2>3
<1> QED
  BY <1>2, <1>3

(* Then all literals are in the input, and only the last ones may end with *)
(* the input or with the output.                                           *)
LEMMA SureLits ==
  ASSUME Given, iend \in Nat, oend \in Nat, NEW H \in SUBSET (Nat \X Nat), NEW last \in H, NEW d,
         Block(H, last, d), Sized(H, last, d), Sure(last), NEW h \in H
  PROVE  /\ LitEnd(input, h[1]) <= srcSize /\ LitEnd(input, h[1]) <= iend
         /\ LitOp(input, h) <= capacity /\ LitsShown(input, d, h)
         /\ h # last => LitEnd(input, h[1]) + 3 <= iend
         /\ LitEnd(input, h[1]) < iend /\ LitOp(input, h) < oend => h # last
<1>1. PICK r \in Nat : /\ Reached(H, last, r) /\ srcSize <= iend /\ (iend # srcSize => oend <= r)
                       /\ r <= capacity /\ LitEnd(input, last[1]) = srcSize
                       /\ LitOp(input, last) = r
  BY SureFacts DEF Reached
<1>2. srcSize \in Nat /\ capacity \in Nat
  BY DEF Given
<1>3. CASE h = last
  <2>1. LitEnd(input, h[1]) = srcSize /\ LitOp(input, h) = r
    BY <1>1, <1>3
  <2>2. Complete(last)
    BY <1>1, <1>2 DEF Complete
  <2>3. LitsShown(input, d, h)
    BY <1>3, <2>2 DEF Block
  <2> QED
    BY <1>1, <1>2, <1>3, <2>1, <2>3
<1>4. CASE h # last
  <2>1. PICK e, x, i, p, q : /\ e = LitEnd(input, h[1]) /\ x = NextIp(input, h[1]) /\ i = last[1]
                             /\ p = LitOp(input, h) /\ q = last[2]
    OBVIOUS
  <2>2. x <= i /\ LitsShown(input, d, h) /\ Goes(input, srcSize, capacity, Len(Dict), h)
    BY <1>4, <2>1, HeadFacts
  <2>3. e \in Nat /\ x \in Nat /\ i \in Nat /\ p \in Nat /\ x >= e + 2
    <3>1. h \in Nat \X Nat /\ last \in Nat \X Nat
      OBVIOUS
    <3> QED
      BY <2>1, <3>1, HeadIs
  <2>4. i + 1 <= srcSize
    <3>1. PICK f, n, z : f = LitFrom(input, last[1]) /\ n = LitLen(input, last[1]) /\ z = LitEnd(input, last[1])
      OBVIOUS
    <3>2. f \in Nat /\ n \in Nat /\ f >= i + 1 /\ z = f + n
      <4>1. last \in Nat \X Nat
        OBVIOUS
      <4> QED
        BY <2>1, <3>1, <4>1, HeadIs
    <3>3. z = srcSize
      BY <1>1, <3>1
    <3> QED
      BY <2>3, <3>2, <3>3
  <2>5. p <= capacity
    <3>1. p + MFLIMIT <= capacity
      BY <2>1, <2>2 DEF Goes
    <3> QED
      BY <1>2, <2>3, <3>1, FormatNumbers
  <2>6. e <= srcSize /\ e + 3 <= iend /\ e <= iend
    BY <1>1, <1>2, <2>2, <2>3, <2>4
  <2> QED
    BY <1>4, <2>1, <2>2, <2>5, <2>6
<1> QED
  BY <1>3, <1>4

-----------------------------------------------------------------------------
(* What the safe decoder reads are the numbers of the sequence.            *)
LEMMA LitsAre ==
  ASSUME Given, iend \in Nat, NEW h \in Nat \X Nat, ip = h[1]
  PROVE  /\ In(ip) = ByteAt(input, h[1]) /\ In(ip) \div (MASK + 1) = LitCode(input, h[1])
         /\ LiteralsLength.ok <=>
              (LitCode(input, h[1]) = MASK => LitFrom(input, h[1]) <= iend - MASK)
         /\ LiteralsLength.ok => /\ LiteralsLength.len = LitLen(input, h[1])
                                 /\ LiteralsLength.next = LitFrom(input, h[1])
<1>1. PICK i \in Nat, s \in 0 .. 15 : i = h[1] /\ s = LitCode(input, i)
  <2>1. h[1] \in Nat /\ input \in Seq(U8)
    BY DEF Given
  <2> QED
    BY <2>1, SequenceNumbers
<1>2. In(ip) = ByteAt(input, i) /\ In(ip) \div (MASK + 1) = s
  BY <1>1, InIs DEF LitCode
<1>3. PICK limit \in Int, pos \in Nat : limit = iend - MASK /\ pos = i + 1
  BY FormatNumbers
<1>4. LiteralsLength = ReadLength(s, pos, limit, TRUE)
  BY <1>1, <1>2, <1>3 DEF LiteralsLength
<1>5. LET r == ReadLength(s, pos, limit, TRUE)
      IN  /\ r.ok <=> (s = MASK => LengthEnd(input, s, pos) <= limit)
          /\ r.ok => r.len = LengthIs(input, s, pos) /\ r.next = LengthEnd(input, s, pos)
  <2>1. input \in Seq(U8) /\ s \in Nat /\ TRUE \in BOOLEAN
    BY DEF Given
  <2> QED
    BY ONLY <2>1, pos \in Nat, limit \in Int, ReadsLength
<1>6. LengthIs(input, s, pos) = LitLen(input, i) /\ LengthEnd(input, s, pos) = LitFrom(input, i)
  BY <1>1, <1>3 DEF LitLen, LitFrom
<1>7. LiteralsLength.ok <=> (s = MASK => LitFrom(input, i) <= limit)
  BY <1>4, <1>5, <1>6
<1>8. LiteralsLength.ok => /\ LiteralsLength.len = LitLen(input, i)
                           /\ LiteralsLength.next = LitFrom(input, i)
  BY <1>4, <1>5, <1>6
<1> QED
  BY <1>1, <1>2, <1>3, <1>7, <1>8

LEMMA MatchIs ==
  ASSUME Given, iend \in Nat, NEW h \in Nat \X Nat, ip = LitEnd(input, h[1]) + 2,
         length = MatchCode(input, h[1])
  PROVE  /\ MatchLength(length).ok <=>
              (MatchCode(input, h[1]) = MASK => NextIp(input, h[1]) <= iend - LASTLITERALS + 1)
         /\ MatchLength(length).ok => /\ MatchLength(length).len + MINMATCH = MatchLen(input, h[1])
                                      /\ MatchLength(length).next = NextIp(input, h[1])
<1>1. PICK i \in Nat, s \in 0 .. 15 : i = h[1] /\ s = MatchCode(input, i)
  <2>1. h[1] \in Nat /\ input \in Seq(U8)
    BY DEF Given
  <2> QED
    BY <2>1, SequenceNumbers
<1>2. PICK limit \in Int, pos \in Nat : limit = iend - LASTLITERALS + 1 /\ pos = LitEnd(input, i) + 2
  <2>1. LitEnd(input, i) \in Nat
    BY SequenceNumbers DEF Given
  <2> QED
    BY <2>1, FormatNumbers
<1>3. MatchLength(length) = ReadLength(s, pos, limit, FALSE)
  BY <1>1, <1>2 DEF MatchLength
<1>4. LET r == ReadLength(s, pos, limit, FALSE)
      IN  /\ r.ok <=> (s = MASK => LengthEnd(input, s, pos) <= limit)
          /\ r.ok => r.len = LengthIs(input, s, pos) /\ r.next = LengthEnd(input, s, pos)
  <2>1. input \in Seq(U8) /\ s \in Nat /\ FALSE \in BOOLEAN
    BY DEF Given
  <2> QED
    BY ONLY <2>1, pos \in Nat, limit \in Int, ReadsLength
<1>5. LengthIs(input, s, pos) + MINMATCH = MatchLen(input, i) /\ LengthEnd(input, s, pos) = NextIp(input, i)
  BY <1>1, <1>2 DEF MatchLen, NextIp
<1>6. MatchLength(length).ok <=> (s = MASK => NextIp(input, i) <= limit)
  BY <1>3, <1>4, <1>5
<1>7. MatchLength(length).ok => /\ MatchLength(length).len + MINMATCH = MatchLen(input, i)
                                /\ MatchLength(length).next = NextIp(input, i)
  BY <1>3, <1>4, <1>5
<1> QED
  BY <1>1, <1>2, <1>6, <1>7

LEMMA OffsetIs ==
  ASSUME NEW i
  PROVE  Offset(LitEnd(input, i)) = DistAt(input, i)
BY InIs DEF Offset, DistAt

(* What there is to know before each step.                                 *)
Knows(H, last, d) ==
  /\ Given /\ SafeInv /\ FastInv
  /\ H \in SUBSET (Nat \X Nat) /\ last \in H
  /\ Block(H, last, d) /\ Sized(H, last, d) /\ (partial => whole.result >= 0)

Now(H, last, d, h) == h \in H /\ SafeAt(H, last, d, h, stage, ip, op, length, token, offset, mem)

LEMMA KnowsFacts ==
  ASSUME NEW H, NEW last, NEW d, Knows(H, last, d), NEW h, Now(H, last, d, h)
  PROVE  /\ Given /\ SafeInv /\ FastInv /\ Margins /\ Sizes /\ Here
         /\ H \in SUBSET (Nat \X Nat) /\ last \in H /\ last \in Nat \X Nat
         /\ h \in H /\ h \in Nat \X Nat
         /\ Block(H, last, d) /\ Sized(H, last, d) /\ (partial => whole.result >= 0)
         /\ input \in Seq(U8) /\ srcSize \in Nat /\ capacity \in Nat
         /\ iend \in Nat /\ oend \in Nat /\ partial \in BOOLEAN
         /\ ip \in Nat /\ op \in Nat /\ op <= oend /\ length \in Nat /\ offset \in Nat
         /\ (~partial => iend = srcSize /\ oend = capacity) /\ Len(dst) \in Nat
         /\ PrefixIn(mem) /\ HeldIn(mem, d, op)
<1>1. /\ Given /\ SafeInv /\ FastInv /\ Block(H, last, d) /\ Sized(H, last, d)
      /\ H \in SUBSET (Nat \X Nat) /\ last \in H /\ h \in H /\ (partial => whole.result >= 0)
  BY DEF Knows, Now
<1>2. /\ Sizes /\ input \in Seq(U8) /\ iend \in Nat /\ oend \in Nat /\ partial \in BOOLEAN
      /\ ip \in Nat /\ op \in Nat /\ length \in Nat /\ offset \in Nat
  BY <1>1, SafeFacts
<1>3. Margins
  BY <1>1 DEF SafeInv
<1>4. stage \in Stages \ {"idle", "done"} /\ HeldIn(mem, d, op)
  BY DEF Now, SafeAt
<1>5. op <= oend
  <2>1. \E n \in 0 .. 64 : op + n <= oend
    <3>1. MFLIMIT \in 0 .. 64 /\ FASTLOOP_SAFE_DISTANCE = 64 /\ 0 \in 0 .. 64 /\ 64 \in 0 .. 64
          /\ 18 \in 0 .. 64 /\ 32 \in 0 .. 64
      BY FormatNumbers
    <3> QED
      BY <1>3, <1>4, <3>1 DEF Stages, Margins, Room
  <2> QED
    BY <1>2, <2>1
<1>6. Memory /\ PrefixIn(mem) /\ (~partial => iend = srcSize /\ oend = capacity)
  BY <1>1 DEF Sized
<1>7. Here
  BY <1>2, <1>5, <1>6 DEF Here
<1>8. srcSize \in Nat /\ capacity \in Nat /\ Len(dst) \in Nat
  BY <1>1, FastFacts DEF Given
<1>9. last \in Nat \X Nat /\ h \in Nat \X Nat
  BY <1>1
<1> QED
  BY <1>1, <1>2, <1>3, <1>4, <1>5, <1>6, <1>7, <1>8, <1>9

(* A decoder that gives up was not sure to succeed.                        *)
LEMMA FailShown ==
  ASSUME NEW H, NEW last, NEW d, Knows(H, last, d), ~Sure(last),
         NEW pos \in Nat, Returned(-pos - 1)
  PROVE  Shown(H, last, d, stage', ip', op', length', token', offset', mem', result')
<1>1. PICK r, m : r = result' /\ m = mem'
  OBVIOUS
<1>2. stage' = "done" /\ r = -pos - 1
  BY <1>1 DEF Returned
<1>3. ~(r >= 0)
  BY <1>2
<1>4. ~partial /\ ~EndsWell(last)
  BY DEF Sure, Knows
<1>5. Ended(H, last, d, r, m)
  BY <1>3, <1>4 DEF Ended
<1> QED
  BY <1>1, <1>2, <1>5 DEF Shown

(* Literals have been copied, and a match is to follow.                    *)
LEMMA LitsDone ==
  ASSUME NEW H, NEW last, NEW d, Knows(H, last, d), NEW h, Now(H, last, d, h),
         op = h[2], token' = ByteAt(input, h[1]),
         NEW copied \in Nat, LitLen(input, h[1]) <= copied, op + copied <= oend + 64,
         LitEnd(input, h[1]) < iend, LitOp(input, h) < oend,
         NEW next \in {"fastMatch", "shortcut", "copyMatch"},
         LiteralsThenOffset(LitFrom(input, h[1]), LitLen(input, h[1]), copied, next)
  PROVE  Shown(H, last, d, stage', ip', op', length', token', offset', mem', result')
<1>1. PICK from, n, e : from = LitFrom(input, h[1]) /\ n = LitLen(input, h[1])
                        /\ e = LitEnd(input, h[1])
  OBVIOUS
<1>2. /\ from \in Nat /\ n \in Nat /\ e \in Nat /\ e = from + n /\ LitOp(input, h) = op + n
      /\ LitOp(input, h) \in Nat
  BY <1>1, KnowsFacts, HeadIs
<1>3. LitsShown(input, d, h)
  <2>1. CASE partial
    <3>1. Sure(last)
      BY <2>1, KnowsFacts DEF Sure
    <3> QED
      BY <3>1, KnowsFacts, SureLits
  <2>2. CASE ~partial
    <3>0. LitEnd(input, h[1]) <= srcSize /\ LitOp(input, h) <= capacity
      <4>1. iend = srcSize /\ oend = capacity /\ iend \in Nat /\ oend \in Nat
        BY <2>2, KnowsFacts
      <4>2. LitEnd(input, h[1]) \in Nat /\ LitOp(input, h) \in Nat
        BY <1>1, <1>2
      <4> QED
        BY <4>1, <4>2
    <3>1. h = last => Complete(last)
      BY <3>0 DEF Complete
    <3>2. h = last => LitsShown(input, d, h)
      BY <3>1, KnowsFacts DEF Block
    <3>3. h # last => LitsShown(input, d, h)
      BY KnowsFacts, HeadFacts
    <3> QED
      BY <3>2, <3>3
  <2> QED
    BY <2>1, <2>2
<1>4. PICK m, to, at, len, off, tok :
        m = mem' /\ to = op' /\ at = ip' /\ len = length' /\ off = offset' /\ tok = token'
  OBVIOUS
<1>5. /\ m = Put(mem, op, Input(from, copied)) /\ to = op + n /\ at = from + n + 2
      /\ off = Offset(from + n) /\ len = tok % (MASK + 1) /\ stage' = next
  BY <1>1, <1>4 DEF LiteralsThenOffset
<1>6. HeldIn(m, d, op + n)
  <2>1. n <= copied /\ n <= LitLen(input, h[1]) /\ n \in Nat
    BY <1>1, <1>2
  <2>2. Given /\ Here /\ HeldIn(mem, d, op) /\ h \in Nat \X Nat
    BY KnowsFacts
  <2>3. HeldIn(Put(mem, op, Input(LitFrom(input, h[1]), copied)), d, op + n)
    BY ONLY <1>3, <2>1, <2>2, op = h[2], copied \in Nat, op + copied <= oend + 64, LitsHeld
  <2> QED
    BY <1>1, <1>5, <2>3
<1>7. off = DistAt(input, h[1])
  BY <1>1, <1>2, <1>5, OffsetIs
<1>8. at = LitEnd(input, h[1]) + 2 /\ len = MatchCode(input, h[1]) /\ to = LitOp(input, h)
  BY <1>1, <1>2, <1>4, <1>5 DEF MatchCode
<1>9. Sure(last) => h # last
  BY KnowsFacts, SureLits
<1>10. ~partial => \A g \in H : g[1] < h[1] => Passed(g[1])
  BY DEF Now, SafeAt
<1>11. next \in Stages \ {"idle", "done"} /\ next \notin {"fast", "safe", "literals", "match"}
  BY DEF Stages
<1>12. HeldIn(m, d, to)
  BY <1>5, <1>6
<1>13. SafeAt(H, last, d, h, next, at, to, len, tok, off, m)
  BY <1>7, <1>8, <1>9, <1>10, <1>11, <1>12 DEF SafeAt
<1>14. next # "done" /\ h \in H
  BY KnowsFacts
<1> QED
  BY <1>4, <1>5, <1>13, <1>14 DEF Shown

(* A match, or the beginning of one, has been copied.                      *)
LEMMA MatchCopied ==
  ASSUME NEW H, NEW last, NEW d, Knows(H, last, d), NEW h, Now(H, last, d, h), h # last,
         stage \in {"fastMatch", "shortcut", "copyMatch", "match"},
         NEW n \in Nat, n <= MatchLen(input, h[1]),
         NEW m, Stays(m), offset # 0 => Repeats(m, n)
  PROVE  HeldIn(m, d, op + n) /\ op = LitOp(input, h)
<1>1. op = LitOp(input, h) /\ offset = DistAt(input, h[1])
  BY DEF Now, SafeAt
<1>2. /\ Given /\ Here /\ HeldIn(mem, d, op) /\ PrefixIn(mem) /\ h \in Nat \X Nat
      /\ Len(dst) \in Nat
  BY KnowsFacts
<1>3. /\ MatchShown(input, d, Dict, h) /\ NextOp(input, h) <= Len(dst)
      /\ Goes(input, srcSize, capacity, Len(Dict), h)
  <2>1. /\ Given /\ H \in SUBSET (Nat \X Nat) /\ last \in H /\ Block(H, last, d)
        /\ h \in H /\ h # last
    BY KnowsFacts
  <2> QED
    BY ONLY <2>1, HeadFacts
<1>4. offset <= op + Len(Dict)
  BY <1>1, <1>3 DEF Goes
<1>5. HeldIn(m, d, op + n)
  BY ONLY <1>1, <1>2, <1>3, <1>4, n \in Nat, n <= MatchLen(input, h[1]), Stays(m),
          offset # 0 => Repeats(m, n), MatchHeld
<1> QED
  BY <1>1, <1>5

LEMMA MatchCompletes ==
  ASSUME NEW H, NEW last, NEW d, Knows(H, last, d), NEW h, Now(H, last, d, h),
         stage \in {"fastMatch", "shortcut", "copyMatch", "match"},
         h # last \/ Goes(input, srcSize, capacity, Len(Dict), h),
         ~partial => Passed(h[1]), ip' = NextIp(input, h[1]),
         NEW next \in {"fast", "safe"}, stage' = next,
         NEW n \in Nat, n = MatchLen(input, h[1]) \/ (partial /\ next = "safe" /\ op + n = oend
                                                      /\ n <= MatchLen(input, h[1])),
         NEW m, Stays(m), offset # 0 => Repeats(m, n), mem' = m, op' = op + n
  PROVE  Shown(H, last, d, stage', ip', op', length', token', offset', mem', result')
<1>1. h # last
  BY KnowsFacts DEF Block
<1>2. PICK len \in Nat : len = MatchLen(input, h[1]) /\ n <= len
  <2>1. MatchLen(input, h[1]) \in Nat
    BY KnowsFacts, HeadIs
  <2> QED
    BY <2>1
<1>3. HeldIn(m, d, op + n) /\ op = LitOp(input, h)
  BY <1>1, <1>2, MatchCopied
<1>4. PICK g \in H : g = After(input, h) /\ g[1] = NextIp(input, h[1]) /\ g[2] = op + len
  <2>1. After(input, h) \in H
    BY <1>1, KnowsFacts, HeadFacts
  <2>2. After(input, h)[1] = NextIp(input, h[1]) /\ After(input, h)[2] = NextOp(input, h)
    BY KnowsFacts, HeadNumbers
  <2>3. NextOp(input, h) = op + len
    BY <1>2, <1>3, KnowsFacts, HeadIs
  <2> QED
    BY <2>1, <2>2, <2>3
<1>5. ASSUME ~partial, NEW k \in H, k[1] < g[1] PROVE Passed(k[1])
  <2>1. k[1] \in Nat /\ g[1] \in Nat /\ h[1] \in Nat
    <3>1. H \subseteq Nat \X Nat /\ h \in Nat \X Nat
      BY KnowsFacts
    <3>2. k \in Nat \X Nat /\ g \in Nat \X Nat
      BY <3>1
    <3> QED
      BY <3>1, <3>2
  <2>2. k[1] <= h[1] \/ g[1] <= k[1]
    <3>1. /\ Given /\ H \in SUBSET (Nat \X Nat) /\ last \in H /\ Block(H, last, d)
          /\ h \in H /\ h # last
      BY <1>1, KnowsFacts
    <3>2. \A j \in H : j[1] <= h[1] \/ After(input, h)[1] <= j[1]
      BY ONLY <3>1, HeadFacts
    <3> QED
      BY <1>4, <3>2
  <2>3. k[1] < h[1] \/ k[1] = h[1]
    BY <1>5, <2>1, <2>2
  <2>4. k[1] < h[1] => Passed(k[1])
    BY <1>5 DEF Now, SafeAt
  <2> QED
    BY <1>5, <2>3, <2>4
<1>6. PICK at, to, l, tok, off : at = ip' /\ to = op' /\ l = length' /\ tok = token' /\ off = offset'
  OBVIOUS
<1>7. at = g[1] /\ to = op + n /\ HeldIn(m, d, to)
  BY <1>3, <1>4, <1>6
<1>8. to = g[2] \/ (partial /\ next # "fast" /\ to = oend /\ oend <= g[2])
  <2>1. op \in Nat
    BY KnowsFacts
  <2>2. CASE n = len
    BY <1>4, <1>7, <2>2
  <2>3. CASE n # len
    <3>1. partial /\ next # "fast" /\ op + n = oend
      BY <1>2, <2>3
    <3>2. oend <= g[2]
      BY <1>2, <1>4, <2>1, <3>1
    <3> QED
      BY <1>7, <3>1, <3>2
  <2> QED
    BY <2>2, <2>3
<1>9. next \in Stages \ {"idle", "done"} /\ next # "literals" /\ next # "match"
      /\ next \notin {"fastMatch", "shortcut", "copyMatch", "match"}
  BY DEF Stages
<1>10. SafeAt(H, last, d, g, next, at, to, l, tok, off, m)
  BY <1>5, <1>7, <1>8, <1>9 DEF SafeAt
<1>11. next # "done"
  OBVIOUS
<1> QED
  BY <1>6, <1>10, <1>11 DEF Shown

(* On to the literals, or to the match, with what was read of its length.  *)
LEMMA LiteralsNext ==
  ASSUME NEW H, NEW last, NEW d, Knows(H, last, d), NEW h, Now(H, last, d, h),
         stage \in {"fast", "safe"}, token' = ByteAt(input, h[1]),
         GoTo("literals", LitFrom(input, h[1]), LitLen(input, h[1]))
  PROVE  Shown(H, last, d, stage', ip', op', length', token', offset', mem', result')
<1>1. PICK at, len, tok : at = ip' /\ len = length' /\ tok = token'
  OBVIOUS
<1>2. /\ stage' = "literals" /\ at = LitFrom(input, h[1]) /\ len = LitLen(input, h[1])
      /\ op' = op /\ offset' = offset /\ mem' = mem
  BY <1>1 DEF GoTo
<1>3. HeldIn(mem, d, op) /\ h \in H
  BY KnowsFacts
<1>4. /\ ~partial => \A g \in H : g[1] < h[1] => Passed(g[1])
      /\ op = h[2] \/ (partial /\ op = oend /\ oend <= h[2])
  BY DEF Now, SafeAt
<1>5. SafeAt(H, last, d, h, "literals", at, op, len, tok, offset, mem)
  BY <1>1, <1>2, <1>3, <1>4 DEF SafeAt, Stages
<1> QED
  BY <1>1, <1>2, <1>3, <1>5 DEF Shown

LEMMA MatchNext ==
  ASSUME NEW H, NEW last, NEW d, Knows(H, last, d), NEW h, Now(H, last, d, h),
         stage \in {"fastMatch", "copyMatch"}, ~partial => Passed(h[1]),
         GoTo("match", NextIp(input, h[1]), MatchLen(input, h[1]))
  PROVE  Shown(H, last, d, stage', ip', op', length', token', offset', mem', result')
<1>1. PICK at, len, tok : at = ip' /\ len = length' /\ tok = token'
  OBVIOUS
<1>2. /\ stage' = "match" /\ at = NextIp(input, h[1]) /\ len = MatchLen(input, h[1])
      /\ op' = op /\ offset' = offset /\ mem' = mem
  BY <1>1 DEF GoTo
<1>3. HeldIn(mem, d, op) /\ h \in H
  BY KnowsFacts
<1>4. /\ ~partial => \A g \in H : g[1] < h[1] => Passed(g[1])
      /\ offset = DistAt(input, h[1]) /\ op = LitOp(input, h) /\ (Sure(last) => h # last)
  BY DEF Now, SafeAt
<1>5. SafeAt(H, last, d, h, "match", at, op, len, tok, offset, mem)
  BY <1>1, <1>2, <1>3, <1>4 DEF SafeAt, Stages
<1> QED
  BY <1>1, <1>2, <1>3, <1>5 DEF Shown

-----------------------------------------------------------------------------
(* The steps of the safe decoder, and what each shows.                     *)
LEMMA LitNumbers ==
  ASSUME NEW H, NEW last, NEW d, Knows(H, last, d), NEW h, Now(H, last, d, h),
         stage \in {"fast", "safe"}
  PROVE  /\ ip = h[1] /\ ip < iend
         /\ LitCode(input, h[1]) \in 0 .. 15
         /\ LitCode(input, h[1]) # 15 => /\ LitFrom(input, h[1]) = ip + 1
                                         /\ LitLen(input, h[1]) <= 14
         /\ LitCode(input, h[1]) = 15 => LitLen(input, h[1]) >= 15
         /\ LiteralsLength.next \in Nat
         /\ ~LiteralsLength.ok => ~Sure(last)
<1>1. ip = h[1] /\ ip < iend
  BY KnowsFacts DEF Now, SafeAt, Margins
<1>2. /\ LitCode(input, h[1]) \in 0 .. 15
      /\ LitCode(input, h[1]) # 15 => /\ LitFrom(input, h[1]) = ip + 1
                                      /\ LitLen(input, h[1]) <= 14
      /\ LitCode(input, h[1]) = 15 => LitLen(input, h[1]) >= 15
  <2>1. input \in Seq(U8) /\ h[1] \in Nat
    BY KnowsFacts
  <2>2. /\ LitCode(input, h[1]) \in 0 .. 15
        /\ LitCode(input, h[1]) # 15 => /\ LitFrom(input, h[1]) = h[1] + 1
                                        /\ LitLen(input, h[1]) = LitCode(input, h[1])
        /\ LitCode(input, h[1]) = 15 => LitLen(input, h[1]) >= 15
    BY <2>1, SequenceNumbers
  <2> QED
    BY <1>1, <2>2
<1>3. LiteralsLength.next \in Nat
  BY <1>1, KnowsFacts, LiteralsRead
<1>4. ASSUME ~LiteralsLength.ok, Sure(last) PROVE FALSE
  <2>1. LitCode(input, h[1]) = MASK /\ ~(LitFrom(input, h[1]) <= iend - MASK)
    BY <1>1, <1>4, KnowsFacts, LitsAre
  <2>2. LitEnd(input, h[1]) <= iend
    BY <1>4, KnowsFacts, SureLits
  <2>3. /\ LitFrom(input, h[1]) \in Nat /\ LitLen(input, h[1]) \in Nat
        /\ LitEnd(input, h[1]) = LitFrom(input, h[1]) + LitLen(input, h[1])
    BY KnowsFacts, HeadIs
  <2>4. MASK = 15 /\ LitLen(input, h[1]) >= 15 /\ iend \in Nat
    BY <1>2, <2>1, KnowsFacts, FormatNumbers
  <2> QED
    BY <2>1, <2>2, <2>3, <2>4
<1> QED
  BY <1>1, <1>2, <1>3, <1>4

LEMMA FastLiteralsShown ==
  ASSUME NEW H, NEW last, NEW d, Knows(H, last, d), NEW h, Now(H, last, d, h), FastLiterals
  PROVE  Shown(H, last, d, stage', ip', op', length', token', offset', mem', result')
<1>1. stage = "fast" /\ token' = In(ip)
  BY DEF FastLiterals
<1>2. /\ ip = h[1] /\ ip < iend /\ LitCode(input, h[1]) \in 0 .. 15
      /\ LitCode(input, h[1]) # 15 => LitFrom(input, h[1]) = ip + 1 /\ LitLen(input, h[1]) <= 14
      /\ LitCode(input, h[1]) = 15 => LitLen(input, h[1]) >= 15
      /\ LiteralsLength.next \in Nat /\ (~LiteralsLength.ok => ~Sure(last))
  BY <1>1, LitNumbers
<1>3. op = h[2] /\ op + 64 <= oend
  BY <1>1, KnowsFacts, FormatNumbers DEF Now, SafeAt, Margins, Room
<1>4. PICK c \in 0 .. 15, f \in Nat, n \in Nat, e \in Nat, p \in Nat, z \in Nat, y \in Nat :
        /\ c = LitCode(input, h[1]) /\ f = LitFrom(input, h[1]) /\ n = LitLen(input, h[1])
        /\ e = LitEnd(input, h[1]) /\ p = op /\ z = oend /\ y = iend
        /\ e = f + n /\ LitOp(input, h) = p + n
  <2>1. op \in Nat /\ oend \in Nat /\ iend \in Nat
    BY KnowsFacts
  <2>2. /\ LitFrom(input, h[1]) \in Nat /\ LitLen(input, h[1]) \in Nat /\ LitEnd(input, h[1]) \in Nat
        /\ LitEnd(input, h[1]) = LitFrom(input, h[1]) + LitLen(input, h[1])
        /\ LitOp(input, h) = op + LitLen(input, h[1])
    BY <1>3, KnowsFacts, HeadIs
  <2> QED
    BY <1>2, <2>1, <2>2
<1>5. /\ In(ip) = ByteAt(input, h[1]) /\ In(ip) \div (MASK + 1) = c
      /\ LiteralsLength.ok => LiteralsLength.len = n /\ LiteralsLength.next = f
  BY <1>2, <1>4, KnowsFacts, LitsAre
<1>6. \/ ~LiteralsLength.ok /\ FailedAt(LiteralsLength.next)
      \/ LiteralsLength.ok /\ GoTo("literals", LiteralsLength.next, LiteralsLength.len)
      \/ /\ LiteralsLength.ok
         /\ IF c = MASK THEN /\ op + LiteralsLength.len <= oend - 32
                             /\ LiteralsLength.next + LiteralsLength.len <= iend - 32
            ELSE LiteralsLength.next <= iend - (16 + 1)
         /\ LiteralsThenOffset(LiteralsLength.next, LiteralsLength.len,
              IF c = MASK THEN Pieces(LiteralsLength.len, 32) ELSE 16, "fastMatch")
  BY <1>5 DEF FastLiterals
<1>7. CASE ~LiteralsLength.ok /\ FailedAt(LiteralsLength.next)
  <2>1. Returned(-LiteralsLength.next - 1)
    BY <1>7 DEF FailedAt
  <2> QED
    BY <1>2, <1>7, <2>1, FailShown
<1>8. CASE LiteralsLength.ok /\ GoTo("literals", LiteralsLength.next, LiteralsLength.len)
  <2>1. GoTo("literals", LitFrom(input, h[1]), LitLen(input, h[1]))
    BY <1>4, <1>5, <1>8
  <2>2. token' = ByteAt(input, h[1]) /\ stage \in {"fast", "safe"}
    BY <1>1, <1>5
  <2> QED
    BY <2>1, <2>2, LiteralsNext
<1>9. CASE /\ LiteralsLength.ok
           /\ IF c = MASK THEN /\ op + LiteralsLength.len <= oend - 32
                               /\ LiteralsLength.next + LiteralsLength.len <= iend - 32
              ELSE LiteralsLength.next <= iend - (16 + 1)
           /\ LiteralsThenOffset(LiteralsLength.next, LiteralsLength.len,
                IF c = MASK THEN Pieces(LiteralsLength.len, 32) ELSE 16, "fastMatch")
  <2>1. PICK k : k = IF c = MASK THEN Pieces(n, 32) ELSE 16
    OBVIOUS
  <2>2. IF c = 15 THEN p + n <= z - 32 /\ f + n <= y - 32 ELSE f <= y - 17 /\ n <= 14
    BY <1>2, <1>4, <1>5, <1>9, FormatNumbers
  <2>3. k \in Nat /\ n <= k /\ p + k <= z + 64
    <3>1. CASE c = MASK
      <4>1. PICK w \in Nat \ {0}, x \in Int : w = 32 /\ x = n
        OBVIOUS
      <4>2. /\ Pieces(x, w) \in Nat /\ x <= Pieces(x, w)
            /\ Pieces(x, w) <= IF x <= 0 THEN w ELSE x + w - 1
        BY PiecesBound, PiecesCover
      <4>3. k = Pieces(x, w)
        BY <2>1, <3>1, <4>1
      <4>4. p + n <= z - 32
        BY <2>2, <3>1, FormatNumbers
      <4> QED
        BY <4>1, <4>2, <4>3, <4>4
    <3>2. CASE c # MASK
      <4>1. k = 16 /\ n <= 14 /\ p + 64 <= z
        BY <1>3, <1>4, <2>1, <2>2, <3>2, FormatNumbers
      <4> QED
        BY <4>1
    <3> QED
      BY <3>1, <3>2
  <2>4. e < y /\ p + n < z
    <3>1. p + 64 <= z /\ e = f + n
      BY <1>3, <1>4
    <3> QED
      BY <2>2, <3>1
  <2>5. LiteralsThenOffset(LitFrom(input, h[1]), LitLen(input, h[1]), k, "fastMatch")
    BY <1>4, <1>5, <1>9, <2>1
  <2>6. /\ LitLen(input, h[1]) <= k /\ op + k <= oend + 64 /\ LitEnd(input, h[1]) < iend
        /\ LitOp(input, h) < oend /\ k \in Nat
    BY <1>4, <2>3, <2>4
  <2>7. token' = ByteAt(input, h[1]) /\ "fastMatch" \in {"fastMatch", "shortcut", "copyMatch"}
    BY <1>1, <1>5
  <2> QED
    BY <1>3, <2>5, <2>6, <2>7, LitsDone
<1> QED
  BY <1>6, <1>7, <1>8, <1>9

LEMMA SafeLiteralsShown ==
  ASSUME NEW H, NEW last, NEW d, Knows(H, last, d), NEW h, Now(H, last, d, h), SafeLiterals
  PROVE  Shown(H, last, d, stage', ip', op', length', token', offset', mem', result')
<1>1. stage = "safe" /\ token' = In(ip)
  BY DEF SafeLiterals
<1>2. /\ ip = h[1] /\ ip < iend /\ LitCode(input, h[1]) \in 0 .. 15
      /\ LitCode(input, h[1]) # 15 => LitFrom(input, h[1]) = ip + 1 /\ LitLen(input, h[1]) <= 14
      /\ LiteralsLength.next \in Nat /\ (~LiteralsLength.ok => ~Sure(last))
  BY <1>1, LitNumbers
<1>3. op = h[2] \/ op = oend
  BY <1>1 DEF Now, SafeAt
<1>4. /\ In(ip) = ByteAt(input, h[1]) /\ In(ip) \div (MASK + 1) = LitCode(input, h[1])
      /\ LiteralsLength.ok => /\ LiteralsLength.len = LitLen(input, h[1])
                              /\ LiteralsLength.next = LitFrom(input, h[1])
      /\ LitCode(input, h[1]) # MASK => LiteralsLength.ok
  BY <1>2, KnowsFacts, LitsAre
<1>5. \/ ~LiteralsLength.ok /\ FailedAt(LiteralsLength.next)
      \/ LiteralsLength.ok /\ GoTo("literals", LiteralsLength.next, LiteralsLength.len)
      \/ /\ LitCode(input, h[1]) # MASK /\ ip + 1 < iend - 14 - 2 /\ op <= oend - 14 - 18
         /\ LiteralsThenOffset(LiteralsLength.next, LiteralsLength.len, 16, "shortcut")
  BY <1>4 DEF SafeLiterals
<1>6. CASE ~LiteralsLength.ok /\ FailedAt(LiteralsLength.next)
  <2>1. Returned(-LiteralsLength.next - 1)
    BY <1>6 DEF FailedAt
  <2> QED
    BY <1>2, <1>6, <2>1, FailShown
<1>7. CASE LiteralsLength.ok /\ GoTo("literals", LiteralsLength.next, LiteralsLength.len)
  <2>1. GoTo("literals", LitFrom(input, h[1]), LitLen(input, h[1]))
    BY <1>4, <1>7
  <2>2. token' = ByteAt(input, h[1]) /\ stage \in {"fast", "safe"}
    BY <1>1, <1>4
  <2> QED
    BY <2>1, <2>2, LiteralsNext
<1>8. CASE /\ LitCode(input, h[1]) # MASK /\ ip + 1 < iend - 14 - 2 /\ op <= oend - 14 - 18
           /\ LiteralsThenOffset(LiteralsLength.next, LiteralsLength.len, 16, "shortcut")
  <2>1. LitFrom(input, h[1]) = ip + 1 /\ LitLen(input, h[1]) <= 14
    BY <1>2, <1>8, FormatNumbers
  <2>2. op \in Nat /\ oend \in Nat /\ iend \in Nat /\ ip \in Nat
    BY KnowsFacts
  <2>3. op = h[2]
    BY <1>3, <1>8, <2>2
  <2>4. /\ LitLen(input, h[1]) \in Nat
        /\ LitEnd(input, h[1]) = LitFrom(input, h[1]) + LitLen(input, h[1])
        /\ LitOp(input, h) = op + LitLen(input, h[1])
    BY <2>3, KnowsFacts, HeadIs
  <2>5. /\ LitLen(input, h[1]) <= 16 /\ op + 16 <= oend + 64 /\ LitEnd(input, h[1]) < iend
        /\ LitOp(input, h) < oend /\ 16 \in Nat
    BY <1>8, <2>1, <2>2, <2>4
  <2>6. LiteralsThenOffset(LitFrom(input, h[1]), LitLen(input, h[1]), 16, "shortcut")
    BY <1>4, <1>8
  <2>7. token' = ByteAt(input, h[1]) /\ "shortcut" \in {"fastMatch", "shortcut", "copyMatch"}
    BY <1>1, <1>4
  <2> QED
    BY <2>3, <2>5, <2>6, <2>7, LitsDone
<1> QED
  BY <1>5, <1>6, <1>7, <1>8

LEMMA AtLiterals ==
  ASSUME NEW H, NEW last, NEW d, Knows(H, last, d), NEW h, Now(H, last, d, h),
         stage = "literals"
  PROVE  /\ ip = LitFrom(input, h[1]) /\ length = LitLen(input, h[1]) /\ token = ByteAt(input, h[1])
         /\ h[2] \in Nat /\ ip <= iend
         /\ LitEnd(input, h[1]) = ip + length /\ LitOp(input, h) = h[2] + length
         /\ op = h[2] \/ (partial /\ op = oend /\ oend <= h[2])
         /\ LastLiteralsOrNone <=> op + length > oend - MFLIMIT \/ ip + length > iend - 8
<1>1. /\ ip = LitFrom(input, h[1]) /\ length = LitLen(input, h[1]) /\ token = ByteAt(input, h[1])
      /\ op = h[2] \/ (partial /\ op = oend /\ oend <= h[2])
  BY DEF Now, SafeAt
<1>2. ip <= iend
  BY KnowsFacts DEF Margins
<1>3. /\ h[2] \in Nat /\ LitEnd(input, h[1]) = LitFrom(input, h[1]) + LitLen(input, h[1])
      /\ LitOp(input, h) = h[2] + LitLen(input, h[1])
  BY KnowsFacts, HeadIs
<1>4. LastLiteralsOrNone <=> op + length > oend - MFLIMIT \/ ip + length > iend - 8
  <2>1. op \in Nat /\ length \in Nat /\ oend \in Nat /\ ip \in Nat /\ iend \in Nat
    BY KnowsFacts
  <2>2. LastLiteralsOrNone <=> op + length > oend - MFLIMIT \/ ip + length > iend - (2 + 1 + LASTLITERALS)
    BY DEF LastLiteralsOrNone
  <2> QED
    BY ONLY <2>1, <2>2, FormatNumbers
<1> QED
  BY <1>1, <1>2, <1>3, <1>4

LEMMA CopyLiteralsShown ==
  ASSUME NEW H, NEW last, NEW d, Knows(H, last, d), NEW h, Now(H, last, d, h), CopyLiterals
  PROVE  Shown(H, last, d, stage', ip', op', length', token', offset', mem', result')
<1>1. stage = "literals" /\ ~LastLiteralsOrNone /\ token' = token
      /\ LiteralsThenOffset(ip, length, Pieces(length, WILDCOPYLENGTH), "copyMatch")
  BY DEF CopyLiterals
<1>2. /\ ip = LitFrom(input, h[1]) /\ length = LitLen(input, h[1]) /\ token = ByteAt(input, h[1])
      /\ h[2] \in Nat /\ ip <= iend
      /\ LitEnd(input, h[1]) = ip + length /\ LitOp(input, h) = h[2] + length
      /\ op = h[2] \/ op = oend
      /\ LastLiteralsOrNone <=> op + length > oend - MFLIMIT \/ ip + length > iend - 8
  BY <1>1, AtLiterals
<1>3. op \in Nat /\ oend \in Nat /\ iend \in Nat /\ ip \in Nat /\ length \in Nat
  BY KnowsFacts
<1>4. op + length <= oend - 9 /\ ip + length <= iend - 8
  BY <1>1, <1>2, <1>3, FormatNumbers
<1>5. op = h[2]
  BY <1>2, <1>3, <1>4
<1>6. PICK w \in Nat \ {0}, x \in Int : w = 8 /\ x = length
  BY <1>3
<1>7. PICK k : k = Pieces(x, w)
  OBVIOUS
<1>8. k \in Nat /\ x <= k /\ k <= IF x <= 0 THEN w ELSE x + w - 1
  BY <1>7, PiecesBound, PiecesCover
<1>9. LitLen(input, h[1]) <= k /\ op + k <= oend + 64
  BY <1>2, <1>3, <1>4, <1>6, <1>8
<1>10. LitEnd(input, h[1]) < iend /\ LitOp(input, h) < oend
  BY <1>2, <1>3, <1>4, <1>5
<1>11. LiteralsThenOffset(LitFrom(input, h[1]), LitLen(input, h[1]), k, "copyMatch")
  BY <1>1, <1>2, <1>6, <1>7, FormatNumbers
<1>12. token' = ByteAt(input, h[1]) /\ "copyMatch" \in {"fastMatch", "shortcut", "copyMatch"}
  BY <1>1, <1>2
<1> QED
  BY <1>5, <1>8, <1>9, <1>10, <1>11, <1>12, LitsDone

(* If the literals end with the input, they are the last ones.             *)
LEMMA EndsHere ==
  ASSUME NEW H, NEW last, NEW d, Knows(H, last, d), NEW h, Now(H, last, d, h), ~partial,
         LitEnd(input, h[1]) = iend
  PROVE  h = last
<1>1. iend = srcSize /\ iend \in Nat
  BY KnowsFacts
<1> SUFFICES ASSUME h # last PROVE FALSE
  OBVIOUS
<1>2. /\ Given /\ H \in SUBSET (Nat \X Nat) /\ last \in H /\ Block(H, last, d) /\ h \in H /\ h # last
  BY KnowsFacts
<1>3. NextIp(input, h[1]) <= srcSize
  BY ONLY <1>2, HeadFacts DEF Goes
<1>4. NextIp(input, h[1]) >= LitEnd(input, h[1]) + 2 /\ NextIp(input, h[1]) \in Nat
  BY KnowsFacts, HeadIs
<1> QED
  BY <1>1, <1>3, <1>4

LEMMA LastLiteralsShown ==
  ASSUME NEW H, NEW last, NEW d, Knows(H, last, d), NEW h, Now(H, last, d, h), LastLiterals
  PROVE  Shown(H, last, d, stage', ip', op', length', token', offset', mem', result')
<1>1. /\ stage = "literals" /\ LastLiteralsOrNone /\ ~partial
      /\ IF ip + length # iend \/ op + length > oend THEN Returned(-ip - 1)
         ELSE mem' = Put(mem, op, Input(ip, length)) /\ Returned(op + length)
  BY DEF LastLiterals, Failed
<1>2. /\ ip = LitFrom(input, h[1]) /\ length = LitLen(input, h[1])
      /\ LitEnd(input, h[1]) = ip + length /\ LitOp(input, h) = op + length /\ op = h[2]
      /\ op + length > oend - MFLIMIT \/ ip + length > iend - 8
  BY <1>1, AtLiterals
<1>3. /\ op \in Nat /\ oend \in Nat /\ iend \in Nat /\ ip \in Nat /\ length \in Nat
      /\ iend = srcSize /\ oend = capacity
  BY <1>1, KnowsFacts
<1>4. CASE ip + length # iend \/ op + length > oend
  <2>1. Returned(-ip - 1)
    BY <1>1, <1>4
  <2>2. ~Sure(last)
    <3> SUFFICES ASSUME Sure(last) PROVE FALSE
      OBVIOUS
    <3>1. EndsWell(last)
      BY <1>1 DEF Sure
    <3>2. CASE h = last
      <4>1. LitEnd(input, h[1]) = srcSize /\ LitOp(input, h) = capacity
        BY <3>1, <3>2 DEF EndsWell
      <4> QED
        BY <1>2, <1>3, <1>4, <4>1
    <3>3. CASE h # last
      <4>1. /\ Given /\ H \in SUBSET (Nat \X Nat) /\ last \in H /\ Block(H, last, d) /\ h \in H
        BY KnowsFacts
      <4>2. LitEnd(input, h[1]) + 8 <= srcSize
        BY ONLY <3>1, <3>3, <4>1, EndsReached
      <4>3. LitOp(input, h) + MFLIMIT <= capacity
        BY ONLY <3>3, <4>1, HeadFacts DEF Goes
      <4>4. ip + length + 8 <= iend /\ op + length + MFLIMIT <= oend
        BY <1>2, <1>3, <4>2, <4>3, FormatNumbers
      <4> QED
        BY <1>2, <1>3, <4>4, FormatNumbers
    <3> QED
      BY <3>2, <3>3
  <2> QED
    BY <1>3, <2>1, <2>2, FailShown
<1>5. CASE ~(ip + length # iend \/ op + length > oend)
  <2>1. mem' = Put(mem, op, Input(ip, length)) /\ Returned(op + length)
    BY <1>1, <1>5
  <2>2. h = last
    BY <1>1, <1>2, <1>5, EndsHere
  <2>3. LitEnd(input, last[1]) = srcSize /\ LitOp(input, last) = op + length /\ op + length <= capacity
    BY <1>2, <1>3, <1>5, <2>2
  <2>4. Complete(last)
    BY <1>3, <2>3 DEF Complete
  <2>5. LitsShown(input, d, h)
    BY <2>2, <2>4, KnowsFacts DEF Block
  <2>6. PICK m, r : m = mem' /\ r = result' /\ r = op + length
    BY <2>1 DEF Returned
  <2>7. HeldIn(m, d, op + length)
    <3>1. Given /\ Here /\ HeldIn(mem, d, op) /\ h \in Nat \X Nat
      BY KnowsFacts
    <3>2. length \in Nat /\ op + length <= oend + 64 /\ length <= length
          /\ length <= LitLen(input, h[1]) /\ op = h[2]
      BY <1>2, <1>3, <1>5
    <3>3. HeldIn(Put(mem, op, Input(LitFrom(input, h[1]), length)), d, op + length)
      BY ONLY <2>5, <3>1, <3>2, LitsHeld
    <3> QED
      BY <1>2, <2>1, <2>6, <3>3
  <2>8. Reached(H, last, op + length)
    <3>1. ASSUME NEW g \in H, g # last PROVE Passed(g[1])
      <4>1. /\ Given /\ H \in SUBSET (Nat \X Nat) /\ last \in H /\ Block(H, last, d)
        BY KnowsFacts
      <4>2. g[1] < last[1]
        BY ONLY <3>1, <4>1, HeadFacts
      <4> QED
        BY <1>1, <2>2, <4>2 DEF Now, SafeAt
    <3> QED
      BY <2>3, <3>1 DEF Reached
  <2>9. EndsWell(last) => op + length = oend
    BY <1>3, <2>3 DEF EndsWell
  <2>10. Ended(H, last, d, r, m)
    <3>1. HeldIn(m, d, r) /\ Reached(H, last, r) /\ (EndsWell(last) => r = oend)
      BY <2>6, <2>7, <2>8, <2>9
    <3> QED
      BY <1>1, <3>1 DEF Ended
  <2>11. stage' = "done"
    BY <2>1 DEF Returned
  <2> QED
    BY <2>6, <2>10, <2>11 DEF Shown
<1> QED
  BY <1>4, <1>5

(* How far the output goes, at least and at most.                          *)
LEMMA SureEnd ==
  ASSUME Given, NEW H \in SUBSET (Nat \X Nat), NEW last \in H, NEW d, Block(H, last, d),
         Sized(H, last, d), Sure(last), NEW h \in H
  PROVE  \E r \in Nat :
           /\ Reached(H, last, r) /\ LitOp(input, h) <= r /\ (h = last => LitOp(input, h) = r)
           /\ h # last => NextOp(input, h) <= r
           /\ IF partial THEN r = whole.result ELSE r = oend /\ iend = srcSize
<1>1. PICK r \in Nat : /\ Reached(H, last, r)
                       /\ IF partial THEN r = whole.result ELSE r = oend /\ iend = srcSize
  BY SureFacts
<1>2. LitOp(input, last) = r
  BY <1>1 DEF Reached
<1>3. CASE h = last
  BY <1>1, <1>2, <1>3
<1>4. CASE h # last
  <2>1. PICK p, q, o, n, m : /\ p = LitOp(input, h) /\ q = NextOp(input, h) /\ o = last[2]
                             /\ n = LitLen(input, last[1]) /\ m = MatchLen(input, h[1])
    OBVIOUS
  <2>2. q <= o
    BY <1>4, <2>1, HeadFacts
  <2>3. p \in Nat /\ q \in Nat /\ o \in Nat /\ n \in Nat /\ m \in Nat /\ q = p + m
    <3>1. h \in Nat \X Nat /\ last \in Nat \X Nat
      OBVIOUS
    <3> QED
      BY <2>1, <3>1, HeadIs
  <2>4. r = o + n
    <3>1. last \in Nat \X Nat
      OBVIOUS
    <3> QED
      BY <1>2, <2>1, <3>1, HeadIs
  <2>5. p <= r /\ q <= r
    BY <2>2, <2>3, <2>4
  <2> QED
    BY <1>1, <1>4, <2>1, <2>5
<1> QED
  BY <1>3, <1>4

LEMMA SmallerOf ==
  ASSUME NEW a \in Nat, NEW b \in Nat
  PROVE  Min({a, b}) = IF a <= b THEN a ELSE b
<1>1. Min({a, b}) \in {a, b} /\ \A y \in {a, b} : Min({a, b}) <= y
  <2>1. {a, b} \subseteq Nat /\ {a, b} # {}
    OBVIOUS
  <2> QED
    BY <2>1, MinOfNaturals
<1> DEFINE m == Min({a, b})
<1>2. m \in {a, b} /\ m <= a /\ m <= b
  BY <1>1
<1> HIDE DEF m
<1>3. m = IF a <= b THEN a ELSE b
  BY <1>2
<1> QED
  BY <1>3 DEF m

(* What it returns when it is done with a part of a block.                 *)
LEMMA PartialDone ==
  ASSUME NEW H, NEW last, NEW d, Knows(H, last, d), NEW h, Now(H, last, d, h), partial,
         NEW r \in Nat, Returned(r), NEW m, m = mem', HeldIn(m, d, r),
         NEW w \in Nat, w = whole.result, (r = oend /\ oend <= w) \/ (r = w /\ w <= oend)
  PROVE  Shown(H, last, d, stage', ip', op', length', token', offset', mem', result')
<1>1. oend \in Nat
  BY KnowsFacts
<1>2. r = Min({oend, w})
  BY <1>1, SmallerOf
<1>3. stage' = "done" /\ result' = r
  BY DEF Returned
<1>4. Ended(H, last, d, r, m)
  BY <1>2 DEF Ended
<1> QED
  BY <1>3, <1>4 DEF Shown

LEMMA PartialLiteralsShown ==
  ASSUME NEW H, NEW last, NEW d, Knows(H, last, d), NEW h, Now(H, last, d, h), PartialLiterals
  PROVE  Shown(H, last, d, stage', ip', op', length', token', offset', mem', result')
<1>1. PICK n : n = LiteralsLeft
  OBVIOUS
<1>2. /\ stage = "literals" /\ partial /\ token' = token
      /\ IF op + n = oend \/ ip + n >= iend - 2
           THEN mem' = Put(mem, op, Input(ip, n)) /\ Returned(op + n)
           ELSE LiteralsThenOffset(ip, n, n, "copyMatch")
  BY <1>1 DEF PartialLiterals
<1>3. /\ ip = LitFrom(input, h[1]) /\ length = LitLen(input, h[1]) /\ token = ByteAt(input, h[1])
      /\ h[2] \in Nat /\ ip <= iend
      /\ LitEnd(input, h[1]) = ip + length /\ LitOp(input, h) = h[2] + length
      /\ op = h[2] \/ (op = oend /\ oend <= h[2])
  BY <1>2, AtLiterals
<1>4. /\ op \in Nat /\ oend \in Nat /\ iend \in Nat /\ ip \in Nat /\ length \in Nat
      /\ op <= oend
  BY KnowsFacts
<1>5. Sure(last)
  BY <1>2, KnowsFacts DEF Sure
<1>6. /\ LitEnd(input, h[1]) <= iend /\ LitsShown(input, d, h)
      /\ h # last => LitEnd(input, h[1]) + 3 <= iend
      /\ LitEnd(input, h[1]) < iend /\ LitOp(input, h) < oend => h # last
  BY <1>5, KnowsFacts, SureLits
<1>7. PICK r \in Nat : /\ LitOp(input, h) <= r /\ (h = last => LitOp(input, h) = r)
                       /\ r = whole.result
  <2>1. /\ Given /\ H \in SUBSET (Nat \X Nat) /\ last \in H /\ Block(H, last, d)
        /\ Sized(H, last, d) /\ h \in H
    BY KnowsFacts
  <2>2. \E r \in Nat :
           /\ Reached(H, last, r) /\ LitOp(input, h) <= r /\ (h = last => LitOp(input, h) = r)
           /\ h # last => NextOp(input, h) <= r
           /\ IF partial THEN r = whole.result ELSE r = oend /\ iend = srcSize
    BY ONLY <1>5, <2>1, SureEnd
  <2> QED
    BY <1>2, <2>2
<1>8. n \in Nat /\ n <= length /\ op + n <= oend /\ (n = length \/ op + n = oend)
  <2> DEFINE T == {length, iend - ip, oend - op}
  <2>1. iend - ip \in Nat /\ iend - ip >= length /\ oend - op \in Nat
    BY <1>3, <1>4, <1>6
  <2>2. T \subseteq Nat /\ T # {} /\ length \in T /\ oend - op \in T
    BY <1>4, <2>1
  <2>3. n = Min(T)
    BY <1>1 DEF LiteralsLeft
  <2>4. \A y \in T : y = length \/ y = iend - ip \/ y = oend - op
    OBVIOUS
  <2> HIDE DEF T
  <2>5. n \in T /\ n <= length /\ n <= oend - op
    BY <2>2, <2>3, MinOfNaturals
  <2>6. n = length \/ n = iend - ip \/ n = oend - op
    BY <2>4, <2>5
  <2>7. n \in Nat
    BY <2>2, <2>5
  <2> QED
    BY <1>4, <2>1, <2>5, <2>6, <2>7
<1>9. ASSUME op = h[2]
      PROVE  HeldIn(Put(mem, op, Input(ip, n)), d, op + n)
  <2>1. Given /\ Here /\ HeldIn(mem, d, op) /\ h \in Nat \X Nat
    BY KnowsFacts
  <2>2. n \in Nat /\ op + n <= oend + 64 /\ n <= n /\ n <= LitLen(input, h[1]) /\ op = h[2]
    BY <1>3, <1>4, <1>8, <1>9
  <2>3. LitsShown(input, d, h)
    BY <1>6
  <2>4. HeldIn(Put(mem, op, Input(LitFrom(input, h[1]), n)), d, op + n)
    BY ONLY <2>1, <2>2, <2>3, LitsHeld
  <2> QED
    BY <1>3, <2>4
<1>10. CASE op + n = oend \/ ip + n >= iend - 2
  <2>1. PICK m : m = mem' /\ m = Put(mem, op, Input(ip, n))
    BY <1>2, <1>10
  <2>2. Returned(op + n) /\ op + n \in Nat
    BY <1>2, <1>4, <1>8, <1>10
  <2>3. HeldIn(m, d, op + n)
    <3>1. CASE op = h[2]
      BY <1>9, <2>1, <3>1
    <3>2. CASE op = oend
      <4>1. n = 0
        BY <1>4, <1>8, <3>2
      <4> DEFINE b == Input(ip, n)
      <4>2. op \in Int /\ op >= op /\ DOMAIN b \subseteq Nat \ {0} /\ Stays(mem)
        BY <1>4, <1>8 DEF Stays, Input
      <4> HIDE DEF b
      <4>3. Stays(Put(mem, op, b))
        BY <4>2, PutStays, KnowsFacts
      <4>4. Stays(m)
        BY <2>1, <4>3 DEF b
      <4>5. Here /\ HeldIn(mem, d, op)
        BY KnowsFacts
      <4>6. HeldIn(m, d, op)
        BY ONLY <4>4, <4>5, HeldStays
      <4>7. op + n = op
        BY <1>4, <4>1
      <4> QED
        BY <4>6, <4>7
    <3> QED
      BY <1>3, <3>1, <3>2
  <2>4. (op + n = oend /\ oend <= r) \/ (op + n = r /\ r <= oend)
    <3>1. CASE op + n = oend
      <4>1. oend <= r
        BY <1>3, <1>4, <1>7, <1>8, <3>1
      <4> QED
        BY <3>1, <4>1
    <3>2. CASE op + n # oend
      <4>1. n = length /\ op = h[2]
        BY <1>3, <1>4, <1>8, <3>2
      <4>2. h = last
        BY <1>3, <1>4, <1>6, <1>10, <3>2, <4>1
      <4>3. op + n = r
        BY <1>3, <1>7, <4>1, <4>2
      <4> QED
        BY <1>8, <4>3
    <3> QED
      BY <3>1, <3>2
  <2>5. r = whole.result
    BY <1>7
  <2> QED
    BY <1>2, <2>1, <2>2, <2>3, <2>4, <2>5, PartialDone
<1>11. CASE ~(op + n = oend \/ ip + n >= iend - 2)
  <2>1. LiteralsThenOffset(ip, n, n, "copyMatch")
    BY <1>2, <1>11
  <2>2. n = length /\ op = h[2]
    BY <1>3, <1>4, <1>8, <1>11
  <2>3. LitLen(input, h[1]) <= n /\ op + n <= oend + 64 /\ n \in Nat
        /\ LitEnd(input, h[1]) < iend /\ LitOp(input, h) < oend
    BY <1>3, <1>4, <1>8, <1>11, <2>2
  <2>4. LiteralsThenOffset(LitFrom(input, h[1]), LitLen(input, h[1]), n, "copyMatch")
    BY <1>3, <2>1, <2>2
  <2>5. token' = ByteAt(input, h[1]) /\ "copyMatch" \in {"fastMatch", "shortcut", "copyMatch"}
    BY <1>2, <1>3
  <2> QED
    BY <2>2, <2>3, <2>4, <2>5, LitsDone
<1> QED
  BY <1>10, <1>11

-----------------------------------------------------------------------------
(* The copies of matches, in the ways that the steps choose among.         *)
LEMMA FromExtStays ==
  ASSUME Here, Given, match < lowPrefix, NEW n \in Nat
  PROVE  Stays(FromExt(n))
<1>1. PICK k \in Nat, e \in Nat, p \in Nat : k = lowPrefix - match /\ e = Len(ext) /\ p = op
  <2>1. Len(prefix) \in Nat /\ op \in Nat /\ offset \in Nat /\ Len(ext) \in Nat
    BY DEF Here, Sizes, Given
  <2>2. lowPrefix - match \in Nat
    BY <2>1 DEF lowPrefix, match
  <2> QED
    BY <2>1, <2>2
<1>2. Stays(mem) /\ op \in Int /\ op >= op /\ op + k \in Int /\ op + k >= op /\ n - k \in Int
  BY <1>1 DEF Stays
<1>3. CASE n <= k
  <2> DEFINE first == SubSeq(ext, Len(ext) - k + 1, Len(ext) - k + n)
  <2>1. /\ Len(ext) - k + 1 \in Int /\ Len(ext) - k + n \in Int
        /\ (Len(ext) - k + n) - (Len(ext) - k + 1) + 1 <= n /\ 0 <= n
    BY <1>1
  <2>2. DOMAIN first \subseteq 1 .. n
    BY <2>1, PieceOfExt
  <2> HIDE DEF first
  <2>3. DOMAIN first \subseteq Nat \ {0}
    BY <2>2
  <2>4. Stays(Put(mem, op, first))
    BY <1>2, <2>3, PutStays
  <2> QED
    BY <1>1, <1>3, <2>4 DEF FromExt, first
<1>4. CASE ~(n <= k)
  <2> DEFINE first == SubSeq(ext, Len(ext) - k + 1, Len(ext))
  <2>1. /\ Len(ext) - k + 1 \in Int /\ Len(ext) \in Int
        /\ Len(ext) - (Len(ext) - k + 1) + 1 <= k /\ 0 <= k
    BY <1>1
  <2>2. DOMAIN first \subseteq 1 .. k
    BY <2>1, PieceOfExt
  <2> HIDE DEF first
  <2>3. DOMAIN first \subseteq Nat \ {0}
    BY <2>2
  <2>4. Stays(Put(mem, op, first))
    BY <1>2, <2>3, PutStays
  <2>5. Stays(Overlapping(Put(mem, op, first), op + k, op + k - lowPrefix, n - k))
    BY <1>2, <2>4, OverlappingStays
  <2> QED
    BY <1>1, <1>4, <2>5 DEF FromExt, first
<1> QED
  BY <1>3, <1>4

LEMMA ThreePiecesStays ==
  ASSUME Here
  PROVE  Stays(ThreePieces)
<1>1. Stays(mem) /\ op \in Int /\ op >= op /\ op + 8 \in Int /\ op + 8 >= op
      /\ op + 16 \in Int /\ op + 16 >= op /\ 8 \in Int /\ 2 \in Int
  BY DEF Here, Stays
<1>2. Stays(Copy(mem, op, match, 8))
  BY <1>1, CopyStays
<1>3. Stays(Copy(Copy(mem, op, match, 8), op + 8, match + 8, 8))
  BY <1>1, <1>2, CopyStays
<1>4. Stays(Copy(Copy(Copy(mem, op, match, 8), op + 8, match + 8, 8), op + 16, match + 16, 2))
  BY <1>1, <1>3, CopyStays
<1> QED
  BY <1>4 DEF ThreePieces

LEMMA WildCopy32Stays ==
  ASSUME Here, NEW n \in Nat
  PROVE  Stays(WildCopy32(mem, op, match, op + n))
<1>1. Stays(mem) /\ op \in Int /\ op >= op
  BY DEF Here, Stays
<1>2. PICK w \in Nat \ {0}, x \in Int : w = 32 /\ x = n
  OBVIOUS
<1>3. Pieces(x, w) \in Nat
  BY PiecesBound
<1>4. (op + n) - op = x
  BY <1>1, <1>2
<1>5. op + Pieces((op + n) - op, 32) \in Int
  BY <1>1, <1>2, <1>3, <1>4
<1>6. 16 \in Nat \ {0}
  OBVIOUS
<1>7. Stays(CopyPieces(mem, op, match, op + Pieces((op + n) - op, 32), 16))
  BY <1>1, <1>5, <1>6, CopyPiecesStays
<1> QED
  BY <1>7 DEF WildCopy32

FastCopy(n) ==
  IF length # MASK /\ InThreePieces THEN ThreePieces
  ELSE IF match < lowPrefix THEN FromExt(n)
  ELSE IF offset < 16 THEN CopyUsingOffset(mem, op + n)
  ELSE WildCopy32(mem, op, match, op + n)

LEMMA FastCopyStays ==
  ASSUME Here, Given, NEW n \in Nat
  PROVE  Stays(FastCopy(n))
<1>1. CASE length # MASK /\ InThreePieces
  BY <1>1, ThreePiecesStays DEF FastCopy
<1>2. CASE ~(length # MASK /\ InThreePieces) /\ match < lowPrefix
  <2>1. Stays(FromExt(n))
    BY <1>2, FromExtStays
  <2> QED
    BY <1>2, <2>1 DEF FastCopy
<1>3. CASE ~(length # MASK /\ InThreePieces) /\ ~(match < lowPrefix) /\ offset < 16
  <2>1. op + n \in Int
    BY DEF Here
  <2>2. Stays(CopyUsingOffset(mem, op + n))
    BY <2>1, CopyUsingOffsetStays
  <2> QED
    BY <1>3, <2>2 DEF FastCopy
<1>4. CASE ~(length # MASK /\ InThreePieces) /\ ~(match < lowPrefix) /\ ~(offset < 16)
  <2>1. Stays(WildCopy32(mem, op, match, op + n))
    BY WildCopy32Stays
  <2> QED
    BY <1>4, <2>1 DEF FastCopy
<1> QED
  BY <1>1, <1>2, <1>3, <1>4

LEMMA FastCopyRepeats ==
  ASSUME Here, Given, offset # 0, NEW n \in Nat, op + n + 64 <= oend,
         length # MASK => n <= 18, match < lowPrefix => lowPrefix - match <= Len(ext)
  PROVE  Repeats(FastCopy(n), n)
<1>1. op \in Nat /\ oend \in Nat /\ offset \in Nat /\ Len(prefix) \in Nat
  BY DEF Here, Sizes
<1>2. CASE length # MASK /\ InThreePieces
  <2>1. offset >= 8 /\ match >= lowPrefix /\ op + 18 <= oend /\ n <= 18
    BY <1>1, <1>2 DEF InThreePieces
  <2>2. Repeats(ThreePieces, 18)
    BY <2>1, ThreePiecesRepeat
  <2>3. Repeats(ThreePieces, n)
    BY <2>1, <2>2, RepeatsLess
  <2> QED
    BY <1>2, <2>3 DEF FastCopy
<1>3. CASE ~(length # MASK /\ InThreePieces) /\ match < lowPrefix
  <2>1. lowPrefix - match <= Len(ext) /\ op + n <= oend /\ match < lowPrefix
    BY <1>1, <1>3
  <2>2. Repeats(FromExt(n), n)
    BY <2>1, FromExtRepeats
  <2> QED
    BY <1>3, <2>2 DEF FastCopy
<1>4. ~(match < lowPrefix) => match >= lowPrefix
  BY <1>1 DEF match, lowPrefix
<1>5. CASE ~(length # MASK /\ InThreePieces) /\ ~(match < lowPrefix) /\ offset < 16
  <2>1. Repeats(CopyUsingOffset(mem, op + n), n)
    BY <1>4, <1>5, CopyUsingOffsetRepeats
  <2> QED
    BY <1>5, <2>1 DEF FastCopy
<1>6. CASE ~(length # MASK /\ InThreePieces) /\ ~(match < lowPrefix) /\ ~(offset < 16)
  <2>1. offset >= 16
    BY <1>1, <1>6
  <2>2. Repeats(WildCopy32(mem, op, match, op + n), n)
    BY <1>4, <1>6, <2>1, WildCopy32Repeats
  <2> QED
    BY <1>6, <2>2 DEF FastCopy
<1> QED
  BY <1>2, <1>3, <1>5, <1>6

(* Where it is when a match is to be copied.                               *)
LEMMA MatchNow ==
  ASSUME NEW H, NEW last, NEW d, Knows(H, last, d), NEW h, Now(H, last, d, h),
         stage \in {"fastMatch", "shortcut", "copyMatch", "match"}
  PROVE  /\ op = LitOp(input, h) /\ offset = DistAt(input, h[1]) /\ offset < 256 * 256
         /\ Sure(last) => h # last
         /\ h # last => offset <= op + Len(Dict)
         /\ OutsideBuffers => ~Sure(last)
         /\ ~OutsideBuffers \/ match >= lowPrefix => offset <= op + Len(Dict)
         /\ offset <= op + Len(Dict) => (match < lowPrefix => lowPrefix - match <= Len(ext))
<1>1. /\ op = LitOp(input, h) /\ offset = DistAt(input, h[1]) /\ (Sure(last) => h # last)
  BY DEF Now, SafeAt
<1>2. offset < 256 * 256
  <2>1. input \in Seq(U8) /\ h[1] \in Nat
    BY KnowsFacts
  <2> QED
    BY <1>1, <2>1, DistanceNumbers
<1>3. h # last => offset <= op + Len(Dict)
  <2>1. /\ Given /\ H \in SUBSET (Nat \X Nat) /\ last \in H /\ Block(H, last, d) /\ h \in H
    BY KnowsFacts
  <2>2. h # last => DistAt(input, h[1]) <= LitOp(input, h) + Len(Dict)
    BY ONLY <2>1, HeadFacts DEF Goes
  <2> QED
    BY <1>1, <2>2
<1>4. PICK e \in Nat, l \in Nat, p \in Nat, o \in Nat :
        e = Len(ext) /\ l = Len(prefix) /\ p = op /\ o = offset
  BY KnowsFacts, DictLength
<1>5. Len(Dict) = e + l /\ lowPrefix = 0 - l /\ match = p - o
  BY <1>4, KnowsFacts, DictLength DEF lowPrefix, match
<1>6. checkOffset <=> e < 256 * 256
  BY <1>4, FormatNumbers DEF checkOffset
<1>7. OutsideBuffers <=> e < 256 * 256 /\ (p - o) + e < 0 - l
  BY <1>4, <1>5, <1>6 DEF OutsideBuffers
<1>8. o < 256 * 256
  BY <1>2, <1>4
<1>9. OutsideBuffers => ~(offset <= op + Len(Dict))
  BY <1>4, <1>5, <1>7
<1>10. ~OutsideBuffers \/ match >= lowPrefix => offset <= op + Len(Dict)
  <2>1. PICK k \in Nat : k = 256 * 256
    OBVIOUS
  <2>2. ~OutsideBuffers \/ p - o >= 0 - l => o <= p + (e + l)
    BY <1>7, <1>8, <2>1
  <2> QED
    BY <1>4, <1>5, <2>2
<1>11. offset <= op + Len(Dict) => (match < lowPrefix => lowPrefix - match <= Len(ext))
  BY <1>4, <1>5
<1> QED
  BY <1>1, <1>2, <1>3, <1>9, <1>10, <1>11

(* And what the length says that is read of it.                            *)
LEMMA LengthNow ==
  ASSUME NEW H, NEW last, NEW d, Knows(H, last, d), NEW h, Now(H, last, d, h),
         stage \in {"fastMatch", "copyMatch"}
  PROVE  /\ length \in 0 .. 15 /\ (length # 15 => MatchLen(input, h[1]) <= 18)
         /\ MatchLength(length).next \in Nat
         /\ MatchLength(length).ok =>
              /\ MatchLength(length).len + MINMATCH = MatchLen(input, h[1])
              /\ MatchLength(length).next = NextIp(input, h[1])
              /\ NextIp(input, h[1]) < iend /\ (~partial => Passed(h[1]))
         /\ ~MatchLength(length).ok => ~Sure(last)
<1>1. ip = LitEnd(input, h[1]) + 2 /\ length = MatchCode(input, h[1])
      /\ (Sure(last) => h # last)
  BY DEF Now, SafeAt
<1>2. /\ MatchLength(length).ok <=>
           (MatchCode(input, h[1]) = MASK => NextIp(input, h[1]) <= iend - LASTLITERALS + 1)
      /\ MatchLength(length).ok => /\ MatchLength(length).len + MINMATCH = MatchLen(input, h[1])
                                   /\ MatchLength(length).next = NextIp(input, h[1])
  <2>1. Given /\ iend \in Nat /\ h \in Nat \X Nat
    BY KnowsFacts
  <2> QED
    BY ONLY <1>1, <2>1, MatchIs
<1>3. length \in 0 .. 15 /\ (length # 15 => MatchLen(input, h[1]) <= 18)
  <2>1. input \in Seq(U8) /\ h[1] \in Nat
    BY KnowsFacts
  <2>2. /\ MatchCode(input, h[1]) \in 0 .. 15
        /\ MatchCode(input, h[1]) # 15 => MatchLen(input, h[1]) = MatchCode(input, h[1]) + 4
    BY <2>1, SequenceNumbers
  <2> QED
    BY <1>1, <2>2
<1>4. /\ MatchLength(length).next \in Nat
      /\ MatchLength(length).ok => MatchLength(length).next < iend
  <2>1. ip < iend
    BY KnowsFacts DEF Margins
  <2>2. input \in Seq(U8) /\ ip \in Nat /\ iend \in Nat /\ length \in Nat
    BY KnowsFacts
  <2> QED
    BY ONLY <2>1, <2>2, MatchRead
<1>5. ~partial /\ MatchLength(length).ok => Passed(h[1])
  <2>1. ~partial => iend = srcSize
    BY KnowsFacts
  <2> QED
    BY <1>2, <2>1 DEF Passed
<1>6. ASSUME ~MatchLength(length).ok, Sure(last) PROVE FALSE
  <2>1. MatchCode(input, h[1]) = MASK /\ ~(NextIp(input, h[1]) <= iend - LASTLITERALS + 1)
    BY <1>2, <1>6
  <2>2. h # last /\ h \in H
    BY <1>1, <1>6, KnowsFacts
  <2>3. PICK r \in Nat : Reached(H, last, r) /\ srcSize <= iend
    <3>1. /\ Given /\ H \in SUBSET (Nat \X Nat) /\ last \in H /\ Block(H, last, d)
          /\ Sized(H, last, d)
      BY KnowsFacts
    <3> QED
      BY ONLY <1>6, <3>1, SureFacts
  <2>4. NextIp(input, h[1]) <= srcSize - LASTLITERALS + 1
    BY <2>1, <2>2, <2>3 DEF Reached, Passed
  <2>5. NextIp(input, h[1]) \in Nat /\ iend \in Nat /\ srcSize \in Nat
    BY KnowsFacts, HeadIs
  <2> QED
    BY <2>1, <2>3, <2>4, <2>5, FormatNumbers
<1> QED
  BY <1>2, <1>3, <1>4, <1>5, <1>6

LEMMA ReadMatchLengthShown ==
  ASSUME NEW H, NEW last, NEW d, Knows(H, last, d), NEW h, Now(H, last, d, h), ReadMatchLength
  PROVE  Shown(H, last, d, stage', ip', op', length', token', offset', mem', result')
<1>1. stage = "copyMatch"
  BY DEF ReadMatchLength
<1>2. /\ MatchLength(length).next \in Nat
      /\ MatchLength(length).ok =>
           /\ MatchLength(length).len + MINMATCH = MatchLen(input, h[1])
           /\ MatchLength(length).next = NextIp(input, h[1]) /\ (~partial => Passed(h[1]))
      /\ ~MatchLength(length).ok => ~Sure(last)
  BY <1>1, LengthNow
<1>3. \/ ~MatchLength(length).ok /\ FailedAt(MatchLength(length).next)
      \/ MatchLength(length).ok /\ GoTo("match", MatchLength(length).next, MatchLength(length).len + MINMATCH)
  BY DEF ReadMatchLength
<1>4. CASE ~MatchLength(length).ok /\ FailedAt(MatchLength(length).next)
  <2>1. Returned(-MatchLength(length).next - 1)
    BY <1>4 DEF FailedAt
  <2> QED
    BY <1>2, <1>4, <2>1, FailShown
<1>5. CASE MatchLength(length).ok /\ GoTo("match", MatchLength(length).next, MatchLength(length).len + MINMATCH)
  <2>1. GoTo("match", NextIp(input, h[1]), MatchLen(input, h[1]))
    BY <1>2, <1>5
  <2>2. stage \in {"fastMatch", "copyMatch"} /\ (~partial => Passed(h[1]))
    BY <1>1, <1>2, <1>5
  <2> QED
    BY <2>1, <2>2, MatchNext
<1> QED
  BY <1>3, <1>4, <1>5

(* A match for which there is room is not behind the last literals.        *)
LEMMA GoesHere ==
  ASSUME NEW H, NEW last, NEW d, Knows(H, last, d), NEW h, Now(H, last, d, h),
         stage \in {"fastMatch", "shortcut", "copyMatch", "match"},
         NextIp(input, h[1]) < iend, ~OutsideBuffers \/ match >= lowPrefix,
         ~partial => op + MFLIMIT <= oend /\ op + MatchLen(input, h[1]) <= oend
  PROVE  h # last \/ Goes(input, srcSize, capacity, Len(Dict), h)
<1>1. CASE partial
  <2>1. Sure(last)
    BY <1>1, KnowsFacts DEF Sure
  <2> QED
    BY <2>1, MatchNow
<1>2. CASE ~partial
  <2>1. iend = srcSize /\ oend = capacity /\ iend \in Nat /\ h \in Nat \X Nat
    BY <1>2, KnowsFacts
  <2>2. op = LitOp(input, h) /\ offset = DistAt(input, h[1]) /\ offset <= op + Len(Dict)
    BY MatchNow
  <2>3. NextOp(input, h) = LitOp(input, h) + MatchLen(input, h[1]) /\ NextIp(input, h[1]) \in Nat
    BY KnowsFacts, HeadIs
  <2>4. NextIp(input, h[1]) <= srcSize
    BY <2>1, <2>3
  <2>5. LitOp(input, h) + MFLIMIT <= capacity /\ NextOp(input, h) <= capacity
    BY <1>2, <2>1, <2>2, <2>3
  <2> QED
    BY <2>2, <2>4, <2>5 DEF Goes
<1> QED
  BY <1>1, <1>2, KnowsFacts

LEMMA FastMatchShown ==
  ASSUME NEW H, NEW last, NEW d, Knows(H, last, d), NEW h, Now(H, last, d, h), FastMatch
  PROVE  Shown(H, last, d, stage', ip', op', length', token', offset', mem', result')
<1>1. stage = "fastMatch"
  BY DEF FastMatch
<1>2. PICK ok, next, len, n, out, m :
        /\ ok <=> MatchLength(length).ok
        /\ next = MatchLength(length).next
        /\ len = MatchLength(length).len /\ n = len + MINMATCH
        /\ out <=> OutsideBuffers
        /\ m = FastCopy(n)
  OBVIOUS
<1>3. /\ length \in 0 .. 15 /\ (length # 15 => MatchLen(input, h[1]) <= 18)
      /\ next \in Nat
      /\ ok => /\ n = MatchLen(input, h[1]) /\ next = NextIp(input, h[1])
               /\ NextIp(input, h[1]) < iend /\ (~partial => Passed(h[1]))
      /\ ~ok => ~Sure(last)
  BY <1>1, <1>2, LengthNow
<1>4. \/ (~ok \/ out) /\ FailedAt(next)
      \/ ok /\ GoTo("match", next, n)
      \/ /\ ok /\ ~out /\ ~(op + n >= oend - FASTLOOP_SAFE_DISTANCE)
         /\ ip' = next /\ MatchDone(m, n, "fast")
  BY <1>2 DEF FastMatch, FastCopy
<1>5. /\ out => ~Sure(last)
      /\ ~out => (match < lowPrefix => lowPrefix - match <= Len(ext))
  BY <1>1, <1>2, MatchNow
<1>6. CASE (~ok \/ out) /\ FailedAt(next)
  <2>1. Returned(-next - 1)
    BY <1>6 DEF FailedAt
  <2>2. ~Sure(last)
    BY <1>3, <1>5, <1>6
  <2> QED
    BY <1>3, <2>1, <2>2, FailShown
<1>7. CASE ok /\ GoTo("match", next, n)
  <2>1. GoTo("match", NextIp(input, h[1]), MatchLen(input, h[1]))
    BY <1>3, <1>7
  <2>2. stage \in {"fastMatch", "copyMatch"} /\ (~partial => Passed(h[1]))
    BY <1>1, <1>3, <1>7
  <2> QED
    BY <2>1, <2>2, MatchNext
<1>8. CASE /\ ok /\ ~out /\ ~(op + n >= oend - FASTLOOP_SAFE_DISTANCE)
           /\ ip' = next /\ MatchDone(m, n, "fast")
  <2>1. /\ n = MatchLen(input, h[1]) /\ ip' = NextIp(input, h[1]) /\ NextIp(input, h[1]) < iend
        /\ (~partial => Passed(h[1]))
    BY <1>3, <1>8
  <2>2. n \in Nat /\ op \in Nat /\ oend \in Nat
    BY <2>1, KnowsFacts, HeadIs
  <2>3. op + n + 64 <= oend
    BY <1>8, <2>2, FormatNumbers
  <2>4. h # last \/ Goes(input, srcSize, capacity, Len(Dict), h)
    <3>1. op + MFLIMIT <= oend /\ op + MatchLen(input, h[1]) <= oend
      BY <2>1, <2>2, <2>3, FormatNumbers
    <3>2. ~OutsideBuffers /\ stage \in {"fastMatch", "shortcut", "copyMatch", "match"}
      BY <1>1, <1>2, <1>8
    <3> QED
      BY <2>1, <3>1, <3>2, GoesHere
  <2>5. Here /\ Given
    BY KnowsFacts
  <2>6. Stays(m)
    BY <1>2, <2>2, <2>5, FastCopyStays
  <2>7. ASSUME offset # 0 PROVE Repeats(m, n)
    <3>1. length # MASK => n <= 18
      BY <1>3, <2>1, FormatNumbers
    <3>2. match < lowPrefix => lowPrefix - match <= Len(ext)
      BY <1>5, <1>8
    <3>3. Repeats(FastCopy(n), n)
      BY ONLY <2>2, <2>3, <2>5, <2>7, <3>1, <3>2, FastCopyRepeats
    <3> QED
      BY <1>2, <3>3
  <2>8. stage' = "fast" /\ mem' = m /\ op' = op + n
        /\ stage \in {"fastMatch", "shortcut", "copyMatch", "match"}
        /\ "fast" \in {"fast", "safe"}
    BY <1>1, <1>8 DEF MatchDone
  <2> QED
    BY <2>1, <2>2, <2>4, <2>6, <2>7, <2>8, MatchCompletes
<1> QED
  BY <1>4, <1>6, <1>7, <1>8

LEMMA ShortcutShown ==
  ASSUME NEW H, NEW last, NEW d, Knows(H, last, d), NEW h, Now(H, last, d, h), Shortcut
  PROVE  Shown(H, last, d, stage', ip', op', length', token', offset', mem', result')
<1>1. /\ stage = "shortcut"
      /\ IF length # MASK /\ InThreePieces
           THEN MatchDone(ThreePieces, length + MINMATCH, "safe") /\ ip' = ip
           ELSE GoTo("copyMatch", ip, length)
  BY DEF Shortcut
<1>2. ip = LitEnd(input, h[1]) + 2 /\ length = MatchCode(input, h[1]) /\ op = LitOp(input, h)
      /\ offset = DistAt(input, h[1]) /\ (Sure(last) => h # last)
      /\ (~partial => \A g \in H : g[1] < h[1] => Passed(g[1]))
  BY <1>1 DEF Now, SafeAt
<1>3. CASE length # MASK /\ InThreePieces
  <2>1. MatchDone(ThreePieces, length + MINMATCH, "safe") /\ ip' = ip
    BY <1>1, <1>3
  <2>2. /\ MatchCode(input, h[1]) \in 0 .. 14 /\ NextIp(input, h[1]) = LitEnd(input, h[1]) + 2
        /\ MatchLen(input, h[1]) = MatchCode(input, h[1]) + 4
    <3>1. input \in Seq(U8) /\ h[1] \in Nat
      BY KnowsFacts
    <3>2. /\ MatchCode(input, h[1]) \in 0 .. 15
          /\ MatchCode(input, h[1]) # 15 => /\ NextIp(input, h[1]) = LitEnd(input, h[1]) + 2
                                            /\ MatchLen(input, h[1]) = MatchCode(input, h[1]) + 4
      BY <3>1, SequenceNumbers
    <3> QED
      BY <1>2, <1>3, <3>2, FormatNumbers
  <2>3. PICK n \in Nat : n = length + MINMATCH /\ n = MatchLen(input, h[1]) /\ n <= 18
    BY <1>2, <2>2, FormatNumbers
  <2>4. ip < iend /\ op + 18 <= oend /\ op \in Nat /\ oend \in Nat
    BY <1>1, KnowsFacts DEF Margins, Room
  <2>5. ~partial => Passed(h[1])
    BY <1>2, <1>3 DEF Passed
  <2>6. offset >= 8 /\ match >= lowPrefix
    BY <1>3 DEF InThreePieces
  <2>7. h # last \/ Goes(input, srcSize, capacity, Len(Dict), h)
    <3>1. op + MFLIMIT <= oend /\ op + MatchLen(input, h[1]) <= oend
      BY <2>3, <2>4, FormatNumbers
    <3>2. NextIp(input, h[1]) < iend /\ stage \in {"fastMatch", "shortcut", "copyMatch", "match"}
      BY <1>1, <1>2, <2>2, <2>4
    <3> QED
      BY <2>6, <3>1, <3>2, GoesHere
  <2>8. Stays(ThreePieces) /\ Repeats(ThreePieces, n)
    <3>1. Here
      BY KnowsFacts
    <3>2. Repeats(ThreePieces, 18)
      BY <2>4, <2>6, <3>1, ThreePiecesRepeat
    <3>3. n \in Int /\ 18 \in Int /\ n <= 18
      BY <2>3
    <3>4. Repeats(ThreePieces, n)
      BY <3>2, <3>3, RepeatsLess
    <3> QED
      BY <3>1, <3>4, ThreePiecesStays
  <2>9. stage' = "safe" /\ mem' = ThreePieces /\ op' = op + n /\ ip' = NextIp(input, h[1])
        /\ stage \in {"fastMatch", "shortcut", "copyMatch", "match"}
        /\ "safe" \in {"fast", "safe"}
    BY <1>1, <1>2, <2>1, <2>2, <2>3 DEF MatchDone
  <2> QED
    BY <2>3, <2>5, <2>7, <2>8, <2>9, MatchCompletes
<1>4. CASE ~(length # MASK /\ InThreePieces)
  <2>1. PICK tok : tok = token'
    OBVIOUS
  <2>2. /\ stage' = "copyMatch" /\ ip' = ip /\ length' = length
        /\ op' = op /\ offset' = offset /\ mem' = mem
    BY <1>1, <1>4 DEF GoTo
  <2>3. HeldIn(mem, d, op) /\ h \in H
    BY KnowsFacts
  <2>4. SafeAt(H, last, d, h, "copyMatch", ip, op, length, tok, offset, mem)
    BY <1>2, <2>3 DEF SafeAt, Stages
  <2> QED
    BY <2>1, <2>2, <2>3, <2>4 DEF Shown
<1> QED
  BY <1>3, <1>4

LEMMA AtCopy ==
  ASSUME NEW H, NEW last, NEW d, Knows(H, last, d), NEW h, Now(H, last, d, h),
         stage = "match"
  PROVE  /\ ip = NextIp(input, h[1]) /\ length = MatchLen(input, h[1]) /\ op = LitOp(input, h)
         /\ (Sure(last) => h # last) /\ (~partial => Passed(h[1])) /\ ip < iend
         /\ NextOp(input, h) = op + length
         /\ ~partial => op + MFLIMIT <= oend
         /\ PastEnd <=> op + length > oend - 5
         /\ NearEnd <=> op + length > oend - 12
         /\ LengthLeft \in Nat /\ LengthLeft <= length /\ op + LengthLeft <= oend
         /\ LengthLeft = length \/ op + LengthLeft = oend
<1>1. /\ ip = NextIp(input, h[1]) /\ length = MatchLen(input, h[1]) /\ op = LitOp(input, h)
      /\ (Sure(last) => h # last) /\ (~partial => Passed(h[1]))
  BY DEF Now, SafeAt
<1>2. /\ ip < iend /\ (~partial => op + MFLIMIT <= oend)
  BY KnowsFacts DEF Margins, Room
<1>3. NextOp(input, h) = op + length
  BY <1>1, KnowsFacts, HeadIs
<1>4. length \in Nat /\ op \in Nat /\ oend \in Nat /\ op <= oend
  BY KnowsFacts
<1>5. (PastEnd <=> op + length > oend - 5) /\ (NearEnd <=> op + length > oend - 12)
  BY FormatNumbers DEF PastEnd, NearEnd
<1>6. PICK r \in Nat : r = oend - op
  BY <1>4
<1>7. LengthLeft = Min({length, r})
  BY <1>6 DEF LengthLeft
<1>8. LengthLeft = IF length <= r THEN length ELSE r
  BY <1>4, <1>7, SmallerOf
<1>9. /\ LengthLeft \in Nat /\ LengthLeft <= length /\ op + LengthLeft <= oend
      /\ LengthLeft = length \/ op + LengthLeft = oend
  BY <1>4, <1>6, <1>8
<1> QED
  BY <1>1, <1>2, <1>3, <1>5, <1>9

LEMMA BadMatchShown ==
  ASSUME NEW H, NEW last, NEW d, Knows(H, last, d), NEW h, Now(H, last, d, h), BadMatch
  PROVE  Shown(H, last, d, stage', ip', op', length', token', offset', mem', result')
<1>1. stage = "match" /\ (OutsideBuffers \/ (PastEnd /\ ~partial)) /\ Returned(-ip - 1)
  BY DEF BadMatch, Failed
<1>2. ~Sure(last)
  <2>1. CASE OutsideBuffers
    BY <1>1, <2>1, MatchNow
  <2>2. CASE PastEnd /\ ~partial
    <3> SUFFICES ASSUME Sure(last) PROVE FALSE
      OBVIOUS
    <3>1. EndsWell(last)
      BY <2>2 DEF Sure
    <3>2. h # last /\ NextOp(input, h) = op + length /\ op + length > oend - 5
      BY <1>1, <2>2, AtCopy
    <3>3. /\ Given /\ H \in SUBSET (Nat \X Nat) /\ last \in H /\ Block(H, last, d) /\ h \in H
          /\ oend = capacity /\ oend \in Nat /\ op \in Nat /\ length \in Nat
      BY <2>2, KnowsFacts
    <3>4. NextOp(input, h) + 5 <= capacity
      BY ONLY <3>1, <3>2, <3>3, EndsReached
    <3> QED
      BY <3>2, <3>3, <3>4
  <2> QED
    BY <1>1, <2>1, <2>2
<1>3. ip \in Nat
  BY KnowsFacts
<1> QED
  BY <1>1, <1>2, <1>3, FailShown

LEMMA MatchFromExtShown ==
  ASSUME NEW H, NEW last, NEW d, Knows(H, last, d), NEW h, Now(H, last, d, h), MatchFromExt
  PROVE  Shown(H, last, d, stage', ip', op', length', token', offset', mem', result')
<1>1. PICK n : n = IF PastEnd THEN LengthLeft ELSE length
  OBVIOUS
<1>2. /\ stage = "match" /\ ~OutsideBuffers /\ match < lowPrefix /\ (partial \/ ~PastEnd)
      /\ MatchDone(FromExt(n), n, "safe") /\ ip' = ip
  BY <1>1 DEF MatchFromExt, InExt
<1>3. /\ ip = NextIp(input, h[1]) /\ length = MatchLen(input, h[1])
      /\ (~partial => Passed(h[1])) /\ ip < iend
      /\ ~partial => op + MFLIMIT <= oend
      /\ PastEnd <=> op + length > oend - 5
      /\ LengthLeft \in Nat /\ LengthLeft <= length /\ op + LengthLeft <= oend
      /\ LengthLeft = length \/ op + LengthLeft = oend
  BY <1>2, AtCopy
<1>4. length \in Nat /\ op \in Nat /\ oend \in Nat /\ op <= oend /\ Here /\ Given
  BY KnowsFacts
<1>5. /\ n \in Nat /\ op + n <= oend
      /\ n = MatchLen(input, h[1]) \/ (partial /\ "safe" = "safe" /\ op + n = oend
                                       /\ n <= MatchLen(input, h[1]))
  <2>1. CASE PastEnd
    BY <1>1, <1>2, <1>3, <2>1
  <2>2. CASE ~PastEnd
    BY <1>1, <1>3, <1>4, <2>2
  <2> QED
    BY <2>1, <2>2
<1>6. h # last \/ Goes(input, srcSize, capacity, Len(Dict), h)
  <2>1. ~partial => op + MFLIMIT <= oend /\ op + MatchLen(input, h[1]) <= oend
    BY <1>2, <1>3, <1>4
  <2>2. NextIp(input, h[1]) < iend /\ stage \in {"fastMatch", "shortcut", "copyMatch", "match"}
    BY <1>2, <1>3
  <2> QED
    BY <1>2, <2>1, <2>2, GoesHere
<1>7. lowPrefix - match <= Len(ext)
  BY <1>2, MatchNow
<1>8. Stays(FromExt(n)) /\ Repeats(FromExt(n), n)
  BY ONLY <1>2, <1>4, <1>5, <1>7, FromExtStays, FromExtRepeats
<1>9. stage' = "safe" /\ mem' = FromExt(n) /\ op' = op + n /\ ip' = NextIp(input, h[1])
      /\ stage \in {"fastMatch", "shortcut", "copyMatch", "match"}
      /\ "safe" \in {"fast", "safe"}
  BY <1>2, <1>3 DEF MatchDone
<1> QED
  BY <1>3, <1>5, <1>6, <1>8, <1>9, MatchCompletes

LEMMA PartialMatchShown ==
  ASSUME NEW H, NEW last, NEW d, Knows(H, last, d), NEW h, Now(H, last, d, h), PartialMatch
  PROVE  Shown(H, last, d, stage', ip', op', length', token', offset', mem', result')
<1>1. PICK n, m : n = LengthLeft /\ m = mem'
  OBVIOUS
<1>2. /\ stage = "match" /\ partial /\ ~(match < lowPrefix)
      /\ m = (IF offset = 0 THEN mem ELSE Overlapping(mem, op, offset, n))
      /\ op' = op + n /\ ip' = ip
      /\ IF op + n = oend THEN Returned(op + n) ELSE stage' = "safe"
  BY <1>1 DEF PartialMatch, InExt
<1>3. /\ ip = NextIp(input, h[1]) /\ length = MatchLen(input, h[1])
      /\ NextOp(input, h) = op + length /\ (Sure(last) => h # last)
      /\ n \in Nat /\ n <= length /\ op + n <= oend /\ (n = length \/ op + n = oend)
  BY <1>1, <1>2, AtCopy
<1>4. /\ length \in Nat /\ op \in Nat /\ oend \in Nat /\ Here
      /\ Given /\ H \in SUBSET (Nat \X Nat) /\ last \in H /\ Block(H, last, d)
      /\ Sized(H, last, d) /\ h \in H /\ offset \in Nat
  BY KnowsFacts
<1>5. Sure(last) /\ h # last
  BY <1>2, <1>3, KnowsFacts DEF Sure
<1>6. match >= lowPrefix
  BY <1>2, <1>4 DEF match, lowPrefix, Here, Sizes
<1>7. Stays(m) /\ (offset # 0 => Repeats(m, n))
  <2>1. CASE offset = 0
    BY <1>2, <2>1 DEF Stays
  <2>2. CASE offset # 0
    <3>1. Repeats(Overlapping(mem, op, offset, n), n)
      BY <1>3, <1>4, <1>6, <2>2, LeftRepeats
    <3>2. Repeats(m, n)
      BY <1>2, <2>2, <3>1
    <3> QED
      BY <3>2 DEF Repeats
  <2> QED
    BY <2>1, <2>2
<1>8. CASE op + n = oend
  <2>1. Returned(oend)
    BY <1>2, <1>8
  <2>2. HeldIn(m, d, oend)
    <3>1. stage \in {"fastMatch", "shortcut", "copyMatch", "match"} /\ n <= MatchLen(input, h[1])
      BY <1>2, <1>3
    <3>2. HeldIn(m, d, op + n)
      BY <1>3, <1>5, <1>7, <3>1, MatchCopied
    <3> QED
      BY <1>8, <3>2
  <2>3. PICK w \in Nat : w = whole.result /\ NextOp(input, h) <= w
    <3>1. \E r \in Nat :
           /\ Reached(H, last, r) /\ LitOp(input, h) <= r /\ (h = last => LitOp(input, h) = r)
           /\ h # last => NextOp(input, h) <= r
           /\ IF partial THEN r = whole.result ELSE r = oend /\ iend = srcSize
      BY ONLY <1>4, <1>5, SureEnd
    <3> QED
      BY <1>2, <1>5, <3>1
  <2>4. oend <= w
    BY <1>3, <1>4, <1>8, <2>3
  <2> QED
    BY <1>1, <1>2, <1>4, <2>1, <2>2, <2>3, <2>4, PartialDone
<1>9. CASE op + n # oend
  <2>1. stage' = "safe" /\ n = MatchLen(input, h[1]) /\ ip' = NextIp(input, h[1])
        /\ mem' = m /\ stage \in {"fastMatch", "shortcut", "copyMatch", "match"}
        /\ "safe" \in {"fast", "safe"} /\ op' = op + n
    BY <1>1, <1>2, <1>3, <1>9
  <2> QED
    BY <1>2, <1>3, <1>5, <1>7, <2>1, MatchCompletes
<1> QED
  BY <1>8, <1>9

LEMMA MatchInBlockShown ==
  ASSUME NEW H, NEW last, NEW d, Knows(H, last, d), NEW h, Now(H, last, d, h), MatchInBlock
  PROVE  Shown(H, last, d, stage', ip', op', length', token', offset', mem', result')
<1>1. PICK m : m = IF NearEnd THEN ToTheEnd(First8(mem)) ELSE FarFromEnd(First8(mem))
  OBVIOUS
<1>2. /\ stage = "match" /\ ~OutsideBuffers /\ ~(match < lowPrefix)
      /\ ~PastEnd /\ ~(partial /\ NearEnd) /\ MatchDone(m, length, "safe") /\ ip' = ip
  BY <1>1 DEF MatchInBlock, InExt
<1>3. /\ ip = NextIp(input, h[1]) /\ length = MatchLen(input, h[1])
      /\ (~partial => Passed(h[1])) /\ ip < iend
      /\ ~partial => op + MFLIMIT <= oend
      /\ PastEnd <=> op + length > oend - 5
      /\ NearEnd <=> op + length > oend - 12
  BY <1>2, AtCopy
<1>4. /\ length \in Nat /\ op \in Nat /\ oend \in Nat /\ Here /\ offset \in Nat
  BY KnowsFacts
<1>5. match >= lowPrefix
  BY <1>2, <1>4 DEF match, lowPrefix, Here, Sizes
<1>6. op + length <= oend /\ op + 8 <= oend
  <2>1. CASE partial
    <3>1. op + length + 12 <= oend
      BY <1>2, <1>3, <1>4, <2>1
    <3> QED
      BY <1>4, <3>1
  <2>2. CASE ~partial
    BY <1>2, <1>3, <1>4, <2>2, FormatNumbers
  <2> QED
    BY <2>1, <2>2
<1>7. Stays(m)
  <2>1. Stays(First8(mem).mem)
    BY <1>4, First8Stays
  <2>2. Stays(ToTheEnd(First8(mem))) /\ Stays(FarFromEnd(First8(mem)))
    BY <1>4, <2>1, ToTheEndStays, FarFromEndStays
  <2> QED
    BY <1>1, <2>2
<1>8. ASSUME offset # 0 PROVE Repeats(m, length)
  <2>1. CASE NearEnd
    <3>1. Repeats(ToTheEnd(First8(mem)), length)
      BY <1>4, <1>5, <1>6, <1>8, ToTheEndRepeats
    <3> QED
      BY <1>1, <2>1, <3>1
  <2>2. CASE ~NearEnd
    <3>1. op + length + 12 <= oend /\ op + 12 <= oend
      BY <1>3, <1>4, <2>2
    <3>2. Repeats(FarFromEnd(First8(mem)), length)
      BY <1>4, <1>5, <1>8, <3>1, FarFromEndRepeats
    <3> QED
      BY <1>1, <2>2, <3>2
  <2> QED
    BY <2>1, <2>2
<1>9. h # last \/ Goes(input, srcSize, capacity, Len(Dict), h)
  <2>1. ~partial => op + MFLIMIT <= oend /\ op + MatchLen(input, h[1]) <= oend
    BY <1>3, <1>6
  <2>2. NextIp(input, h[1]) < iend /\ stage \in {"fastMatch", "shortcut", "copyMatch", "match"}
    BY <1>2, <1>3
  <2> QED
    BY <1>2, <2>1, <2>2, GoesHere
<1>10. stage' = "safe" /\ mem' = m /\ op' = op + length /\ ip' = NextIp(input, h[1])
      /\ stage \in {"fastMatch", "shortcut", "copyMatch", "match"}
      /\ "safe" \in {"fast", "safe"}
  BY <1>2, <1>3 DEF MatchDone
<1> QED
  BY <1>3, <1>4, <1>7, <1>8, <1>9, <1>10, MatchCompletes

-----------------------------------------------------------------------------
(* No step of a decoding loses what was there.                             *)
LEMMA LiteralsStay ==
  ASSUME Here, NEW from, NEW copied, NEW m, m = Put(mem, op, Input(from, copied))
  PROVE  Stays(m)
<1> DEFINE b == Input(from, copied)
<1>1. op \in Int /\ op >= op /\ DOMAIN b \subseteq Nat \ {0} /\ Stays(mem)
  BY DEF Here, Stays, Input
<1> HIDE DEF b
<1>2. Stays(Put(mem, op, b))
  BY <1>1, PutStays
<1> QED
  BY <1>2 DEF b

LEMMA DecodeStays ==
  ASSUME Here, Given, SafeInv, Decode, NEW m, m = mem'
  PROVE  Stays(m)
<1>0. length \in Nat /\ Stays(mem) /\ op \in Nat /\ oend \in Nat /\ op <= oend
  BY SafeFacts DEF Stays, Here
<1>1. CASE FastLiterals
  <2>1. m = mem \/ \E from, copied : m = Put(mem, op, Input(from, copied))
    BY <1>1 DEF FastLiterals, FailedAt, GoTo, LiteralsThenOffset
  <2> QED
    BY <1>0, <2>1, LiteralsStay
<1>2. CASE SafeLiterals
  <2>1. m = mem \/ \E from, copied : m = Put(mem, op, Input(from, copied))
    BY <1>2 DEF SafeLiterals, FailedAt, GoTo, LiteralsThenOffset
  <2> QED
    BY <1>0, <2>1, LiteralsStay
<1>3. CASE CopyLiterals
  <2>1. \E from, copied : m = Put(mem, op, Input(from, copied))
    BY <1>3 DEF CopyLiterals, LiteralsThenOffset
  <2> QED
    BY <2>1, LiteralsStay
<1>4. CASE LastLiterals
  <2>1. m = mem \/ \E from, copied : m = Put(mem, op, Input(from, copied))
    BY <1>4 DEF LastLiterals
  <2> QED
    BY <1>0, <2>1, LiteralsStay
<1>5. CASE PartialLiterals
  <2>1. \E from, copied : m = Put(mem, op, Input(from, copied))
    BY <1>5 DEF PartialLiterals, LiteralsThenOffset
  <2> QED
    BY <2>1, LiteralsStay
<1>6. CASE FastMatch
  <2>1. PICK n : n = MatchLength(length).len + MINMATCH
    OBVIOUS
  <2>2. m = mem \/ m = FastCopy(n)
    BY <1>6, <2>1 DEF FastMatch, FailedAt, GoTo, MatchDone, FastCopy
  <2>3. n \in Nat
    <3>1. input \in Seq(U8) /\ ip \in Nat /\ iend \in Nat /\ ip < iend
      BY <1>6, SafeFacts DEF FastMatch, SafeInv, Margins
    <3>2. MatchLength(length).len \in Nat
      BY <1>0, <3>1, MatchRead
    <3> QED
      BY <2>1, <3>2, FormatNumbers
  <2> QED
    BY <1>0, <2>2, <2>3, FastCopyStays
<1>7. CASE Shortcut
  <2>1. m = mem \/ m = ThreePieces
    BY <1>7 DEF Shortcut, GoTo, MatchDone
  <2> QED
    BY <1>0, <2>1, ThreePiecesStays
<1>8. CASE ReadMatchLength
  <2>1. m = mem
    BY <1>8 DEF ReadMatchLength, FailedAt, GoTo
  <2> QED
    BY <1>0, <2>1
<1>9. CASE BadMatch
  <2>1. m = mem \/ m = First8(mem).mem
    BY <1>9 DEF BadMatch
  <2> QED
    BY <1>0, <2>1, First8Stays
<1>10. CASE MatchFromExt
  <2>1. PICK n : n = (IF PastEnd THEN LengthLeft ELSE length)
    OBVIOUS
  <2>2. m = FromExt(n) /\ match < lowPrefix
    BY <1>10, <2>1 DEF MatchFromExt, MatchDone, InExt
  <2>3. n \in Nat
    BY <1>0, <2>1, LengthLeftBound
  <2> QED
    BY <2>2, <2>3, FromExtStays
<1>11. CASE PartialMatch
  <2>1. m = mem \/ m = Overlapping(mem, op, offset, LengthLeft)
    BY <1>11 DEF PartialMatch
  <2>2. LengthLeft \in Int /\ op \in Int /\ op >= op
    BY <1>0, LengthLeftBound
  <2> QED
    BY <1>0, <2>1, <2>2, OverlappingStays
<1>12. CASE MatchInBlock
  <2>1. m = ToTheEnd(First8(mem)) \/ m = FarFromEnd(First8(mem))
    BY <1>12 DEF MatchInBlock, MatchDone
  <2>2. Stays(First8(mem).mem)
    BY First8Stays
  <2> QED
    BY <1>0, <2>1, <2>2, ToTheEndStays, FarFromEndStays
<1> QED
  BY <1>1, <1>2, <1>3, <1>4, <1>5, <1>6, <1>7, <1>8, <1>9, <1>10, <1>11, <1>12 DEF Decode

(* What is known does not depend on where the decoder is.                  *)
Same == /\ UNCHANGED <<callVars, srcSize, capacity, whole>>
        /\ UNCHANGED <<size, step, fastIp, dst>>

LEMMA SameFacts ==
  ASSUME Same
  PROVE  /\ input' = input /\ prefix' = prefix /\ ext' = ext /\ iend' = iend /\ oend' = oend
         /\ partial' = partial /\ srcSize' = srcSize /\ capacity' = capacity /\ whole' = whole
         /\ size' = size /\ step' = step /\ fastIp' = fastIp /\ dst' = dst
BY DEF Same, callVars

LEMMA HeldSame ==
  ASSUME Same, NEW m, NEW d, NEW n, HeldIn(m, d, n)
  PROVE  HeldIn(m, d, n)'
BY SameFacts DEF HeldIn, At, Unknown

LEMMA EndsSame ==
  ASSUME Same, NEW h
  PROVE  EndsWell(h)' <=> EndsWell(h)
BY SameFacts DEF EndsWell, AtEnd, LitOp

LEMMA ReachedSame ==
  ASSUME Same, NEW H, NEW last, NEW r, Reached(H, last, r)
  PROVE  Reached(H, last, r)'
BY SameFacts DEF Reached, Passed, LitOp

LEMMA ShownSameLater ==
  ASSUME Same, NEW H, NEW last, NEW d, NEW st, NEW at, NEW to, NEW n, NEW tok, NEW off,
         NEW m, NEW r, Shown(H, last, d, st, at, to, n, tok, off, m, r)
  PROVE  Shown(H, last, d, st, at, to, n, tok, off, m, r)'
<1>1. CASE st = "done"
  <2>1. Ended(H, last, d, r, m)
    BY <1>1 DEF Shown
  <2>2. HeldIn(m, d, r) => HeldIn(m, d, r)'
    BY HeldSame
  <2>3. Reached(H, last, r) => Reached(H, last, r)'
    BY ReachedSame
  <2>4. EndsWell(last)' <=> EndsWell(last)
    BY EndsSame
  <2>5. Ended(H, last, d, r, m)'
    BY <2>1, <2>2, <2>3, <2>4, SameFacts DEF Ended
  <2> QED
    BY <1>1, <2>5 DEF Shown
<1>2. CASE st # "done"
  <2>1. PICK h \in H : SafeAt(H, last, d, h, st, at, to, n, tok, off, m)
    BY <1>2 DEF Shown
  <2>2. HeldIn(m, d, to)'
    BY <2>1, HeldSame DEF SafeAt
  <2>3. Sure(last)' <=> Sure(last)
    <3>1. EndsWell(last)' <=> EndsWell(last)
      BY EndsSame
    <3> QED
      BY <3>1, SameFacts DEF Sure
  <2>4. SafeAt(H, last, d, h, st, at, to, n, tok, off, m)'
    BY <2>1, <2>2, <2>3, SameFacts DEF SafeAt, Passed, LitOp
  <2> QED
    BY <1>2, <2>4 DEF Shown
<1> QED
  BY <1>1, <1>2

LEMMA BlockSame ==
  ASSUME Same, NEW H, NEW last, NEW d, Block(H, last, d)
  PROVE  Block(H, last, d)'
BY SameFacts, EndsSame DEF Block, Dict, Complete, EndsInMatch, LitOp

LEMMA DecodeShown ==
  ASSUME NEW H, NEW last, NEW d, Knows(H, last, d), NEW h, Now(H, last, d, h), Decode
  PROVE  Shown(H, last, d, stage', ip', op', length', token', offset', mem', result')
<1>1. CASE FastLiterals
  BY <1>1, FastLiteralsShown
<1>2. CASE SafeLiterals
  BY <1>2, SafeLiteralsShown
<1>3. CASE CopyLiterals
  BY <1>3, CopyLiteralsShown
<1>4. CASE LastLiterals
  BY <1>4, LastLiteralsShown
<1>5. CASE PartialLiterals
  BY <1>5, PartialLiteralsShown
<1>6. CASE FastMatch
  BY <1>6, FastMatchShown
<1>7. CASE Shortcut
  BY <1>7, ShortcutShown
<1>8. CASE ReadMatchLength
  BY <1>8, ReadMatchLengthShown
<1>9. CASE BadMatch
  BY <1>9, BadMatchShown
<1>10. CASE MatchFromExt
  BY <1>10, MatchFromExtShown
<1>11. CASE PartialMatch
  BY <1>11, PartialMatchShown
<1>12. CASE MatchInBlock
  BY <1>12, MatchInBlockShown
<1> QED
  BY <1>1, <1>2, <1>3, <1>4, <1>5, <1>6, <1>7, <1>8, <1>9, <1>10, <1>11, <1>12 DEF Decode

LEMMA DecodeRuns ==
  ASSUME Decode
  PROVE  stage \notin {"idle", "done"}
BY DEF Decode, FastLiterals, SafeLiterals, CopyLiterals, LastLiterals, PartialLiterals,
       FastMatch, Shortcut, ReadMatchLength, BadMatch, MatchFromExt, PartialMatch, MatchInBlock

LEMMA HereWhenRunning ==
  ASSUME Given, SafeInv, Memory, stage \notin {"idle", "done"}
  PROVE  Here
<1>1. /\ Sizes /\ stage \in Stages /\ oend \in Nat /\ op \in Nat /\ offset \in Nat
  BY SafeFacts
<1>2. \E n \in 0 .. 64 : op + n <= oend
  <2>1. MFLIMIT \in 0 .. 64 /\ FASTLOOP_SAFE_DISTANCE = 64 /\ 0 \in 0 .. 64 /\ 64 \in 0 .. 64
        /\ 18 \in 0 .. 64 /\ 32 \in 0 .. 64
    BY FormatNumbers
  <2>2. Margins
    BY DEF SafeInv
  <2> QED
    BY <1>1, <2>1, <2>2 DEF Stages, Margins, Room
<1> QED
  BY <1>1, <1>2 DEF Here

LEMMA SizedKept ==
  ASSUME Given, SafeInv, Decode, Same,
         NEW H \in SUBSET (Nat \X Nat), NEW last \in H, NEW d, Sized(H, last, d)
  PROVE  Sized(H, last, d)'
<1>1. Memory /\ PrefixIn(mem)
  BY DEF Sized
<1>2. Here
  BY <1>1, DecodeRuns, HereWhenRunning
<1>3. PICK m : m = mem'
  OBVIOUS
<1>4. Stays(m)
  BY <1>2, <1>3, DecodeStays
<1>5. PrefixIn(m)
  BY <1>1, <1>2, <1>4, PrefixStays
<1>6. Memory'
  BY <1>1, <1>3, <1>4, SameFacts DEF Memory, Stays
<1>7. PrefixIn(mem)'
  BY <1>3, <1>5, SameFacts DEF PrefixIn
<1>8. partial /\ whole.result >= 0 => Reached(H, last, whole.result)'
  <2>1. PICK r : r = whole.result
    OBVIOUS
  <2>2. Reached(H, last, r) => Reached(H, last, r)'
    BY ReachedSame
  <2>3. r = whole'.result
    BY <2>1, SameFacts
  <2> QED
    BY <2>1, <2>2, <2>3 DEF Sized, Reached
<1>9. partial /\ whole.result >= 0 =>
        (\A i \in 1 .. whole.result : whole.out[i] = d[i] \/ Unknown(d, i))'
  BY SameFacts DEF Sized, Unknown
<1>10. /\ ~partial => iend = srcSize /\ oend = capacity
       /\ partial => srcSize <= iend /\ (iend # srcSize => oend <= whole.result)
  BY DEF Sized
<1> QED
  BY <1>6, <1>7, <1>8, <1>9, <1>10, SameFacts DEF Sized

LEMMA SafeStateKept ==
  ASSUME Given, SafeInv, FastInv, Decode, Same,
         NEW H \in SUBSET (Nat \X Nat), NEW last \in H, NEW d, Block(H, last, d),
         SafeState(H, last, d)
  PROVE  SafeState(H, last, d)'
<1>1. Sized(H, last, d) /\ stage \notin {"idle", "done"}
  BY DecodeRuns DEF SafeState
<1>2. Sized(H, last, d)'
  BY <1>1, SizedKept
<1>3. PICK st, at, to, n, tok, off, m, r :
        /\ st = stage' /\ at = ip' /\ to = op' /\ n = length' /\ tok = token' /\ off = offset'
        /\ m = mem' /\ r = result'
  OBVIOUS
<1>4. ASSUME partial => whole.result >= 0
      PROVE  Shown(H, last, d, st, at, to, n, tok, off, m, r)
  <2>1. Knows(H, last, d)
    BY <1>1, <1>4 DEF Knows
  <2>2. Shown(H, last, d, stage, ip, op, length, token, offset, mem, result)
    BY <1>4 DEF SafeState
  <2>3. PICK h : Now(H, last, d, h)
    BY <1>1, <2>2 DEF Shown, Now
  <2>4. Shown(H, last, d, stage', ip', op', length', token', offset', mem', result')
    BY <2>1, <2>3, DecodeShown
  <2> QED
    BY <1>3, <2>4
<1>5. (partial => whole.result >= 0) => Shown(H, last, d, st, at, to, n, tok, off, m, r)'
  BY <1>4, ShownSameLater
<1>6. (partial' => whole'.result >= 0) => Shown(H, last, d, st, at, to, n, tok, off, m, r)'
  BY <1>5, SameFacts
<1> QED
  BY <1>2, <1>3, <1>6 DEF SafeState

-----------------------------------------------------------------------------
(* The calls.                                                              *)
LEMMA BlockLater ==
  ASSUME UNCHANGED <<input, prefix, ext, srcSize, capacity, size, step, fastIp, dst>>,
         NEW H, NEW last, NEW d, Block(H, last, d)
  PROVE  Block(H, last, d)'
BY DEF Block, Dict, Complete, EndsInMatch, LitOp, EndsWell, AtEnd

LEMMA CallMemory ==
  ASSUME Given, NEW room \in Nat, NEW m,
         m = prefix \o [i \in 1 .. room |-> Old] \o [i \in 1 .. BEHIND |-> Foreign]
  PROVE  /\ DOMAIN m = 1 .. Len(prefix) + room + BEHIND
         /\ PrefixIn(m)
<1> DEFINE S == U8 \cup {Old, Foreign}
           inside == [i \in 1 .. room |-> Old]
           behind == [i \in 1 .. BEHIND |-> Foreign]
           one == prefix \o inside
<1>1. /\ prefix \in Seq(S) /\ Len(prefix) \in Nat /\ inside \in Seq(S) /\ Len(inside) = room
      /\ behind \in Seq(S) /\ Len(behind) = 64 /\ BEHIND = 64
  <2>1. prefix \in Seq(S) /\ Len(prefix) \in Nat /\ inside \in Seq(S) /\ Len(inside) = room
    BY DEF Given
  <2>2. BEHIND = 64 /\ behind \in Seq(S) /\ Len(behind) = BEHIND
    BY DEF BEHIND
  <2> QED
    BY <2>1, <2>2
<1> HIDE DEF S, inside, behind
<1>2. /\ one \in Seq(S) /\ Len(one) = Len(prefix) + Len(inside)
      /\ \A k \in 1 .. Len(prefix) : one[k] = prefix[k]
  <2>1. prefix \in Seq(S) /\ inside \in Seq(S)
    BY <1>1
  <2> QED
    BY ONLY <2>1, JoinIs DEF one
<1> HIDE DEF one
<1>3. /\ one \o behind \in Seq(S) /\ Len(one \o behind) = Len(one) + Len(behind)
      /\ \A k \in 1 .. Len(one) : (one \o behind)[k] = one[k]
  <2>1. one \in Seq(S) /\ behind \in Seq(S)
    BY <1>1, <1>2
  <2> QED
    BY ONLY <2>1, JoinIs
<1>4. m = one \o behind
  BY DEF one, inside, behind
<1>5. m \in Seq(S) /\ Len(m) = (Len(prefix) + room) + 64
  BY <1>1, <1>2, <1>3, <1>4
<1>6. DOMAIN m = 1 .. Len(prefix) + room + BEHIND
  BY <1>1, <1>5
<1>7. ASSUME NEW i \in 1 .. Len(prefix) PROVE m[i] = prefix[i]
  <2>1. i \in 1 .. Len(one)
    BY <1>1, <1>2
  <2> QED
    BY <1>2, <1>3, <1>4, <2>1
<1> QED
  BY <1>6, <1>7 DEF PrefixIn

(* At the first sequence.                                                  *)
LEMMA StartsAt ==
  ASSUME NEW H, NEW last \in H, NEW d, H \subseteq Nat \X Nat, <<0, 0>> \in H,
         NEW st \in {"fast", "safe"}, NEW n, NEW tok, NEW off, NEW m, NEW r
  PROVE  Shown(H, last, d, st, 0, 0, n, tok, off, m, r)'
<1>1. PICK h \in H : h = <<0, 0>> /\ h[1] = 0 /\ h[2] = 0
  OBVIOUS
<1>2. HeldIn(m, d, 0)'
  BY DEF HeldIn
<1>3. ASSUME NEW g \in H, g[1] < 0 PROVE FALSE
  <2>1. g \in Nat \X Nat
    OBVIOUS
  <2>2. g[1] \in Nat
    BY <2>1
  <2> QED
    BY <1>3, <2>2
<1>4. SafeAt(H, last, d, h, st, 0, 0, n, tok, off, m)'
  BY <1>1, <1>2, <1>3 DEF SafeAt, Stages
<1> QED
  BY <1>4 DEF Shown

(* A block of no bytes at all does not end well.                           *)
LEMMA EndsBehindToken ==
  ASSUME Given, NEW h \in Nat \X Nat
  PROVE  LitEnd(input, h[1]) # 0
<1>1. /\ h[1] \in Nat /\ LitFrom(input, h[1]) \in Nat /\ LitLen(input, h[1]) \in Nat
      /\ LitFrom(input, h[1]) >= h[1] + 1
      /\ LitEnd(input, h[1]) = LitFrom(input, h[1]) + LitLen(input, h[1])
  BY HeadIs
<1> QED
  BY <1>1

(* A block of one byte, a token without literals.                          *)
LEMMA EmptyBlock ==
  ASSUME Given, capacity = 0, srcSize = 1, input[1] = 0,
         NEW H \in SUBSET (Nat \X Nat), NEW last \in H, NEW d, Block(H, last, d)
  PROVE  Reached(H, last, 0)
<1>1. <<0, 0>> \in H
  BY DEF Block, Heads
<1>2. ASSUME NEW h \in H, h # last PROVE FALSE
  <2>1. LitOp(input, h) + MFLIMIT <= 0
    BY <1>2, HeadFacts DEF Goes
  <2>2. LitOp(input, h) \in Nat
    <3>1. h \in Nat \X Nat
      OBVIOUS
    <3> QED
      BY <3>1, HeadIs
  <2> QED
    BY <2>1, <2>2, FormatNumbers
<1>3. last = <<0, 0>> /\ last[1] = 0 /\ last[2] = 0
  BY <1>1, <1>2
<1>4. ByteAt(input, 0) = 0
  <2>1. Len(input) >= 1
    BY DEF Given
  <2> QED
    BY <2>1 DEF ByteAt
<1>5. LitCode(input, 0) = 0
  <2>1. 0 \div 16 = 0
    OBVIOUS
  <2> QED
    BY <1>4, <2>1, FormatNumbers DEF LitCode
<1>6. /\ LitFrom(input, 0) = 1 /\ LitLen(input, 0) = 0 /\ LitEnd(input, 0) = 1
  <2>1. input \in Seq(U8) /\ 0 \in Nat
    BY DEF Given
  <2>2. /\ LitEnd(input, 0) = LitFrom(input, 0) + LitLen(input, 0)
        /\ LitCode(input, 0) # 15 => LitFrom(input, 0) = 0 + 1 /\ LitLen(input, 0) = LitCode(input, 0)
    BY <2>1, SequenceNumbers
  <2> QED
    BY <1>5, <2>2
<1>7. LitEnd(input, last[1]) = srcSize /\ LitOp(input, last) = 0 /\ 0 <= capacity
  BY <1>3, <1>6 DEF LitOp
<1> QED
  BY <1>2, <1>7 DEF Reached

LEMMA CallSafeKnows ==
  ASSUME Given, FastInv, FastKnows, CallSafe
  PROVE  SafeKnows'
<1>1. PICK H \in SUBSET (Nat \X Nat) : \E last \in H : \E d : Block(H, last, d)
  BY BlockKnown DEF CallSafe
<1>2. PICK last \in H : \E d : Block(H, last, d)
  BY <1>1
<1>3. PICK d : Block(H, last, d)
  BY <1>2
<1>4. /\ Call(srcSize, capacity, FALSE) /\ input' = input /\ prefix' = prefix /\ ext' = ext
      /\ srcSize' = srcSize /\ capacity' = capacity /\ whole' = whole
      /\ UNCHANGED <<size, step, fastIp, dst>>
  BY DEF CallSafe, Call, fastVars
<1>5. Block(H, last, d)'
  BY <1>3, <1>4, BlockLater
<1>6. PICK m, n, tok, off, r, st :
        /\ m = mem' /\ n = length' /\ tok = token' /\ off = offset' /\ r = result' /\ st = stage'
  OBVIOUS
<1>7. /\ iend' = srcSize /\ oend' = capacity /\ partial' = FALSE /\ ip' = 0 /\ op' = 0
      /\ m = prefix \o [i \in 1 .. capacity |-> Old] \o [i \in 1 .. BEHIND |-> Foreign]
      /\ \/ st = "done" /\ capacity = 0 /\ r = IF srcSize = 1 /\ input[1] = 0 THEN 0 ELSE -1
         \/ st = "done" /\ srcSize = 0 /\ r = -1
         \/ st \in {"fast", "safe"}
  BY <1>4, <1>6 DEF Call, Returned
<1>8. Sized(H, last, d)'
  <2>1. capacity \in Nat
    BY DEF Given
  <2>2. DOMAIN m = 1 .. Len(prefix) + capacity + BEHIND /\ PrefixIn(m)
    BY <1>7, <2>1, CallMemory
  <2>3. Memory'
    BY <1>4, <1>6, <1>7, <2>2 DEF Memory
  <2>4. PrefixIn(mem)'
    BY <1>4, <1>6, <2>2 DEF PrefixIn
  <2> QED
    BY <1>4, <1>7, <2>3, <2>4 DEF Sized
<1>9. H \subseteq Nat \X Nat /\ <<0, 0>> \in H
  BY <1>3 DEF Block, Heads
<1>10. Shown(H, last, d, st, 0, 0, n, tok, off, m, r)'
  <2>1. CASE st \in {"fast", "safe"}
    BY <1>9, <2>1, StartsAt
  <2>2. CASE st = "done" /\ capacity = 0 /\ r = IF srcSize = 1 /\ input[1] = 0 THEN 0 ELSE -1
    <3>1. CASE srcSize = 1 /\ input[1] = 0
      <4>1. Reached(H, last, 0) /\ r = 0
        BY <1>3, <2>2, <3>1, EmptyBlock
      <4>2. Reached(H, last, r)'
        BY <1>4, <4>1 DEF Reached, Passed, LitOp
      <4>3. HeldIn(m, d, r)'
        BY <4>1 DEF HeldIn
      <4>4. partial' = FALSE /\ ~(oend' > 0)
        BY <1>7, <2>2
      <4>5. Ended(H, last, d, r, m)'
        BY <4>2, <4>3, <4>4 DEF Ended
      <4> QED
        BY <2>2, <4>5 DEF Shown
    <3>2. CASE ~(srcSize = 1 /\ input[1] = 0)
      <4>1. Ended(H, last, d, r, m)'
        BY <1>7, <2>2, <3>2 DEF Ended
      <4> QED
        BY <2>2, <4>1 DEF Shown
    <3> QED
      BY <3>1, <3>2
  <2>3. CASE st = "done" /\ srcSize = 0 /\ r = -1
    <3>1. LitEnd(input, last[1]) # 0
      <4>1. last \in Nat \X Nat
        OBVIOUS
      <4> QED
        BY <4>1, EndsBehindToken
    <3>2. ~EndsWell(last)'
      BY <1>4, <2>3, <3>1 DEF EndsWell
    <3>3. Ended(H, last, d, r, m)'
      BY <1>7, <2>3, <3>2 DEF Ended
    <3> QED
      BY <2>3, <3>3 DEF Shown
  <2> QED
    BY <1>7, <2>1, <2>2, <2>3
<1>11. SafeState(H, last, d)'
  BY <1>6, <1>7, <1>8, <1>10 DEF SafeState
<1> QED
  BY <1>5, <1>11 DEF SafeKnows

LEMMA CallPartialKnows ==
  ASSUME Given, SafeInv, SafeKnows, NEW n \in {srcSize, Len(input)}, NEW target \in Nat,
         CallPartial(n, target)
  PROVE  SafeKnows'
<1>1. PICK H \in SUBSET (Nat \X Nat) : \E last \in H : \E d :
        Block(H, last, d) /\ SafeState(H, last, d)
  BY DEF SafeKnows
<1>2. PICK last \in H : \E d : Block(H, last, d) /\ SafeState(H, last, d)
  BY <1>1
<1>3. PICK d : Block(H, last, d) /\ SafeState(H, last, d)
  BY <1>2
<1>4. /\ Call(n, target, TRUE) /\ input' = input /\ prefix' = prefix /\ ext' = ext
      /\ srcSize' = srcSize /\ capacity' = capacity
      /\ UNCHANGED <<size, step, fastIp, dst>>
      /\ stage = "done" /\ ~partial /\ (n # srcSize => target <= result)
      /\ whole' = [result |-> result, out |-> Output]
  BY DEF CallPartial, Call, fastVars
<1>5. Block(H, last, d)'
  BY <1>3, <1>4, BlockLater
<1>6. PICK m, len, tok, off, r, st, w :
        /\ m = mem' /\ len = length' /\ tok = token' /\ off = offset' /\ r = result' /\ st = stage'
        /\ w = result
  OBVIOUS
<1>7. /\ iend' = n /\ oend' = target /\ partial' = TRUE /\ ip' = 0 /\ op' = 0
      /\ m = prefix \o [i \in 1 .. target |-> Old] \o [i \in 1 .. BEHIND |-> Foreign]
      /\ \/ st = "done" /\ target = 0 /\ r = 0
         \/ st = "done" /\ n = 0 /\ r = -1
         \/ st \in {"fast", "safe"}
  BY <1>4, <1>6 DEF Call, Returned
<1>8. whole'.result = w /\ whole'.out = [i \in 1 .. w |-> At(mem, i - 1)]
  BY <1>4, <1>6 DEF Output
<1>9. w >= 0 => Reached(H, last, w) /\ HeldIn(mem, d, w)
  BY <1>3, <1>4, <1>6 DEF SafeState, Shown, Ended
<1>10. srcSize \in Nat /\ Len(input) \in Nat /\ srcSize <= Len(input) /\ srcSize <= n
  <2>1. input \in Seq(U8) /\ srcSize \in 0 .. Len(input)
    BY DEF Given
  <2>2. Len(input) \in Nat
    BY <2>1
  <2> QED
    BY <2>1, <2>2
<1>11. w >= 0 => w \in Nat
  <2>1. LitOp(input, last) \in Nat
    <3>1. last \in Nat \X Nat
      OBVIOUS
    <3> QED
      BY <3>1, HeadIs
  <2> QED
    BY <1>9, <2>1 DEF Reached
<1>12. Sized(H, last, d)'
  <2>1. DOMAIN m = 1 .. Len(prefix) + target + BEHIND /\ PrefixIn(m)
    BY <1>7, CallMemory
  <2>2. Memory'
    BY <1>4, <1>6, <1>7, <2>1 DEF Memory
  <2>3. PrefixIn(mem)'
    BY <1>4, <1>6, <2>1 DEF PrefixIn
  <2>4. srcSize' <= iend' /\ (iend' # srcSize' => oend' <= whole'.result)
    BY <1>4, <1>6, <1>7, <1>8, <1>10
  <2>5. whole'.result >= 0 => Reached(H, last, whole.result)'
    <3>1. w >= 0 => Reached(H, last, w)'
      BY <1>4, <1>9 DEF Reached, Passed, LitOp
    <3> QED
      BY <1>8, <3>1 DEF Reached
  <2>6. whole'.result >= 0 =>
          (\A i \in 1 .. whole.result : whole.out[i] = d[i] \/ Unknown(d, i))'
    <3> SUFFICES ASSUME w >= 0, NEW i \in 1 .. w
                 PROVE  whole'.out[i] = d[i] \/ Unknown(d, i)'
      BY <1>8
    <3>1. At(mem, i - 1) = d[i] \/ Unknown(d, i)
      BY <1>9 DEF HeldIn
    <3>2. whole'.out[i] = At(mem, i - 1)
      BY <1>8
    <3>3. dst' = dst
      BY <1>4
    <3> QED
      BY <3>1, <3>2, <3>3 DEF Unknown
  <2> QED
    BY <1>7, <2>2, <2>3, <2>4, <2>5, <2>6 DEF Sized
<1>13. H \subseteq Nat \X Nat /\ <<0, 0>> \in H
  BY <1>3 DEF Block, Heads
<1>14. ASSUME w >= 0 PROVE Shown(H, last, d, st, 0, 0, len, tok, off, m, r)'
  <2>1. CASE st \in {"fast", "safe"}
    BY <1>13, <2>1, StartsAt
  <2>2. CASE st = "done" /\ target = 0 /\ r = 0
    <3>1. HeldIn(m, d, r)'
      BY <2>2 DEF HeldIn
    <3>2. r = Min({0, w})
      BY <1>11, <1>14, <2>2, SmallerOf
    <3>3. r = Min({oend', whole'.result})
      BY <1>7, <1>8, <2>2, <3>2
    <3>4. partial' = TRUE
      BY <1>7
    <3>5. Ended(H, last, d, r, m)'
      BY <3>1, <3>3, <3>4 DEF Ended
    <3> QED
      BY <2>2, <3>5 DEF Shown
  <2>3. CASE st = "done" /\ n = 0 /\ r = -1
    <3>1. LitEnd(input, last[1]) # 0
      <4>1. last \in Nat \X Nat
        OBVIOUS
      <4> QED
        BY <4>1, EndsBehindToken
    <3>2. LitEnd(input, last[1]) = srcSize
      BY <1>9, <1>14 DEF Reached
    <3> QED
      BY <1>10, <2>3, <3>1, <3>2
  <2> QED
    BY <1>7, <2>1, <2>2, <2>3
<1>15. SafeState(H, last, d)'
  BY <1>6, <1>7, <1>8, <1>12, <1>14 DEF SafeState
<1> QED
  BY <1>5, <1>15 DEF SafeKnows

-----------------------------------------------------------------------------
(* What is known throughout.                                               *)
AgreeInv ==
  /\ DInv
  /\ step = "idle" => fastIp = 0
  /\ step # "idle" => FastKnows
  /\ stage # "idle" => FastReturned /\ SafeKnows

LEMMA AgreeInitially == DecodersInit => AgreeInv
<1> SUFFICES ASSUME DecodersInit PROVE AgreeInv
  OBVIOUS
<1>1. DInv
  BY DecodersInitially
<1>2. step = "idle" /\ fastIp = 0 /\ stage = "idle"
  BY DEF DecodersInit, SafeInit, Fast!Init
<1> QED
  BY <1>1, <1>2 DEF AgreeInv

LEMMA DecodeCalls ==
  ASSUME Decode
  PROVE  UNCHANGED callVars
BY DEF Decode, FastLiterals, SafeLiterals, CopyLiterals, LastLiterals, PartialLiterals,
       FastMatch, Shortcut, ReadMatchLength, BadMatch, MatchFromExt, PartialMatch, MatchInBlock,
       callVars

LEMMA FastKnowsSame ==
  ASSUME UNCHANGED <<input, prefix, ext, srcSize, capacity>>, UNCHANGED fastVars, FastKnows
  PROVE  FastKnows'
BY DEF fastVars, FastKnows, FastAt, Dict, Complete, AtEnd, LitOp

LEMMA SafeKnowsSame ==
  ASSUME UNCHANGED allVars, SafeKnows
  PROVE  SafeKnows'
<1>1. /\ Same /\ mem' = mem
      /\ UNCHANGED <<stage, ip, op, length, token, offset, result>>
  BY DEF allVars, safeVars, fastVars, callVars, Same
<1>2. PICK H \in SUBSET (Nat \X Nat) : \E last \in H : \E d :
        Block(H, last, d) /\ SafeState(H, last, d)
  BY DEF SafeKnows
<1>3. PICK last \in H : \E d : Block(H, last, d) /\ SafeState(H, last, d)
  BY <1>2
<1>4. PICK d : Block(H, last, d) /\ SafeState(H, last, d)
  BY <1>3
<1>5. Block(H, last, d)'
  BY <1>1, <1>4, BlockSame
<1>6. PICK st, at, to, n, tok, off, m, r :
        /\ st = stage /\ at = ip /\ to = op /\ n = length /\ tok = token /\ off = offset
        /\ m = mem /\ r = result
        /\ st = stage' /\ at = ip' /\ to = op' /\ n = length' /\ tok = token' /\ off = offset'
        /\ m = mem' /\ r = result'
  BY <1>1
<1>7. Shown(H, last, d, st, at, to, n, tok, off, m, r)
        => Shown(H, last, d, st, at, to, n, tok, off, m, r)'
  BY <1>1, ShownSameLater
<1>8. Sized(H, last, d)'
  <2>1. PICK w : w = whole.result /\ w = whole'.result
    BY <1>1, SameFacts
  <2>2. Reached(H, last, w) => Reached(H, last, w)'
    BY <1>1, ReachedSame
  <2>3. Sized(H, last, d)
    BY <1>4 DEF SafeState
  <2>4. Reached(H, last, whole.result) => Reached(H, last, whole.result)'
    BY <2>1, <2>2 DEF Reached
  <2>5. Memory' /\ PrefixIn(mem)'
    BY <1>1, <2>3, SameFacts DEF Sized, Memory, PrefixIn
  <2>6. partial /\ whole.result >= 0 =>
          (\A i \in 1 .. whole.result : whole.out[i] = d[i] \/ Unknown(d, i))'
    BY <1>1, <2>3, SameFacts DEF Sized, Unknown
  <2> QED
    BY <1>1, <2>3, <2>4, <2>5, <2>6, SameFacts DEF Sized
<1>9. SafeState(H, last, d)'
  BY <1>1, <1>4, <1>6, <1>7, <1>8, SameFacts DEF SafeState
<1> QED
  BY <1>5, <1>9 DEF SafeKnows

LEMMA AgreeStep == AgreeInv /\ [DecodersNext]_allVars => AgreeInv'
<1> SUFFICES ASSUME AgreeInv, [DecodersNext]_allVars PROVE AgreeInv'
  OBVIOUS
<1>1. Given /\ SafeInv /\ FastInv /\ DInv
  BY DEF AgreeInv, DInv
<1>2. DInv'
  BY <1>1, DecodersStep
<1>3. /\ step = "idle" => fastIp = 0
      /\ step # "idle" => FastKnows
      /\ stage # "idle" => FastReturned /\ SafeKnows
  BY DEF AgreeInv
<1>4. CASE CallFast
  <2>1. /\ Fast!Call(capacity) /\ step = "idle" /\ step' = "literals" /\ stage' = stage
        /\ UNCHANGED <<input, prefix, ext, srcSize, capacity>>
    BY <1>4 DEF CallFast, Fast!Call, safeVars
  <2>2. FastKnows'
    BY <1>1, <1>3, <2>1, PlainCallKnows
  <2>3. stage' = "idle"
    BY <1>3, <2>1 DEF FastReturned
  <2> QED
    BY <1>2, <2>1, <2>2, <2>3 DEF AgreeInv
<1>5. CASE DecodeFast
  <2>1. /\ Fast!Decode /\ stage' = stage /\ UNCHANGED <<input, prefix, ext, srcSize, capacity>>
    BY <1>5 DEF DecodeFast, safeVars
  <2>2. step \in {"literals", "match"}
    BY <2>1 DEF Fast!Decode, Fast!Literals, Fast!Match, Fast!Outside
  <2>3. FastKnows'
    <3>1. CASE Fast!Literals
      BY <1>1, <1>3, <2>1, <2>2, <3>1, PlainLiteralsKnow
    <3>2. CASE Fast!Match
      BY <1>1, <1>3, <2>1, <2>2, <3>2, PlainMatchKnows
    <3>3. CASE Fast!Outside
      BY <1>1, <1>3, <2>1, <2>2, <3>3, PlainOutsideKnows
    <3> QED
      BY <2>1, <3>1, <3>2, <3>3 DEF Fast!Decode
  <2>4. stage' = "idle"
    BY <1>3, <2>1, <2>2 DEF FastReturned
  <2>5. step' # "idle"
    BY <2>3 DEF FastKnows, FastAt
  <2> QED
    BY <1>2, <2>3, <2>4, <2>5 DEF AgreeInv
<1>6. CASE CallSafe
  <2>1. /\ UNCHANGED fastVars /\ UNCHANGED <<input, prefix, ext, srcSize, capacity>>
        /\ FastReturned /\ step # "idle"
    BY <1>6 DEF CallSafe, Call, FastReturned
  <2>2. FastKnows'
    BY <1>3, <2>1, FastKnowsSame
  <2>3. SafeKnows'
    BY <1>1, <1>3, <1>6, <2>1, CallSafeKnows
  <2>4. FastReturned' /\ step' # "idle"
    BY <2>1 DEF FastReturned, fastVars
  <2> QED
    BY <1>2, <2>2, <2>3, <2>4 DEF AgreeInv
<1>7. CASE DecodeSafe
  <2>1. Decode /\ Same /\ UNCHANGED fastVars /\ UNCHANGED <<input, prefix, ext, srcSize, capacity>>
    BY <1>7, DecodeCalls DEF DecodeSafe, Same, fastVars, callVars
  <2>2. FastReturned /\ SafeKnows /\ FastKnows
    BY <1>3, <2>1, DecodeRuns DEF FastReturned
  <2>3. FastKnows'
    BY <2>1, <2>2, FastKnowsSame
  <2>4. SafeKnows'
    <3>1. PICK H \in SUBSET (Nat \X Nat) : \E last \in H : \E d :
            Block(H, last, d) /\ SafeState(H, last, d)
      BY <2>2 DEF SafeKnows
    <3>2. PICK last \in H : \E d : Block(H, last, d) /\ SafeState(H, last, d)
      BY <3>1
    <3>3. PICK d : Block(H, last, d) /\ SafeState(H, last, d)
      BY <3>2
    <3>4. Block(H, last, d)'
      BY <2>1, <3>3, BlockSame
    <3>5. SafeState(H, last, d)'
      BY <1>1, <2>1, <3>3, SafeStateKept
    <3> QED
      BY <3>4, <3>5 DEF SafeKnows
  <2>5. FastReturned' /\ step' # "idle"
    BY <2>1, <2>2 DEF FastReturned, fastVars
  <2> QED
    BY <1>2, <2>3, <2>4, <2>5 DEF AgreeInv
<1>8. ASSUME NEW n \in {srcSize, Len(input)}, NEW t \in Targets, CallPartial(n, t)
      PROVE  AgreeInv'
  <2>1. /\ UNCHANGED fastVars /\ UNCHANGED <<input, prefix, ext, srcSize, capacity>>
        /\ stage = "done" /\ t \in Nat
    BY <1>8, DecodersAssumption DEF CallPartial, Call
  <2>2. FastReturned /\ SafeKnows /\ FastKnows
    BY <1>3, <2>1 DEF FastReturned
  <2>3. FastKnows'
    BY <2>1, <2>2, FastKnowsSame
  <2>4. SafeKnows'
    BY <1>1, <1>8, <2>1, <2>2, CallPartialKnows
  <2>5. FastReturned' /\ step' # "idle"
    BY <2>1, <2>2 DEF FastReturned, fastVars
  <2> QED
    BY <1>2, <2>3, <2>4, <2>5 DEF AgreeInv
<1>9. CASE UNCHANGED allVars
  <2>1. /\ UNCHANGED fastVars /\ UNCHANGED <<input, prefix, ext, srcSize, capacity>>
        /\ stage' = stage /\ step' = step /\ fastIp' = fastIp
    BY <1>9 DEF allVars, safeVars, fastVars
  <2>2. FastKnows => FastKnows'
    BY <2>1, FastKnowsSame
  <2>3. SafeKnows => SafeKnows'
    BY <1>9, SafeKnowsSame
  <2>4. FastReturned => FastReturned'
    BY <2>1 DEF FastReturned
  <2> QED
    BY <1>2, <1>3, <2>1, <2>2, <2>3, <2>4 DEF AgreeInv
<1>10. CASE Finished
  BY <1>9, <1>10 DEF Finished
<1> QED
  BY <1>4, <1>5, <1>6, <1>7, <1>8, <1>9, <1>10 DEF DecodersNext

LEMMA AgreeInvShows ==
  ASSUME AgreeInv
  PROVE  DecodersAgree /\ PartialIsPrefix
<1>1. Given /\ SafeInv /\ FastInv
  BY DEF AgreeInv, DInv
<1> SUFFICES ASSUME stage = "done" PROVE DecodersAgree /\ PartialIsPrefix
  BY DEF DecodersAgree, PartialIsPrefix
<1>2. PICK H \in SUBSET (Nat \X Nat) : \E last \in H : \E d :
        Block(H, last, d) /\ SafeState(H, last, d)
  BY DEF AgreeInv, SafeKnows
<1>3. PICK last \in H : \E d : Block(H, last, d) /\ SafeState(H, last, d)
  BY <1>2
<1>4. PICK d : Block(H, last, d) /\ SafeState(H, last, d)
  BY <1>3
<1>5. Sized(H, last, d) /\ ((partial => whole.result >= 0) => Ended(H, last, d, result, mem))
  BY <1>4 DEF SafeState, Shown
<1>6. Len(dst) \in Nat /\ oend \in Nat /\ size = capacity /\ Len(dst) <= size
      /\ (\A i \in 1 .. Len(dst) : d[i] = dst[i])
  <2>1. size = capacity /\ \A i \in 1 .. Len(dst) : d[i] = dst[i]
    BY <1>4 DEF Block
  <2>2. Len(dst) <= size
    BY <1>1 DEF FastInv
  <2> QED
    BY <1>1, <2>1, <2>2, FastFacts, SafeFacts
<1>7. DecodersAgree
  <2> SUFFICES ASSUME ~partial, oend > 0
               PROVE  /\ step = "done" /\ fastIp = srcSize => result = oend
                      /\ result = oend => (step = "done" /\ fastIp = srcSize) \/ EndsInMatch
                      /\ result = oend => \A i \in 1 .. Len(dst) : dst[i] \in {Unset, Output[i]}
    BY DEF DecodersAgree
  <2>1. oend = capacity /\ (EndsWell(last) => result = oend)
        /\ (result >= 0 => Reached(H, last, result) /\ HeldIn(mem, d, result))
    BY <1>5 DEF Sized, Ended
  <2>2. step = "done" /\ fastIp = srcSize => result = oend
    BY <1>4, <2>1 DEF Block
  <2>3. ASSUME result = oend PROVE (step = "done" /\ fastIp = srcSize) \/ EndsInMatch
    <3>1. LitEnd(input, last[1]) = srcSize /\ LitOp(input, last) = capacity
      BY <1>6, <2>1, <2>3 DEF Reached
    <3> QED
      BY <1>4, <3>1 DEF Block
  <2>4. ASSUME result = oend, NEW i \in 1 .. Len(dst) PROVE dst[i] \in {Unset, Output[i]}
    <3>1. i \in 1 .. result
      BY <1>6, <2>1, <2>4
    <3>2. At(mem, i - 1) = d[i] \/ d[i] = Unset
      BY <1>6, <2>1, <2>4, <3>1 DEF HeldIn, Unknown
    <3>3. Output[i] = At(mem, i - 1)
      BY <3>1 DEF Output
    <3> QED
      BY <1>6, <2>4, <3>2, <3>3
  <2> QED
    BY <2>2, <2>3, <2>4
<1>8. PartialIsPrefix
  <2> SUFFICES ASSUME partial, whole.result >= 0
               PROVE  /\ result = Min({oend, whole.result})
                      /\ \A i \in 1 .. result :
                           Output[i] = whole.out[i] \/ (i <= Len(dst) /\ dst[i] = Unset)
    BY DEF PartialIsPrefix
  <2>1. /\ Reached(H, last, whole.result)
        /\ \A i \in 1 .. whole.result : whole.out[i] = d[i] \/ Unknown(d, i)
        /\ result = Min({oend, whole.result}) /\ HeldIn(mem, d, result)
    BY <1>5 DEF Sized, Ended
  <2>2. PICK w \in Nat : w = whole.result
    <3>1. last \in Nat \X Nat
      OBVIOUS
    <3>2. LitOp(input, last) \in Nat
      BY <1>1, <3>1, HeadIs
    <3> QED
      BY <2>1, <3>2 DEF Reached
  <2>3. result \in Nat /\ result <= w
    <3>1. result = IF oend <= w THEN oend ELSE w
      BY <1>6, <2>1, <2>2, SmallerOf
    <3> QED
      BY <1>6, <3>1
  <2>4. ASSUME NEW i \in 1 .. result
        PROVE  Output[i] = whole.out[i] \/ (i <= Len(dst) /\ dst[i] = Unset)
    <3>1. At(mem, i - 1) = d[i] \/ Unknown(d, i)
      BY <2>1 DEF HeldIn
    <3>2. whole.out[i] = d[i] \/ Unknown(d, i)
      <4>1. i \in 1 .. w
        BY <2>3
      <4> QED
        BY <2>1, <2>2, <4>1
    <3>3. Output[i] = At(mem, i - 1)
      BY DEF Output
    <3>4. Unknown(d, i) => i <= Len(dst) /\ dst[i] = Unset
      <4>1. i <= Len(dst) => i \in 1 .. Len(dst)
        BY <1>6, <2>3
      <4> QED
        BY <1>6, <4>1 DEF Unknown
    <3> QED
      BY <3>1, <3>2, <3>3, <3>4
  <2> QED
    BY <2>1, <2>4
<1> QED
  BY <1>7, <1>8

THEOREM AgreementHolds == DecodersSpec => []AgreeInv
<1>1. DecodersInit => AgreeInv
  BY AgreeInitially
<1>2. AgreeInv /\ [DecodersNext]_allVars => AgreeInv'
  BY AgreeStep
<1> QED
  BY <1>1, <1>2, PTL DEF DecodersSpec

(* On every block, whatever its bytes, the dictionaries and the sizes of   *)
(* the buffers: LZ4_decompress_safe accepts what LZ4_decompress_fast       *)
(* accepts, nothing more but for blocks that end in a match, and all three *)
(* ways of its decoding give the same bytes as the plain loop.             *)
THEOREM TheDecodersAgree == DecodersSpec => []DecodersAgree
<1>1. AgreeInv => DecodersAgree
  BY AgreeInvShows
<1> QED
  BY <1>1, AgreementHolds, PTL

(* LZ4_decompress_safe_partial decodes a beginning of what the whole       *)
(* decoding gives, up to its target and not less (lz4.h:277, 300).         *)
THEOREM PartialGivesPrefix == DecodersSpec => []PartialIsPrefix
<1>1. AgreeInv => PartialIsPrefix
  BY AgreeInvShows
<1> QED
  BY <1>1, AgreementHolds, PTL
=============================================================================
