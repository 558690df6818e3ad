------------------------------ MODULE Lz4HcProofs ------------------------------
(***************************************************************************)
(* Whatever the level, what lz4hc.c elects are true matches, one behind    *)
(* the other: Lz4Hc implements Lz4Encoder.  For all inputs, hash functions *)
(* and levels, and all numbers that the assumptions admit.                 *)
(*                                                                         *)
(* The invariant has three parts.  The finder's: its tables know no        *)
(* position that is still to be searched for, and what a search has found  *)
(* so far is a match.  The optimal parser's: every step of a way through   *)
(* its table is a literal or a match.  The hash chain parser's: how the    *)
(* three matches that it holds lie to each other.                          *)
(*                                                                         *)
(* That a search misses nothing longer needs a second one, at the end of   *)
(* the module: the tables know the last position of every hash and, of     *)
(* each position, the one before with the same hash; and nothing that may  *)
(* be found is longer than what a search has found among the candidates    *)
(* that it has passed.                                                     *)
(***************************************************************************)
EXTENDS Lz4Hc, Lz4FormatTheorems

(* The finder.                                                             *)
Searches ==
  [at : Nat, low : Nat, min : Nat, start : Nat, longest : Nat, offset : Nat,
   cand : Nat, left : Nat, chainPos : Nat]

FinderTypeOK ==
  /\ src \in Seq(U8) /\ level \in Levels
  /\ hashTable \in [Hashes -> Nat]
  /\ chainTable \in [0 .. DISTANCE_MAX -> 0 .. DISTANCE_MAX]
  /\ nextToUpdate \in Nat /\ nextToUpdate >= START
  /\ search \in Searches

(* All positions in the tables stand before the next one.                  *)
TableBefore == \A h \in Hashes : hashTable[h] < nextToUpdate

SearchInPlace ==
  /\ search.low <= search.start /\ search.start <= search.at
  /\ search.min <= search.longest
  /\ search.cand < Index(search.at)
  /\ search.left > 0 \/ ~Nothing => search.at + MFLIMIT <= Len(src)
  /\ search.left > 0 => search.min > 0

FinderInv == FinderTypeOK /\ TableBefore /\ SearchInPlace /\ FoundIsMatch

(* A match where one may begin, and where it ends.                         *)
IsMatch(e) ==
  /\ e \in [ip : Nat, m : [offset : Nat, len : Nat]]
  /\ e.ip + MFLIMIT <= Len(src) /\ e.m \in Encoder!Matches(e.ip)

EndOf(e) == e.ip + e.m.len

(* The search that runs was begun there; or the next one may begin there.  *)
SearchedAt(at, low, min) ==
  /\ search.at = at /\ search.low = low /\ search.min = min
  /\ nextToUpdate = Index(at)

MaySearchAt(at) == nextToUpdate <= Index(at)
-----------------------------------------------------------------------------
(* The optimal parser.                                                     *)
StepTo(p) ==
  \/ opt[p].mlen = 1
  \/ /\ opt[p].mlen \in MINMATCH .. p
     /\ IsMatch([ip |-> ip + p - opt[p].mlen,
                 m |-> [offset |-> opt[p].off, len |-> opt[p].mlen]])

TableOK ==
  /\ last < OPT_NUM
  /\ DOMAIN opt = 0 .. last + TRAILING_LITERALS
  /\ \A p \in DOMAIN opt : StepTo(p)

(* Matches from one position to another, that do not overlap.              *)
IsWay(way, from, to) ==
  /\ way \in Seq([ip : Nat, m : [offset : Nat, len : Nat]])
  /\ \A k \in 1 .. Len(way) :
       /\ IsMatch(way[k]) /\ from <= way[k].ip /\ EndOf(way[k]) <= to
       /\ k > 1 => EndOf(way[k - 1]) <= way[k].ip

OptimalInv ==
  /\ step \in {"main", "first", "further", "improve", "encode"}
  /\ step \in {"first", "further", "improve"} => pc = "parse"
  /\ ip \in Nat /\ cur \in Nat /\ last \in Nat
  /\ pc = "parse" =>
       /\ anchor <= ip
       /\ step = "main" => MaySearchAt(ip)
       /\ step = "first" => SearchedAt(ip, ip, MINMATCH - 1)
       /\ step = "further" => cur \in 1 .. last /\ MaySearchAt(ip + cur) /\ TableOK
       /\ step = "improve" =>
            /\ cur \in 1 .. last - 1 /\ TableOK
            /\ SearchedAt(ip + cur, ip + cur, search.min)
       /\ step = "encode" => elected # <<>> /\ IsWay(elected, anchor, ip) /\ MaySearchAt(ip)
-----------------------------------------------------------------------------
(* The hash chain parser.                                                  *)
First == [ip |-> ip, m |-> m1]

(* The match that was given up is shorter and begins shortly before m1.    *)
WithSkipped ==
  /\ IsMatch(First) /\ IsMatch(skipped)
  /\ anchor <= skipped.ip /\ skipped.ip <= ip /\ ip <= skipped.ip + 2
  /\ skipped.m.len <= m1.len

(* The second match begins in m1 or shortly behind it, and so far from its *)
(* beginning that, when it is shortened, both are long enough.             *)
WithSecond ==
  /\ IsMatch(First) /\ IsMatch(second) /\ anchor <= ip
  /\ EndOf(First) + MFLIMIT <= Len(src)
  /\ second.ip <= EndOf(First) + 1

Uncorrected ==
  /\ ip <= second.ip /\ second.m.len > MINMATCH
  /\ second.ip - ip + second.m.len >= 2 * MINMATCH

IsCorrected ==
  /\ ip + MINMATCH <= second.ip
  /\ second.ip > EndOf(First) => second.m.len > MINMATCH

ChainInv ==
  /\ step \in {"main", "first", "search2", "second", "search3", "third", "both", "one"}
  /\ step \in {"first", "second", "third"} => pc = "parse"
  /\ pc = "parse" =>
       /\ ip \in Nat /\ anchor <= ip
       /\ step = "main" => MaySearchAt(ip)
       /\ step = "first" => SearchedAt(ip, ip, MINMATCH - 1)
       /\ step = "search2" => WithSkipped /\ MaySearchAt(EndOf(First) - 2)
       /\ step = "second" =>
            /\ WithSkipped /\ EndOf(First) + MFLIMIT <= Len(src)
            /\ SearchedAt(EndOf(First) - 2, ip, m1.len)
       /\ step = "search3" => WithSecond /\ Uncorrected /\ MaySearchAt(EndOf(second) - 3)
       /\ step = "third" =>
            /\ WithSecond /\ IsCorrected /\ EndOf(second) + MFLIMIT <= Len(src)
            /\ SearchedAt(EndOf(second) - 3, second.ip, second.m.len)
       /\ step = "both" => WithSecond /\ IsCorrected /\ MaySearchAt(EndOf(second))
       /\ step = "one" => IsMatch(First) /\ MaySearchAt(EndOf(First))
-----------------------------------------------------------------------------
HcInv ==
  /\ FinderInv
  /\ pc = "parse" => anchor \in Nat
  /\ level.strat = "lz4opt" => OptimalInv
  /\ level.strat = "lz4hc" => ChainInv
-----------------------------------------------------------------------------
(* The numbers of the parameters.                                          *)
LEMMA HcNumbers ==
  /\ MINMATCH = 4 /\ DISTANCE_MAX \in Nat \ {0}
  /\ START = DISTANCE_MAX + 1 /\ START \in Nat
  /\ LASTLITERALS \in Nat \ {0} /\ MFLIMIT \in Nat /\ MFLIMIT >= LASTLITERALS + 4
  /\ TRIGGER \in Nat \ {0} /\ MASK \in Nat
<1> DEFINE m == (MAXBYTE + 1) * (MAXBYTE + 1) - 1
<1>1. DISTANCE_MAX \in 1 .. m
  BY Lz4Assumption
<1>2. m \in Int
  BY Numbers
<1> HIDE DEF m
<1> QED
  BY <1>1, <1>2, Lz4Assumption, FinderAssumption DEF START
-----------------------------------------------------------------------------
(* The bytes that are compared.                                            *)
Same(p, q, k) == \A i \in 1 .. k : src[p + i] = src[q + i]

LEMMA CommonIs ==
  ASSUME src \in Seq(U8), NEW p \in Nat, NEW q, p <= matchLimit
  PROVE  /\ Common(p, q) \in 0 .. matchLimit - p
         /\ Same(p, q, Common(p, q))
         /\ \A k \in 0 .. matchLimit - p : Same(p, q, k) => k <= Common(p, q)
<1> DEFINE T == {k \in 0 .. matchLimit - p : \A i \in 1 .. k : src[p + i] = src[q + i]}
<1>1. matchLimit \in Int
  BY HcNumbers DEF matchLimit
<1>2. Bounded(T, matchLimit - p) /\ matchLimit - p \in Int
  <2>1. 0 \in T /\ T \subseteq 0 .. matchLimit - p
    BY <1>1
  <2> HIDE DEF T
  <2> QED
    BY <1>1, <2>1 DEF Bounded
<1>3. Common(p, q) = Max(T)
  BY DEF Common
<1> HIDE DEF T
<1>4. Max(T) \in T /\ \A y \in T : y <= Max(T)
  BY <1>2, Greatest
<1> QED
  BY <1>3, <1>4 DEF T, Same

SameBefore(p, q, k) == \A i \in 0 .. k - 1 : src[p - i] = src[q - i]

LEMMA BeforeIs ==
  ASSUME search.low \in Nat, search.at \in Nat, search.low <= search.at,
         NEW p \in Nat, NEW q \in Nat
  PROVE  /\ Before(p, q) \in 0 .. LookBack /\ Before(p, q) <= q
         /\ SameBefore(p, q, Before(p, q))
<1> DEFINE T == {k \in 0 .. LookBack : k <= q /\ \A i \in 0 .. k - 1 : src[p - i] = src[q - i]}
<1>1. LookBack \in Nat
  BY DEF LookBack
<1>2. Bounded(T, LookBack)
  <2>1. 0 \in T
    BY <1>1
  <2> QED
    BY <1>1, <2>1 DEF Bounded
<1>3. Before(p, q) = Max(T)
  BY DEF Before
<1> HIDE DEF T
<1>4. Max(T) \in T
  BY <1>1, <1>2, Greatest
<1> QED
  BY <1>3, <1>4 DEF T, SameBefore

(* A number of bytes, from a position on or before it, that are all equal  *)
(* to the first one that is searched for.                                  *)
Pattern(from, k) == \A i \in 1 .. k : src[from + i] = src[search.at + 1]

LEMMA ForwardIs ==
  ASSUME src \in Seq(U8), NEW p \in Nat, p <= matchLimit
  PROVE  /\ Forward(p) \in 0 .. matchLimit - p
         /\ Pattern(p, Forward(p))
         /\ \A k \in 0 .. matchLimit - p : Pattern(p, k) => k <= Forward(p)
<1> DEFINE T == {k \in 0 .. matchLimit - p : \A i \in 1 .. k : src[p + i] = src[search.at + 1]}
<1>1. matchLimit \in Int
  BY HcNumbers DEF matchLimit
<1>2. Bounded(T, matchLimit - p) /\ matchLimit - p \in Int
  <2>1. 0 \in T /\ T \subseteq 0 .. matchLimit - p
    BY <1>1
  <2> HIDE DEF T
  <2> QED
    BY <1>1, <2>1 DEF Bounded
<1>3. Forward(p) = Max(T)
  BY DEF Forward
<1> HIDE DEF T
<1>4. Max(T) \in T /\ \A y \in T : y <= Max(T)
  BY <1>2, Greatest
<1> QED
  BY <1>3, <1>4 DEF T, Pattern

LEMMA BackwardIs ==
  ASSUME NEW p \in Nat, Lowest \in Nat, Lowest <= Index(p)
  PROVE  /\ Backward(p) \in 0 .. Index(p) - Lowest
         /\ \A i \in 0 .. Backward(p) - 1 : src[p - i] = src[search.at + 1]
<1> DEFINE T == {k \in 0 .. Index(p) - Lowest :
                   \A i \in 0 .. k - 1 : src[p - i] = src[search.at + 1]}
<1>1. Index(p) \in Int
  BY HcNumbers DEF Index
<1>2. Bounded(T, Index(p) - Lowest) /\ Index(p) - Lowest \in Int
  <2>1. 0 \in T
    BY <1>1
  <2> QED
    BY <1>1, <2>1 DEF Bounded
<1>3. Backward(p) = Max(T)
  BY DEF Backward
<1> HIDE DEF T
<1>4. Max(T) \in T
  BY <1>2, Greatest
<1> QED
  BY <1>3, <1>4 DEF T

LEMMA QuadIs ==
  ASSUME src \in Seq(U8), NEW p \in Nat, p + 4 <= Len(src)
  PROVE  /\ Quad(p) \in [1 .. 4 -> U8]
         /\ \A i \in 1 .. 4 : Quad(p)[i] = src[p + i]
<1>1. Quad(p) = SubSeq(src, p + 1, p + 4)
  BY HcNumbers DEF Quad
<1>2. Len(src) \in Nat
  OBVIOUS
<1>3. SubSeq(src, p + 1, p + 4) = [i \in 1 .. 4 |-> src[p + i]]
  BY <1>2
<1>4. \A i \in 1 .. 4 : src[p + i] \in U8
  BY <1>2
<1> QED
  BY <1>1, <1>3, <1>4

LEMMA QuadsEqual ==
  ASSUME src \in Seq(U8), NEW p \in Nat, NEW q \in Nat,
         p + 4 <= Len(src), q + 4 <= Len(src), Quad(p) = Quad(q)
  PROVE  Same(p, q, 4)
BY QuadIs DEF Same
-----------------------------------------------------------------------------
(* What is inserted stands before the position of the search.              *)
LEMMA NewIs ==
  ASSUME FinderTypeOK, NEW h, NEW at \in Nat
  PROVE  New(h, at) \subseteq nextToUpdate .. Index(at) - 1
BY DEF New

LEMMA HashIs ==
  ASSUME FinderTypeOK, NEW i \in Nat, i >= START, i - START + 4 <= Len(src)
  PROVE  Hash(Quad(i - START)) \in Hashes
<1> DEFINE p == i - START
<1>1. p \in Nat /\ p + 4 <= Len(src)
  BY HcNumbers
<1> HIDE DEF p
<1>2. Quad(p) \in [1 .. 4 -> U8]
  BY <1>1, QuadIs DEF FinderTypeOK
<1>3. Hash(Quad(p)) \in Hashes
  BY <1>2, FinderAssumption
<1> QED
  BY <1>3 DEF p

LEMMA DeltaIs ==
  ASSUME FinderTypeOK, TableBefore, NEW i \in Nat, nextToUpdate <= i,
         i - START + 4 <= Len(src)
  PROVE  Delta(i) \in 1 .. DISTANCE_MAX
<1> DEFINE h == Hash(Quad(i - START))
           T == {hashTable[h]} \cup {k \in New(h, i - START) : k < Index(i - START)}
<1>1. /\ nextToUpdate \in Nat /\ nextToUpdate >= START /\ i >= START /\ i - START \in Nat
      /\ Index(i - START) = i
  BY HcNumbers DEF FinderTypeOK, Index
<1>2. hashTable[h] \in Nat /\ hashTable[h] < nextToUpdate
  BY <1>1, HashIs DEF FinderTypeOK, TableBefore
<1> HIDE DEF h
<1>3. New(h, i - START) \subseteq nextToUpdate .. i - 1
  BY <1>1, NewIs
<1>4. Bounded(T, i - 1) /\ T \subseteq Nat
  BY <1>1, <1>2, <1>3 DEF Bounded
<1>5. Latest(h, i - START) = Max(T)
  BY DEF Latest
<1> HIDE DEF T
<1>6. Max(T) \in T
  BY <1>4, Greatest
<1>7. Latest(h, i - START) \in Nat /\ Latest(h, i - START) <= i - 1
  BY <1>4, <1>5, <1>6 DEF Bounded
<1> DEFINE l == Latest(h, i - START)
<1>8. Delta(i) = IF i - l > DISTANCE_MAX THEN DISTANCE_MAX ELSE i - l
  BY DEF Delta, h
<1> HIDE DEF l
<1> QED
  BY <1>7, <1>8, HcNumbers DEF l

LEMMA InsertKeeps ==
  ASSUME FinderTypeOK, TableBefore, NEW at \in Nat, MaySearchAt(at),
         at + MFLIMIT <= Len(src), Insert(at)
  PROVE  /\ hashTable' \in [Hashes -> Nat]
         /\ \A h \in Hashes : hashTable'[h] < Index(at)
         /\ chainTable' \in [0 .. DISTANCE_MAX -> 0 .. DISTANCE_MAX]
         /\ nextToUpdate' = Index(at) /\ Index(at) \in Nat /\ Index(at) >= START
<1>1. /\ nextToUpdate \in Nat /\ nextToUpdate >= START /\ nextToUpdate <= Index(at)
      /\ Index(at) = START + at /\ Index(at) \in Nat
  BY HcNumbers DEF FinderTypeOK, Index, MaySearchAt
<1>2. ASSUME NEW h \in Hashes
      PROVE  /\ Max({hashTable[h]} \cup New(h, at)) \in Nat
             /\ Max({hashTable[h]} \cup New(h, at)) < Index(at)
  <2> DEFINE T == {hashTable[h]} \cup New(h, at)
  <2>1. hashTable[h] \in Nat /\ hashTable[h] < nextToUpdate
    BY DEF FinderTypeOK, TableBefore
  <2>2. New(h, at) \subseteq nextToUpdate .. Index(at) - 1
    BY NewIs
  <2>3. Bounded(T, Index(at) - 1) /\ T \subseteq Nat /\ Index(at) - 1 \in Int
    BY <1>1, <2>1, <2>2 DEF Bounded
  <2> HIDE DEF T
  <2>4. Max(T) \in T
    BY <2>3, Greatest
  <2>5. Max(T) \in Nat /\ Max(T) < Index(at)
    <3> DEFINE x == Max(T)
    <3>1. x \in T
      BY <2>4
    <3> HIDE DEF x
    <3>2. x \in Nat /\ x <= Index(at) - 1
      BY <2>3, <3>1 DEF Bounded
    <3>3. x < Index(at)
      BY <1>1, <3>2
    <3> QED
      BY <3>2, <3>3 DEF x
  <2> QED
    BY <2>5 DEF T
<1>3. hashTable' = [h \in Hashes |-> Max({hashTable[h]} \cup New(h, at))]
  BY DEF Insert
<1>4. ASSUME NEW k \in 0 .. DISTANCE_MAX PROVE chainTable'[k] \in 0 .. DISTANCE_MAX
  <2> DEFINE here == {i \in UNION {New(h, at) : h \in Hashes} : i % (DISTANCE_MAX + 1) = k}
  <2>1. chainTable'[k] = IF here = {} THEN chainTable[k] ELSE Delta(Max(here))
    BY DEF Insert
  <2>2. CASE here = {}
    BY <2>1, <2>2 DEF FinderTypeOK
  <2>3. CASE here # {}
    <3>1. here \subseteq nextToUpdate .. Index(at) - 1
      BY NewIs
    <3> HIDE DEF here
    <3>2. Bounded(here, Index(at) - 1) /\ Index(at) - 1 \in Int
      BY <1>1, <2>3, <3>1 DEF Bounded
    <3>3. Max(here) \in here
      BY <3>2, Greatest
    <3> DEFINE i == Max(here)
    <3>4. i \in nextToUpdate .. Index(at) - 1
      BY <3>1, <3>3
    <3> HIDE DEF i
    <3>5. i \in Nat /\ nextToUpdate <= i /\ i - START + 4 <= Len(src)
      <4>1. Len(src) \in Nat
        BY DEF FinderTypeOK
      <4> QED
        BY <1>1, <3>4, <4>1, HcNumbers
    <3>6. Delta(i) \in 1 .. DISTANCE_MAX
      BY <3>5, DeltaIs
    <3>7. chainTable'[k] = Delta(i)
      BY <2>1, <2>3 DEF i
    <3> QED
      BY <3>6, <3>7, HcNumbers
  <2> QED
    BY <2>2, <2>3
<1>5. chainTable' \in [0 .. DISTANCE_MAX -> 0 .. DISTANCE_MAX]
  <2>1. chainTable' =
          [k \in 0 .. DISTANCE_MAX |->
            LET here == {i \in UNION {New(h, at) : h \in Hashes} : i % (DISTANCE_MAX + 1) = k}
            IN  IF here = {} THEN chainTable[k] ELSE Delta(Max(here))]
    BY DEF Insert
  <2> QED
    BY <1>4, <2>1
<1>6. nextToUpdate' = Index(at)
  BY DEF Insert
<1>7. Index(at) >= START
  BY <1>1, HcNumbers
<1>8. hashTable' \in [Hashes -> Nat] /\ \A h \in Hashes : hashTable'[h] < Index(at)
  BY <1>2, <1>3
<1> QED
  BY <1>1, <1>5, <1>6, <1>7, <1>8

(* A search begins with what is asked for.                                 *)
Asked(at, low, min) ==
  /\ search'.at = at /\ search'.low = low /\ search'.min = min
  /\ nextToUpdate' = START + at

LEMMA FindKeeps ==
  ASSUME FinderInv, NEW at \in Nat, NEW low \in Nat, NEW min \in Nat \ {0}, low <= at,
         MaySearchAt(at), at + MFLIMIT <= Len(src), Find(at, low, min),
         UNCHANGED <<src, level>>
  PROVE  FinderInv' /\ Asked(at, low, min)
<1>1. FinderTypeOK /\ TableBefore /\ Insert(at)
  BY DEF FinderInv, Find
<1>2. /\ hashTable' \in [Hashes -> Nat]
      /\ \A h \in Hashes : hashTable'[h] < Index(at)
      /\ chainTable' \in [0 .. DISTANCE_MAX -> 0 .. DISTANCE_MAX]
      /\ nextToUpdate' = Index(at) /\ Index(at) \in Nat /\ Index(at) >= START
  BY <1>1, InsertKeeps
<1> DEFINE cand == hashTable'[Hash(Quad(at))]
<1>3. search' = [at |-> at, low |-> low, min |-> min, start |-> at, longest |-> min,
                 offset |-> 0, cand |-> cand, left |-> level.nbSearches, chainPos |-> 0]
  BY DEF Find
<1>4. Hash(Quad(at)) \in Hashes
  <2> DEFINE i == Index(at)
  <2>1. i \in Nat /\ i >= START /\ i - START = at
    BY HcNumbers DEF Index
  <2>2. i - START + 4 <= Len(src)
    <3>1. Len(src) \in Nat
      BY <1>1 DEF FinderTypeOK
    <3> QED
      BY <2>1, <3>1, HcNumbers
  <2> HIDE DEF i
  <2> QED
    BY <1>1, <2>1, <2>2, HashIs
<1>5. cand \in Nat /\ cand < Index(at)
  BY <1>2, <1>4
<1>6. level.nbSearches \in Nat
  BY <1>1, ParserAssumption DEF FinderTypeOK
<1> HIDE DEF cand
<1>7. FinderTypeOK'
  <2>1. search' \in Searches
    BY <1>3, <1>5, <1>6 DEF Searches
  <2> QED
    BY <1>1, <1>2, <2>1 DEF FinderTypeOK, START
<1>8. TableBefore'
  BY <1>2 DEF TableBefore
<1>9. /\ search'.at = at /\ search'.low = low /\ search'.min = min /\ search'.start = at
      /\ search'.longest = min /\ search'.cand = cand
  BY <1>3
<1>10. SearchInPlace'
  <2>1. Index(search'.at) = Index(at)
    BY <1>9
  <2> QED
    BY <1>5, <1>9 DEF SearchInPlace, Index, START, Nothing
<1>11. FoundIsMatch'
  <2>1. Nothing'
    BY <1>9 DEF Nothing
  <2> QED
    BY <1>10, <2>1 DEF FoundIsMatch, SearchInPlace
<1>12. Asked(at, low, min)
  BY <1>2, <1>9 DEF Asked, Index
<1> QED
  BY <1>7, <1>8, <1>10, <1>11, <1>12 DEF FinderInv
-----------------------------------------------------------------------------
(* chainSwap: the recursive function of BestChain, which exists by the     *)
(* least number up to which it would not; the distance it ends with can be *)
(* found in the table.                                                     *)
WalkFrom == [pos |-> 0, accel |-> TRIGGER, dist |-> 1, best |-> search.chainPos]

WalkOn(w, end) ==
  LET dist == Chain(search.cand + w.pos)
      next == w.pos + (w.accel \div TRIGGER)
  IN  IF w.pos >= end THEN w
      ELSE IF dist > w.dist
        THEN [pos |-> next, accel |-> TRIGGER, dist |-> dist, best |-> w.pos]
      ELSE [w EXCEPT !.pos = next, !.accel = @ + 1]

IsWalk(f, to, end) ==
  f = [k \in 0 .. to |-> IF k = 0 THEN WalkFrom ELSE WalkOn(f[k - 1], end)]

LEMMA WalkExists ==
  ASSUME NEW to \in Nat, NEW end
  PROVE  \E f : IsWalk(f, to, end)
<1> DEFINE Bad == {d \in Nat : ~\E f : IsWalk(f, d, end)}
<1>1. SUFFICES ASSUME Bad # {} PROVE FALSE
  BY <1>1
<1>2. PICK d \in Bad : \A e \in Bad : d <= e
  BY <1>1, LeastNatural
<1>3. CASE d = 0
  <2> DEFINE f == [k \in 0 .. 0 |-> WalkFrom]
  <2>1. IsWalk(f, 0, end)
    BY DEF IsWalk
  <2> QED
    BY <1>2, <1>3, <2>1
<1>4. CASE d # 0
  <2>1. d - 1 \in Nat /\ d - 1 \notin Bad
    BY <1>2, <1>4
  <2>2. PICK f : IsWalk(f, d - 1, end)
    BY <2>1
  <2> DEFINE g == [k \in 0 .. d |-> IF k < d THEN f[k] ELSE WalkOn(f[k - 1], end)]
  <2>3. IsWalk(g, d, end)
    <3>1. ASSUME NEW k \in 0 .. d
          PROVE  g[k] = IF k = 0 THEN WalkFrom ELSE WalkOn(g[k - 1], end)
      <4>1. CASE k = 0
        BY <1>4, <2>1, <2>2, <4>1 DEF IsWalk
      <4>2. CASE k # 0
        <5>1. k - 1 \in 0 .. d /\ k - 1 < d /\ g[k - 1] = f[k - 1]
          BY <4>2, <2>1
        <5>2. g[k] = WalkOn(f[k - 1], end)
          <6>1. CASE k = d
            BY <6>1
          <6>2. CASE k # d
            <7>1. k \in 0 .. d - 1 /\ k < d
              BY <6>2, <2>1
            <7>2. f[k] = WalkOn(f[k - 1], end)
              BY <2>2, <4>2, <7>1 DEF IsWalk
            <7> QED
              BY <7>1, <7>2
          <6> QED
            BY <6>1, <6>2
        <5> QED
          BY <4>2, <5>1, <5>2
      <4> QED
        BY <4>1, <4>2
    <3> DEFINE h == [k \in 0 .. d |-> IF k = 0 THEN WalkFrom ELSE WalkOn(g[k - 1], end)]
    <3>2. g = h
      <4>1. \A k \in 0 .. d : g[k] = h[k]
        BY <3>1
      <4>2. g = [k \in 0 .. d |-> g[k]] /\ h = [k \in 0 .. d |-> h[k]]
        OBVIOUS
      <4> HIDE DEF g, h
      <4> QED
        BY <4>1, <4>2
    <3> QED
      BY <3>2 DEF IsWalk
  <2> QED
    BY <1>2, <2>3
<1> QED
  BY <1>3, <1>4

Walks == [pos : Nat, accel : Nat, dist : 1 .. DISTANCE_MAX, best : Nat]

LEMMA ChainIs ==
  ASSUME FinderTypeOK, NEW i \in Nat
  PROVE  Chain(i) \in 0 .. DISTANCE_MAX
<1>1. DISTANCE_MAX + 1 \in Nat \ {0}
  BY HcNumbers
<1> DEFINE m == DISTANCE_MAX + 1
<1>2. i % m \in 0 .. m - 1
  BY <1>1, QuotientRemainder
<1>3. i % m \in 0 .. DISTANCE_MAX
  BY <1>2, HcNumbers
<1> QED
  BY <1>3 DEF Chain, FinderTypeOK

LEMMA WalkOnType ==
  ASSUME FinderTypeOK, NEW w \in Walks, NEW end \in Int
  PROVE  WalkOn(w, end) \in Walks
<1>1. search.cand \in Nat /\ w.pos \in Nat /\ w.accel \in Nat /\ w.dist \in 1 .. DISTANCE_MAX
  BY DEF FinderTypeOK, Searches, Walks
<1> DEFINE dist == Chain(search.cand + w.pos)
           step1 == w.accel \div TRIGGER
<1>2. dist \in 0 .. DISTANCE_MAX
  <2>1. search.cand + w.pos \in Nat
    BY <1>1
  <2> QED
    BY <2>1, ChainIs
<1>3. step1 \in Nat
  BY <1>1, HcNumbers, QuotientRemainder
<1>4. WalkOn(w, end) =
        IF w.pos >= end THEN w
        ELSE IF dist > w.dist
          THEN [pos |-> w.pos + step1, accel |-> TRIGGER, dist |-> dist, best |-> w.pos]
        ELSE [w EXCEPT !.pos = w.pos + step1, !.accel = w.accel + 1]
  BY DEF WalkOn
<1> HIDE DEF dist, step1
<1>5. CASE w.pos >= end
  BY <1>4, <1>5
<1>6. CASE ~(w.pos >= end) /\ dist > w.dist
  <2>1. dist \in 1 .. DISTANCE_MAX
    BY <1>1, <1>2, <1>6, HcNumbers
  <2> QED
    BY <1>1, <1>3, <1>4, <1>6, <2>1, HcNumbers DEF Walks
<1>7. CASE ~(w.pos >= end) /\ ~(dist > w.dist)
  <2> DEFINE a == w.pos + step1
             b == w.accel + 1
  <2>1. a \in Nat /\ b \in Nat
    BY <1>1, <1>3
  <2> HIDE DEF a, b
  <2>2. [w EXCEPT !.pos = a, !.accel = b] \in Walks
    BY <2>1 DEF Walks
  <2> QED
    BY <1>4, <1>7, <2>2 DEF a, b
<1> QED
  BY <1>5, <1>6, <1>7

(* The walk of chainSwap ends with a distance of the table that it found   *)
(* before its end, or with none.                                           *)
FromTable(w, end) == w.dist = 1 \/ (w.best < end /\ w.dist = Chain(search.cand + w.best))

LEMMA BestOfChain ==
  ASSUME FinderTypeOK, NEW end \in Nat
  PROVE  BestChain(end) \in Walks /\ FromTable(BestChain(end), end)
<1> DEFINE f == CHOOSE f : IsWalk(f, end, end)
<1>1. IsWalk(f, end, end)
  <2>1. \E g : IsWalk(g, end, end)
    BY WalkExists
  <2> QED
    BY <2>1
<1>2. BestChain(end) = f[end]
  BY Zenon DEF BestChain, IsWalk, WalkFrom, WalkOn
<1> HIDE DEF f
<1> DEFINE Good(w) == w \in Walks /\ FromTable(w, end)
           Bad == {k \in 0 .. end : ~Good(f[k])}
<1>3. SUFFICES ASSUME Bad # {} PROVE FALSE
  BY <1>2, <1>3
<1>4. PICK k \in Bad : \A e \in Bad : k <= e
  <2>1. Bad \subseteq Nat
    OBVIOUS
  <2> HIDE DEF Bad
  <2> QED
    BY <1>3, <2>1, LeastNatural
<1>5. k # 0
  <2>1. WalkFrom \in Walks /\ WalkFrom.dist = 1
    BY HcNumbers DEF WalkFrom, Walks, FinderTypeOK, Searches
  <2> QED
    BY <1>1, <1>4, <2>1 DEF IsWalk, FromTable
<1>6. k - 1 \in 0 .. end /\ Good(f[k - 1])
  BY <1>4, <1>5
<1>7. f[k] = WalkOn(f[k - 1], end)
  BY <1>1, <1>4, <1>5 DEF IsWalk
<1> DEFINE w == f[k - 1]
<1>8. w \in Walks /\ FromTable(w, end)
  BY <1>6
<1>9. WalkOn(w, end) \in Walks
  BY <1>8, WalkOnType
<1> HIDE DEF w
<1>10. FromTable(WalkOn(w, end), end)
  <2> DEFINE dist == Chain(search.cand + w.pos)
             next == w.pos + (w.accel \div TRIGGER)
             a == w.accel + 1
  <2>1. WalkOn(w, end) =
          IF w.pos >= end THEN w
          ELSE IF dist > w.dist
            THEN [pos |-> next, accel |-> TRIGGER, dist |-> dist, best |-> w.pos]
          ELSE [w EXCEPT !.pos = next, !.accel = a]
    BY DEF WalkOn
  <2>2. w.pos \in Nat /\ dist = Chain(search.cand + w.pos)
    BY <1>8 DEF Walks
  <2> HIDE DEF dist, next, a
  <2>3. CASE w.pos >= end
    BY <1>8, <2>1, <2>3
  <2>4. CASE ~(w.pos >= end) /\ dist > w.dist
    <3>1. WalkOn(w, end) = [pos |-> next, accel |-> TRIGGER, dist |-> dist, best |-> w.pos]
      BY <2>1, <2>4
    <3>2. w.pos < end
      BY <2>2, <2>4
    <3> QED
      BY <2>2, <3>1, <3>2 DEF FromTable
  <2>5. CASE ~(w.pos >= end) /\ ~(dist > w.dist)
    <3>1. WalkOn(w, end) = [w EXCEPT !.pos = next, !.accel = a]
      BY <2>1, <2>5
    <3>2. WalkOn(w, end).dist = w.dist /\ WalkOn(w, end).best = w.best
      BY <1>8, <3>1 DEF Walks
    <3> QED
      BY <1>8, <3>2 DEF FromTable
  <2> QED
    BY <2>3, <2>4, <2>5
<1> QED
  BY <1>4, <1>7, <1>9, <1>10 DEF w
-----------------------------------------------------------------------------
(* A step of a search.  What it has found is the same as src before it.    *)
IsFound(s) ==
  /\ s.offset \in 1 .. DISTANCE_MAX /\ s.offset <= s.start
  /\ s.start + s.longest >= s.at + MINMATCH
  /\ s.longest <= Common(s.start, s.start - s.offset)

SearchOK(s) ==
  /\ s \in Searches
  /\ s.low <= s.start /\ s.start <= s.at
  /\ s.min <= s.longest
  /\ s.cand < Index(s.at)
  /\ s.at + MFLIMIT <= Len(src) /\ s.min > 0
  /\ s.longest > s.min => IsFound(s)

LEMMA SearchIsOK ==
  ASSUME FinderInv, search.left > 0
  PROVE  SearchOK(search)
<1>1. search \in Searches
  BY DEF FinderInv, FinderTypeOK
<1>2. search.longest \in Nat /\ search.min \in Nat
  BY <1>1 DEF Searches
<1>3. /\ search.low <= search.start /\ search.start <= search.at
      /\ search.min <= search.longest
      /\ search.cand < Index(search.at)
      /\ search.at + MFLIMIT <= Len(src) /\ search.min > 0
  BY DEF FinderInv, SearchInPlace
<1>4. ~Nothing => IsFound(search)
  BY DEF FinderInv, FoundIsMatch, IsFound
<1>5. search.longest > search.min => ~Nothing
  BY <1>2 DEF Nothing
<1> QED
  BY <1>1, <1>3, <1>4, <1>5 DEF SearchOK

LEMMA OKIsInv ==
  ASSUME FinderInv, SearchOK(search'),
         UNCHANGED <<src, level, hashTable, chainTable, nextToUpdate>>
  PROVE  FinderInv'
<1>1. FinderTypeOK' /\ TableBefore'
  BY DEF FinderInv, FinderTypeOK, TableBefore, SearchOK
<1>2. search'.start \in Nat /\ search'.low \in Nat /\ search'.at \in Nat
  BY DEF SearchOK, Searches
<1>3. SearchInPlace'
  BY DEF SearchOK, SearchInPlace, Index
<1>4. FoundIsMatch'
  <2>1. search'.longest > search'.min => IsFound(search')
    BY DEF SearchOK
  <2>2. search'.longest \in Nat /\ search'.min \in Nat
    BY DEF SearchOK, Searches
  <2>3. ~(search'.longest <= search'.min) => IsFound(search')
    BY <2>1, <2>2
  <2>4. \A p, q : Common(p, q)' = Common(p', q')
    BY DEF Common, matchLimit
  <2>5. ~Nothing' =>
          /\ search'.offset \in 1 .. DISTANCE_MAX /\ search'.offset <= search'.start
          /\ search'.start + search'.longest >= search'.at + MINMATCH
          /\ search'.longest <= Common(search.start, search.start - search.offset)'
    BY <2>3 DEF Nothing, IsFound, Common, matchLimit
  <2>6. search'.start \in search'.low .. search'.at
    BY <1>2 DEF SearchOK
  <2>7. search'.cand < Index(search.at)'
    BY DEF SearchOK, Index
  <2> QED
    BY <2>5, <2>6, <2>7 DEF FoundIsMatch
<1> QED
  BY <1>1, <1>3, <1>4 DEF FinderInv

LEMMA LowestIs ==
  ASSUME search.at \in Nat
  PROVE  /\ Lowest \in Nat /\ Lowest >= START
         /\ Index(search.at) - Lowest <= DISTANCE_MAX
         /\ Index(search.at) = START + search.at
BY HcNumbers DEF Lowest, Index, START

LEMMA SearchTypes ==
  ASSUME FinderInv
  PROVE  /\ search \in Searches /\ FinderTypeOK
         /\ search.at \in Nat /\ search.low \in Nat /\ search.min \in Nat
         /\ search.start \in Nat /\ search.longest \in Nat /\ search.offset \in Nat
         /\ search.cand \in Nat /\ search.left \in Nat /\ search.chainPos \in Nat
         /\ search.low <= search.start /\ search.start <= search.at
         /\ search.min <= search.longest
         /\ src \in Seq(U8) /\ Len(src) \in Nat
<1>1. search \in Searches /\ FinderTypeOK /\ src \in Seq(U8) /\ SearchInPlace
  BY DEF FinderInv, FinderTypeOK
<1>2. /\ search.at \in Nat /\ search.low \in Nat /\ search.min \in Nat
      /\ search.start \in Nat /\ search.longest \in Nat /\ search.offset \in Nat
      /\ search.cand \in Nat /\ search.left \in Nat /\ search.chainPos \in Nat
  BY <1>1 DEF Searches
<1>3. Len(src) \in Nat
  BY <1>1
<1> QED
  BY <1>1, <1>2, <1>3 DEF SearchInPlace

(* There are four bytes, and more, behind the position of a search.        *)
LEMMA SearchPlace ==
  ASSUME FinderInv, Searching
  PROVE  /\ SearchOK(search) /\ search.left > 0
         /\ matchLimit \in Nat /\ matchLimit <= Len(src)
         /\ search.at + 4 <= matchLimit /\ search.at + 4 <= Len(src)
<1>1. search.left > 0
  BY DEF Searching
<1>2. SearchOK(search)
  BY <1>1, SearchIsOK
<1>3. search.at \in Nat /\ Len(src) \in Nat
  BY SearchTypes
<1>4. search.at + MFLIMIT <= Len(src)
  BY <1>2 DEF SearchOK
<1>5. Len(src) - LASTLITERALS \in Nat /\ search.at + 4 <= Len(src) - LASTLITERALS
  BY <1>3, <1>4, HcNumbers
<1>6. Len(src) - LASTLITERALS <= Len(src) /\ search.at + 4 <= Len(src)
  BY <1>3, <1>4, HcNumbers
<1> QED
  BY <1>1, <1>2, <1>5, <1>6 DEF matchLimit

(* The candidate is a position before it that is not too far away.         *)
LEMMA CandidateIs ==
  ASSUME FinderInv, Searching
  PROVE  /\ Lowest \in Nat /\ Lowest >= START /\ search.cand >= Lowest
         /\ search.cand - START \in Nat /\ search.cand - START <= search.at - 1
         /\ START + search.at - search.cand \in 1 .. DISTANCE_MAX
         /\ START + search.at - search.cand = search.at - (search.cand - START)
<1> DEFINE at == search.at
           cand == search.cand
<1>1. at \in Nat /\ cand \in Nat
  BY SearchTypes
<1>2. /\ Lowest \in Nat /\ Lowest >= START
      /\ Index(at) - Lowest <= DISTANCE_MAX /\ Index(at) = START + at
  BY <1>1, LowestIs
<1>3. cand >= Lowest /\ cand < Index(at)
  BY DEF FinderInv, SearchInPlace, Searching
<1> HIDE DEF at, cand
<1>4. START \in Nat
  BY HcNumbers
<1>5. /\ cand - START \in Nat /\ cand - START <= at - 1
      /\ START + at - cand = at - (cand - START)
  BY <1>1, <1>2, <1>3, <1>4
<1>6. START + at - cand \in 1 .. DISTANCE_MAX
  BY <1>1, <1>2, <1>3, <1>4, HcNumbers
<1> QED
  BY <1>2, <1>3, <1>5, <1>6 DEF at, cand

(* The match with the candidate, extended to both sides.                   *)
LEMMA LongerIs ==
  ASSUME FinderInv, Searching, Length # 0
  PROVE  LET b == Before(search.at, search.cand - START)
             s == search.at - b
         IN  /\ b \in 0 .. LookBack /\ s \in Nat /\ Length \in Nat
             /\ s + Length >= search.at + 4
             /\ START + search.at - search.cand <= s
             /\ Length <= Common(s, s - (START + search.at - search.cand))
<1> DEFINE p == search.at
           q == search.cand - START
           b == Before(p, q)
           c == Common(p, q)
<1>0. /\ p \in Nat /\ src \in Seq(U8) /\ Len(src) \in Nat
      /\ search.low \in Nat /\ search.start \in Nat /\ search.longest \in Nat
      /\ search.low <= search.start /\ search.start <= p
  BY SearchTypes
<1>1. /\ p \in Nat /\ q \in Nat /\ q <= p - 1 /\ p + 4 <= matchLimit
      /\ matchLimit \in Nat /\ matchLimit <= Len(src) /\ src \in Seq(U8) /\ Len(src) \in Nat
      /\ search.low \in Nat /\ search.low <= p /\ search.longest \in Nat
  <2>1. q \in Nat /\ q <= p - 1
    BY CandidateIs
  <2>2. p + 4 <= matchLimit /\ matchLimit \in Nat /\ matchLimit <= Len(src)
    BY SearchPlace
  <2> QED
    BY <1>0, <2>1, <2>2
<1>2. START + p - search.cand = p - q
  BY CandidateIs
<1>3. Quad(p) = Quad(q) /\ Length = c + b
  <2>1. Length = 0 \/ (Quad(p) = Quad(q) /\ Length = c + b)
    BY DEF Length
  <2> QED
    BY <1>1, <2>1
<1> HIDE DEF p, q
<1>4. Same(p, q, 4)
  <2>1. p + 4 <= Len(src) /\ q + 4 <= Len(src)
    BY <1>1
  <2> QED
    BY <1>1, <1>3, <2>1, QuadsEqual
<1>5. c \in 0 .. matchLimit - p /\ Same(p, q, c) /\ 4 <= c
  <2>1. p <= matchLimit /\ 4 \in 0 .. matchLimit - p
    BY <1>1
  <2>2. /\ c \in 0 .. matchLimit - p /\ Same(p, q, c)
        /\ \A k \in 0 .. matchLimit - p : Same(p, q, k) => k <= c
    BY <1>1, <2>1, CommonIs
  <2> QED
    BY <1>4, <2>1, <2>2
<1>6. b \in 0 .. LookBack /\ b <= q /\ SameBefore(p, q, b)
  BY <1>1, BeforeIs DEF p
<1>7. LookBack \in Nat /\ LookBack <= p
  BY <1>1 DEF LookBack, p
<1> HIDE DEF b, c
<1>8. Same(p - b, q - b, b + c)
  <2>1. ASSUME NEW i \in 1 .. b + c PROVE src[(p - b) + i] = src[(q - b) + i]
    <3>1. CASE i <= b
      <4>1. b - i \in 0 .. b - 1 /\ p - (b - i) = (p - b) + i /\ q - (b - i) = (q - b) + i
        BY <1>1, <1>6, <1>7, <2>1, <3>1
      <4> DEFINE j == b - i
      <4>2. src[p - j] = src[q - j]
        BY <1>6, <4>1 DEF SameBefore
      <4> QED
        BY <4>1, <4>2
    <3>2. CASE ~(i <= b)
      <4>1. i - b \in 1 .. c /\ p + (i - b) = (p - b) + i /\ q + (i - b) = (q - b) + i
        BY <1>1, <1>5, <1>6, <1>7, <2>1, <3>2
      <4> DEFINE j == i - b
      <4>2. src[p + j] = src[q + j]
        BY <1>5, <4>1 DEF Same
      <4> QED
        BY <4>1, <4>2
    <3> QED
      BY <3>1, <3>2
  <2> QED
    BY <2>1 DEF Same
<1>9. p - b \in Nat /\ p - b <= matchLimit /\ b + c \in 0 .. matchLimit - (p - b)
  BY <1>1, <1>5, <1>6, <1>7
<1>10. b + c <= Common(p - b, q - b)
  <2> DEFINE s == p - b
             t == q - b
             k == b + c
  <2>1. src \in Seq(U8) /\ s \in Nat /\ s <= matchLimit /\ k \in 0 .. matchLimit - s
        /\ Same(s, t, k)
    BY <1>1, <1>8, <1>9
  <2> HIDE DEF s, t, k
  <2>2. k <= Common(s, t)
    BY <2>1, CommonIs
  <2> QED
    BY <2>2 DEF s, t, k
<1>11. q - b = (p - b) - (p - q)
  BY <1>1, <1>6, <1>7
<1>12. Length \in Nat /\ (p - b) + Length >= p + 4 /\ p - q <= p - b
  BY <1>1, <1>3, <1>5, <1>6, <1>7
<1>13. Length <= Common(p - b, (p - b) - (p - q))
  <2>1. Length = b + c
    BY <1>3, <1>5, <1>6, <1>7
  <2> QED
    BY <1>10, <1>11, <2>1
<1> QED
  BY <1>2, <1>6, <1>9, <1>12, <1>13 DEF p, q, b

LEMMA ComparedIsOK ==
  ASSUME FinderInv, Searching
  PROVE  /\ SearchOK(Compared)
         /\ Compared.at = search.at /\ Compared.low = search.low /\ Compared.min = search.min
         /\ Compared.cand = search.cand /\ Compared.chainPos = search.chainPos
         /\ Compared.longest >= search.longest
<1> DEFINE b == Before(search.at, search.cand - START)
           s == search.at - b
           d == START + search.at - search.cand
           l == Length
           left == search.left - 1
<1>0. /\ search.at \in Nat /\ search.low \in Nat /\ search.start \in Nat
      /\ search.low <= search.start /\ search.start <= search.at
      /\ search.longest \in Nat /\ search.left \in Nat
      /\ search.min \in Nat /\ search.min <= search.longest /\ search \in Searches
  BY SearchTypes
<1>1. /\ SearchOK(search) /\ search \in Searches
      /\ search.at \in Nat /\ search.low \in Nat /\ search.low <= search.at
      /\ search.longest \in Nat /\ left \in Nat /\ d \in 1 .. DISTANCE_MAX
      /\ search.min \in Nat /\ search.min <= search.longest
  <2>1. SearchOK(search) /\ search.left > 0
    BY SearchPlace
  <2>2. d \in 1 .. DISTANCE_MAX
    BY CandidateIs
  <2>3. left \in Nat /\ search.low <= search.at
    BY <1>0, <2>1
  <2> QED
    BY <1>0, <2>1, <2>2, <2>3
<1>2. CASE l > search.longest
  <2>1. /\ b \in 0 .. LookBack /\ s \in Nat /\ l \in Nat /\ s + l >= search.at + 4
        /\ d <= s /\ l <= Common(s, s - d)
    <3>1. l # 0
      BY <1>1, <1>2
    <3> QED
      BY <3>1, LongerIs
  <2>2. Compared = [search EXCEPT !.longest = l, !.start = s, !.offset = d, !.left = left]
    <3>1. Index(search.at) - search.cand = d
      <4>1. search.cand \in Nat /\ START \in Nat
        BY SearchTypes, HcNumbers
      <4> QED
        BY <1>0, <4>1 DEF Index
    <3> QED
      BY <1>2, <3>1 DEF Compared
  <2>3. search.low <= s /\ s <= search.at
    <3>1. LookBack = search.at - search.low
      BY DEF LookBack
    <3> HIDE DEF b
    <3> QED
      BY <1>1, <2>1, <3>1
  <2> HIDE DEF s, d, l, left
  <2>4. Compared \in Searches
    <3>1. d \in Nat
      BY <1>1
    <3> QED
      BY <1>1, <2>1, <2>2, <3>1 DEF Searches
  <2>5. /\ Compared.longest = l /\ Compared.start = s /\ Compared.offset = d
        /\ Compared.at = search.at /\ Compared.low = search.low /\ Compared.min = search.min
        /\ Compared.cand = search.cand /\ Compared.chainPos = search.chainPos
    BY <1>1, <2>2 DEF Searches
  <2>6. IsFound(Compared)
    BY <1>1, <2>1, <2>5, HcNumbers DEF IsFound
  <2>7. SearchOK(Compared)
    <3>1. search.cand < Index(search.at) /\ search.at + MFLIMIT <= Len(src) /\ search.min > 0
      BY <1>1 DEF SearchOK
    <3>2. search.min <= l
      BY <1>1, <1>2, <2>1
    <3> QED
      BY <2>3, <2>4, <2>5, <2>6, <3>1, <3>2 DEF SearchOK
  <2> QED
    BY <1>1, <1>2, <2>1, <2>5, <2>7
<1>3. CASE ~(l > search.longest)
  <2>1. Compared = [search EXCEPT !.left = left]
    BY <1>3 DEF Compared
  <2> HIDE DEF s, d, l, left
  <2>2. Compared \in Searches
    BY <1>1, <2>1 DEF Searches
  <2>3. /\ Compared.longest = search.longest /\ Compared.start = search.start
        /\ Compared.offset = search.offset
        /\ Compared.at = search.at /\ Compared.low = search.low /\ Compared.min = search.min
        /\ Compared.cand = search.cand /\ Compared.chainPos = search.chainPos
    BY <1>1, <2>1 DEF Searches
  <2>4. SearchOK(Compared)
    BY <1>1, <2>2, <2>3 DEF SearchOK, IsFound
  <2> QED
    BY <1>1, <2>3, <2>4
<1> QED
  BY <1>2, <1>3

(* On to another candidate, which is no nearer.                            *)
LEMMA MovesOn ==
  ASSUME NEW s, SearchOK(s), NEW c \in Nat, c <= s.cand
  PROVE  LET t == [s EXCEPT !.cand = c]
         IN  SearchOK(t) /\ t.at = s.at /\ t.low = s.low /\ t.min = s.min
<1>1. s \in Searches /\ s.cand \in Nat /\ s.at \in Nat
  BY DEF SearchOK, Searches
<1> DEFINE t == [s EXCEPT !.cand = c]
<1>2. t \in Searches
  BY <1>1 DEF Searches
<1>3. /\ t.at = s.at /\ t.low = s.low /\ t.min = s.min /\ t.start = s.start
      /\ t.longest = s.longest /\ t.offset = s.offset /\ t.cand = c
  BY <1>1 DEF Searches
<1> HIDE DEF t
<1>4. c < Index(s.at)
  <2>1. s.cand < Index(s.at) /\ Index(s.at) \in Int
    BY <1>1, HcNumbers DEF SearchOK, Index
  <2> QED
    BY <1>1, <2>1
<1>5. SearchOK(t)
  BY <1>2, <1>3, <1>4 DEF SearchOK, IsFound
<1> QED
  BY <1>3, <1>5 DEF t

Swapped(s, c, x) == [s EXCEPT !.cand = c, !.chainPos = x]

LEMMA MovesOnSwapped ==
  ASSUME NEW s, SearchOK(s), NEW c \in Nat, c <= s.cand, NEW x \in Nat
  PROVE  LET t == Swapped(s, c, x)
         IN  SearchOK(t) /\ t.at = s.at /\ t.low = s.low /\ t.min = s.min
<1>1. s \in Searches /\ s.cand \in Nat /\ s.at \in Nat
  BY DEF SearchOK, Searches
<1> DEFINE t == Swapped(s, c, x)
<1>2. t \in Searches
  BY <1>1 DEF Searches, Swapped
<1>3. /\ t.at = s.at /\ t.low = s.low /\ t.min = s.min /\ t.start = s.start
      /\ t.longest = s.longest /\ t.offset = s.offset /\ t.cand = c
  BY <1>1 DEF Searches, Swapped
<1> HIDE DEF t
<1>4. c < Index(s.at)
  <2>1. s.cand < Index(s.at) /\ Index(s.at) \in Int
    BY <1>1, HcNumbers DEF SearchOK, Index
  <2> QED
    BY <1>1, <2>1
<1>5. SearchOK(t)
  BY <1>2, <1>3, <1>4 DEF SearchOK, IsFound
<1> QED
  BY <1>3, <1>5 DEF t

SameCall(s) == s.at = search.at /\ s.low = search.low /\ s.min = search.min

LEMMA SwapChainOK ==
  ASSUME FinderInv, SwapChain
  PROVE  SearchOK(search') /\ SameCall(search')
<1>1. Searching /\ Swaps
  BY DEF SwapChain
<1>2. /\ SearchOK(Compared) /\ SameCall(Compared) /\ Compared.cand = search.cand
      /\ Compared.longest >= search.longest
  BY <1>1, ComparedIsOK DEF SameCall
<1>3. Length = Compared.longest
  BY <1>1 DEF Swaps
<1>4. Compared.longest \in Nat /\ Compared.longest > 0
  <2>1. Compared \in Searches /\ Compared.min > 0 /\ Compared.min <= Compared.longest
    BY <1>2 DEF SearchOK
  <2>2. Compared.longest \in Nat /\ Compared.min \in Nat
    BY <2>1 DEF Searches
  <2> QED
    BY <2>1, <2>2
<1>5. Length >= 4
  <2> DEFINE b == Before(search.at, search.cand - START)
             l == Length
             at == search.at
  <2>1. b \in 0 .. LookBack /\ l \in Nat /\ at - b \in Nat /\ (at - b) + l >= at + 4
    <3>1. Length # 0
      BY <1>3, <1>4
    <3> QED
      BY <1>1, <3>1, LongerIs
  <2>2. at \in Nat /\ LookBack \in Int
    BY SearchTypes DEF LookBack
  <2> HIDE DEF b, l, at
  <2>3. l >= 4
    BY <2>1, <2>2
  <2> QED
    BY <2>3 DEF l
<1> DEFINE end == Compared.longest - MINMATCH + 1
<1>6. end \in Nat
  BY <1>3, <1>4, <1>5, HcNumbers
<1>7. ChainAhead = BestChain(end)
  BY DEF ChainAhead
<1> HIDE DEF end
<1>8. ChainAhead \in Walks
  <2>1. FinderTypeOK
    BY SearchTypes
  <2> QED
    BY <1>6, <1>7, <2>1, BestOfChain
<1>9. ChainAhead.dist \in 1 .. DISTANCE_MAX /\ ChainAhead.best \in Nat
  BY <1>8 DEF Walks
<1> DEFINE c == Compared.cand - ChainAhead.dist
<1>10. c \in Nat /\ c <= Compared.cand
  <2>1. search.cand \in Nat /\ search.cand >= START
    <3>1. search.cand \in Nat /\ search.cand >= Lowest /\ Lowest \in Nat /\ Lowest >= START
      BY <1>1, SearchTypes, CandidateIs
    <3> QED
      BY <3>1, HcNumbers
  <2> QED
    BY <1>2, <1>9, <2>1, HcNumbers
<1>11. search' = [Compared EXCEPT !.cand = c, !.chainPos = ChainAhead.best]
  BY DEF SwapChain
<1> DEFINE k == Compared
           x == ChainAhead.best
<1>12. SearchOK(k) /\ c \in Nat /\ c <= k.cand /\ x \in Nat
  BY <1>2, <1>9, <1>10
<1> HIDE DEF c, k, x
<1> DEFINE t == Swapped(k, c, x)
<1>13. SearchOK(t) /\ t.at = k.at /\ t.low = k.low /\ t.min = k.min
  BY <1>12, MovesOnSwapped
<1>14. search' = t
  BY <1>11 DEF k, x, Swapped
<1> HIDE DEF t
<1>15. SameCall(k)
  BY <1>2 DEF k
<1> QED
  BY <1>13, <1>14, <1>15 DEF SameCall

LEMMA FollowChainOK ==
  ASSUME FinderInv, FollowChain
  PROVE  SearchOK(search') /\ SameCall(search')
<1>1. Searching
  BY DEF FollowChain
<1>2. /\ SearchOK(Compared) /\ SameCall(Compared) /\ Compared.cand = search.cand
  BY <1>1, ComparedIsOK DEF SameCall
<1>3. /\ search.cand \in Nat /\ search.chainPos \in Nat /\ FinderTypeOK
  BY SearchTypes
<1>4. search.cand >= Lowest /\ Lowest \in Nat /\ Lowest >= START
  BY <1>1, CandidateIs
<1> DEFINE d == Chain(search.cand + search.chainPos)
           c == search.cand - d
<1>5. d \in 0 .. DISTANCE_MAX
  <2>1. search.cand + search.chainPos \in Nat
    BY <1>3
  <2> QED
    BY <1>3, <2>1, ChainIs
<1>6. search' = [Compared EXCEPT !.cand = c]
  BY <1>2 DEF FollowChain
<1> HIDE DEF d
<1>7. c \in Nat /\ c <= Compared.cand
  BY <1>2, <1>3, <1>4, <1>5, HcNumbers
<1> DEFINE k == Compared
<1>8. SearchOK(k) /\ c \in Nat /\ c <= k.cand
  BY <1>2, <1>7
<1> HIDE DEF c, k
<1> DEFINE t == [k EXCEPT !.cand = c]
<1>9. SearchOK(t) /\ t.at = k.at /\ t.low = k.low /\ t.min = k.min
  BY <1>8, MovesOn
<1>10. search' = t
  BY <1>6 DEF k
<1> HIDE DEF t
<1>11. SameCall(k)
  BY <1>2 DEF k
<1> QED
  BY <1>9, <1>10, <1>11 DEF SameCall

(* In a repetition: what it covers there is as long as it is here, or less.*)
LEMMA PatternIs ==
  ASSUME FinderInv, Searching, InPattern
  PROVE  LET p == search.cand - 1 - START
             f == Forward(p)
             b == Backward(p)
             w == Forward(search.at)
         IN  /\ p \in Nat /\ p <= search.at - 2 /\ p - b \in Nat
             /\ f \in Nat /\ b \in Nat /\ w \in Nat /\ f >= 4 /\ w >= 4
             /\ w <= matchLimit - search.at
             /\ search.cand - 1 - b >= Lowest
             /\ Pattern(search.at, w) /\ Pattern(p - b, f + b)
<1> DEFINE at == search.at
           cand == search.cand
           p == cand - 1 - START
           f == Forward(p)
           b == Backward(p)
           w == Forward(at)
<1>1. /\ at \in Nat /\ cand \in Nat /\ src \in Seq(U8)
      /\ START \in Nat /\ Lowest \in Nat /\ Lowest >= START
  BY SearchTypes, CandidateIs, HcNumbers
<1>2. cand - START <= at - 1 /\ cand - 1 >= Lowest
  BY CandidateIs DEF InPattern
<1> HIDE DEF cand
<1>3. /\ p \in Nat /\ p <= at - 2 /\ Lowest <= Index(p) /\ Index(p) = cand - 1
  <2> HIDE DEF at
  <2> QED
    BY <1>1, <1>2 DEF Index
<1>4. matchLimit \in Nat /\ at + 4 <= matchLimit
  BY SearchPlace
<1>5. Pattern(at, 4) /\ Pattern(p, 4)
  <2>1. MINMATCH = 4 /\ Repeats(at) /\ Repeats(p)
    BY HcNumbers DEF InPattern, cand
  <2> HIDE DEF p, at
  <2> QED
    BY <2>1 DEF Repeats, Pattern
<1>12. p = cand - 1 - START
  OBVIOUS
<1> HIDE DEF p
<1>6. w \in 0 .. matchLimit - at /\ Pattern(at, w) /\ 4 <= w
  <2>1. at <= matchLimit /\ 4 \in 0 .. matchLimit - at
    BY <1>1, <1>4
  <2> HIDE DEF at
  <2>2. /\ w \in 0 .. matchLimit - at /\ Pattern(at, w)
        /\ \A k \in 0 .. matchLimit - at : Pattern(at, k) => k <= w
    BY <1>1, <2>1, ForwardIs
  <2> QED
    BY <1>5, <2>1, <2>2
<1>7. f \in 0 .. matchLimit - p /\ Pattern(p, f) /\ 4 <= f
  <2>1. p <= matchLimit /\ 4 \in 0 .. matchLimit - p
    BY <1>1, <1>3, <1>4
  <2>2. /\ f \in 0 .. matchLimit - p /\ Pattern(p, f)
        /\ \A k \in 0 .. matchLimit - p : Pattern(p, k) => k <= f
    BY <1>1, <1>3, <2>1, ForwardIs
  <2> QED
    BY <1>5, <2>1, <2>2
<1>8. b \in 0 .. Index(p) - Lowest /\ \A i \in 0 .. b - 1 : src[p - i] = src[search.at + 1]
  BY <1>1, <1>3, BackwardIs
<1> HIDE DEF f, b, w
<1>9. b \in Nat /\ cand - 1 - b >= Lowest /\ p - b \in Nat
  <2>1. b \in Nat /\ cand - 1 - b >= Lowest
    BY <1>1, <1>3, <1>8
  <2> QED
    BY <1>1, <1>3, <1>12, <2>1
<1>10. Pattern(p - b, f + b)
  <2> SUFFICES ASSUME NEW i \in 1 .. f + b PROVE src[(p - b) + i] = src[search.at + 1]
    BY DEF Pattern
  <2>1. CASE i <= b
    <3> DEFINE j == b - i
    <3>1. j \in 0 .. b - 1 /\ p - j = (p - b) + i
      BY <1>3, <1>7, <1>9, <2>1
    <3> HIDE DEF j
    <3> QED
      BY <1>8, <3>1
  <2>2. CASE ~(i <= b)
    <3> DEFINE j == i - b
    <3>1. j \in 1 .. f /\ p + j = (p - b) + i
      BY <1>3, <1>7, <1>9, <2>2
    <3> HIDE DEF j
    <3> QED
      BY <1>7, <3>1 DEF Pattern
  <2> QED
    BY <2>1, <2>2
<1>11. f \in Nat /\ w \in Nat /\ w <= matchLimit - at
  BY <1>1, <1>3, <1>4, <1>6, <1>7
<1> QED
  BY <1>3, <1>6, <1>7, <1>9, <1>10, <1>11 DEF p, f, b, w, cand

(* Two repetitions of the same byte are the same as far as both go.        *)
LEMMA PatternsAgree ==
  ASSUME src \in Seq(U8), NEW p \in Nat, NEW q, NEW k \in Nat, NEW l \in Nat,
         NEW len \in Nat, len <= k, len <= l, p + len <= matchLimit, matchLimit \in Nat,
         Pattern(p, k), Pattern(q, l)
  PROVE  len <= Common(p, q)
<1>1. p <= matchLimit /\ len \in 0 .. matchLimit - p
  OBVIOUS
<1>2. Same(p, q, len)
  <2> SUFFICES ASSUME NEW i \in 1 .. len PROVE src[p + i] = src[q + i]
    BY DEF Same
  <2>1. i \in 1 .. k /\ i \in 1 .. l
    OBVIOUS
  <2> QED
    BY <2>1 DEF Pattern
<1> QED
  BY <1>1, <1>2, CommonIs

(* The numbers of JumpInPattern.                                           *)
LEMMA JumpNumbers ==
  ASSUME NEW at \in Nat, NEW cand \in Nat, NEW start \in Nat, NEW lowest \in Nat,
         NEW f \in Nat, NEW b \in Nat, NEW w \in Nat, NEW p \in Nat, NEW first,
         NEW max \in Nat,
         lowest >= start, start + at - lowest <= max, start = max + 1,
         p = cand - 1 - start, p <= at - 2, first = cand - 1 - b, first >= lowest
  PROVE  /\ first \in Nat /\ first <= cand /\ first >= start
         /\ p - b \in Nat
         /\ start + at - first = at - (p - b) /\ at - (p - b) \in 1 .. max
         /\ at - (p - b) <= at /\ at - (at - (p - b)) = p - b
         /\ f + b >= w /\ f <= w => cand - 1 + f - w \in Nat /\ cand - 1 + f - w <= cand
<1>1. first \in Nat /\ first <= cand /\ first >= start
  OBVIOUS
<1>2. first = (p - b) + start /\ p - b \in Nat
  BY <1>1
<1> DEFINE q == p - b
<1>3. q \in Nat /\ first = q + start /\ q <= p
  BY <1>2
<1> HIDE DEF q
<1>4. start + at - first = at - q /\ at - q \in 1 .. max /\ at - q <= at /\ at - (at - q) = q
  BY <1>1, <1>3
<1>5. f + b >= w /\ f <= w => cand - 1 + f - w \in Nat /\ cand - 1 + f - w <= cand
  BY <1>1
<1> QED
  BY <1>1, <1>2, <1>4, <1>5 DEF q

LEMMA JumpInPatternOK ==
  ASSUME FinderInv, JumpInPattern
  PROVE  SearchOK(search') /\ SameCall(search')
<1> DEFINE at == search.at
           cand == search.cand
           p == cand - 1 - START
           f == Forward(p)
           b == Backward(p)
           w == Forward(at)
           first == cand - 1 - b
           len == IF f + b < w THEN f + b ELSE w
           off == Index(at) - first
           k == Compared
           s == IF k.longest < len THEN [k EXCEPT !.longest = len, !.offset = off] ELSE k
           c == cand - 1 + f - w
           d == first - Chain(first)
<1>1. Searching /\ InPattern
  BY DEF JumpInPattern
<1>2. /\ p \in Nat /\ p <= at - 2 /\ p - b \in Nat
      /\ f \in Nat /\ b \in Nat /\ w \in Nat /\ f >= 4 /\ w >= 4
      /\ w <= matchLimit - at
      /\ first >= Lowest
      /\ Pattern(at, w) /\ Pattern(p - b, f + b)
  BY <1>1, PatternIs
<1>3. SearchOK(k) /\ SameCall(k) /\ k.cand = cand
  BY <1>1, ComparedIsOK DEF SameCall
<1>4. /\ at \in Nat /\ cand \in Nat
      /\ START \in Nat /\ Lowest \in Nat /\ Lowest >= START
      /\ Index(at) - Lowest <= DISTANCE_MAX /\ Index(at) = START + at
      /\ DISTANCE_MAX \in Nat /\ START = DISTANCE_MAX + 1
      /\ matchLimit \in Nat /\ FinderTypeOK /\ src \in Seq(U8)
  <2>1. at \in Nat /\ cand \in Nat /\ FinderTypeOK /\ src \in Seq(U8)
    BY SearchTypes
  <2> QED
    BY <1>1, <2>1, LowestIs, SearchPlace, HcNumbers
<1>5. search' = IF Aligned(f, f + b, w) THEN [k EXCEPT !.cand = k.cand - 1 + f - w]
                ELSE IF LookBack > 0 THEN [k EXCEPT !.cand = first]
                ELSE [s EXCEPT !.cand = d]
  BY DEF JumpInPattern
<1>6. /\ p = cand - 1 - START /\ first = cand - 1 - b /\ off = Index(at) - first
      /\ len = IF f + b < w THEN f + b ELSE w
  OBVIOUS
<1>7. LookBack = at - search.low
  BY DEF LookBack
<1> HIDE DEF at, cand, p, f, b, w, first, off, len, k
<1>8. START + at - Lowest <= DISTANCE_MAX
  BY <1>4
<1>9. /\ first \in Nat /\ first <= cand /\ first >= START /\ p - b \in Nat
      /\ START + at - first = at - (p - b) /\ at - (p - b) \in 1 .. DISTANCE_MAX
      /\ at - (p - b) <= at /\ at - (at - (p - b)) = p - b
      /\ f + b >= w /\ f <= w => c \in Nat /\ c <= cand
  BY <1>2, <1>4, <1>6, <1>8, JumpNumbers
<1>10. CASE Aligned(f, f + b, w)
  <2>1. c \in Nat /\ c <= k.cand
    BY <1>3, <1>9, <1>10 DEF Aligned
  <2> DEFINE t == [k EXCEPT !.cand = c]
  <2>2. search' = t
    BY <1>3, <1>5, <1>10
  <2> HIDE DEF c
  <2>3. SearchOK(t) /\ t.at = k.at /\ t.low = k.low /\ t.min = k.min
    BY <1>3, <2>1, MovesOn
  <2> HIDE DEF t
  <2> QED
    BY <1>3, <2>2, <2>3 DEF SameCall
<1>11. CASE ~Aligned(f, f + b, w) /\ LookBack > 0
  <2> DEFINE t == [k EXCEPT !.cand = first]
  <2>1. search' = t
    BY <1>5, <1>11
  <2>2. first <= k.cand
    BY <1>3, <1>9
  <2>3. SearchOK(t) /\ t.at = k.at /\ t.low = k.low /\ t.min = k.min
    BY <1>3, <1>9, <2>2, MovesOn
  <2> HIDE DEF t
  <2> QED
    BY <1>3, <2>1, <2>3 DEF SameCall
<1>12. CASE ~Aligned(f, f + b, w) /\ ~(LookBack > 0)
  <2>1. search' = [s EXCEPT !.cand = d]
    BY <1>5, <1>12
  <2>2. Chain(first) \in 0 .. DISTANCE_MAX
    BY <1>4, <1>9, ChainIs
  <2>3. d \in Nat /\ d <= cand
    <3> DEFINE x == Chain(first)
    <3>1. x \in 0 .. DISTANCE_MAX
      BY <2>2
    <3> HIDE DEF x
    <3>2. first - x \in Nat /\ first - x <= cand
      BY <1>4, <1>9, <3>1
    <3> QED
      BY <3>2 DEF x
  <2> HIDE DEF d
  <2>4. len \in Nat /\ len >= 4 /\ len <= w /\ len <= f + b
    BY <1>2, <1>6
  <2>5. off = at - (p - b) /\ off \in 1 .. DISTANCE_MAX /\ off <= at /\ at - off = p - b
    <3>1. off = at - (p - b)
      BY <1>4, <1>6, <1>9
    <3> QED
      BY <1>9, <3>1
  <2>6. len <= Common(at, p - b)
    <3> DEFINE q == p - b
               l == f + b
    <3>1. at + len <= matchLimit /\ l \in Nat /\ len <= l /\ Pattern(q, l)
      BY <1>2, <1>4, <2>4
    <3> HIDE DEF q, l
    <3>2. len <= Common(at, q)
      BY <1>2, <1>4, <2>4, <3>1, PatternsAgree
    <3> QED
      BY <3>2 DEF q
  <2>7. k.start = at /\ k.at = at
    <3> DEFINE l == search.low
               z == k.start
    <3>1. k.low <= k.start /\ k.start <= k.at /\ k \in Searches /\ z \in Nat
      BY <1>3 DEF SearchOK, Searches
    <3>2. k.at = at /\ k.low = l
      BY <1>3 DEF SameCall, at
    <3>3. l \in Nat /\ ~(at - l > 0)
      BY <1>7, <1>12, SearchTypes
    <3> HIDE DEF l, z
    <3>4. z = at
      <4>1. l <= z /\ z <= at
        BY <3>1, <3>2 DEF z
      <4> QED
        BY <1>4, <3>1, <3>3, <4>1
    <3> QED
      BY <3>2, <3>4 DEF z
  <2>8. SearchOK(s) /\ s.at = k.at /\ s.low = k.low /\ s.min = k.min /\ s.cand = k.cand
    <3>1. CASE k.longest < len
      <4> DEFINE t == [k EXCEPT !.longest = len, !.offset = off]
      <4>0. k \in Searches /\ k.longest \in Nat /\ k.min \in Nat /\ off \in Nat
        BY <1>3, <1>4, <2>5 DEF SearchOK, Searches
      <4>1. t \in Searches
        BY <2>4, <4>0 DEF Searches
      <4>2. /\ t.at = k.at /\ t.low = k.low /\ t.min = k.min /\ t.cand = k.cand
            /\ t.start = k.start /\ t.longest = len /\ t.offset = off
        BY <4>0 DEF Searches
      <4>7. s = t
        BY <3>1
      <4> HIDE DEF t
      <4>4. IsFound(t)
        <5>1. t.start - t.offset = p - b /\ t.start = at /\ t.at = at
          BY <2>5, <2>7, <4>2
        <5>2. t.longest <= Common(t.start, t.start - t.offset)
          BY <2>6, <4>2, <5>1
        <5>3. t.start + t.longest >= t.at + MINMATCH
          BY <1>4, <2>4, <4>2, <5>1, HcNumbers
        <5> QED
          BY <2>5, <4>2, <5>1, <5>2, <5>3 DEF IsFound
      <4>5. k.min <= len
        <5> DEFINE x == k.min
                   y == k.longest
        <5>1. x <= y /\ y < len /\ x \in Nat /\ y \in Nat
          BY <1>3, <3>1, <4>0 DEF SearchOK
        <5> HIDE DEF x, y
        <5>2. x <= len
          BY <2>4, <5>1
        <5> QED
          BY <5>2 DEF x
      <4>6. SearchOK(t)
        BY <1>3, <4>1, <4>2, <4>4, <4>5 DEF SearchOK
      <4> HIDE DEF s
      <4> QED
        BY <4>2, <4>6, <4>7
    <3>2. CASE ~(k.longest < len)
      BY <1>3, <3>2
    <3> QED
      BY <3>1, <3>2
  <2> HIDE DEF s
  <2> DEFINE t == [s EXCEPT !.cand = d]
  <2>9. d <= s.cand
    BY <1>3, <2>3, <2>8
  <2>10. SearchOK(t) /\ t.at = s.at /\ t.low = s.low /\ t.min = s.min
    BY <2>3, <2>8, <2>9, MovesOn
  <2>11. search' = t
    BY <2>1
  <2> HIDE DEF t
  <2> QED
    BY <1>3, <2>8, <2>10, <2>11 DEF SameCall
<1> QED
  BY <1>10, <1>11, <1>12

(* Whatever it does, a search keeps the invariant and what it is asked.    *)
LEMMA LookKeeps ==
  ASSUME FinderInv, Look, UNCHANGED <<src, level>>
  PROVE  FinderInv' /\ SameCall(search') /\ nextToUpdate' = nextToUpdate
<1>1. UNCHANGED <<hashTable, chainTable, nextToUpdate>>
  BY DEF Look
<1>2. SearchOK(search') /\ SameCall(search')
  BY SwapChainOK, JumpInPatternOK, FollowChainOK DEF Look
<1> QED
  BY <1>1, <1>2, OKIsInv
-----------------------------------------------------------------------------
(* Matches.                                                                *)
Copies(p, off, len) ==
  /\ off \in 1 .. DISTANCE_MAX /\ off <= p
  /\ len >= 4 /\ p + len <= matchLimit
  /\ Same(p, p - off, len)

MatchAt(p, off, len) == [ip |-> p, m |-> [offset |-> off, len |-> len]]

LEMMA MatchesAre ==
  ASSUME src \in Seq(U8), NEW p \in Nat, NEW off \in Nat, NEW len \in Nat
  PROVE  [offset |-> off, len |-> len] \in Encoder!Matches(p) <=> Copies(p, off, len)
<1> DEFINE far == IF p < DISTANCE_MAX THEN p ELSE DISTANCE_MAX
           end == Len(src) - LASTLITERALS - p
           m == [offset |-> off, len |-> len]
<1>1. DISTANCE_MAX \in Nat /\ LASTLITERALS \in Nat /\ Len(src) \in Nat /\ MINMATCH = 4
  BY HcNumbers
<1>2. m \in Encoder!Matches(p) <=>
        /\ m \in [offset : 1 .. far, len : 4 .. end]
        /\ \A i \in 1 .. m.len : src[p + i] = src[p - m.offset + i]
  BY <1>1 DEF Encoder!Matches, Encoder!n
<1>3. m \in [offset : 1 .. far, len : 4 .. end] <=> off \in 1 .. far /\ len \in 4 .. end
  <2> HIDE DEF far, end
  <2> QED
    OBVIOUS
<1>4. off \in 1 .. far <=> off \in 1 .. DISTANCE_MAX /\ off <= p
  BY <1>1
<1>5. len \in 4 .. end <=> len >= 4 /\ p + len <= matchLimit
  BY <1>1 DEF matchLimit
<1>6. (\A i \in 1 .. m.len : src[p + i] = src[p - m.offset + i]) <=> Same(p, p - off, len)
  BY DEF Same
<1> HIDE DEF far, end, m
<1> QED
  BY <1>2, <1>3, <1>4, <1>5, <1>6 DEF Copies, m

LEMMA MatchIs ==
  ASSUME src \in Seq(U8), NEW p \in Nat, NEW off \in Nat, NEW len \in Nat,
         p + MFLIMIT <= Len(src), Copies(p, off, len)
  PROVE  IsMatch(MatchAt(p, off, len))
BY MatchesAre DEF IsMatch, MatchAt

LEMMA IsMatchIs ==
  ASSUME src \in Seq(U8), NEW e, IsMatch(e)
  PROVE  /\ e.ip \in Nat /\ e.m.offset \in Nat /\ e.m.len \in Nat
         /\ e.m = [offset |-> e.m.offset, len |-> e.m.len]
         /\ e = MatchAt(e.ip, e.m.offset, e.m.len)
         /\ e.ip + MFLIMIT <= Len(src) /\ Copies(e.ip, e.m.offset, e.m.len)
         /\ e.m \in Encoder!Matches(e.ip)
<1>1. e \in [ip : Nat, m : [offset : Nat, len : Nat]]
  BY DEF IsMatch
<1>2. /\ e.ip \in Nat /\ e.m.offset \in Nat /\ e.m.len \in Nat
      /\ e.m = [offset |-> e.m.offset, len |-> e.m.len]
      /\ e = MatchAt(e.ip, e.m.offset, e.m.len)
  BY <1>1 DEF MatchAt
<1>3. e.m \in Encoder!Matches(e.ip) /\ e.ip + MFLIMIT <= Len(src)
  BY DEF IsMatch
<1> DEFINE p == e.ip
           off == e.m.offset
           len == e.m.len
<1>4. /\ p \in Nat /\ off \in Nat /\ len \in Nat
      /\ [offset |-> off, len |-> len] \in Encoder!Matches(p)
  BY <1>2, <1>3
<1> HIDE DEF p, off, len
<1>5. Copies(p, off, len)
  BY <1>4, MatchesAre
<1> QED
  BY <1>2, <1>3, <1>5 DEF p, off, len

(* The first bytes of a match are a match, and so are the last ones.       *)
LEMMA PartCopies ==
  ASSUME src \in Seq(U8), NEW p \in Nat, NEW off \in Nat, NEW len \in Nat,
         NEW k \in Nat, NEW l \in Nat, l >= 4, k + l <= len, Copies(p, off, len)
  PROVE  Copies(p + k, off, l)
<1>1. matchLimit \in Int
  BY HcNumbers DEF matchLimit
<1>2. off \in 1 .. DISTANCE_MAX /\ off <= p /\ p + len <= matchLimit /\ Same(p, p - off, len)
  BY DEF Copies
<1>3. Same(p + k, (p + k) - off, l)
  <2> SUFFICES ASSUME NEW i \in 1 .. l PROVE src[(p + k) + i] = src[((p + k) - off) + i]
    BY DEF Same
  <2> DEFINE j == k + i
  <2>1. j \in 1 .. len /\ (p + k) + i = p + j /\ ((p + k) - off) + i = (p - off) + j
    BY <1>2
  <2> HIDE DEF j
  <2>2. src[p + j] = src[(p - off) + j]
    BY <1>2, <2>1 DEF Same
  <2> QED
    BY <2>1, <2>2
<1>4. (p + k) + l <= matchLimit
  BY <1>1, <1>2
<1>5. off <= p + k
  BY <1>2, HcNumbers
<1> QED
  BY <1>2, <1>3, <1>4, <1>5 DEF Copies

LEMMA FirstPartIsMatch ==
  ASSUME src \in Seq(U8), NEW e, IsMatch(e), NEW l \in Nat, l >= 4, l <= e.m.len
  PROVE  IsMatch(MatchAt(e.ip, e.m.offset, l))
<1> DEFINE p == e.ip
           off == e.m.offset
           len == e.m.len
<1>1. /\ p \in Nat /\ off \in Nat /\ len \in Nat
      /\ p + MFLIMIT <= Len(src) /\ Copies(p, off, len)
  BY IsMatchIs
<1>2. l <= len
  OBVIOUS
<1> HIDE DEF p, off, len
<1>3. 0 + l <= len /\ p + 0 = p
  BY <1>1, <1>2
<1>4. Copies(p + 0, off, l)
  BY <1>1, <1>3, PartCopies
<1>5. IsMatch(MatchAt(p, off, l))
  BY <1>1, <1>3, <1>4, MatchIs
<1> QED
  BY <1>5 DEF p, off

LEMMA LastPartIsMatch ==
  ASSUME src \in Seq(U8), NEW e, IsMatch(e), NEW k \in Nat, k + 4 <= e.m.len,
         e.ip + k + MFLIMIT <= Len(src)
  PROVE  IsMatch(MatchAt(e.ip + k, e.m.offset, e.m.len - k))
<1> DEFINE p == e.ip
           off == e.m.offset
           len == e.m.len
           l == len - k
           q == p + k
<1>1. /\ p \in Nat /\ off \in Nat /\ len \in Nat /\ Copies(p, off, len)
  BY IsMatchIs
<1>2. k + 4 <= len /\ q + MFLIMIT <= Len(src)
  OBVIOUS
<1>6. l = len - k /\ q = p + k
  OBVIOUS
<1> HIDE DEF p, off, len, l, q
<1>3. l \in Nat /\ l >= 4 /\ k + l <= len /\ q \in Nat
  BY <1>1, <1>2, <1>6
<1>4. Copies(q, off, l)
  BY <1>1, <1>3, <1>6, PartCopies
<1>5. IsMatch(MatchAt(q, off, l))
  BY <1>1, <1>2, <1>3, <1>4, MatchIs
<1> QED
  BY <1>5 DEF p, off, len, l, q

(* What a search has found.                                                *)
LEMMA FoundIs ==
  ASSUME FinderInv, ~Nothing
  PROVE  /\ IsMatch([ip |-> search.start, m |-> Found])
         /\ search.start \in Nat /\ Found.len \in Nat /\ Found.offset \in Nat
         /\ search.low <= search.start /\ search.start <= search.at
         /\ search.start + Found.len >= search.at + 4
         /\ Found.len > search.min
<1> DEFINE p == search.start
           at == search.at
           off == search.offset
           len == search.longest
           min == search.min
<1>1. /\ p \in Nat /\ at \in Nat /\ off \in Nat /\ len \in Nat /\ min \in Nat
      /\ search.low <= p /\ p <= at /\ src \in Seq(U8) /\ Len(src) \in Nat
  BY SearchTypes
<1>2. off \in 1 .. DISTANCE_MAX /\ off <= p /\ p + len >= at + MINMATCH /\ len <= Common(p, p - off)
  BY DEF FinderInv, FoundIsMatch
<1>3. at + MFLIMIT <= Len(src)
  BY DEF FinderInv, SearchInPlace
<1>4. ~(len <= min)
  BY DEF Nothing
<1>5. Found = [offset |-> off, len |-> len]
  BY DEF Found
<1> HIDE DEF p, at, off, len, min
<1>6. p + MFLIMIT <= Len(src) /\ p <= matchLimit /\ len >= 4 /\ matchLimit \in Int
  BY <1>1, <1>2, <1>3, HcNumbers DEF matchLimit
<1> DEFINE c == Common(p, p - off)
<1>7. c \in 0 .. matchLimit - p /\ Same(p, p - off, c)
  BY <1>1, <1>6, CommonIs
<1>8. len <= c
  BY <1>2
<1> HIDE DEF c
<1>9. p + len <= matchLimit
  BY <1>1, <1>6, <1>7, <1>8
<1>10. Same(p, p - off, len)
  <2> SUFFICES ASSUME NEW i \in 1 .. len PROVE src[p + i] = src[(p - off) + i]
    BY DEF Same
  <2>1. i \in 1 .. c
    BY <1>1, <1>7, <1>8
  <2> QED
    BY <1>7, <2>1 DEF Same
<1>11. Copies(p, off, len)
  BY <1>2, <1>6, <1>9, <1>10 DEF Copies
<1>12. IsMatch(MatchAt(p, off, len))
  BY <1>1, <1>6, <1>11, MatchIs
<1>13. len > min /\ p + len >= at + 4
  BY <1>1, <1>2, <1>4, HcNumbers
<1> QED
  BY <1>1, <1>5, <1>12, <1>13 DEF MatchAt, p, at, len, min
-----------------------------------------------------------------------------
(* The ways through the table: lists of matches, one behind the other.     *)
LEMMA NoWay ==
  ASSUME NEW from, NEW to
  PROVE  IsWay(<<>>, from, to)
BY DEF IsWay

LEMMA LongerWay ==
  ASSUME NEW way, NEW from \in Int, NEW to \in Int, NEW end \in Int, to <= end,
         IsWay(way, from, to)
  PROVE  IsWay(way, from, end)
<1>1. way \in Seq([ip : Nat, m : [offset : Nat, len : Nat]])
  BY DEF IsWay
<1>2. ASSUME NEW k \in 1 .. Len(way)
      PROVE  EndOf(way[k]) <= end
  <2> DEFINE R == [ip : Nat, m : [offset : Nat, len : Nat]]
  <2>0. way[k] \in R
    <3>1. way \in Seq(R)
      BY <1>1
    <3> HIDE DEF R
    <3> QED
      BY <3>1
  <2>1. EndOf(way[k]) <= to
    BY DEF IsWay
  <2>2. EndOf(way[k]) \in Int
    BY <2>0 DEF EndOf
  <2> QED
    BY <2>1, <2>2
<1> QED
  BY <1>1, <1>2 DEF IsWay

LEMMA WayFurther ==
  ASSUME NEW way, NEW from \in Int, NEW to \in Int, IsWay(way, from, to),
         NEW e, IsMatch(e), to <= e.ip, from <= to
  PROVE  IsWay(Append(way, e), from, EndOf(e))
<1> DEFINE R == [ip : Nat, m : [offset : Nat, len : Nat]]
           new == Append(way, e)
<1>1. way \in Seq(R) /\ e \in R
  BY DEF IsWay, IsMatch
<1> HIDE DEF R
<1>2. /\ new \in Seq(R) /\ Len(new) = Len(way) + 1 /\ Len(way) \in Nat
      /\ \A k \in 1 .. Len(way) : new[k] = way[k]
      /\ new[Len(way) + 1] = e
  BY <1>1
<1> HIDE DEF new
<1>3. e.ip \in Nat /\ e.m.len \in Nat /\ EndOf(e) \in Nat /\ e.ip <= EndOf(e)
  <2> DEFINE p == e.ip
             l == e.m.len
  <2>1. p \in Nat /\ l \in Nat
    BY <1>1 DEF R
  <2> HIDE DEF p, l
  <2>2. p + l \in Nat /\ p <= p + l
    BY <2>1
  <2> QED
    BY <2>1, <2>2 DEF p, l, EndOf
<1>4. ASSUME NEW k \in 1 .. Len(new)
      PROVE  /\ IsMatch(new[k]) /\ from <= new[k].ip /\ EndOf(new[k]) <= EndOf(e)
             /\ k > 1 => EndOf(new[k - 1]) <= new[k].ip
  <2>1. CASE k \in 1 .. Len(way)
    <3>1. /\ IsMatch(way[k]) /\ from <= way[k].ip /\ EndOf(way[k]) <= to
          /\ k > 1 => EndOf(way[k - 1]) <= way[k].ip
      BY <2>1 DEF IsWay
    <3>2. new[k] = way[k]
      BY <1>2, <2>1
    <3>3. k > 1 => new[k - 1] = way[k - 1]
      <4>1. k > 1 => k - 1 \in 1 .. Len(way)
        BY <2>1
      <4> QED
        BY <1>2, <4>1
    <3>4. EndOf(way[k]) \in Int
      <4>1. way[k] \in R
        BY <1>1, <2>1
      <4> QED
        BY <4>1 DEF R, EndOf
    <3>5. EndOf(way[k]) <= EndOf(e)
      <4> DEFINE x == EndOf(way[k])
                 y == EndOf(e)
                 z == e.ip
      <4>1. x <= to /\ x \in Int /\ to <= z /\ z <= y /\ y \in Int /\ z \in Int
        BY <1>3, <3>1, <3>4
      <4> HIDE DEF x, y, z
      <4>2. x <= y
        BY <4>1
      <4> QED
        BY <4>2 DEF x, y
    <3> QED
      BY <3>1, <3>2, <3>3, <3>5
  <2>2. CASE k \notin 1 .. Len(way)
    <3>1. k = Len(way) + 1 /\ new[k] = e
      BY <1>2, <2>2
    <3>2. from <= e.ip
      BY <1>3
    <3>3. ASSUME k > 1 PROVE EndOf(new[k - 1]) <= e.ip
      <4> DEFINE j == k - 1
      <4>1. j \in 1 .. Len(way) /\ new[j] = way[j]
        BY <1>2, <3>1, <3>3
      <4> HIDE DEF j
      <4>2. EndOf(way[j]) <= to /\ way[j] \in R
        BY <1>1, <4>1 DEF IsWay
      <4> DEFINE x == EndOf(way[j])
                 z == e.ip
      <4>3. x \in Int /\ x <= to /\ z \in Int /\ to <= z
        BY <1>3, <4>2 DEF R, EndOf
      <4> HIDE DEF x, z
      <4>4. x <= z
        BY <4>3
      <4> QED
        BY <4>1, <4>4 DEF x, z, j
    <3> QED
      BY <1>3, <3>1, <3>2, <3>3
  <2> QED
    BY <2>1, <2>2
<1>5. IsWay(new, from, EndOf(e))
  BY <1>2, <1>4 DEF IsWay, R
<1> QED
  BY <1>5 DEF new

(* The recursive function of WayTo.                                        *)
Through(way, k) ==
  IF opt[k].mlen > k THEN <<>>
  ELSE IF opt[k].mlen = 1 THEN way[k - 1]
  ELSE Append(way[k - opt[k].mlen],
              [ip |-> ip + k - opt[k].mlen,
               m |-> [offset |-> opt[k].off, len |-> opt[k].mlen]])

AreWays(way, p) == way = [k \in 0 .. p |-> Through(way, k)]

TableBehind == DOMAIN opt = 0 .. last + TRAILING_LITERALS /\ \A p \in DOMAIN opt : StepTo(p)

(* The entry before, from which the way comes.                             *)
LEMMA StepBack ==
  ASSUME TableBehind, last \in Nat, NEW k \in Nat, k <= last, ~(opt[k].mlen > k)
  PROVE  /\ opt[k].mlen = 1 => k - 1 \in Nat
         /\ opt[k].mlen # 1 => /\ opt[k].mlen \in 4 .. k /\ k - opt[k].mlen \in Nat
                               /\ k - opt[k].mlen < k
<1>1. StepTo(k)
  BY DEF TableBehind, TRAILING_LITERALS
<1> DEFINE l == opt[k].mlen
<1>2. l = 1 \/ l \in 4 .. k
  BY <1>1, HcNumbers DEF StepTo
<1>3. ~(l > k)
  OBVIOUS
<1> HIDE DEF l
<1>4. /\ l = 1 => k - 1 \in Nat
      /\ l # 1 => l \in 4 .. k /\ k - l \in Nat /\ k - l < k
  BY <1>2, <1>3
<1> QED
  BY <1>4 DEF l

LEMMA WaysExist ==
  ASSUME TableBehind, last \in Nat, NEW p \in Nat, p <= last
  PROVE  \E way : AreWays(way, p)
<1> DEFINE Bad == {d \in 0 .. last : ~\E way : AreWays(way, d)}
<1>1. SUFFICES ASSUME Bad # {} PROVE FALSE
  BY <1>1
<1>2. PICK d \in Bad : \A e \in Bad : d <= e
  <2>1. Bad \subseteq Nat
    OBVIOUS
  <2> HIDE DEF Bad
  <2> QED
    BY <1>1, <2>1, LeastNatural
<1>3. CASE d = 0
  <2>1. opt[0].mlen > 0
    <3>1. StepTo(0)
      BY DEF TableBehind, TRAILING_LITERALS
    <3> DEFINE l == opt[0].mlen
    <3>2. l = 1 \/ l \in 4 .. 0
      BY <3>1, HcNumbers DEF StepTo
    <3> HIDE DEF l
    <3>3. l > 0
      BY <3>2
    <3> QED
      BY <3>3 DEF l
  <2> DEFINE f == [k \in 0 .. 0 |-> <<>>]
  <2>2. \A k \in 0 .. 0 : Through(f, k) = <<>>
    BY <2>1 DEF Through
  <2>3. AreWays(f, 0)
    BY <2>2 DEF AreWays
  <2> QED
    BY <1>2, <1>3, <2>3
<1>4. CASE d # 0
  <2>1. d - 1 \in 0 .. last /\ d - 1 \notin Bad /\ d \in Nat
    BY <1>2, <1>4
  <2>2. PICK f : AreWays(f, d - 1)
    BY <2>1
  <2> DEFINE g == [k \in 0 .. d |-> IF k < d THEN f[k] ELSE Through(f, k)]
  <2>3. \A k \in 0 .. d - 1 : g[k] = f[k] /\ f[k] = Through(f, k)
    <3>1. \A k \in 0 .. d - 1 : k \in 0 .. d /\ k < d
      BY <2>1
    <3>2. \A k \in 0 .. d - 1 : g[k] = f[k]
      BY <3>1
    <3>3. \A k \in 0 .. d - 1 : f[k] = Through(f, k)
      BY <2>2 DEF AreWays
    <3> QED
      BY <3>2, <3>3
  <2>4. ASSUME NEW k \in 0 .. d PROVE Through(g, k) = Through(f, k)
    <3>1. CASE opt[k].mlen > k
      BY <3>1 DEF Through
    <3>2. CASE ~(opt[k].mlen > k) /\ opt[k].mlen = 1
      <4>1. k - 1 \in Nat
        BY <1>2, <2>1, <3>2, StepBack
      <4> DEFINE j == k - 1
      <4>2. j \in 0 .. d - 1
        BY <2>1, <4>1
      <4> HIDE DEF j, g
      <4>3. g[j] = f[j]
        BY <2>3, <4>2
      <4> QED
        BY <3>2, <4>3 DEF Through, j
    <3>3. CASE ~(opt[k].mlen > k) /\ opt[k].mlen # 1
      <4> DEFINE j == k - opt[k].mlen
      <4>1. j \in Nat /\ j < k
        BY <1>2, <2>1, <3>3, StepBack
      <4> HIDE DEF j, g
      <4>2. j \in 0 .. d - 1
        BY <2>1, <4>1
      <4>3. g[j] = f[j]
        BY <2>3, <4>2
      <4> QED
        BY <3>3, <4>3 DEF Through, j
    <3> QED
      BY <3>1, <3>2, <3>3
  <2>5. ASSUME NEW k \in 0 .. d PROVE g[k] = Through(g, k)
    <3>1. CASE k < d
      <4>1. k \in 0 .. d - 1
        BY <2>1, <3>1
      <4> HIDE DEF g
      <4> QED
        BY <2>3, <2>4, <4>1
    <3>2. CASE ~(k < d)
      <4>1. g[k] = Through(f, k)
        BY <3>2
      <4> HIDE DEF g
      <4> QED
        BY <2>4, <4>1
    <3> QED
      BY <3>1, <3>2
  <2>6. AreWays(g, d)
    <3> DEFINE h == [k \in 0 .. d |-> Through(g, k)]
    <3>1. \A k \in 0 .. d : g[k] = h[k]
      BY <2>5
    <3>2. g = [k \in 0 .. d |-> g[k]] /\ h = [k \in 0 .. d |-> h[k]]
      OBVIOUS
    <3>3. g = h
      <4> HIDE DEF g, h
      <4> QED
        BY <3>1, <3>2
    <3> QED
      BY <3>3 DEF AreWays
  <2> QED
    BY <1>2, <2>6
<1> QED
  BY <1>3, <1>4

LEMMA WayToIs ==
  ASSUME TableBehind, last \in Nat, ip \in Nat, NEW p \in Nat, p <= last,
         src \in Seq(U8)
  PROVE  IsWay(WayTo(p), ip, ip + p)
<1> DEFINE f == CHOOSE f : AreWays(f, p)
<1>1. AreWays(f, p)
  <2>1. \E g : AreWays(g, p)
    BY WaysExist
  <2> QED
    BY <2>1
<1>2. WayTo(p) = f[p]
  BY Zenon DEF WayTo, AreWays, Through
<1> HIDE DEF f
<1> DEFINE Bad == {k \in 0 .. p : ~IsWay(f[k], ip, ip + k)}
<1>3. SUFFICES ASSUME Bad # {} PROVE FALSE
  BY <1>2, <1>3
<1>4. PICK k \in Bad : \A e \in Bad : k <= e
  <2>1. Bad \subseteq Nat
    OBVIOUS
  <2> HIDE DEF Bad
  <2> QED
    BY <1>3, <2>1, LeastNatural
<1>5. k \in Nat /\ k <= p /\ k <= last /\ f[k] = Through(f, k)
  <2>1. k \in 0 .. p
    BY <1>4
  <2> HIDE DEF Bad
  <2>2. f[k] = Through(f, k)
    BY <1>1, <2>1 DEF AreWays
  <2> QED
    BY <2>1, <2>2
<1>6. CASE opt[k].mlen > k
  BY <1>4, <1>5, <1>6, NoWay DEF Through
<1>7. CASE ~(opt[k].mlen > k) /\ opt[k].mlen = 1
  <2> DEFINE j == k - 1
  <2>1. j \in Nat /\ j < k
    BY <1>5, <1>7, StepBack
  <2>2. f[k] = f[j]
    BY <1>5, <1>7 DEF Through
  <2> HIDE DEF j
  <2>3. j \in 0 .. p /\ j \notin Bad
    BY <1>4, <1>5, <2>1
  <2>4. IsWay(f[j], ip, ip + j)
    BY <2>3
  <2>5. IsWay(f[j], ip, ip + k)
    <3> DEFINE a == ip + j
               b == ip + k
    <3>1. a \in Int /\ b \in Int /\ a <= b
      BY <1>5, <2>1
    <3>2. IsWay(f[j], ip, a)
      BY <2>4
    <3> HIDE DEF a, b
    <3>3. IsWay(f[j], ip, b)
      BY <3>1, <3>2, LongerWay
    <3> QED
      BY <3>3 DEF b
  <2> QED
    BY <1>4, <2>2, <2>5
<1>8. CASE ~(opt[k].mlen > k) /\ opt[k].mlen # 1
  <2> DEFINE l == opt[k].mlen
             j == k - l
             e == [ip |-> ip + k - l, m |-> [offset |-> opt[k].off, len |-> l]]
             a == ip + j
  <2>1. l \in 4 .. k /\ j \in Nat /\ j < k
    BY <1>5, <1>8, StepBack
  <2>2. f[k] = Append(f[j], e)
    BY <1>5, <1>8 DEF Through
  <2>3. IsMatch(e)
    <3>1. StepTo(k)
      BY <1>5 DEF TableBehind, TRAILING_LITERALS
    <3> QED
      BY <1>8, <3>1 DEF StepTo
  <2>4. e.ip = ip + k - l /\ e.m.len = l
    OBVIOUS
  <2> HIDE DEF l, e
  <2>5. e.ip = a /\ EndOf(e) = ip + k /\ a \in Int /\ ip <= a
    <3>1. l \in Nat /\ k \in Nat /\ ip + k - l = ip + (k - l)
      BY <1>5, <2>1
    <3>2. (ip + k - l) + l = ip + k
      BY <1>5, <2>1
    <3>3. ip + (k - l) \in Int /\ ip <= ip + (k - l)
      BY <1>5, <2>1
    <3> QED
      BY <2>4, <3>1, <3>2, <3>3 DEF EndOf
  <2>6. j \in 0 .. p /\ j \notin Bad
    BY <1>4, <1>5, <2>1
  <2>7. IsWay(f[j], ip, a)
    BY <2>6
  <2> HIDE DEF j, a
  <2>8. a <= e.ip
    BY <2>5
  <2>9. IsWay(Append(f[j], e), ip, EndOf(e))
    BY <2>3, <2>5, <2>7, <2>8, WayFurther
  <2> QED
    BY <1>4, <2>2, <2>5, <2>9
<1> QED
  BY <1>6, <1>7, <1>8
-----------------------------------------------------------------------------
(* What a step does not change.                                            *)
LEMMA FinderSame ==
  ASSUME FinderInv, UNCHANGED <<src, level, finderVars>>
  PROVE  FinderInv'
BY DEF FinderInv, FinderTypeOK, TableBefore, SearchInPlace, FoundIsMatch, finderVars,
       Searching, Nothing, Lowest, Index, START, Common, matchLimit

LEMMA MatchSame ==
  ASSUME src' = src, NEW e
  PROVE  IsMatch(e)' <=> IsMatch(e)
BY DEF IsMatch, Encoder!Matches, Encoder!n

LEMMA WaySame ==
  ASSUME src' = src, NEW way, NEW from, NEW to
  PROVE  IsWay(way, from, to)' <=> IsWay(way, from, to)
BY MatchSame DEF IsWay, EndOf

LEMMA TableSame ==
  ASSUME TableOK, UNCHANGED <<src, ip, opt, last>>
  PROVE  TableOK'
<1>1. ASSUME NEW p \in DOMAIN opt PROVE StepTo(p)'
  <2>1. StepTo(p)
    BY DEF TableOK
  <2>2. opt[p].mlen # 1 =>
          IsMatch([ip |-> ip + p - opt[p].mlen,
                   m |-> [offset |-> opt[p].off, len |-> opt[p].mlen]])'
    BY <2>1, MatchSame DEF StepTo
  <2> QED
    BY <2>1, <2>2 DEF StepTo
<1> QED
  BY <1>1 DEF TableOK, TRAILING_LITERALS

(* The next search may begin where this one did, or behind.                *)
LEMMA SearchOn ==
  ASSUME NEW at \in Nat, NEW low, NEW min, NEW p \in Nat, at <= p,
         SearchedAt(at, low, min), nextToUpdate' = nextToUpdate
  PROVE  nextToUpdate' <= START + p
<1>1. nextToUpdate = START + at
  BY DEF SearchedAt, Index
<1>2. START + at <= START + p
  BY HcNumbers
<1> QED
  BY <1>1, <1>2

LEMMA MayOn ==
  ASSUME FinderInv, NEW at \in Nat, NEW p \in Nat, at <= p, MaySearchAt(at),
         nextToUpdate' = nextToUpdate
  PROVE  nextToUpdate' <= START + p
<1>1. nextToUpdate <= START + at /\ nextToUpdate \in Nat
  BY DEF MaySearchAt, Index, FinderInv, FinderTypeOK
<1>2. nextToUpdate <= START + p
  BY <1>1, HcNumbers
<1> QED
  BY <1>2

(* The steps of the encoder, as far as the parsers see them.               *)
LEMMA EncoderSteps ==
  ASSUME NEW p, NEW m, Encoder!EncodeSequence(p, m) \/ Encoder!Overflow(p, m)
  PROVE  /\ src' = src /\ pc = "parse"
         /\ pc' = "parse" => anchor' = p + m.len
BY DEF Encoder!EncodeSequence, Encoder!Overflow

(* Where the parsers begin a search, and what it may look at before it.    *)
MayFind(at, low, min) ==
  /\ at \in Nat /\ low \in Nat /\ min \in Nat \ {0}
  /\ low <= at /\ at - low < min /\ (ChainSwap => low = at)
  /\ MaySearchAt(at) /\ at + MFLIMIT <= Len(src)

Finds == \E at, low, min : MayFind(at, low, min) /\ Find(at, low, min)

LEMMA FindsIs ==
  ASSUME NEW at \in Nat, NEW low \in Nat, NEW min \in Nat \ {0},
         low <= at, at - low < min, ChainSwap => low = at,
         MaySearchAt(at), at + MFLIMIT <= Len(src), Find(at, low, min)
  PROVE  Finds
<1>1. MayFind(at, low, min)
  BY DEF MayFind
<1> QED
  BY <1>1 DEF Finds

(* The searches of the optimal parser.                                     *)
OptimalHere == HcInv /\ level.strat = "lz4opt" /\ level' = level

LEMMA OptimalFindFirst ==
  ASSUME OptimalHere, FindFirst
  PROVE  HcInv' /\ Finds
<1>1. /\ FinderInv /\ OptimalInv /\ pc = "parse" /\ step = "main" /\ ip <= n - MFLIMIT
      /\ Find(ip, ip, MINMATCH - 1) /\ step' = "first"
      /\ UNCHANGED <<src, level, encoderVars, ip, opt, last, cur, elected>>
      /\ anchor \in Nat /\ level.strat # "lz4hc"
  BY DEF OptimalHere, HcInv, FindFirst
<1>2. ip \in Nat /\ MaySearchAt(ip) /\ anchor <= ip /\ cur \in Nat /\ last \in Nat
  BY <1>1 DEF OptimalInv
<1>3. ip + MFLIMIT <= Len(src) /\ MINMATCH - 1 \in Nat \ {0}
  <2>1. Len(src) \in Nat
    BY <1>1, SearchTypes
  <2> QED
    BY <1>1, <1>2, <2>1, HcNumbers DEF n
<1>4. FinderInv' /\ Asked(ip, ip, MINMATCH - 1) /\ Finds
  <2> DEFINE at == ip
             min == MINMATCH - 1
  <2>1. /\ at \in Nat /\ min \in Nat \ {0} /\ at <= at /\ MaySearchAt(at)
        /\ at + MFLIMIT <= Len(src) /\ Find(at, at, min) /\ UNCHANGED <<src, level>>
    BY <1>1, <1>2, <1>3
  <2> HIDE DEF at, min
  <2>2. FinderInv' /\ Asked(at, at, min)
    BY <1>1, <2>1, FindKeeps
  <2>3. at - at < min
    BY <2>1
  <2>4. Finds
    BY <2>1, <2>3, FindsIs
  <2> QED
    BY <2>2, <2>4 DEF at, min
<1>5. ip' = ip /\ cur' = cur /\ last' = last /\ pc' = pc /\ anchor' = anchor /\ level' = level
  BY <1>1 DEF encoderVars
<1>6. SearchedAt(ip, ip, MINMATCH - 1)'
  BY <1>4, <1>5 DEF Asked, SearchedAt, Index, START
<1> QED
  BY <1>1, <1>2, <1>4, <1>5, <1>6 DEF HcInv, OptimalInv

LEMMA OptimalFindFurther ==
  ASSUME OptimalHere, FindFurther
  PROVE  HcInv' /\ Finds
<1> DEFINE at == ip + cur
           min == IF level.full THEN MINMATCH - 1 ELSE last - cur
<1>1. /\ FinderInv /\ OptimalInv /\ step = "further" /\ cur < last /\ at <= n - MFLIMIT
      /\ Find(at, at, min) /\ step' = "improve"
      /\ UNCHANGED <<src, level, encoderVars, ip, opt, last, cur, elected>>
      /\ pc = "parse" => anchor \in Nat
      /\ level.strat # "lz4hc"
  BY DEF OptimalHere, HcInv, FindFurther
<1>2. /\ pc = "parse" /\ anchor \in Nat /\ ip \in Nat /\ cur \in 1 .. last /\ last \in Nat
      /\ cur \in Nat /\ anchor <= ip /\ MaySearchAt(at) /\ TableOK
  BY <1>1 DEF OptimalInv
<1>3. at \in Nat /\ at + MFLIMIT <= Len(src) /\ min \in Nat \ {0}
  <2>1. Len(src) \in Nat /\ at \in Nat
    BY <1>1, <1>2, SearchTypes
  <2>2. min \in Nat \ {0}
    BY <1>1, <1>2, HcNumbers
  <2> HIDE DEF at, min
  <2> QED
    BY <1>1, <1>2, <2>1, <2>2, HcNumbers DEF n
<1> HIDE DEF at, min
<1>4. FinderInv' /\ Asked(at, at, min)
  <2>1. at <= at /\ UNCHANGED <<src, level>>
    BY <1>1, <1>3
  <2> QED
    BY <1>1, <1>2, <1>3, <2>1, FindKeeps
<1>5. /\ ip' = ip /\ cur' = cur /\ last' = last /\ pc' = pc /\ anchor' = anchor
      /\ level' = level /\ at' = at
  BY <1>1 DEF encoderVars, at
<1>6. SearchedAt(ip + cur, ip + cur, search.min)'
  BY <1>4, <1>5 DEF Asked, SearchedAt, Index, START, at
<1>7. TableOK'
  BY <1>1, <1>2, TableSame
<1>8. cur \in 1 .. last - 1
  BY <1>1, <1>2
<1>9. OptimalInv'
  BY <1>1, <1>2, <1>5, <1>6, <1>7, <1>8 DEF OptimalInv
<1>10. Finds
  <2>1. at <= at /\ at - at < min
    BY <1>3
  <2> QED
    BY <1>1, <1>2, <1>3, <2>1, FindsIs
<1> QED
  BY <1>1, <1>2, <1>4, <1>5, <1>9, <1>10 DEF HcInv

LEMMA OptimalSearch ==
  ASSUME OptimalHere, Search
  PROVE  HcInv'
<1>1. /\ FinderInv /\ OptimalInv /\ step \in {"first", "improve"} /\ Look
      /\ UNCHANGED <<src, level, encoderVars, parserVars>>
      /\ pc = "parse" => anchor \in Nat
      /\ level.strat # "lz4hc"
  BY DEF OptimalHere, HcInv, Search
<1>2. FinderInv' /\ SameCall(search') /\ nextToUpdate' = nextToUpdate
  BY <1>1, LookKeeps
<1>3. /\ ip' = ip /\ cur' = cur /\ last' = last /\ pc' = pc /\ anchor' = anchor
      /\ opt' = opt /\ level' = level /\ step' = step /\ elected' = elected /\ src' = src
  BY <1>1 DEF encoderVars, parserVars
<1>4. pc = "parse" /\ anchor \in Nat /\ ip \in Nat /\ cur \in Nat /\ last \in Nat /\ anchor <= ip
  BY <1>1 DEF OptimalInv
<1>5. CASE step = "first"
  <2>1. SearchedAt(ip, ip, MINMATCH - 1)
    BY <1>1, <1>4, <1>5 DEF OptimalInv
  <2>2. SearchedAt(ip, ip, MINMATCH - 1)'
    BY <1>2, <1>3, <2>1 DEF SearchedAt, SameCall, Index, START
  <2>3. OptimalInv'
    BY <1>3, <1>4, <1>5, <2>2 DEF OptimalInv
  <2> QED
    BY <1>1, <1>2, <1>3, <1>4, <2>3 DEF HcInv
<1>6. CASE step = "improve"
  <2>1. SearchedAt(ip + cur, ip + cur, search.min) /\ cur \in 1 .. last - 1 /\ TableOK
    BY <1>1, <1>4, <1>6 DEF OptimalInv
  <2>2. SearchedAt(ip + cur, ip + cur, search.min)'
    BY <1>2, <1>3, <2>1 DEF SearchedAt, SameCall, Index, START
  <2>3. TableOK'
    BY <1>3, <2>1, TableSame
  <2>4. OptimalInv'
    BY <1>3, <1>4, <1>6, <2>1, <2>2, <2>3 DEF OptimalInv
  <2> QED
    BY <1>1, <1>2, <1>3, <1>4, <2>4 DEF HcInv
<1> QED
  BY <1>1, <1>5, <1>6

LEMMA OptimalNoMatch ==
  ASSUME OptimalHere, NoMatch
  PROVE  HcInv'
<1>1. /\ FinderInv /\ OptimalInv /\ step = "first" /\ step' = "main" /\ ip' = ip + 1
      /\ UNCHANGED <<src, level, finderVars, encoderVars, opt, last, cur, elected>>
      /\ pc = "parse" => anchor \in Nat
      /\ level.strat # "lz4hc"
  BY DEF OptimalHere, HcInv, NoMatch
<1>2. /\ pc = "parse" /\ anchor \in Nat /\ ip \in Nat /\ cur \in Nat /\ last \in Nat
      /\ anchor <= ip /\ SearchedAt(ip, ip, MINMATCH - 1)
  BY <1>1 DEF OptimalInv
<1>3. FinderInv' /\ nextToUpdate' = nextToUpdate
  BY <1>1, FinderSame DEF finderVars
<1>4. ip + 1 \in Nat /\ ip <= ip + 1 /\ anchor <= ip + 1
  BY <1>2
<1>5. nextToUpdate' <= START + (ip + 1)
  <2> DEFINE at == ip
             p == ip + 1
  <2>1. at \in Nat /\ p \in Nat /\ at <= p /\ SearchedAt(at, at, MINMATCH - 1)
    BY <1>2, <1>4
  <2> HIDE DEF at, p
  <2>2. nextToUpdate' <= START + p
    BY <1>3, <2>1, SearchOn
  <2> QED
    BY <2>2 DEF p
<1>6. MaySearchAt(ip)'
  BY <1>1, <1>5 DEF MaySearchAt, Index, START
<1>7. cur' = cur /\ last' = last /\ pc' = pc /\ anchor' = anchor /\ level' = level
  BY <1>1 DEF encoderVars
<1>8. OptimalInv'
  BY <1>1, <1>2, <1>4, <1>6, <1>7 DEF OptimalInv
<1> QED
  BY <1>1, <1>2, <1>3, <1>7, <1>8 DEF HcInv

LEMMA OptimalEncodeAtOnce ==
  ASSUME OptimalHere, EncodeAtOnce
  PROVE  HcInv'
<1> DEFINE e == [ip |-> ip, m |-> Found]
           len == Found.len
<1>1. /\ FinderInv /\ OptimalInv /\ step = "first" /\ ~Nothing
      /\ step' = "encode" /\ elected' = <<e>> /\ ip' = ip + len
      /\ UNCHANGED <<src, level, finderVars, encoderVars, opt, last, cur>>
      /\ pc = "parse" => anchor \in Nat
      /\ level.strat # "lz4hc"
  BY DEF OptimalHere, HcInv, EncodeAtOnce
<1>2. /\ pc = "parse" /\ anchor \in Nat /\ ip \in Nat /\ cur \in Nat /\ last \in Nat
      /\ anchor <= ip /\ SearchedAt(ip, ip, MINMATCH - 1)
  BY <1>1 DEF OptimalInv
<1>3. search.start = ip /\ IsMatch(e) /\ len \in Nat
  <2> DEFINE p == ip
             st == search.start
  <2>1. search.low = p /\ search.at = p
    BY <1>2 DEF SearchedAt
  <2>2. st \in Nat /\ p <= st /\ st <= p
    BY <1>1, <2>1, FoundIs
  <2>3. p \in Nat
    BY <1>2
  <2> HIDE DEF p, st
  <2>4. st = p
    BY <2>2, <2>3
  <2> QED
    BY <1>1, <2>4, FoundIs DEF p, st
<1>4. IsWay(<<e>>, anchor, ip + len)
  <2> DEFINE a == anchor
             p == ip
             w == <<>>
  <2>1. a \in Int /\ a <= a /\ e.ip = p /\ a <= e.ip /\ EndOf(e) = p + len
    BY <1>2 DEF EndOf
  <2>2. IsWay(w, a, a) /\ Append(w, e) = <<e>>
    BY NoWay
  <2>3. IsMatch(e)
    BY <1>3
  <2> HIDE DEF a, p, w, e
  <2>4. IsWay(Append(w, e), a, EndOf(e))
    BY <2>1, <2>2, <2>3, WayFurther
  <2>5. IsWay(<<e>>, a, p + len)
    BY <2>1, <2>2, <2>4
  <2> QED
    BY <2>5 DEF a, p
<1> HIDE DEF e, len
<1>5. src' = src /\ cur' = cur /\ last' = last /\ pc' = pc /\ anchor' = anchor /\ level' = level
  BY <1>1 DEF encoderVars
<1>6. IsWay(elected, anchor, ip)'
  <2>1. PICK w, a, b : w = <<e>> /\ a = anchor /\ b = ip + len
    OBVIOUS
  <2>2. IsWay(w, a, b)'
    BY <1>4, <1>5, <2>1, WaySame
  <2>3. elected' = w /\ anchor' = a /\ ip' = b
    BY <1>1, <1>5, <2>1
  <2> QED
    BY <2>2, <2>3 DEF IsWay, EndOf
<1>7. FinderInv' /\ nextToUpdate' = nextToUpdate
  BY <1>1, FinderSame DEF finderVars
<1>8. MaySearchAt(ip)' /\ ip' \in Nat /\ anchor <= ip'
  <2> DEFINE at == ip
             p == ip + len
  <2>1. at \in Nat /\ p \in Nat /\ at <= p /\ SearchedAt(at, at, MINMATCH - 1) /\ anchor <= p
    BY <1>2, <1>3
  <2> HIDE DEF at, p
  <2>2. nextToUpdate' <= START + p
    BY <1>7, <2>1, SearchOn
  <2> QED
    BY <1>1, <2>1, <2>2 DEF p, MaySearchAt, Index, START
<1>9. elected' # <<>>
  BY <1>1
<1>10. OptimalInv'
  BY <1>1, <1>2, <1>5, <1>6, <1>8, <1>9 DEF OptimalInv
<1> QED
  BY <1>1, <1>2, <1>5, <1>7, <1>10 DEF HcInv

(* The table after a search: whatever is newly entered is a literal, or a  *)
(* part of the match that was found.                                       *)
LEMMA PartStep ==
  ASSUME src \in Seq(U8), src' = src, NEW p \in Nat, NEW at \in Nat,
         IsMatch([ip |-> at, m |-> Found]), at = ip' + p - opt'[p].mlen,
         opt'[p].mlen \in MINMATCH .. p, opt'[p].mlen <= Found.len,
         opt'[p].off = Found.offset
  PROVE  StepTo(p)'
<1>1. PICK e, len, off :
        e = [ip |-> at, m |-> Found] /\ len = opt'[p].mlen /\ off = opt'[p].off
  OBVIOUS
<1>2. /\ e.ip = at /\ e.m.offset = off /\ IsMatch(e) /\ at = ip' + p - len
      /\ len \in MINMATCH .. p /\ len <= e.m.len
  BY <1>1
<1>3. len \in Nat /\ len >= 4
  BY <1>2, HcNumbers
<1>4. IsMatch(MatchAt(at, off, len))
  BY <1>2, <1>3, FirstPartIsMatch
<1>5. IsMatch([ip |-> at, m |-> [offset |-> off, len |-> len]])'
  BY <1>4, MatchSame DEF MatchAt
<1> QED
  BY <1>1, <1>2, <1>5 DEF StepTo

LEMMA OptimalSetPrices ==
  ASSUME OptimalHere, SetPrices
  PROVE  HcInv'
<1> DEFINE len == Found.len
           at == ip
           lit == ip - anchor
           price == SequencePrice(lit, len)
           new == [p \in 0 .. len + TRAILING_LITERALS |->
                    IF p < MINMATCH THEN Literal(lit + p, LiteralsPrice(lit + p))
                    ELSE IF p <= len THEN Match(lit, Found, p, SequencePrice(lit, p))
                    ELSE Trailing(price, p - len)]
<1>1. /\ FinderInv /\ OptimalInv /\ step = "first" /\ ~Nothing /\ len <= Sufficient
      /\ step' = "further" /\ opt' = new /\ last' = len /\ cur' = 1
      /\ UNCHANGED <<src, level, finderVars, encoderVars, ip, elected>>
      /\ pc = "parse" => anchor \in Nat
      /\ level.strat # "lz4hc"
  BY DEF OptimalHere, HcInv, SetPrices
<1>2. /\ pc = "parse" /\ anchor \in Nat /\ at \in Nat
      /\ anchor <= at /\ SearchedAt(at, at, MINMATCH - 1)
  BY <1>1 DEF OptimalInv
<1>3. IsMatch([ip |-> at, m |-> Found]) /\ len \in Nat /\ len >= 4
  <2> DEFINE st == search.start
  <2>1. search.low = at /\ search.at = at
    BY <1>2 DEF SearchedAt
  <2>2. /\ st \in Nat /\ at <= st /\ st <= at /\ IsMatch([ip |-> st, m |-> Found])
        /\ len \in Nat /\ st + len >= at + 4
    BY <1>1, <2>1, FoundIs
  <2>3. at \in Nat
    BY <1>2
  <2> HIDE DEF at, st, len
  <2>4. st = at
    BY <2>2, <2>3
  <2>5. len >= 4
    BY <2>2, <2>3, <2>4
  <2> QED
    BY <2>2, <2>4, <2>5
<1>4. len < OPT_NUM
  <2> DEFINE t == level.targetLength
  <2>1. t \in Nat /\ OPT_NUM \in Nat
    BY <1>1, ParserAssumption DEF FinderInv, FinderTypeOK
  <2>2. len <= IF t >= OPT_NUM THEN OPT_NUM - 1 ELSE t
    BY <1>1 DEF Sufficient
  <2> HIDE DEF t, len
  <2> QED
    BY <1>3, <2>1, <2>2
<1>5. /\ src' = src /\ pc' = pc /\ anchor' = anchor /\ level' = level /\ ip' = ip
      /\ src \in Seq(U8)
  BY <1>1, SearchTypes DEF encoderVars
<1>6. DOMAIN new = 0 .. len + 3
  BY DEF TRAILING_LITERALS
<1>7. ASSUME NEW p \in 0 .. len + 3
      PROVE  new[p].mlen = 1 \/ (p \in 4 .. len /\ new[p].mlen = p /\ new[p].off = Found.offset)
  <2> HIDE DEF price, lit
  <2>1. new[p] = IF p < MINMATCH THEN Literal(lit + p, LiteralsPrice(lit + p))
                 ELSE IF p <= len THEN Match(lit, Found, p, SequencePrice(lit, p))
                 ELSE Trailing(price, p - len)
    BY <1>7 DEF TRAILING_LITERALS
  <2> HIDE DEF new, len
  <2>2. MINMATCH = 4
    BY HcNumbers
  <2>3. p \in 4 .. len \/ p < 4 \/ ~(p <= len)
    BY <1>3
  <2>4. CASE p < 4
    BY <2>1, <2>2, <2>4 DEF Literal
  <2>5. CASE ~(p <= len) /\ ~(p < 4)
    BY <2>1, <2>2, <2>5 DEF Literal, Trailing
  <2>6. CASE p \in 4 .. len
    <3>1. ~(p < MINMATCH) /\ p <= len
      BY <1>3, <2>2, <2>6
    <3> QED
      BY <2>1, <2>6, <3>1 DEF Match
  <2> QED
    BY <2>3, <2>4, <2>5, <2>6
<1> HIDE DEF new, len
<1>8. ASSUME NEW p \in 0 .. len + 3 PROVE StepTo(p)'
  <2>1. CASE new[p].mlen = 1
    BY <1>1, <2>1 DEF StepTo
  <2>2. CASE p \in 4 .. len /\ new[p].mlen = p /\ new[p].off = Found.offset
    <3>1. /\ opt'[p].mlen = p /\ opt'[p].off = Found.offset /\ p \in Nat
          /\ p \in MINMATCH .. p
      BY <1>1, <2>2, HcNumbers
    <3>2. at = ip' + p - p /\ p <= len
      BY <1>2, <1>3, <1>5, <2>2, <3>1
    <3> QED
      BY <1>2, <1>3, <1>5, <3>1, <3>2, PartStep DEF len
  <2> QED
    BY <1>7, <2>1, <2>2
<1>9. TableOK'
  BY <1>1, <1>4, <1>6, <1>8 DEF TableOK, TRAILING_LITERALS
<1>10. FinderInv' /\ nextToUpdate' = nextToUpdate
  BY <1>1, FinderSame DEF finderVars
<1>11. MaySearchAt(ip + cur)'
  <2> DEFINE p == at + 1
  <2>1. p \in Nat /\ at <= p /\ at \in Nat /\ SearchedAt(at, at, MINMATCH - 1)
    BY <1>2
  <2> HIDE DEF at, p
  <2>2. nextToUpdate' <= START + p
    BY <1>10, <2>1, SearchOn
  <2> QED
    BY <1>1, <2>2 DEF p, at, MaySearchAt, Index, START
<1>12. cur' \in 1 .. last'
  BY <1>1, <1>3
<1>13. OptimalInv'
  BY <1>1, <1>2, <1>3, <1>5, <1>9, <1>11, <1>12 DEF OptimalInv
<1> QED
  BY <1>1, <1>2, <1>5, <1>10, <1>13 DEF HcInv

(* A position is left behind.                                              *)
LEMMA OptimalStepOn ==
  ASSUME OptimalHere, pc = "parse", anchor \in Nat, ip \in Nat, anchor <= ip, last \in Nat,
         cur \in Nat, cur + 1 \in 1 .. last', FinderInv', TableOK', last' \in Nat,
         step' = "further", cur' = cur + 1, UNCHANGED <<src, level, encoderVars, ip>>,
         nextToUpdate' <= START + (ip + cur + 1)
  PROVE  HcInv'
<1>1. /\ pc' = pc /\ anchor' = anchor /\ level' = level /\ ip' = ip /\ cur' \in Nat
      /\ level.strat # "lz4hc"
  BY DEF encoderVars, OptimalHere
<1>2. ip' + cur' = ip + cur + 1
  BY <1>1
<1>3. MaySearchAt(ip + cur)'
  BY <1>2 DEF MaySearchAt, Index, START
<1>4. OptimalInv'
  BY <1>1, <1>3 DEF OptimalInv
<1> QED
  BY <1>1, <1>4 DEF HcInv

LEMMA OptimalSkip ==
  ASSUME OptimalHere, Skip
  PROVE  HcInv'
<1>1. /\ FinderInv /\ OptimalInv /\ step = "further" /\ cur < last /\ cur' = cur + 1
      /\ UNCHANGED <<src, level, finderVars, encoderVars, step, ip, opt, last, elected>>
      /\ pc = "parse" => anchor \in Nat
  BY DEF OptimalHere, HcInv, Skip
<1>2. /\ pc = "parse" /\ anchor \in Nat /\ ip \in Nat /\ cur \in 1 .. last /\ last \in Nat
      /\ anchor <= ip /\ MaySearchAt(ip + cur) /\ TableOK
  BY <1>1 DEF OptimalInv
<1>3. FinderInv' /\ TableOK' /\ nextToUpdate' = nextToUpdate
  BY <1>1, <1>2, FinderSame, TableSame DEF finderVars
<1>4. nextToUpdate' <= START + (ip + cur + 1)
  <2>1. PICK at, p : at = ip + cur /\ p = ip + cur + 1
    OBVIOUS
  <2>2. at \in Nat /\ p \in Nat /\ at <= p /\ MaySearchAt(at)
    BY <1>2, <2>1
  <2>3. nextToUpdate' <= START + p
    BY <1>1, <1>3, <2>2, MayOn
  <2> QED
    BY <2>1, <2>3
<1>5. cur \in Nat /\ cur + 1 \in 1 .. last /\ last' = last /\ step' = "further"
  BY <1>1, <1>2
<1> QED
  BY <1>1, <1>2, <1>3, <1>4, <1>5, OptimalStepOn

LEMMA OptimalNoImprovement ==
  ASSUME OptimalHere, NoImprovement
  PROVE  HcInv'
<1>1. /\ FinderInv /\ OptimalInv /\ step = "improve" /\ step' = "further" /\ cur' = cur + 1
      /\ UNCHANGED <<src, level, finderVars, encoderVars, ip, opt, last, elected>>
      /\ pc = "parse" => anchor \in Nat
  BY DEF OptimalHere, HcInv, NoImprovement
<1>2. /\ pc = "parse" /\ anchor \in Nat /\ ip \in Nat /\ cur \in 1 .. last - 1 /\ last \in Nat
      /\ anchor <= ip /\ SearchedAt(ip + cur, ip + cur, search.min) /\ TableOK
  BY <1>1 DEF OptimalInv
<1>3. FinderInv' /\ TableOK' /\ nextToUpdate' = nextToUpdate
  BY <1>1, <1>2, FinderSame, TableSame DEF finderVars
<1>4. nextToUpdate' <= START + (ip + cur + 1)
  <2>1. PICK at, p, min : at = ip + cur /\ p = ip + cur + 1 /\ min = search.min
    OBVIOUS
  <2>2. at \in Nat /\ p \in Nat /\ at <= p /\ SearchedAt(at, at, min)
    BY <1>2, <2>1
  <2>3. nextToUpdate' <= START + p
    BY <1>3, <2>2, SearchOn
  <2> QED
    BY <2>1, <2>3
<1>5. cur \in Nat /\ cur + 1 \in 1 .. last /\ last' = last
  BY <1>1, <1>2
<1> QED
  BY <1>1, <1>2, <1>3, <1>4, <1>5, OptimalStepOn

(* What was found at ip + cur.                                             *)
LEMMA FoundHere ==
  ASSUME FinderInv, ~Nothing, NEW at \in Nat, NEW min, SearchedAt(at, at, min)
  PROVE  IsMatch([ip |-> at, m |-> Found]) /\ Found.len \in Nat /\ Found.len >= 4
<1>1. PICK st, len : st = search.start /\ len = Found.len
  OBVIOUS
<1>2. search.low = at /\ search.at = at
  BY DEF SearchedAt
<1>3. /\ st \in Nat /\ at <= st /\ st <= at /\ IsMatch([ip |-> st, m |-> Found])
      /\ len \in Nat /\ st + len >= at + 4
  BY <1>1, <1>2, FoundIs
<1>4. st = at /\ len >= 4
  BY <1>3
<1> QED
  BY <1>1, <1>3, <1>4

LEMMA OptimalImprove ==
  ASSUME OptimalHere, Improve
  PROVE  HcInv'
<1>1. /\ FinderInv /\ OptimalInv /\ step = "improve" /\ ~Nothing /\ ~TooFar
      /\ step' = "further" /\ cur' = cur + 1
      /\ UNCHANGED <<src, level, finderVars, encoderVars, ip, elected>>
      /\ pc = "parse" => anchor \in Nat
  BY DEF OptimalHere, HcInv, Improve
<1>2. /\ pc = "parse" /\ anchor \in Nat /\ ip \in Nat /\ cur \in 1 .. last - 1 /\ last \in Nat
      /\ anchor <= ip /\ SearchedAt(ip + cur, ip + cur, search.min) /\ TableOK
  BY <1>1 DEF OptimalInv
<1>3. src' = src /\ ip' = ip /\ src \in Seq(U8)
  BY <1>1, SearchTypes
<1>4. PICK at, c, l, len :
        at = ip + cur /\ c = cur /\ l = last /\ len = Found.len
  OBVIOUS
<1>5. c \in Nat /\ l \in Nat /\ c \in 1 .. l - 1 /\ at \in Nat /\ SearchedAt(at, at, search.min)
  BY <1>2, <1>4
<1>6. IsMatch([ip |-> at, m |-> Found]) /\ len \in Nat /\ len >= 4
  <2>1. PICK min : min = search.min
    OBVIOUS
  <2> QED
    BY <1>1, <1>4, <1>5, <2>1, FoundHere
<1>7. ~(len + c >= OPT_NUM) /\ OPT_NUM \in Nat
  BY <1>1, <1>4, ParserAssumption DEF TooFar
<1> DEFINE Improves(p) ==
             p > last + TRAILING_LITERALS \/ WithMatch(p - cur).price <= opt[p].price
           end == IF cur + Found.len > last /\ Improves(cur + Found.len) THEN cur + Found.len
                  ELSE last
           Best(p) ==
             IF p \in cur + MINMATCH .. cur + Found.len /\ Improves(p) THEN WithMatch(p - cur)
             ELSE IF p \in cur + 1 .. cur + MINMATCH - 1
                       /\ WithLiterals(p - cur).price < opt[p].price
               THEN WithLiterals(p - cur)
             ELSE opt[p]
           new == [p \in 0 .. end + TRAILING_LITERALS |->
                    IF p <= end THEN Best(p) ELSE Trailing(Best(end).price, p - end)]
<1>8. last' = end /\ opt' = new
  BY DEF Improve
<1>9. /\ end \in Nat /\ end < OPT_NUM /\ l <= end
      /\ end = l \/ (end = c + len /\ end > l)
  <2>1. \/ cur + Found.len > last /\ end = cur + Found.len
        \/ end = last
    OBVIOUS
  <2> HIDE DEF end
  <2>2. (c + len > l /\ end = c + len) \/ end = l
    BY <1>4, <2>1
  <2>3. l < OPT_NUM
    BY <1>2, <1>4 DEF TableOK
  <2> QED
    BY <1>5, <1>6, <1>7, <2>2, <2>3
<1>10. DOMAIN new = 0 .. end + 3
  BY DEF TRAILING_LITERALS
<1>11. \A k : WithMatch(k).mlen = k /\ WithMatch(k).off = Found.offset
  BY DEF WithMatch, Match
<1>12. \A k : WithLiterals(k).mlen = 1
  BY DEF WithLiterals, Literal
<1>13. MINMATCH = 4 /\ TRAILING_LITERALS = 3
  BY HcNumbers DEF TRAILING_LITERALS
<1>14. \A p \in 0 .. l + 3 : StepTo(p)
  BY <1>2, <1>4, <1>13 DEF TableOK
<1>15. ASSUME NEW p \in 0 .. end + 3
       PROVE  \/ new[p].mlen = 1
              \/ /\ p - c \in 4 .. len /\ new[p].mlen = p - c /\ new[p].off = Found.offset
              \/ p <= l + 3 /\ new[p] = opt[p]
  <2>1. new[p] = IF p <= end THEN Best(p) ELSE Trailing(Best(end).price, p - end)
    BY <1>13
  <2>4. \/ p \in cur + MINMATCH .. cur + Found.len /\ Best(p) = WithMatch(p - cur)
        \/ Best(p) = WithLiterals(p - cur)
        \/ /\ Best(p) = opt[p]
           /\ ~(p \in cur + MINMATCH .. cur + Found.len /\ Improves(p))
    OBVIOUS
  <2>5. p > last + TRAILING_LITERALS => Improves(p)
    OBVIOUS
  <2> HIDE DEF Best, new, Improves, end
  <2>2. CASE ~(p <= end)
    <3>1. new[p] = Trailing(Best(end).price, p - end)
      BY <2>1, <2>2
    <3> QED
      BY <3>1 DEF Trailing, Literal
  <2>3. CASE p <= end
    <3>1. new[p] = Best(p)
      BY <2>1, <2>3
    <3>4. CASE p \in cur + MINMATCH .. cur + Found.len /\ Best(p) = WithMatch(p - cur)
      <4>1. p \in c + 4 .. c + len /\ new[p] = WithMatch(p - c)
        BY <1>4, <1>13, <3>1, <3>4
      <4>2. p - c \in 4 .. len
        BY <1>5, <1>6, <4>1
      <4> QED
        BY <1>11, <4>1, <4>2
    <3>5. CASE Best(p) = WithLiterals(p - cur)
      BY <1>12, <3>1, <3>5
    <3>6. CASE /\ Best(p) = opt[p]
               /\ ~(p \in cur + MINMATCH .. cur + Found.len /\ Improves(p))
      <4>1. ~(p \in c + 4 .. c + len) \/ ~(p > l + 3)
        BY <1>4, <1>13, <2>5, <3>6
      <4>2. p <= l + 3
        BY <1>5, <1>6, <1>9, <2>3, <4>1
      <4> QED
        BY <3>1, <3>6, <4>2
    <3> QED
      BY <2>4, <3>4, <3>5, <3>6
  <2> QED
    BY <2>2, <2>3
<1> HIDE DEF new, end
<1>16. ASSUME NEW p \in 0 .. end + 3 PROVE StepTo(p)'
  <2>1. CASE new[p].mlen = 1
    BY <1>8, <2>1 DEF StepTo
  <2>2. CASE p - c \in 4 .. len /\ new[p].mlen = p - c /\ new[p].off = Found.offset
    <3>1. PICK k : k = p - c
      OBVIOUS
    <3>2. /\ opt'[p].mlen = k /\ opt'[p].off = Found.offset /\ p \in Nat
          /\ k \in MINMATCH .. p /\ k <= len
      BY <1>5, <1>6, <1>8, <1>9, <1>13, <2>2, <3>1
    <3>3. at = ip' + p - k
      <4>1. PICK b : b = ip
        OBVIOUS
      <4>2. at = b + c /\ b \in Nat
        BY <1>2, <1>4, <4>1
      <4>3. at = b + p - k
        BY <1>5, <1>9, <3>1, <4>2
      <4> QED
        BY <1>3, <4>1, <4>3
    <3> QED
      BY <1>3, <1>4, <1>5, <1>6, <3>2, <3>3, PartStep
  <2>3. CASE p <= l + 3 /\ new[p] = opt[p]
    <3>1. p \in 0 .. l + 3
      BY <1>5, <1>9, <2>3
    <3>2. StepTo(p) /\ opt'[p] = opt[p]
      BY <1>8, <1>14, <2>3, <3>1
    <3>3. opt[p].mlen # 1 =>
            IsMatch([ip |-> ip + p - opt[p].mlen,
                     m |-> [offset |-> opt[p].off, len |-> opt[p].mlen]])'
      BY <1>3, <3>2, MatchSame DEF StepTo
    <3> QED
      BY <1>3, <3>2, <3>3 DEF StepTo
  <2> QED
    BY <1>15, <2>1, <2>2, <2>3
<1>17. TableOK'
  BY <1>8, <1>9, <1>10, <1>16 DEF TableOK, TRAILING_LITERALS
<1>18. FinderInv' /\ nextToUpdate' = nextToUpdate
  BY <1>1, FinderSame DEF finderVars
<1>19. nextToUpdate' <= START + (ip + cur + 1)
  <2>1. PICK p, min : p = ip + cur + 1 /\ min = search.min
    OBVIOUS
  <2>2. at \in Nat /\ p \in Nat /\ at <= p /\ SearchedAt(at, at, min)
    BY <1>2, <1>4, <1>5, <2>1
  <2>3. nextToUpdate' <= START + p
    BY <1>18, <2>2, SearchOn
  <2> QED
    BY <2>1, <2>3
<1>20. cur \in Nat /\ cur + 1 \in 1 .. last' /\ last' \in Nat
  <2>1. c + 1 \in 1 .. end
    BY <1>5, <1>9
  <2> QED
    BY <1>4, <1>5, <1>8, <1>9, <2>1
<1> QED
  BY <1>1, <1>2, <1>17, <1>18, <1>19, <1>20, OptimalStepOn

(* The way is elected: its matches are encoded next.                       *)
LEMMA TableIsBehind ==
  ASSUME TableOK
  PROVE  TableBehind
BY DEF TableOK, TableBehind

LEMMA WayFrom ==
  ASSUME NEW way, NEW from \in Int, NEW to, NEW a \in Int, a <= from, IsWay(way, from, to)
  PROVE  IsWay(way, a, to)
<1> DEFINE R == [ip : Nat, m : [offset : Nat, len : Nat]]
<1>1. way \in Seq(R)
  BY DEF IsWay
<1>2. ASSUME NEW k \in 1 .. Len(way)
      PROVE  /\ IsMatch(way[k]) /\ a <= way[k].ip /\ EndOf(way[k]) <= to
             /\ k > 1 => EndOf(way[k - 1]) <= way[k].ip
  <2>1. /\ IsMatch(way[k]) /\ from <= way[k].ip /\ EndOf(way[k]) <= to
        /\ k > 1 => EndOf(way[k - 1]) <= way[k].ip
    BY DEF IsWay
  <2>2. way[k].ip \in Nat
    BY <2>1 DEF IsMatch
  <2>3. a <= way[k].ip
    <3>1. PICK p : p = way[k].ip
      OBVIOUS
    <3>2. p \in Nat /\ from <= p
      BY <2>1, <2>2, <3>1
    <3>3. a <= p
      BY <3>2
    <3> QED
      BY <3>1, <3>3
  <2> QED
    BY <2>1, <2>3
<1> QED
  BY <1>1, <1>2 DEF IsWay

LEMMA OptimalTakeNow ==
  ASSUME OptimalHere, TakeNow
  PROVE  HcInv'
<1>1. PICK e, at, c, p, a, len, to :
        /\ e = [ip |-> ip + cur, m |-> Found] /\ at = ip + cur /\ c = cur /\ p = ip
        /\ a = anchor /\ len = Found.len /\ to = at + len
  OBVIOUS
<1>2. /\ FinderInv /\ OptimalInv /\ step = "improve" /\ ~Nothing
      /\ step' = "encode" /\ elected' = Append(WayTo(cur), e) /\ ip' = at + len
      /\ UNCHANGED <<src, level, finderVars, encoderVars, opt, last, cur>>
      /\ pc = "parse" => anchor \in Nat
      /\ level.strat # "lz4hc"
  BY <1>1 DEF OptimalHere, HcInv, TakeNow
<1>3. /\ pc = "parse" /\ a \in Nat /\ p \in Nat /\ c \in 1 .. last - 1 /\ last \in Nat
      /\ a <= p /\ SearchedAt(at, at, search.min) /\ TableOK /\ at = p + c
  BY <1>1, <1>2 DEF OptimalInv
<1>4. c \in Nat /\ c <= last /\ at \in Nat /\ p <= at
  BY <1>3
<1>5. IsMatch(e) /\ len \in Nat /\ len >= 4 /\ e.ip = at /\ EndOf(e) = to
  <2>1. PICK min : min = search.min
    OBVIOUS
  <2>2. IsMatch([ip |-> at, m |-> Found]) /\ Found.len \in Nat /\ Found.len >= 4
    BY <1>2, <1>3, <1>4, <2>1, FoundHere
  <2> QED
    BY <1>1, <2>2 DEF EndOf
<1>6. src' = src /\ pc' = pc /\ anchor' = anchor /\ level' = level /\ cur' = cur /\ last' = last
      /\ src \in Seq(U8)
  BY <1>2, SearchTypes DEF encoderVars
<1>7. PICK w : w = WayTo(c)
  OBVIOUS
<1>8. IsWay(w, p, at)
  <2>1. TableBehind /\ last \in Nat /\ ip \in Nat /\ c \in Nat /\ c <= last
    BY <1>1, <1>3, <1>4, TableIsBehind
  <2>2. IsWay(WayTo(c), ip, ip + c)
    BY <1>6, <2>1, WayToIs
  <2> QED
    BY <1>1, <1>3, <1>7, <2>2
<1>9. IsWay(Append(w, e), a, to)
  <2>1. IsWay(w, a, at) /\ a <= at /\ at <= e.ip
    BY <1>3, <1>4, <1>5, <1>8, WayFrom
  <2>2. IsWay(Append(w, e), a, EndOf(e))
    BY <1>3, <1>4, <1>5, <2>1, WayFurther
  <2> QED
    BY <1>5, <2>2
<1>10. PICK v : v = Append(w, e)
  OBVIOUS
<1>11. IsWay(v, a, to)'
  BY <1>6, <1>9, <1>10, WaySame
<1>12. elected' = v /\ anchor' = a /\ ip' = to
  BY <1>1, <1>2, <1>6, <1>7, <1>10
<1>13. IsWay(elected, anchor, ip)'
  BY <1>11, <1>12 DEF IsWay, EndOf
<1>14. v # <<>>
  <2>1. w \in Seq([ip : Nat, m : [offset : Nat, len : Nat]])
    BY <1>8 DEF IsWay
  <2> QED
    BY <1>10, <2>1
<1>15. FinderInv' /\ nextToUpdate' = nextToUpdate
  BY <1>2, FinderSame DEF finderVars
<1>16. to \in Nat /\ at <= to /\ a <= to
  BY <1>1, <1>3, <1>4, <1>5
<1>17. MaySearchAt(ip)'
  <2>1. PICK min : min = search.min
    OBVIOUS
  <2>2. nextToUpdate' <= START + to
    BY <1>3, <1>4, <1>15, <1>16, <2>1, SearchOn
  <2> QED
    BY <1>12, <2>2 DEF MaySearchAt, Index, START
<1>18. OptimalInv'
  <2>1. cur \in Nat
    BY <1>1, <1>4
  <2> QED
    BY <1>2, <1>3, <1>6, <1>12, <1>13, <1>14, <1>16, <1>17, <2>1 DEF OptimalInv
<1>19. anchor' \in Nat
  BY <1>3, <1>12
<1> QED
  BY <1>2, <1>6, <1>15, <1>18, <1>19 DEF HcInv

LEMMA OptimalElect ==
  ASSUME OptimalHere, Elect
  PROVE  HcInv'
<1>1. PICK p, a, l, w, to :
        p = ip /\ a = anchor /\ l = last /\ w = WayTo(last) /\ to = p + l
  OBVIOUS
<1>2. /\ FinderInv /\ OptimalInv /\ step = "further"
      /\ elected' = w /\ ip' = to /\ step' = IF w = <<>> THEN "main" ELSE "encode"
      /\ UNCHANGED <<src, level, finderVars, encoderVars, opt, last, cur>>
      /\ pc = "parse" => anchor \in Nat
      /\ level.strat # "lz4hc"
  BY <1>1 DEF OptimalHere, HcInv, Elect
<1>3. /\ pc = "parse" /\ a \in Nat /\ p \in Nat /\ cur \in 1 .. l /\ l \in Nat
      /\ a <= p /\ TableOK /\ MaySearchAt(ip + cur)
  BY <1>1, <1>2 DEF OptimalInv
<1>4. src' = src /\ pc' = pc /\ anchor' = anchor /\ level' = level /\ cur' = cur /\ last' = last
      /\ src \in Seq(U8)
  BY <1>2, SearchTypes DEF encoderVars
<1>5. IsWay(w, a, to)
  <2>1. IsWay(WayTo(last), ip, ip + last)
    <3>1. TableBehind /\ last \in Nat /\ ip \in Nat /\ last <= last
      BY <1>1, <1>3, TableIsBehind
    <3>2. PICK k : k = last
      OBVIOUS
    <3>3. IsWay(WayTo(k), ip, ip + k)
      BY <1>4, <3>1, <3>2, WayToIs
    <3> QED
      BY <3>2, <3>3
  <2>2. IsWay(w, p, to)
    BY <1>1, <2>1
  <2> QED
    BY <1>3, <2>2, WayFrom
<1>6. elected' = w /\ anchor' = a /\ ip' = to
  BY <1>1, <1>2, <1>4
<1>7. IsWay(elected, anchor, ip)'
  <2>1. IsWay(w, a, to)'
    BY <1>4, <1>5, WaySame
  <2> QED
    BY <1>6, <2>1 DEF IsWay, EndOf
<1>8. FinderInv' /\ nextToUpdate' = nextToUpdate
  BY <1>2, FinderSame DEF finderVars
<1>9. to \in Nat /\ a <= to
  BY <1>1, <1>3
<1>10. MaySearchAt(ip)'
  <2>1. PICK at : at = ip + cur
    OBVIOUS
  <2>2. PICK c : c = cur
    OBVIOUS
  <2>3. at \in Nat /\ at <= to /\ MaySearchAt(at)
    <3>1. at = p + c /\ c \in 1 .. l
      BY <1>1, <1>3, <2>1, <2>2
    <3> QED
      BY <1>1, <1>3, <2>1, <3>1
  <2>4. nextToUpdate' <= START + to
    BY <1>2, <1>8, <1>9, <2>3, MayOn
  <2> QED
    BY <1>6, <2>4 DEF MaySearchAt, Index, START
<1>11. cur' \in Nat /\ last' \in Nat /\ step' \in {"main", "encode"}
       /\ (step' = "encode" => elected' # <<>>)
  BY <1>1, <1>2, <1>3, <1>4
<1>12. OptimalInv'
  BY <1>3, <1>6, <1>7, <1>9, <1>10, <1>11 DEF OptimalInv
<1>13. anchor' \in Nat
  BY <1>3, <1>6
<1> QED
  BY <1>2, <1>4, <1>8, <1>12, <1>13 DEF HcInv

(* Its first match.                                                        *)
LEMMA WayHead ==
  ASSUME NEW way, NEW from \in Int, NEW to \in Int, IsWay(way, from, to), way # <<>>
  PROVE  /\ IsMatch(Head(way)) /\ from <= Head(way).ip /\ EndOf(Head(way)) <= to
         /\ IsWay(Tail(way), EndOf(Head(way)), to)
         /\ Len(way) # 1 => Tail(way) # <<>>
<1> DEFINE R == [ip : Nat, m : [offset : Nat, len : Nat]]
<1>1. way \in Seq(R)
  BY DEF IsWay
<1> HIDE DEF R
<1>2. PICK e, rest : e = Head(way) /\ rest = Tail(way)
  OBVIOUS
<1>3. /\ e = way[1] /\ rest \in Seq(R) /\ Len(way) \in Nat \ {0} /\ Len(rest) = Len(way) - 1
      /\ \A k \in 1 .. Len(rest) : rest[k] = way[k + 1]
  BY <1>1, <1>2
<1>4. \A k \in 1 .. Len(way) : /\ IsMatch(way[k]) /\ from <= way[k].ip /\ EndOf(way[k]) <= to
                               /\ k > 1 => EndOf(way[k - 1]) <= way[k].ip
                               /\ way[k] \in R
  <2>1. \A k \in 1 .. Len(way) : way[k] \in R
    BY <1>1
  <2> QED
    BY <2>1 DEF IsWay
<1>5. IsMatch(e) /\ from <= e.ip /\ EndOf(e) <= to
  BY <1>3, <1>4
<1>6. ASSUME NEW k \in 1 .. Len(rest)
      PROVE  /\ IsMatch(rest[k]) /\ EndOf(e) <= rest[k].ip /\ EndOf(rest[k]) <= to
             /\ k > 1 => EndOf(rest[k - 1]) <= rest[k].ip
  <2>1. k + 1 \in 1 .. Len(way) /\ k \in 1 .. Len(way) /\ k + 1 > 1 /\ (k + 1) - 1 = k
    BY <1>3
  <2>2. rest[k] = way[k + 1]
    BY <1>3
  <2>3. IsMatch(rest[k]) /\ EndOf(rest[k]) <= to /\ EndOf(way[k]) <= rest[k].ip
    <3>1. PICK j : j = k + 1
      OBVIOUS
    <3>2. j \in 1 .. Len(way) /\ j > 1 /\ j - 1 = k /\ rest[k] = way[j]
      BY <2>1, <2>2, <3>1
    <3>3. IsMatch(way[j]) /\ EndOf(way[j]) <= to /\ EndOf(way[j - 1]) <= way[j].ip
      BY <1>4, <3>2
    <3> QED
      BY <3>2, <3>3
  <2>4. k > 1 => rest[k - 1] = way[k]
    <3>1. k > 1 => k - 1 \in 1 .. Len(rest) /\ (k - 1) + 1 = k
      BY <1>3
    <3> QED
      BY <1>3, <3>1
  <2>5. EndOf(e) <= rest[k].ip
    <3> DEFINE Bad == {j \in 1 .. Len(rest) : ~(EndOf(e) <= rest[j].ip)}
    <3>1. SUFFICES ASSUME Bad # {} PROVE FALSE
      OBVIOUS
    <3>2. PICK j \in Bad : \A i \in Bad : j <= i
      <4>1. Bad \subseteq Nat
        OBVIOUS
      <4> HIDE DEF Bad
      <4> QED
        BY <3>1, <4>1, LeastNatural
    <3>3. j \in 1 .. Len(rest)
      OBVIOUS
    <3>4. rest[j] = way[j + 1] /\ j + 1 \in 1 .. Len(way)
      BY <1>3, <3>3
    <3>5. EndOf(way[j]) <= rest[j].ip
      <4>1. PICK i : i = j + 1
        OBVIOUS
      <4>2. i \in 1 .. Len(way) /\ i > 1 /\ i - 1 = j /\ rest[j] = way[i]
        BY <3>3, <3>4, <4>1
      <4>3. EndOf(way[i - 1]) <= way[i].ip
        BY <1>4, <4>2
      <4> QED
        BY <4>2, <4>3
    <3>6. CASE j = 1
      BY <1>3, <3>2, <3>5, <3>6
    <3>7. CASE j # 1
      <4>1. PICK i : i = j - 1
        OBVIOUS
      <4>2. i \in 1 .. Len(rest) /\ i < j /\ rest[i] = way[j]
        <5>1. i \in 1 .. Len(rest) /\ i < j /\ i + 1 = j
          BY <1>3, <3>3, <3>7, <4>1
        <5> QED
          BY <1>3, <5>1
      <4>3. i \notin Bad
        BY <3>2, <3>3, <4>2
      <4>4. EndOf(e) <= way[j].ip
        BY <4>2, <4>3
      <4>5. PICK x, y, z, l : /\ x = EndOf(e) /\ y = way[j].ip /\ l = way[j].m.len
                              /\ z = rest[j].ip
        OBVIOUS
      <4>6. x \in Int /\ y \in Nat /\ l \in Nat /\ z \in Int
        <5>1. j \in 1 .. Len(way) /\ way[j] \in R /\ e \in R /\ rest[j] \in R
          BY <1>3, <1>4, <3>3, <3>4
        <5> QED
          BY <4>5, <5>1 DEF R, EndOf
      <4>7. x <= y /\ y + l <= z
        BY <3>5, <4>4, <4>5 DEF EndOf
      <4>8. x <= z
        BY <4>6, <4>7
      <4> QED
        BY <3>2, <4>5, <4>8
    <3> QED
      BY <3>6, <3>7
  <2> QED
    BY <2>3, <2>4, <2>5
<1>7. IsWay(rest, EndOf(e), to)
  BY <1>3, <1>6 DEF IsWay, R
<1>8. Len(way) # 1 => rest # <<>>
  <2>1. Len(way) # 1 => Len(rest) # 0
    BY <1>3
  <2> QED
    BY <1>3, <2>1
<1> QED
  BY <1>2, <1>5, <1>7, <1>8

LEMMA OptimalEncode ==
  ASSUME OptimalHere, Encode
  PROVE  HcInv'
<1>1. PICK e, p, a, way, rest, to :
        /\ e = Head(elected) /\ p = ip /\ a = anchor /\ way = elected /\ rest = Tail(elected)
        /\ to = EndOf(e)
  OBVIOUS
<1>2. /\ FinderInv /\ OptimalInv /\ step = "encode" /\ pc = "parse" /\ a \in Nat
      /\ Encoder!EncodeSequence(e.ip, e.m) \/ Encoder!Overflow(e.ip, e.m)
      /\ elected' = rest /\ step' = IF Len(way) = 1 THEN "main" ELSE "encode"
      /\ UNCHANGED <<level, finderVars, ip, opt, last, cur>>
      /\ level.strat # "lz4hc"
  BY <1>1 DEF OptimalHere, HcInv, Encode
<1>3. /\ p \in Nat /\ cur \in Nat /\ last \in Nat
      /\ a <= p /\ way # <<>> /\ IsWay(way, a, p) /\ MaySearchAt(p)
  BY <1>1, <1>2 DEF OptimalInv
<1>4. src' = src /\ (pc' = "parse" => anchor' = to)
  BY <1>1, <1>2, EncoderSteps DEF EndOf
<1>5. /\ IsMatch(e) /\ to <= p /\ IsWay(rest, to, p)
      /\ Len(way) # 1 => rest # <<>>
  BY <1>1, <1>2, <1>3, WayHead
<1>6. to \in Nat
  BY <1>1, <1>5 DEF IsMatch, EndOf
<1>7. FinderInv' /\ nextToUpdate' = nextToUpdate
  BY <1>2, <1>4, FinderSame DEF finderVars
<1>8. IsWay(rest, to, p)'
  BY <1>4, <1>5, WaySame
<1>9. pc' = "parse" => IsWay(elected, anchor, ip)'
  <2>1. ip' = p /\ elected' = rest
    BY <1>1, <1>2
  <2> QED
    BY <1>4, <1>8, <2>1 DEF IsWay, EndOf
<1>10. MaySearchAt(ip)'
  <2>1. nextToUpdate' <= START + p /\ ip' = p
    BY <1>1, <1>2, <1>3, <1>7 DEF MaySearchAt, Index
  <2> QED
    BY <2>1 DEF MaySearchAt, Index, START
<1>11. /\ step' \in {"main", "encode"} /\ (step' = "encode" => elected' # <<>>)
       /\ ip' \in Nat /\ cur' \in Nat /\ last' \in Nat /\ (pc' = "parse" => anchor' <= ip')
  BY <1>1, <1>2, <1>3, <1>4, <1>5
<1>12. OptimalInv'
  BY <1>9, <1>10, <1>11 DEF OptimalInv
<1> QED
  BY <1>2, <1>4, <1>6, <1>7, <1>12 DEF HcInv

LEMMA OptimalFinish ==
  ASSUME OptimalHere, Finish
  PROVE  HcInv'
<1>1. /\ FinderInv /\ OptimalInv /\ UNCHANGED <<level, finderVars, parserVars>>
      /\ level.strat # "lz4hc"
  BY DEF OptimalHere, HcInv, Finish
<1>2. /\ src' = src /\ pc' # "parse"
      /\ pc # "parse" \/ step = "main"
  BY DEF Finish, Encoder!ShortenSequence, Encoder!LastLiterals
<1>3. FinderInv'
  BY <1>1, <1>2, FinderSame
<1>4. step' = step /\ ip' = ip /\ cur' = cur /\ last' = last
  BY <1>1 DEF parserVars
<1>5. OptimalInv'
  BY <1>1, <1>2, <1>4 DEF OptimalInv
<1> QED
  BY <1>1, <1>2, <1>3, <1>5 DEF HcInv

LEMMA OptimalKeeps ==
  ASSUME HcInv, Optimal
  PROVE  HcInv'
<1>1. level.strat = "lz4opt" /\ Compress
  BY DEF Optimal
<1>2. level' = level
  <2>1. FindFirst \/ FindFurther \/ Search \/ NoMatch => level' = level
    BY DEF FindFirst, FindFurther, Search, NoMatch
  <2>2. EncodeAtOnce \/ SetPrices \/ Skip \/ NoImprovement => level' = level
    BY DEF EncodeAtOnce, SetPrices, Skip, NoImprovement
  <2>3. Improve => level' = level
    BY Zenon DEF Improve
  <2>4. TakeNow \/ Elect => level' = level
    BY DEF TakeNow, Elect
  <2>5. Encode \/ Finish => level' = level
    BY DEF Encode, Finish
  <2> QED
    BY <1>1, <2>1, <2>2, <2>3, <2>4, <2>5 DEF Compress
<1>3. OptimalHere
  BY <1>1, <1>2 DEF OptimalHere
<1> QED
  BY <1>1, <1>3, OptimalFindFirst, OptimalFindFurther, OptimalSearch, OptimalNoMatch,
     OptimalEncodeAtOnce, OptimalSetPrices, OptimalSkip, OptimalNoImprovement, OptimalImprove,
     OptimalTakeNow, OptimalElect, OptimalEncode, OptimalFinish DEF Compress
-----------------------------------------------------------------------------
(* The hash chain parser has the same finder and the same encoder.         *)
LEMMA SameFinder ==
  /\ HashChain!Searching <=> Searching
  /\ HashChain!Nothing <=> Nothing
  /\ HashChain!Found = Found
  /\ HashChain!FoundMatch = [ip |-> search.start, m |-> Found]
  /\ HashChain!third = [ip |-> search.start, m |-> Found]
  /\ HashChain!finderVars = finderVars
<1>1. HashChain!Searching <=> Searching
  BY DEF HashChain!Searching, Searching, HashChain!Lowest, Lowest, HashChain!START, START,
         HashChain!Index, Index
<1>5. HashChain!Nothing <=> Nothing
  BY DEF HashChain!Nothing, Nothing
<1>2. HashChain!Found = Found /\ HashChain!finderVars = finderVars
  BY DEF HashChain!Found, Found, HashChain!finderVars, finderVars
<1>3. HashChain!FoundMatch = [ip |-> search.start, m |-> Found]
  BY <1>2 DEF HashChain!FoundMatch
<1>4. HashChain!third = [ip |-> search.start, m |-> Found]
  BY <1>3 DEF HashChain!third
<1> QED
  BY <1>1, <1>2, <1>3, <1>4, <1>5

LEMMA SameInsert ==
  ASSUME NEW at
  PROVE  HashChain!Insert(at) <=> Insert(at)
<1>1. \A h, p : HashChain!New(h, p) = New(h, p)
  BY DEF HashChain!New, New, HashChain!Quad, Quad, HashChain!Index, Index, HashChain!START, START
<1>2. \A h, p : HashChain!Latest(h, p) = Latest(h, p)
  BY DEF HashChain!Latest, Latest, HashChain!New, New, HashChain!Quad, Quad,
         HashChain!Index, Index, HashChain!START, START, HashChain!Max, Max
<1>3. \A i : HashChain!Delta(i) = Delta(i)
  BY <1>2 DEF HashChain!Delta, Delta, HashChain!Quad, Quad, HashChain!START, START
<1>4. HashChain!Index(at) = Index(at)
  BY DEF HashChain!Index, Index, HashChain!START, START
<1>5. \A S : HashChain!Max(S) = Max(S)
  BY DEF HashChain!Max, Max
<1>6. [h \in Hashes |-> HashChain!Max({hashTable[h]} \cup HashChain!New(h, at))] =
        [h \in Hashes |-> Max({hashTable[h]} \cup New(h, at))]
  BY <1>1, <1>5
<1>7. UNION {HashChain!New(h, at) : h \in Hashes} = UNION {New(h, at) : h \in Hashes}
  BY <1>1
<1> DEFINE all == UNION {New(h, at) : h \in Hashes}
           entry(k) ==
             LET here == {i \in all : i % (DISTANCE_MAX + 1) = k}
             IN  IF here = {} THEN chainTable[k] ELSE HashChain!Delta(HashChain!Max(here))
           same(k) ==
             LET here == {i \in all : i % (DISTANCE_MAX + 1) = k}
             IN  IF here = {} THEN chainTable[k] ELSE Delta(Max(here))
<1>8. HashChain!Insert(at) <=>
        /\ hashTable' = [h \in Hashes |-> HashChain!Max({hashTable[h]} \cup HashChain!New(h, at))]
        /\ chainTable' = [k \in 0 .. DISTANCE_MAX |-> entry(k)]
        /\ nextToUpdate' = HashChain!Index(at)
  BY <1>7 DEF HashChain!Insert
<1>9. Insert(at) <=>
        /\ hashTable' = [h \in Hashes |-> Max({hashTable[h]} \cup New(h, at))]
        /\ chainTable' = [k \in 0 .. DISTANCE_MAX |-> same(k)]
        /\ nextToUpdate' = Index(at)
  BY DEF Insert
<1>10. \A k : entry(k) = same(k)
  BY <1>3, <1>5
<1> HIDE DEF entry, same
<1>11. [k \in 0 .. DISTANCE_MAX |-> entry(k)] = [k \in 0 .. DISTANCE_MAX |-> same(k)]
  BY <1>10
<1> QED
  BY <1>4, <1>6, <1>8, <1>9, <1>11

LEMMA SameFind ==
  ASSUME NEW at, NEW low, NEW min
  PROVE  HashChain!Find(at, low, min) <=> Find(at, low, min)
BY SameInsert DEF HashChain!Find, Find, HashChain!Quad, Quad

LEMMA SameLook == HashChain!Look <=> Look
<1>1. \A i : HashChain!Chain(i) = Chain(i) /\ HashChain!Index(i) = Index(i)
  BY DEF HashChain!Chain, Chain, HashChain!Index, Index, HashChain!START, START
<1>2. HashChain!START = START /\ HashChain!Lowest = Lowest /\ HashChain!LookBack = LookBack
      /\ HashChain!matchLimit = matchLimit /\ HashChain!ChainSwap = ChainSwap
      /\ HashChain!PatternAnalysis = PatternAnalysis
  BY DEF HashChain!START, START, HashChain!Lowest, Lowest, HashChain!LookBack, LookBack,
         HashChain!Index, Index, HashChain!matchLimit, matchLimit, HashChain!ChainSwap, ChainSwap,
         HashChain!PatternAnalysis, PatternAnalysis
<1>3. \A p, q : HashChain!Common(p, q) = Common(p, q) /\ HashChain!Before(p, q) = Before(p, q)
                /\ HashChain!Quad(p) = Quad(p)
  BY DEF HashChain!Common, Common, HashChain!Before, Before, HashChain!Quad, Quad,
         HashChain!Max, Max, HashChain!matchLimit, matchLimit, HashChain!LookBack, LookBack
<1>4. HashChain!Length = Length
  BY <1>2, <1>3 DEF HashChain!Length, Length
<1>5. HashChain!Compared = Compared
  BY <1>1, <1>2, <1>3, <1>4 DEF HashChain!Compared, Compared
<1>6. \A e : HashChain!BestChain(e) = BestChain(e)
  BY DEF HashChain!BestChain, BestChain, HashChain!Chain, Chain
<1>7. HashChain!ChainAhead = ChainAhead
  BY <1>5, <1>6 DEF HashChain!ChainAhead, ChainAhead
<1>8. HashChain!Swaps <=> Swaps
  BY <1>1, <1>2, <1>4, <1>5, <1>7 DEF HashChain!Swaps, Swaps
<1>9. HashChain!SwapChain <=> SwapChain
  BY <1>5, <1>7, <1>8, SameFinder DEF HashChain!SwapChain, SwapChain
<1>10. \A p : /\ HashChain!Forward(p) = Forward(p) /\ HashChain!Backward(p) = Backward(p)
              /\ HashChain!Repeats(p) <=> Repeats(p)
  BY DEF HashChain!Forward, Forward, HashChain!Backward, Backward, HashChain!Repeats, Repeats,
         HashChain!Max, Max, HashChain!matchLimit, matchLimit, HashChain!Lowest, Lowest,
         HashChain!Index, Index, HashChain!START, START
<1>11. HashChain!InPattern <=> InPattern
  BY <1>1, <1>2, <1>10 DEF HashChain!InPattern, InPattern
<1>12. HashChain!JumpInPattern <=> JumpInPattern
  <2>1. \A f, s, w : HashChain!Aligned(f, s, w) <=> Aligned(f, s, w)
    BY DEF HashChain!Aligned, Aligned
  <2> QED
    BY <1>1, <1>2, <1>5, <1>8, <1>10, <1>11, <2>1, SameFinder
    DEF HashChain!JumpInPattern, JumpInPattern
<1>13. HashChain!FollowChain <=> FollowChain
  BY <1>1, <1>5, <1>8, <1>11, SameFinder DEF HashChain!FollowChain, FollowChain
<1> QED
  BY <1>9, <1>12, <1>13 DEF HashChain!Look, Look

LEMMA SameParts ==
  ASSUME NEW p, NEW m
  PROVE  /\ HashChain!Encoder!FirstPart(p, m) = Encoder!FirstPart(p, m)
         /\ HashChain!Encoder!Sequence(p, m) = Encoder!Sequence(p, m)
         /\ \A op : HashChain!Encoder!CopyReach(p, op) = Encoder!CopyReach(p, op)
         /\ \A a, b : HashChain!Encoder!Farther(a, b) = Encoder!Farther(a, b)
<1>1. \A l : /\ HashChain!Encoder!ExtensionSize(l) = Encoder!ExtensionSize(l)
             /\ HashChain!Encoder!Extension(l) = Encoder!Extension(l)
  BY DEF HashChain!Encoder!ExtensionSize, Encoder!ExtensionSize,
         HashChain!Encoder!Extension, Encoder!Extension
<1>2. \A l, k : HashChain!Encoder!Token(l, k) = Encoder!Token(l, k)
  BY DEF HashChain!Encoder!Token, Encoder!Token, HashChain!Encoder!Short, Encoder!Short
<1>3. HashChain!Encoder!FirstPart(p, m) = Encoder!FirstPart(p, m)
  BY <1>1, <1>2 DEF HashChain!Encoder!FirstPart, Encoder!FirstPart, HashChain!Encoder!Literals,
                    Encoder!Literals
<1>4. HashChain!Encoder!Sequence(p, m) = Encoder!Sequence(p, m)
  BY <1>1, <1>3 DEF HashChain!Encoder!Sequence, Encoder!Sequence, HashChain!Encoder!LE16,
                    Encoder!LE16
<1>5. \A a, b : HashChain!Encoder!Farther(a, b) = Encoder!Farther(a, b)
  BY DEF HashChain!Encoder!Farther, Encoder!Farther
<1>6. \A a, b : HashChain!Encoder!Reached(a, b) = Encoder!Reached(a, b)
  BY <1>5 DEF HashChain!Encoder!Reached, Encoder!Reached
<1>7. \A op : HashChain!Encoder!CopyReach(p, op) = Encoder!CopyReach(p, op)
  BY <1>1, <1>6 DEF HashChain!Encoder!CopyReach, Encoder!CopyReach,
                    HashChain!Encoder!WildCopyEnd, Encoder!WildCopyEnd
<1> QED
  BY <1>3, <1>4, <1>5, <1>7

LEMMA SameFits ==
  ASSUME NEW p, NEW m
  PROVE  /\ HashChain!Encoder!Fits(p, m) <=> Encoder!Fits(p, m)
         /\ \A op, l : HashChain!Encoder!RoomForLiterals(op, l) <=> Encoder!RoomForLiterals(op, l)
<1>1. \A op, l : /\ HashChain!Encoder!RoomForLiterals(op, l) <=> Encoder!RoomForLiterals(op, l)
                 /\ HashChain!Encoder!RoomForMatch(op, l) <=> Encoder!RoomForMatch(op, l)
  BY DEF HashChain!Encoder!RoomForLiterals, Encoder!RoomForLiterals,
         HashChain!Encoder!RoomForMatch, Encoder!RoomForMatch, HashChain!Encoder!Oend, Encoder!Oend
<1> QED
  BY <1>1, SameParts DEF HashChain!Encoder!Fits, Encoder!Fits

LEMMA SameSequence ==
  ASSUME NEW p, NEW m
  PROVE  HashChain!Encoder!EncodeSequence(p, m) <=> Encoder!EncodeSequence(p, m)
BY SameParts, SameFits DEF HashChain!Encoder!EncodeSequence, Encoder!EncodeSequence

LEMMA SameOverflow ==
  ASSUME NEW p, NEW m
  PROVE  HashChain!Encoder!Overflow(p, m) <=> Encoder!Overflow(p, m)
<1> DEFINE one == [HashChain!Encoder!CopyReach(p, Len(out)) EXCEPT
                    !.dst = HashChain!Encoder!Farther(@,
                              Len(out \o HashChain!Encoder!FirstPart(p, m)) + 2)]
           two == [Encoder!CopyReach(p, Len(out)) EXCEPT
                    !.dst = Encoder!Farther(@, Len(out \o Encoder!FirstPart(p, m)) + 2)]
           room1 == HashChain!Encoder!RoomForLiterals(Len(out), p - anchor)
           room2 == Encoder!RoomForLiterals(Len(out), p - anchor)
<1>1. one = two
  <2>1. HashChain!Encoder!FirstPart(p, m) = Encoder!FirstPart(p, m)
    BY SameParts
  <2>2. HashChain!Encoder!CopyReach(p, Len(out)) = Encoder!CopyReach(p, Len(out))
    BY SameParts
  <2>3. \A a, b : HashChain!Encoder!Farther(a, b) = Encoder!Farther(a, b)
    BY SameParts
  <2> QED
    BY <2>1, <2>2, <2>3
<1>2. room1 <=> room2
  BY SameFits
<1>3. HashChain!Encoder!Overflow(p, m) <=>
        /\ pc = "parse"
        /\ IF limit = "fillOutput"
             THEN pc' = "overflow" /\ over' = [ip |-> p, m |-> m]
             ELSE pc' = "done" /\ over' = over
        /\ ~HashChain!Encoder!Fits(p, m)
        /\ reach' = IF room1 THEN one ELSE reach
        /\ UNCHANGED <<src, capacity, limit, anchor, out, consumed, result>>
  BY DEF HashChain!Encoder!Overflow
<1>4. Encoder!Overflow(p, m) <=>
        /\ pc = "parse"
        /\ IF limit = "fillOutput"
             THEN pc' = "overflow" /\ over' = [ip |-> p, m |-> m]
             ELSE pc' = "done" /\ over' = over
        /\ ~Encoder!Fits(p, m)
        /\ reach' = IF room2 THEN two ELSE reach
        /\ UNCHANGED <<src, capacity, limit, anchor, out, consumed, result>>
  BY DEF Encoder!Overflow
<1>5. HashChain!Encoder!Fits(p, m) <=> Encoder!Fits(p, m)
  BY SameFits
<1> HIDE DEF one, two, room1, room2
<1>6. (IF room1 THEN one ELSE reach) = (IF room2 THEN two ELSE reach)
  BY <1>1, <1>2
<1> QED
  BY <1>3, <1>4, <1>5, <1>6

LEMMA SameShorten == HashChain!Encoder!ShortenSequence <=> Encoder!ShortenSequence
<1>1. HashChain!Encoder!Shortened = Encoder!Shortened
  BY DEF HashChain!Encoder!Shortened, Encoder!Shortened, HashChain!Encoder!LiteralsCost,
         Encoder!LiteralsCost, HashChain!Encoder!Oend, Encoder!Oend, HashChain!Encoder!MaxMatch,
         Encoder!MaxMatch, HashChain!Encoder!WorthShortening, Encoder!WorthShortening
<1> QED
  BY <1>1, SameParts DEF HashChain!Encoder!ShortenSequence, Encoder!ShortenSequence

LEMMA SameLast == HashChain!Encoder!LastLiterals <=> Encoder!LastLiterals
<1>1. HashChain!Encoder!n = Encoder!n /\ HashChain!Encoder!LastRun = Encoder!LastRun
      /\ HashChain!Encoder!TooSmall = Encoder!TooSmall
  BY DEF HashChain!Encoder!n, Encoder!n, HashChain!Encoder!LastRun, Encoder!LastRun,
         HashChain!Encoder!TooSmall, Encoder!TooSmall, HashChain!Encoder!LiteralsCost,
         Encoder!LiteralsCost
<1>2. \A l : HashChain!Encoder!Extension(l) = Encoder!Extension(l)
  BY DEF HashChain!Encoder!ExtensionSize, Encoder!ExtensionSize,
         HashChain!Encoder!Extension, Encoder!Extension
<1>3. \A l, k : HashChain!Encoder!Token(l, k) = Encoder!Token(l, k)
  BY DEF HashChain!Encoder!Token, Encoder!Token, HashChain!Encoder!Short, Encoder!Short
<1>4. \A a, b : HashChain!Encoder!Reached(a, b) = Encoder!Reached(a, b)
  BY DEF HashChain!Encoder!Reached, Encoder!Reached, HashChain!Encoder!Farther, Encoder!Farther
<1>5. \A a, b : HashChain!Encoder!Literals(a, b) = Encoder!Literals(a, b)
  BY DEF HashChain!Encoder!Literals, Encoder!Literals
<1> QED
  BY <1>1, <1>2, <1>3, <1>4, <1>5 DEF HashChain!Encoder!LastLiterals, Encoder!LastLiterals

LEMMA ChainEncodes ==
  ASSUME NEW m, HashChain!Encode(m)
  PROVE  Encoder!EncodeSequence(ip, m) \/ Encoder!Overflow(ip, m)
BY SameSequence, SameOverflow DEF HashChain!Encode
-----------------------------------------------------------------------------
(* The hash chain parser.                                                  *)
ChainHere ==
  /\ HcInv /\ level.strat = "lz4hc"
  /\ UNCHANGED <<level, opt, last, cur, elected>>

(* What the first match, and the second one, has to be in the next state.  *)
LEMMA ToMain ==
  ASSUME ChainHere, FinderInv', src' = src, step' = "main", NEW p \in Nat, ip' = p,
         NEW a \in Nat, a <= p, pc' = "parse" => anchor' = a,
         nextToUpdate' <= START + p
  PROVE  HcInv'
<1>1. level'.strat = "lz4hc"
  BY DEF ChainHere
<1>2. MaySearchAt(ip)'
  BY DEF MaySearchAt, Index, START
<1>3. ChainInv'
  BY <1>2 DEF ChainInv
<1> QED
  BY <1>1, <1>3 DEF HcInv

LEMMA ToSearch2 ==
  ASSUME ChainHere, FinderInv', src' = src, step' = "search2",
         NEW e, NEW s, IsMatch(e), IsMatch(s), ip' = e.ip, m1' = e.m, skipped' = s,
         NEW a \in Nat, a <= s.ip, pc' = "parse" => anchor' = a,
         s.ip <= e.ip, e.ip <= s.ip + 2, s.m.len <= e.m.len,
         nextToUpdate' <= START + (EndOf(e) - 2)
  PROVE  HcInv'
<1>1. level'.strat = "lz4hc"
  BY DEF ChainHere
<1>2. e = [ip |-> e.ip, m |-> e.m] /\ e.ip \in Nat /\ s.ip \in Nat
  BY DEF IsMatch
<1>3. First' = e
  BY <1>2 DEF First
<1>4. IsMatch(e)' /\ IsMatch(s)'
  BY MatchSame
<1>5. a <= e.ip
  <2>1. PICK x, y : x = s.ip /\ y = e.ip
    OBVIOUS
  <2>2. a <= y
    BY <1>2, <2>1
  <2> QED
    BY <2>1, <2>2
<1>6. pc' = "parse" => WithSkipped'
  BY <1>3, <1>4 DEF WithSkipped
<1>7. MaySearchAt(EndOf(First) - 2)'
  BY <1>3 DEF MaySearchAt, Index, START, EndOf
<1>8. ChainInv'
  BY <1>2, <1>5, <1>6, <1>7 DEF ChainInv
<1> QED
  BY <1>1, <1>8 DEF HcInv

LEMMA ToSearch3 ==
  ASSUME ChainHere, FinderInv', src' = src, step' = "search3",
         NEW e, NEW s, IsMatch(e), IsMatch(s), ip' = e.ip, m1' = e.m, second' = s,
         NEW a \in Nat, a <= e.ip, pc' = "parse" => anchor' = a,
         EndOf(e) + MFLIMIT <= Len(src), s.ip <= EndOf(e) + 1,
         e.ip <= s.ip, s.m.len > 4, s.ip - e.ip + s.m.len >= 8,
         nextToUpdate' <= START + (EndOf(s) - 3)
  PROVE  HcInv'
<1>1. level'.strat = "lz4hc"
  BY DEF ChainHere
<1>2. e = [ip |-> e.ip, m |-> e.m] /\ e.ip \in Nat /\ s.ip \in Nat
  BY DEF IsMatch
<1>3. First' = e
  BY <1>2 DEF First
<1>4. IsMatch(e)' /\ IsMatch(s)'
  BY MatchSame
<1>5. pc' = "parse" => WithSecond'
  BY <1>3, <1>4 DEF WithSecond, EndOf
<1>6. Uncorrected'
  <2>1. MINMATCH = 4 /\ 2 * MINMATCH = 8
    BY HcNumbers
  <2> QED
    BY <2>1 DEF Uncorrected
<1>7. MaySearchAt(EndOf(second) - 3)'
  BY DEF MaySearchAt, Index, START, EndOf
<1>8. ChainInv'
  BY <1>2, <1>5, <1>6, <1>7 DEF ChainInv
<1> QED
  BY <1>1, <1>8 DEF HcInv
-----------------------------------------------------------------------------
LEMMA ChainFindFirst ==
  ASSUME ChainHere, HashChain!FindFirst
  PROVE  HcInv' /\ Finds
<1>1. PICK p, min : p = ip /\ min = MINMATCH - 1
  OBVIOUS
<1>2. /\ FinderInv /\ ChainInv /\ pc = "parse" /\ step = "main" /\ ~HashChain!AtEnd
      /\ Find(p, p, min) /\ step' = "first"
      /\ UNCHANGED <<ip, m1, skipped, second, HashChain!encoderVars>>
      /\ anchor \in Nat /\ level'.strat = "lz4hc" /\ level' = level
  BY <1>1, SameFind DEF ChainHere, HcInv, HashChain!FindFirst
<1>3. p \in Nat /\ MaySearchAt(p) /\ anchor <= p
  BY <1>1, <1>2 DEF ChainInv
<1>4. p + MFLIMIT <= Len(src) /\ min \in Nat \ {0} /\ p <= p /\ p - p < min
  <2>1. Len(src) \in Nat
    BY <1>2, SearchTypes
  <2> QED
    BY <1>1, <1>2, <1>3, <2>1, HcNumbers DEF HashChain!AtEnd, HashChain!mflimit, HashChain!n
<1>5. ip' = p /\ pc' = pc /\ anchor' = anchor /\ src' = src
  BY <1>1, <1>2 DEF HashChain!encoderVars
<1>6. FinderInv' /\ Asked(p, p, min)
  BY <1>2, <1>3, <1>4, <1>5, FindKeeps
<1>7. SearchedAt(ip, ip, MINMATCH - 1)'
  BY <1>1, <1>5, <1>6 DEF Asked, SearchedAt, Index, START
<1>8. ChainInv'
  BY <1>2, <1>3, <1>5, <1>7 DEF ChainInv
<1>9. Finds
  BY <1>2, <1>3, <1>4, FindsIs
<1> QED
  BY <1>2, <1>5, <1>6, <1>8, <1>9 DEF HcInv

LEMMA ChainSearch ==
  ASSUME ChainHere, HashChain!Search
  PROVE  HcInv'
<1>1. /\ FinderInv /\ ChainInv /\ step \in {"first", "second", "third"} /\ Look
      /\ UNCHANGED <<HashChain!chainVars, HashChain!encoderVars>>
      /\ level'.strat = "lz4hc" /\ level' = level
      /\ pc = "parse" => anchor \in Nat
  BY SameLook DEF ChainHere, HcInv, HashChain!Search
<1>2. /\ ip' = ip /\ m1' = m1 /\ skipped' = skipped /\ second' = second /\ step' = step
      /\ src' = src /\ pc' = pc /\ anchor' = anchor
  BY <1>1 DEF HashChain!chainVars, HashChain!encoderVars
<1>3. FinderInv' /\ SameCall(search') /\ nextToUpdate' = nextToUpdate
  BY <1>1, <1>2, LookKeeps
<1>4. pc = "parse" /\ anchor \in Nat /\ ip \in Nat /\ anchor <= ip
  BY <1>1 DEF ChainInv
<1>5. PICK e, s, x : e = First /\ s = second /\ x = skipped
  OBVIOUS
<1>6. First' = e /\ second' = s /\ skipped' = x
  BY <1>2, <1>5 DEF First
<1>7. /\ IsMatch(e)' <=> IsMatch(e)
      /\ IsMatch(s)' <=> IsMatch(s)
      /\ IsMatch(x)' <=> IsMatch(x)
  BY <1>2, MatchSame
<1>8. CASE step = "first"
  <2>1. SearchedAt(ip, ip, MINMATCH - 1)
    BY <1>1, <1>4, <1>8 DEF ChainInv
  <2>2. SearchedAt(ip, ip, MINMATCH - 1)'
    BY <1>2, <1>3, <2>1 DEF SearchedAt, SameCall, Index, START
  <2>3. ChainInv'
    BY <1>2, <1>4, <1>8, <2>2 DEF ChainInv
  <2> QED
    BY <1>1, <1>2, <1>3, <1>4, <2>3 DEF HcInv
<1>9. CASE step = "second"
  <2>1. /\ WithSkipped /\ EndOf(First) + MFLIMIT <= Len(src)
        /\ SearchedAt(EndOf(First) - 2, ip, m1.len)
    BY <1>1, <1>4, <1>9 DEF ChainInv
  <2>2. WithSkipped'
    BY <1>2, <1>5, <1>6, <1>7, <2>1 DEF WithSkipped
  <2>3. (EndOf(First) + MFLIMIT <= Len(src))'
    BY <1>2, <1>5, <1>6, <2>1 DEF EndOf
  <2>4. SearchedAt(EndOf(First) - 2, ip, m1.len)'
    BY <1>2, <1>3, <1>5, <1>6, <2>1 DEF SearchedAt, SameCall, Index, START, EndOf
  <2>5. ChainInv'
    BY <1>2, <1>4, <1>9, <2>2, <2>3, <2>4 DEF ChainInv
  <2> QED
    BY <1>1, <1>2, <1>3, <1>4, <2>5 DEF HcInv
<1>10. CASE step = "third"
  <2>1. /\ WithSecond /\ IsCorrected /\ EndOf(second) + MFLIMIT <= Len(src)
        /\ SearchedAt(EndOf(second) - 3, second.ip, second.m.len)
    BY <1>1, <1>4, <1>10 DEF ChainInv
  <2>2. WithSecond'
    BY <1>2, <1>5, <1>6, <1>7, <2>1 DEF WithSecond, EndOf
  <2>3. IsCorrected'
    BY <1>2, <1>5, <1>6, <2>1 DEF IsCorrected, EndOf
  <2>4. (EndOf(second) + MFLIMIT <= Len(src))'
    BY <1>2, <2>1 DEF EndOf
  <2>5. SearchedAt(EndOf(second) - 3, second.ip, second.m.len)'
    BY <1>2, <1>3, <2>1 DEF SearchedAt, SameCall, Index, START, EndOf
  <2>6. ChainInv'
    BY <1>2, <1>4, <1>10, <2>2, <2>3, <2>4, <2>5 DEF ChainInv
  <2> QED
    BY <1>1, <1>2, <1>3, <1>4, <2>6 DEF HcInv
<1> QED
  BY <1>1, <1>8, <1>9, <1>10

LEMMA ChainNoMatch ==
  ASSUME ChainHere, HashChain!NoMatch
  PROVE  HcInv'
<1>1. PICK p, a, to : p = ip /\ a = anchor /\ to = p + 1
  OBVIOUS
<1>8. /\ step = "first" /\ step' = "main" /\ ip' = to
      /\ UNCHANGED <<finderVars, HashChain!encoderVars>>
  BY <1>1 DEF HashChain!NoMatch, HashChain!finderVars, finderVars
<1>2. /\ FinderInv /\ ChainInv /\ step = "first" /\ step' = "main" /\ ip' = to
      /\ UNCHANGED <<finderVars, HashChain!encoderVars>> /\ level' = level
      /\ pc = "parse" => a \in Nat
  BY <1>1, <1>8 DEF ChainHere, HcInv
<1>3. /\ pc = "parse" /\ a \in Nat /\ p \in Nat /\ a <= p
      /\ SearchedAt(p, p, MINMATCH - 1)
  BY <1>1, <1>2 DEF ChainInv
<1>4. src' = src /\ anchor' = a
  BY <1>1, <1>2 DEF HashChain!encoderVars
<1>5. FinderInv' /\ nextToUpdate' = nextToUpdate
  BY <1>2, <1>4, FinderSame DEF finderVars
<1>6. to \in Nat /\ p <= to /\ a <= to
  BY <1>1, <1>3
<1>7. nextToUpdate' <= START + to
  BY <1>3, <1>5, <1>6, SearchOn
<1> QED
  BY <1>2, <1>3, <1>4, <1>5, <1>6, <1>7, ToMain

LEMMA ChainFirstMatch ==
  ASSUME ChainHere, HashChain!FirstMatch
  PROVE  HcInv'
<1>1. PICK p, a, e, len, to :
        /\ p = ip /\ a = anchor /\ e = [ip |-> p, m |-> Found] /\ len = Found.len
        /\ to = p + len - 2
  OBVIOUS
<1>12. /\ step = "first" /\ step' = "search2" /\ ip' = p
       /\ UNCHANGED <<finderVars, HashChain!encoderVars>>
  BY <1>1 DEF HashChain!FirstMatch, HashChain!finderVars, finderVars
<1>13. m1' = Found /\ skipped' = [ip |-> search.start, m |-> Found]
  <2>1. m1' = HashChain!Found /\ skipped' = HashChain!FoundMatch
    BY DEF HashChain!FirstMatch
  <2> QED
    BY <2>1, SameFinder
<1>14. ~Nothing
  BY SameFinder DEF HashChain!FirstMatch
<1>2. /\ FinderInv /\ ChainInv /\ level' = level
      /\ pc = "parse" => a \in Nat
  BY <1>1 DEF ChainHere, HcInv
<1>3. /\ pc = "parse" /\ a \in Nat /\ p \in Nat /\ a <= p
      /\ SearchedAt(p, p, MINMATCH - 1)
  BY <1>1, <1>2, <1>12 DEF ChainInv
<1>4. src' = src /\ anchor' = a
  BY <1>1, <1>12 DEF HashChain!encoderVars
<1>5. FinderInv' /\ nextToUpdate' = nextToUpdate
  BY <1>2, <1>12, <1>4, FinderSame DEF finderVars
<1>6. IsMatch(e) /\ len \in Nat /\ len >= 4
  <2>1. PICK min : min = MINMATCH - 1
    OBVIOUS
  <2> QED
    BY <1>1, <1>2, <1>3, <1>14, <2>1, FoundHere
<1>7. skipped' = e
  <2>1. PICK st : st = search.start
    OBVIOUS
  <2>2. st \in Nat /\ p <= st /\ st <= p
    BY <1>2, <1>3, <1>14, <2>1, FoundIs DEF SearchedAt
  <2>3. st = p
    BY <1>3, <2>2
  <2> QED
    BY <1>1, <1>13, <2>1, <2>3
<1>8. to \in Nat /\ p <= to
  BY <1>1, <1>3, <1>6
<1>9. nextToUpdate' <= START + to
  BY <1>3, <1>5, <1>8, SearchOn
<1>10. e.ip = p /\ e.m = Found /\ EndOf(e) - 2 = to /\ p <= p + 2 /\ e.m.len <= e.m.len
  <2>1. e.ip = p /\ e.m = Found /\ EndOf(e) = p + len
    BY <1>1 DEF EndOf
  <2>2. (p + len) - 2 = to /\ len <= len
    BY <1>1, <1>3, <1>6
  <2> QED
    BY <1>1, <1>3, <2>1, <2>2
<1>11. a <= e.ip /\ e.ip <= e.ip /\ e.ip <= e.ip + 2
  BY <1>3, <1>10
<1> QED
  BY <1>1, <1>2, <1>12, <1>13, <1>3, <1>4, <1>5, <1>6, <1>7, <1>9, <1>10, <1>11, ToSearch2

LEMMA MatchNumbers ==
  ASSUME src \in Seq(U8), NEW e, IsMatch(e)
  PROVE  /\ e.ip \in Nat /\ e.m.len \in Nat /\ e.m.len >= 4
         /\ e = [ip |-> e.ip, m |-> e.m] /\ Len(src) \in Nat
<1>1. e \in [ip : Nat, m : [offset : Nat, len : Nat]] /\ Copies(e.ip, e.m.offset, e.m.len)
  BY IsMatchIs DEF IsMatch
<1> QED
  BY <1>1 DEF Copies

LEMMA ChainFindSecond ==
  ASSUME ChainHere, HashChain!FindSecond
  PROVE  HcInv' /\ Finds
<1>1. PICK p, a, e, x, len, at :
        /\ p = ip /\ a = anchor /\ e = First /\ x = skipped /\ len = m1.len
        /\ at = (p + len) - 2
  OBVIOUS
<1>2. /\ pc = "parse" /\ step = "search2" /\ step' = "second"
      /\ HashChain!End1 <= HashChain!mflimit /\ Find(at, p, len)
      /\ UNCHANGED <<ip, m1, skipped, second, HashChain!encoderVars>>
  BY <1>1, SameFind DEF HashChain!FindSecond, HashChain!End1
<1>3. /\ FinderInv /\ ChainInv /\ level' = level /\ level.strat = "lz4hc" /\ a \in Nat
      /\ src \in Seq(U8)
  BY <1>1, <1>2, SearchTypes DEF ChainHere, HcInv
<1>4. WithSkipped /\ MaySearchAt(EndOf(First) - 2)
  BY <1>2, <1>3 DEF ChainInv
<1>5. /\ ip' = p /\ m1' = m1 /\ skipped' = x /\ src' = src /\ pc' = pc /\ anchor' = a
      /\ First' = e
  BY <1>1, <1>2 DEF HashChain!encoderVars, First
<1>6. IsMatch(e) /\ IsMatch(x) /\ a <= p
  BY <1>1, <1>2, <1>3, <1>4 DEF WithSkipped, ChainInv
<1>7. /\ e.ip = p /\ e.m = m1 /\ EndOf(e) = p + len
      /\ p \in Nat /\ len \in Nat /\ len >= 4 /\ Len(src) \in Nat
  <2>1. e.ip = p /\ e.m = m1
    BY <1>1 DEF First
  <2> QED
    BY <1>1, <1>3, <1>6, <2>1, MatchNumbers DEF EndOf
<1>8. p + len + MFLIMIT <= Len(src)
  <2>1. p + len <= Len(src) - MFLIMIT
    BY <1>1, <1>2 DEF HashChain!End1, HashChain!mflimit, HashChain!n
  <2> QED
    BY <1>7, <2>1, HcNumbers
<1>9. /\ at \in Nat /\ p <= at /\ at - p < len /\ at + MFLIMIT <= Len(src)
      /\ MaySearchAt(at) /\ len \in Nat \ {0}
  <2>3. at = (p + len) - 2 /\ p \in Nat /\ len \in Nat /\ len >= 4
    BY <1>1, <1>7
  <2>4. at \in Nat /\ p <= at /\ at - p < len /\ len \in Nat \ {0} /\ at <= p + len
    BY <2>3
  <2>1. at \in Nat /\ p <= at /\ at - p < len /\ at + MFLIMIT <= Len(src) /\ len \in Nat \ {0}
    BY <1>7, <1>8, <2>4, HcNumbers
  <2>2. MaySearchAt(at)
    BY <1>1, <1>4, <1>7
  <2> QED
    BY <2>1, <2>2
<1>10. FinderInv' /\ Asked(at, p, len)
  BY <1>2, <1>3, <1>5, <1>7, <1>9, FindKeeps
<1>11. SearchedAt(EndOf(First) - 2, ip, m1.len)'
  <2>1. SearchedAt(at, p, len)'
    BY <1>10 DEF Asked, SearchedAt, Index, START
  <2>2. (EndOf(First) - 2)' = at /\ m1'.len = len
    BY <1>1, <1>5, <1>7 DEF EndOf
  <2> QED
    BY <1>5, <2>1, <2>2 DEF SearchedAt, Index, START
<1>12. WithSkipped'
  BY <1>1, <1>4, <1>5, <1>6, MatchSame DEF WithSkipped
<1>13. (EndOf(First) + MFLIMIT <= Len(src))'
  BY <1>5, <1>7, <1>8 DEF EndOf
<1>14. ChainInv'
  BY <1>2, <1>3, <1>5, <1>6, <1>7, <1>11, <1>12, <1>13 DEF ChainInv
<1>15. Finds
  <2>1. ~ChainSwap
    BY <1>3 DEF ChainSwap
  <2> QED
    BY <1>2, <1>7, <1>9, <2>1, FindsIs
<1> QED
  BY <1>3, <1>5, <1>10, <1>14, <1>15 DEF HcInv

(* What is encoded is a match behind the last one: a step of the encoder.  *)
LEMMA IsEncoded ==
  ASSUME FinderInv, anchor \in Nat, NEW e, IsMatch(e), anchor <= e.ip,
         Encoder!EncodeSequence(e.ip, e.m) \/ Encoder!Overflow(e.ip, e.m)
  PROVE  Encoder!Next
<1>1. src \in Seq(U8) /\ Len(src) \in Nat
  BY SearchTypes
<1>2. e.ip \in Nat /\ e.ip + MFLIMIT <= Len(src) /\ e.m \in Encoder!Matches(e.ip)
  BY <1>1, IsMatchIs
<1>3. e.ip \in anchor .. Encoder!n - MFLIMIT
  <2>1. PICK p, a : p = e.ip /\ a = anchor
    OBVIOUS
  <2>2. p \in a .. Len(src) - MFLIMIT
    BY <1>1, <1>2, <2>1, HcNumbers
  <2> QED
    BY <2>1, <2>2 DEF Encoder!n
<1> QED
  BY <1>2, <1>3 DEF Encoder!Next

LEMMA ChainEncodeOne ==
  ASSUME ChainHere, HashChain!EncodeOne
  PROVE  HcInv' /\ Encoder!Next
<1>1. PICK p, a, e, len, to :
        /\ p = ip /\ a = anchor /\ e = First /\ len = m1.len /\ to = p + len
  OBVIOUS
<1>2. /\ pc = "parse" /\ step' = "main" /\ ip' = to
      /\ step \in {"one", "search2", "second"}
      /\ UNCHANGED finderVars
  BY <1>1 DEF HashChain!EncodeOne, HashChain!End1, HashChain!finderVars, finderVars
<1>3. /\ FinderInv /\ ChainInv /\ level' = level /\ level.strat = "lz4hc" /\ a \in Nat
      /\ src \in Seq(U8)
  BY <1>1, <1>2, SearchTypes DEF ChainHere, HcInv
<1>4. src' = src /\ (pc' = "parse" => anchor' = to)
  <2>1. HashChain!Encode(m1)
    BY DEF HashChain!EncodeOne
  <2> QED
    BY <1>1, <2>1, ChainEncodes, EncoderSteps
<1>5. IsMatch(e) /\ p \in Nat /\ a <= p
  BY <1>1, <1>2, <1>3 DEF ChainInv, WithSkipped
<1>6. EndOf(e) = to /\ len \in Nat /\ len >= 4 /\ to \in Nat
  <2>1. e.ip = p /\ e.m = m1
    BY <1>1 DEF First
  <2> QED
    BY <1>1, <1>3, <1>5, <2>1, MatchNumbers DEF EndOf
<1>7. FinderInv' /\ nextToUpdate' = nextToUpdate
  BY <1>2, <1>3, <1>4, FinderSame DEF finderVars
<1>8. nextToUpdate <= START + to
  <2>1. PICK b : b = to - 2
    OBVIOUS
  <2>2. nextToUpdate \in Nat /\ START \in Nat
    BY <1>3, HcNumbers DEF FinderInv, FinderTypeOK
  <2>3. step = "search2" => nextToUpdate <= START + b
    BY <1>1, <1>2, <1>3, <1>6, <2>1 DEF ChainInv, MaySearchAt, Index
  <2>4. step = "second" => nextToUpdate = START + b
    BY <1>1, <1>2, <1>3, <1>6, <2>1 DEF ChainInv, SearchedAt, Index
  <2>5. step = "one" => nextToUpdate <= START + to
    BY <1>1, <1>2, <1>3, <1>6 DEF ChainInv, MaySearchAt, Index
  <2> QED
    BY <1>2, <1>6, <2>1, <2>2, <2>3, <2>4, <2>5
<1>9. nextToUpdate' <= START + to /\ to <= to
  BY <1>6, <1>7, <1>8
<1>10. HcInv'
  BY <1>2, <1>4, <1>6, <1>7, <1>9, ToMain
<1>11. Encoder!Next
  <2>1. Encoder!EncodeSequence(e.ip, e.m) \/ Encoder!Overflow(e.ip, e.m)
    <3>1. HashChain!Encode(m1)
      BY DEF HashChain!EncodeOne
    <3>2. e.ip = ip /\ e.m = m1
      BY <1>1 DEF First
    <3> QED
      BY <3>1, <3>2, ChainEncodes
  <2>2. anchor \in Nat /\ anchor <= e.ip
    BY <1>1, <1>3, <1>5 DEF First
  <2> QED
    BY <1>3, <1>5, <2>1, <2>2, IsEncoded
<1> QED
  BY <1>10, <1>11

(* The step that follows a search that has found a match.                  *)
LEMMA FoundNumbers ==
  ASSUME FinderInv, ~Nothing, NEW f, f = [ip |-> search.start, m |-> Found],
         NEW at, NEW low, NEW min, SearchedAt(at, low, min)
  PROVE  /\ IsMatch(f) /\ f.ip \in Nat /\ f.m.len \in Nat /\ f.m = Found
         /\ low <= f.ip /\ f.ip <= at /\ f.ip + f.m.len >= at + 4 /\ f.m.len > min
<1>1. f.ip = search.start /\ f.m = Found
  OBVIOUS
<1>2. search.at = at /\ search.low = low /\ search.min = min
  BY DEF SearchedAt
<1> QED
  BY <1>1, <1>2, FoundIs

LEMMA ChainSecondMatch ==
  ASSUME ChainHere, HashChain!SecondMatch
  PROVE  HcInv'
<1>1. PICK p, a, e, x, f, len, at, r :
        /\ p = ip /\ a = anchor /\ e = First /\ x = skipped /\ len = m1.len
        /\ f = [ip |-> search.start, m |-> Found]
        /\ at = (p + len) - 2 /\ r = HashChain!Restored
  OBVIOUS
<1>2. ~Nothing /\ step = "second" /\ UNCHANGED <<skipped, finderVars, HashChain!encoderVars>>
  <2>1. ~Nothing
    BY SameFinder DEF HashChain!SecondMatch
  <2>2. step = "second" /\ UNCHANGED <<skipped, finderVars, HashChain!encoderVars>>
    BY DEF HashChain!SecondMatch, HashChain!finderVars, finderVars
  <2> QED
    BY <2>1, <2>2
<1>3. IF f.ip - r.ip < 3
        THEN ip' = f.ip /\ m1' = f.m /\ step' = "search2"
        ELSE ip' = r.ip /\ m1' = r.m /\ step' = "search3" /\ second' = f
  <2>1. HashChain!FoundMatch = f /\ HashChain!Found = f.m
    BY <1>1, SameFinder
  <2> QED
    BY <1>1, <2>1 DEF HashChain!SecondMatch
<1>4. r = IF x.ip < p /\ f.ip < p + x.m.len THEN x ELSE e
  <2>1. HashChain!FoundMatch = f
    BY <1>1, SameFinder
  <2> QED
    BY <1>1, <2>1 DEF HashChain!Restored, HashChain!Squeezed, First
<1>5. /\ FinderInv /\ ChainInv /\ level' = level /\ level.strat = "lz4hc" /\ pc = "parse"
      /\ a \in Nat /\ p \in Nat /\ src \in Seq(U8)
  BY <1>1, <1>2, SearchTypes DEF ChainHere, HcInv, ChainInv
<1>6. /\ WithSkipped /\ EndOf(First) + MFLIMIT <= Len(src)
      /\ SearchedAt(EndOf(First) - 2, ip, m1.len)
  BY <1>2, <1>5 DEF ChainInv
<1>7. src' = src /\ anchor' = a /\ skipped' = x
  BY <1>1, <1>2 DEF HashChain!encoderVars
<1>8. FinderInv' /\ nextToUpdate' = nextToUpdate
  BY <1>2, <1>5, <1>7, FinderSame DEF finderVars
<1>9. /\ IsMatch(e) /\ IsMatch(x)
      /\ a <= x.ip /\ x.ip <= p /\ p <= x.ip + 2 /\ x.m.len <= len
  BY <1>1, <1>6 DEF WithSkipped
<1>10. e.ip = p /\ e.m.len = len /\ EndOf(e) = p + len
  BY <1>1 DEF First, EndOf
<1>11. SearchedAt(at, p, len) /\ (p + len) + MFLIMIT <= Len(src)
  BY <1>1, <1>6, <1>10
<1>12. /\ IsMatch(f) /\ p <= f.ip /\ f.ip <= at /\ f.ip + f.m.len >= at + 4 /\ f.m.len > len
  BY <1>1, <1>2, <1>5, <1>11, FoundNumbers
<1>13. PICK fp, fl, xp, xl, rp, rl :
         /\ fp = f.ip /\ fl = f.m.len /\ xp = x.ip /\ xl = x.m.len /\ rp = r.ip /\ rl = r.m.len
  OBVIOUS
<1>14. /\ fp \in Nat /\ fl \in Nat /\ xp \in Nat /\ xl \in Nat /\ len \in Nat
       /\ len >= 4 /\ xl >= 4 /\ Len(src) \in Nat
  BY <1>5, <1>9, <1>10, <1>12, <1>13, MatchNumbers
<1>15. /\ a <= xp /\ xp <= p /\ p <= xp + 2 /\ xl <= len
       /\ p <= fp /\ fp <= at /\ fp + fl >= at + 4 /\ fl > len
       /\ at = (p + len) - 2 /\ at \in Nat
  <2>1. at = (p + len) - 2
    BY <1>1
  <2>2. at \in Nat
    BY <1>5, <1>14, <2>1
  <2> QED
    BY <1>9, <1>12, <1>13, <2>1, <2>2
<1>16. nextToUpdate' = START + at
  BY <1>8, <1>11 DEF SearchedAt, Index
<1>17. EndOf(f) = fp + fl /\ EndOf(x) = xp + xl /\ EndOf(r) = rp + rl
  BY <1>13 DEF EndOf
<1>18. CASE f.ip - r.ip < 3
  <2>1. ip' = f.ip /\ m1' = f.m /\ step' = "search2" /\ fp - rp < 3
    BY <1>3, <1>13, <1>18
  <2>2. fp <= xp + 2
    <3>1. CASE xp < p /\ fp < p + xl
      <4>1. r = x /\ rp = xp
        BY <1>4, <1>13, <3>1
      <4> QED
        BY <1>14, <2>1, <4>1
    <3>2. CASE ~(xp < p /\ fp < p + xl)
      <4>1. r = e /\ rp = p
        BY <1>4, <1>10, <1>13, <3>2
      <4>2. fp < p + 3
        BY <1>5, <1>14, <2>1, <4>1
      <4>3. ~(xp < p)
        BY <1>5, <1>14, <3>2, <4>2
      <4> QED
        BY <1>5, <1>14, <1>15, <4>2, <4>3
    <3> QED
      BY <3>1, <3>2
  <2>3. xp <= fp /\ xl <= fl
    BY <1>5, <1>14, <1>15
  <2>4. nextToUpdate' <= START + ((fp + fl) - 2)
    <3>1. at <= (fp + fl) - 2 /\ (fp + fl) - 2 \in Int
      BY <1>14, <1>15
    <3> QED
      BY <1>15, <1>16, <3>1, HcNumbers
  <2>5. /\ a <= x.ip /\ x.ip <= f.ip /\ f.ip <= x.ip + 2 /\ x.m.len <= f.m.len
        /\ nextToUpdate' <= START + (EndOf(f) - 2)
    BY <1>13, <1>15, <1>17, <2>2, <2>3, <2>4
  <2> QED
    BY <1>5, <1>7, <1>8, <1>9, <1>12, <2>1, <2>5, ToSearch2
<1>19. CASE ~(f.ip - r.ip < 3)
  <2>1. ip' = r.ip /\ m1' = r.m /\ step' = "search3" /\ second' = f /\ ~(fp - rp < 3)
    BY <1>3, <1>13, <1>19
  <2>2. /\ IsMatch(r) /\ rp \in Nat /\ rl \in Nat /\ a <= rp /\ rp <= fp
        /\ rp + rl <= p + len /\ fp <= (rp + rl) + 1
    <3>1. CASE xp < p /\ fp < p + xl
      <4>1. r = x /\ rp = xp /\ rl = xl
        BY <1>4, <1>13, <3>1
      <4> QED
        BY <1>5, <1>9, <1>14, <1>15, <3>1, <4>1
    <3>2. CASE ~(xp < p /\ fp < p + xl)
      <4>1. r = e /\ rp = p /\ rl = len
        BY <1>4, <1>10, <1>13, <3>2
      <4> QED
        BY <1>5, <1>9, <1>14, <1>15, <4>1
    <3> QED
      BY <3>1, <3>2
  <2>3. (rp + rl) + MFLIMIT <= Len(src)
    BY <1>5, <1>11, <1>14, <2>2, HcNumbers
  <2>4. fl > 4 /\ (fp - rp) + fl >= 8
    BY <1>14, <1>15, <2>1, <2>2
  <2>5. nextToUpdate' <= START + ((fp + fl) - 3)
    <3>1. at <= (fp + fl) - 3 /\ (fp + fl) - 3 \in Int
      BY <1>14, <1>15
    <3> QED
      BY <1>15, <1>16, <3>1, HcNumbers
  <2>6. /\ a <= r.ip /\ EndOf(r) + MFLIMIT <= Len(src) /\ f.ip <= EndOf(r) + 1 /\ r.ip <= f.ip
        /\ f.m.len > 4 /\ f.ip - r.ip + f.m.len >= 8
        /\ nextToUpdate' <= START + (EndOf(f) - 3)
    BY <1>13, <1>17, <2>2, <2>3, <2>4, <2>5
  <2> QED
    BY <1>5, <1>7, <1>8, <1>12, <2>1, <2>2, <2>6, ToSearch3
<1> QED
  BY <1>18, <1>19
-----------------------------------------------------------------------------
(* How the first two matches are shortened.                                *)
LEMMA LeastOfThree ==
  ASSUME NEW x \in Int, NEW y \in Int, NEW z \in Int, NEW least,
         least = HashChain!Min({x, y, z})
  PROVE  least \in {x, y, z} /\ least <= x /\ least <= y /\ least <= z
<1> DEFINE S == {x, y, z}
<1>1. \E l \in S : \A k \in S : l <= k
  <2>1. CASE x <= y /\ x <= z
    BY <2>1
  <2>2. CASE y <= x /\ y <= z
    BY <2>2
  <2>3. CASE z <= x /\ z <= y
    BY <2>3
  <2> QED
    BY <2>1, <2>2, <2>3
<1>2. HashChain!Min(S) = CHOOSE l \in S : \A k \in S : l <= k
  BY DEF HashChain!Min
<1>3. HashChain!Min(S) \in S /\ \A k \in S : HashChain!Min(S) <= k
  <2> HIDE DEF S
  <2> QED
    BY <1>1, <1>2
<1> QED
  BY <1>3

(* The second match, or what the first one leaves of it: it ends where it  *)
(* ended, and both are long enough.                                        *)
LEMMA CorrectedIs ==
  ASSUME src \in Seq(U8), IsMatch(First), IsMatch(second),
         EndOf(First) + MFLIMIT <= Len(src),
         ip <= second.ip, second.ip - ip + second.m.len >= 8,
         NEW c, c = HashChain!Corrected, NEW l, l = HashChain!NewLength
  PROVE  /\ l \in Nat /\ l >= 4 /\ l <= m1.len
         /\ IsMatch(c) /\ EndOf(c) = EndOf(second)
         /\ \/ /\ c = second
               /\ second.ip - ip < HashChain!OPTIMAL_ML => l <= second.ip - ip
               /\ ip + 4 <= second.ip
            \/ /\ second.ip - ip < HashChain!OPTIMAL_ML
               /\ c.ip = ip + l
<1>1. PICK p, s, sp, sl, len, d, opt1 :
        /\ p = ip /\ s = second /\ sp = s.ip /\ sl = s.m.len /\ len = m1.len
        /\ d = sp - p /\ opt1 = HashChain!OPTIMAL_ML
  OBVIOUS
<1>2. First.ip = p /\ First.m.len = len
  BY <1>1 DEF First
<1>3. /\ p \in Nat /\ sp \in Nat /\ sl \in Nat /\ len \in Nat /\ len >= 4 /\ sl >= 4
      /\ Len(src) \in Nat
  BY <1>1, <1>2, MatchNumbers
<1>4. /\ p <= sp /\ (sp - p) + sl >= 8
      /\ (p + len) + MFLIMIT <= Len(src) /\ MFLIMIT \in Nat
  BY <1>1, <1>2, HcNumbers DEF EndOf
<1>5. d \in Nat /\ d + sl >= 8 /\ sp = p + d
  <2>1. d = sp - p
    BY <1>1
  <2> QED
    BY <1>3, <1>4, <2>1
<1>6. opt1 \in Int /\ opt1 >= 4
  BY <1>1, HcNumbers, Lz4Assumption DEF HashChain!OPTIMAL_ML
<1>7. l = HashChain!Min({len, opt1, (d + sl) - 4})
  <2>1. MINMATCH = 4
    BY HcNumbers
  <2>2. l = HashChain!Min({len, opt1, d + (sl - 4)})
    BY <1>1, <2>1 DEF HashChain!NewLength
  <2>3. d + (sl - 4) = (d + sl) - 4
    BY <1>3, <1>5
  <2> QED
    BY <2>2, <2>3
<1>8. l \in Nat /\ l >= 4 /\ l <= len /\ l + 4 <= d + sl
  <2> DEFINE z == (d + sl) - 4
  <2>1. z \in Int /\ z >= 4 /\ z + 4 = d + sl
    BY <1>3, <1>5
  <2>3. l = HashChain!Min({len, opt1, z})
    BY <1>7
  <2> HIDE DEF z
  <2>2. l \in {len, opt1, z} /\ l <= len /\ l <= opt1 /\ l <= z
    <3>1. len \in Int
      BY <1>3
    <3> QED
      BY <1>6, <2>1, <2>3, <3>1, LeastOfThree
  <2> QED
    BY <1>3, <1>5, <1>6, <2>1, <2>2
<1> DEFINE k == l - d
<1>9. c = IF d < opt1 /\ k > 0 THEN HashChain!From(s, k) ELSE s
  BY <1>1 DEF HashChain!Corrected
<1>10. CASE d < opt1 /\ k > 0
  <2>1. k \in Nat /\ k + 4 <= sl /\ sp + k = p + l
    BY <1>3, <1>5, <1>8, <1>10
  <2> HIDE DEF k
  <2>2. c = [ip |-> sp + k, m |-> [s.m EXCEPT !.len = sl - k]]
    BY <1>1, <1>9, <1>10 DEF HashChain!From
  <2>3. s.m = [offset |-> s.m.offset, len |-> sl]
    BY <1>1, IsMatchIs
  <2>4. c = MatchAt(sp + k, s.m.offset, sl - k)
    BY <2>2, <2>3 DEF MatchAt
  <2>5. sp + k + MFLIMIT <= Len(src)
    BY <1>3, <1>4, <1>8, <2>1
  <2>6. s.m.len = sl /\ s.ip = sp /\ IsMatch(s)
    BY <1>1
  <2>7. IsMatch(c)
    BY <2>1, <2>4, <2>5, <2>6, LastPartIsMatch
  <2>8. EndOf(c) = sp + sl /\ c.ip = p + l
    <3>1. c.ip = sp + k /\ c.m.len = sl - k
      BY <2>4 DEF MatchAt
    <3>2. (sp + k) + (sl - k) = sp + sl
      BY <1>3, <2>1
    <3> QED
      BY <2>1, <3>1, <3>2 DEF EndOf
  <2> QED
    BY <1>1, <1>8, <1>10, <2>7, <2>8 DEF EndOf
<1>11. CASE ~(d < opt1 /\ k > 0)
  <2>1. c = s
    BY <1>9, <1>11
  <2>2. d < opt1 => l <= d
    BY <1>5, <1>8, <1>11
  <2>3. p + 4 <= sp
    BY <1>3, <1>5, <1>6, <1>8, <2>2
  <2> QED
    BY <1>1, <1>8, <2>1, <2>2, <2>3
<1> QED
  BY <1>10, <1>11

(* The corrected second match takes the place of the second one.           *)
LEMMA CorrectedPlace ==
  ASSUME FinderInv, WithSecond, Uncorrected, NEW c, c = HashChain!Corrected
  PROVE  /\ IsMatch(c) /\ EndOf(c) = EndOf(second)
         /\ ip + 4 <= c.ip /\ c.ip <= EndOf(First) + 1
         /\ c.ip > EndOf(First) => c.m.len > 4
<1>1. /\ src \in Seq(U8) /\ IsMatch(First) /\ IsMatch(second)
      /\ EndOf(First) + MFLIMIT <= Len(src) /\ second.ip <= EndOf(First) + 1
  BY SearchTypes DEF WithSecond
<1>2. /\ ip <= second.ip /\ second.m.len > 4 /\ second.ip - ip + second.m.len >= 8
  <2>1. MINMATCH = 4 /\ 2 * MINMATCH = 8
    BY HcNumbers
  <2> QED
    BY <2>1 DEF Uncorrected
<1>3. PICK l : l = HashChain!NewLength
  OBVIOUS
<1>4. /\ l \in Nat /\ l >= 4 /\ l <= m1.len
      /\ IsMatch(c) /\ EndOf(c) = EndOf(second)
      /\ \/ c = second /\ ip + 4 <= second.ip
         \/ c.ip = ip + l
  BY <1>1, <1>2, <1>3, CorrectedIs
<1>5. PICK p, len, cp : p = ip /\ len = m1.len /\ cp = c.ip
  OBVIOUS
<1>6. p \in Nat /\ len \in Nat /\ cp \in Nat /\ EndOf(First) = p + len
  <2>1. First.ip = p /\ First.m.len = len
    BY <1>5 DEF First
  <2> QED
    BY <1>1, <1>4, <1>5, <2>1, MatchNumbers DEF EndOf
<1>7. CASE c.ip = ip + l
  <2>1. cp = p + l /\ l \in Nat /\ l >= 4 /\ l <= len
    BY <1>4, <1>5, <1>7
  <2>2. p + 4 <= cp /\ cp <= (p + len) + 1 /\ ~(cp > p + len)
    BY <1>6, <2>1
  <2> QED
    BY <1>4, <1>5, <1>6, <2>2
<1>8. CASE c = second /\ ip + 4 <= second.ip
  BY <1>1, <1>2, <1>4, <1>8
<1> QED
  BY <1>4, <1>7, <1>8

LEMMA ChainFindThird ==
  ASSUME ChainHere, HashChain!FindThird
  PROVE  HcInv' /\ (Finds \/ UNCHANGED finderVars)
<1>1. PICK p, a, e, c, cp, cl, end, at :
        /\ p = ip /\ a = anchor /\ e = First /\ c = HashChain!Corrected
        /\ cp = c.ip /\ cl = c.m.len /\ end = cp + cl /\ at = end - 3
  OBVIOUS
<1>2. /\ pc = "parse" /\ step = "search3" /\ second' = c
      /\ IF end <= HashChain!mflimit
           THEN Find(at, cp, cl) /\ step' = "third"
           ELSE step' = "both" /\ UNCHANGED HashChain!finderVars
      /\ UNCHANGED <<ip, m1, skipped, HashChain!encoderVars>>
  BY <1>1, SameFind DEF HashChain!FindThird
<1>3. /\ FinderInv /\ ChainInv /\ level' = level /\ level.strat = "lz4hc" /\ a \in Nat
      /\ src \in Seq(U8)
  BY <1>1, <1>2, SearchTypes DEF ChainHere, HcInv
<1>4. WithSecond /\ Uncorrected /\ MaySearchAt(EndOf(second) - 3) /\ p \in Nat /\ a <= p
  BY <1>1, <1>2, <1>3 DEF ChainInv
<1>5. /\ ip' = p /\ m1' = m1 /\ src' = src /\ pc' = pc /\ anchor' = a /\ First' = e
  BY <1>1, <1>2 DEF HashChain!encoderVars, First
<1>6. /\ IsMatch(c) /\ EndOf(c) = EndOf(second)
      /\ p + 4 <= cp /\ cp <= EndOf(e) + 1
      /\ cp > EndOf(e) => cl > 4
  BY <1>1, <1>3, <1>4, CorrectedPlace
<1>7. /\ cp \in Nat /\ cl \in Nat /\ cl >= 4 /\ Len(src) \in Nat /\ EndOf(c) = end
      /\ end = cp + cl /\ at = end - 3
  BY <1>1, <1>3, <1>6, MatchNumbers DEF EndOf
<1>8. at \in Nat /\ cp <= at /\ end \in Nat /\ at - cp < cl
  BY <1>7
<1>9. MaySearchAt(at) /\ ~ChainSwap
  BY <1>3, <1>4, <1>6, <1>7 DEF ChainSwap
<1>10. WithSecond'
  <2>1. IsMatch(e)' /\ IsMatch(c)'
    BY <1>1, <1>4, <1>5, <1>6, MatchSame DEF WithSecond
  <2>2. (EndOf(First) + MFLIMIT <= Len(src))' /\ second'.ip <= EndOf(First)' + 1
    BY <1>1, <1>2, <1>4, <1>5, <1>6 DEF WithSecond, EndOf
  <2> QED
    BY <1>2, <1>4, <1>5, <2>1, <2>2 DEF WithSecond, EndOf
<1>11. IsCorrected'
  BY <1>1, <1>2, <1>5, <1>6, HcNumbers DEF IsCorrected, EndOf
<1>12. CASE end <= HashChain!mflimit
  <2>1. Find(at, cp, cl) /\ step' = "third"
    BY <1>2, <1>12
  <2>2. end + MFLIMIT <= Len(src) /\ at + MFLIMIT <= Len(src) /\ cl \in Nat \ {0}
    <3>1. end <= Len(src) - MFLIMIT
      BY <1>12 DEF HashChain!mflimit, HashChain!n
    <3> QED
      BY <1>7, <1>8, <3>1, HcNumbers
  <2>3. FinderInv' /\ Asked(at, cp, cl)
    BY <1>3, <1>5, <1>7, <1>8, <1>9, <2>1, <2>2, FindKeeps
  <2>4. /\ EndOf(second)' = end /\ second'.ip = cp /\ second'.m.len = cl
        /\ second' = c
    BY <1>1, <1>2, <1>7 DEF EndOf
  <2>5. (EndOf(second) + MFLIMIT <= Len(src))'
    BY <1>5, <2>2, <2>4
  <2>6. SearchedAt(EndOf(second) - 3, second.ip, second.m.len)'
    <3>1. SearchedAt(at, cp, cl)'
      BY <2>3 DEF Asked, SearchedAt, Index, START
    <3>2. (EndOf(second) - 3)' = at
      BY <1>1, <2>4
    <3> QED
      BY <2>4, <3>1, <3>2 DEF SearchedAt, Index, START
  <2>7. ChainInv'
    BY <1>2, <1>4, <1>5, <1>10, <1>11, <2>1, <2>5, <2>6 DEF ChainInv
  <2>8. Finds
    BY <1>7, <1>8, <1>9, <2>1, <2>2, FindsIs
  <2> QED
    BY <1>3, <1>5, <2>3, <2>7, <2>8 DEF HcInv
<1>13. CASE ~(end <= HashChain!mflimit)
  <2>1. step' = "both" /\ UNCHANGED finderVars
    BY <1>2, <1>13 DEF HashChain!finderVars, finderVars
  <2>2. FinderInv' /\ nextToUpdate' = nextToUpdate
    BY <1>3, <1>5, <2>1, FinderSame DEF finderVars
  <2>3. MaySearchAt(EndOf(second))'
    <3>1. EndOf(second)' = end
      BY <1>2, <1>7 DEF EndOf
    <3>2. at <= end
      BY <1>7, <1>8
    <3>3. nextToUpdate' <= START + end
      BY <1>3, <1>8, <1>9, <2>2, <3>2, MayOn
    <3> QED
      BY <3>1, <3>3 DEF MaySearchAt, Index, START
  <2>4. ChainInv'
    BY <1>2, <1>4, <1>5, <1>10, <1>11, <2>1, <2>3 DEF ChainInv
  <2> QED
    BY <1>3, <1>5, <2>1, <2>2, <2>4 DEF HcInv
<1> QED
  BY <1>12, <1>13

LEMMA ChainEncodeBoth ==
  ASSUME ChainHere, HashChain!EncodeBoth
  PROVE  HcInv' /\ Encoder!Next
<1>1. PICK p, a, e, s, len, sp, sl, to, m, end :
        /\ p = ip /\ a = anchor /\ e = First /\ s = second /\ len = m1.len
        /\ sp = s.ip /\ sl = s.m.len /\ to = sp + sl /\ end = p + len
        /\ m = IF sp < end THEN [m1 EXCEPT !.len = sp - p] ELSE m1
  OBVIOUS
<1>2. /\ pc = "parse" /\ step \in {"both", "third"}
      /\ HashChain!Encode(m) /\ ip' = sp /\ m1' = s.m /\ step' = "one"
      /\ UNCHANGED finderVars
  BY <1>1 DEF HashChain!EncodeBoth, HashChain!End1, HashChain!finderVars, finderVars
<1>3. /\ FinderInv /\ ChainInv /\ level' = level /\ level.strat = "lz4hc" /\ a \in Nat
      /\ src \in Seq(U8)
  BY <1>1, <1>2, SearchTypes DEF ChainHere, HcInv
<1>4. WithSecond /\ IsCorrected /\ p \in Nat /\ a <= p
  BY <1>1, <1>2, <1>3 DEF ChainInv
<1>5. IsMatch(e) /\ IsMatch(s) /\ e.ip = p /\ e.m = m1 /\ p + 4 <= sp
  BY <1>1, <1>4, HcNumbers DEF WithSecond, IsCorrected, First
<1>6. /\ len \in Nat /\ len >= 4 /\ sp \in Nat /\ sl \in Nat /\ sl >= 4 /\ EndOf(s) = to
      /\ to = sp + sl /\ to \in Nat /\ end = p + len /\ end \in Nat
      /\ s = [ip |-> sp, m |-> s.m]
  <2>1. /\ e.m.len = len /\ s.ip = sp /\ s.m.len = sl
        /\ to = sp + sl /\ end = p + len
    BY <1>1, <1>5
  <2>2. len \in Nat /\ len >= 4 /\ sp \in Nat /\ sl \in Nat /\ sl >= 4
    BY <1>3, <1>5, <2>1, MatchNumbers
  <2>3. s = [ip |-> sp, m |-> s.m]
    BY <1>3, <1>5, <2>1, MatchNumbers
  <2>4. to \in Nat /\ end \in Nat
    BY <1>4, <2>1, <2>2
  <2> QED
    BY <2>1, <2>2, <2>3, <2>4 DEF EndOf
<1>7. /\ IsMatch([ip |-> p, m |-> m]) /\ m.len \in Nat /\ p + m.len <= sp
  <2>1. CASE sp < end
    <3>1. PICK d : d = sp - p
      OBVIOUS
    <3>2. d \in Nat /\ d >= 4 /\ d <= len /\ p + d = sp
      BY <1>4, <1>5, <1>6, <2>1, <3>1
    <3>3. m = [e.m EXCEPT !.len = d]
      BY <1>1, <1>5, <2>1, <3>1
    <3>4. e.m = [offset |-> e.m.offset, len |-> e.m.len]
      BY <1>3, <1>5, IsMatchIs
    <3>5. m = [offset |-> e.m.offset, len |-> d]
      BY <3>3, <3>4
    <3>6. IsMatch(MatchAt(e.ip, e.m.offset, d))
      BY <1>1, <1>3, <1>5, <3>2, FirstPartIsMatch
    <3> QED
      BY <1>4, <1>5, <1>6, <3>2, <3>5, <3>6 DEF MatchAt
  <2>2. CASE ~(sp < end)
    <3>1. m = m1 /\ m.len = len
      BY <1>1, <2>2
    <3>2. [ip |-> p, m |-> m] = e
      BY <1>1, <3>1 DEF First
    <3> QED
      BY <1>4, <1>5, <1>6, <2>2, <3>1, <3>2
  <2> QED
    BY <2>1, <2>2
<1>8. Encoder!EncodeSequence(p, m) \/ Encoder!Overflow(p, m)
  BY <1>1, <1>2, ChainEncodes
<1>9. PICK b : b = p + m.len
  OBVIOUS
<1>10. src' = src /\ (pc' = "parse" => anchor' = b) /\ b \in Nat /\ b <= sp
  BY <1>4, <1>7, <1>8, <1>9, EncoderSteps
<1>11. FinderInv' /\ nextToUpdate' = nextToUpdate
  BY <1>2, <1>3, <1>10, FinderSame DEF finderVars
<1>12. First' = s
  BY <1>2, <1>6 DEF First
<1>13. IsMatch(First)' /\ EndOf(First)' = to
  <2>1. IsMatch(s)'
    BY <1>5, <1>10, MatchSame
  <2> QED
    BY <1>6, <1>12, <2>1 DEF EndOf
<1>14. nextToUpdate' <= START + to
  <2>1. CASE step = "both"
    <3>1. MaySearchAt(to) /\ to <= to
      BY <1>1, <1>2, <1>3, <1>6, <2>1 DEF ChainInv
    <3> QED
      BY <1>3, <1>6, <1>11, <3>1, MayOn
  <2>2. CASE step = "third"
    <3>1. PICK at : at = to - 3
      OBVIOUS
    <3>2. at \in Nat /\ at <= to
      BY <1>6, <3>1
    <3>3. SearchedAt(at, second.ip, second.m.len)
      BY <1>1, <1>2, <1>3, <1>6, <2>2, <3>1 DEF ChainInv
    <3> QED
      BY <1>6, <1>11, <3>2, <3>3, SearchOn
  <2> QED
    BY <1>2, <2>1, <2>2
<1>15. MaySearchAt(EndOf(First))'
  BY <1>13, <1>14 DEF MaySearchAt, Index, START
<1>16. pc' = "parse" => anchor' <= ip' /\ anchor' \in Nat
  BY <1>2, <1>10
<1>17. ChainInv'
  BY <1>2, <1>6, <1>13, <1>15, <1>16 DEF ChainInv
<1>18. Encoder!Next
  <2>1. PICK f : f = [ip |-> p, m |-> m]
    OBVIOUS
  <2>2. f.ip = p /\ f.m = m
    BY <2>1
  <2> QED
    BY <1>1, <1>3, <1>4, <1>7, <1>8, <2>1, <2>2, IsEncoded
<1> QED
  BY <1>3, <1>11, <1>16, <1>17, <1>18 DEF HcInv

(* When a third match is found.                                            *)
AtThird(p, a, e, s, f, at, len, sp, sl, fp, fl) ==
  /\ p = ip /\ a = anchor /\ e = First /\ s = second
  /\ f = [ip |-> search.start, m |-> Found] /\ at = EndOf(second) - 3
  /\ len = m1.len /\ sp = s.ip /\ sl = s.m.len /\ fp = f.ip /\ fl = f.m.len

LEMMA ThirdFound ==
  ASSUME ChainHere, HashChain!ThirdMatch, NEW p, NEW a, NEW e, NEW s, NEW f, NEW at,
         NEW len, NEW sp, NEW sl, NEW fp, NEW fl,
         AtThird(p, a, e, s, f, at, len, sp, sl, fp, fl)
  PROVE  /\ FinderInv /\ level' = level /\ level.strat = "lz4hc" /\ pc = "parse"
         /\ src \in Seq(U8) /\ Len(src) \in Nat /\ a \in Nat /\ p \in Nat /\ a <= p
         /\ IsMatch(e) /\ IsMatch(s) /\ IsMatch(f)
         /\ e = [ip |-> p, m |-> m1] /\ e.ip = p /\ e.m = m1
         /\ EndOf(e) = p + len /\ EndOf(s) = sp + sl /\ EndOf(f) = fp + fl
         /\ f.m = Found
         /\ len \in Nat /\ sp \in Nat /\ sl \in Nat /\ fp \in Nat /\ fl \in Nat
         /\ len >= 4 /\ sl >= 4 /\ fl > sl
         /\ p + 4 <= sp /\ sp <= (p + len) + 1 /\ (sp > p + len => sl > 4)
         /\ (p + len) + MFLIMIT <= Len(src) /\ (sp + sl) + MFLIMIT <= Len(src)
         /\ at = (sp + sl) - 3 /\ at \in Nat /\ sp <= fp /\ fp <= at /\ fp + fl >= at + 4
         /\ nextToUpdate = START + at
<1>1. step = "third" /\ ~Nothing
  BY SameFinder DEF HashChain!ThirdMatch
<1>2. /\ FinderInv /\ ChainInv /\ level' = level /\ level.strat = "lz4hc" /\ pc = "parse"
      /\ src \in Seq(U8) /\ Len(src) \in Nat /\ a \in Nat /\ p \in Nat /\ a <= p
  BY <1>1, SearchTypes DEF ChainHere, HcInv, ChainInv, AtThird
<1>3. /\ WithSecond /\ IsCorrected /\ EndOf(second) + MFLIMIT <= Len(src)
      /\ SearchedAt(at, second.ip, second.m.len)
  BY <1>1, <1>2 DEF ChainInv, AtThird
<1>4. e = [ip |-> p, m |-> m1] /\ e.ip = p /\ e.m = m1 /\ e.m.len = len
  BY DEF AtThird, First
<1>5. IsMatch(e) /\ IsMatch(s)
  BY <1>3 DEF WithSecond, AtThird
<1>6. EndOf(e) = p + len /\ EndOf(s) = sp + sl /\ EndOf(f) = fp + fl
  BY <1>4 DEF EndOf, AtThird
<1>7. len \in Nat /\ sp \in Nat /\ sl \in Nat /\ len >= 4 /\ sl >= 4
  BY <1>2, <1>4, <1>5, MatchNumbers DEF AtThird
<1>8. /\ p + 4 <= sp /\ sp <= (p + len) + 1 /\ (sp > p + len => sl > 4)
      /\ (p + len) + MFLIMIT <= Len(src) /\ (sp + sl) + MFLIMIT <= Len(src)
  BY <1>3, <1>6, HcNumbers DEF WithSecond, IsCorrected, AtThird
<1>9. at = (sp + sl) - 3
  BY <1>6 DEF AtThird
<1>10. at \in Nat
  BY <1>7, <1>9
<1>11. f = [ip |-> search.start, m |-> Found]
  BY DEF AtThird
<1>12. /\ IsMatch(f) /\ fp \in Nat /\ fl \in Nat /\ f.m = Found
       /\ second.ip <= fp /\ fp <= at /\ fp + fl >= at + 4 /\ fl > second.m.len
  BY <1>1, <1>2, <1>3, <1>11, FoundNumbers DEF AtThird
<1>13. sp <= fp /\ fl > sl
  BY <1>12 DEF AtThird
<1>14. nextToUpdate = START + at
  BY <1>3 DEF SearchedAt, Index
<1> QED
  BY <1>2, <1>4, <1>5, <1>6, <1>7, <1>8, <1>9, <1>10, <1>12, <1>13, <1>14

LEMMA ChainReplaceSecond ==
  ASSUME ChainHere, HashChain!ReplaceSecond
  PROVE  HcInv'
<1>1. PICK p, a, e, s, f, at, len, sp, sl, fp, fl :
        /\ p = ip /\ a = anchor /\ e = First /\ s = second /\ len = m1.len
        /\ f = [ip |-> search.start, m |-> Found] /\ at = EndOf(second) - 3
        /\ sp = s.ip /\ sl = s.m.len /\ fp = f.ip /\ fl = f.m.len
  OBVIOUS
<1>2. /\ HashChain!ThirdMatch /\ second' = f /\ step' = "search3" /\ fp < p + len
      /\ ip' = p /\ m1' = m1 /\ UNCHANGED <<finderVars, HashChain!encoderVars>>
  <2>1. HashChain!third = f
    BY <1>1, SameFinder
  <2> QED
    BY <1>1, <2>1 DEF HashChain!ReplaceSecond, HashChain!End1, HashChain!finderVars, finderVars
<1>3. AtThird(p, a, e, s, f, at, len, sp, sl, fp, fl)
  BY <1>1 DEF AtThird
<1>4. /\ FinderInv /\ level' = level /\ a \in Nat /\ p \in Nat /\ a <= p
      /\ IsMatch(e) /\ IsMatch(f) /\ e.ip = p /\ e.m = m1
      /\ EndOf(e) = p + len /\ EndOf(f) = fp + fl
      /\ len \in Nat /\ sp \in Nat /\ sl \in Nat /\ fp \in Nat /\ fl \in Nat
      /\ len >= 4 /\ sl >= 4 /\ fl > sl /\ p + 4 <= sp
      /\ (p + len) + MFLIMIT <= Len(src)
      /\ at \in Nat /\ sp <= fp /\ fp + fl >= at + 4
      /\ nextToUpdate = START + at
  BY <1>2, <1>3, ThirdFound
<1>5. src' = src /\ anchor' = a
  BY <1>1, <1>2 DEF HashChain!encoderVars
<1>6. FinderInv' /\ nextToUpdate' = START + at
  BY <1>2, <1>4, <1>5, FinderSame DEF finderVars
<1>7. /\ fp <= (p + len) + 1 /\ p <= fp /\ fl > 4 /\ (fp - p) + fl >= 8
      /\ at <= (fp + fl) - 3 /\ (fp + fl) - 3 \in Int
  BY <1>2, <1>4
<1>8. nextToUpdate' <= START + ((fp + fl) - 3)
  BY <1>4, <1>6, <1>7, HcNumbers
<1>9. /\ ip' = e.ip /\ m1' = e.m /\ a <= e.ip /\ EndOf(e) + MFLIMIT <= Len(src)
      /\ f.ip <= EndOf(e) + 1 /\ e.ip <= f.ip /\ f.m.len > 4 /\ f.ip - e.ip + f.m.len >= 8
      /\ nextToUpdate' <= START + (EndOf(f) - 3)
  BY <1>1, <1>2, <1>4, <1>7, <1>8
<1> QED
  BY <1>2, <1>4, <1>5, <1>6, <1>9, ToSearch3

LEMMA ChainDropSecond ==
  ASSUME ChainHere, HashChain!DropSecond
  PROVE  HcInv' /\ Encoder!Next
<1>1. PICK p, a, e, s, f, at, len, sp, sl, fp, fl, end, rest, x :
        /\ p = ip /\ a = anchor /\ e = First /\ s = second /\ len = m1.len
        /\ f = [ip |-> search.start, m |-> Found] /\ at = EndOf(second) - 3
        /\ sp = s.ip /\ sl = s.m.len /\ fp = f.ip /\ fl = f.m.len /\ end = p + len
        /\ rest = (IF sp < end THEN HashChain!From(s, end - sp) ELSE s)
        /\ x = IF sp < end /\ rest.m.len < MINMATCH THEN f ELSE rest
  OBVIOUS
<1>2. /\ HashChain!ThirdMatch /\ fp < end + 3 /\ fp >= end /\ HashChain!Encode(m1)
      /\ skipped' = x /\ ip' = f.ip /\ m1' = f.m /\ step' = "search2"
      /\ UNCHANGED finderVars
  <2>1. HashChain!third = f
    BY <1>1, SameFinder
  <2> QED
    BY <1>1, <2>1 DEF HashChain!DropSecond, HashChain!NoRoomForSecond, HashChain!End1,
                      HashChain!finderVars, finderVars
<1>3. AtThird(p, a, e, s, f, at, len, sp, sl, fp, fl)
  BY <1>1 DEF AtThird
<1>4. /\ FinderInv /\ level' = level /\ src \in Seq(U8) /\ Len(src) \in Nat
      /\ a \in Nat /\ p \in Nat /\ a <= p
      /\ IsMatch(e) /\ IsMatch(s) /\ IsMatch(f) /\ e.ip = p /\ e.m = m1
      /\ EndOf(f) = fp + fl
      /\ len \in Nat /\ sp \in Nat /\ sl \in Nat /\ fp \in Nat /\ fl \in Nat
      /\ len >= 4 /\ sl >= 4 /\ fl > sl
      /\ (p + len) + MFLIMIT <= Len(src)
      /\ at \in Nat /\ sp <= fp /\ fp + fl >= at + 4
      /\ nextToUpdate = START + at
  BY <1>2, <1>3, ThirdFound
<1>5. end = p + len /\ end \in Nat
  <2>1. end = p + len
    BY <1>1
  <2> QED
    BY <1>4, <2>1
<1>6. Encoder!EncodeSequence(p, m1) \/ Encoder!Overflow(p, m1)
  BY <1>1, <1>2, ChainEncodes
<1>7. src' = src /\ (pc' = "parse" => anchor' = end)
  BY <1>1, <1>5, <1>6, EncoderSteps
<1>8. FinderInv' /\ nextToUpdate' = START + at
  BY <1>2, <1>4, <1>7, FinderSame DEF finderVars
<1>9. IsMatch(x) /\ end <= x.ip /\ x.ip <= fp /\ fp <= x.ip + 2 /\ x.m.len <= fl
  <2>1. CASE sp < end
    <3>1. PICK k : k = end - sp
      OBVIOUS
    <3>2. k \in Nat /\ sp + k = end
      BY <1>4, <1>5, <2>1, <3>1
    <3>3. rest = [ip |-> sp + k, m |-> [s.m EXCEPT !.len = sl - k]]
      BY <1>1, <2>1, <3>1 DEF HashChain!From
    <3>4. s.m = [offset |-> s.m.offset, len |-> sl]
      BY <1>1, <1>4, IsMatchIs
    <3>5. /\ rest = MatchAt(sp + k, s.m.offset, sl - k)
          /\ rest.m.len = sl - k /\ rest.ip = end
      BY <3>2, <3>3, <3>4 DEF MatchAt
    <3>6. CASE rest.m.len < MINMATCH
      <4>1. x = f
        BY <1>1, <2>1, <3>6
      <4>2. x.ip = fp /\ x.m.len = fl /\ IsMatch(x)
        BY <1>1, <1>4, <4>1
      <4>3. end <= fp /\ fp <= fp + 2 /\ fp <= fp /\ fl <= fl
        BY <1>2, <1>4, <1>5
      <4> QED
        BY <4>2, <4>3
    <3>7. CASE ~(rest.m.len < MINMATCH)
      <4>1. x = rest
        BY <1>1, <3>7
      <4>2. k + 4 <= sl
        <5>1. ~(sl - k < 4)
          BY <3>5, <3>7, HcNumbers
        <5> QED
          BY <1>4, <3>2, <5>1
      <4>3. s.ip = sp /\ s.m.len = sl /\ sp + k + MFLIMIT <= Len(src)
        BY <1>1, <1>4, <1>5, <3>2
      <4>4. IsMatch(rest)
        BY <1>4, <3>2, <3>5, <4>2, <4>3, LastPartIsMatch
      <4>5. end <= fp /\ fp <= end + 2 /\ sl - k <= fl
        BY <1>2, <1>4, <1>5, <3>2
      <4> QED
        BY <1>5, <3>5, <4>1, <4>4, <4>5
    <3> QED
      BY <3>6, <3>7
  <2>2. CASE ~(sp < end)
    <3>1. x = s
      BY <1>1, <2>2
    <3>2. end <= sp /\ fp <= sp + 2 /\ sl <= fl
      BY <1>2, <1>4, <1>5, <2>2
    <3> QED
      BY <1>1, <1>4, <3>1, <3>2
  <2> QED
    BY <2>1, <2>2
<1>10. nextToUpdate' <= START + (EndOf(f) - 2)
  <2>1. at <= (fp + fl) - 2 /\ (fp + fl) - 2 \in Int
    BY <1>4
  <2>2. nextToUpdate' <= START + ((fp + fl) - 2)
    BY <1>4, <1>8, <2>1, HcNumbers
  <2> QED
    BY <1>4, <2>2
<1>11. HcInv'
  <2>1. x.ip <= f.ip /\ f.ip <= x.ip + 2 /\ x.m.len <= f.m.len
    BY <1>1, <1>9
  <2> QED
    BY <1>2, <1>4, <1>5, <1>7, <1>8, <1>9, <1>10, <2>1, ToSearch2
<1>12. Encoder!Next
  BY <1>1, <1>4, <1>6, IsEncoded
<1> QED
  BY <1>11, <1>12

LEMMA ChainWriteFirst ==
  ASSUME ChainHere, HashChain!WriteFirst
  PROVE  HcInv' /\ Encoder!Next
<1>1. PICK p, a, e, s, f, at, len, sp, sl, fp, fl :
        AtThird(p, a, e, s, f, at, len, sp, sl, fp, fl)
  BY DEF AtThird
<1>2. PICK l, c, near, overlaps, k, m, next, end :
        /\ l = HashChain!NewLength /\ c = HashChain!Corrected /\ end = p + len
        /\ overlaps = (sp < end) /\ near = (sp - p < HashChain!OPTIMAL_ML)
        /\ k = (IF ~overlaps THEN len ELSE IF near THEN l ELSE sp - p)
        /\ m = [m1 EXCEPT !.len = k]
        /\ next = (IF overlaps THEN c ELSE s)
  OBVIOUS
<1>3. /\ HashChain!ThirdMatch /\ ~(fp < end + 3) /\ HashChain!Encode(m)
      /\ ip' = next.ip /\ m1' = next.m /\ second' = f /\ step' = "search3"
      /\ UNCHANGED finderVars
  <2>1. HashChain!third = f
    BY <1>1, SameFinder DEF AtThird
  <2>2. /\ p = ip /\ s = second /\ len = m1.len /\ sp = second.ip /\ fp = f.ip
    BY <1>1 DEF AtThird
  <2>3. end = HashChain!End1
    BY <1>2, <2>2 DEF HashChain!End1
  <2>4. HashChain!ThirdMatch /\ ~(fp < end + 3) /\ second' = f /\ step' = "search3"
        /\ UNCHANGED finderVars
    BY <2>1, <2>2, <2>3 DEF HashChain!WriteFirst, HashChain!NoRoomForSecond,
                            HashChain!finderVars, finderVars
  <2>5. HashChain!Encode(m) /\ ip' = next.ip /\ m1' = next.m
    BY <1>2, <2>2, <2>3 DEF HashChain!WriteFirst
  <2> QED
    BY <2>4, <2>5
<1>4. /\ FinderInv /\ level' = level /\ src \in Seq(U8) /\ Len(src) \in Nat
      /\ a \in Nat /\ p \in Nat /\ a <= p
      /\ IsMatch(e) /\ IsMatch(s) /\ IsMatch(f) /\ e.ip = p /\ e.m = m1
      /\ EndOf(e) = p + len /\ EndOf(s) = sp + sl /\ EndOf(f) = fp + fl
      /\ len \in Nat /\ sp \in Nat /\ sl \in Nat /\ fp \in Nat /\ fl \in Nat
      /\ len >= 4 /\ sl >= 4 /\ fl > sl
      /\ p + 4 <= sp /\ sp <= (p + len) + 1 /\ (sp > p + len => sl > 4)
      /\ (p + len) + MFLIMIT <= Len(src) /\ (sp + sl) + MFLIMIT <= Len(src)
      /\ at = (sp + sl) - 3 /\ at \in Nat /\ sp <= fp /\ fp <= at /\ fp + fl >= at + 4
      /\ nextToUpdate = START + at
  BY <1>1, <1>3, ThirdFound
<1>5. p = ip /\ a = anchor /\ e = First /\ s = second /\ len = m1.len /\ sp = s.ip /\ sl = s.m.len
      /\ fp = f.ip /\ fl = f.m.len
  BY <1>1 DEF AtThird
<1>6. end = p + len /\ end \in Nat
  <2>1. end = p + len
    BY <1>2
  <2> QED
    BY <1>4, <2>1
<1>7. /\ l \in Nat /\ l >= 4 /\ l <= len /\ IsMatch(c) /\ EndOf(c) = sp + sl
      /\ \/ c = s /\ (near => l <= sp - p)
         \/ near /\ c.ip = p + l
  <2>1. ip <= second.ip /\ second.ip - ip + second.m.len >= 8
    <3>1. p <= sp /\ (sp - p) + sl >= 8
      BY <1>4
    <3> QED
      BY <1>5, <3>1
  <2>2. IsMatch(First) /\ IsMatch(second) /\ EndOf(First) + MFLIMIT <= Len(src)
    BY <1>4, <1>5
  <2>3. /\ l \in Nat /\ l >= 4 /\ l <= m1.len
        /\ IsMatch(c) /\ EndOf(c) = EndOf(second)
        /\ \/ /\ c = second
              /\ second.ip - ip < HashChain!OPTIMAL_ML => l <= second.ip - ip
              /\ ip + 4 <= second.ip
           \/ /\ second.ip - ip < HashChain!OPTIMAL_ML
              /\ c.ip = ip + l
    BY <1>2, <1>4, <2>1, <2>2, CorrectedIs
  <2>4. near <=> second.ip - ip < HashChain!OPTIMAL_ML
    BY <1>2, <1>5
  <2> QED
    BY <1>4, <1>5, <2>3, <2>4
<1>8. /\ k \in Nat /\ k >= 4 /\ k <= len
      /\ IsMatch(next) /\ EndOf(next) = sp + sl /\ next.ip \in Nat
      /\ p + k <= next.ip /\ next.ip <= fp /\ (fp - next.ip) + fl >= 8
  <2>1. CASE ~overlaps
    <3>1. k = len /\ next = s /\ ~(sp < end)
      BY <1>2, <2>1
    <3>2. end <= sp /\ (fp - sp) + fl >= 8 /\ sp <= fp
      BY <1>3, <1>4, <1>6, <3>1
    <3> QED
      BY <1>4, <1>5, <1>6, <3>1, <3>2
  <2>2. CASE overlaps
    <3>1. next = c /\ k = (IF near THEN l ELSE sp - p) /\ sp < end
      BY <1>2, <2>2
    <3>2. PICK np : np = c.ip
      OBVIOUS
    <3>3. np \in Nat
      BY <1>4, <1>7, <3>2, MatchNumbers
    <3>4. k \in Nat /\ k >= 4 /\ k <= len /\ p + k <= np /\ np <= end
      <4>1. CASE near
        <5>1. k = l /\ ((np = sp /\ l <= sp - p) \/ np = p + l)
          BY <1>5, <1>7, <3>1, <3>2, <4>1
        <5> QED
          BY <1>4, <1>6, <1>7, <3>1, <5>1
      <4>2. CASE ~near
        <5>1. k = sp - p /\ np = sp
          BY <1>5, <1>7, <3>1, <3>2, <4>2
        <5> QED
          BY <1>4, <1>6, <3>1, <5>1
      <4> QED
        BY <4>1, <4>2
    <3>5. np <= fp /\ (fp - np) + fl >= 8
      BY <1>3, <1>4, <1>6, <3>3, <3>4
    <3> QED
      BY <1>7, <3>1, <3>2, <3>3, <3>4, <3>5
  <2>3. overlaps \/ ~overlaps
    OBVIOUS
  <2> QED
    BY <2>1, <2>2
<1>9. PICK np, b : np = next.ip /\ b = p + k
  OBVIOUS
<1>10. IsMatch([ip |-> p, m |-> m]) /\ m.len = k
  <2>1. e.m = [offset |-> e.m.offset, len |-> e.m.len]
    BY <1>4, IsMatchIs
  <2>2. m = [offset |-> e.m.offset, len |-> k]
    BY <1>2, <1>4, <2>1
  <2>3. IsMatch(MatchAt(e.ip, e.m.offset, k))
    BY <1>4, <1>5, <1>8, FirstPartIsMatch
  <2> QED
    BY <1>4, <2>2, <2>3 DEF MatchAt
<1>11. Encoder!EncodeSequence(p, m) \/ Encoder!Overflow(p, m)
  BY <1>3, <1>5, ChainEncodes
<1>12. src' = src /\ (pc' = "parse" => anchor' = b) /\ b \in Nat
  <2>1. src' = src /\ (pc' = "parse" => anchor' = p + m.len)
    BY <1>11, EncoderSteps
  <2>2. p + m.len = b /\ b \in Nat
    BY <1>4, <1>8, <1>9, <1>10
  <2> QED
    BY <2>1, <2>2
<1>13. FinderInv' /\ nextToUpdate' = START + at
  BY <1>3, <1>4, <1>12, FinderSame DEF finderVars
<1>14. nextToUpdate' <= START + ((fp + fl) - 3)
  <2>1. at <= (fp + fl) - 3 /\ (fp + fl) - 3 \in Int
    BY <1>4
  <2> QED
    BY <1>4, <1>13, <2>1, HcNumbers
<1>15. fp <= (sp + sl) + 1 /\ fl > 4
  BY <1>4
<1>16. HcInv'
  <2>1. /\ b <= next.ip /\ EndOf(next) + MFLIMIT <= Len(src) /\ f.ip <= EndOf(next) + 1
        /\ next.ip <= f.ip /\ f.m.len > 4 /\ f.ip - next.ip + f.m.len >= 8
        /\ nextToUpdate' <= START + (EndOf(f) - 3)
    BY <1>4, <1>5, <1>8, <1>9, <1>14, <1>15
  <2> QED
    BY <1>3, <1>4, <1>8, <1>12, <1>13, <2>1, ToSearch3
<1>17. Encoder!Next
  <2>1. PICK g : g = [ip |-> p, m |-> m]
    OBVIOUS
  <2>2. g.ip = p /\ g.m = m
    BY <2>1
  <2> QED
    BY <1>4, <1>5, <1>10, <1>11, <2>1, <2>2, IsEncoded
<1> QED
  BY <1>16, <1>17

LEMMA ChainFinish ==
  ASSUME ChainHere, HashChain!Finish
  PROVE  HcInv' /\ Encoder!Next
<1>1. /\ FinderInv /\ ChainInv /\ level' = level /\ level.strat = "lz4hc"
      /\ UNCHANGED <<step, finderVars>>
  BY DEF ChainHere, HcInv, HashChain!Finish, HashChain!chainVars, HashChain!finderVars, finderVars
<1>2. Encoder!ShortenSequence \/ (Encoder!LastLiterals /\ (pc = "last" \/ step = "main"))
  BY SameShorten, SameLast DEF HashChain!Finish
<1>3. src' = src /\ pc' # "parse" /\ (pc # "parse" \/ step = "main")
  BY <1>2 DEF Encoder!ShortenSequence, Encoder!LastLiterals
<1>4. FinderInv'
  BY <1>1, <1>3, FinderSame
<1>5. ChainInv'
  BY <1>1, <1>3 DEF ChainInv
<1>6. Encoder!Next
  BY <1>2 DEF Encoder!Next
<1> QED
  BY <1>1, <1>3, <1>4, <1>5, <1>6 DEF HcInv

LEMMA ChainSteps ==
  ASSUME HcInv, Chains
  PROVE  HcInv' /\ (Encoder!Next \/ UNCHANGED Encoder!vars)
<1>1. ChainHere /\ HashChain!Compress
  BY DEF ChainHere, Chains
<1>2. ASSUME UNCHANGED HashChain!encoderVars PROVE UNCHANGED Encoder!vars
  BY <1>2 DEF HashChain!encoderVars, Encoder!vars
<1>3. CASE HashChain!FindFirst
  BY <1>1, <1>2, <1>3, ChainFindFirst DEF HashChain!FindFirst
<1>4. CASE HashChain!Search
  BY <1>1, <1>2, <1>4, ChainSearch DEF HashChain!Search
<1>5. CASE HashChain!NoMatch
  BY <1>1, <1>2, <1>5, ChainNoMatch DEF HashChain!NoMatch
<1>6. CASE HashChain!FirstMatch
  BY <1>1, <1>2, <1>6, ChainFirstMatch DEF HashChain!FirstMatch
<1>7. CASE HashChain!FindSecond
  BY <1>1, <1>2, <1>7, ChainFindSecond DEF HashChain!FindSecond
<1>8. CASE HashChain!SecondMatch
  <2>1. UNCHANGED HashChain!encoderVars
    BY <1>8 DEF HashChain!SecondMatch
  <2> QED
    BY <1>1, <1>2, <1>8, <2>1, ChainSecondMatch
<1>9. CASE HashChain!FindThird
  <2>1. UNCHANGED HashChain!encoderVars
    BY <1>9 DEF HashChain!FindThird
  <2> QED
    BY <1>1, <1>2, <1>9, <2>1, ChainFindThird
<1>10. CASE HashChain!ReplaceSecond
  BY <1>1, <1>2, <1>10, ChainReplaceSecond DEF HashChain!ReplaceSecond
<1> QED
  BY <1>1, <1>3, <1>4, <1>5, <1>6, <1>7, <1>8, <1>9, <1>10, ChainEncodeOne, ChainEncodeBoth,
     ChainDropSecond, ChainWriteFirst, ChainFinish DEF HashChain!Compress

LEMMA OptimalSteps ==
  ASSUME HcInv, Optimal
  PROVE  Encoder!Next \/ UNCHANGED Encoder!vars
<1>1. level.strat = "lz4opt" /\ Compress
  BY DEF Optimal
<1>2. ASSUME UNCHANGED <<src, encoderVars>> PROVE UNCHANGED Encoder!vars
  BY <1>2 DEF encoderVars, Encoder!vars
<1>3. CASE FindFirst \/ FindFurther \/ Search
  BY <1>2, <1>3 DEF FindFirst, FindFurther, Search
<1>4. CASE NoMatch \/ EncodeAtOnce
  BY <1>2, <1>4 DEF NoMatch, EncodeAtOnce
<1>5. CASE SetPrices
  <2>1. UNCHANGED <<src, encoderVars>>
    BY <1>5, Zenon DEF SetPrices
  <2> QED
    BY <1>2, <2>1
<1>6. CASE Skip \/ NoImprovement
  BY <1>2, <1>6 DEF Skip, NoImprovement
<1>7. CASE Improve
  <2>1. UNCHANGED <<src, encoderVars>>
    BY <1>7, Zenon DEF Improve
  <2> QED
    BY <1>2, <2>1
<1>8. CASE TakeNow \/ Elect
  BY <1>2, <1>8 DEF TakeNow, Elect
<1>9. CASE Encode
  <2>1. PICK e : e = Head(elected)
    OBVIOUS
  <2>2. /\ pc = "parse" /\ step = "encode"
        /\ Encoder!EncodeSequence(e.ip, e.m) \/ Encoder!Overflow(e.ip, e.m)
    BY <1>9, <2>1 DEF Encode
  <2>3. /\ FinderInv /\ OptimalInv /\ anchor \in Nat /\ ip \in Nat
        /\ elected # <<>> /\ IsWay(elected, anchor, ip)
    BY <1>1, <2>2 DEF HcInv, OptimalInv
  <2>4. IsMatch(e) /\ anchor <= e.ip
    <3>1. anchor \in Int /\ ip \in Int
      BY <2>3
    <3> QED
      BY <2>1, <2>3, <3>1, WayHead
  <2> QED
    BY <2>2, <2>3, <2>4, IsEncoded
<1>10. CASE Finish
  BY <1>10 DEF Finish, Encoder!Next
<1> QED
  BY <1>1, <1>3, <1>4, <1>5, <1>6, <1>7, <1>8, <1>9, <1>10 DEF Compress

LEMMA HcStart ==
  ASSUME HcInit
  PROVE  HcInv /\ Encoder!Init
<1>1. /\ Encoder!Init /\ FinderInit /\ level \in Levels
      /\ step = "main" /\ ip = 0 /\ last = 0 /\ cur = 0
  BY DEF HcInit, ParserInit
<1>2. src \in Seq(U8) /\ anchor = 0
  BY <1>1, ParserAssumption DEF Encoder!Init
<1>3. search = [at |-> 0, low |-> 0, min |-> 0, start |-> 0, longest |-> 0, offset |-> 0,
                cand |-> 0, left |-> 0, chainPos |-> 0]
  BY <1>1 DEF FinderInit
<1>4. START \in Nat /\ START >= 1 /\ nextToUpdate = START /\ DISTANCE_MAX \in Nat
  BY <1>1, HcNumbers DEF FinderInit
<1>5. FinderTypeOK
  <2>1. search \in Searches
    BY <1>3 DEF Searches
  <2>2. hashTable \in [Hashes -> Nat] /\ chainTable \in [0 .. DISTANCE_MAX -> 0 .. DISTANCE_MAX]
    BY <1>1, <1>4 DEF FinderInit
  <2> QED
    BY <1>1, <1>2, <1>4, <2>1, <2>2 DEF FinderTypeOK
<1>6. TableBefore
  BY <1>1, <1>4 DEF TableBefore, FinderInit
<1>7. search.cand < Index(search.at) /\ Nothing /\ search.left = 0
  BY <1>3, <1>4 DEF Index, Nothing
<1>8. SearchInPlace
  BY <1>3, <1>7 DEF SearchInPlace
<1>9. FoundIsMatch
  BY <1>7 DEF FoundIsMatch
<1>10. MaySearchAt(ip) /\ anchor <= ip
  BY <1>1, <1>2, <1>4 DEF MaySearchAt, Index
<1>11. OptimalInv /\ ChainInv
  BY <1>1, <1>10 DEF OptimalInv, ChainInv
<1> QED
  BY <1>1, <1>2, <1>5, <1>6, <1>8, <1>9, <1>11 DEF HcInv, FinderInv

LEMMA HcStays ==
  ASSUME HcInv, UNCHANGED hcVars
  PROVE  HcInv'
<1>1. UNCHANGED <<src, level, finderVars>> /\ FinderInv
  BY DEF hcVars, allVars, HcInv
<1>2. FinderInv'
  BY <1>1, FinderSame
<1> USE DEF hcVars, allVars, finderVars, encoderVars, parserVars
<1>3. /\ pc' = pc /\ anchor' = anchor /\ step' = step /\ ip' = ip /\ opt' = opt /\ last' = last
      /\ cur' = cur /\ elected' = elected /\ m1' = m1 /\ skipped' = skipped /\ second' = second
      /\ src' = src /\ level' = level /\ nextToUpdate' = nextToUpdate /\ search' = search
  OBVIOUS
<1>4. OptimalInv => OptimalInv'
  <2>1. TableOK => TableOK'
    BY <1>3, TableSame
  <2>2. ASSUME IsWay(elected, anchor, ip) PROVE IsWay(elected, anchor, ip)'
    BY <1>3, <2>2 DEF IsWay, IsMatch, EndOf, Encoder!Matches, Encoder!n
  <2> QED
    BY <1>3, <2>1, <2>2 DEF OptimalInv, MaySearchAt, SearchedAt, Index, START
<1>5. ChainInv => ChainInv'
  BY <1>3 DEF ChainInv, WithSkipped, WithSecond, Uncorrected, IsCorrected, First, EndOf,
     IsMatch, Encoder!Matches, Encoder!n, MaySearchAt, SearchedAt, Index, START
<1> QED
  BY <1>2, <1>3, <1>4, <1>5 DEF HcInv

LEMMA HcStep ==
  ASSUME HcInv, [HcNext]_hcVars
  PROVE  HcInv' /\ [Encoder!Next]_Encoder!vars
<1>1. CASE Optimal
  BY <1>1, OptimalKeeps, OptimalSteps
<1>2. CASE Chains
  BY <1>2, ChainSteps
<1>3. CASE UNCHANGED hcVars
  <2>1. UNCHANGED Encoder!vars
    BY <1>3 DEF hcVars, allVars, encoderVars, Encoder!vars
  <2> QED
    BY <1>3, <2>1, HcStays
<1> QED
  BY <1>1, <1>2, <1>3 DEF HcNext, Returned
-----------------------------------------------------------------------------
(* The invariant holds in every state.                                     *)
LEMMA HcInvariant == HcSpec => []HcInv
<1>1. HcInit => HcInv
  BY HcStart
<1>2. HcInv /\ [HcNext]_hcVars => HcInv'
  BY HcStep
<1> QED
  BY <1>1, <1>2, PTL DEF HcSpec

(* Whatever LZ4HC_InsertAndGetWiderMatch returns is a true match within    *)
(* the distance, although chainSwap and the patterns move the candidate    *)
(* without comparing a byte; and every candidate stands before the         *)
(* position that is searched for.                                          *)
THEOREM WhatIsFoundIsMatch == HcSpec => []FoundIsMatch
<1>1. HcInv => FoundIsMatch
  BY DEF HcInv, FinderInv
<1> QED
  BY <1>1, HcInvariant, PTL

(* LZ4HC_compress_hashChain and LZ4HC_compress_optimal pass nothing to     *)
(* LZ4HC_encodeSequence but true matches, each behind the one before it    *)
(* and away from the end of src: however they shorten, exchange and drop   *)
(* them, or go back over the table.                                        *)
THEOREM HcImplementsEncoder == HcSpec => ImplementsEncoder
<1>1. HcInit => Encoder!Init
  BY HcStart
<1>2. HcInv /\ [HcNext]_hcVars => [Encoder!Next]_Encoder!vars
  BY HcStep
<1> QED
  BY <1>1, <1>2, HcInvariant, PTL DEF HcSpec, ImplementsEncoder, Encoder!Spec

(* LZ4HC_compress_optimal never writes or reads behind the end of opt, and *)
(* every match in it fits before its position.                             *)
THEOREM TheTableFits == HcSpec => []TableFits
<1>1. ASSUME HcInv PROVE TableFits
  <2>1. CASE step \in {"further", "improve"}
    <3>1. level.strat \in {"lz4opt", "lz4hc"}
      BY <1>1, ParserAssumption DEF HcInv, FinderInv, FinderTypeOK
    <3>2. level.strat # "lz4hc"
      BY <1>1, <2>1 DEF HcInv, ChainInv
    <3>3. OptimalInv
      BY <1>1, <3>1, <3>2 DEF HcInv
    <3>4. TableOK
      BY <2>1, <3>3 DEF OptimalInv
    <3> QED
      BY <3>4 DEF TableOK, StepTo, TableFits
  <2>2. CASE step \notin {"further", "improve"}
    BY <2>2 DEF TableFits
  <2> QED
    BY <2>1, <2>2
<1>2. HcInv => TableFits
  BY <1>1
<1> QED
  BY <1>2, HcInvariant, PTL
-----------------------------------------------------------------------------
(* What the tables know of the positions before the next one: the last     *)
(* position of every hash, and from a position to the one before it with   *)
(* the same hash, as far as its place was not used again.                  *)
HashAt(i) == Hash(Quad(i - START))

KnowsLast(table, next) ==
  /\ \A i \in START .. next - 1 : i <= table[HashAt(i)]
  /\ \A h \in Hashes : table[h] = 0 \/ (table[h] >= START /\ HashAt(table[h]) = h)

KnowsPrevious(i, d) ==
  /\ d >= 1
  /\ \A j \in START .. i - 1 : HashAt(j) = HashAt(i) => j <= i - d
  /\ d = DISTANCE_MAX \/ HashAt(i - d) = HashAt(i)

KnowsChain(table, next) ==
  \A i \in START .. next - 1 :
    next - i <= DISTANCE_MAX + 1 => KnowsPrevious(i, table[i % (DISTANCE_MAX + 1)])

TablesKnow == KnowsLast(hashTable, nextToUpdate) /\ KnowsChain(chainTable, nextToUpdate)

(* What a search knows: the candidate belongs to the chain that it walks   *)
(* down, and every match lies behind that candidate, or is no longer than  *)
(* what was found or what this candidate is.                               *)
OnChain(s) ==
  /\ s.cand >= Lowest => HashAt(s.cand + s.chainPos) = HashAt(Index(s.at) + s.chainPos)
  /\ s.cand + s.chainPos < Index(s.at)
  /\ s.chainPos = 0 \/ (ChainSwap /\ s.chainPos + MINMATCH <= s.longest)

MayMatch(p) == {r \in 0 .. p - 1 : p - r <= DISTANCE_MAX /\ Quad(r) = Quad(p)}

Passed(s, r) ==
  \/ Index(r) <= s.cand
  \/ Worth(s.at, r) <= s.longest
  \/ /\ s.cand >= Lowest /\ Quad(s.cand - START) = Quad(s.at)
     /\ Worth(s.at, r) <= Worth(s.at, s.cand - START)

KnowsSearch(s) == OnChain(s) /\ \A r \in MayMatch(s.at) : Passed(s, r)

SearchKnows ==
  search.left > 0 =>
    /\ nextToUpdate = Index(search.at)
    /\ LookBack < search.min /\ (ChainSwap => LookBack = 0)
    /\ KnowsSearch(search)

LongInv == HcInv /\ TablesKnow /\ SearchKnows
-----------------------------------------------------------------------------
(* Two numbers with the same remainder are a multiple apart.               *)
LEMMA SameRemainder ==
  ASSUME NEW m \in Nat \ {0}, NEW a \in Nat, NEW b \in Nat, a < b, a % m = b % m
  PROVE  a + m <= b
<1> DEFINE q == a \div m
           s == b \div m
           r == a % m
<1>1. q \in Nat /\ s \in Nat /\ r \in 0 .. m - 1 /\ q * m + r = a /\ s * m + r = b
  BY QuotientRemainder
<1> HIDE DEF q, s, r
<1>2. q + 1 <= s
  <2>1. CASE s <= q
    <3>1. s * m <= q * m /\ s * m \in Nat /\ q * m \in Nat
      BY <1>1, <2>1, ProductMono
    <3> QED
      BY <1>1, <3>1
  <2> QED
    BY <1>1, <2>1
<1>3. (q + 1) * m <= s * m
  BY <1>1, <1>2, ProductMono
<1>4. (q + 1) * m = q * m + m
  BY <1>1
<1> QED
  BY <1>1, <1>3, <1>4

(* The last position of a hash that stands before another one.             *)
LEMMA LatestIs ==
  ASSUME FinderTypeOK, TableBefore, KnowsLast(hashTable, nextToUpdate),
         NEW i \in Nat, nextToUpdate <= i, NEW h \in Hashes
  PROVE  LET l == Latest(h, i - START)
         IN  /\ l \in Nat /\ l < i
             /\ \A j \in START .. i - 1 : HashAt(j) = h => j <= l
             /\ l = 0 \/ (l >= START /\ HashAt(l) = h)
<1> DEFINE new == {k \in New(h, i - START) : k < Index(i - START)}
           T == {hashTable[h]} \cup new
<1>1. /\ nextToUpdate \in Nat /\ nextToUpdate >= START /\ i >= START /\ i - START \in Nat
      /\ Index(i - START) = i /\ START \in Nat
  BY HcNumbers DEF FinderTypeOK, Index
<1>2. hashTable[h] \in Nat /\ hashTable[h] < nextToUpdate
  BY <1>1 DEF FinderTypeOK, TableBefore
<1>3. new = {k \in nextToUpdate .. i - 1 : HashAt(k) = h}
  BY <1>1 DEF New, HashAt
<1>4. Bounded(T, i - 1) /\ T \subseteq Nat
  BY <1>1, <1>2, <1>3 DEF Bounded
<1>5. Latest(h, i - START) = Max(T)
  BY DEF Latest
<1> HIDE DEF T
<1>6. Max(T) \in T /\ \A y \in T : y <= Max(T)
  BY <1>4, <1>1, Greatest
<1> DEFINE l == Latest(h, i - START)
<1>7. l \in T /\ \A y \in T : y <= l
  BY <1>5, <1>6
<1> HIDE DEF l
<1>8. l \in Nat /\ l < i
  <2>1. l \in Nat /\ l <= i - 1
    BY <1>4, <1>7 DEF Bounded
  <2> QED
    BY <1>1, <2>1
<1>9. ASSUME NEW j \in START .. i - 1, HashAt(j) = h PROVE j <= l
  <2>1. CASE j < nextToUpdate
    <3>1. j \in START .. nextToUpdate - 1
      BY <1>1, <2>1
    <3>2. j <= hashTable[h]
      BY <1>9, <3>1 DEF KnowsLast
    <3>3. hashTable[h] <= l
      BY <1>7 DEF T
    <3> QED
      BY <1>1, <1>2, <1>8, <3>2, <3>3
  <2>2. CASE ~(j < nextToUpdate)
    <3>1. j \in new
      BY <1>1, <1>3, <1>9, <2>2
    <3> QED
      BY <1>7, <3>1 DEF T
  <2> QED
    BY <2>1, <2>2
<1>10. l = 0 \/ (l >= START /\ HashAt(l) = h)
  <2>1. CASE l = hashTable[h]
    BY <2>1 DEF KnowsLast
  <2>2. CASE l \in new
    BY <1>1, <1>3, <2>2
  <2> QED
    BY <1>7, <2>1, <2>2 DEF T
<1> QED
  BY <1>8, <1>9, <1>10 DEF l

LEMMA DeltaKnows ==
  ASSUME FinderTypeOK, TableBefore, KnowsLast(hashTable, nextToUpdate),
         NEW i \in Nat, nextToUpdate <= i, HashAt(i) \in Hashes
  PROVE  KnowsPrevious(i, Delta(i))
<1> DEFINE l == Latest(HashAt(i), i - START)
<1>1. /\ l \in Nat /\ l < i
      /\ \A j \in START .. i - 1 : HashAt(j) = HashAt(i) => j <= l
      /\ l = 0 \/ (l >= START /\ HashAt(l) = HashAt(i))
  BY LatestIs
<1>2. Delta(i) = IF i - l > DISTANCE_MAX THEN DISTANCE_MAX ELSE i - l
  BY DEF Delta, HashAt
<1> HIDE DEF l
<1>3. START \in Nat /\ DISTANCE_MAX \in Nat \ {0} /\ START = DISTANCE_MAX + 1
  BY HcNumbers
<1>4. i >= START
  BY <1>3 DEF FinderTypeOK
<1> DEFINE d == Delta(i)
<1>5. d >= 1 /\ d \in Nat /\ l <= i - d
  BY <1>1, <1>2, <1>3
<1>6. d = DISTANCE_MAX \/ (i - d = l /\ l >= START)
  BY <1>1, <1>2, <1>3, <1>4
<1> HIDE DEF d
<1>7. ASSUME NEW j \in START .. i - 1, HashAt(j) = HashAt(i) PROVE j <= i - d
  <2>1. j <= l
    BY <1>1, <1>7
  <2> QED
    BY <1>1, <1>3, <1>5, <2>1
<1>8. KnowsPrevious(i, d)
  <2>1. d = DISTANCE_MAX \/ HashAt(i - d) = HashAt(i)
    <3>1. CASE i - d = l /\ l >= START
      <4>1. HashAt(l) = HashAt(i)
        BY <1>1, <1>3, <3>1
      <4> QED
        BY <3>1, <4>1
    <3> QED
      BY <1>6, <3>1
  <2> QED
    BY <1>5, <1>7, <2>1 DEF KnowsPrevious
<1> QED
  BY <1>8 DEF d

LEMMA InsertKnows ==
  ASSUME FinderTypeOK, TableBefore, TablesKnow, NEW at \in Nat, MaySearchAt(at),
         at + MFLIMIT <= Len(src), Insert(at)
  PROVE  KnowsLast(hashTable', Index(at)) /\ KnowsChain(chainTable', Index(at))
<1> DEFINE next == Index(at)
           m == DISTANCE_MAX + 1
<1>1. /\ nextToUpdate \in Nat /\ nextToUpdate >= START /\ nextToUpdate <= next
      /\ next = START + at /\ next \in Nat /\ next - START = at /\ START \in Nat
      /\ m \in Nat \ {0} /\ DISTANCE_MAX \in Nat /\ Len(src) \in Nat
  BY HcNumbers DEF FinderTypeOK, Index, MaySearchAt
<1>2. KnowsLast(hashTable, nextToUpdate) /\ KnowsChain(chainTable, nextToUpdate)
  BY DEF TablesKnow
<1>3. ASSUME NEW i \in nextToUpdate .. next - 1 PROVE HashAt(i) \in Hashes
  <2>1. i \in Nat /\ i >= START /\ i - START + 4 <= Len(src)
    BY <1>1, HcNumbers
  <2> QED
    BY <2>1, HashIs DEF HashAt
<1>4. ASSUME NEW h \in Hashes PROVE hashTable'[h] = Latest(h, at)
  <2>1. New(h, at) \subseteq nextToUpdate .. next - 1
    BY NewIs
  <2>2. {i \in New(h, at) : i < next} = New(h, at)
    <3>1. \A i \in New(h, at) : i < next
      BY <1>1, <2>1
    <3> QED
      BY <3>1
  <2>3. hashTable'[h] = Max({hashTable[h]} \cup New(h, at))
    BY DEF Insert
  <2> QED
    BY <2>2, <2>3 DEF Latest
<1> HIDE DEF next
<1>5. ASSUME NEW h \in Hashes
      PROVE  /\ hashTable'[h] \in Nat
             /\ \A j \in START .. next - 1 : HashAt(j) = h => j <= hashTable'[h]
             /\ hashTable'[h] = 0 \/ (hashTable'[h] >= START /\ HashAt(hashTable'[h]) = h)
  <2>1. next \in Nat /\ nextToUpdate <= next /\ hashTable'[h] = Latest(h, next - START)
    BY <1>1, <1>4
  <2> QED
    BY <1>2, <2>1, LatestIs
<1>6. KnowsLast(hashTable', next)
  <2>1. ASSUME NEW i \in START .. next - 1 PROVE HashAt(i) \in Hashes
    <3>1. CASE i >= nextToUpdate
      BY <1>1, <1>3, <3>1
    <3>2. CASE ~(i >= nextToUpdate)
      <4>1. i \in Nat /\ i >= START /\ i - START + 4 <= Len(src)
        BY <1>1, HcNumbers
      <4> QED
        BY <4>1, HashIs DEF HashAt
    <3> QED
      BY <3>1, <3>2
  <2> QED
    BY <1>5, <2>1 DEF KnowsLast
<1>7. KnowsChain(chainTable', next)
  <2> SUFFICES ASSUME NEW i \in START .. next - 1, next - i <= DISTANCE_MAX + 1
               PROVE  KnowsPrevious(i, chainTable'[i % m])
    BY DEF KnowsChain
  <2> DEFINE all == UNION {New(h, at) : h \in Hashes}
             here == {j \in all : j % m = i % m}
  <2>0. i \in Nat /\ i < next /\ next <= i + m
    BY <1>1
  <2>1. i % m \in 0 .. DISTANCE_MAX
    <3>1. i % m \in 0 .. m - 1
      BY <1>1, <2>0, QuotientRemainder
    <3> QED
      BY <1>1, <3>1
  <2>2. chainTable'[i % m] = IF here = {} THEN chainTable[i % m] ELSE Delta(Max(here))
    BY <2>1 DEF Insert
  <2>3. all = nextToUpdate .. next - 1
    <3>1. ASSUME NEW h \in Hashes PROVE New(h, at) = {j \in nextToUpdate .. next - 1 : HashAt(j) = h}
      BY DEF New, HashAt, next
    <3> QED
      BY <1>3, <3>1
  <2> HIDE DEF all
  <2>4. ASSUME NEW j \in here PROVE j <= i
    <3>1. j \in Nat /\ j < next
      BY <1>1, <2>3
    <3>2. CASE i < j
      <4>1. i % m = j % m
        OBVIOUS
      <4>2. i + m <= j
        BY <1>1, <2>0, <3>1, <3>2, <4>1, SameRemainder
      <4> QED
        BY <1>1, <2>0, <3>1, <4>2
    <3> QED
      BY <2>0, <3>1, <3>2
  <2>5. CASE i >= nextToUpdate
    <3>1. i \in here
      BY <1>1, <2>0, <2>3, <2>5
    <3>2. Bounded(here, i)
      <4>1. here \subseteq Int
        BY <1>1, <2>3
      <4> HIDE DEF here
      <4> QED
        BY <2>4, <3>1, <4>1 DEF Bounded
    <3> HIDE DEF here
    <3>3. Max(here) \in here /\ \A y \in here : y <= Max(here)
      BY <2>0, <3>2, Greatest
    <3>4. Max(here) = i
      <4>1. Max(here) <= i /\ i <= Max(here)
        BY <2>4, <3>1, <3>3
      <4>2. Max(here) \in Int
        BY <3>2, <3>3 DEF Bounded
      <4> QED
        BY <2>0, <4>1, <4>2
    <3>5. chainTable'[i % m] = Delta(i)
      BY <2>2, <3>1, <3>4
    <3>6. HashAt(i) \in Hashes
      BY <1>1, <1>3, <2>0, <2>5
    <3> QED
      BY <1>2, <2>0, <2>5, <3>5, <3>6, DeltaKnows
  <2>6. CASE ~(i >= nextToUpdate)
    <3>1. here = {}
      <4> SUFFICES ASSUME NEW j \in here PROVE FALSE
        OBVIOUS
      <4>2. j \in all /\ j <= i
        BY <2>4
      <4>1. j <= i /\ j >= nextToUpdate /\ j \in Nat
        BY <1>1, <2>3, <4>2
      <4> QED
        BY <1>1, <2>0, <2>6, <4>1
    <3>2. i \in START .. nextToUpdate - 1 /\ nextToUpdate - i <= DISTANCE_MAX + 1
      BY <1>1, <2>0, <2>6
    <3>3. KnowsPrevious(i, chainTable[i % m])
      BY <1>2, <3>2 DEF KnowsChain
    <3> QED
      BY <2>2, <3>1, <3>3
  <2> QED
    BY <2>5, <2>6
<1> QED
  BY <1>6, <1>7 DEF next

(* The same words have the same number, in this state and the next.        *)
LEMMA HashSame ==
  ASSUME src' = src
  PROVE  /\ \A i : HashAt(i)' = HashAt(i)
         /\ \A p : Quad(p)' = Quad(p)
         /\ TablesKnow' <=> KnowsLast(hashTable', nextToUpdate')
                            /\ KnowsChain(chainTable', nextToUpdate')
<1>1. \A p : Quad(p)' = Quad(p)
  BY DEF Quad
<1>2. \A i : HashAt(i)' = HashAt(i)
  BY DEF HashAt, Quad, START
<1>3. KnowsLast(hashTable, nextToUpdate)' <=> KnowsLast(hashTable', nextToUpdate')
  BY DEF KnowsLast, HashAt, Quad, START
<1>4. KnowsChain(chainTable, nextToUpdate)' <=> KnowsChain(chainTable', nextToUpdate')
  BY DEF KnowsChain, KnowsPrevious, HashAt, Quad, START
<1> QED
  BY <1>1, <1>2, <1>3, <1>4 DEF TablesKnow

(* A search begins with the last position of its hash: no match lies       *)
(* before it.                                                              *)
LEMMA FindKnows ==
  ASSUME FinderInv, TablesKnow, NEW at \in Nat, NEW low \in Nat, NEW min \in Nat \ {0},
         low <= at, at - low < min, ChainSwap => low = at,
         MaySearchAt(at), at + MFLIMIT <= Len(src), Find(at, low, min), UNCHANGED <<src, level>>
  PROVE  TablesKnow' /\ SearchKnows'
<1>1. FinderTypeOK /\ TableBefore /\ Insert(at)
  BY DEF FinderInv, Find
<1>2. KnowsLast(hashTable', Index(at)) /\ KnowsChain(chainTable', Index(at))
  BY <1>1, InsertKnows
<1>3. nextToUpdate' = Index(at) /\ Index(at) = START + at /\ Index(at) - START = at
  BY <1>1, HcNumbers DEF Insert, Index
<1>4. TablesKnow'
  BY <1>2, <1>3, HashSame
<1>5. Index(at) \in Nat /\ Index(at) >= START /\ START \in Nat /\ DISTANCE_MAX \in Nat \ {0}
      /\ \A h \in Hashes : hashTable'[h] \in Nat /\ hashTable'[h] < Index(at)
  <2>1. hashTable' \in [Hashes -> Nat] /\ \A h \in Hashes : hashTable'[h] < Index(at)
    BY <1>1, InsertKeeps
  <2> QED
    BY <1>3, <2>1, HcNumbers
<1>6. HashAt(Index(at)) = Hash(Quad(at)) /\ HashAt(Index(at)) \in Hashes
  <2>1. HashAt(Index(at)) = Hash(Quad(at))
    BY <1>3 DEF HashAt
  <2>2. Index(at) - START + 4 <= Len(src)
    <3>1. Len(src) \in Nat
      BY <1>1 DEF FinderTypeOK
    <3> QED
      BY <1>3, <3>1, HcNumbers
  <2> QED
    BY <1>1, <1>5, <2>1, <2>2, HashIs DEF HashAt
<1> DEFINE cand == hashTable'[Hash(Quad(at))]
<1>7. search' = [at |-> at, low |-> low, min |-> min, start |-> at, longest |-> min,
                 offset |-> 0, cand |-> cand, left |-> level.nbSearches, chainPos |-> 0]
  BY DEF Find
<1>8. /\ cand \in Nat /\ cand < Index(at)
      /\ cand = 0 \/ (cand >= START /\ HashAt(cand) = HashAt(Index(at)))
  BY <1>2, <1>5, <1>6 DEF KnowsLast
<1>9. \A i \in START .. Index(at) - 1 : HashAt(i) = HashAt(Index(at)) => i <= cand
  BY <1>2, <1>6 DEF KnowsLast
<1> HIDE DEF cand
<1>10. /\ search'.at = at /\ search'.low = low /\ search'.min = min /\ search'.cand = cand
       /\ search'.chainPos = 0 /\ search'.longest = min
  BY <1>7
<1>11. /\ LookBack' = at - low /\ ChainSwap' = ChainSwap /\ Index(search.at)' = Index(at)
       /\ Lowest' \in Nat /\ Lowest' >= START
  <2>1. Lowest' = IF START + DISTANCE_MAX + 1 > Index(at) THEN START
                  ELSE Index(at) - DISTANCE_MAX
    BY <1>10 DEF Lowest, Index, START
  <2> QED
    BY <1>3, <1>5, <1>10, <2>1, HcNumbers DEF LookBack, ChainSwap, Index, START
<1>12. OnChain(search)'
  <2>1. cand >= Lowest' => HashAt(cand + 0) = HashAt(Index(at) + 0)
    <3>1. cand + 0 = cand /\ Index(at) + 0 = Index(at)
      BY <1>5, <1>8
    <3>2. cand >= Lowest' => cand # 0
      BY <1>11, <1>8, HcNumbers
    <3> QED
      BY <1>8, <3>1, <3>2
  <2>2. cand + 0 < Index(at)
    BY <1>5, <1>8
  <2>3. \A i : HashAt(i)' = HashAt(i)
    BY HashSame
  <2> QED
    BY <1>10, <1>11, <2>1, <2>2, <2>3 DEF OnChain, Index, START, HashAt, Quad
<1>13. ASSUME NEW r \in 0 .. at - 1, Quad(r) = Quad(at) PROVE Index(r) <= cand
  <2>1. Index(r) = START + r /\ Index(r) - START = r /\ Index(r) \in START .. Index(at) - 1
    BY <1>3, <1>5 DEF Index
  <2>2. HashAt(Index(r)) = HashAt(Index(at))
    BY <1>6, <1>13, <2>1 DEF HashAt
  <2> QED
    BY <1>9, <2>1, <2>2
<1>14. (\A r \in MayMatch(search.at) : Passed(search, r))'
  BY <1>10, <1>13 DEF MayMatch, Passed, Quad, Index, START
<1>15. SearchKnows'
  BY <1>3, <1>10, <1>11, <1>12, <1>14 DEF SearchKnows, KnowsSearch, Index, START
<1> QED
  BY <1>4, <1>15

-----------------------------------------------------------------------------
(* What a match is worth, and the positions of matches.                    *)
LEMMA WorthIs ==
  ASSUME FinderInv, Searching, NEW q \in Nat
  PROVE  LET c == Common(search.at, q)
             b == Before(search.at, q)
         IN  /\ c \in Nat /\ c <= matchLimit - search.at /\ Same(search.at, q, c)
             /\ b \in Nat /\ b <= LookBack /\ LookBack \in Nat
             /\ Worth(search.at, q) = IF PatternAnalysis /\ Repeats(search.at) THEN c ELSE c + b
<1>1. /\ search.at \in Nat /\ search.low \in Nat /\ search.start \in Nat /\ src \in Seq(U8)
      /\ search.low <= search.start /\ search.start <= search.at
  BY SearchTypes
<1>2. matchLimit \in Nat /\ search.at <= matchLimit
  BY <1>1, SearchPlace
<1>3. search.low <= search.at
  <2>1. PICK a, l, s : a = search.at /\ l = search.low /\ s = search.start
    OBVIOUS
  <2> QED
    BY <1>1, <2>1
<1> DEFINE c == Common(search.at, q)
           b == Before(search.at, q)
<1>4. c \in 0 .. matchLimit - search.at /\ Same(search.at, q, c)
  BY <1>1, <1>2, CommonIs
<1>5. b \in 0 .. LookBack
  BY <1>1, <1>3, BeforeIs
<1>6. LookBack \in Nat
  BY <1>1, <1>3 DEF LookBack
<1>7. Worth(search.at, q) = c + IF PatternAnalysis /\ Repeats(search.at) THEN 0 ELSE b
  BY DEF Worth
<1> HIDE DEF c, b
<1>8. c \in Nat /\ c <= matchLimit - search.at /\ b \in Nat /\ b <= LookBack
  BY <1>1, <1>2, <1>4, <1>5, <1>6
<1>9. Worth(search.at, q) = IF PatternAnalysis /\ Repeats(search.at) THEN c ELSE c + b
  <2>1. c + 0 = c
    BY <1>8
  <2> QED
    BY <1>7, <2>1
<1> QED
  BY <1>4, <1>6, <1>8, <1>9 DEF c, b

LEMMA MayMatchIs ==
  ASSUME FinderInv, NEW r \in MayMatch(search.at)
  PROVE  /\ r \in Nat /\ r < search.at /\ search.at - r <= DISTANCE_MAX
         /\ Quad(r) = Quad(search.at) /\ Index(r) = START + r /\ Index(r) \in Nat
         /\ Index(r) >= START /\ Index(r) - START = r
<1>1. search.at \in Nat
  BY SearchTypes
<1>2. r \in 0 .. search.at - 1 /\ search.at - r <= DISTANCE_MAX /\ Quad(r) = Quad(search.at)
  BY DEF MayMatch
<1> QED
  BY <1>1, <1>2, HcNumbers DEF Index

(* Where the bytes are the same their numbers are.                         *)
LEMMA HashAhead ==
  ASSUME src \in Seq(U8), NEW p \in Nat, NEW q \in Nat, NEW x \in Nat, NEW k \in Nat,
         Same(p, q, k), x + 4 <= k, p + k <= Len(src), q + k <= Len(src)
  PROVE  HashAt((START + q) + x) = HashAt((START + p) + x)
<1>0. START \in Nat /\ Len(src) \in Nat
  BY HcNumbers
<1>1. /\ p + x \in Nat /\ q + x \in Nat /\ (p + x) + 4 <= Len(src) /\ (q + x) + 4 <= Len(src)
      /\ ((START + q) + x) - START = q + x /\ ((START + p) + x) - START = p + x
  BY <1>0
<1>2. Quad(q + x) = Quad(p + x)
  <2> DEFINE a == Quad(p + x)
             b == Quad(q + x)
  <2>1. /\ a \in [1 .. 4 -> U8] /\ b \in [1 .. 4 -> U8]
        /\ \A i \in 1 .. 4 : a[i] = src[(p + x) + i]
        /\ \A i \in 1 .. 4 : b[i] = src[(q + x) + i]
    BY <1>1, QuadIs
  <2> HIDE DEF a, b
  <2>2. ASSUME NEW i \in 1 .. 4 PROVE a[i] = b[i]
    <3>1. x + i \in 1 .. k /\ p + (x + i) = (p + x) + i /\ q + (x + i) = (q + x) + i
      OBVIOUS
    <3> DEFINE j == x + i
    <3>2. src[p + j] = src[q + j]
      BY <3>1 DEF Same
    <3> QED
      BY <2>1, <3>1, <3>2
  <2>3. a = [i \in 1 .. 4 |-> a[i]] /\ b = [i \in 1 .. 4 |-> b[i]]
    BY <2>1
  <2>4. a = b
    BY <2>2, <2>3
  <2> QED
    BY <2>4 DEF a, b
<1> QED
  BY <1>1, <1>2 DEF HashAt

(* A match that is longer than l belongs to the chain of every word in its *)
(* first l bytes, and to that of its own.                                  *)
LEMMA OnTheChain ==
  ASSUME FinderInv, Searching, NEW r \in MayMatch(search.at), NEW x \in Nat, NEW l \in Nat,
         x = 0 \/ (LookBack = 0 /\ x + 4 <= l), Worth(search.at, r) > l
  PROVE  HashAt(Index(r) + x) = HashAt(Index(search.at) + x)
<1> DEFINE c == Common(search.at, r)
           b == Before(search.at, r)
<1>1. /\ r \in Nat /\ r < search.at /\ Quad(r) = Quad(search.at)
      /\ Index(r) = START + r /\ Index(r) \in Nat /\ Index(r) - START = r
  BY MayMatchIs
<1>2. /\ c \in Nat /\ c <= matchLimit - search.at /\ Same(search.at, r, c)
      /\ b \in Nat /\ b <= LookBack /\ LookBack \in Nat
      /\ Worth(search.at, r) = IF PatternAnalysis /\ Repeats(search.at) THEN c ELSE c + b
  BY <1>1, WorthIs
<1> HIDE DEF c, b
<1>3. /\ search.at \in Nat /\ Index(search.at) = START + search.at /\ START \in Nat
      /\ src \in Seq(U8) /\ Len(src) \in Nat /\ matchLimit \in Nat /\ matchLimit <= Len(src)
  BY SearchTypes, SearchPlace, HcNumbers DEF Index
<1>4. CASE x = 0
  <2>1. Index(r) + x = Index(r) /\ Index(search.at) + x = Index(search.at)
    BY <1>1, <1>3, <1>4
  <2>2. Index(search.at) - START = search.at
    BY <1>3
  <2> QED
    BY <1>1, <2>1, <2>2 DEF HashAt
<1>5. CASE LookBack = 0 /\ x + 4 <= l
  <2>1. x + 4 <= c /\ search.at + c <= Len(src) /\ r + c <= Len(src)
    <3>1. Worth(search.at, r) = c
      BY <1>2, <1>5
    <3>2. PICK a, w, m, z : a = search.at /\ w = Worth(search.at, r) /\ m = matchLimit /\ z = Len(src)
      OBVIOUS
    <3>3. /\ w = c /\ w > l /\ a \in Nat /\ m \in Nat /\ z \in Nat /\ m <= z
          /\ c \in Nat /\ c <= m - a /\ r < a /\ r \in Nat /\ x + 4 <= l
      BY <1>1, <1>2, <1>3, <1>5, <3>1, <3>2
    <3>4. x + 4 <= c /\ a + c <= z /\ r + c <= z
      BY ONLY <3>3, x \in Nat, l \in Nat
    <3> QED
      BY <3>2, <3>4
  <2>2. PICK p : p = search.at
    OBVIOUS
  <2>3. HashAt((START + r) + x) = HashAt((START + p) + x)
    <3>1. /\ src \in Seq(U8) /\ p \in Nat /\ r \in Nat /\ c \in Nat /\ Same(p, r, c)
          /\ x + 4 <= c /\ p + c <= Len(src) /\ r + c <= Len(src)
      BY <1>1, <1>2, <1>3, <2>1, <2>2
    <3> QED
      BY ONLY <3>1, x \in Nat, HashAhead
  <2> QED
    BY <1>1, <1>3, <2>2, <2>3
<1> QED
  BY <1>4, <1>5

(* One step down a chain passes no position of the same hash.              *)
LEMMA OneStepDown ==
  ASSUME FinderInv, TablesKnow, Searching, nextToUpdate = Index(search.at),
         NEW c \in Nat, NEW x \in Nat, c >= Lowest, c + x < Index(search.at),
         HashAt(c + x) = HashAt(Index(search.at) + x)
  PROVE  LET d == Chain(c + x)
         IN  /\ d \in 1 .. DISTANCE_MAX
             /\ c - d >= Lowest => HashAt((c - d) + x) = HashAt(Index(search.at) + x)
             /\ \A i \in START .. c - 1 :
                  HashAt(i + x) = HashAt(Index(search.at) + x) => i <= c - d
<1> DEFINE d == Chain(c + x)
<1>1. /\ search.at \in Nat /\ Index(search.at) = START + search.at /\ START \in Nat
      /\ Lowest \in Nat /\ Lowest >= START /\ Index(search.at) - Lowest <= DISTANCE_MAX
      /\ DISTANCE_MAX \in Nat /\ FinderTypeOK
  BY SearchTypes, LowestIs, HcNumbers
<1>2. /\ c + x \in START .. nextToUpdate - 1 /\ nextToUpdate - (c + x) <= DISTANCE_MAX + 1
      /\ c + x \in Nat
  BY <1>1
<1>3. KnowsPrevious(c + x, d)
  BY <1>2 DEF TablesKnow, KnowsChain, Chain
<1>4. d \in 0 .. DISTANCE_MAX
  BY <1>1, <1>2, ChainIs
<1> HIDE DEF d
<1>5. d \in 1 .. DISTANCE_MAX
  BY <1>1, <1>3, <1>4 DEF KnowsPrevious
<1>6. ASSUME c - d >= Lowest PROVE HashAt((c - d) + x) = HashAt(Index(search.at) + x)
  <2>1. d # DISTANCE_MAX
    BY <1>1, <1>5, <1>6, <1>2
  <2>2. HashAt((c + x) - d) = HashAt(c + x)
    BY <1>3, <2>1 DEF KnowsPrevious
  <2>3. (c + x) - d = (c - d) + x
    BY <1>5
  <2> QED
    BY <2>2, <2>3
<1>7. ASSUME NEW i \in START .. c - 1, HashAt(i + x) = HashAt(Index(search.at) + x)
      PROVE  i <= c - d
  <2>1. i + x \in START .. (c + x) - 1
    BY <1>1
  <2>2. i + x <= (c + x) - d
    BY <1>3, <1>7, <2>1 DEF KnowsPrevious
  <2> QED
    BY <1>1, <1>5, <2>2
<1> QED
  BY <1>5, <1>6, <1>7 DEF d


(* A candidate that matches is compared: what was found is no shorter.     *)
LEMMA ComparedCovers ==
  ASSUME FinderInv, Searching, LookBack < search.min
  PROVE  /\ Compared.longest \in Nat /\ search.longest <= Compared.longest
         /\ Compared.longest >= search.min
         /\ Quad(search.cand - START) = Quad(search.at) =>
              Worth(search.at, search.cand - START) <= Compared.longest
<1>1. /\ SearchOK(Compared) /\ Compared.longest >= search.longest
  BY ComparedIsOK
<1>2. Compared.longest \in Nat
  BY <1>1 DEF SearchOK, Searches
<1>3. /\ search.at \in Nat /\ search.low \in Nat /\ search.min \in Nat
      /\ search.longest \in Nat /\ search.min <= search.longest /\ search \in Searches
  BY SearchTypes
<1>4. search.longest <= Compared.longest /\ Compared.longest >= search.min
  BY <1>1, <1>2, <1>3
<1>5. ASSUME Quad(search.cand - START) = Quad(search.at)
      PROVE  Worth(search.at, search.cand - START) <= Compared.longest
  <2> DEFINE p == search.at
             q == search.cand - START
             k == search.longest
             c == Common(p, q)
             b == Before(p, q)
             w == Worth(p, q)
  <2>1. q \in Nat
    BY CandidateIs
  <2>2. /\ c \in Nat /\ Same(p, q, c) /\ b \in Nat /\ b <= LookBack /\ LookBack \in Nat
        /\ w = IF PatternAnalysis /\ Repeats(p) THEN c ELSE c + b
    BY <2>1, WorthIs
  <2>3. search.low = p - LookBack
    BY <1>3 DEF LookBack
  <2>4. Length = IF /\ \A i \in {k, k + 1} : src[search.low + i] = src[q - LookBack + i]
                    /\ Quad(p) = Quad(q)
                   THEN c + b ELSE 0
    BY DEF Length
  <2>5. PICK back, low, min, got : /\ back = LookBack /\ low = search.low /\ min = search.min
                                   /\ got = Compared.longest
    OBVIOUS
  <2>6. p \in Nat /\ k \in Nat /\ Quad(p) = Quad(q)
    BY <1>3, <1>5
  <2>8. /\ back \in Nat /\ low = p - back /\ min \in Nat /\ min <= k /\ back < min
        /\ c \in Nat /\ b \in Nat /\ b <= back /\ (w = c \/ w = c + b)
        /\ got \in Nat /\ k <= got
    <3>1. w = c \/ w = c + b
      BY <2>2
    <3> QED
      BY <1>2, <1>3, <1>4, <2>2, <2>3, <2>5, <3>1
  <2>9. Same(p, q, c)
    BY <2>2
  <2>10. Compared = IF Length > k
                      THEN [search EXCEPT !.longest = Length,
                                          !.start = search.at - b,
                                          !.offset = Index(search.at) - search.cand,
                                          !.left = @ - 1]
                      ELSE [search EXCEPT !.left = @ - 1]
    BY DEF Compared
  <2> HIDE DEF p, q, k, c, b, w
  <2>11. CASE w <= k
    BY <2>5, <2>6, <2>8, <2>11 DEF p, q, w
  <2>12. CASE ~(w <= k)
    <3>1. ASSUME NEW i \in {k, k + 1} PROVE src[low + i] = src[q - back + i]
      <4> DEFINE j == i - back
      <4>1. j \in 1 .. c /\ low + i = p + j /\ q - back + i = q + j
        BY <2>1, <2>6, <2>8, <2>12, <3>1 DEF q
      <4> HIDE DEF j
      <4> QED
        BY <2>9, <4>1 DEF Same
    <3>2. Length = c + b
      BY <2>4, <2>5, <2>6, <3>1
    <3>3. Length > k /\ w <= Length
      BY ONLY <2>6, <2>8, <2>12, <3>2
    <3>4. Compared.longest = Length
      BY <1>3, <2>10, <3>3 DEF Searches
    <3> QED
      BY <3>3, <3>4 DEF w, p, q
  <2> QED
    BY <2>11, <2>12
<1> QED
  BY <1>2, <1>4, <1>5

(* So, once the candidate was compared, every match lies behind it or is   *)
(* no longer than what was found.                                          *)
LEMMA BehindCandidate ==
  ASSUME FinderInv, Searching, LookBack < search.min, KnowsSearch(search),
         NEW r \in MayMatch(search.at)
  PROVE  Worth(search.at, r) <= Compared.longest \/ Index(r) < search.cand
<1>1. /\ r \in Nat /\ Index(r) = START + r /\ Index(r) \in Nat /\ Index(r) - START = r
      /\ Quad(r) = Quad(search.at)
  BY MayMatchIs
<1>2. /\ Compared.longest \in Nat /\ search.longest <= Compared.longest
      /\ Quad(search.cand - START) = Quad(search.at) =>
           Worth(search.at, search.cand - START) <= Compared.longest
  BY ComparedCovers
<1>3. search.cand \in Nat /\ search.longest \in Nat
  BY SearchTypes
<1>4. Passed(search, r)
  BY DEF KnowsSearch
<1>5. ASSUME NEW q \in Nat PROVE Worth(search.at, q) \in Nat
  <2>1. PICK x : x = Worth(search.at, q)
    OBVIOUS
  <2>2. /\ Common(search.at, q) \in Nat /\ Before(search.at, q) \in Nat
        /\ x = IF PatternAnalysis /\ Repeats(search.at) THEN Common(search.at, q)
               ELSE Common(search.at, q) + Before(search.at, q)
    BY <2>1, WorthIs
  <2> QED
    BY <2>1, <2>2
<1>6. Worth(search.at, r) \in Nat
  BY <1>1, <1>5
<1>7. search.cand - START \in Nat
  BY CandidateIs
<1>8. CASE Index(r) <= search.cand
  <2>1. CASE Index(r) = search.cand
    BY <1>1, <1>2, <2>1
  <2> QED
    BY <1>1, <1>3, <1>8, <2>1
<1>9. CASE Worth(search.at, r) <= search.longest
  BY <1>2, <1>3, <1>6, <1>9
<1>10. CASE /\ Quad(search.cand - START) = Quad(search.at)
            /\ Worth(search.at, r) <= Worth(search.at, search.cand - START)
  BY <1>2, <1>5, <1>6, <1>7, <1>10
<1> QED
  BY <1>4, <1>8, <1>9, <1>10 DEF Passed

(* On to the next of a chain.                                              *)
LEMMA GoesOn ==
  ASSUME FinderInv, TablesKnow, SearchKnows, Searching,
         NEW c \in Nat, NEW x \in Nat, NEW l \in Nat, NEW s,
         c >= Lowest, c + x < Index(search.at), HashAt(c + x) = HashAt(Index(search.at) + x),
         x = 0 \/ (ChainSwap /\ x + 4 <= l),
         \A r \in MayMatch(search.at) : Worth(search.at, r) <= l \/ Index(r) < c,
         s.at = search.at, s.cand = c - Chain(c + x), s.chainPos = x, s.longest = l
  PROVE  KnowsSearch(s)
<1> DEFINE d == Chain(c + x)
<1>1. /\ nextToUpdate = Index(search.at) /\ (ChainSwap => LookBack = 0)
      /\ MINMATCH = 4
  BY SearchPlace, HcNumbers DEF SearchKnows
<1>2. /\ d \in 1 .. DISTANCE_MAX
      /\ c - d >= Lowest => HashAt((c - d) + x) = HashAt(Index(search.at) + x)
      /\ \A i \in START .. c - 1 :
           HashAt(i + x) = HashAt(Index(search.at) + x) => i <= c - d
  BY <1>1, OneStepDown
<1>3. search.at \in Nat /\ Index(search.at) = START + search.at /\ START \in Nat /\ DISTANCE_MAX \in Nat
  BY SearchTypes, HcNumbers DEF Index
<1>4. s.cand = c - d
  OBVIOUS
<1> HIDE DEF d
<1>5. OnChain(s)
  <2>1. (c - d) + x < Index(search.at)
    <3>1. PICK i : i = Index(search.at)
      OBVIOUS
    <3>2. i \in Nat /\ c + x < i
      BY <1>3, <3>1
    <3> QED
      BY <1>2, <1>3, <3>1, <3>2
  <2> QED
    BY <1>1, <1>2, <1>4, <2>1 DEF OnChain
<1>6. ASSUME NEW r \in MayMatch(search.at) PROVE Passed(s, r)
  <2>1. CASE Worth(search.at, r) <= l
    BY <2>1 DEF Passed
  <2>2. CASE ~(Worth(search.at, r) <= l)
    <3>1. Index(r) < c
      BY <2>2
    <3>2. Index(r) \in Nat /\ Index(r) >= START /\ r \in Nat
      BY MayMatchIs
    <3>3. Worth(search.at, r) > l
      <4>1. PICK y : y = Worth(search.at, r)
        OBVIOUS
      <4>2. /\ Common(search.at, r) \in Nat /\ Before(search.at, r) \in Nat
            /\ y = IF PatternAnalysis /\ Repeats(search.at) THEN Common(search.at, r)
                   ELSE Common(search.at, r) + Before(search.at, r)
        BY <3>2, <4>1, WorthIs
      <4>3. y \in Nat
        BY <4>2
      <4> QED
        BY <2>2, <4>1, <4>3
    <3>4. HashAt(Index(r) + x) = HashAt(Index(search.at) + x)
      BY <1>1, <3>3, OnTheChain
    <3>5. Index(r) \in START .. c - 1
      BY <1>3, <3>1, <3>2
    <3>6. Index(r) <= c - d
      BY <1>2, <3>4, <3>5
    <3> QED
      BY <1>4, <3>6 DEF Passed
  <2> QED
    BY <2>1, <2>2
<1> QED
  BY <1>5, <1>6 DEF KnowsSearch

LEMMA FollowChainKnows ==
  ASSUME FinderInv, TablesKnow, SearchKnows, FollowChain
  PROVE  KnowsSearch(search')
<1>1. Searching /\ search.left > 0
  BY SearchPlace DEF FollowChain
<1>2. LookBack < search.min /\ KnowsSearch(search)
  BY <1>1 DEF SearchKnows
<1>3. /\ SearchOK(Compared) /\ Compared.at = search.at /\ Compared.cand = search.cand
      /\ Compared.chainPos = search.chainPos
  BY <1>1, ComparedIsOK
<1>4. Compared.longest \in Nat /\ search.longest <= Compared.longest
  BY <1>1, <1>2, ComparedCovers
<1> DEFINE c == search.cand
           x == search.chainPos
           l == Compared.longest
           s == search'
<1>5. c \in Nat /\ x \in Nat /\ l \in Nat /\ search.longest \in Nat
  BY <1>4, SearchTypes
<1>6. c >= Lowest
  BY <1>1 DEF Searching
<1>7. /\ s.at = search.at /\ s.cand = c - Chain(c + x) /\ s.chainPos = x /\ s.longest = l
  <2>1. search' = [Compared EXCEPT !.cand = c - Chain(c + x)]
    BY <1>3 DEF FollowChain
  <2>2. Compared \in Searches
    BY <1>3 DEF SearchOK
  <2> QED
    BY <1>3, <2>1, <2>2 DEF Searches
<1>8. /\ HashAt(c + x) = HashAt(Index(search.at) + x) /\ c + x < Index(search.at)
      /\ x = 0 \/ (ChainSwap /\ x + 4 <= search.longest)
  BY <1>2, <1>6, HcNumbers DEF KnowsSearch, OnChain
<1>9. x = 0 \/ (ChainSwap /\ x + 4 <= l)
  BY <1>4, <1>5, <1>8
<1>10. \A r \in MayMatch(search.at) : Worth(search.at, r) <= l \/ Index(r) < c
  BY <1>1, <1>2, BehindCandidate
<1> HIDE DEF c, x, l, s
<1>11. KnowsSearch(s)
  BY <1>1, <1>5, <1>6, <1>7, <1>8, <1>9, <1>10, GoesOn
<1> QED
  BY <1>11 DEF s

LEMMA SwapChainKnows ==
  ASSUME FinderInv, TablesKnow, SearchKnows, SwapChain
  PROVE  KnowsSearch(search')
<1>1. Searching /\ search.left > 0 /\ Swaps
  BY SearchPlace DEF SwapChain
<1>2. LookBack < search.min /\ KnowsSearch(search) /\ ChainSwap /\ LookBack = 0
  BY <1>1 DEF SearchKnows, Swaps
<1>3. /\ SearchOK(Compared) /\ Compared.at = search.at /\ Compared.cand = search.cand
      /\ Compared.longest >= search.longest
  BY <1>1, ComparedIsOK
<1>4. Compared.longest \in Nat /\ search.longest <= Compared.longest
  BY <1>1, <1>2, ComparedCovers
<1>5. /\ Length = Compared.longest /\ search.cand + Compared.longest <= Index(search.at)
      /\ ChainAhead.dist > 1
  BY <1>1 DEF Swaps
<1> DEFINE c == search.cand
           q == search.cand - START
           l == Compared.longest
           s == search'
           end == l - MINMATCH + 1
           x == ChainAhead.best
<1>6. c \in Nat /\ l \in Nat /\ q \in Nat /\ START + q = c
  <2>1. search.cand \in Nat /\ search.cand - START \in Nat /\ START \in Nat
    BY <1>1, SearchTypes, CandidateIs, HcNumbers
  <2> QED
    BY <1>4, <2>1
<1>7. c >= Lowest
  BY <1>1 DEF Searching
<1>8. /\ search.at \in Nat /\ START \in Nat /\ matchLimit \in Nat /\ matchLimit <= Len(src)
      /\ Len(src) \in Nat /\ src \in Seq(U8) /\ Index(search.at) = START + search.at
      /\ search.min \in Nat /\ search.longest \in Nat /\ search.min <= search.longest
      /\ MINMATCH = 4 /\ FinderTypeOK
  BY <1>1, SearchTypes, SearchPlace, HcNumbers DEF Index
<1>9. l # 0
  <2>1. search.min > 0
    BY <1>1, SearchPlace DEF SearchOK
  <2>2. PICK m, k : m = search.min /\ k = search.longest
    OBVIOUS
  <2>3. m \in Nat /\ k \in Nat /\ m > 0 /\ m <= k /\ k <= l /\ l \in Nat
    BY <1>4, <1>6, <1>8, <2>1, <2>2
  <2> QED
    BY ONLY <2>3
<1>10. Quad(search.at) = Quad(q) /\ l = Common(search.at, q) + Before(search.at, q)
  <2>1. \/ Length = 0
        \/ Quad(search.at) = Quad(q) /\ Length = Common(search.at, q) + Before(search.at, q)
    BY DEF Length
  <2> QED
    BY <1>5, <1>9, <2>1
<1>11. /\ Common(search.at, q) \in Nat /\ Common(search.at, q) <= matchLimit - search.at
       /\ Same(search.at, q, Common(search.at, q))
       /\ Before(search.at, q) \in Nat /\ Before(search.at, q) <= LookBack
  BY <1>1, <1>6, WorthIs
<1>12. l = Common(search.at, q)
  <2>1. PICK y, z : y = Common(search.at, q) /\ z = Before(search.at, q)
    OBVIOUS
  <2>2. y \in Nat /\ z \in Nat /\ z <= 0 /\ l = y + z
    BY <1>2, <1>10, <1>11, <2>1
  <2>3. l = y
    BY ONLY <2>2
  <2> QED
    BY <2>1, <2>3
<1>13. Same(search.at, q, l) /\ l <= matchLimit - search.at
  BY <1>11, <1>12
<1>14. c + l <= Index(search.at)
  BY <1>5
<1>15. 4 <= l
  <2>1. search.at + 4 <= Len(src) /\ search.at + 4 <= matchLimit /\ q <= search.at - 1
    BY <1>1, SearchPlace, CandidateIs
  <2>2. Same(search.at, q, 4)
    <3> HIDE DEF q
    <3>1. q + 4 <= Len(src)
      BY <1>6, <1>8, <2>1
    <3> QED
      BY <1>6, <1>8, <1>10, <2>1, <3>1, QuadsEqual
  <2>3. search.at <= matchLimit /\ 4 \in 0 .. matchLimit - search.at
    BY <1>8, <2>1
  <2> QED
    BY <1>8, <1>12, <2>2, <2>3, CommonIs
<1> HIDE DEF q, l, c
<1>16. end \in Nat /\ end = l - 3
  BY <1>6, <1>8, <1>15
<1>17. ChainAhead \in Walks /\ FromTable(ChainAhead, end)
  <2>1. ChainAhead = BestChain(end)
    BY DEF ChainAhead, l
  <2> HIDE DEF end
  <2> QED
    BY <1>8, <1>16, <2>1, BestOfChain
<1>18. x \in Nat /\ x + 4 <= l /\ ChainAhead.dist = Chain(c + x)
  <2>1. ChainAhead.dist # 1 /\ x \in Nat
    BY <1>5, <1>17 DEF Walks
  <2>2. x < end /\ ChainAhead.dist = Chain(c + x)
    BY <1>17, <2>1 DEF FromTable, c
  <2> HIDE DEF x
  <2> QED
    BY <1>6, <1>16, <2>1, <2>2
<1>19. /\ s.at = search.at /\ s.cand = c - Chain(c + x) /\ s.chainPos = x /\ s.longest = l
  <2>1. search' = [Compared EXCEPT !.cand = c - Chain(c + x), !.chainPos = x]
    BY <1>3, <1>18 DEF SwapChain, c
  <2>2. Compared \in Searches
    BY <1>3 DEF SearchOK
  <2> QED
    BY <1>3, <2>1, <2>2 DEF Searches, l
<1> HIDE DEF x, s, end
<1>20. HashAt(c + x) = HashAt(Index(search.at) + x)
  <2>1. PICK p : p = search.at
    OBVIOUS
  <2>2. p + l <= Len(src) /\ q + l <= Len(src)
    <3>1. PICK m, z : m = matchLimit /\ z = Len(src)
      OBVIOUS
    <3>2. /\ m \in Nat /\ z \in Nat /\ p \in Nat /\ q \in Nat /\ l \in Nat /\ START \in Nat
          /\ m <= z /\ l <= m - p /\ (START + q) + l <= START + p
      BY <1>6, <1>8, <1>13, <1>14, <2>1, <3>1
    <3>3. p + l <= z /\ q + l <= z
      BY ONLY <3>2
    <3> QED
      BY <3>1, <3>3
  <2>3. /\ src \in Seq(U8) /\ p \in Nat /\ q \in Nat /\ l \in Nat /\ x \in Nat
        /\ Same(p, q, l) /\ x + 4 <= l /\ p + l <= Len(src) /\ q + l <= Len(src)
    BY <1>6, <1>8, <1>13, <1>18, <2>1, <2>2
  <2>4. HashAt((START + q) + x) = HashAt((START + p) + x)
    BY ONLY <2>3, HashAhead
  <2> QED
    BY <1>6, <1>8, <2>1, <2>4
<1>21. c + x < Index(search.at)
  <2>1. PICK i : i = Index(search.at)
    OBVIOUS
  <2>2. i \in Nat /\ c + l <= i
    BY <1>8, <1>14, <2>1
  <2> QED
    BY <1>6, <1>18, <2>1, <2>2
<1>22. \A r \in MayMatch(search.at) : Worth(search.at, r) <= l \/ Index(r) < c
  BY <1>1, <1>2, BehindCandidate DEF c, l
<1>23. x = 0 \/ (ChainSwap /\ x + 4 <= l)
  BY <1>2, <1>18
<1>24. KnowsSearch(s)
  BY <1>1, <1>6, <1>7, <1>18, <1>19, <1>20, <1>21, <1>22, <1>23, GoesOn
<1> QED
  BY <1>24 DEF s

(* In a repetition the first four bytes are the same everywhere.           *)
LEMMA PatternQuad ==
  ASSUME src \in Seq(U8), NEW p \in Nat, NEW q \in Nat, NEW k \in Nat, NEW l \in Nat,
         Pattern(p, k), Pattern(q, l), k >= 4, l >= 4, p + k <= Len(src), q + l <= Len(src)
  PROVE  Quad(p) = Quad(q) /\ HashAt(START + p) = HashAt(START + q)
<1> DEFINE a == Quad(p)
           b == Quad(q)
<1>1. Len(src) \in Nat /\ p + 4 <= Len(src) /\ q + 4 <= Len(src)
  OBVIOUS
<1>2. /\ a \in [1 .. 4 -> U8] /\ b \in [1 .. 4 -> U8]
      /\ \A i \in 1 .. 4 : a[i] = src[p + i]
      /\ \A i \in 1 .. 4 : b[i] = src[q + i]
  BY <1>1, QuadIs
<1> HIDE DEF a, b
<1>3. ASSUME NEW i \in 1 .. 4 PROVE a[i] = b[i]
  <2>1. i \in 1 .. k /\ i \in 1 .. l
    OBVIOUS
  <2>2. src[p + i] = src[search.at + 1] /\ src[q + i] = src[search.at + 1]
    BY <2>1 DEF Pattern
  <2> QED
    BY <1>2, <2>2
<1>4. a = [i \in 1 .. 4 |-> a[i]] /\ b = [i \in 1 .. 4 |-> b[i]]
  BY <1>2
<1>5. a = b
  BY <1>3, <1>4
<1>6. (START + p) - START = p /\ (START + q) - START = q
  BY HcNumbers
<1> QED
  BY <1>5, <1>6 DEF a, b, HashAt

(* No match goes on behind the end of a repetition, here or there, unless  *)
(* it goes on behind both.                                                 *)
LEMMA RepetitionEnds ==
  ASSUME FinderInv, Searching, InPattern, NEW p \in Nat, p = search.cand - 1 - START,
         NEW f, f = Forward(p), NEW b, b = Backward(p), NEW w, w = Forward(search.at),
         NEW r \in Nat, p - b <= r, r <= p
  PROVE  LET e == f + (p - r)
         IN  /\ e \in Nat /\ Pattern(r, e)
             /\ e < w => Common(search.at, r) <= e
             /\ e > w => Common(search.at, r) <= w
<1> DEFINE e == f + (p - r)
           at == search.at
           m == matchLimit
           k == Common(at, r)
<1>1. /\ p <= at - 2 /\ f \in Nat /\ b \in Nat /\ w \in Nat /\ f >= 4 /\ w >= 4
      /\ w <= m - at /\ Pattern(at, w) /\ Pattern(p - b, f + b) /\ p - b \in Nat
  BY PatternIs
<1>2. /\ at \in Nat /\ m \in Nat /\ m <= Len(src) /\ Len(src) \in Nat /\ src \in Seq(U8)
      /\ at <= m
  BY SearchTypes, SearchPlace
<1>3. k \in Nat /\ k <= m - at /\ Same(at, r, k)
  BY <1>2, CommonIs
<1>4. \A y \in 0 .. m - at : Pattern(at, y) => y <= w
  BY <1>2, ForwardIs
<1>5. p <= m
  <2>1. /\ at \in Nat /\ m \in Nat /\ p <= at - 2 /\ at <= m
    BY <1>1, <1>2
  <2> HIDE DEF at, m
  <2> QED
    BY ONLY p \in Nat, <2>1
<1>6. Pattern(p, f) /\ \A y \in 0 .. m - p : Pattern(p, y) => y <= f
  BY <1>2, <1>5, ForwardIs
<1>8. \A q, x : Pattern(q, x) <=> \A i \in 1 .. x : src[q + i] = src[at + 1]
  BY DEF Pattern
<1> HIDE DEF at, m, k
<1>9. e \in Nat /\ e <= f + b
  BY <1>1
<1>10. Pattern(r, e)
  <2> SUFFICES ASSUME NEW i \in 1 .. e PROVE src[r + i] = src[at + 1]
    BY <1>8
  <2> DEFINE j == i + (r - (p - b))
  <2>1. j \in 1 .. f + b /\ (p - b) + j = r + i
    BY <1>1, <1>9
  <2> HIDE DEF j
  <2> QED
    BY <1>1, <1>8, <2>1
<1>11. ASSUME e < w PROVE k <= e
  <2> SUFFICES ASSUME ~(k <= e) PROVE FALSE
    OBVIOUS
  <2> DEFINE j == e + 1
  <2>1. j \in 1 .. k /\ j \in 1 .. w /\ r + j = p + (f + 1)
    BY <1>1, <1>3, <1>9, <1>11
  <2>2. src[at + j] = src[at + 1] /\ src[at + j] = src[r + j]
    BY <1>1, <1>3, <1>8, <2>1 DEF Same
  <2>3. src[p + (f + 1)] = src[at + 1]
    BY <2>1, <2>2
  <2>4. Pattern(p, f + 1)
    <3> SUFFICES ASSUME NEW i \in 1 .. f + 1 PROVE src[p + i] = src[at + 1]
      BY <1>8
    <3>1. CASE i = f + 1
      BY <2>3, <3>1
    <3>2. CASE i # f + 1
      <4>1. i \in 1 .. f
        BY <1>1, <3>2
      <4> QED
        BY <1>6, <1>8, <4>1
    <3> QED
      BY <3>1, <3>2
  <2>5. f + 1 \in 0 .. m - p
    <3>1. /\ e + 1 <= k /\ r + (e + 1) = p + (f + 1) /\ k <= m - at /\ p <= at - 2
          /\ e \in Nat /\ k \in Nat /\ m \in Nat /\ at \in Nat /\ f \in Nat /\ r <= p
      BY <1>1, <1>2, <1>3, <1>9, <2>1
    <3> HIDE DEF e
    <3> QED
      BY ONLY <3>1, r \in Nat, p \in Nat
  <2>6. f + 1 <= f
    BY <1>6, <2>4, <2>5
  <2> QED
    BY <1>1, <2>6
<1>12. ASSUME e > w PROVE k <= w
  <2> SUFFICES ASSUME ~(k <= w) PROVE FALSE
    OBVIOUS
  <2> DEFINE j == w + 1
  <2>1. j \in 1 .. k /\ j \in 1 .. e
    BY <1>1, <1>3, <1>9, <1>12
  <2>2. src[r + j] = src[at + 1] /\ src[at + j] = src[r + j]
    BY <1>3, <1>8, <1>10, <2>1 DEF Same
  <2>3. src[at + (w + 1)] = src[at + 1]
    BY <2>2
  <2>4. Pattern(at, w + 1)
    <3> SUFFICES ASSUME NEW i \in 1 .. w + 1 PROVE src[at + i] = src[at + 1]
      BY <1>8
    <3>1. CASE i = w + 1
      BY <2>3, <3>1
    <3>2. CASE i # w + 1
      <4>1. i \in 1 .. w
        BY <1>1, <3>2
      <4> QED
        BY <1>1, <1>8, <4>1
    <3> QED
      BY <3>1, <3>2
  <2>5. w + 1 \in 0 .. m - at
    <3>1. /\ w + 1 <= k /\ k <= m - at /\ w \in Nat /\ k \in Nat /\ m \in Nat /\ at \in Nat
      BY <1>1, <1>2, <1>3, <2>1
    <3> QED
      BY ONLY <3>1
  <2>6. w + 1 <= w
    BY <1>4, <2>4, <2>5
  <2> QED
    BY <1>1, <2>6
<1> QED
  BY <1>9, <1>10, <1>11, <1>12 DEF at, k

(* Where patterns are analysed and there is one, only what follows counts. *)
LEMMA WorthInPattern ==
  ASSUME FinderInv, Searching, InPattern, NEW q \in Nat
  PROVE  Worth(search.at, q) = Common(search.at, q) /\ Common(search.at, q) \in Nat
<1>1. PatternAnalysis /\ Repeats(search.at)
  BY DEF InPattern
<1> QED
  BY <1>1, WorthIs

(* To a candidate in the repetition, whose match is no shorter than any    *)
(* that is passed.                                                         *)
LEMMA JumpsTo ==
  ASSUME FinderInv, SearchKnows, Searching, InPattern,
         NEW p \in Nat, p = search.cand - 1 - START,
         NEW f, f = Forward(p), NEW b, b = Backward(p), NEW w, w = Forward(search.at),
         NEW q \in Nat, p - b <= q, q <= p, f + (p - q) >= 4,
         NEW len \in Nat, len <= Common(search.at, q),
         \A r \in p - b .. p : r > q => Common(search.at, r) <= len,
         NEW s, s.at = search.at, s.cand = START + q, s.chainPos = 0,
         s.longest = Compared.longest
  PROVE  KnowsSearch(s)
<1>1. /\ p <= search.at - 2 /\ f \in Nat /\ b \in Nat /\ w \in Nat /\ f >= 4 /\ w >= 4
      /\ w <= matchLimit - search.at /\ Pattern(search.at, w) /\ p - b \in Nat
      /\ search.cand - 1 - b >= Lowest
  BY PatternIs
<1>2. /\ search.at \in Nat /\ matchLimit \in Nat /\ matchLimit <= Len(src)
      /\ Len(src) \in Nat /\ src \in Seq(U8) /\ START \in Nat /\ Lowest \in Nat
      /\ Index(search.at) = START + search.at /\ search.cand \in Nat
  BY SearchTypes, SearchPlace, LowestIs, HcNumbers
<1>3. LookBack < search.min /\ KnowsSearch(search)
  BY SearchPlace DEF SearchKnows
<1>4. Pattern(q, f + (p - q))
  BY RepetitionEnds
<1>5. PICK at, m, z, c, low : /\ at = search.at /\ m = matchLimit /\ z = Len(src)
                              /\ c = search.cand /\ low = Lowest
  OBVIOUS
<1>6. /\ p <= at - 2 /\ f \in Nat /\ b \in Nat /\ w \in Nat /\ at \in Nat /\ m \in Nat
      /\ z \in Nat /\ m <= z /\ w <= m - at /\ START \in Nat /\ c \in Nat /\ low \in Nat
      /\ p = c - 1 - START /\ c - 1 - b >= low /\ w >= 4 /\ p - b \in Nat
  BY <1>1, <1>2, <1>5
<1>7. q + 4 <= z /\ at + 4 <= z /\ START + q >= low /\ START + q < START + at /\ START + q \in Nat
      /\ c = START + p + 1
  BY ONLY <1>6, p \in Nat, q \in Nat, p - b <= q, q <= p
<1>8. Quad(q) = Quad(at) /\ HashAt(START + q) = HashAt(START + at)
  <2>1. Pattern(q, 4) /\ Pattern(at, 4)
    <3>1. \A i \in 1 .. 4 : i \in 1 .. f + (p - q) /\ i \in 1 .. w
      BY <1>6
    <3>2. Pattern(at, w)
      BY <1>1, <1>5
    <3> QED
      BY <1>4, <3>1, <3>2 DEF Pattern
  <2>2. src \in Seq(U8) /\ q + 4 <= Len(src) /\ at + 4 <= Len(src) /\ at \in Nat
    BY <1>2, <1>5, <1>7
  <2> QED
    BY <2>1, <2>2, PatternQuad
<1>9. OnChain(s)
  <2>1. /\ (START + q) + 0 = START + q /\ (START + at) + 0 = START + at
    BY <1>6
  <2> QED
    BY <1>2, <1>5, <1>7, <1>8, <2>1 DEF OnChain
<1>10. ASSUME NEW r \in MayMatch(search.at) PROVE Passed(s, r)
  <2>1. r \in Nat /\ Index(r) = START + r
    BY MayMatchIs
  <2>2. Worth(search.at, r) <= Compared.longest \/ Index(r) < search.cand
    BY <1>3, BehindCandidate
  <2>3. CASE Worth(search.at, r) <= Compared.longest
    BY <2>3 DEF Passed
  <2>4. CASE Index(r) < search.cand /\ r <= q
    <3>1. START + r <= START + q
      BY <1>6, <2>1, <2>4
    <3> QED
      BY <2>1, <3>1 DEF Passed
  <2>5. CASE Index(r) < search.cand /\ ~(r <= q)
    <3>1. START + r < c
      BY <1>5, <2>1, <2>5
    <3>2. r \in p - b .. p /\ r > q
      BY <1>6, <1>7, <2>1, <2>5, <3>1
    <3>3. Common(search.at, r) <= len
      BY <3>2
    <3>4. /\ Worth(search.at, r) = Common(search.at, r) /\ Common(search.at, r) \in Nat
          /\ Worth(search.at, q) = Common(search.at, q) /\ Common(search.at, q) \in Nat
      BY <2>1, WorthInPattern
    <3>5. Worth(search.at, r) <= Worth(search.at, q)
      BY <3>3, <3>4
    <3>6. s.cand - START = q /\ s.cand >= Lowest
      BY <1>5, <1>6, <1>7
    <3> QED
      BY <1>5, <1>8, <3>5, <3>6 DEF Passed
  <2> QED
    BY <2>2, <2>3, <2>4, <2>5
<1> QED
  BY <1>9, <1>10 DEF KnowsSearch

LEMMA JumpInPatternKnows ==
  ASSUME FinderInv, TablesKnow, SearchKnows, JumpInPattern
  PROVE  KnowsSearch(search')
<1> DEFINE c == search.cand
           p == c - 1 - START
           f == Forward(p)
           b == Backward(p)
           w == Forward(search.at)
           first == c - 1 - b
           len == IF f + b < w THEN f + b ELSE w
           k == Compared
           l == Compared.longest
           off == Index(search.at) - first
           s == IF l < len THEN [k EXCEPT !.longest = len, !.offset = off] ELSE k
           to == search'
<1>1. Searching /\ InPattern /\ search.left > 0
  BY SearchPlace DEF JumpInPattern
<1>2. LookBack < search.min /\ KnowsSearch(search) /\ nextToUpdate = Index(search.at)
  BY <1>1 DEF SearchKnows
<1>3. /\ SearchOK(k) /\ k.at = search.at /\ k.cand = c /\ k.chainPos = 0 /\ k \in Searches
  <2>1. SearchOK(k) /\ k.at = search.at /\ k.cand = c /\ k.chainPos = search.chainPos
    BY <1>1, ComparedIsOK
  <2>2. search.chainPos = 0
    BY <1>1 DEF InPattern
  <2> QED
    BY <2>1, <2>2 DEF SearchOK
<1>4. l \in Nat /\ search.longest <= l
  BY <1>1, <1>2, ComparedCovers
<1>5. /\ p \in Nat /\ p <= search.at - 2 /\ p - b \in Nat
      /\ f \in Nat /\ b \in Nat /\ w \in Nat /\ f >= 4 /\ w >= 4
      /\ w <= matchLimit - search.at /\ first >= Lowest
      /\ Pattern(search.at, w) /\ Pattern(p - b, f + b)
  BY <1>1, PatternIs
<1>6. /\ search.at \in Nat /\ matchLimit \in Nat /\ matchLimit <= Len(src)
      /\ Len(src) \in Nat /\ src \in Seq(U8) /\ START \in Nat /\ Lowest \in Nat
      /\ Index(search.at) = START + search.at /\ c \in Nat
  BY <1>1, SearchTypes, SearchPlace, LowestIs, HcNumbers
<1>7. search' = IF Aligned(f, f + b, w) THEN [k EXCEPT !.cand = k.cand - 1 + f - w]
                ELSE IF LookBack > 0 THEN [k EXCEPT !.cand = first]
                ELSE [s EXCEPT !.cand = first - Chain(first)]
  BY DEF JumpInPattern
<1>8. p = c - 1 - START /\ first = c - 1 - b /\ len = IF f + b < w THEN f + b ELSE w
  OBVIOUS
<1>9. ASSUME NEW r \in Nat, p - b <= r, r <= p
      PROVE  /\ f + (p - r) \in Nat /\ Pattern(r, f + (p - r))
             /\ f + (p - r) < w => Common(search.at, r) <= f + (p - r)
             /\ f + (p - r) > w => Common(search.at, r) <= w
  BY <1>1, <1>5, <1>9, RepetitionEnds
<1>10. \A r \in Nat : Common(search.at, r) \in Nat
  BY <1>1, WorthInPattern
<1>11. ASSUME NEW q \in Nat, p - b <= q, q <= p, f + (p - q) >= 4,
              NEW y \in Nat, y <= Common(search.at, q),
              \A r \in p - b .. p : r > q => Common(search.at, r) <= y,
              NEW t, t.at = search.at, t.cand = START + q, t.chainPos = 0, t.longest = l
       PROVE  KnowsSearch(t)
  BY <1>1, <1>5, <1>11, JumpsTo
<1> HIDE DEF p, f, b, w, first, len, l, c, to
<1>12. CASE Aligned(f, f + b, w)
  <2> DEFINE q == p + (f - w)
  <2>1. f + b >= w /\ f <= w
    BY <1>12 DEF Aligned
  <2>2. /\ q \in Nat /\ p - b <= q /\ q <= p /\ f + (p - q) = w
        /\ k.cand - 1 + f - w = START + q
    BY <1>3, <1>5, <1>6, <1>8, <2>1
  <2> HIDE DEF q
  <2>3. w <= Common(search.at, q)
    <3>1. PICK at, m : at = search.at /\ m = matchLimit
      OBVIOUS
    <3>2. at + w <= m /\ at \in Nat /\ m \in Nat
      <4>1. w <= m - at /\ at \in Nat /\ m \in Nat /\ w \in Nat
        BY <1>5, <1>6, <3>1
      <4> QED
        BY ONLY <4>1
    <3>3. Pattern(q, w) /\ Pattern(at, w)
      BY <1>5, <1>9, <2>2, <3>1
    <3>4. w <= Common(at, q)
      BY <1>5, <1>6, <3>1, <3>2, <3>3, PatternsAgree
    <3> QED
      BY <3>1, <3>4
  <2>4. ASSUME NEW r \in p - b .. p, r > q PROVE Common(search.at, r) <= w
    <3>1. r \in Nat /\ p - b <= r /\ r <= p /\ f + (p - r) < w /\ f + (p - r) \in Nat
      BY <1>5, <2>1, <2>2, <2>4
    <3>2. Common(search.at, r) <= f + (p - r) /\ Common(search.at, r) \in Nat
      BY <1>9, <1>10, <3>1
    <3> QED
      BY <1>5, <3>1, <3>2
  <2>5. to.at = search.at /\ to.cand = START + q /\ to.chainPos = 0 /\ to.longest = l
    <3>1. search' = [k EXCEPT !.cand = START + q]
      BY <1>7, <1>12, <2>2
    <3> QED
      BY <1>3, <3>1 DEF Searches, to, l
  <2>6. f + (p - q) >= 4
    BY <1>5, <2>2
  <2>7. KnowsSearch(to)
    BY <1>5, <1>11, <2>2, <2>3, <2>4, <2>5, <2>6
  <2> QED
    BY <2>7 DEF to
<1>13. CASE ~Aligned(f, f + b, w)
  <2>1. f + b < w \/ f > w
    <3>1. ~(f + b >= w /\ f <= w)
      BY <1>13 DEF Aligned
    <3> QED
      BY <1>5, <3>1
  <2>2. len \in Nat /\ len >= 4 /\ len <= w /\ len <= f + b
    BY <1>5, <1>8
  <2>3. ASSUME NEW r \in p - b .. p PROVE Common(search.at, r) <= len
    <3>0. r \in Nat /\ p - b <= r /\ r <= p
      BY <1>5
    <3>1. CASE f + b < w
      <4>1. f + (p - r) < w /\ f + (p - r) <= f + b /\ len = f + b /\ f + (p - r) \in Nat
        BY <1>5, <1>8, <3>0, <3>1
      <4>2. Common(search.at, r) <= f + (p - r) /\ Common(search.at, r) \in Nat
        BY <1>9, <1>10, <3>0, <4>1
      <4> QED
        BY <1>5, <4>1, <4>2
    <3>2. CASE ~(f + b < w)
      <4>1. f + (p - r) > w /\ len = w
        BY <1>5, <1>8, <2>1, <3>0, <3>2
      <4> QED
        BY <1>9, <3>0, <4>1
    <3> QED
      BY <3>1, <3>2
  <2> DEFINE q == p - b
  <2>4. /\ q \in Nat /\ q <= p /\ f + (p - q) = f + b /\ first = START + q /\ q = p - b
    BY <1>5, <1>6, <1>8
  <2> HIDE DEF q
  <2>6. CASE LookBack > 0
    <3>1. len <= Common(search.at, q)
      <4>1. PICK at, m, y : at = search.at /\ m = matchLimit /\ y = f + b
        OBVIOUS
      <4>2. at + len <= m /\ at \in Nat /\ m \in Nat /\ y \in Nat /\ len <= y
        <5>1. /\ w <= m - at /\ at \in Nat /\ m \in Nat /\ w \in Nat /\ len \in Nat
              /\ len <= w /\ f \in Nat /\ b \in Nat /\ y = f + b /\ len <= f + b
          BY <1>5, <1>6, <2>2, <4>1
        <5> QED
          BY ONLY <5>1
      <4>3. Pattern(q, y) /\ Pattern(at, w)
        BY <1>5, <2>4, <4>1
      <4>4. len <= Common(at, q)
        BY <1>5, <1>6, <2>2, <2>4, <4>1, <4>2, <4>3, PatternsAgree
      <4> QED
        BY <4>1, <4>4
    <3>2. to.at = search.at /\ to.cand = START + q /\ to.chainPos = 0 /\ to.longest = l
      <4>1. search' = [k EXCEPT !.cand = START + q]
        BY <1>7, <1>13, <2>4, <2>6
      <4> QED
        BY <1>3, <4>1 DEF Searches, to, l
    <3>3. f + (p - q) >= 4 /\ p - b <= q
      BY <1>5, <2>2, <2>4
    <3>4. KnowsSearch(to)
      BY <1>5, <1>11, <2>2, <2>3, <2>4, <3>1, <3>2, <3>3
    <3> QED
      BY <3>4 DEF to
  <2>7. CASE ~(LookBack > 0)
    <3> DEFINE y == IF l < len THEN len ELSE l
    <3>1. y \in Nat /\ l <= y /\ len <= y
      BY <1>4, <2>2 DEF l
    <3>2. /\ to.at = search.at /\ to.cand = first - Chain(first) /\ to.chainPos = 0
          /\ to.longest = y
      <4>1. search' = [s EXCEPT !.cand = first - Chain(first)]
        BY <1>7, <1>13, <2>7
      <4>2. /\ s.at = search.at /\ s.chainPos = 0 /\ s.longest = y
            /\ DOMAIN s = DOMAIN k
        <5>1. CASE l < len
          BY <1>3, <5>1 DEF Searches
        <5>2. CASE ~(l < len)
          BY <1>3, <5>2 DEF Searches, l
        <5> QED
          BY <5>1, <5>2
      <4>3. DOMAIN s = {"at", "low", "min", "start", "longest", "offset", "cand", "left", "chainPos"}
        BY <1>3, <4>2 DEF Searches
      <4> HIDE DEF s, y
      <4> QED
        BY <4>1, <4>2, <4>3 DEF to
    <3> HIDE DEF y, s
    <3>3. first \in Nat /\ first + 0 = first /\ first + 0 < Index(search.at) /\ first >= Lowest
      <4>1. PICK at : at = search.at
        OBVIOUS
      <4>2. at \in Nat /\ p <= at - 2 /\ p \in Nat /\ Index(search.at) = START + at
        BY <1>5, <1>6, <4>1
      <4>3. first \in Nat /\ first < START + at
        <5>1. /\ START \in Nat /\ q \in Nat /\ q <= p /\ p <= at - 2 /\ at \in Nat
              /\ p \in Nat /\ first = START + q
          BY <1>6, <2>4, <4>2
        <5> QED
          BY ONLY <5>1
      <4> QED
        BY <1>5, <4>2, <4>3
    <3>4. HashAt(first + 0) = HashAt(Index(search.at) + 0)
      <4>1. PICK at, m, z : at = search.at /\ m = matchLimit /\ z = Len(src)
        OBVIOUS
      <4>2. /\ at \in Nat /\ m \in Nat /\ z \in Nat /\ m <= z /\ w <= m - at /\ p <= at - 2
            /\ w \in Nat /\ w >= 4 /\ q <= p /\ q \in Nat /\ p \in Nat /\ START \in Nat
        BY <1>5, <1>6, <2>4, <4>1
      <4>3. q + 4 <= z /\ at + 4 <= z /\ (START + at) + 0 = START + at
        BY ONLY <4>2
      <4>4. Pattern(q, 4) /\ Pattern(at, 4)
        <5>1. \A i \in 1 .. 4 : i \in 1 .. f + b /\ i \in 1 .. w
          BY <1>5
        <5> QED
          BY <1>5, <2>4, <4>1, <5>1 DEF Pattern
      <4>5. HashAt(START + q) = HashAt(START + at)
        BY <1>6, <4>1, <4>2, <4>3, <4>4, PatternQuad
      <4> QED
        BY <1>6, <2>4, <3>3, <4>1, <4>3, <4>5
    <3>5. ASSUME NEW r \in MayMatch(search.at) PROVE Worth(search.at, r) <= y \/ Index(r) < first
      <4>1. r \in Nat /\ Index(r) = START + r
        BY MayMatchIs, <1>1
      <4>2. Worth(search.at, r) <= l \/ Index(r) < c
        BY <1>1, <1>2, BehindCandidate DEF c, l
      <4>3. Worth(search.at, r) = Common(search.at, r) /\ Common(search.at, r) \in Nat
        BY <1>1, <4>1, WorthInPattern
      <4>4. CASE Worth(search.at, r) <= l
        BY <1>4, <3>1, <4>3, <4>4 DEF l
      <4>5. CASE Index(r) < c /\ Index(r) >= first
        <5>1. r \in p - b .. p
          BY <1>5, <1>6, <1>8, <2>4, <4>1, <4>5
        <5>2. Common(search.at, r) <= len
          BY <2>3, <5>1
        <5> QED
          BY <2>2, <3>1, <4>3, <5>2
      <4> QED
        BY <1>6, <3>3, <4>1, <4>2, <4>4, <4>5
    <3>6. first - Chain(first) = first - Chain(first + 0)
      BY <3>3
    <3>7. KnowsSearch(to)
      <4>1. /\ 0 \in Nat /\ to.cand = first - Chain(first + 0)
        BY <3>2, <3>6
      <4> QED
        BY <1>1, <3>1, <3>2, <3>3, <3>4, <3>5, <4>1, GoesOn
    <3> QED
      BY <3>7 DEF to
  <2> QED
    BY <2>6, <2>7
<1> QED
  BY <1>12, <1>13

(* What is known is about the call, the input and the level.               *)
LEMMA SameKnown ==
  ASSUME SameCall(search'), UNCHANGED <<src, level>>
  PROVE  /\ KnowsSearch(search)' <=> KnowsSearch(search')
         /\ LookBack' = LookBack /\ ChainSwap' = ChainSwap
         /\ Index(search.at)' = Index(search.at) /\ search'.min = search.min
<1>1. search'.at = search.at /\ search'.low = search.low /\ search'.min = search.min
  BY DEF SameCall
<1>2. \A p : Index(p)' = Index(p)
  BY DEF Index, START
<1>3. LookBack' = LookBack /\ ChainSwap' = ChainSwap /\ PatternAnalysis' = PatternAnalysis
  BY <1>1 DEF LookBack, ChainSwap, PatternAnalysis
<1>4. Lowest' = Lowest /\ Index(search.at)' = Index(search.at)
  BY <1>1 DEF Lowest, Index, START
<1>5. \A p, q : Common(p, q)' = Common(p, q)
  BY DEF Common, matchLimit
<1>6. \A p, q : Before(p, q)' = Before(p, q)
  BY <1>3 DEF Before
<1>7. \A p : Repeats(p)' <=> Repeats(p)
  BY <1>1 DEF Repeats
<1>8. \A p, q : Worth(p, q)' = Worth(p, q)
  BY <1>3, <1>5, <1>6, <1>7 DEF Worth
<1>9. (\A i : HashAt(i)' = HashAt(i)) /\ \A p : Quad(p)' = Quad(p)
  BY HashSame
<1>11. OnChain(search)' <=> OnChain(search')
  BY <1>1, <1>3, <1>4, <1>9 DEF OnChain, Index, START, HashAt, Quad
<1>12. \A r : Passed(search, r)' <=> Passed(search', r)
  BY <1>1, <1>2, <1>4, <1>8, <1>9 DEF Passed, START, Index, Quad
<1>13. MayMatch(search.at)' = MayMatch(search'.at)
  BY <1>1, <1>9 DEF MayMatch, Quad
<1> QED
  BY <1>1, <1>3, <1>4, <1>11, <1>12, <1>13 DEF KnowsSearch

LEMMA LookKnows ==
  ASSUME FinderInv, TablesKnow, SearchKnows, Look, UNCHANGED <<src, level>>
  PROVE  TablesKnow' /\ SearchKnows'
<1>1. UNCHANGED <<hashTable, chainTable, nextToUpdate>>
  BY DEF Look
<1>2. TablesKnow'
  BY <1>1, HashSame DEF TablesKnow
<1>3. SameCall(search')
  BY LookKeeps
<1>4. KnowsSearch(search')
  BY SwapChainKnows, JumpInPatternKnows, FollowChainKnows DEF Look
<1>5. search.left > 0
  BY DEF Look, SwapChain, JumpInPattern, FollowChain, Searching
<1>6. SearchKnows'
  BY <1>1, <1>3, <1>4, <1>5, SameKnown DEF SearchKnows
<1> QED
  BY <1>2, <1>6

LEMMA KnownStays ==
  ASSUME TablesKnow, SearchKnows, UNCHANGED <<hashTable, chainTable, nextToUpdate, search, src, level>>
  PROVE  TablesKnow' /\ SearchKnows'
<1>1. TablesKnow'
  BY HashSame DEF TablesKnow
<1>2. SameCall(search')
  BY DEF SameCall
<1>3. KnowsSearch(search') <=> KnowsSearch(search)
  OBVIOUS
<1>4. SearchKnows'
  BY <1>2, <1>3, SameKnown DEF SearchKnows
<1> QED
  BY <1>1, <1>4

-----------------------------------------------------------------------------
(* Every step begins a search, goes on with it, or leaves the finder.      *)
LEMMA FinderSteps ==
  ASSUME HcInv, [HcNext]_hcVars
  PROVE  /\ Finds \/ Look \/ UNCHANGED finderVars
         /\ UNCHANGED <<src, level>>
<1>1. src' = src
  <2>1. Encoder!Next \/ UNCHANGED Encoder!vars
    BY HcStep
  <2> QED
    BY <2>1 DEF Encoder!Next, Encoder!vars, Encoder!EncodeSequence, Encoder!Overflow,
       Encoder!ShortenSequence, Encoder!LastLiterals
<1>2. CASE Optimal
  <2>1. level.strat = "lz4opt" /\ Compress
    BY <1>2 DEF Optimal
  <2>2. CASE FindFirst
    <3>1. OptimalHere
      BY <2>1, <2>2 DEF OptimalHere, FindFirst
    <3> QED
      BY <1>1, <2>2, <3>1, OptimalFindFirst DEF OptimalHere
  <2>3. CASE FindFurther
    <3>1. OptimalHere
      BY <2>1, <2>3 DEF OptimalHere, FindFurther
    <3> QED
      BY <1>1, <2>3, <3>1, OptimalFindFurther DEF OptimalHere
  <2>4. CASE Search
    BY <1>1, <2>4 DEF Search
  <2>5. CASE NoMatch \/ EncodeAtOnce \/ Skip \/ NoImprovement
    BY <1>1, <2>5 DEF NoMatch, EncodeAtOnce, Skip, NoImprovement
  <2>6. CASE SetPrices
    BY <1>1, <2>6, Zenon DEF SetPrices
  <2>7. CASE Improve
    BY <1>1, <2>7, Zenon DEF Improve
  <2>8. CASE TakeNow \/ Elect \/ Encode \/ Finish
    BY <1>1, <2>8 DEF TakeNow, Elect, Encode, Finish
  <2> QED
    BY <2>1, <2>2, <2>3, <2>4, <2>5, <2>6, <2>7, <2>8 DEF Compress
<1>3. CASE Chains
  <2>1. ChainHere /\ HashChain!Compress /\ level' = level
    BY <1>3 DEF Chains, ChainHere
  <2>2. CASE HashChain!FindFirst
    BY <1>1, <2>1, <2>2, ChainFindFirst
  <2>3. CASE HashChain!FindSecond
    BY <1>1, <2>1, <2>3, ChainFindSecond
  <2>4. CASE HashChain!FindThird
    BY <1>1, <2>1, <2>4, ChainFindThird
  <2>5. CASE HashChain!Search
    BY <1>1, <2>1, <2>5, SameLook DEF HashChain!Search
  <2>6. CASE ~(HashChain!FindFirst \/ HashChain!FindSecond \/ HashChain!FindThird
               \/ HashChain!Search)
    <3>1. UNCHANGED HashChain!finderVars
      BY <2>1, <2>6 DEF HashChain!Compress, HashChain!NoMatch, HashChain!FirstMatch,
         HashChain!SecondMatch, HashChain!EncodeOne, HashChain!EncodeBoth,
         HashChain!DropSecond, HashChain!ReplaceSecond, HashChain!WriteFirst, HashChain!Finish
    <3> QED
      BY <1>1, <2>1, <3>1 DEF HashChain!finderVars, finderVars
  <2> QED
    BY <2>2, <2>3, <2>4, <2>5, <2>6
<1>4. CASE UNCHANGED hcVars
  BY <1>4 DEF hcVars, allVars
<1> QED
  BY <1>2, <1>3, <1>4 DEF HcNext, Returned

LEMMA LongStart ==
  ASSUME HcInit
  PROVE  TablesKnow /\ SearchKnows
<1>1. FinderInit
  BY DEF HcInit, ParserInit
<1>2. /\ hashTable = [h \in Hashes |-> 0] /\ nextToUpdate = START /\ search.left = 0
      /\ START .. START - 1 = {}
  <2>1. START .. START - 1 = {}
    BY HcNumbers
  <2> QED
    BY <1>1, <2>1 DEF FinderInit
<1>3. KnowsLast(hashTable, nextToUpdate) /\ KnowsChain(chainTable, nextToUpdate)
  BY <1>2 DEF KnowsLast, KnowsChain
<1>4. SearchKnows
  BY <1>2 DEF SearchKnows
<1> QED
  BY <1>3, <1>4 DEF TablesKnow

LEMMA LongStep ==
  ASSUME LongInv, [HcNext]_hcVars
  PROVE  LongInv'
<1>1. HcInv /\ FinderInv /\ TablesKnow /\ SearchKnows
  BY DEF LongInv, HcInv
<1>2. HcInv'
  BY <1>1, HcStep
<1>3. /\ Finds \/ Look \/ UNCHANGED finderVars
      /\ UNCHANGED <<src, level>>
  BY <1>1, FinderSteps
<1>4. CASE Finds
  <2>1. PICK at, low, min : MayFind(at, low, min) /\ Find(at, low, min)
    BY <1>4 DEF Finds
  <2>2. TablesKnow' /\ SearchKnows'
    BY <1>1, <1>3, <2>1, FindKnows DEF MayFind
  <2> QED
    BY <1>2, <2>2 DEF LongInv
<1>5. CASE Look
  BY <1>1, <1>2, <1>3, <1>5, LookKnows DEF LongInv
<1>6. CASE UNCHANGED finderVars
  <2>1. TablesKnow' /\ SearchKnows'
    BY <1>1, <1>3, <1>6, KnownStays DEF finderVars
  <2> QED
    BY <1>2, <2>1 DEF LongInv
<1> QED
  BY <1>3, <1>4, <1>5, <1>6

LEMMA LongInvariant == HcSpec => []LongInv
<1>1. HcInit => LongInv
  BY HcStart, LongStart DEF LongInv
<1>2. LongInv /\ [HcNext]_hcVars => LongInv'
  BY LongStep
<1> QED
  BY <1>1, <1>2, PTL DEF HcSpec

(* A search that ends for want of candidates has found the longest match.  *)
LEMMA NothingIsPassed ==
  ASSUME LongInv
  PROVE  FindsLongest
<1> SUFFICES ASSUME ~Searching, search.left > 0,
                    NEW r \in MayMatch(search.at), Worth(search.at, r) > search.min
             PROVE  search.longest >= Worth(search.at, r)
  BY DEF FindsLongest, Lengths, MayMatch
<1>1. FinderInv /\ KnowsSearch(search)
  BY DEF LongInv, HcInv, SearchKnows
<1>2. Passed(search, r)
  BY <1>1 DEF KnowsSearch
<1>3. /\ search.cand \in Nat /\ search.left \in Nat /\ search.longest \in Nat
      /\ search.at \in Nat /\ search \in Searches
  BY <1>1, SearchTypes
<1>4. search.cand < Lowest /\ Lowest \in Nat
  <2>1. Lowest \in Nat
    BY <1>3, LowestIs
  <2> QED
    BY <1>3, <2>1 DEF Searching
<1>5. /\ r \in Nat /\ r < search.at /\ search.at - r <= DISTANCE_MAX
      /\ Index(r) = START + r /\ Index(r) \in Nat
  BY <1>1, MayMatchIs
<1>6. Lowest <= Index(r)
  <2>1. Lowest = IF START + DISTANCE_MAX + 1 > START + search.at THEN START
                 ELSE (START + search.at) - DISTANCE_MAX
    BY DEF Lowest, Index
  <2>2. PICK at : at = search.at
    OBVIOUS
  <2>3. /\ at \in Nat /\ at - r <= DISTANCE_MAX /\ START \in Nat /\ DISTANCE_MAX \in Nat
        /\ Lowest = IF START + DISTANCE_MAX + 1 > START + at THEN START
                    ELSE (START + at) - DISTANCE_MAX
    BY <1>3, <1>5, <2>1, <2>2, HcNumbers
  <2>4. Lowest <= START + r
    BY ONLY <2>3, <1>5
  <2> QED
    BY <1>5, <2>4
<1>7. ~(Index(r) <= search.cand) /\ ~(search.cand >= Lowest)
  BY <1>3, <1>4, <1>5, <1>6
<1>8. Worth(search.at, r) <= search.longest
  BY <1>2, <1>7 DEF Passed
<1> QED
  BY <1>8

(* LZ4HC_InsertAndGetWiderMatch looks at no more than nbSearches           *)
(* candidates and jumps over the others, to the farthest of the next ones  *)
(* of a match (chainSwap) or through a repetition (patternAnalysis): it    *)
(* passes no match that is longer than what it returns, although the       *)
(* places of chainTable are used over and over again.                      *)
THEOREM TheLongestIsFound == HcSpec => []FindsLongest
<1>1. LongInv => FindsLongest
  BY NothingIsPassed
<1> QED
  BY <1>1, LongInvariant, PTL

(***************************************************************************)
(* That the elected way takes no more bytes than its price needs a third   *)
(* invariant, of the table.  No price is more than one above the price of  *)
(* the position before; a match was entered with the price that the row    *)
(* where it begins still has, and so were the shorter ones; and literals   *)
(* stand only behind the end of a match.                                   *)
(***************************************************************************)
LEMMA PriceNumbers ==
  /\ MASK \in Nat /\ MASK >= 4 /\ MAXBYTE \in Nat \ {0} /\ MAXBYTE >= MASK + 4
  /\ TRAILING_LITERALS = 3 /\ MINMATCH = 4
<1>1. MASK \in Nat /\ MASK >= 4 /\ TRAILING_LITERALS = 3
  BY Numbers, PriceAssumption DEF TRAILING_LITERALS
<1> DEFINE k == MASK + 1
<1>2. k \in Nat /\ k >= 5
  BY <1>1
<1>3. 5 * k <= k * k
  <2> HIDE DEF k
  <2> QED
    BY <1>2, ProductMono
<1>4. k * k \in Nat
  BY <1>2
<1>5. MAXBYTE = k * k - 1
  BY Lz4Assumption
<1>6. MAXBYTE \in Nat \ {0} /\ MAXBYTE >= k + 3
  <2> HIDE DEF k
  <2> QED
    BY <1>2, <1>3, <1>4, <1>5
<1> QED
  BY <1>1, <1>6, HcNumbers

LEMMA QuotientBounds ==
  ASSUME NEW m \in Nat \ {0}, NEW a \in Nat, NEW q, q = a \div m
  PROVE  q \in Nat /\ q * m \in Nat /\ q * m <= a /\ a < q * m + m
<1>1. PICK r : r = a % m
  OBVIOUS
<1>2. q \in Nat /\ r \in 0 .. m - 1 /\ q * m + r = a
  BY <1>1, QuotientRemainder
<1>3. PICK s : s = q * m
  OBVIOUS
<1>4. s \in Nat /\ s + r = a
  BY <1>2, <1>3
<1>5. s <= a /\ a < s + m
  BY <1>2, <1>4
<1> QED
  BY <1>2, <1>3, <1>4, <1>5

(* How many times MAXBYTE is in a length.                                  *)
Whole(d) == d \div MAXBYTE

LEMMA WholeIs ==
  ASSUME NEW x \in Nat, NEW y \in Nat
  PROVE  /\ Whole(x) \in Nat
         /\ x < MAXBYTE => Whole(x) = 0
         /\ x <= y => Whole(x) <= Whole(y)
         /\ Whole(x + MAXBYTE) = Whole(x) + 1
         /\ Whole(x) + Whole(y) <= Whole(x + y)
         /\ Whole(x + y) <= Whole(x) + Whole(y) + 1
<1>1. PICK B \in Nat \ {0} : B = MAXBYTE
  BY PriceNumbers
<1>2. PICK p, q : p = x \div B /\ q = y \div B
  OBVIOUS
<1>3. /\ p \in Nat /\ q \in Nat /\ p * B <= x /\ q * B <= y /\ p * B \in Nat /\ q * B \in Nat
      /\ x < p * B + B /\ y < q * B + B
  BY <1>2, QuotientBounds
<1>4. x < B => p = 0
  <2>1. x < B => x < (0 + 1) * B
    BY <1>1
  <2>2. x < B => p <= 0
    BY <1>2, <2>1, QuotientAtMost
  <2> QED
    BY <1>3, <2>2
<1>5. x <= y => p <= q
  <2>1. x <= y => x + 0 <= y
    OBVIOUS
  <2>2. x <= y => p + (0 \div B) <= q
    BY <1>2, <2>1, QuotientSum
  <2>3. 0 \div B \in Nat
    BY QuotientRemainder
  <2> QED
    BY <1>3, <2>2, <2>3
<1>6. (x + B) \div B = p + 1
  BY <1>2, QuotientNext
<1>7. p + q <= (x + y) \div B
  BY <1>2, QuotientSum
<1>8. (x + y) \div B <= p + q + 1
  <2>1. ((p + q + 1) + 1) * B = (p * B + B) + (q * B + B)
    BY <1>3
  <2>2. PICK r \in Nat, s \in Nat : r = p * B /\ s = q * B
    BY <1>3
  <2>3. x + y < ((p + q + 1) + 1) * B
    BY <1>3, <2>1, <2>2
  <2> QED
    BY <1>3, <2>3, QuotientAtMost
<1> QED
  BY <1>1, <1>2, <1>3, <1>4, <1>5, <1>6, <1>7, <1>8 DEF Whole

(* The bytes that a length takes, from one length to another.              *)
LEMMA ExtensionIs ==
  ASSUME NEW a \in Int
  PROVE  /\ ExtensionSize(a) \in Nat
         /\ a < MASK => ExtensionSize(a) = 0
         /\ a >= MASK => a - MASK \in Nat /\ ExtensionSize(a) = Whole(a - MASK) + 1
<1>1. MASK \in Nat
  BY PriceNumbers
<1>2. a >= MASK => a - MASK \in Nat
  BY <1>1
<1>3. a >= MASK => ExtensionSize(a) = Whole(a - MASK) + 1
  BY <1>1 DEF ExtensionSize, Whole
<1>4. a < MASK => ExtensionSize(a) = 0
  BY DEF ExtensionSize
<1>5. a >= MASK => Whole(a - MASK) \in Nat
  BY <1>2, WholeIs
<1> QED
  BY <1>1, <1>2, <1>3, <1>4, <1>5

LEMMA ExtensionGrows ==
  ASSUME NEW a \in Nat, NEW d \in Nat
  PROVE  /\ ExtensionSize(a) + Whole(d) <= ExtensionSize(a + d)
         /\ ExtensionSize(a + d + 1) <= ExtensionSize(a) + 1 + Whole(d)
<1>1. PICK M \in Nat, B \in Nat : M = MASK /\ B = MAXBYTE /\ M >= 4 /\ B >= M + 4
  BY PriceNumbers
<1>2. PICK e, f, g : /\ e = ExtensionSize(a) /\ f = ExtensionSize(a + d)
                     /\ g = ExtensionSize(a + d + 1)
  OBVIOUS
<1>3. /\ e \in Nat /\ (a < M => e = 0) /\ (a >= M => a - M \in Nat /\ e = Whole(a - M) + 1)
  BY <1>1, <1>2, ExtensionIs
<1>4. /\ f \in Nat /\ (a + d < M => f = 0)
      /\ (a + d >= M => (a + d) - M \in Nat /\ f = Whole((a + d) - M) + 1)
  <2>1. a + d \in Int
    OBVIOUS
  <2> QED
    BY <1>1, <1>2, <2>1, ExtensionIs
<1>5. /\ g \in Nat /\ (a + d + 1 < M => g = 0)
      /\ (a + d + 1 >= M => (a + d + 1) - M \in Nat /\ g = Whole((a + d + 1) - M) + 1)
  <2>1. a + d + 1 \in Int
    OBVIOUS
  <2> QED
    BY <1>1, <1>2, <2>1, ExtensionIs
<1>6. Whole(d) \in Nat
  BY WholeIs
<1>7. CASE a >= M
  <2>1. PICK x \in Nat : x = a - M
    BY <1>3, <1>7
  <2>2. (a + d) - M = x + d /\ (a + d + 1) - M = x + (d + 1) /\ a + d >= M /\ a + d + 1 >= M
    BY <1>1, <1>7, <2>1
  <2>3. e = Whole(x) + 1 /\ f = Whole(x + d) + 1 /\ g = Whole(x + (d + 1)) + 1
    BY <1>3, <1>4, <1>5, <1>7, <2>1, <2>2
  <2>4. Whole(x) + Whole(d) <= Whole(x + d) /\ Whole(x) \in Nat /\ Whole(x + d) \in Nat
    <3>1. x + d \in Nat
      OBVIOUS
    <3> QED
      BY <3>1, WholeIs
  <2>5. Whole(x + (d + 1)) <= Whole(x) + Whole(d) + 1
    <3>1. PICK p \in Nat, q \in Nat : p = Whole(x) /\ q = Whole(d)
      BY <1>6, <2>4
    <3>2. x < p * B + B /\ d < q * B + B /\ p * B \in Nat /\ q * B \in Nat
      <4>1. p = x \div B /\ q = d \div B /\ B \in Nat \ {0}
        BY <1>1, <3>1 DEF Whole
      <4> QED
        BY <4>1, QuotientBounds
    <3>3. ((p + q + 1) + 1) * B = (p * B + B) + (q * B + B)
      BY <1>1
    <3>4. PICK r \in Nat, s \in Nat : r = p * B /\ s = q * B
      BY <3>2
    <3>5. x + (d + 1) < ((p + q + 1) + 1) * B
      BY <1>1, <3>2, <3>3, <3>4
    <3>6. (x + (d + 1)) \div B <= p + q + 1
      <4>1. B \in Nat \ {0} /\ x + (d + 1) \in Nat /\ p + q + 1 \in Nat
        BY <1>1
      <4> QED
        BY <3>5, <4>1, QuotientAtMost
    <3> QED
      BY <1>1, <3>1, <3>6 DEF Whole
  <2>6. Whole(x + (d + 1)) \in Nat
    BY WholeIs
  <2> QED
    BY <1>2, <1>6, <2>3, <2>4, <2>5, <2>6
<1>8. CASE a < M
  <2>1. e = 0
    BY <1>3, <1>8
  <2>2. Whole(d) <= f
    <3>1. CASE a + d < M
      <4>1. d < B
        BY <1>1, <3>1
      <4>2. Whole(d) = 0
        BY <1>1, <4>1, WholeIs
      <4> QED
        BY <1>4, <3>1, <4>2
    <3>2. CASE a + d >= M
      <4>1. PICK x \in Nat : x = (a + d) - M
        BY <1>4, <3>2
      <4>2. f = Whole(x) + 1 /\ Whole(x + B) = Whole(x) + 1
        BY <1>1, <1>4, <3>2, <4>1, WholeIs
      <4>3. d <= x + B /\ x + B \in Nat
        BY <1>1, <4>1
      <4>4. Whole(d) <= Whole(x + B)
        BY <4>3, WholeIs
      <4> QED
        BY <4>2, <4>4
    <3> QED
      BY <1>1, <3>1, <3>2
  <2>3. g <= 1 + Whole(d)
    <3>1. CASE a + d + 1 < M
      BY <1>5, <1>6, <3>1
    <3>2. CASE a + d + 1 >= M
      <4>1. PICK x \in Nat : x = (a + d + 1) - M
        BY <1>5, <3>2
      <4>2. x <= d
        BY <1>1, <1>8, <4>1
      <4>3. g = Whole(x) + 1 /\ Whole(x) <= Whole(d) /\ Whole(x) \in Nat
        BY <1>5, <3>2, <4>1, <4>2, WholeIs
      <4> QED
        BY <1>6, <4>3
    <3> QED
      BY <1>1, <3>1, <3>2
  <2> QED
    BY <1>2, <1>5, <1>6, <2>1, <2>2, <2>3
<1> QED
  BY <1>1, <1>7, <1>8

LEMMA ExtensionStep ==
  ASSUME NEW a \in Int, NEW c \in Int
  PROVE  /\ a <= c => ExtensionSize(a) <= ExtensionSize(c)
         /\ ExtensionSize(a + 1) <= ExtensionSize(a) + 1
         /\ a >= 0 => ExtensionSize(a + 3) <= ExtensionSize(a) + 1
         /\ a >= 0 => ExtensionSize(a) <= 1 + Whole(a)
         /\ a >= 4 => Whole(a - 1) <= ExtensionSize(a - 4)
<1>1. PICK M \in Nat, B \in Nat : M = MASK /\ B = MAXBYTE /\ M >= 4 /\ B >= M + 4
  BY PriceNumbers
<1>2. \A x \in Int : ExtensionSize(x) \in Nat /\ (x < M => ExtensionSize(x) = 0)
  BY <1>1, ExtensionIs
<1>3. a <= c => ExtensionSize(a) <= ExtensionSize(c)
  <2>1. SUFFICES ASSUME a <= c, a >= M PROVE ExtensionSize(a) <= ExtensionSize(c)
    BY <1>1, <1>2
  <2>2. PICK d \in Nat : d = c - a
    BY <2>1
  <2>3. a \in Nat /\ c = a + d
    BY <1>1, <2>1, <2>2
  <2>4. ExtensionSize(a) + Whole(d) <= ExtensionSize(c) /\ Whole(d) \in Nat
    BY <2>3, ExtensionGrows, WholeIs
  <2> QED
    BY <1>2, <2>4
<1>4. ExtensionSize(a + 1) <= ExtensionSize(a) + 1
  <2>1. CASE a >= 0
    <3>1. ExtensionSize(a + 0 + 1) <= ExtensionSize(a) + 1 + Whole(0)
      BY <2>1, ExtensionGrows
    <3>2. a + 0 + 1 = a + 1 /\ Whole(0) = 0
      BY <1>1, WholeIs
    <3> QED
      BY <1>2, <3>1, <3>2
  <2>2. CASE a < 0
    <3>1. a + 1 < M /\ a + 1 \in Int
      BY <1>1, <2>2
    <3> QED
      BY <1>2, <3>1
  <2> QED
    BY <2>1, <2>2
<1>5. a >= 0 => ExtensionSize(a + 3) <= ExtensionSize(a) + 1
  <2>1. a >= 0 => ExtensionSize(a + 2 + 1) <= ExtensionSize(a) + 1 + Whole(2)
    BY ExtensionGrows
  <2>2. a + 2 + 1 = a + 3 /\ 2 < B
    BY <1>1
  <2>3. Whole(2) = 0
    BY <1>1, <2>2, WholeIs
  <2> QED
    BY <1>2, <2>1, <2>2, <2>3
<1>6. a >= 0 => ExtensionSize(a) <= 1 + Whole(a)
  <2>1. SUFFICES ASSUME a >= 0 PROVE ExtensionSize(a) <= 1 + Whole(a)
    OBVIOUS
  <2>2. PICK e \in Nat, f \in Nat, w \in Nat :
          e = ExtensionSize(a) /\ f = ExtensionSize(a + 1) /\ w = Whole(a)
    <3>1. a \in Nat /\ a + 1 \in Int
      BY <2>1
    <3> QED
      BY <1>2, <3>1, WholeIs
  <2>3. e <= f
    <3>1. CASE a < M
      BY <1>2, <2>2, <3>1
    <3>2. CASE a >= M
      <4>1. ExtensionSize(a) + Whole(1) <= ExtensionSize(a + 1) /\ Whole(1) \in Nat
        BY <2>1, ExtensionGrows, WholeIs
      <4> QED
        BY <2>2, <4>1
    <3> QED
      BY <1>1, <3>1, <3>2
  <2>4. f <= 0 + 1 + w
    <3>1. ExtensionSize(0 + a + 1) <= ExtensionSize(0) + 1 + Whole(a)
      BY <2>1, ExtensionGrows
    <3>2. 0 + a + 1 = a + 1 /\ 0 < M
      BY <1>1
    <3>3. ExtensionSize(0) = 0
      BY <1>2, <3>2
    <3> QED
      BY <2>2, <3>1, <3>2, <3>3
  <2> QED
    BY <2>2, <2>3, <2>4
<1>7. a >= 4 => Whole(a - 1) <= ExtensionSize(a - 4)
  <2>1. SUFFICES ASSUME a >= 4 PROVE Whole(a - 1) <= ExtensionSize(a - 4)
    OBVIOUS
  <2>2. PICK x \in Nat, y \in Nat : x = a - 4 /\ y = a - 1
    BY <2>1
  <2>3. CASE x < M
    <3>1. y < B
      BY <1>1, <2>2, <2>3
    <3>2. Whole(y) = 0
      BY <1>1, <3>1, WholeIs
    <3> QED
      BY <1>2, <2>2, <3>2
  <2>4. CASE x >= M
    <3>1. PICK r \in Nat : r = x - M
      BY <1>1, <2>4
    <3>2. ExtensionSize(x) = Whole(r) + 1 /\ Whole(r + B) = Whole(r) + 1
      BY <1>1, <2>4, <3>1, ExtensionIs, WholeIs
    <3>3. y <= r + B /\ r + B \in Nat
      BY <1>1, <2>2, <3>1
    <3>4. Whole(y) <= Whole(r + B)
      BY <3>3, WholeIs
    <3> QED
      BY <2>2, <3>2, <3>4
  <2> QED
    BY <1>1, <2>2, <2>3, <2>4
<1> QED
  BY <1>3, <1>4, <1>5, <1>6, <1>7

LEMMA LiteralsPriceIs ==
  ASSUME NEW b \in Nat
  PROVE  /\ LiteralsPrice(b) \in Nat /\ b <= LiteralsPrice(b)
         /\ \A k \in Nat : LiteralsPrice(b) + k <= LiteralsPrice(b + k)
         /\ \A k \in 0 .. 3 : LiteralsPrice(b + k) <= LiteralsPrice(b) + k + 1
         /\ b <= 3 => LiteralsPrice(b) = b
<1>1. \A x \in Int : ExtensionSize(x) \in Nat
  BY ExtensionIs
<1>2. LiteralsPrice(b) \in Nat /\ b <= LiteralsPrice(b)
  BY <1>1 DEF LiteralsPrice
<1>3. ASSUME NEW k \in Nat PROVE LiteralsPrice(b) + k <= LiteralsPrice(b + k)
  <2>1. PICK c \in Nat : c = b + k
    OBVIOUS
  <2>2. ExtensionSize(b) <= ExtensionSize(c)
    BY <2>1, ExtensionStep
  <2>3. ExtensionSize(b) \in Nat /\ ExtensionSize(c) \in Nat
    BY <1>1
  <2> QED
    BY <2>1, <2>2, <2>3 DEF LiteralsPrice
<1>4. ASSUME NEW k \in 0 .. 3 PROVE LiteralsPrice(b + k) <= LiteralsPrice(b) + k + 1
  <2>1. PICK c \in Nat, d \in Nat : c = b + k /\ d = b + 3
    OBVIOUS
  <2>2. ExtensionSize(c) <= ExtensionSize(d)
    BY <2>1, ExtensionStep
  <2>3. ExtensionSize(d) <= ExtensionSize(b) + 1
    BY <2>1, ExtensionStep
  <2>4. ExtensionSize(b) \in Nat /\ ExtensionSize(c) \in Nat /\ ExtensionSize(d) \in Nat
    BY <1>1
  <2> QED
    BY <2>1, <2>2, <2>3, <2>4 DEF LiteralsPrice
<1>5. b <= 3 => LiteralsPrice(b) = b
  <2>1. b <= 3 => b < MASK
    BY PriceNumbers
  <2>2. b <= 3 => ExtensionSize(b) = 0
    BY <2>1, ExtensionIs
  <2> QED
    BY <2>2 DEF LiteralsPrice
<1> QED
  BY <1>2, <1>3, <1>4, <1>5

-----------------------------------------------------------------------------
(* The table o up to l, when c is the next position that is looked at and  *)
(* b literals are in front of the first one.  Each match was entered with  *)
(* the price of where it begins, which stays as it is, and with it all     *)
(* shorter ones; literals stand behind the end of a match.                 *)
FromMatch(o, c, y) ==
  \E s \in 0 .. c - 1 :
    /\ s = y - o[y].mlen /\ s + 4 <= y
    /\ o[s].price + 3 + ExtensionSize(y - s - 4) <= o[y].price
    /\ \A z \in s + 4 .. y : o[z].price <= o[s].price + 3 + ExtensionSize(z - s - 4)

FromLiterals(o, y) ==
  \E r \in 4 .. y - 1 :
    r = y - o[y].litlen /\ y <= r + 3 /\ o[r].mlen # 1 /\ o[r].price + (y - r) <= o[y].price

(* No byte more for the literals in front.                                 *)
Plain(o, b, w) == w = 3 => o[3].price <= LiteralsPrice(b) + 3

Spans(o, c, b, w, y) ==
  w < y /\ Plain(o, b, w) /\ o[y].price <= o[w].price + 3 + ExtensionSize(y - w - 4)

Rows(o, l, c, b) ==
  /\ l \in Nat /\ l >= 4
  /\ \A y \in 0 .. l + 3 : o[y].price \in Nat /\ o[y].mlen \in Nat /\ o[y].litlen \in Nat
  /\ \A y \in 0 .. 3 :
       o[y].mlen = 1 /\ o[y].litlen = b + y /\ o[y].price = LiteralsPrice(b + y)
  /\ o[4].price <= LiteralsPrice(b) + 3
  /\ \A x \in 4 .. l + 2 : o[x + 1].price <= o[x].price + 1
  /\ \A k \in 1 .. 3 : o[l + k].price = o[l].price + k
  /\ o[l].mlen # 1
  /\ \A y \in 4 .. l + 3 : o[y].mlen # 1 => FromMatch(o, c, y)
  /\ \A y \in 4 .. l + 3 : o[y].mlen = 1 => FromLiterals(o, y)
  /\ \A y \in 4 .. l : \E w \in 0 .. c - 1 : Spans(o, c, b, w, y)

Tables(o, l, c, b) == Rows(o, l, c, b) /\ b \in Nat /\ c \in Nat

(* Positions near to each other.                                           *)
LEMMA FlatPrices ==
  ASSUME NEW o, NEW l, NEW c, NEW b, Tables(o, l, c, b),
         NEW x \in Nat, NEW y \in Nat, 4 <= x, x <= y, y <= x + 3, y <= l + 3
  PROVE  o[y].price <= o[x].price + (y - x)
<1>1. PICK d \in Nat : d = l
  BY DEF Tables, Rows
<1>2. /\ \A z \in 0 .. d + 3 : o[z].price \in Nat
      /\ \A z \in 4 .. d + 2 : o[z + 1].price <= o[z].price + 1
  BY <1>1 DEF Tables, Rows
<1>3. o[x].price \in Nat
  BY <1>1, <1>2
<1>4. CASE y = x
  BY <1>3, <1>4
<1>5. CASE y >= x + 1
  <2>1. o[x + 1].price \in Nat /\ o[x + 1].price <= o[x].price + 1
    <3>1. x + 1 \in 0 .. d + 3 /\ x \in 4 .. d + 2
      BY <1>1, <1>5
    <3> QED
      BY <1>2, <3>1
  <2>2. CASE y = x + 1
    BY <1>3, <2>1, <2>2
  <2>3. CASE y >= x + 2
    <3>1. o[x + 2].price \in Nat /\ o[x + 2].price <= o[x + 1].price + 1
      <4>1. x + 2 \in 0 .. d + 3 /\ x + 1 \in 4 .. d + 2 /\ (x + 1) + 1 = x + 2
        BY <1>1, <2>3
      <4>2. o[(x + 1) + 1].price <= o[x + 1].price + 1
        BY <1>2, <4>1
      <4> QED
        BY <1>2, <4>1, <4>2
    <3>2. CASE y = x + 2
      BY <1>3, <2>1, <3>1, <3>2
    <3>3. CASE y >= x + 3
      <4>1. y = x + 3 /\ y \in 0 .. d + 3 /\ x + 2 \in 4 .. d + 2 /\ (x + 2) + 1 = y
        BY <1>1, <3>3
      <4>2. o[(x + 2) + 1].price <= o[x + 2].price + 1
        BY <1>2, <4>1
      <4>3. o[y].price <= o[x + 2].price + 1 /\ o[y].price \in Nat
        BY <1>2, <4>1, <4>2
      <4>4. y - x = 3
        BY <4>1
      <4> QED
        BY <1>3, <2>1, <3>1, <4>3, <4>4
    <3> QED
      BY <2>3, <3>2, <3>3
  <2> QED
    BY <1>5, <2>2, <2>3
<1> QED
  BY <1>4, <1>5

LEMMA FirstPrices ==
  ASSUME NEW o, NEW l, NEW c, NEW b, Tables(o, l, c, b), NEW p, p = LiteralsPrice(b)
  PROVE  /\ p \in Nat /\ o[0].price = p
         /\ \A y \in 0 .. 3 : o[y].price \in Nat /\ p + y <= o[y].price /\ o[y].price <= p + y + 1
         /\ \A y \in 4 .. 7 : o[y].price \in Nat /\ o[y].price <= p + y - 1
<1>1. /\ b \in Nat /\ l \in Nat /\ l >= 4
      /\ \A y \in 0 .. l + 3 : o[y].price \in Nat
      /\ \A y \in 0 .. 3 : o[y].price = LiteralsPrice(b + y)
      /\ o[4].price <= p + 3
  BY DEF Tables, Rows
<1>2. p \in Nat
  BY <1>1, LiteralsPriceIs
<1>3. o[0].price = p
  BY <1>1
<1>4. ASSUME NEW y \in 0 .. 3
      PROVE  o[y].price \in Nat /\ p + y <= o[y].price /\ o[y].price <= p + y + 1
  <2>1. p + y <= LiteralsPrice(b + y) /\ LiteralsPrice(b + y) <= p + y + 1
    <3>1. /\ \A k \in Nat : LiteralsPrice(b) + k <= LiteralsPrice(b + k)
          /\ \A k \in 0 .. 3 : LiteralsPrice(b + k) <= LiteralsPrice(b) + k + 1
      BY <1>1, LiteralsPriceIs
    <3>2. y \in Nat
      OBVIOUS
    <3> QED
      BY <3>1, <3>2
  <2>2. y \in 0 .. l + 3 /\ o[y].price = LiteralsPrice(b + y)
    BY <1>1
  <2>3. o[y].price \in Nat
    BY <1>1, <2>2
  <2> QED
    BY <2>1, <2>2, <2>3
<1>5. ASSUME NEW y \in 4 .. 7 PROVE o[y].price \in Nat /\ o[y].price <= p + y - 1
  <2>1. y \in 0 .. l + 3 /\ 4 \in 0 .. l + 3 /\ y \in Nat /\ 4 <= y /\ y <= 4 + 3 /\ y <= l + 3
    BY <1>1
  <2>2. o[y].price <= o[4].price + (y - 4)
    BY <2>1, FlatPrices
  <2>3. o[y].price \in Nat /\ o[4].price \in Nat
    BY <1>1, <2>1
  <2> QED
    BY <1>1, <1>2, <2>2, <2>3
<1> QED
  BY <1>2, <1>3, <1>4, <1>5

(* Behind the beginning of a match, where it does not reach.               *)
LEMMA NearPrices ==
  ASSUME NEW o, NEW l, NEW c, NEW b, Tables(o, l, c, b),
         NEW s \in Nat, NEW w \in Nat, s < w, w < s + 4, w <= l + 3, Plain(o, b, w)
  PROVE  o[w].price <= o[s].price + 3
<1>1. PICK p : p = LiteralsPrice(b)
  OBVIOUS
<1>2. /\ p \in Nat
      /\ \A y \in 0 .. 3 : o[y].price \in Nat /\ p + y <= o[y].price /\ o[y].price <= p + y + 1
      /\ \A y \in 4 .. 7 : o[y].price \in Nat /\ o[y].price <= p + y - 1
  BY <1>1, FirstPrices
<1>3. l \in Nat /\ \A y \in 0 .. l + 3 : o[y].price \in Nat
  BY DEF Tables, Rows
<1>4. o[w].price \in Nat /\ o[s].price \in Nat
  BY <1>3
<1>5. CASE s >= 4
  <2>1. o[w].price <= o[s].price + (w - s)
    BY <1>3, <1>5, FlatPrices
  <2> QED
    BY <1>4, <2>1
<1>6. CASE s <= 3 /\ w >= 4
  <2>1. w \in 4 .. 7 /\ s \in 0 .. 3
    BY <1>6
  <2>2. o[w].price <= p + w - 1 /\ p + s <= o[s].price
    BY <1>2, <2>1
  <2> QED
    BY <1>2, <1>4, <1>6, <2>2
<1>7. CASE w = 3
  <2>1. o[w].price <= p + 3
    BY <1>1, <1>7 DEF Plain
  <2>2. s \in 0 .. 3
    BY <1>7
  <2>3. p + s <= o[s].price
    BY <1>2, <2>2
  <2> QED
    BY <1>2, <1>4, <2>1, <2>3
<1>8. CASE w <= 2
  <2>1. w \in 0 .. 3 /\ s \in 0 .. 3
    BY <1>8
  <2>2. o[w].price <= p + w + 1 /\ p + s <= o[s].price
    BY <1>2, <2>1
  <2> QED
    BY <1>2, <1>4, <1>8, <2>2
<1> QED
  BY <1>5, <1>6, <1>7, <1>8

LEMMA WholeOfMatch ==
  ASSUME NEW m \in Nat, m >= 4
  PROVE  /\ ExtensionSize(m - 4) \in Nat
         /\ Whole(m) <= ExtensionSize(m - 4) + 1
         /\ \A d \in 0 .. m - 1 : Whole(d) \in Nat /\ Whole(d) <= ExtensionSize(m - 4)
<1>1. m - 4 \in Int /\ m - 1 \in Nat /\ m = (m - 1) + 1
  OBVIOUS
<1>2. ExtensionSize(m - 4) \in Nat
  BY <1>1, ExtensionIs
<1>3. Whole(m - 1) <= ExtensionSize(m - 4) /\ Whole(m - 1) \in Nat
  BY <1>1, ExtensionStep, WholeIs
<1>4. Whole(m) <= ExtensionSize(m - 4) + 1
  <2>1. Whole((m - 1) + 1) <= Whole(m - 1) + Whole(1) + 1
    BY <1>1, WholeIs
  <2>2. 1 < MAXBYTE
    BY PriceNumbers
  <2>3. Whole(1) = 0
    BY <2>2, WholeIs
  <2>4. Whole(m) \in Nat
    BY WholeIs
  <2> QED
    BY <1>1, <1>2, <1>3, <2>1, <2>3, <2>4
<1>5. ASSUME NEW d \in 0 .. m - 1 PROVE Whole(d) \in Nat /\ Whole(d) <= ExtensionSize(m - 4)
  <2>1. d \in Nat /\ d <= m - 1
    OBVIOUS
  <2>2. Whole(d) \in Nat /\ Whole(d) <= Whole(m - 1)
    BY <1>1, <2>1, WholeIs
  <2> QED
    BY <1>2, <1>3, <2>2
<1> QED
  BY <1>2, <1>4, <1>5

(* A longer way is not cheaper: not by more than the bytes that the length *)
(* of a match grows by.                                                    *)
Dearer(o, w, y) == o[w].price + Whole(y - w) <= o[y].price

(* For the position y, when it holds for all before it.                    *)
LEMMA DearerNext ==
  ASSUME NEW o, NEW l, NEW c, NEW b, Tables(o, l, c, b),
         NEW y \in Nat, NEW w \in Nat, w < y, y <= l + 3, Plain(o, b, w),
         \A z \in Nat : (w <= z /\ z < y) => Dearer(o, w, z)
  PROVE  Dearer(o, w, y)
<1>1. /\ l \in Nat /\ l >= 4 /\ b \in Nat
      /\ \A z \in 0 .. l + 3 : o[z].price \in Nat
      /\ \A z \in 0 .. 3 : o[z].price = LiteralsPrice(b + z)
  BY DEF Tables, Rows
<1>2. y - w \in Nat /\ o[w].price \in Nat /\ o[y].price \in Nat
  BY <1>1
<1>3. Whole(y - w) \in Nat
  BY <1>1, <1>2, WholeIs
<1>4. \A d \in 0 .. 3 : Whole(d) = 0
  <2>1. ASSUME NEW d \in 0 .. 3 PROVE Whole(d) = 0
    <3>1. d \in Nat
      OBVIOUS
    <3>2. d < MAXBYTE
      BY <1>1, PriceNumbers
    <3> QED
      BY <1>1, <3>1, <3>2, WholeIs
  <2> QED
    BY <2>1
<1>5. CASE y <= 3
  <2>1. PICK k \in Nat, e \in Nat : k = y - w /\ e = b + w
    BY <1>1, <1>2
  <2>2. LiteralsPrice(e) + k <= LiteralsPrice(e + k)
    BY <1>1, LiteralsPriceIs
  <2>3. e + k = b + y /\ k \in 0 .. 3 /\ w \in 0 .. 3 /\ y \in 0 .. 3
    BY <1>1, <1>5, <2>1
  <2>4. o[w].price = LiteralsPrice(e) /\ o[y].price = LiteralsPrice(e + k)
    BY <1>1, <2>1, <2>3
  <2>5. Whole(y - w) = 0
    BY <1>4, <2>1, <2>3
  <2> QED
    BY <1>2, <2>1, <2>2, <2>4, <2>5 DEF Dearer
<1>6. CASE y >= 4 /\ o[y].mlen = 1
  <2>1. PICK r \in 4 .. y - 1 : y <= r + 3 /\ o[r].price + (y - r) <= o[y].price
    <3>1. y \in 4 .. l + 3
      BY <1>1, <1>6
    <3>2. FromLiterals(o, y)
      BY <1>6, <3>1 DEF Tables, Rows
    <3> QED
      BY <3>2 DEF FromLiterals
  <2>2. r \in Nat /\ o[r].price \in Nat
    BY <1>1, <2>1
  <2>3. CASE w <= r
    <3>1. o[w].price + Whole(r - w) <= o[r].price
      BY <2>1, <2>2, <2>3 DEF Dearer
    <3>2. PICK d \in Nat, k \in Nat : d = r - w /\ k = y - r
      BY <2>1, <2>3
    <3>3. Whole(d + k) <= Whole(d) + Whole(k) + 1 /\ Whole(d) \in Nat
      BY <1>1, WholeIs
    <3>4. d + k = y - w /\ k \in 1 .. 3
      BY <2>1, <3>2
    <3>5. Whole(k) = 0
      BY <1>4, <3>4
    <3>6. Whole(y - w) <= Whole(d) + 1
      BY <3>3, <3>4, <3>5
    <3> QED
      BY <1>2, <1>3, <2>1, <2>2, <3>1, <3>2, <3>3, <3>4, <3>6 DEF Dearer
  <2>4. CASE w > r
    <3>1. o[w].price <= o[r].price + (w - r)
      BY <1>1, <2>1, <2>2, <2>4, FlatPrices
    <3>2. y - w \in 0 .. 3
      BY <2>1, <2>4
    <3>3. Whole(y - w) = 0
      BY <1>4, <3>2
    <3> QED
      BY <1>2, <2>1, <2>2, <2>4, <3>1, <3>3 DEF Dearer
  <2> QED
    BY <2>2, <2>3, <2>4
<1>7. CASE y >= 4 /\ o[y].mlen # 1
  <2>1. PICK s \in 0 .. c - 1 :
          /\ s + 4 <= y
          /\ o[s].price + 3 + ExtensionSize(y - s - 4) <= o[y].price
          /\ \A z \in s + 4 .. y : o[z].price <= o[s].price + 3 + ExtensionSize(z - s - 4)
    <3>1. y \in 4 .. l + 3
      BY <1>1, <1>7
    <3>2. FromMatch(o, c, y)
      BY <1>7, <3>1 DEF Tables, Rows
    <3> QED
      BY <3>2 DEF FromMatch
  <2>2. s \in Nat /\ o[s].price \in Nat
    BY <1>1, <2>1 DEF Tables
  <2>3. PICK m \in Nat : m = y - s
    BY <2>1, <2>2
  <2>4. m >= 4 /\ y - s - 4 = m - 4
    BY <2>1, <2>2, <2>3
  <2>5. PICK e \in Nat : e = ExtensionSize(m - 4)
    BY <1>1, <2>4, WholeOfMatch
  <2>6. /\ o[s].price + 3 + e <= o[y].price /\ Whole(m) <= e + 1
        /\ \A d \in 0 .. m - 1 : Whole(d) <= e
    BY <1>1, <2>1, <2>4, <2>5, WholeOfMatch
  <2>7. CASE w <= s
    <3>1. o[w].price + Whole(s - w) <= o[s].price
      BY <2>1, <2>2, <2>7 DEF Dearer
    <3>2. PICK d \in Nat : d = s - w
      BY <2>2, <2>7
    <3>3. Whole(d + m) <= Whole(d) + Whole(m) + 1 /\ Whole(d) \in Nat /\ Whole(m) \in Nat
      BY <1>1, WholeIs
    <3>4. d + m = y - w
      BY <2>2, <2>3, <3>2
    <3> QED
      BY <1>2, <1>3, <2>2, <2>6, <3>1, <3>2, <3>3, <3>4 DEF Dearer
  <2>8. CASE s < w /\ w < s + 4
    <3>1. o[w].price <= o[s].price + 3
      BY <1>1, <2>2, <2>8, NearPrices
    <3>2. y - w \in 0 .. m - 1
      BY <2>2, <2>3, <2>8
    <3>3. Whole(y - w) <= e
      BY <2>6, <3>2
    <3> QED
      BY <1>2, <1>3, <2>2, <2>6, <3>1, <3>3 DEF Dearer
  <2>9. CASE s + 4 <= w
    <3>1. PICK a \in Nat, d \in Nat : a = w - s - 4 /\ d = y - w
      BY <1>2, <2>2, <2>9
    <3>2. o[w].price <= o[s].price + 3 + ExtensionSize(a)
      <4>1. w \in s + 4 .. y
        BY <2>2, <2>9
      <4> QED
        BY <2>1, <3>1, <4>1
    <3>3. ExtensionSize(a) + Whole(d) <= ExtensionSize(a + d)
      BY <1>1, ExtensionGrows
    <3>4. a + d = m - 4
      BY <2>2, <2>3, <3>1
    <3>5. ExtensionSize(a) \in Nat
      BY <1>1, ExtensionIs
    <3> QED
      BY <1>2, <1>3, <2>2, <2>5, <2>6, <3>1, <3>2, <3>3, <3>4, <3>5 DEF Dearer
  <2> QED
    BY <2>2, <2>7, <2>8, <2>9
<1> QED
  BY <1>5, <1>6, <1>7

LEMMA LongerIsDearer ==
  ASSUME NEW o, NEW l, NEW c, NEW b, Tables(o, l, c, b),
         NEW w \in Nat, NEW y \in Nat, w <= y, y <= l + 3, Plain(o, b, w)
  PROVE  Dearer(o, w, y)
<1> DEFINE T == {z \in Nat : w <= z /\ z <= l + 3 /\ ~Dearer(o, w, z)}
<1>1. l \in Nat /\ \A z \in 0 .. l + 3 : o[z].price \in Nat
  BY DEF Tables, Rows
<1>2. T = {}
  <2>1. SUFFICES ASSUME T # {} PROVE FALSE
    OBVIOUS
  <2>2. T \subseteq Nat
    OBVIOUS
  <2>3. PICK z \in T : \A x \in T : z <= x
    <3> HIDE DEF T
    <3> QED
      BY <2>1, <2>2, LeastNatural
  <2>4. CASE z = w
    <3>1. o[w].price \in Nat
      BY <1>1
    <3>2. Whole(0) = 0
      BY <1>1, PriceNumbers, WholeIs
    <3>3. z - w = 0
      BY <2>4
    <3>4. Dearer(o, w, w)
      BY <2>4, <3>1, <3>2, <3>3 DEF Dearer
    <3> QED
      BY <2>4, <3>4
  <2>5. CASE z # w
    <3>1. \A x \in Nat : (w <= x /\ x < z) => Dearer(o, w, x)
      BY <1>1, <2>3
    <3>2. z \in Nat /\ w < z /\ z <= l + 3
      BY <2>5
    <3>3. Dearer(o, w, z)
      BY <3>1, <3>2, DearerNext
    <3> QED
      BY <3>3
  <2> QED
    BY <2>4, <2>5
<1>3. y \notin T
  BY <1>2
<1> QED
  BY <1>1, <1>3

-----------------------------------------------------------------------------
(* A match of `len` bytes at c makes positions cheaper.                    *)
MatchPrice(o, c, y) == o[c].price + 3 + ExtensionSize(y - c - 4)

Entered(o, o2, l, c, len, y) ==
  /\ y \in c + 4 .. c + len /\ (y > l + 3 \/ MatchPrice(o, c, y) <= o[y].price)
  /\ o2[y].mlen = y - c /\ o2[y].litlen \in Nat /\ o2[y].price = MatchPrice(o, c, y)

Left(o, o2, l, c, len, y) ==
  /\ o2[y] = o[y] /\ y <= l + 3
  /\ y \in c + 4 .. c + len => o[y].price < MatchPrice(o, c, y)

Improved(o, o2, l, l2, c, len) ==
  /\ l2 = l \/ (l2 = c + len /\ l < l2 /\ o2[l2].mlen # 1)
  /\ \A y \in 0 .. l2 : Entered(o, o2, l, c, len, y) \/ Left(o, o2, l, c, len, y)
  /\ \A k \in 1 .. 3 : /\ o2[l2 + k].mlen = 1 /\ o2[l2 + k].litlen = k
                       /\ o2[l2 + k].price = o2[l2].price + k

Improves2(o, o2, l, l2, c, b, len) ==
  /\ Tables(o, l, c, b) /\ c >= 1 /\ c < l /\ Plain(o, b, c)
  /\ len \in Nat /\ len >= 4 /\ l2 \in Nat /\ Improved(o, o2, l, l2, c, len)

LEMMA ReachPrices ==
  ASSUME NEW o, NEW l, NEW c, NEW b, Tables(o, l, c, b),
         NEW x \in Nat, x >= c + 4, x + 1 <= l
  PROVE  o[x + 1].price <= MatchPrice(o, c, x) + 1
<1>1. l \in Nat /\ c \in Nat /\ \A z \in 0 .. l + 3 : o[z].price \in Nat
  BY DEF Tables, Rows
<1>2. PICK w \in 0 .. c - 1 : Spans(o, c, b, w, x + 1)
  <2>1. x + 1 \in 4 .. l
    BY <1>1
  <2> QED
    BY <2>1 DEF Tables, Rows
<1>3. PICK a \in Nat, d \in Nat : a = x - c - 4 /\ d = c - w
  BY <1>1
<1>4. x + 1 - w - 4 = a + d + 1
  BY <1>1, <1>3
<1>5. o[x + 1].price <= o[w].price + 3 + ExtensionSize(a + d + 1)
  BY <1>2, <1>4 DEF Spans
<1>6. ExtensionSize(a + d + 1) <= ExtensionSize(a) + 1 + Whole(d)
  BY <1>1, ExtensionGrows
<1>7. o[w].price + Whole(d) <= o[c].price
  <2>1. w \in Nat /\ w <= c /\ c <= l + 3 /\ Plain(o, b, w)
    BY <1>1, <1>2 DEF Spans
  <2> QED
    BY <1>1, <1>3, <2>1, LongerIsDearer DEF Dearer
<1>8. ExtensionSize(a) \in Nat /\ ExtensionSize(a + d + 1) \in Nat /\ Whole(d) \in Nat
  <2>1. a \in Int /\ a + d + 1 \in Int
    OBVIOUS
  <2> QED
    BY <1>1, <2>1, ExtensionIs, WholeIs
<1>9. o[w].price \in Nat /\ o[c].price \in Nat /\ o[x + 1].price \in Nat
  <2>1. w \in 0 .. l + 3 /\ c \in 0 .. l + 3 /\ x + 1 \in 0 .. l + 3
    BY <1>1
  <2> QED
    BY <1>1, <2>1
<1> QED
  BY <1>3, <1>5, <1>6, <1>7, <1>8, <1>9 DEF MatchPrice

(* What an improvement leaves, and what it makes of a price.               *)
LEMMA ImprovedPrices ==
  ASSUME NEW o, NEW o2, NEW l, NEW l2, NEW c, NEW b, NEW len, Improves2(o, o2, l, l2, c, b, len)
  PROVE  /\ \A y \in 0 .. c + 3 : y <= l2 => o2[y] = o[y]
         /\ \A y \in 0 .. l2 : o2[y].price \in Nat
         /\ \A y \in 0 .. l2 : y <= l + 3 => o2[y].price <= o[y].price
         /\ \A y \in c + 4 .. c + len :
              y <= l2 => /\ o2[y].price <= MatchPrice(o, c, y)
                         /\ MatchPrice(o, c, y) \in Nat
<1>1. /\ l \in Nat /\ c \in Nat /\ len \in Nat /\ l2 \in Nat /\ c < l
      /\ \A z \in 0 .. l + 3 : o[z].price \in Nat
  BY DEF Improves2, Tables, Rows
<1>2. \A y \in 0 .. l2 : Entered(o, o2, l, c, len, y) \/ Left(o, o2, l, c, len, y)
  BY DEF Improves2, Improved
<1>3. ASSUME NEW y \in c + 4 .. c + len PROVE MatchPrice(o, c, y) \in Nat
  <2>1. y - c - 4 \in Int /\ o[c].price \in Nat
    BY <1>1
  <2> QED
    BY <1>1, <2>1, ExtensionIs DEF MatchPrice
<1>4. ASSUME NEW y \in 0 .. c + 3, y <= l2 PROVE o2[y] = o[y]
  <2>1. y \in 0 .. l2 /\ y \notin c + 4 .. c + len
    BY <1>1, <1>4
  <2> QED
    BY <1>2, <2>1 DEF Entered, Left
<1>5. ASSUME NEW y \in 0 .. l2
      PROVE  o2[y].price \in Nat /\ (y <= l + 3 => o2[y].price <= o[y].price)
  <2>1. CASE Entered(o, o2, l, c, len, y)
    <3>1. MatchPrice(o, c, y) \in Nat /\ o2[y].price = MatchPrice(o, c, y)
      BY <1>3, <2>1 DEF Entered
    <3>2. y <= l + 3 => MatchPrice(o, c, y) <= o[y].price
      BY <1>1, <2>1 DEF Entered
    <3> QED
      BY <3>1, <3>2
  <2>2. CASE Left(o, o2, l, c, len, y)
    <3>1. o2[y] = o[y] /\ y \in 0 .. l + 3
      BY <1>1, <2>2 DEF Left
    <3>2. o[y].price \in Nat
      BY <1>1, <3>1
    <3> QED
      BY <3>1, <3>2
  <2> QED
    BY <1>2, <2>1, <2>2
<1>6. ASSUME NEW y \in c + 4 .. c + len, y <= l2 PROVE o2[y].price <= MatchPrice(o, c, y)
  <2>1. y \in 0 .. l2
    BY <1>1, <1>6
  <2>2. o2[y].price \in Nat /\ MatchPrice(o, c, y) \in Nat
    BY <1>3, <1>5, <2>1
  <2>3. o2[y].price = MatchPrice(o, c, y) \/ o2[y].price < MatchPrice(o, c, y)
    BY <1>2, <2>1 DEF Entered, Left
  <2> QED
    BY <2>2, <2>3
<1> QED
  BY <1>3, <1>4, <1>5, <1>6

LEMMA ImprovedFlat ==
  ASSUME NEW o, NEW o2, NEW l, NEW l2, NEW c, NEW b, NEW len, Improves2(o, o2, l, l2, c, b, len)
  PROVE  \A x \in 4 .. l2 + 2 : o2[x + 1].price <= o2[x].price + 1
<1>1. /\ l \in Nat /\ c \in Nat /\ len \in Nat /\ l2 \in Nat /\ c < l /\ l <= l2
      /\ Plain(o, b, c) /\ len >= 4 /\ c >= 1 /\ Tables(o, l, c, b)
      /\ l2 = l \/ l2 = c + len
      /\ \A z \in 0 .. l + 3 : o[z].price \in Nat
      /\ \A x \in 4 .. l + 2 : o[x + 1].price <= o[x].price + 1
      /\ \A k \in 1 .. 3 : o[l + k].price = o[l].price + k
  BY DEF Improves2, Improved, Tables, Rows
<1>2. /\ \A y \in 0 .. l2 : Entered(o, o2, l, c, len, y) \/ Left(o, o2, l, c, len, y)
      /\ \A k \in 1 .. 3 : o2[l2 + k].price = o2[l2].price + k
  BY DEF Improves2, Improved
<1>3. /\ \A y \in 0 .. l2 : o2[y].price \in Nat
      /\ \A y \in 0 .. l2 : y <= l + 3 => o2[y].price <= o[y].price
      /\ \A y \in c + 4 .. c + len :
           y <= l2 => o2[y].price <= MatchPrice(o, c, y) /\ MatchPrice(o, c, y) \in Nat
  BY ImprovedPrices
<1>4. ASSUME NEW x \in 4 .. l2 + 2 PROVE o2[x + 1].price <= o2[x].price + 1
  <2>1. CASE x >= l2
    <3>1. PICK k \in 0 .. 2 : x = l2 + k
      <4>1. x - l2 \in 0 .. 2 /\ x = l2 + (x - l2)
        BY <1>1, <2>1
      <4> QED
        BY <4>1
    <3>2. k + 1 \in 1 .. 3 /\ x + 1 = l2 + (k + 1) /\ l2 \in 0 .. l2
      BY <1>1, <3>1
    <3>3. o2[x + 1].price = o2[l2].price + (k + 1) /\ o2[l2].price \in Nat
      BY <1>2, <1>3, <3>2
    <3>4. o2[x].price = o2[l2].price + k
      <4>1. CASE k = 0
        BY <1>1, <3>1, <3>3, <4>1
      <4>2. CASE k # 0
        <5>1. k \in 1 .. 3
          BY <4>2
        <5> QED
          BY <1>2, <3>1, <5>1
      <4> QED
        BY <4>1, <4>2
    <3> QED
      BY <3>3, <3>4
  <2>2. CASE x < l2
    <3>1. x \in 0 .. l2 /\ x + 1 \in 0 .. l2 /\ x \in Nat
      BY <1>1, <2>2
    <3>2. o2[x].price \in Nat /\ o2[x + 1].price \in Nat
      BY <1>3, <3>1
    <3>3. CASE Entered(o, o2, l, c, len, x)
      <4>1. x \in c + 4 .. c + len /\ o2[x].price = MatchPrice(o, c, x)
        BY <3>3 DEF Entered
      <4>2. CASE x + 1 <= c + len
        <5>1. x + 1 \in c + 4 .. c + len
          BY <1>1, <4>1, <4>2
        <5>2. o2[x + 1].price <= MatchPrice(o, c, x + 1)
          BY <1>3, <3>1, <5>1
        <5>3. PICK a \in Nat : a = x - c - 4
          BY <1>1, <4>1
        <5>4. (x + 1) - c - 4 = a + 1
          BY <1>1, <5>3
        <5>5. ExtensionSize(a + 1) <= ExtensionSize(a) + 1
          BY <1>1, ExtensionStep
        <5>6. ExtensionSize(a) \in Nat /\ ExtensionSize(a + 1) \in Nat /\ o[c].price \in Nat
          <6>1. a \in Int /\ a + 1 \in Int
            OBVIOUS
          <6> QED
            BY <1>1, <6>1, ExtensionIs
        <5>7. MatchPrice(o, c, x + 1) <= MatchPrice(o, c, x) + 1
          BY <5>3, <5>4, <5>5, <5>6 DEF MatchPrice
        <5>8. MatchPrice(o, c, x + 1) \in Nat /\ MatchPrice(o, c, x) \in Nat
          BY <1>3, <3>1, <4>1, <5>1
        <5> QED
          BY <3>2, <4>1, <5>2, <5>7, <5>8
      <4>3. CASE ~(x + 1 <= c + len)
        <5>1. l2 = l /\ x + 1 <= l
          BY <1>1, <3>1, <4>1, <4>3
        <5>2. o[x + 1].price <= MatchPrice(o, c, x) + 1
          BY <1>1, <3>1, <4>1, <5>1, ReachPrices
        <5>3. o2[x + 1].price <= o[x + 1].price /\ o[x + 1].price \in Nat
          <6>1. x + 1 <= l + 3 /\ x + 1 \in 0 .. l + 3
            BY <1>1, <3>1, <5>1
          <6> QED
            BY <1>1, <1>3, <3>1, <6>1
        <5> QED
          BY <3>2, <4>1, <5>2, <5>3
      <4> QED
        BY <4>2, <4>3
    <3>4. CASE Left(o, o2, l, c, len, x)
      <4>1. o2[x] = o[x] /\ x <= l + 3
        BY <3>4 DEF Left
      <4>2. CASE x + 1 <= l + 3
        <5>1. x \in 4 .. l + 2 /\ x + 1 \in 0 .. l + 3
          BY <1>1, <4>2
        <5>2. o2[x + 1].price <= o[x + 1].price /\ o[x + 1].price \in Nat
          BY <1>1, <1>3, <3>1, <4>2, <5>1
        <5>3. o[x + 1].price <= o[x].price + 1
          BY <1>1, <5>1
        <5> QED
          BY <3>2, <4>1, <5>2, <5>3
      <4>3. CASE ~(x + 1 <= l + 3)
        <5>1. x = l + 3 /\ x + 1 = l + 4 /\ l2 = c + len
          BY <1>1, <2>2, <3>1, <4>1, <4>3
        <5>2. x + 1 \in c + 4 .. c + len
          BY <1>1, <3>1, <5>1
        <5>3. o2[x + 1].price <= MatchPrice(o, c, x + 1) /\ MatchPrice(o, c, x + 1) \in Nat
          BY <1>3, <3>1, <5>2
        <5>4. PICK a \in Nat : a = l - c
          BY <1>1
        <5>5. (x + 1) - c - 4 = a
          BY <1>1, <5>1, <5>4
        <5>6. ExtensionSize(a) <= 1 + Whole(a) /\ ExtensionSize(a) \in Nat /\ Whole(a) \in Nat
          <6>1. a \in Int /\ a >= 0
            OBVIOUS
          <6>2. ExtensionSize(a) <= 1 + Whole(a)
            BY <1>1, <6>1, ExtensionStep
          <6> QED
            BY <1>1, <6>1, <6>2, ExtensionIs, WholeIs
        <5>7. o[c].price + Whole(a) <= o[l].price
          <6>1. c <= l /\ l <= l + 3
            BY <1>1
          <6> QED
            BY <1>1, <5>4, <6>1, LongerIsDearer DEF Dearer
        <5>8. o[x].price = o[l].price + 3
          BY <1>1, <5>1
        <5>9. o[c].price \in Nat /\ o[l].price \in Nat
          BY <1>1
        <5>10. MatchPrice(o, c, x + 1) = o[c].price + 3 + ExtensionSize(a)
          BY <5>5 DEF MatchPrice
        <5> QED
          BY <3>2, <4>1, <5>3, <5>6, <5>7, <5>8, <5>9, <5>10
      <4> QED
        BY <4>2, <4>3
    <3> QED
      BY <1>2, <3>1, <3>3, <3>4
  <2> QED
    BY <1>1, <2>1, <2>2
<1> QED
  BY <1>4

LEMMA ImprovedMatches ==
  ASSUME NEW o, NEW o2, NEW l, NEW l2, NEW c, NEW b, NEW len, Improves2(o, o2, l, l2, c, b, len),
         NEW y \in 4 .. l2 + 3, o2[y].mlen # 1
  PROVE  FromMatch(o2, c + 1, y)
<1>1. /\ l \in Nat /\ c \in Nat /\ len \in Nat /\ l2 \in Nat /\ c < l /\ l <= l2
      /\ \A z \in 0 .. l + 3 : o[z].price \in Nat
      /\ \A z \in 4 .. l + 3 : o[z].mlen # 1 => FromMatch(o, c, z)
  BY DEF Improves2, Improved, Tables, Rows
<1>2. /\ \A z \in 0 .. l2 : Entered(o, o2, l, c, len, z) \/ Left(o, o2, l, c, len, z)
      /\ \A k \in 1 .. 3 : o2[l2 + k].mlen = 1
  BY DEF Improves2, Improved
<1>3. /\ \A z \in 0 .. c + 3 : z <= l2 => o2[z] = o[z]
      /\ \A z \in 0 .. l2 : o2[z].price \in Nat
      /\ \A z \in 0 .. l2 : z <= l + 3 => o2[z].price <= o[z].price
      /\ \A z \in c + 4 .. c + len : z <= l2 => o2[z].price <= MatchPrice(o, c, z)
  BY ImprovedPrices
<1>4. y <= l2
  <2>1. y > l2 => (y - l2) \in 1 .. 3 /\ y = l2 + (y - l2)
    BY <1>1
  <2> QED
    BY <1>1, <1>2, <2>1
<1>5. y \in 0 .. l2 /\ y \in Nat
  BY <1>1, <1>4
<1>6. \A s \in 0 .. c : o2[s] = o[s]
  <2>1. ASSUME NEW s \in 0 .. c PROVE o2[s] = o[s]
    <3>1. s \in 0 .. c + 3 /\ s <= l2
      BY <1>1
    <3> QED
      BY <1>3, <3>1
  <2> QED
    BY <2>1
<1>7. CASE Entered(o, o2, l, c, len, y)
  <2>1. /\ y \in c + 4 .. c + len /\ o2[y].mlen = y - c /\ o2[y].price = MatchPrice(o, c, y)
    BY <1>7 DEF Entered
  <2>2. c \in 0 .. (c + 1) - 1 /\ c = y - o2[y].mlen /\ c + 4 <= y /\ c \in 0 .. c
    BY <1>1, <2>1
  <2>3. o2[c] = o[c]
    BY <1>6, <2>2
  <2>4. o2[c].price + 3 + ExtensionSize(y - c - 4) <= o2[y].price
    BY <1>3, <1>5, <2>1, <2>3 DEF MatchPrice
  <2>5. ASSUME NEW z \in c + 4 .. y
        PROVE  o2[z].price <= o2[c].price + 3 + ExtensionSize(z - c - 4)
    <3>1. z \in c + 4 .. c + len /\ z <= l2
      BY <1>1, <1>4, <2>1
    <3> QED
      BY <1>3, <2>3, <3>1 DEF MatchPrice
  <2> QED
    BY <2>2, <2>4, <2>5 DEF FromMatch
<1>8. CASE Left(o, o2, l, c, len, y)
  <2>1. o2[y] = o[y] /\ y \in 4 .. l + 3
    BY <1>1, <1>8 DEF Left
  <2>2. PICK s \in 0 .. c - 1 :
          /\ s = y - o[y].mlen /\ s + 4 <= y
          /\ o[s].price + 3 + ExtensionSize(y - s - 4) <= o[y].price
          /\ \A z \in s + 4 .. y : o[z].price <= o[s].price + 3 + ExtensionSize(z - s - 4)
    BY <1>1, <2>1 DEF FromMatch
  <2>3. s \in 0 .. (c + 1) - 1 /\ s \in 0 .. c /\ s \in Nat
    BY <1>1
  <2>4. o2[s] = o[s] /\ o[s].price \in Nat
    <3>1. s \in 0 .. l + 3
      BY <1>1
    <3> QED
      BY <1>1, <1>6, <2>3, <3>1
  <2>5. ASSUME NEW z \in s + 4 .. y
        PROVE  o2[z].price <= o2[s].price + 3 + ExtensionSize(z - s - 4)
    <3>1. z \in 0 .. l2 /\ z <= l + 3 /\ z \in 0 .. l + 3 /\ z - s - 4 \in Int
      BY <1>1, <1>4, <2>1, <2>3
    <3>2. o2[z].price <= o[z].price /\ o2[z].price \in Nat /\ o[z].price \in Nat
      BY <1>1, <1>3, <3>1
    <3>3. ExtensionSize(z - s - 4) \in Nat
      BY <1>1, <3>1, ExtensionIs
    <3>4. o[z].price <= o[s].price + 3 + ExtensionSize(z - s - 4)
      BY <2>2
    <3> QED
      BY <2>4, <3>2, <3>3, <3>4
  <2>6. s = y - o2[y].mlen /\ o2[s].price + 3 + ExtensionSize(y - s - 4) <= o2[y].price
    BY <2>1, <2>2, <2>4
  <2> QED
    BY <2>2, <2>3, <2>5, <2>6 DEF FromMatch
<1> QED
  BY <1>2, <1>5, <1>7, <1>8

LEMMA ImprovedLiterals ==
  ASSUME NEW o, NEW o2, NEW l, NEW l2, NEW c, NEW b, NEW len, Improves2(o, o2, l, l2, c, b, len),
         o2[l2].mlen # 1, NEW y \in 4 .. l2 + 3, o2[y].mlen = 1
  PROVE  FromLiterals(o2, y)
<1>1. /\ l \in Nat /\ c \in Nat /\ len \in Nat /\ l2 \in Nat /\ c < l /\ l <= l2
      /\ l >= 4
      /\ \A z \in 0 .. l + 3 : o[z].price \in Nat
      /\ \A z \in 4 .. l + 3 : o[z].mlen = 1 => FromLiterals(o, z)
  BY DEF Improves2, Improved, Tables, Rows
<1>2. /\ \A z \in 0 .. l2 : Entered(o, o2, l, c, len, z) \/ Left(o, o2, l, c, len, z)
      /\ \A k \in 1 .. 3 : o2[l2 + k].litlen = k /\ o2[l2 + k].price = o2[l2].price + k
  BY DEF Improves2, Improved
<1>3. /\ \A z \in 0 .. l2 : o2[z].price \in Nat
      /\ \A z \in 0 .. l2 : z <= l + 3 => o2[z].price <= o[z].price
  BY ImprovedPrices
<1>4. CASE y > l2
  <2>1. PICK k \in 1 .. 3 : y = l2 + k
    <3>1. y - l2 \in 1 .. 3 /\ y = l2 + (y - l2)
      BY <1>1, <1>4
    <3> QED
      BY <3>1
  <2>2. o2[y].litlen = k /\ o2[y].price = o2[l2].price + k /\ o2[l2].price \in Nat
    <3>1. l2 \in 0 .. l2
      BY <1>1
    <3> QED
      BY <1>2, <1>3, <2>1, <3>1
  <2>3. l2 \in 4 .. y - 1 /\ y <= l2 + 3 /\ l2 = y - o2[y].litlen /\ y - l2 = k
    BY <1>1, <2>1, <2>2
  <2>4. o2[l2].price + (y - l2) <= o2[y].price
    BY <2>2, <2>3
  <2> QED
    BY <2>3, <2>4 DEF FromLiterals
<1>5. CASE y <= l2
  <2>1. y \in 0 .. l2
    BY <1>1, <1>5
  <2>2. ~Entered(o, o2, l, c, len, y)
    <3>1. SUFFICES ASSUME Entered(o, o2, l, c, len, y) PROVE FALSE
      OBVIOUS
    <3>2. y - c = 1 /\ y >= c + 4
      BY <1>1, <3>1 DEF Entered
    <3> QED
      BY <1>1, <3>2
  <2>3. o2[y] = o[y] /\ y \in 4 .. l + 3
    BY <1>1, <1>2, <2>1, <2>2 DEF Left
  <2>4. PICK r \in 4 .. y - 1 :
          r = y - o[y].litlen /\ y <= r + 3 /\ o[r].mlen # 1 /\ o[r].price + (y - r) <= o[y].price
    BY <1>1, <2>3 DEF FromLiterals
  <2>5. r \in 0 .. l2 /\ r <= l + 3 /\ r \in 0 .. l + 3
    BY <1>1, <1>5, <2>3
  <2>6. o2[r].price <= o[r].price /\ o2[r].price \in Nat /\ o[r].price \in Nat
    BY <1>1, <1>3, <2>5
  <2>7. o2[r].mlen # 1
    <3>1. CASE Entered(o, o2, l, c, len, r)
      <4>1. o2[r].mlen = r - c /\ r >= c + 4
        BY <1>1, <3>1 DEF Entered
      <4> QED
        BY <1>1, <4>1
    <3>2. CASE Left(o, o2, l, c, len, r)
      BY <2>4, <3>2 DEF Left
    <3> QED
      BY <1>2, <2>5, <3>1, <3>2
  <2>8. o2[r].price + (y - r) <= o2[y].price
    <3>1. y - r \in Nat /\ o[y].price \in Nat
      BY <1>1, <2>3
    <3> QED
      BY <2>3, <2>4, <2>6, <3>1
  <2>9. r = y - o2[y].litlen
    BY <2>3, <2>4
  <2> QED
    BY <2>4, <2>7, <2>8, <2>9 DEF FromLiterals
<1> QED
  BY <1>1, <1>4, <1>5

LEMMA ImprovedSpans ==
  ASSUME NEW o, NEW o2, NEW l, NEW l2, NEW c, NEW b, NEW len, Improves2(o, o2, l, l2, c, b, len),
         NEW y \in 4 .. l2
  PROVE  \E w \in 0 .. (c + 1) - 1 : Spans(o2, c + 1, b, w, y)
<1>1. /\ l \in Nat /\ c \in Nat /\ len \in Nat /\ l2 \in Nat /\ c < l /\ l <= l2
      /\ l >= 4 /\ Plain(o, b, c) /\ Tables(o, l, c, b)
      /\ l2 = l \/ l2 = c + len
      /\ \A z \in 0 .. l + 3 : o[z].price \in Nat
      /\ \A z \in 4 .. l : \E w \in 0 .. c - 1 : Spans(o, c, b, w, z)
  BY DEF Improves2, Improved, Tables, Rows
<1>2. Entered(o, o2, l, c, len, y) \/ Left(o, o2, l, c, len, y)
  <2>1. y \in 0 .. l2
    OBVIOUS
  <2> QED
    BY <2>1 DEF Improves2, Improved
<1>3. /\ \A z \in 0 .. c + 3 : z <= l2 => o2[z] = o[z]
      /\ \A z \in 0 .. l2 : o2[z].price \in Nat
      /\ \A z \in 0 .. l2 : z <= l + 3 => o2[z].price <= o[z].price
  BY ImprovedPrices
<1>4. ASSUME NEW w \in 0 .. c, Plain(o, b, w) PROVE o2[w] = o[w] /\ Plain(o2, b, w)
  <2>1. w \in 0 .. c + 3 /\ w <= l2
    BY <1>1
  <2> QED
    BY <1>3, <1>4, <2>1 DEF Plain
<1>5. c \in 0 .. c /\ c \in 0 .. (c + 1) - 1
  BY <1>1
<1>6. o2[c] = o[c] /\ Plain(o2, b, c)
  BY <1>1, <1>4, <1>5
<1>7. o[c].price \in Nat /\ o2[y].price \in Nat
  <2>1. c \in 0 .. l + 3 /\ y \in 0 .. l2
    BY <1>1
  <2> QED
    BY <1>1, <1>3, <2>1
<1>8. y - c - 4 \in Int
  BY <1>1
<1>9. ExtensionSize(y - c - 4) \in Nat
  BY <1>1, <1>8, ExtensionIs
<1>10. CASE y > c /\ o2[y].price <= MatchPrice(o, c, y)
  <2>1. Spans(o2, c + 1, b, c, y)
    BY <1>1, <1>6, <1>10 DEF Spans, MatchPrice
  <2> QED
    BY <1>5, <2>1
<1>11. CASE Entered(o, o2, l, c, len, y)
  <2>1. y > c /\ o2[y].price <= MatchPrice(o, c, y)
    BY <1>1, <1>7, <1>11 DEF Entered
  <2> QED
    BY <1>10, <2>1
<1>12. CASE Left(o, o2, l, c, len, y) /\ y <= l
  <2>1. PICK w \in 0 .. c - 1 : Spans(o, c, b, w, y)
    <3>1. y \in 4 .. l
      BY <1>12
    <3> QED
      BY <1>1, <3>1
  <2>2. w \in 0 .. c /\ w \in 0 .. (c + 1) - 1 /\ Plain(o, b, w)
    BY <1>1, <2>1 DEF Spans
  <2>3. o2[w] = o[w] /\ Plain(o2, b, w)
    BY <1>4, <2>2
  <2>4. o2[y] = o[y]
    BY <1>12 DEF Left
  <2>5. Spans(o2, c + 1, b, w, y)
    BY <2>1, <2>3, <2>4 DEF Spans
  <2> QED
    BY <2>2, <2>5
<1>13. CASE Left(o, o2, l, c, len, y) /\ y > l
  <2>1. o2[y] = o[y] /\ y <= l + 3 /\ y > c
    BY <1>1, <1>13 DEF Left
  <2>2. CASE y >= c + 4
    <3>1. y \in c + 4 .. c + len
      BY <1>1, <1>13, <2>2
    <3>2. o[y].price < MatchPrice(o, c, y)
      BY <1>13, <3>1 DEF Left
    <3>3. o2[y].price <= MatchPrice(o, c, y)
      BY <1>7, <1>9, <2>1, <3>2 DEF MatchPrice
    <3> QED
      BY <1>10, <2>1, <3>3
  <2>3. CASE y < c + 4
    <3>1. Plain(o, b, y)
      BY DEF Plain
    <3>2. o[y].price <= o[c].price + 3
      BY <1>1, <2>1, <2>3, <3>1, NearPrices
    <3>3. o2[y].price <= MatchPrice(o, c, y)
      BY <1>7, <1>9, <2>1, <3>2 DEF MatchPrice
    <3> QED
      BY <1>10, <2>1, <3>3
  <2> QED
    BY <1>1, <2>2, <2>3
<1> QED
  BY <1>1, <1>2, <1>11, <1>12, <1>13

LEMMA ImprovedRows ==
  ASSUME NEW o, NEW o2, NEW l, NEW l2, NEW c, NEW b, NEW len, Improves2(o, o2, l, l2, c, b, len)
  PROVE  Rows(o2, l2, c + 1, b)
<1>1. /\ l \in Nat /\ c \in Nat /\ len \in Nat /\ l2 \in Nat /\ c < l /\ l <= l2
      /\ l >= 4 /\ c >= 1
      /\ \A z \in 0 .. l + 3 : o[z].price \in Nat /\ o[z].mlen \in Nat /\ o[z].litlen \in Nat
      /\ \A z \in 0 .. 3 :
           o[z].mlen = 1 /\ o[z].litlen = b + z /\ o[z].price = LiteralsPrice(b + z)
      /\ o[4].price <= LiteralsPrice(b) + 3 /\ o[l].mlen # 1 /\ b \in Nat
  BY DEF Improves2, Improved, Tables, Rows
<1>14. LiteralsPrice(b) \in Nat
  BY <1>1, LiteralsPriceIs
<1>2. /\ \A z \in 0 .. l2 : Entered(o, o2, l, c, len, z) \/ Left(o, o2, l, c, len, z)
      /\ l2 = l \/ o2[l2].mlen # 1
      /\ \A k \in 1 .. 3 : /\ o2[l2 + k].mlen = 1 /\ o2[l2 + k].litlen = k
                           /\ o2[l2 + k].price = o2[l2].price + k
  BY DEF Improves2, Improved
<1>3. /\ \A z \in 0 .. c + 3 : z <= l2 => o2[z] = o[z]
      /\ \A z \in 0 .. l2 : o2[z].price \in Nat
      /\ \A z \in 0 .. l2 : z <= l + 3 => o2[z].price <= o[z].price
  BY ImprovedPrices
<1>4. ASSUME NEW y \in 0 .. l2
      PROVE  /\ o2[y].mlen \in Nat /\ o2[y].litlen \in Nat
             /\ o2[y].mlen = 1 => Left(o, o2, l, c, len, y)
  <2>1. CASE Entered(o, o2, l, c, len, y)
    <3>1. y >= c + 4 /\ o2[y].mlen = y - c /\ o2[y].litlen \in Nat
      BY <1>1, <2>1 DEF Entered
    <3> QED
      BY <1>1, <3>1
  <2>2. CASE Left(o, o2, l, c, len, y)
    <3>1. y \in 0 .. l + 3 /\ o2[y] = o[y]
      BY <1>1, <2>2 DEF Left
    <3> QED
      BY <1>1, <2>2, <3>1
  <2> QED
    BY <1>2, <2>1, <2>2
<1>5. o2[l2].mlen # 1
  <2>1. CASE l2 = l
    <3>1. l2 \in 0 .. l2
      BY <1>1
    <3>2. o2[l2].mlen = 1 => o2[l2] = o[l2]
      BY <1>4, <3>1 DEF Left
    <3> QED
      BY <1>1, <2>1, <3>2
  <2> QED
    BY <1>2, <2>1
<1>6. ASSUME NEW y \in 0 .. l2 + 3
      PROVE  o2[y].price \in Nat /\ o2[y].mlen \in Nat /\ o2[y].litlen \in Nat
  <2>1. CASE y <= l2
    <3>1. y \in 0 .. l2
      BY <2>1
    <3> QED
      BY <1>3, <1>4, <3>1
  <2>2. CASE y > l2
    <3>1. PICK k \in 1 .. 3 : y = l2 + k
      <4>1. y - l2 \in 1 .. 3 /\ y = l2 + (y - l2)
        BY <1>1, <2>2
      <4> QED
        BY <4>1
    <3>2. l2 \in 0 .. l2
      BY <1>1
    <3>3. o2[l2].price \in Nat
      BY <1>3, <3>2
    <3> QED
      BY <1>2, <3>1, <3>3
  <2> QED
    BY <1>1, <2>1, <2>2
<1>7. ASSUME NEW y \in 0 .. 3
      PROVE  o2[y].mlen = 1 /\ o2[y].litlen = b + y /\ o2[y].price = LiteralsPrice(b + y)
  <2>1. y \in 0 .. c + 3 /\ y <= l2
    BY <1>1
  <2>2. o2[y] = o[y]
    BY <1>3, <2>1
  <2> QED
    BY <1>1, <2>2
<1>8. o2[4].price <= LiteralsPrice(b) + 3
  <2>1. 4 \in 0 .. l2 /\ 4 <= l + 3 /\ 4 \in 0 .. l + 3
    BY <1>1
  <2>2. o2[4].price <= o[4].price /\ o2[4].price \in Nat /\ o[4].price \in Nat
    BY <1>1, <1>3, <2>1
  <2> QED
    BY <1>1, <1>14, <2>2
<1>9. \A x \in 4 .. l2 + 2 : o2[x + 1].price <= o2[x].price + 1
  BY ImprovedFlat
<1>10. \A y \in 4 .. l2 + 3 : o2[y].mlen # 1 => FromMatch(o2, c + 1, y)
  BY ImprovedMatches
<1>11. \A y \in 4 .. l2 + 3 : o2[y].mlen = 1 => FromLiterals(o2, y)
  BY <1>5, ImprovedLiterals
<1>12. \A y \in 4 .. l2 : \E w \in 0 .. (c + 1) - 1 : Spans(o2, c + 1, b, w, y)
  BY ImprovedSpans
<1>13. l2 >= 4
  BY <1>1
<1> QED
  BY <1>1, <1>2, <1>5, <1>6, <1>7, <1>8, <1>9, <1>10, <1>11, <1>12, <1>13 DEF Rows

(* The first match.                                                        *)
LEMMA FirstRows ==
  ASSUME NEW o, NEW b \in Nat, NEW len \in Nat, len >= 4,
         \A y \in 0 .. 3 :
           o[y].mlen = 1 /\ o[y].litlen = b + y /\ o[y].price = LiteralsPrice(b + y),
         \A y \in 4 .. len :
           /\ o[y].mlen = y /\ o[y].litlen = b
           /\ o[y].price = LiteralsPrice(b) + 3 + ExtensionSize(y - 4),
         \A k \in 1 .. 3 :
           o[len + k].mlen = 1 /\ o[len + k].litlen = k /\ o[len + k].price = o[len].price + k
  PROVE  Rows(o, len, 1, b)
<1>1. PICK p \in Nat : p = LiteralsPrice(b)
  BY LiteralsPriceIs
<1>2. ASSUME NEW y \in 4 .. len
      PROVE  /\ ExtensionSize(y - 4) \in Nat /\ o[y].price = p + 3 + ExtensionSize(y - 4)
             /\ o[y].price \in Nat
  <2>1. y - 4 \in Int
    OBVIOUS
  <2>2. ExtensionSize(y - 4) \in Nat
    BY <2>1, ExtensionIs
  <2> QED
    BY <1>1, <2>2
<1>3. ASSUME NEW y \in 0 .. 3
      PROVE  o[y].price \in Nat /\ o[y].litlen \in Nat /\ o[y].mlen = 1
  <2>1. b + y \in Nat
    OBVIOUS
  <2>2. LiteralsPrice(b + y) \in Nat
    BY <2>1, LiteralsPriceIs
  <2> QED
    BY <2>1, <2>2
<1>4. len \in 4 .. len
  OBVIOUS
<1>5. o[len].price \in Nat /\ o[len].mlen # 1
  <2>1. o[len].mlen = len
    BY <1>4
  <2> QED
    BY <1>2, <1>4, <2>1
<1>6. ASSUME NEW y \in 0 .. len + 3
      PROVE  /\ o[y].price \in Nat /\ o[y].mlen \in Nat /\ o[y].litlen \in Nat
             /\ (y >= 4 /\ o[y].mlen = 1) => FromLiterals(o, y)
             /\ (y >= 4 /\ o[y].mlen # 1) => y <= len
  <2>1. CASE y <= 3
    <3>1. y \in 0 .. 3
      BY <2>1
    <3> QED
      BY <1>3, <2>1, <3>1
  <2>2. CASE y >= 4 /\ y <= len
    <3>1. y \in 4 .. len
      BY <2>2
    <3>2. o[y].mlen = y /\ o[y].litlen = b
      BY <3>1
    <3> QED
      BY <1>2, <2>2, <3>1, <3>2
  <2>3. CASE y > len
    <3>1. PICK k \in 1 .. 3 : y = len + k
      <4>1. y - len \in 1 .. 3 /\ y = len + (y - len)
        BY <2>3
      <4> QED
        BY <4>1
    <3>2. o[y].mlen = 1 /\ o[y].litlen = k /\ o[y].price = o[len].price + k
      BY <3>1
    <3>3. len \in 4 .. y - 1 /\ len = y - k /\ y <= len + 3 /\ y - len = k
      BY <3>1
    <3>4. o[len].price + (y - len) <= o[y].price
      BY <1>5, <3>2, <3>3
    <3>5. FromLiterals(o, y)
      BY <1>5, <3>2, <3>3, <3>4 DEF FromLiterals
    <3> QED
      BY <1>5, <3>2, <3>5
  <2> QED
    BY <2>1, <2>2, <2>3
<1>7. o[4].price <= p + 3
  <2>1. 4 \in 4 .. len /\ 4 - 4 = 0 /\ 0 \in Int /\ 0 < MASK
    BY PriceNumbers
  <2>2. ExtensionSize(4 - 4) = 0
    BY <2>1, ExtensionIs
  <2>3. o[4].price = p + 3 + ExtensionSize(4 - 4)
    BY <1>2, <2>1
  <2> QED
    BY <1>1, <2>2, <2>3
<1>8. ASSUME NEW x \in 4 .. len + 2 PROVE o[x + 1].price <= o[x].price + 1
  <2>1. CASE x < len
    <3>1. x \in 4 .. len /\ x + 1 \in 4 .. len
      BY <2>1
    <3>2. PICK a \in Int : a = x - 4
      OBVIOUS
    <3>3. ExtensionSize(a + 1) <= ExtensionSize(a) + 1
      BY ExtensionStep
    <3>4. (x + 1) - 4 = a + 1
      BY <3>2
    <3>5. /\ o[x].price = p + 3 + ExtensionSize(a) /\ ExtensionSize(a) \in Nat
          /\ o[x + 1].price = p + 3 + ExtensionSize(a + 1) /\ ExtensionSize(a + 1) \in Nat
      BY <1>2, <3>1, <3>2, <3>4
    <3> QED
      BY <1>1, <3>3, <3>5
  <2>2. CASE x = len
    <3>1. o[len + 1].price = o[len].price + 1
      OBVIOUS
    <3> QED
      BY <1>5, <2>2, <3>1
  <2>3. CASE x > len
    <3>1. PICK k \in 1 .. 2 : x = len + k
      <4>1. x - len \in 1 .. 2 /\ x = len + (x - len)
        BY <2>3
      <4> QED
        BY <4>1
    <3>2. k \in 1 .. 3 /\ k + 1 \in 1 .. 3 /\ x + 1 = len + (k + 1)
      BY <3>1
    <3>3. o[x].price = o[len].price + k /\ o[x + 1].price = o[len].price + (k + 1)
      BY <3>1, <3>2
    <3> QED
      BY <1>5, <3>3
  <2> QED
    BY <2>1, <2>2, <2>3
<1>9. o[0].price = p
  <2>1. 0 \in 0 .. 3 /\ b + 0 = b
    OBVIOUS
  <2> QED
    BY <1>1, <2>1
<1>10. ASSUME NEW y \in 4 .. len + 3, o[y].mlen # 1 PROVE FromMatch(o, 1, y)
  <2>1. y \in 0 .. len + 3 /\ y >= 4
    OBVIOUS
  <2>2. y \in 4 .. len
    BY <1>6, <1>10, <2>1
  <2>3. 0 \in 0 .. 1 - 1 /\ 0 = y - o[y].mlen /\ 0 + 4 <= y
    BY <2>2
  <2>4. ASSUME NEW z \in 4 .. len
        PROVE  /\ o[z].price = o[0].price + 3 + ExtensionSize(z - 0 - 4)
               /\ o[z].price \in Nat /\ z - 0 - 4 = z - 4
    <3>1. z - 0 - 4 = z - 4
      OBVIOUS
    <3> QED
      BY <1>2, <1>9, <3>1
  <2>5. o[0].price + 3 + ExtensionSize(y - 0 - 4) <= o[y].price
    BY <2>2, <2>4
  <2>6. ASSUME NEW z \in 0 + 4 .. y
        PROVE  o[z].price <= o[0].price + 3 + ExtensionSize(z - 0 - 4)
    <3>1. z \in 4 .. len
      BY <2>2
    <3> QED
      BY <2>4, <3>1
  <2> QED
    BY <2>3, <2>5, <2>6 DEF FromMatch
<1>11. ASSUME NEW y \in 4 .. len PROVE \E w \in 0 .. 1 - 1 : Spans(o, 1, b, w, y)
  <2>1. 0 \in 0 .. 1 - 1 /\ 0 < y /\ y - 0 - 4 = y - 4 /\ 0 # 3
    OBVIOUS
  <2>2. o[y].price = o[0].price + 3 + ExtensionSize(y - 0 - 4) /\ o[y].price \in Nat
    BY <1>2, <1>9, <2>1
  <2>3. Spans(o, 1, b, 0, y)
    BY <2>1, <2>2 DEF Spans, Plain
  <2> QED
    BY <2>1, <2>3
<1>12. \A y \in 4 .. len + 3 : o[y].mlen = 1 => FromLiterals(o, y)
  <2>1. \A y \in 4 .. len + 3 : y \in 0 .. len + 3 /\ y >= 4
    OBVIOUS
  <2> QED
    BY <1>6, <2>1
<1> QED
  BY <1>1, <1>5, <1>6, <1>7, <1>8, <1>10, <1>11, <1>12 DEF Rows

(* More literals behind c are never cheaper than what is known.            *)
LEMMA LiteralsNotCheaper ==
  ASSUME NEW o, NEW l, NEW c, NEW b, Tables(o, l, c, b), c < l, NEW k \in 1 .. 3
  PROVE  ~(o[c].price - LiteralsPrice(o[c].litlen) + LiteralsPrice(o[c].litlen + k)
             < o[c + k].price)
<1>1. /\ l \in Nat /\ l >= 4 /\ c \in Nat /\ b \in Nat
      /\ \A z \in 0 .. l + 3 : o[z].price \in Nat /\ o[z].litlen \in Nat
      /\ \A z \in 0 .. 3 : o[z].litlen = b + z /\ o[z].price = LiteralsPrice(b + z)
  BY DEF Tables, Rows
<1>2. c \in 0 .. l + 3 /\ c + k \in 0 .. l + 3 /\ c + k \in Nat
  BY <1>1
<1>3. PICK q \in Nat, r \in Nat, e \in Nat : q = o[c].price /\ r = o[c + k].price /\ e = o[c].litlen
  BY <1>1, <1>2
<1>4. PICK x, y : x = LiteralsPrice(e) /\ y = LiteralsPrice(e + k)
  OBVIOUS
<1>5. k \in Nat /\ e + k \in Nat
  OBVIOUS
<1>6. x \in Nat /\ y \in Nat /\ x + k <= y
  BY <1>1, <1>4, <1>5, LiteralsPriceIs
<1>7. r + x <= q + y
  <2>1. CASE c >= 4
    <3>1. o[c + k].price <= o[c].price + ((c + k) - c)
      <4>1. c <= c + k /\ c + k <= c + 3 /\ c + k <= l + 3
        BY <1>1
      <4> QED
        BY <1>1, <1>2, <2>1, <4>1, FlatPrices
    <3>2. (c + k) - c = k
      BY <1>1
    <3>3. r <= q + k
      BY <1>3, <3>1, <3>2
    <3> QED
      BY <1>6, <3>3
  <2>2. CASE c <= 3
    <3>1. c \in 0 .. 3
      BY <1>1, <2>2
    <3>2. e = b + c /\ q = x
      BY <1>1, <1>3, <1>4, <3>1
    <3>3. r <= y
      <4>1. CASE c + k <= 3
        <5>1. c + k \in 0 .. 3 /\ b + (c + k) = e + k
          BY <1>1, <3>2, <4>1
        <5>2. r = y
          BY <1>1, <1>3, <1>4, <5>1
        <5> QED
          BY <1>6, <5>2
      <4>2. CASE c + k >= 4
        <5>1. PICK p \in Nat, d \in Nat : p = LiteralsPrice(b) /\ d = c + k
          BY <1>1, <1>2, LiteralsPriceIs
        <5>2. d \in 4 .. 7
          BY <3>1, <4>2, <5>1
        <5>3. o[d].price <= p + d - 1
          BY <5>1, <5>2, FirstPrices
        <5>4. p + d <= LiteralsPrice(b + d)
          BY <1>1, <5>1, LiteralsPriceIs
        <5>5. b + d = e + k
          BY <1>1, <3>2, <5>1
        <5> QED
          BY <1>3, <1>4, <1>6, <5>1, <5>3, <5>4, <5>5
      <4> QED
        BY <1>1, <4>1, <4>2
    <3> QED
      BY <1>3, <1>6, <3>2, <3>3
  <2> QED
    BY <1>1, <2>1, <2>2
<1> QED
  BY <1>3, <1>4, <1>6, <1>7

(* A match behind c costs what it takes more than the way to c, whether    *)
(* the literals that end there are counted with it or not.                 *)
LEMMA WithMatchIs ==
  ASSUME Tables(opt, last, cur, ip - anchor), cur < last,
         NEW y \in Nat, y >= cur + 4
  PROVE  /\ WithMatch(y - cur).mlen = y - cur /\ WithMatch(y - cur).litlen \in Nat
         /\ WithMatch(y - cur).price = MatchPrice(opt, cur, y)
<1>1. PICK b, c, l : b = ip - anchor /\ c = cur /\ l = last
  OBVIOUS
<1>2. /\ l \in Nat /\ l >= 4 /\ c \in Nat /\ b \in Nat /\ Tables(opt, l, c, b)
      /\ \A z \in 0 .. l + 3 : opt[z].price \in Nat /\ opt[z].litlen \in Nat
      /\ \A z \in 0 .. 3 : opt[z].litlen = b + z /\ opt[z].price = LiteralsPrice(b + z)
  BY <1>1 DEF Tables, Rows
<1>3. c \in 0 .. l + 3
  BY <1>1, <1>2
<1>4. PICK q \in Nat, e \in Nat : q = opt[c].price /\ e = opt[c].litlen
  BY <1>2, <1>3
<1>5. PICK len \in Nat : len = y - c
  BY <1>1, <1>2
<1>6. PICK x \in Nat : x = ExtensionSize(y - c - 4)
  <2>1. y - c - 4 \in Int
    BY <1>2
  <2> QED
    BY <1>2, <2>1, ExtensionIs
<1>7. MINMATCH = 4 /\ len - MINMATCH = y - c - 4
  BY <1>2, <1>5, PriceNumbers
<1>8. \A ll \in Nat : SequencePrice(ll, len) = 1 + 2 + LiteralsPrice(ll) + x
  BY <1>6, <1>7 DEF SequencePrice
<1>9. MatchPrice(opt, cur, y) = q + 3 + x
  BY <1>1, <1>4, <1>6 DEF MatchPrice
<1>10. CASE opt[c].mlen # 1
  <2>1. WithMatch(len) = Match(0, Found, len, q + SequencePrice(0, len))
    BY <1>1, <1>4, <1>10 DEF WithMatch
  <2>2. LiteralsPrice(0) = 0
    BY <1>2, LiteralsPriceIs
  <2>3. q + SequencePrice(0, len) = q + 3 + x
    BY <1>8, <2>2
  <2>4. /\ WithMatch(len).mlen = len /\ WithMatch(len).litlen = 0
        /\ WithMatch(len).price = q + 3 + x
    BY <2>1, <2>3 DEF Match
  <2> QED
    BY <1>1, <1>5, <1>9, <2>4
<1>11. CASE opt[c].mlen = 1
  <2>1. PICK f : f = BeforeMatch(e)
    OBVIOUS
  <2>2. WithMatch(len) = Match(e, Found, len, f + SequencePrice(e, len))
    BY <1>1, <1>4, <1>11, <2>1 DEF WithMatch
  <2>3. f \in Nat /\ f + LiteralsPrice(e) = q /\ LiteralsPrice(e) \in Nat
    <3>1. CASE c <= 3
      <4>1. c \in 0 .. 3
        BY <1>2, <3>1
      <4>2. e = b + c /\ q = LiteralsPrice(e)
        BY <1>2, <1>4, <4>1
      <4>3. ~(c > e)
        BY <1>2, <4>2
      <4>4. f = 0
        BY <1>1, <2>1, <4>3 DEF BeforeMatch
      <4> QED
        BY <1>4, <4>2, <4>4
    <3>2. CASE c >= 4
      <4>1. c \in 4 .. l + 3
        BY <1>3, <3>2
      <4>2. FromLiterals(opt, c)
        BY <1>2, <1>11, <4>1 DEF Tables, Rows
      <4>3. PICK r \in 4 .. c - 1 :
              r = c - e /\ c <= r + 3 /\ opt[r].price + (c - r) <= opt[c].price
        BY <1>4, <4>2 DEF FromLiterals
      <4>4. r \in Nat /\ r \in 0 .. l + 3 /\ c - r = e /\ c > e /\ c - e = r /\ e <= 3
        BY <1>2, <1>3, <4>3
      <4>5. opt[c].price <= opt[r].price + (c - r)
        BY <1>2, <1>3, <4>3, <4>4, FlatPrices
      <4>6. opt[r].price \in Nat
        BY <1>2, <4>4
      <4>7. opt[r].price + e = q
        BY <1>4, <4>3, <4>4, <4>5, <4>6
      <4>8. f = opt[r].price
        BY <1>1, <2>1, <4>4 DEF BeforeMatch
      <4>9. LiteralsPrice(e) = e
        BY <1>2, <4>4, LiteralsPriceIs
      <4> QED
        BY <4>6, <4>7, <4>8, <4>9
    <3> QED
      BY <1>2, <3>1, <3>2
  <2>4. f + SequencePrice(e, len) = q + 3 + x
    BY <1>8, <2>3
  <2>5. /\ WithMatch(len).mlen = len /\ WithMatch(len).litlen = e
        /\ WithMatch(len).price = q + 3 + x
    BY <2>2, <2>4 DEF Match
  <2> QED
    BY <1>1, <1>5, <1>9, <2>5
<1> QED
  BY <1>10, <1>11

-----------------------------------------------------------------------------
(* The prices, in every state in which the table is used.                  *)
InTable == level.strat = "lz4opt" /\ step \in {"further", "improve"}

PriceInv ==
  InTable => /\ Rows(opt, last, cur, ip - anchor)
             /\ step = "improve" => Plain(opt, ip - anchor, cur)

(* At the next position.                                                   *)
LEMMA RowsOn ==
  ASSUME NEW o, NEW l, NEW c \in Nat, NEW b, Rows(o, l, c, b)
  PROVE  Rows(o, l, c + 1, b)
<1>1. \A s \in 0 .. c - 1 : s \in 0 .. (c + 1) - 1
  OBVIOUS
<1>2. l \in Nat
  BY DEF Rows
<1>3. \A y \in 4 .. l + 3 : o[y].mlen # 1 => FromMatch(o, c + 1, y)
  <2>1. ASSUME NEW y \in 4 .. l + 3, o[y].mlen # 1 PROVE FromMatch(o, c + 1, y)
    <3>1. FromMatch(o, c, y)
      BY <2>1 DEF Rows
    <3> QED
      BY <1>1, <3>1 DEF FromMatch
  <2> QED
    BY <2>1
<1>4. \A y \in 4 .. l : \E w \in 0 .. (c + 1) - 1 : Spans(o, c + 1, b, w, y)
  <2>1. ASSUME NEW y \in 4 .. l PROVE \E w \in 0 .. (c + 1) - 1 : Spans(o, c + 1, b, w, y)
    <3>1. PICK w \in 0 .. c - 1 : Spans(o, c, b, w, y)
      BY DEF Rows
    <3>2. Spans(o, c + 1, b, w, y)
      BY <3>1 DEF Spans
    <3> QED
      BY <1>1, <3>2
  <2> QED
    BY <2>1
<1> QED
  BY <1>3, <1>4 DEF Rows

(* Where the table is used.                                                *)
LEMMA InTableIs ==
  ASSUME HcInv, PriceInv, InTable
  PROVE  /\ pc = "parse" /\ anchor \in Nat /\ ip \in Nat /\ anchor <= ip /\ ip - anchor \in Nat
         /\ cur \in 1 .. last /\ cur \in Nat /\ last \in Nat
         /\ Tables(opt, last, cur, ip - anchor) /\ TableOK
         /\ step = "improve" => cur < last /\ Plain(opt, ip - anchor, cur)
<1>1. /\ pc = "parse" /\ anchor \in Nat /\ ip \in Nat /\ anchor <= ip /\ cur \in Nat
      /\ last \in Nat /\ TableOK /\ cur \in 1 .. last
      /\ step = "improve" => cur \in 1 .. last - 1
  BY DEF InTable, HcInv, OptimalInv
<1>2. ip - anchor \in Nat
  BY <1>1
<1>3. /\ Rows(opt, last, cur, ip - anchor)
      /\ step = "improve" => Plain(opt, ip - anchor, cur)
  BY DEF PriceInv
<1>4. Tables(opt, last, cur, ip - anchor)
  BY <1>1, <1>2, <1>3 DEF Tables
<1>5. ASSUME step = "improve" PROVE cur < last
  <2>1. PICK c, l : c = cur /\ l = last
    OBVIOUS
  <2>2. l \in Nat /\ c \in 1 .. l - 1
    BY <1>1, <1>5, <2>1
  <2> QED
    BY ONLY <2>1, <2>2
<1> QED
  BY <1>1, <1>2, <1>3, <1>4, <1>5, Zenon

LEMMA PriceSetPrices ==
  ASSUME OptimalHere, SetPrices
  PROVE  PriceInv'
<1> DEFINE len == Found.len
           lit == ip - anchor
           price == SequencePrice(lit, len)
           new == [p \in 0 .. len + TRAILING_LITERALS |->
                    IF p < MINMATCH THEN Literal(lit + p, LiteralsPrice(lit + p))
                    ELSE IF p <= len THEN Match(lit, Found, p, SequencePrice(lit, p))
                    ELSE Trailing(price, p - len)]
<1>1. /\ FinderInv /\ OptimalInv /\ step = "first" /\ ~Nothing
      /\ step' = "further" /\ opt' = new /\ last' = len /\ cur' = 1
      /\ UNCHANGED <<src, level, finderVars, encoderVars, ip, elected>>
      /\ pc = "parse" => anchor \in Nat
  BY DEF OptimalHere, HcInv, SetPrices
<1>2. /\ anchor \in Nat /\ ip \in Nat /\ anchor <= ip /\ SearchedAt(ip, ip, MINMATCH - 1)
      /\ ip' - anchor' = lit
  BY <1>1 DEF OptimalInv, encoderVars
<1>3. len \in Nat /\ len >= 4
  <2>1. PICK at, min : at = ip /\ min = MINMATCH - 1
    OBVIOUS
  <2>2. at \in Nat /\ SearchedAt(at, at, min)
    BY <1>2, <2>1
  <2> QED
    BY <1>1, <2>2, FoundHere
<1>4. lit \in Nat
  BY <1>2
<1>5. MINMATCH = 4 /\ TRAILING_LITERALS = 3
  BY PriceNumbers
<1>6. \A p \in 0 .. len + 3 :
        new[p] = IF p < 4 THEN Literal(lit + p, LiteralsPrice(lit + p))
                 ELSE IF p <= len THEN Match(lit, Found, p, SequencePrice(lit, p))
                 ELSE Trailing(price, p - len)
  BY <1>5
<1>7. price = SequencePrice(lit, len)
  OBVIOUS
<1> HIDE DEF len, lit, price, new
<1>8. ASSUME NEW y \in 0 .. 3
      PROVE  new[y].mlen = 1 /\ new[y].litlen = lit + y /\ new[y].price = LiteralsPrice(lit + y)
  <2>1. y \in 0 .. len + 3 /\ y < 4
    BY <1>3
  <2>2. new[y] = Literal(lit + y, LiteralsPrice(lit + y))
    BY <1>6, <2>1
  <2> QED
    BY <2>2 DEF Literal
<1>9. ASSUME NEW y \in 4 .. len
      PROVE  /\ new[y].mlen = y /\ new[y].litlen = lit
             /\ new[y].price = LiteralsPrice(lit) + 3 + ExtensionSize(y - 4)
  <2>1. y \in 0 .. len + 3 /\ ~(y < 4) /\ y <= len /\ y - 4 \in Int
    BY <1>3
  <2>2. new[y] = Match(lit, Found, y, SequencePrice(lit, y))
    BY <1>6, <2>1
  <2>3. LiteralsPrice(lit) \in Nat /\ ExtensionSize(y - 4) \in Nat
    BY <1>4, <2>1, LiteralsPriceIs, ExtensionIs
  <2>4. SequencePrice(lit, y) = LiteralsPrice(lit) + 3 + ExtensionSize(y - 4)
    BY <1>5, <2>3 DEF SequencePrice
  <2> QED
    BY <2>2, <2>4 DEF Match
<1>10. ASSUME NEW k \in 1 .. 3
       PROVE  /\ new[len + k].mlen = 1 /\ new[len + k].litlen = k
              /\ new[len + k].price = new[len].price + k
  <2>1. len + k \in 0 .. len + 3 /\ ~(len + k < 4) /\ ~(len + k <= len) /\ (len + k) - len = k
    BY <1>3
  <2>2. new[len + k] = Trailing(price, k)
    BY <1>6, <2>1
  <2>3. new[len].price = price
    <3>1. len \in 0 .. len + 3 /\ ~(len < 4) /\ len <= len
      BY <1>3
    <3>2. new[len] = Match(lit, Found, len, SequencePrice(lit, len))
      BY <1>6, <3>1
    <3> QED
      BY <1>7, <3>2 DEF Match
  <2>4. LiteralsPrice(k) = k
    <3>1. k \in Nat /\ k <= 3
      OBVIOUS
    <3> QED
      BY <3>1, LiteralsPriceIs
  <2> QED
    BY <2>2, <2>3, <2>4 DEF Trailing, Literal
<1>11. Rows(new, len, 1, lit)
  BY <1>3, <1>4, <1>8, <1>9, <1>10, FirstRows
<1> QED
  BY <1>1, <1>2, <1>11 DEF PriceInv

LEMMA PriceImprove ==
  ASSUME OptimalHere, PriceInv, Improve
  PROVE  PriceInv'
<1>1. /\ HcInv /\ InTable /\ step = "improve" /\ ~Nothing
      /\ step' = "further" /\ cur' = cur + 1
      /\ UNCHANGED <<src, level, finderVars, encoderVars, ip, elected>>
  BY DEF OptimalHere, Improve, InTable
<1>2. PICK b, c, l, len : b = ip - anchor /\ c = cur /\ l = last /\ len = Found.len
  OBVIOUS
<1>3. /\ ip \in Nat /\ b \in Nat /\ c \in 1 .. l /\ c \in Nat /\ l \in Nat
      /\ Tables(opt, l, c, b) /\ c < l /\ Plain(opt, b, c)
  BY <1>1, <1>2, InTableIs
<1>4. len \in Nat /\ len >= 4
  <2>1. PICK at, min : at = ip + cur /\ min = search.min
    OBVIOUS
  <2>2. FinderInv /\ at \in Nat /\ SearchedAt(at, at, min)
    <3>1. FinderInv /\ SearchedAt(ip + cur, ip + cur, search.min)
      BY <1>1 DEF HcInv, OptimalInv, InTable
    <3>2. ip + cur \in Nat
      BY <1>2, <1>3
    <3> QED
      BY <2>1, <3>1, <3>2
  <2> QED
    BY <1>1, <1>2, <2>2, FoundHere
<1> DEFINE Improves(p) ==
             p > last + TRAILING_LITERALS \/ WithMatch(p - cur).price <= opt[p].price
           end == IF cur + Found.len > last /\ Improves(cur + Found.len) THEN cur + Found.len
                  ELSE last
           Best(p) ==
             IF p \in cur + MINMATCH .. cur + Found.len /\ Improves(p) THEN WithMatch(p - cur)
             ELSE IF p \in cur + 1 .. cur + MINMATCH - 1
                       /\ WithLiterals(p - cur).price < opt[p].price
               THEN WithLiterals(p - cur)
             ELSE opt[p]
           new == [p \in 0 .. end + TRAILING_LITERALS |->
                    IF p <= end THEN Best(p) ELSE Trailing(Best(end).price, p - end)]
<1>5. last' = end /\ opt' = new
  BY DEF Improve
<1>6. MINMATCH = 4 /\ TRAILING_LITERALS = 3
  BY PriceNumbers
<1>7. /\ end \in Nat
      /\ end = l \/ (end = c + len /\ l < end /\ Improves(end))
  <2>1. \/ cur + Found.len > last /\ end = cur + Found.len /\ Improves(end)
        \/ end = last
    OBVIOUS
  <2> HIDE DEF end, Improves
  <2>2. (c + len > l /\ end = c + len /\ Improves(end)) \/ end = l
    BY <1>2, <2>1
  <2> QED
    BY <1>3, <1>4, <2>2
<1>8. \A p \in 0 .. end + 3 :
        new[p] = IF p <= end THEN Best(p) ELSE Trailing(Best(end).price, p - end)
  BY <1>6
<1>9. \A p : Improves(p) <=> (p > l + 3 \/ WithMatch(p - c).price <= opt[p].price)
  BY <1>2, <1>6
<1>10. ASSUME NEW p
       PROVE  \/ p \in c + 4 .. c + len /\ Improves(p) /\ Best(p) = WithMatch(p - c)
              \/ /\ ~(p \in c + 4 .. c + len /\ Improves(p))
                 /\ p \in c + 1 .. c + 4 - 1 /\ WithLiterals(p - c).price < opt[p].price
              \/ ~(p \in c + 4 .. c + len /\ Improves(p)) /\ Best(p) = opt[p]
  <2>1. \/ p \in cur + MINMATCH .. cur + Found.len /\ Improves(p) /\ Best(p) = WithMatch(p - cur)
        \/ /\ ~(p \in cur + MINMATCH .. cur + Found.len /\ Improves(p))
           /\ p \in cur + 1 .. cur + MINMATCH - 1 /\ WithLiterals(p - cur).price < opt[p].price
        \/ ~(p \in cur + MINMATCH .. cur + Found.len /\ Improves(p)) /\ Best(p) = opt[p]
    OBVIOUS
  <2> HIDE DEF Improves, Best
  <2> QED
    BY <1>2, <1>6, <2>1
<1> HIDE DEF Improves, Best, end, new
<1>11. ASSUME NEW p \in c + 1 .. c + 4 - 1
       PROVE  ~(WithLiterals(p - c).price < opt[p].price)
  <2>1. PICK k \in 1 .. 3 : p = c + k /\ p - c = k
    <3>1. p - c \in 1 .. 3 /\ p = c + (p - c)
      BY <1>3
    <3> QED
      BY <3>1
  <2>2. ~(opt[c].price - LiteralsPrice(opt[c].litlen) + LiteralsPrice(opt[c].litlen + k)
            < opt[c + k].price)
    BY <1>3, LiteralsNotCheaper
  <2> QED
    BY <1>2, <2>1, <2>2 DEF WithLiterals, Literal
<1>12. ASSUME NEW y \in c + 4 .. c + len
       PROVE  /\ WithMatch(y - c).mlen = y - c /\ WithMatch(y - c).litlen \in Nat
              /\ WithMatch(y - c).price = MatchPrice(opt, c, y) /\ MatchPrice(opt, c, y) \in Nat
  <2>1. y \in Nat /\ y >= cur + 4 /\ cur < last
    BY <1>2, <1>3, <1>4
  <2>2. y - c - 4 \in Int /\ c \in 0 .. l + 3
    BY <1>3
  <2>3. ExtensionSize(y - c - 4) \in Nat /\ opt[c].price \in Nat
    BY <1>3, <2>2, ExtensionIs DEF Tables, Rows
  <2>4. MatchPrice(opt, c, y) \in Nat
    BY <2>3 DEF MatchPrice
  <2>5. Tables(opt, last, cur, ip - anchor)
    BY <1>2, <1>3
  <2> QED
    BY <1>2, <2>1, <2>4, <2>5, WithMatchIs
<1>13. ASSUME NEW y \in 0 .. end
       PROVE  Entered(opt, new, l, c, len, y) \/ Left(opt, new, l, c, len, y)
  <2>1. y \in 0 .. end + 3 /\ y <= end
    BY <1>7
  <2>2. new[y] = Best(y)
    BY <1>8, <2>1
  <2>3. CASE y \in c + 4 .. c + len /\ Improves(y)
    <3>1. new[y] = WithMatch(y - c)
      BY <1>10, <2>2, <2>3
    <3>2. y > l + 3 \/ MatchPrice(opt, c, y) <= opt[y].price
      BY <1>9, <1>12, <2>3
    <3> QED
      BY <1>12, <2>3, <3>1, <3>2 DEF Entered
  <2>4. CASE ~(y \in c + 4 .. c + len /\ Improves(y))
    <3>1. new[y] = opt[y]
      BY <1>10, <1>11, <2>2, <2>4
    <3>2. y <= l + 3
      <4>1. y > l + 3 => Improves(y)
        BY <1>9
      <4>2. y > l + 3 => y \in c + 4 .. c + len
        BY <1>3, <1>4, <1>7, <2>1
      <4> QED
        BY <1>3, <1>7, <2>4, <4>1, <4>2
    <3>3. ASSUME y \in c + 4 .. c + len PROVE opt[y].price < MatchPrice(opt, c, y)
      <4>1. ~(MatchPrice(opt, c, y) <= opt[y].price)
        BY <1>9, <1>12, <2>4, <3>3
      <4>2. y \in 0 .. l + 3
        BY <1>3, <1>7, <3>2
      <4>3. opt[y].price \in Nat
        BY <1>3, <4>2 DEF Tables, Rows
      <4> QED
        BY <1>12, <3>3, <4>1, <4>3
    <3> QED
      BY <3>1, <3>2, <3>3 DEF Left
  <2> QED
    BY <2>3, <2>4
<1>14. end \in 0 .. end + 3 /\ end <= end
  BY <1>7
<1>15. new[end] = Best(end)
  BY <1>8, <1>14
<1>16. end = l \/ (end = c + len /\ l < end /\ new[end].mlen # 1)
  <2>1. ASSUME end = c + len, l < end, Improves(end) PROVE new[end].mlen # 1
    <3>1. end \in c + 4 .. c + len
      BY <1>3, <1>4, <2>1
    <3>2. new[end] = WithMatch(end - c)
      BY <1>10, <1>15, <2>1, <3>1
    <3>3. new[end].mlen = end - c
      BY <1>12, <3>1, <3>2
    <3> QED
      BY <1>3, <1>4, <2>1, <3>3
  <2> QED
    BY <1>7, <2>1
<1>17. ASSUME NEW k \in 1 .. 3
       PROVE  /\ new[end + k].mlen = 1 /\ new[end + k].litlen = k
              /\ new[end + k].price = new[end].price + k
  <2>1. end + k \in 0 .. end + 3 /\ ~(end + k <= end) /\ (end + k) - end = k /\ k \in Nat /\ k <= 3
    BY <1>7
  <2>2. new[end + k] = Trailing(new[end].price, k)
    BY <1>8, <1>15, <2>1
  <2>3. LiteralsPrice(k) = k
    BY <2>1, LiteralsPriceIs
  <2> QED
    BY <2>2, <2>3 DEF Trailing, Literal
<1>18. Improved(opt, new, l, end, c, len)
  BY <1>13, <1>16, <1>17 DEF Improved
<1>19. c >= 1
  BY <1>3
<1>20. Rows(new, end, c + 1, b)
  BY <1>3, <1>4, <1>7, <1>18, <1>19, ImprovedRows DEF Improves2
<1>21. ip' - anchor' = b
  BY <1>1, <1>2 DEF encoderVars
<1> QED
  BY <1>1, <1>2, <1>5, <1>20, <1>21 DEF PriceInv

LEMMA PriceOn ==
  ASSUME OptimalHere, PriceInv, Skip \/ NoImprovement
  PROVE  PriceInv'
<1>1. /\ HcInv /\ InTable
      /\ UNCHANGED <<src, level, finderVars, encoderVars, ip, opt, last, elected>>
      /\ step' = "further" /\ cur' = cur + 1
  BY DEF OptimalHere, Skip, NoImprovement, InTable
<1>2. cur \in Nat /\ Rows(opt, last, cur, ip - anchor)
  BY <1>1, InTableIs DEF Tables
<1>3. Rows(opt, last, cur + 1, ip - anchor)
  BY <1>2, RowsOn
<1>4. anchor' = anchor
  BY <1>1 DEF encoderVars
<1> QED
  BY <1>1, <1>3, <1>4 DEF PriceInv

(* A position at which the literals in front take one more byte is not     *)
(* useful: the next one is cheaper.                                        *)
LEMMA UsefulIsPlain ==
  ASSUME NEW b, NEW l, Tables(opt, l, cur, b), ~NotUseful
  PROVE  Plain(opt, b, cur)
<1> SUFFICES ASSUME cur = 3 PROVE opt[3].price <= LiteralsPrice(b) + 3
  BY DEF Plain
<1>1. PICK p, c : p = LiteralsPrice(b) /\ c = cur
  OBVIOUS
<1>2. /\ p \in Nat
      /\ \A y \in 0 .. 3 : opt[y].price \in Nat /\ p + y <= opt[y].price /\ opt[y].price <= p + y + 1
      /\ \A y \in 4 .. 7 : opt[y].price \in Nat /\ opt[y].price <= p + y - 1
  BY <1>1, FirstPrices
<1>3. 3 \in 0 .. 3 /\ 4 \in 4 .. 7 /\ 7 \in 4 .. 7 /\ 3 + 1 = 4 /\ 3 + 4 = 7
  OBVIOUS
<1>4. /\ opt[3].price \in Nat /\ opt[4].price \in Nat /\ opt[7].price \in Nat
      /\ opt[3].price <= p + 4 /\ opt[4].price <= p + 3 /\ opt[7].price <= p + 6
  <2>1. opt[3].price <= p + 3 + 1 /\ opt[4].price <= p + 4 - 1 /\ opt[7].price <= p + 7 - 1
    BY <1>2, <1>3
  <2> QED
    BY <1>2, <1>3, <2>1
<1>5. MINMATCH = 4
  BY HcNumbers
<1>6. ~(opt[4].price <= opt[3].price) \/ ~(opt[7].price < opt[3].price + 3)
  BY <1>3, <1>5 DEF NotUseful
<1>7. opt[3].price <= p + 3
  BY <1>2, <1>4, <1>6
<1> QED
  BY <1>1, <1>7

LEMMA PriceFindFurther ==
  ASSUME OptimalHere, PriceInv, FindFurther
  PROVE  PriceInv'
<1>1. /\ HcInv /\ InTable /\ ~NotUseful /\ step' = "improve"
      /\ UNCHANGED <<src, level, encoderVars, ip, opt, last, cur, elected>>
  BY DEF OptimalHere, FindFurther, InTable
<1>2. PICK b, l : b = ip - anchor /\ l = last
  OBVIOUS
<1>3. Tables(opt, l, cur, b)
  BY <1>1, <1>2, InTableIs
<1>4. Plain(opt, b, cur)
  BY <1>1, <1>3, UsefulIsPlain
<1>5. anchor' = anchor
  BY <1>1 DEF encoderVars
<1> QED
  BY <1>1, <1>2, <1>3, <1>4, <1>5 DEF PriceInv, Tables

LEMMA PriceStep ==
  ASSUME HcInv, PriceInv, [HcNext]_hcVars
  PROVE  PriceInv'
<1>1. CASE Optimal
  <2>1. level.strat = "lz4opt" /\ Compress
    BY <1>1 DEF Optimal
  <2>2. CASE FindFirst \/ NoMatch \/ EncodeAtOnce \/ TakeNow \/ Elect \/ Encode
    <3>1. step' \in {"first", "main", "encode"}
      BY <2>2 DEF FindFirst, NoMatch, EncodeAtOnce, TakeNow, Elect, Encode
    <3> QED
      BY <3>1 DEF PriceInv, InTable
  <2>3. CASE FindFurther
    <3>1. level' = level
      BY <2>3 DEF FindFurther
    <3> QED
      BY <2>1, <2>3, <3>1, PriceFindFurther DEF OptimalHere
  <2>4. CASE Search
    <3>1. UNCHANGED <<src, level, encoderVars, parserVars>>
      BY <2>4 DEF Search
    <3> QED
      BY <3>1 DEF PriceInv, InTable, encoderVars, parserVars
  <2>5. CASE SetPrices
    <3>1. level' = level
      BY <2>5, Zenon DEF SetPrices
    <3> QED
      BY <2>1, <2>5, <3>1, PriceSetPrices DEF OptimalHere
  <2>6. CASE Skip \/ NoImprovement
    <3>1. level' = level
      BY <2>6 DEF Skip, NoImprovement
    <3> QED
      BY <2>1, <2>6, <3>1, PriceOn DEF OptimalHere
  <2>7. CASE Improve
    <3>1. level' = level
      BY <2>7, Zenon DEF Improve
    <3> QED
      BY <2>1, <2>7, <3>1, PriceImprove DEF OptimalHere
  <2>8. CASE Finish
    <3>1. UNCHANGED <<level, finderVars, parserVars>>
      BY <2>8 DEF Finish
    <3>2. ~InTable
      <4>1. pc = "overflow" \/ pc = "last" \/ step = "main"
        BY <2>8 DEF Finish
      <4>2. step \in {"further", "improve"} => pc = "parse"
        BY <2>1 DEF HcInv, OptimalInv
      <4> QED
        BY <4>1, <4>2 DEF InTable
    <3> QED
      BY <3>1, <3>2 DEF PriceInv, InTable, parserVars
  <2> QED
    BY <2>1, <2>2, <2>3, <2>4, <2>5, <2>6, <2>7, <2>8 DEF Compress
<1>2. CASE Chains
  <2>1. level.strat = "lz4hc" /\ level' = level
    BY <1>2 DEF Chains
  <2> QED
    BY <2>1 DEF PriceInv, InTable
<1>3. CASE UNCHANGED hcVars
  BY <1>3 DEF PriceInv, InTable, hcVars, allVars, encoderVars, parserVars
<1> QED
  BY <1>1, <1>2, <1>3 DEF HcNext, Returned

-----------------------------------------------------------------------------
(* The bytes of a way, match by match.                                     *)
StartsAt(way, from, k) == IF k = 1 THEN from ELSE way[k - 1].ip + way[k - 1].m.len

Adds(way, from, g, k) ==
  IF k = 0 THEN 0 ELSE g[k - 1] + Bytes(way[k].ip - StartsAt(way, from, k), way[k].m.len)

IsSum(g, way, from) == g = [k \in 0 .. Len(way) |-> Adds(way, from, g, k)]

Elections == [ip : Nat, m : [offset : Nat, len : Nat]]

LEMMA SumOfNone ==
  ASSUME NEW from
  PROVE  /\ \E g : IsSum(g, <<>>, from)
         /\ \A g : IsSum(g, <<>>, from) => g[0] = 0
<1>1. Len(<<>>) = 0 /\ 0 .. 0 = {0}
  OBVIOUS
<1> DEFINE z == [k \in {0} |-> 0]
<1>2. \A k \in {0} : Adds(<<>>, from, z, k) = 0
  BY DEF Adds
<1>3. IsSum(z, <<>>, from)
  BY <1>1, <1>2 DEF IsSum
<1>4. ASSUME NEW g, IsSum(g, <<>>, from) PROVE g[0] = 0
  <2>1. g = [k \in {0} |-> Adds(<<>>, from, g, k)]
    BY <1>1, <1>4 DEF IsSum
  <2>2. g[0] = Adds(<<>>, from, g, 0)
    <3>1. 0 \in {0}
      OBVIOUS
    <3> QED
      BY <2>1, <3>1
  <2> QED
    BY <2>2 DEF Adds
<1> QED
  BY <1>3, <1>4

(* The way with one match more.                                            *)
SumsOn(way, e, from, j, w) ==
  /\ w \in Seq(Elections) /\ Len(w) = j + 1 /\ w[j + 1] = e /\ w # <<>>
  /\ (\E h : IsSum(h, way, from)) => \E g : IsSum(g, w, from)
  /\ \A g : IsSum(g, w, from) =>
       \E h : /\ IsSum(h, way, from)
              /\ g[j + 1] = h[j] + Bytes(e.ip - StartsAt(way, from, j + 1), e.m.len)

LEMMA SumFurther ==
  ASSUME NEW way \in Seq(Elections), NEW e \in Elections, NEW from, NEW j, j = Len(way),
         NEW w, w = Append(way, e)
  PROVE  SumsOn(way, e, from, j, w)
<1>1. /\ j \in Nat /\ Len(w) = j + 1 /\ w[j + 1] = e /\ w \in Seq(Elections) /\ w # <<>>
      /\ \A k \in 1 .. j : w[k] = way[k]
  OBVIOUS
<1>2. ASSUME NEW k \in 1 .. j + 1 PROVE StartsAt(w, from, k) = StartsAt(way, from, k)
  <2>1. k # 1 => k - 1 \in 1 .. j
    BY <1>1
  <2> QED
    BY <1>1, <2>1 DEF StartsAt
<1>3. ASSUME NEW g, NEW h, NEW k \in 0 .. j, k # 0 => g[k - 1] = h[k - 1]
      PROVE  Adds(w, from, g, k) = Adds(way, from, h, k)
  <2>1. k # 0 => k \in 1 .. j /\ k \in 1 .. j + 1
    BY <1>1
  <2> QED
    BY <1>1, <1>2, <1>3, <2>1 DEF Adds
<1>4. ASSUME NEW g
      PROVE  Adds(w, from, g, j + 1) = g[j] + Bytes(e.ip - StartsAt(way, from, j + 1), e.m.len)
  <2>1. j + 1 \in 1 .. j + 1 /\ j + 1 # 0 /\ (j + 1) - 1 = j
    BY <1>1
  <2> QED
    BY <1>1, <1>2, <2>1 DEF Adds
<1>5. ASSUME NEW h, IsSum(h, way, from) PROVE \E g : IsSum(g, w, from)
  <2> DEFINE g == [k \in 0 .. j + 1 |->
                    IF k <= j THEN h[k]
                    ELSE h[j] + Bytes(e.ip - StartsAt(way, from, j + 1), e.m.len)]
             f == [k \in 0 .. j + 1 |-> Adds(w, from, g, k)]
  <2>1. /\ \A k \in 0 .. j : k \in 0 .. j + 1 /\ k <= j
        /\ j + 1 \in 0 .. j + 1 /\ ~(j + 1 <= j)
    BY <1>1
  <2>2. /\ \A k \in 0 .. j : g[k] = h[k]
        /\ g[j + 1] = h[j] + Bytes(e.ip - StartsAt(way, from, j + 1), e.m.len)
    BY <2>1
  <2>3. \A k \in 0 .. j + 1 : f[k] = Adds(w, from, g, k)
    OBVIOUS
  <2>4. g = [k \in 0 .. j + 1 |-> g[k]] /\ f = [k \in 0 .. j + 1 |-> f[k]]
    OBVIOUS
  <2>5. f = [k \in 0 .. j + 1 |-> Adds(w, from, g, k)]
    OBVIOUS
  <2> HIDE DEF g, f
  <2>6. ASSUME NEW k \in 0 .. j + 1 PROVE g[k] = f[k]
    <3>1. CASE k \in 0 .. j
      <4>1. h[k] = Adds(way, from, h, k)
        BY <1>5, <3>1 DEF IsSum
      <4>2. k # 0 => k - 1 \in 0 .. j
        BY <1>1, <3>1
      <4>3. Adds(w, from, g, k) = Adds(way, from, h, k)
        BY <1>3, <2>2, <3>1, <4>2
      <4> QED
        BY <2>2, <2>3, <3>1, <4>1, <4>3
    <3>2. CASE k = j + 1
      <4>1. j \in 0 .. j
        BY <1>1
      <4>2. g[j] = h[j]
        BY <2>2, <4>1
      <4>3. Adds(w, from, g, j + 1) = g[j] + Bytes(e.ip - StartsAt(way, from, j + 1), e.m.len)
        BY <1>4
      <4> QED
        BY <2>2, <2>3, <3>2, <4>2, <4>3
    <3> QED
      BY <1>1, <3>1, <3>2
  <2>7. g = f
    BY <2>4, <2>6
  <2>8. IsSum(g, w, from)
    BY <1>1, <2>5, <2>7 DEF IsSum
  <2> QED
    BY <2>8
<1>6. ASSUME NEW g, IsSum(g, w, from)
      PROVE  \E h : /\ IsSum(h, way, from)
                    /\ g[j + 1] = h[j] + Bytes(e.ip - StartsAt(way, from, j + 1), e.m.len)
  <2> DEFINE h == [k \in 0 .. j |-> g[k]]
             f == [k \in 0 .. j |-> Adds(way, from, h, k)]
  <2>1. \A k \in 0 .. j : h[k] = g[k] /\ f[k] = Adds(way, from, h, k)
    OBVIOUS
  <2>2. h = [k \in 0 .. j |-> h[k]] /\ f = [k \in 0 .. j |-> f[k]]
    OBVIOUS
  <2>3. f = [k \in 0 .. j |-> Adds(way, from, h, k)]
    OBVIOUS
  <2> HIDE DEF h, f
  <2>4. \A k \in 0 .. j + 1 : g[k] = Adds(w, from, g, k)
    <3>1. g = [k \in 0 .. j + 1 |-> Adds(w, from, g, k)]
      BY <1>1, <1>6 DEF IsSum
    <3> QED
      BY <3>1
  <2>5. ASSUME NEW k \in 0 .. j PROVE h[k] = f[k]
    <3>1. k \in 0 .. j + 1 /\ (k # 0 => k - 1 \in 0 .. j)
      BY <1>1
    <3>2. Adds(w, from, g, k) = Adds(way, from, h, k)
      BY <1>3, <2>1, <3>1
    <3> QED
      BY <2>1, <2>4, <3>1, <3>2
  <2>6. h = f
    BY <2>2, <2>5
  <2>7. IsSum(h, way, from)
    BY <2>3, <2>6 DEF IsSum
  <2>8. j + 1 \in 0 .. j + 1 /\ j \in 0 .. j
    BY <1>1
  <2>9. g[j + 1] = h[j] + Bytes(e.ip - StartsAt(way, from, j + 1), e.m.len)
    BY <1>4, <2>1, <2>4, <2>8
  <2> QED
    BY <2>7, <2>9
<1> QED
  BY <1>1, <1>5, <1>6 DEF SumsOn

(* No literal that is not counted: they are few, and each costs one.       *)
LEMMA LiteralsBehind ==
  ASSUME NEW o, NEW l, NEW c, NEW b, Tables(o, l, c, b),
         NEW e \in Nat, NEW k \in Nat, 4 <= e, e < k, k <= l,
         \A z \in e + 1 .. k : o[z].mlen = 1
  PROVE  k <= e + 3 /\ o[e].price + (k - e) <= o[k].price
<1>1. l \in Nat /\ \A z \in 0 .. l + 3 : o[z].price \in Nat
  BY DEF Tables, Rows
<1>2. k \in e + 1 .. k /\ k \in 4 .. l + 3
  BY <1>1
<1>3. FromLiterals(o, k)
  BY <1>2 DEF Tables, Rows
<1>4. PICK r \in 4 .. k - 1 :
        k <= r + 3 /\ o[r].mlen # 1 /\ o[r].price + (k - r) <= o[k].price
  BY <1>3 DEF FromLiterals
<1>5. r <= e
  <2>1. ~(r \in e + 1 .. k)
    BY <1>4
  <2> QED
    BY <2>1
<1>6. o[e].price <= o[r].price + (e - r)
  <2>1. r \in Nat /\ 4 <= r /\ r <= e /\ e <= r + 3 /\ e <= l + 3
    BY <1>1, <1>4, <1>5
  <2> QED
    BY <2>1, FlatPrices
<1>7. r \in 0 .. l + 3 /\ e \in 0 .. l + 3 /\ k \in 0 .. l + 3
  BY <1>1
<1>8. o[r].price \in Nat /\ o[e].price \in Nat /\ o[k].price \in Nat
  BY <1>1, <1>7
<1> QED
  BY <1>4, <1>5, <1>6, <1>8

LEMMA BytesOfIs ==
  ASSUME NEW way, NEW from, NEW end, \E g : IsSum(g, way, from),
         NEW d, d = end - StartsAt(way, from, Len(way) + 1)
  PROVE  \E g : IsSum(g, way, from) /\ BytesOf(way, from, end) = g[Len(way)] + d + ExtensionSize(d)
<1> DEFINE g == CHOOSE g : IsSum(g, way, from)
<1>1. IsSum(g, way, from)
  OBVIOUS
<1>2. BytesOf(way, from, end) = g[Len(way)] + d + ExtensionSize(d)
  BY Zenon DEF BytesOf, IsSum, Adds, StartsAt
<1> QED
  BY <1>1, <1>2

Sums(way, from, most) ==
  /\ \E g : IsSum(g, way, from)
  /\ \A g : IsSum(g, way, from) => g[Len(way)] \in Nat /\ g[Len(way)] <= most

(* f[k] is the way to k.  The last match in it ends at e, and what follows *)
(* are literals.                                                           *)
PricedMatch(f, e) ==
  /\ opt[e].mlen # 1 /\ f[e] # <<>> /\ EndOf(f[e][Len(f[e])]) = ip + e
  /\ Sums(f[e], anchor, opt[e].price)

Priced(f, k) ==
  /\ f[k] \in Seq(Elections)
  /\ \/ k <= 3 /\ f[k] = <<>>
     \/ \E e \in 4 .. k : /\ PricedMatch(f, e) /\ f[k] = f[e]
                          /\ \A z \in e + 1 .. k : opt[z].mlen = 1

TableIsUsed ==
  /\ Tables(opt, last, cur, ip - anchor) /\ TableBehind
  /\ ip \in Nat /\ anchor \in Nat /\ last \in Nat

(* What a match adds to the way to its beginning.                          *)
LEMMA BeforeTheMatch ==
  ASSUME TableIsUsed, NEW f, NEW s \in Nat, s <= last, Priced(f, s)
  PROVE  \E lit \in Nat, base \in Nat :
           /\ lit = (ip + s) - StartsAt(f[s], anchor, Len(f[s]) + 1)
           /\ Sums(f[s], anchor, base) /\ base + LiteralsPrice(lit) <= opt[s].price
<1>1. PICK b, c, l : b = ip - anchor /\ c = cur /\ l = last
  OBVIOUS
<1>2. /\ Tables(opt, l, c, b) /\ b \in Nat /\ l \in Nat
      /\ \A z \in 0 .. l + 3 : opt[z].price \in Nat
      /\ \A z \in 0 .. 3 : opt[z].price = LiteralsPrice(b + z)
  BY <1>1 DEF TableIsUsed, Tables, Rows
<1>3. opt[s].price \in Nat
  <2>1. s \in 0 .. l + 3
    BY <1>1, <1>2
  <2> QED
    BY <1>2, <2>1
<1>4. CASE s <= 3 /\ f[s] = <<>>
  <2>1. Len(f[s]) = 0
    BY <1>4
  <2>2. StartsAt(f[s], anchor, Len(f[s]) + 1) = anchor
    BY <2>1 DEF StartsAt
  <2>3. b + s \in Nat /\ b + s = (ip + s) - anchor
    BY <1>1, <1>2 DEF TableIsUsed
  <2>4. Sums(f[s], anchor, 0)
    BY <1>4, <2>1, SumOfNone DEF Sums
  <2>5. 0 + LiteralsPrice(b + s) <= opt[s].price
    <3>1. s \in 0 .. 3
      BY <1>4
    <3>2. opt[s].price = LiteralsPrice(b + s)
      BY <1>2, <3>1
    <3> QED
      BY <1>3, <3>2
  <2> QED
    BY <2>2, <2>3, <2>4, <2>5
<1>5. ASSUME NEW e \in 4 .. s, PricedMatch(f, e), f[s] = f[e],
             \A z \in e + 1 .. s : opt[z].mlen = 1
      PROVE  \E lit \in Nat, base \in Nat :
               /\ lit = (ip + s) - StartsAt(f[s], anchor, Len(f[s]) + 1)
               /\ Sums(f[s], anchor, base) /\ base + LiteralsPrice(lit) <= opt[s].price
  <2>1. PICK j : j = Len(f[s])
    OBVIOUS
  <2>2. j \in Nat /\ j # 0
    <3>1. f[s] \in Seq(Elections) /\ f[s] # <<>>
      BY <1>5 DEF Priced, PricedMatch
    <3> QED
      BY <2>1, <3>1
  <2>3. StartsAt(f[s], anchor, j + 1) = ip + e
    <3>1. j + 1 # 1 /\ (j + 1) - 1 = j
      BY <2>2
    <3>2. EndOf(f[s][j]) = ip + e
      BY <1>5, <2>1 DEF PricedMatch
    <3> QED
      BY <3>1, <3>2 DEF StartsAt, EndOf
  <2>4. PICK lit \in Nat : lit = s - e
    BY <1>5
  <2>5. lit = (ip + s) - (ip + e)
    BY <2>4 DEF TableIsUsed
  <2>6. opt[e].price \in Nat
    <3>1. e \in 0 .. l + 3
      BY <1>1, <1>2
    <3> QED
      BY <1>2, <3>1
  <2>7. Sums(f[s], anchor, opt[e].price)
    BY <1>5 DEF PricedMatch
  <2>8. opt[e].price + LiteralsPrice(lit) <= opt[s].price
    <3>1. CASE e = s
      <4>1. lit = 0 /\ LiteralsPrice(0) = 0
        BY <1>2, <2>4, <3>1, LiteralsPriceIs
      <4> QED
        BY <2>6, <3>1, <4>1
    <3>2. CASE e # s
      <4>1. e \in Nat /\ 4 <= e /\ e < s /\ s <= l
        BY <1>1, <3>2
      <4>2. s <= e + 3 /\ opt[e].price + (s - e) <= opt[s].price
        BY <1>2, <1>5, <4>1, LiteralsBehind
      <4>3. LiteralsPrice(lit) = lit
        <5>1. lit <= 3
          BY <2>4, <4>1, <4>2
        <5> QED
          BY <1>2, <5>1, LiteralsPriceIs
      <4> QED
        BY <2>4, <4>2, <4>3
    <3> QED
      BY <3>1, <3>2
  <2> QED
    BY <2>1, <2>3, <2>4, <2>5, <2>6, <2>7, <2>8
<1> QED
  BY <1>4, <1>5 DEF Priced

LEMMA PricedByMatch ==
  ASSUME TableIsUsed, NEW k \in Nat, k <= last, opt[k].mlen # 1, ~(opt[k].mlen > k),
         NEW f, NEW s, s = k - opt[k].mlen, Priced(f, s),
         f[k] = Append(f[s], [ip |-> ip + k - opt[k].mlen,
                              m |-> [offset |-> opt[k].off, len |-> opt[k].mlen]])
  PROVE  Priced(f, k)
<1>1. PICK len, p, q : len = opt[k].mlen /\ p = opt[k].price /\ q = opt[s].price
  OBVIOUS
<1>2. TableBehind /\ last \in Nat
  BY DEF TableIsUsed
<1>3. len \in 4 .. k /\ s \in Nat /\ s < k /\ s = k - len
  BY <1>1, <1>2, StepBack
<1>4. PICK e : e = [ip |-> ip + k - len, m |-> [offset |-> opt[k].off, len |-> len]]
  OBVIOUS
<1>5. e \in Elections /\ e.ip = ip + k - len /\ e.m.len = len
  <2>1. StepTo(k)
    <3>1. k \in 0 .. last + 3
      BY <1>2
    <3> QED
      BY <1>2, <3>1 DEF TableBehind, TRAILING_LITERALS
  <2>2. IsMatch(e)
    BY <1>1, <1>4, <2>1 DEF StepTo
  <2> QED
    BY <1>4, <2>2 DEF IsMatch, Elections
<1>6. e.ip = ip + s /\ EndOf(e) = ip + k
  <2>1. PICK a \in Nat : a = ip
    BY DEF TableIsUsed
  <2>2. a + k - len = a + s /\ (a + k - len) + len = a + k
    BY <1>3
  <2> QED
    BY <1>5, <2>1, <2>2 DEF EndOf
<1>7. PICK way, j : way = f[s] /\ j = Len(way)
  OBVIOUS
<1>8. way \in Seq(Elections) /\ j \in Nat /\ f[k] = Append(way, e)
  BY <1>1, <1>4, <1>7 DEF Priced
<1>9. PICK w : w = f[k]
  OBVIOUS
<1>21. SumsOn(way, e, anchor, j, w)
  BY <1>5, <1>7, <1>8, <1>9, SumFurther
<1>10. PICK lit \in Nat, base \in Nat :
         /\ lit = (ip + s) - StartsAt(way, anchor, j + 1)
         /\ Sums(way, anchor, base) /\ base + LiteralsPrice(lit) <= q
  <2>1. s <= last
    BY <1>2, <1>3
  <2> QED
    BY <1>1, <1>3, <1>7, <2>1, BeforeTheMatch
<1>11. PICK x \in Nat : x = ExtensionSize(len - 4)
  <2>1. len - 4 \in Int
    BY <1>3
  <2> QED
    BY <2>1, ExtensionIs
<1>12. q + 3 + x <= p /\ q \in Nat /\ p \in Nat
  <2>1. Tables(opt, last, cur, ip - anchor)
    BY DEF TableIsUsed
  <2>2. k \in 4 .. last + 3 /\ k \in 0 .. last + 3 /\ s \in 0 .. last + 3
    BY <1>2, <1>3
  <2>3. q \in Nat /\ p \in Nat
    BY <1>1, <2>1, <2>2 DEF Tables, Rows
  <2>4. FromMatch(opt, cur, k)
    BY <2>1, <2>2 DEF Tables, Rows
  <2>5. opt[s].price + 3 + ExtensionSize(k - s - 4) <= opt[k].price
    BY <2>4 DEF FromMatch
  <2>6. k - s - 4 = len - 4
    BY <1>3
  <2> QED
    BY <1>1, <1>11, <2>3, <2>5, <2>6
<1>13. LiteralsPrice(lit) \in Nat
  BY <1>2, LiteralsPriceIs
<1>14. Bytes(lit, len) = LiteralsPrice(lit) + 3 + x
  <2>1. lit \in Int
    OBVIOUS
  <2>2. ExtensionSize(lit) \in Nat
    BY <2>1, ExtensionIs
  <2>3. MINMATCH = 4
    BY HcNumbers
  <2> QED
    BY <1>11, <2>2, <2>3 DEF Bytes, LiteralsPrice
<1>15. e.ip - StartsAt(way, anchor, j + 1) = lit
  BY <1>6, <1>10
<1>16. \E g : IsSum(g, w, anchor)
  BY <1>10, <1>21 DEF Sums, SumsOn
<1>17. ASSUME NEW g, IsSum(g, w, anchor) PROVE g[j + 1] \in Nat /\ g[j + 1] <= p
  <2>1. PICK h : /\ IsSum(h, way, anchor)
                 /\ g[j + 1] = h[j] + Bytes(e.ip - StartsAt(way, anchor, j + 1), e.m.len)
    BY <1>17, <1>21 DEF SumsOn
  <2>2. h[j] \in Nat /\ h[j] <= base
    BY <1>7, <1>10, <2>1 DEF Sums
  <2>3. g[j + 1] = h[j] + (LiteralsPrice(lit) + 3 + x)
    BY <1>5, <1>14, <1>15, <2>1
  <2> QED
    BY <1>10, <1>12, <1>13, <2>2, <2>3
<1>18. Sums(w, anchor, opt[k].price)
  BY <1>1, <1>16, <1>17, <1>21 DEF Sums, SumsOn
<1>19. PricedMatch(f, k)
  BY <1>6, <1>9, <1>18, <1>21 DEF PricedMatch, SumsOn
<1>20. k \in 4 .. k /\ \A z \in k + 1 .. k : opt[z].mlen = 1
  BY <1>3
<1> QED
  BY <1>9, <1>19, <1>20, <1>21 DEF Priced, SumsOn

LEMMA WaysArePriced ==
  ASSUME TableIsUsed, NEW f, AreWays(f, last), NEW p \in Nat, p <= last
  PROVE  Priced(f, p)
<1> DEFINE Bad == {k \in 0 .. last : ~Priced(f, k)}
<1>1. SUFFICES ASSUME Bad # {} PROVE FALSE
  BY <1>1
<1>2. PICK k \in Bad : \A e \in Bad : k <= e
  <2>1. Bad \subseteq Nat
    OBVIOUS
  <2> HIDE DEF Bad
  <2> QED
    BY <1>1, <2>1, LeastNatural
<1>3. last \in Nat /\ TableBehind /\ Tables(opt, last, cur, ip - anchor)
  BY DEF TableIsUsed
<1>4. k \in Nat /\ k <= last /\ f[k] = Through(f, k)
  <2>1. k \in 0 .. last
    BY <1>2
  <2> HIDE DEF Bad
  <2>2. f[k] = Through(f, k)
    BY <2>1 DEF AreWays
  <2> QED
    BY <2>1, <2>2
<1>5. ASSUME NEW j \in Nat, j < k PROVE Priced(f, j)
  <2>1. j \in 0 .. last /\ ~(k <= j)
    BY <1>3, <1>4, <1>5
  <2>2. j \notin Bad
    <3> HIDE DEF Bad
    <3> QED
      BY <1>2, <2>1
  <2> QED
    BY <2>1, <2>2
<1>6. CASE opt[k].mlen > k
  <2>1. PICK m : m = opt[k].mlen
    OBVIOUS
  <2>2. m = 1 \/ m \in 4 .. k
    <3>1. StepTo(k)
      BY <1>3, <1>4 DEF TableBehind, TRAILING_LITERALS
    <3> QED
      BY <2>1, <3>1, HcNumbers DEF StepTo
  <2>3. k <= 3
    BY <1>4, <1>6, <2>1, <2>2
  <2>4. f[k] = <<>> /\ f[k] \in Seq(Elections)
    BY <1>4, <1>6 DEF Through
  <2>5. Priced(f, k)
    BY <2>3, <2>4 DEF Priced
  <2> QED
    BY <1>2, <2>5
<1>7. CASE ~(opt[k].mlen > k) /\ opt[k].mlen = 1
  <2>1. PICK j : j = k - 1
    OBVIOUS
  <2>2. j \in Nat /\ j < k /\ k = j + 1
    BY <1>3, <1>4, <1>7, <2>1, StepBack
  <2>3. f[k] = f[j]
    BY <1>4, <1>7, <2>1 DEF Through
  <2>4. Priced(f, j)
    BY <1>5, <2>2
  <2>5. CASE j <= 3 /\ f[j] = <<>>
    <3>1. k <= 3
      <4>1. SUFFICES ASSUME k = 4 PROVE FALSE
        BY <2>2, <2>5, <4>1
      <4>2. FromLiterals(opt, k)
        <5>1. k \in 4 .. last + 3
          BY <1>3, <1>4, <4>1
        <5> QED
          BY <1>3, <1>7, <5>1 DEF Tables, Rows
      <4>3. PICK r \in 4 .. k - 1 : TRUE
        BY <4>2 DEF FromLiterals
      <4> QED
        BY <4>1, <4>3
    <3>2. Priced(f, k)
      BY <2>3, <2>4, <2>5, <3>1 DEF Priced
    <3> QED
      BY <1>2, <3>2
  <2>6. CASE ~(j <= 3 /\ f[j] = <<>>)
    <3>1. PICK e \in 4 .. j : /\ PricedMatch(f, e) /\ f[j] = f[e]
                              /\ \A z \in e + 1 .. j : opt[z].mlen = 1
      BY <2>4, <2>6 DEF Priced
    <3>2. \A z \in e + 1 .. k : z \in e + 1 .. j \/ z = k
      BY <2>2, <3>1
    <3>3. \A z \in e + 1 .. k : opt[z].mlen = 1
      BY <1>7, <3>1, <3>2
    <3>4. e \in 4 .. k
      BY <2>2, <3>1
    <3>5. Priced(f, k)
      BY <2>3, <2>4, <3>1, <3>3, <3>4 DEF Priced
    <3> QED
      BY <1>2, <3>5
  <2> QED
    BY <2>5, <2>6
<1>8. CASE ~(opt[k].mlen > k) /\ opt[k].mlen # 1
  <2>1. PICK s : s = k - opt[k].mlen
    OBVIOUS
  <2>2. s \in Nat /\ s < k
    BY <1>3, <1>4, <1>8, <2>1, StepBack
  <2>3. f[k] = Append(f[s], [ip |-> ip + k - opt[k].mlen,
                             m |-> [offset |-> opt[k].off, len |-> opt[k].mlen]])
    BY <1>4, <1>8, <2>1 DEF Through
  <2>4. Priced(f, s)
    BY <1>5, <2>2
  <2>5. Priced(f, k)
    BY <1>4, <1>8, <2>1, <2>3, <2>4, PricedByMatch
  <2> QED
    BY <1>2, <2>5
<1> QED
  BY <1>6, <1>7, <1>8

LEMMA ElectsWithin ==
  ASSUME TableIsUsed
  PROVE  BytesOf(WayTo(last), anchor, ip + last) <= opt[last].price
<1>1. PICK l, end : l \in Nat /\ l = last /\ end = ip + last
  BY DEF TableIsUsed
<1>2. /\ Tables(opt, l, cur, ip - anchor) /\ l >= 4 /\ opt[l].mlen # 1
      /\ opt[l].price \in Nat
  <2>1. l \in 0 .. l + 3
    BY <1>1
  <2> QED
    BY <1>1, <2>1 DEF TableIsUsed, Tables, Rows
<1> DEFINE f == CHOOSE f : AreWays(f, l)
<1>3. AreWays(f, l)
  <2>1. \E g : AreWays(g, l)
    BY <1>1, WaysExist DEF TableIsUsed
  <2> QED
    BY <2>1
<1>4. WayTo(l) = f[l]
  BY Zenon DEF WayTo, AreWays, Through
<1> HIDE DEF f
<1>5. Priced(f, l)
  BY <1>1, <1>3, WaysArePriced
<1>6. PICK e \in 4 .. l : /\ PricedMatch(f, e) /\ f[l] = f[e]
                          /\ \A z \in e + 1 .. l : opt[z].mlen = 1
  BY <1>1, <1>2, <1>5 DEF Priced
<1>7. e = l
  <2>1. ~(l \in e + 1 .. l)
    BY <1>1, <1>2, <1>6
  <2>2. e \in 4 .. l /\ l \in Int
    BY <1>1, <1>6
  <2> QED
    BY <2>1, <2>2
<1>8. PICK way, j : way = f[l] /\ j = Len(way)
  OBVIOUS
<1>9. /\ way \in Seq(Elections) /\ way # <<>> /\ EndOf(way[j]) = end
      /\ Sums(way, anchor, opt[l].price)
  BY <1>1, <1>5, <1>6, <1>7, <1>8 DEF Priced, PricedMatch
<1>10. j \in Nat /\ j + 1 # 1 /\ (j + 1) - 1 = j
  BY <1>8, <1>9
<1>11. StartsAt(way, anchor, j + 1) = end
  BY <1>9, <1>10 DEF StartsAt, EndOf
<1>12. end - StartsAt(way, anchor, Len(way) + 1) = 0
  <2>1. end \in Nat
    BY <1>1 DEF TableIsUsed
  <2> QED
    BY <1>8, <1>11, <2>1
<1>13. PICK g : /\ IsSum(g, way, anchor)
                /\ BytesOf(way, anchor, end) = g[Len(way)] + 0 + ExtensionSize(0)
  BY <1>9, <1>12, BytesOfIs DEF Sums
<1>14. g[Len(way)] \in Nat /\ g[Len(way)] <= opt[l].price
  BY <1>9, <1>13 DEF Sums
<1>15. ExtensionSize(0) = 0
  <2>1. 0 \in Int /\ 0 < MASK
    BY <1>2, PriceNumbers
  <2> QED
    BY <1>2, <2>1, ExtensionIs
<1>16. BytesOf(way, anchor, end) <= opt[l].price
  BY <1>2, <1>13, <1>14, <1>15
<1> QED
  BY <1>1, <1>4, <1>8, <1>16

LEMMA ElectStep ==
  ASSUME HcInv, PriceInv, Elect
  PROVE  BytesOf(elected', anchor, ip') <= opt[last].price
<1>1. step = "further" /\ elected' = WayTo(last) /\ ip' = ip + last
  BY DEF Elect
<1>2. level.strat = "lz4opt"
  <2>1. level \in Levels
    BY DEF HcInv, FinderInv, FinderTypeOK
  <2>2. level.strat \in {"lz4opt", "lz4hc"}
    BY <2>1, ParserAssumption
  <2>3. level.strat = "lz4hc" => step # "further"
    BY DEF HcInv, ChainInv
  <2> QED
    BY <1>1, <2>2, <2>3
<1>3. InTable
  BY <1>1, <1>2 DEF InTable
<1>4. TableIsUsed
  BY <1>3, InTableIs, TableIsBehind DEF TableIsUsed
<1> QED
  BY <1>1, <1>4, ElectsWithin

LEMMA PriceInvariant == HcSpec => [](HcInv /\ PriceInv)
<1>1. HcInit => HcInv /\ PriceInv
  BY HcStart DEF HcInit, ParserInit, PriceInv, InTable
<1>2. HcInv /\ PriceInv /\ [HcNext]_hcVars => (HcInv /\ PriceInv)'
  BY HcStep, PriceStep
<1> QED
  BY <1>1, <1>2, PTL DEF HcSpec

(* LZ4HC_compress_optimal: the way that is elected takes no more bytes     *)
(* than its price.                                                         *)
THEOREM TheWayIsWithinPrice == HcSpec => WayWithinPrice
<1>1. HcInv /\ PriceInv =>
        [Elect => BytesOf(elected', anchor, ip') <= opt[last].price]_allVars
  BY ElectStep
<1> QED
  BY <1>1, PriceInvariant, PTL DEF WayWithinPrice

==============================================================================
