------------------------------ MODULE Lz4HcFinder ------------------------------
(***************************************************************************)
(* How lz4hc.c finds a match: LZ4HC_InsertAndGetWiderMatch, without a      *)
(* dictionary.  The optimal parser calls it forward only and with both     *)
(* accelerations, patternAnalysis and chainSwap; the hash chain parser     *)
(* also looks for matches that begin before the position of the search.    *)
(*                                                                         *)
(* hashTable holds the last position of every hash; chainTable, of which   *)
(* the places are used over and over again, the distance from a position   *)
(* to the one before it with the same hash.  A search walks down a chain.  *)
(*                                                                         *)
(* Decompression speed is not favored (favorDecSpeed is 0 unless a caller  *)
(* sets it).  Three `break`s are left out because they are never taken:    *)
(* those "to avoid overflow", as no distance is greater than any position, *)
(* and one for a repetition that begins too far away, as it is cut there.  *)
(***************************************************************************)
EXTENDS Lz4Format, FiniteSetsExt

CONSTANTS
  Hash(_),      (* LZ4HC_hashPtr: a number for every MINMATCH bytes.       *)
  Hashes,       (* Its values.                                             *)
  TRIGGER,      (* 1 << kTrigger: the steps of chainSwap grow after it.    *)
  MANY          (* 128: from more searches on patterns are analysed.       *)

(* Four bytes are compared and hashed at a time, as one word.              *)
ASSUME FinderAssumption ==
  /\ MINMATCH = 4
  /\ \A quad \in [1 .. MINMATCH -> U8] : Hash(quad) \in Hashes
  /\ TRIGGER \in Nat \ {0} /\ MANY \in Nat

VARIABLES
  src,
  level,        (* strat; nbSearches, the candidates that are looked at;   *)
                (* targetLength and full are for the optimal parser.       *)
  hashTable, chainTable, nextToUpdate,
  search        (* The search that runs, or has run.                       *)

finderVars == <<hashTable, chainTable, nextToUpdate, search>>

(* Positions are counted from START (64 KB), so that 0 is none of them.    *)
START == DISTANCE_MAX + 1
Index(p) == START + p

matchLimit == Len(src) - LASTLITERALS
Quad(p) == SubSeq(src, p + 1, p + MINMATCH)
Chain(index) == chainTable[index % (DISTANCE_MAX + 1)]

FinderInit ==
  /\ hashTable = [h \in Hashes |-> 0]
  /\ chainTable = [i \in 0 .. DISTANCE_MAX |-> 0]
  /\ nextToUpdate = START
  /\ search = [at |-> 0, low |-> 0, min |-> 0, start |-> 0, longest |-> 0, offset |-> 0,
               cand |-> 0, left |-> 0, chainPos |-> 0]

(* Mutant: the position that is searched for is inserted as well.          *)
NewOfAll(h, at) ==
  {i \in nextToUpdate .. Index(at) : Hash(Quad(i - START)) = h}

(* LZ4HC_Insert, for all positions before `at`.                            *)
New(h, at) == {i \in nextToUpdate .. Index(at) - 1 : Hash(Quad(i - START)) = h}

Latest(h, before) == Max({hashTable[h]} \cup {i \in New(h, before) : i < Index(before)})

Delta(i) ==
  LET d == i - Latest(Hash(Quad(i - START)), i - START)
  IN  IF d > DISTANCE_MAX THEN DISTANCE_MAX ELSE d

Insert(at) ==
  /\ hashTable' = [h \in Hashes |-> Max({hashTable[h]} \cup New(h, at))]
  /\ chainTable' =
       [k \in 0 .. DISTANCE_MAX |->
         LET here == {i \in UNION {New(h, at) : h \in Hashes} : i % (DISTANCE_MAX + 1) = k}
         IN  IF here = {} THEN chainTable[k] ELSE Delta(Max(here))]
  /\ nextToUpdate' = Index(at)

(* The call: something longer than `min` is wanted that begins at `low` or *)
(* behind it.                                                              *)
Find(at, low, min) ==
  /\ Insert(at)
  /\ search' = [at |-> at, low |-> low, min |-> min, start |-> at, longest |-> min, offset |-> 0,
                cand |-> hashTable'[Hash(Quad(at))], left |-> level.nbSearches, chainPos |-> 0]

(* Mutant: however far.                                                    *)
LowestOfAll == START

Lowest ==
  IF START + DISTANCE_MAX + 1 > Index(search.at) THEN START
  ELSE Index(search.at) - DISTANCE_MAX

Searching == search.cand >= Lowest /\ search.left > 0

LookBack == search.at - search.low
ChainSwap == level.strat = "lz4opt"
PatternAnalysis == level.strat = "lz4opt" \/ level.nbSearches > MANY

Found == [offset |-> search.offset, len |-> search.longest]
Nothing == search.longest <= search.min

(* How many bytes at p are those at q, up to matchLimit.                   *)
Common(p, q) ==
  Max({k \in 0 .. matchLimit - p : \A i \in 1 .. k : src[p + i] = src[q + i]})

(* LZ4HC_countBack: and how many before them, down to search.low.          *)
Before(p, q) ==
  Max({k \in 0 .. LookBack : k <= q /\ \A i \in 0 .. k - 1 : src[p - i] = src[q - i]})

(* The length of the match with the candidate, 0 if it cannot be longer.   *)
Length ==
  LET p == search.at
      q == search.cand - START
      k == search.longest
  IN  IF /\ \A i \in {k, k + 1} : src[search.low + i] = src[q - LookBack + i]
         /\ Quad(p) = Quad(q)
        THEN Common(p, q) + Before(p, q) ELSE 0

Compared ==
  IF Length > search.longest
    THEN [search EXCEPT !.longest = Length,
                        !.start = search.at - Before(search.at, search.cand - START),
                        !.offset = Index(search.at) - search.cand,
                        !.left = @ - 1]
    ELSE [search EXCEPT !.left = @ - 1]
-----------------------------------------------------------------------------
(* chainSwap: a longer match matches at every position of this one, so it  *)
(* is as far away as the farthest of their next candidates.                *)
BestChain(end) ==
  LET walk[k \in 0 .. end] ==
        IF k = 0 THEN [pos |-> 0, accel |-> TRIGGER, dist |-> 1, best |-> search.chainPos]
        ELSE LET w    == walk[k - 1]
                 dist == Chain(search.cand + w.pos)
                 next == w.pos + (w.accel \div TRIGGER)
             IN  IF w.pos >= end THEN w
                 ELSE IF dist > w.dist
                   THEN [pos |-> next, accel |-> TRIGGER, dist |-> dist, best |-> w.pos]
                 ELSE [w EXCEPT !.pos = next, !.accel = @ + 1]
  IN  walk[end]

(* Mutant: up to the end of the match.                                     *)
ChainAheadToEnd == BestChain(Compared.longest)

ChainAhead == BestChain(Compared.longest - MINMATCH + 1)

Swaps ==
  /\ ChainSwap
  /\ Length = Compared.longest
  /\ search.cand + Compared.longest <= Index(search.at)
  /\ ChainAhead.dist > 1

SwapChain ==
  /\ Searching /\ Swaps
  /\ search' = [Compared EXCEPT !.cand = @ - ChainAhead.dist, !.chainPos = ChainAhead.best]
-----------------------------------------------------------------------------
(* patternAnalysis: where one byte is repeated many positions are next to  *)
(* each other in a chain.                                                  *)
Repeats(p) == \A i \in 1 .. MINMATCH : src[p + i] = src[search.at + 1]

Forward(p) ==
  Max({k \in 0 .. matchLimit - p : \A i \in 1 .. k : src[p + i] = src[search.at + 1]})

Backward(p) ==
  Max({k \in 0 .. Index(p) - Lowest : \A i \in 0 .. k - 1 : src[p - i] = src[search.at + 1]})

InPattern ==
  /\ PatternAnalysis
  /\ Chain(search.cand) = 1 /\ search.chainPos = 0
  /\ Repeats(search.at)
  /\ search.cand - 1 >= Lowest /\ Repeats(search.cand - 1 - START)

(* The repetition there is long enough, and its end is not yet passed.     *)
Aligned(forward, segment, wanted) == segment >= wanted /\ forward <= wanted

(* To where the ends of both repetitions meet; or to the beginning of the  *)
(* repetition there and, if nothing can come before, on along the chain.   *)
JumpInPattern ==
  /\ Searching /\ ~Swaps /\ InPattern
  /\ LET p       == search.cand - 1 - START
         forward == Forward(p)
         segment == forward + Backward(p)
         wanted  == Forward(search.at)
         first   == search.cand - 1 - Backward(p)
         len     == IF segment < wanted THEN segment ELSE wanted
         s       == IF Compared.longest < len
                      THEN [Compared EXCEPT !.longest = len,
                                            !.offset = Index(search.at) - first]
                      ELSE Compared
     IN  search' = IF Aligned(forward, segment, wanted)
                     THEN [Compared EXCEPT !.cand = @ - 1 + forward - wanted]
                     ELSE IF LookBack > 0 THEN [Compared EXCEPT !.cand = first]
                     ELSE [s EXCEPT !.cand = first - Chain(first)]

FollowChain ==
  /\ Searching /\ ~Swaps /\ ~InPattern
  /\ search' = [Compared EXCEPT !.cand = @ - Chain(@ + search.chainPos)]

Look ==
  /\ SwapChain \/ JumpInPattern \/ FollowChain
  /\ UNCHANGED <<hashTable, chainTable, nextToUpdate>>
-----------------------------------------------------------------------------
(* How long a match is, as far as it counts.  Where one byte is repeated   *)
(* and patterns are analysed the bytes before the position do not: led to  *)
(* the end of a repetition, a search passes a match that begins earlier.   *)
Worth(p, q) ==
  Common(p, q) + IF PatternAnalysis /\ Repeats(p) THEN 0 ELSE Before(p, q)

(* All matches there are.                                                  *)
Lengths(p) ==
  {Worth(p, q) : q \in {r \in 0 .. p - 1 : p - r <= DISTANCE_MAX /\ Quad(r) = Quad(p)}}

(* What a search finds is a match, and no farther away than a distance can *)
(* be written (the assertions of lz4hc.c:1553).                            *)
FoundIsMatch ==
  /\ Searching => search.cand < Index(search.at)
  /\ ~Nothing =>
       /\ search.offset \in 1 .. DISTANCE_MAX /\ search.offset <= search.start
       /\ search.start \in search.low .. search.at
       /\ search.start + search.longest >= search.at + MINMATCH
       /\ search.longest <= Common(search.start, search.start - search.offset)

(* Unless it runs out of attempts a search finds the longest match: no     *)
(* acceleration jumps over it.                                             *)
FindsLongest ==
  ~Searching /\ search.left > 0 =>
    \A len \in Lengths(search.at) : len > search.min => search.longest >= len
==============================================================================
