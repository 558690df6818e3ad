--------------------------- MODULE Lz4StreamsProofs ---------------------------
(***************************************************************************)
(* The numbers that the streams of lz4.c and lz4hc.c give to positions,    *)
(* and the bytes that they write, stay within their limits, what their     *)
(* tables still hold of other blocks does no harm, and what the fast       *)
(* compressor writes decodes to what it was given.  All this whatever the  *)
(* program calls, and however often it uses a state again: for all blocks, *)
(* layouts and hash functions, and all numbers that the assumptions admit. *)
(***************************************************************************)
EXTENDS Lz4Streams, Lz4FormatTheorems

-----------------------------------------------------------------------------
(* LZ4HC.  The table knows no position from the end of the prefix on, and  *)
(* while there is a prefix what is not inserted yet is in it.              *)
HcStates ==
  [prefixStart : Nat, end : Nat, dictStart : Nat, dictLimit : Nat, lowLimit : Nat,
   nextToUpdate : Nat, dirty : BOOLEAN, dictCtx : BOOLEAN, top : Nat]

Ordered(s) ==
  /\ s \in HcStates
  /\ s.prefixStart <= s.end /\ s.lowLimit <= s.dictLimit
  /\ s.top <= EndIndex(s)
  /\ s.prefixStart # NULL => s.top < EndIndex(s) /\ s.nextToUpdate >= s.dictLimit

(* The same when a block may be compressed.                                *)
Begins(s) == Ordered(s) /\ s.prefixStart # NULL

(* A stream that was just loaded.                                          *)
Loaded(s) == Begins(s) /\ EndIndex(s) <= 2 * W

HcCalls ==
  [source : Nat, n : Nat, limit : {"none", "limitedOutput", "fillOutput", "refused"}]

(* The stream h has counted the block of call c, which begins there.       *)
StartOf(h, c) == c.source - h.prefixStart + h.dictLimit

Counted(h, c) ==
  /\ Begins(h) /\ h.prefixStart <= c.source /\ c.source > NULL
  /\ h.end = c.source + IF c.limit = "refused" THEN 0 ELSE c.n
  /\ h.top < StartOf(h, c) /\ StartOf(h, c) <= GB2

HcInv ==
  /\ at \in Int /\ (status = "open" => at > NULL)
  /\ layout \in {"line", "ring", "two", "one"}
  /\ Ordered(hc) /\ Ordered(dictHc)
  /\ hc.dictCtx => Loaded(dictHc)
  /\ unsaved => hc.prefixStart # NULL
  /\ hcCall \in HcCalls
  /\ ~HcIdle =>
       Counted(hc, hcCall) /\ (status = "open" => at = hcCall.source + hcCall.n)

PositionsInv ==
  /\ stream = "hc" => HcInv
  /\ stream # "hc" => HcIdle
-----------------------------------------------------------------------------
LEMMA WindowNumbers == W \in Nat \ {0} /\ GB1 \in Nat /\ W <= GB1 /\ GB2 \in Nat /\ GB1 + W <= GB2 /\ NULL = 0
<1> DEFINE m == (MAXBYTE + 1) * (MAXBYTE + 1) - 1
<1>1. DISTANCE_MAX \in 1 .. m
  BY Lz4Assumption
<1>2. m \in Int
  BY Numbers
<1> HIDE DEF m
<1> QED
  BY <1>1, <1>2, UserAssumption, HcAssumption DEF W, NULL

LEMMA Places ==
  /\ DICT \in Nat \ {0} /\ SAFE \in Nat \ {0} /\ BUF \in Nat \ {0} /\ SECOND \in Nat \ {0}
  /\ BUF > W + SAFE
<1>1. Len(Dictionary) \in Nat
  BY UserAssumption, LenProperties
<1> QED
  BY <1>1, WindowNumbers, UserAssumption DEF DICT, SAFE, BUF, SECOND

LEMMA PlaceIs ==
  ASSUME NEW n \in Nat, at \in Nat \ {0}, layout \in {"line", "ring", "two", "one"}
  PROVE  Place(n) \in Nat \ {0}
BY Places DEF Place
-----------------------------------------------------------------------------
(* What each function does to a stream.                                    *)
LEMMA InitStreamOrdered == Ordered(LZ4_initStreamHC) /\ ~LZ4_initStreamHC.dictCtx
BY WindowNumbers DEF Ordered, LZ4_initStreamHC, HcStates, EndIndex, PrefixSize

LEMMA InsertOrdered ==
  ASSUME NEW s, Begins(s), NEW p \in s.prefixStart .. s.end
  PROVE  /\ Begins(LZ4HC_Insert(s, p))
         /\ LZ4HC_Insert(s, p).end = s.end
         /\ LZ4HC_Insert(s, p).prefixStart = s.prefixStart
         /\ LZ4HC_Insert(s, p).dictLimit = s.dictLimit
         /\ LZ4HC_Insert(s, p).dictCtx = s.dictCtx
         /\ LZ4HC_Insert(s, p).dictStart = s.dictStart
         /\ LZ4HC_Insert(s, p).lowLimit = s.lowLimit
<1> USE WindowNumbers
<1> DEFINE target == p - s.prefixStart + s.dictLimit
           top == IF s.nextToUpdate < target THEN Max({s.top, target - 1}) ELSE s.top
<1>0. s \in HcStates
  BY DEF Begins, Ordered
<1>1. target \in Nat /\ target >= s.dictLimit /\ target <= EndIndex(s)
  BY <1>0 DEF HcStates, EndIndex, PrefixSize
<1>2. top \in Nat /\ (top = s.top \/ top = target - 1)
  BY <1>0, <1>1, MaxIs DEF HcStates
<1>3. LZ4HC_Insert(s, p) = [s EXCEPT !.top = top, !.nextToUpdate = target]
  BY DEF LZ4HC_Insert
<1> HIDE DEF target, top
<1>4. /\ LZ4HC_Insert(s, p) \in HcStates
      /\ LZ4HC_Insert(s, p).top = top /\ LZ4HC_Insert(s, p).nextToUpdate = target
      /\ LZ4HC_Insert(s, p).end = s.end /\ LZ4HC_Insert(s, p).prefixStart = s.prefixStart
      /\ LZ4HC_Insert(s, p).dictLimit = s.dictLimit /\ LZ4HC_Insert(s, p).dictCtx = s.dictCtx
      /\ LZ4HC_Insert(s, p).dictStart = s.dictStart /\ LZ4HC_Insert(s, p).lowLimit = s.lowLimit
  BY <1>0, <1>1, <1>2, <1>3 DEF HcStates
<1>5. EndIndex(LZ4HC_Insert(s, p)) = EndIndex(s) /\ EndIndex(s) \in Nat
  BY <1>0, <1>4 DEF EndIndex, PrefixSize, HcStates, Begins, Ordered
<1> QED
  BY <1>0, <1>1, <1>2, <1>4, <1>5 DEF Begins, Ordered, HcStates

LEMMA InitInternalOrdered ==
  ASSUME NEW s, Ordered(s), NEW start \in Nat \ {0}
  PROVE  LET r == LZ4HC_init_internal(s, start)
         IN  /\ Begins(r) /\ EndIndex(r) <= GB1 + W
             /\ r.prefixStart = start /\ r.end = start /\ r.dictCtx = s.dictCtx
<1> USE WindowNumbers
<1> DEFINE offset == (IF EndIndex(s) > GB1 THEN 0 ELSE EndIndex(s)) + W
           top == IF EndIndex(s) > GB1 THEN 0 ELSE s.top
           r == LZ4HC_init_internal(s, start)
<1>0. s \in HcStates /\ EndIndex(s) \in Nat
  BY DEF Ordered, HcStates, EndIndex, PrefixSize
<1>1. offset \in Nat /\ offset <= GB1 + W
  BY <1>0
<1>2. top \in Nat /\ top < offset
  BY <1>0 DEF Ordered, HcStates
<1>3. r = [s EXCEPT !.top = top, !.nextToUpdate = offset, !.dictLimit = offset, !.lowLimit = offset,
                    !.prefixStart = start, !.end = start, !.dictStart = start]
  BY DEF LZ4HC_init_internal
<1> HIDE DEF r, top, offset
<1>4. /\ r \in HcStates
      /\ r.top = top /\ r.nextToUpdate = offset /\ r.dictLimit = offset /\ r.lowLimit = offset
      /\ r.prefixStart = start /\ r.end = start /\ r.dictCtx = s.dictCtx
  BY <1>0, <1>1, <1>2, <1>3 DEF HcStates
<1>5. EndIndex(r) = offset
  BY <1>1, <1>4 DEF EndIndex, PrefixSize
<1>6. Begins(r)
  BY <1>1, <1>2, <1>4, <1>5 DEF Begins, Ordered
<1> QED
  BY <1>1, <1>4, <1>5, <1>6 DEF r

LEMMA ResetOrdered ==
  ASSUME NEW s, Ordered(s)
  PROVE  Ordered(LZ4_resetStreamHC_fast(s)) /\ ~LZ4_resetStreamHC_fast(s).dictCtx
<1> USE WindowNumbers
<1> DEFINE r == [s EXCEPT !.dictLimit = EndIndex(s), !.prefixStart = NULL, !.end = NULL,
                          !.dictCtx = FALSE]
<1>0. s \in HcStates /\ EndIndex(s) \in Nat
  BY DEF Ordered, HcStates, EndIndex, PrefixSize
<1>1. CASE s.dirty
  BY <1>1, InitStreamOrdered DEF LZ4_resetStreamHC_fast
<1>2. CASE ~s.dirty
  <2>1. LZ4_resetStreamHC_fast(s) = r
    BY <1>2 DEF LZ4_resetStreamHC_fast
  <2>2. /\ r \in HcStates /\ r.dictLimit = EndIndex(s) /\ r.prefixStart = NULL /\ r.end = NULL
        /\ r.top = s.top /\ ~r.dictCtx /\ r.lowLimit = s.lowLimit
    BY <1>0 DEF HcStates
  <2> HIDE DEF r
  <2>3. EndIndex(r) = EndIndex(s)
    BY <1>0, <2>2 DEF EndIndex, PrefixSize
  <2>4. s.lowLimit <= EndIndex(s)
    BY <1>0 DEF EndIndex, PrefixSize, HcStates, Ordered
  <2> QED
    BY <2>1, <2>2, <2>3, <2>4 DEF Ordered
<1> QED
  BY <1>0, <1>1, <1>2 DEF HcStates

LEMMA LoadDictLoaded ==
  ASSUME NEW dictionary \in Nat, NEW n \in Nat, dictionary + n - Min({n, W}) > 0
  PROVE  LET r == LZ4_loadDictHC(dictionary, n)
         IN  Loaded(r) /\ r.end = dictionary + n /\ ~r.dictCtx
<1> USE WindowNumbers
<1> DEFINE kept == Min({n, W})
           start == dictionary + n - kept
           i == LZ4HC_init_internal(LZ4_initStreamHC, start)
           s == [i EXCEPT !.end = start + kept]
           r == LZ4_loadDictHC(dictionary, n)
<1>1. kept \in Nat /\ kept <= W /\ kept <= n
  BY MinIs
<1>2. start \in Nat \ {0} /\ start + kept = dictionary + n
  BY <1>1
<1>3. r = IF kept >= LZ4HC_HASHSIZE THEN LZ4HC_Insert(s, s.end - 3) ELSE s
  BY DEF LZ4_loadDictHC
<1> HIDE DEF kept, r
<1>4. Begins(i) /\ i.prefixStart = start /\ i.end = start /\ ~i.dictCtx
  BY <1>2, InitStreamOrdered, InitInternalOrdered
<1>5. EndIndex(i) = W /\ i.dictLimit = W
  BY <1>2 DEF LZ4HC_init_internal, LZ4_initStreamHC, EndIndex, PrefixSize
<1> HIDE DEF i
<1>6. /\ s \in HcStates /\ s.end = start + kept /\ s.prefixStart = start /\ s.dictLimit = W
      /\ s.top = i.top /\ s.nextToUpdate = i.nextToUpdate /\ ~s.dictCtx /\ s.lowLimit = i.lowLimit
  BY <1>1, <1>2, <1>4, <1>5 DEF Begins, Ordered, HcStates
<1>7. EndIndex(s) = W + kept
  BY <1>1, <1>2, <1>6 DEF EndIndex, PrefixSize
<1>8. Loaded(s)
  BY <1>1, <1>2, <1>4, <1>5, <1>6, <1>7 DEF Loaded, Begins, Ordered, HcStates
<1>9. CASE kept < LZ4HC_HASHSIZE
  BY <1>1, <1>2, <1>3, <1>6, <1>8, <1>9 DEF LZ4HC_HASHSIZE, r
<1>10. CASE kept >= LZ4HC_HASHSIZE
  <2> HIDE DEF s, start
  <2>1. s.end - 3 \in s.prefixStart .. s.end
    BY <1>1, <1>2, <1>6, <1>10 DEF LZ4HC_HASHSIZE
  <2>2. Begins(s)
    BY <1>8 DEF Loaded
  <2>3. /\ Begins(r) /\ r.end = s.end /\ r.prefixStart = s.prefixStart
        /\ r.dictLimit = s.dictLimit /\ r.dictCtx = s.dictCtx
    BY <1>3, <1>10, <2>1, <2>2, InsertOrdered
  <2>4. EndIndex(r) = EndIndex(s)
    BY <2>3 DEF EndIndex, PrefixSize
  <2> QED
    BY <1>2, <1>6, <1>8, <2>3, <2>4 DEF Loaded, r
<1> QED
  BY <1>1, <1>9, <1>10 DEF LZ4HC_HASHSIZE

(* The stream becomes the external dictionary of the block.                *)
LEMMA ExternalOrdered ==
  ASSUME NEW s, Begins(s), NEW newBlock \in Nat \ {0}
  PROVE  LET r == LZ4HC_setExternalDict(s, newBlock)
         IN  /\ Begins(r) /\ EndIndex(r) = EndIndex(s) /\ r.prefixStart = newBlock
             /\ r.end = newBlock /\ ~r.dictCtx
<1> USE WindowNumbers
<1> DEFINE t == IF PrefixSize(s) >= 4 THEN LZ4HC_Insert(s, s.end - 3) ELSE s
           r == LZ4HC_setExternalDict(s, newBlock)
<1>0. s \in HcStates /\ EndIndex(s) \in Nat
  BY DEF Begins, Ordered, HcStates, EndIndex, PrefixSize
<1>1. Begins(t) /\ t.end = s.end /\ t.prefixStart = s.prefixStart /\ t.dictLimit = s.dictLimit
  <2>1. CASE PrefixSize(s) >= 4
    <3>1. s.end - 3 \in s.prefixStart .. s.end
      BY <1>0, <2>1 DEF PrefixSize, HcStates
    <3> QED
      BY <2>1, <3>1, InsertOrdered
  <2>2. CASE ~(PrefixSize(s) >= 4)
    BY <2>2
  <2> QED
    BY <2>1, <2>2
<1>2. r = [t EXCEPT !.lowLimit = s.dictLimit, !.dictStart = s.prefixStart,
                    !.dictLimit = EndIndex(s), !.nextToUpdate = EndIndex(s),
                    !.prefixStart = newBlock, !.end = newBlock, !.dictCtx = FALSE]
  BY DEF LZ4HC_setExternalDict
<1>3. EndIndex(t) = EndIndex(s)
  BY <1>1 DEF EndIndex, PrefixSize
<1>4. t \in HcStates /\ t.top < EndIndex(s)
  BY <1>1, <1>3 DEF Begins, Ordered
<1> HIDE DEF t, r
<1>5. /\ r \in HcStates /\ r.dictLimit = EndIndex(s) /\ r.nextToUpdate = EndIndex(s)
      /\ r.prefixStart = newBlock /\ r.end = newBlock /\ ~r.dictCtx /\ r.top = t.top
      /\ r.lowLimit = s.dictLimit
  BY <1>0, <1>2, <1>4 DEF HcStates
<1>6. EndIndex(r) = EndIndex(s)
  BY <1>0, <1>5 DEF EndIndex, PrefixSize
<1>7. Begins(r)
  <2>1. s.dictLimit <= EndIndex(s)
    BY <1>0 DEF EndIndex, PrefixSize, HcStates, Begins, Ordered
  <2> QED
    BY <1>0, <1>4, <1>5, <1>6, <2>1 DEF Begins, Ordered, HcStates
<1> QED
  BY <1>5, <1>6, <1>7 DEF r

(* What the block overwrites is given up: the window begins later.         *)
LEMMA OverlapOrdered ==
  ASSUME NEW s, Begins(s), NEW source \in Nat, NEW n \in Nat
  PROVE  LET r == HcWithoutOverlap(s, source, n)
         IN  /\ Begins(r) /\ EndIndex(r) = EndIndex(s) /\ r.end = s.end
             /\ r.prefixStart = s.prefixStart /\ r.dictCtx = s.dictCtx
<1> DEFINE dictionaryEnd == s.dictStart + s.dictLimit - s.lowLimit
           gone == Min({source + n, dictionaryEnd}) - s.dictStart
           a == [s EXCEPT !.lowLimit = s.dictLimit, !.dictStart = s.prefixStart]
           b == [s EXCEPT !.lowLimit = @ + gone, !.dictStart = @ + gone]
           r == HcWithoutOverlap(s, source, n)
           Follows(t) ==
             /\ t \in HcStates /\ t.prefixStart = s.prefixStart /\ t.end = s.end
             /\ t.dictLimit = s.dictLimit /\ t.nextToUpdate = s.nextToUpdate /\ t.top = s.top
             /\ t.dictCtx = s.dictCtx /\ t.lowLimit <= t.dictLimit
<1>0. s \in HcStates /\ s.lowLimit <= s.dictLimit
  BY DEF Begins, Ordered
<1>1. Follows(s) /\ Follows(a)
  <2>1. a \in HcStates
    BY <1>0 DEF HcStates
  <2>2. /\ a.prefixStart = s.prefixStart /\ a.end = s.end
        /\ a.dictLimit = s.dictLimit /\ a.nextToUpdate = s.nextToUpdate /\ a.top = s.top
        /\ a.dictCtx = s.dictCtx /\ a.lowLimit = s.dictLimit
    BY <1>0 DEF HcStates
  <2> HIDE DEF a
  <2> QED
    BY <1>0, <2>1, <2>2 DEF HcStates
<1>2. ASSUME source + n > s.dictStart, ~(s.dictLimit - (s.lowLimit + gone) < LZ4HC_HASHSIZE)
      PROVE  Follows(b)
  <2>1. dictionaryEnd \in Nat /\ dictionaryEnd >= s.dictStart
    BY <1>0 DEF HcStates
  <2>2. gone \in Nat
    BY <1>0, <1>2, <2>1, MinIs DEF HcStates
  <2>3. s.lowLimit + gone <= s.dictLimit
    BY <1>0, <1>2, <2>2 DEF LZ4HC_HASHSIZE, HcStates
  <2> HIDE DEF gone
  <2>4. s.lowLimit + gone \in Nat /\ s.dictStart + gone \in Nat
    BY <1>0, <2>2 DEF HcStates
  <2>5. b \in HcStates
    BY <1>0, <2>4 DEF HcStates
  <2>6. /\ b.prefixStart = s.prefixStart /\ b.end = s.end
        /\ b.dictLimit = s.dictLimit /\ b.nextToUpdate = s.nextToUpdate /\ b.top = s.top
        /\ b.dictCtx = s.dictCtx /\ b.lowLimit = s.lowLimit + gone
    BY <1>0, <2>4 DEF HcStates
  <2> HIDE DEF b
  <2> QED
    BY <2>3, <2>5, <2>6
<1>3. \/ r = s \/ r = a
      \/ /\ r = b /\ source + n > s.dictStart
         /\ ~(s.dictLimit - (s.lowLimit + gone) < LZ4HC_HASHSIZE)
  BY DEF HcWithoutOverlap
<1> HIDE DEF a, b, r, gone
<1>4. Follows(r)
  BY <1>1, <1>2, <1>3
<1>5. EndIndex(r) = EndIndex(s)
  BY <1>4 DEF EndIndex, PrefixSize
<1> QED
  BY <1>4, <1>5 DEF Begins, Ordered, r

(* However the stream was, it may take the block, and positions are small. *)
LEMMA ContinuedBegins ==
  ASSUME NEW s, Ordered(s), NEW source \in Nat \ {0}, NEW n \in Nat
  PROVE  LET r == Continued(s, source, n)
         IN  /\ Begins(r) /\ EndIndex(r) <= GB2 /\ r.end = source
             /\ r.dictCtx => s.dictCtx
<1> USE WindowNumbers
<1> DEFINE begun  == IF s.prefixStart = NULL THEN LZ4HC_init_internal(s, source) ELSE s
           loaded == Reloaded(begun)
           joined == IF source # loaded.end THEN LZ4HC_setExternalDict(loaded, source) ELSE loaded
           k == Min({PrefixSize(begun), W})
<1>1. Begins(begun) /\ (begun.dictCtx => s.dictCtx)
  BY InitInternalOrdered DEF Begins
<1> HIDE DEF begun
<1>2. begun \in HcStates /\ PrefixSize(begun) \in Nat /\ EndIndex(begun) \in Nat
  BY <1>1 DEF Begins, Ordered, HcStates, PrefixSize, EndIndex
<1>3. k \in Nat /\ k <= PrefixSize(begun) /\ k <= W
  BY <1>2, MinIs
<1>4. begun.end - k \in Nat /\ begun.end - k + k - Min({k, W}) > 0
  BY <1>1, <1>2, <1>3, MinIs DEF Begins, Ordered, HcStates, PrefixSize
<1> HIDE DEF k
<1>5. Begins(loaded) /\ EndIndex(loaded) <= GB2 /\ (loaded.dictCtx => s.dictCtx)
  <2>1. CASE EndIndex(begun) <= GB2
    BY <1>1, <2>1 DEF Reloaded
  <2>2. CASE EndIndex(begun) > GB2
    <3>1. loaded = LZ4_loadDictHC(begun.end - k, k)
      BY <1>2, <2>2 DEF Reloaded, k
    <3> HIDE DEF loaded
    <3>2. Loaded(loaded) /\ ~loaded.dictCtx
      BY <1>3, <1>4, <3>1, LoadDictLoaded
    <3> QED
      BY <3>2 DEF Loaded, Begins, Ordered, HcStates, EndIndex, PrefixSize
  <2> QED
    BY <1>2, <2>1, <2>2
<1> HIDE DEF loaded
<1>6. Begins(joined) /\ EndIndex(joined) <= GB2 /\ (joined.dictCtx => s.dictCtx) /\ joined.end = source
  BY <1>5, ExternalOrdered
<1>7. Continued(s, source, n) = HcWithoutOverlap(joined, source, n)
  BY DEF Continued, joined, loaded, begun
<1> HIDE DEF joined
<1> DEFINE r == HcWithoutOverlap(joined, source, n)
<1>8. /\ Begins(r) /\ EndIndex(r) = EndIndex(joined) /\ r.end = joined.end
      /\ r.dictCtx = joined.dictCtx
  <2>1. Begins(joined) /\ source \in Nat
    BY <1>6
  <2> QED
    BY ONLY <2>1, OverlapOrdered, n \in Nat
<1> HIDE DEF r
<1> QED
  BY <1>6, <1>7, <1>8 DEF r

LEMMA DispatchedBegins ==
  ASSUME NEW s, Begins(s), EndIndex(s) <= GB2, s.dictCtx => Loaded(dictHc),
         NEW source \in Nat \ {0}, s.end = source, NEW n
  PROVE  LET r == Dispatched(s, source, n)
         IN  /\ Begins(r) /\ EndIndex(r) <= GB2 /\ r.end = source
             /\ r.dictCtx => s.dictCtx
<1> USE WindowNumbers
<1> DEFINE a == [s EXCEPT !.dictCtx = FALSE]
           b == LZ4HC_setExternalDict(dictHc, source)
           r == Dispatched(s, source, n)
<1>1. Begins(a) /\ EndIndex(a) = EndIndex(s) /\ a.end = source /\ ~a.dictCtx
  BY DEF Begins, Ordered, HcStates, EndIndex, PrefixSize
<1>2. ASSUME s.dictCtx
      PROVE  Begins(b) /\ EndIndex(b) <= GB2 /\ b.end = source /\ ~b.dictCtx
  <2>1. Begins(dictHc) /\ EndIndex(dictHc) <= 2 * W
    BY <1>2 DEF Loaded
  <2>2. EndIndex(dictHc) \in Nat
    BY <2>1 DEF Begins, Ordered, HcStates, EndIndex, PrefixSize
  <2> QED
    BY <2>1, <2>2, ExternalOrdered
<1>3. r = s \/ r = a \/ (s.dictCtx /\ r = b)
  BY DEF Dispatched
<1> HIDE DEF a, b, r
<1>4. Begins(r) /\ EndIndex(r) <= GB2 /\ r.end = source /\ (r.dictCtx => s.dictCtx)
  BY <1>1, <1>2, <1>3
<1> QED
  BY <1>4 DEF r

(* The last n bytes are the prefix now, somewhere else.                    *)
LEMMA SavedBegins ==
  ASSUME NEW s, Begins(s), NEW n \in 0 .. PrefixSize(s), NEW safe \in Nat
  PROVE  Ordered(SavedAt(s, safe, n)) /\ SavedAt(s, safe, n).dictCtx = s.dictCtx
<1> USE WindowNumbers
<1> DEFINE least == EndIndex(s) - n
           next == Max({s.nextToUpdate, least})
           r == SavedAt(s, safe, n)
<1>0. s \in HcStates /\ PrefixSize(s) \in Nat /\ EndIndex(s) \in Nat /\ s.top < EndIndex(s)
  BY DEF Begins, Ordered, HcStates, EndIndex, PrefixSize
<1>1. n \in Nat /\ least \in Nat /\ next \in Nat /\ next >= least
  BY <1>0, MaxIs DEF EndIndex, HcStates
<1>2. r = [s EXCEPT !.prefixStart = safe, !.end = safe + n, !.dictStart = safe,
                    !.dictLimit = least, !.lowLimit = least, !.nextToUpdate = next]
  BY DEF SavedAt
<1>3. EndIndex(s) = least + n
  BY <1>0, <1>1
<1> HIDE DEF least, next, r
<1> DEFINE end == safe + n
<1>a. end \in Nat
  BY <1>1
<1> HIDE DEF end
<1>b. r = [s EXCEPT !.prefixStart = safe, !.end = end, !.dictStart = safe,
                    !.dictLimit = least, !.lowLimit = least, !.nextToUpdate = next]
  BY <1>2 DEF end
<1>c. r \in HcStates
  BY <1>0, <1>1, <1>a, <1>b DEF HcStates
<1>4. /\ r.prefixStart = safe /\ r.end = end /\ r.dictLimit = least
      /\ r.lowLimit = least /\ r.nextToUpdate = next /\ r.top = s.top /\ r.dictCtx = s.dictCtx
  BY <1>0, <1>1, <1>a, <1>b DEF HcStates
<1>5. EndIndex(r) = EndIndex(s) /\ safe <= end
  BY <1>1, <1>3, <1>4 DEF EndIndex, PrefixSize, end
<1> QED
  BY <1>0, <1>1, <1>c, <1>4, <1>5 DEF Ordered, HcStates, r
-----------------------------------------------------------------------------

(* The call of LZ4HC_compress_generic.                                     *)
LEMMA CompressCounts ==
  ASSUME NEW s, Begins(s), EndIndex(s) <= GB2, s.dictCtx => Loaded(dictHc),
         NEW source \in Nat \ {0}, s.end = source, NEW n \in Nat,
         NEW limit \in {"limitedOutput", "fillOutput", "refused"},
         CompressHc(s, source, n, limit)
  PROVE  /\ Counted(hc', hcCall') /\ hcCall' \in HcCalls /\ dictHc' = dictHc
         /\ hc'.dictCtx => Loaded(dictHc)
         /\ hcCall'.source = source /\ hcCall'.n = n
<1> USE WindowNumbers
<1> DEFINE d == Dispatched(s, source, n)
           more == IF limit = "refused" THEN 0 ELSE n
           h == [d EXCEPT !.end = source + more]
<1>1. Begins(d) /\ EndIndex(d) <= GB2 /\ d.end = source /\ (d.dictCtx => s.dictCtx)
  BY DispatchedBegins
<1>2. hc' = [d EXCEPT !.end = IF limit = "refused" THEN @ ELSE @ + n]
  BY DEF CompressHc
<1> HIDE DEF d
<1>3. d \in HcStates
  BY <1>1 DEF Begins, Ordered
<1>4. hc' = h
  BY <1>1, <1>2, <1>3
<1>5. source + more \in Nat /\ source <= source + more
  OBVIOUS
<1>6. /\ h \in HcStates /\ h.end = source + more
  BY <1>3, <1>5 DEF HcStates
<1>7. /\ h.prefixStart = d.prefixStart /\ h.dictLimit = d.dictLimit /\ h.lowLimit = d.lowLimit
      /\ h.nextToUpdate = d.nextToUpdate /\ h.top = d.top /\ h.dictCtx = d.dictCtx
  BY <1>3, <1>5 DEF HcStates
<1> HIDE DEF h
<1>8. EndIndex(d) = source - d.prefixStart + d.dictLimit /\ EndIndex(d) \in Nat
  BY <1>1, <1>3 DEF EndIndex, PrefixSize, Begins, Ordered, HcStates
<1>9. EndIndex(h) = source + more - d.prefixStart + d.dictLimit /\ EndIndex(h) >= EndIndex(d)
  BY <1>3, <1>5, <1>6, <1>7, <1>8 DEF EndIndex, PrefixSize, HcStates
<1>10. Begins(h)
  BY <1>1, <1>3, <1>5, <1>6, <1>7, <1>8, <1>9 DEF Begins, Ordered, HcStates
<1>11. hcCall' = [source |-> source, n |-> n, limit |-> limit] /\ dictHc' = dictHc
  BY DEF CompressHc
<1>12. hcCall' \in HcCalls /\ hcCall'.source = source /\ hcCall'.n = n /\ hcCall'.limit = limit
  BY <1>11 DEF HcCalls
<1>13. StartOf(h, hcCall') = EndIndex(d)
  BY <1>7, <1>8, <1>12 DEF StartOf
<1>14. h.top < EndIndex(d) /\ h.prefixStart <= source
  BY <1>1, <1>7 DEF Begins, Ordered
<1>15. Counted(h, hcCall')
  BY <1>1, <1>6, <1>10, <1>12, <1>13, <1>14 DEF Counted
<1> QED
  BY <1>1, <1>4, <1>7, <1>11, <1>12, <1>15

LEMMA HcContinueKeeps ==
  ASSUME HcInv, NEW n \in Nat, NEW limit \in {"limitedOutput", "fillOutput", "refused"},
         HcContinue(n, limit)
  PROVE  HcInv'
<1> USE WindowNumbers
<1> DEFINE source == Place(n)
           s == Continued(hc, source, n)
<1>1. Len(Block(n)) = n
  BY DEF Block
<1>2. /\ status = "open" /\ at' = Place(Len(Block(n))) + Len(Block(n))
      /\ status' = status /\ layout' = layout
      /\ unsaved' = (layout = "one" /\ Block(n) # <<>>)
  BY DEF HcContinue, Written
<1>3. at \in Nat \ {0} /\ source \in Nat \ {0}
  BY <1>2, PlaceIs DEF HcInv
<1>4. CompressHc(s, source, n, limit)
  BY DEF HcContinue
<1> HIDE DEF source
<1>5. Begins(s) /\ EndIndex(s) <= GB2 /\ s.end = source /\ (s.dictCtx => hc.dictCtx)
  BY <1>3, ContinuedBegins DEF HcInv
<1> HIDE DEF s
<1>6. /\ Counted(hc', hcCall') /\ hcCall' \in HcCalls /\ dictHc' = dictHc
      /\ hc'.dictCtx => Loaded(dictHc)
      /\ hcCall'.source = source /\ hcCall'.n = n
  BY <1>3, <1>4, <1>5, CompressCounts DEF HcInv
<1>7. at' = source + n /\ at' \in Int /\ at' > NULL
  BY <1>1, <1>2, <1>3 DEF source
<1>8. Ordered(hc') /\ hc'.prefixStart # NULL
  BY <1>6 DEF Counted, Begins
<1> QED
  BY <1>2, <1>6, <1>7, <1>8 DEF HcInv, Loaded, Begins, Ordered, EndIndex, PrefixSize

LEMMA HcExtStateKeeps ==
  ASSUME HcInv, NEW n \in Nat, NEW limit \in {"limitedOutput", "fillOutput", "refused"},
         HcExtState(n, limit)
  PROVE  HcInv'
<1> USE WindowNumbers
<1>1. PICK t \in {LZ4_resetStreamHC_fast(hc), LZ4_initStreamHC} :
        CompressHc(LZ4HC_init_internal(t, BUF), BUF, n, limit)
  BY DEF HcExtState
<1>2. Ordered(t) /\ ~t.dictCtx
  BY <1>1, ResetOrdered, InitStreamOrdered DEF HcInv
<1> DEFINE s == LZ4HC_init_internal(t, BUF)
<1>3. Begins(s) /\ EndIndex(s) <= GB1 + W /\ s.end = BUF /\ ~s.dictCtx /\ BUF \in Nat \ {0}
  BY <1>2, Places, InitInternalOrdered
<1> HIDE DEF s
<1>4. EndIndex(s) <= GB2
  BY <1>3 DEF Begins, Ordered, HcStates, EndIndex, PrefixSize
<1>5. /\ Counted(hc', hcCall') /\ hcCall' \in HcCalls /\ dictHc' = dictHc
      /\ hc'.dictCtx => Loaded(dictHc)
  BY <1>1, <1>3, <1>4, CompressCounts DEF s
<1>6. Ordered(hc') /\ hc'.prefixStart # NULL
  BY <1>5 DEF Counted, Begins
<1>7. status' = "closed" /\ at' = BUF /\ layout' = layout /\ ~unsaved'
  BY DEF HcExtState, Single
<1> QED
  BY <1>3, <1>5, <1>6, <1>7 DEF HcInv, Loaded, Begins, Ordered, EndIndex, PrefixSize

(* The search has inserted positions, all of them before the end.          *)
LEMMA HcReturnedKeeps ==
  ASSUME HcInv, HcReturned
  PROVE  HcInv'
<1> USE WindowNumbers
<1>1. hcCall' = NoHcCall /\ dictHc' = dictHc /\ ~HcIdle /\ HcIdle'
  BY DEF HcReturned, HcIdle
<1>2. hcCall' \in HcCalls
  BY <1>1 DEF NoHcCall, HcCalls
<1>3. Counted(hc, hcCall) /\ hcCall \in HcCalls /\ (status = "open" => at = hcCall.source + hcCall.n)
  BY <1>1 DEF HcInv
<1>4. /\ layout' = layout /\ unsaved' = unsaved
      /\ at' \in Int /\ (status' = "open" => at' > NULL)
  <2>1. CASE Failed
    BY <2>1 DEF Failed, HcInv
  <2>2. ASSUME NEW m \in 0 .. hcCall.n, ReadOnly(m)
        PROVE  /\ layout' = layout /\ unsaved' = unsaved
               /\ at' \in Int /\ (status' = "open" => at' > NULL)
    <3>1. CASE m < hcCall.n /\ ~GOES_ON
      BY <2>2, <3>1 DEF ReadOnly, HcInv
    <3>2. CASE ~(m < hcCall.n /\ ~GOES_ON)
      <4>1. at' = at - (hcCall.n - m) /\ UNCHANGED <<layout, status, unsaved>>
        BY <2>2, <3>2 DEF ReadOnly
      <4>2. hcCall.n \in Nat /\ hcCall.source \in Nat /\ hcCall.source > NULL
        BY <1>3 DEF HcCalls, Counted
      <4> QED
        BY <1>3, <4>1, <4>2 DEF HcInv
    <3> QED
      BY <3>1, <3>2
  <2>3. hcCall.n \in 0 .. hcCall.n
    BY <1>3 DEF HcCalls
  <2> QED
    BY <2>1, <2>2, <2>3 DEF HcReturned
<1>5. Begins(hc') /\ hc'.dictCtx = hc.dictCtx
  <2>1. CASE hc' = hc
    BY <1>3, <2>1 DEF Counted
  <2>2. ASSUME hcCall.limit # "refused",
               NEW p \in hcCall.source .. Max({hcCall.source, hc.end - MFLIMIT})
        PROVE  Begins(LZ4HC_Insert(hc, p)) /\ LZ4HC_Insert(hc, p).dictCtx = hc.dictCtx
    <3>1. /\ hcCall.source \in Nat /\ hcCall.n \in Nat /\ hc.prefixStart <= hcCall.source
          /\ hc.end = hcCall.source + hcCall.n /\ hc.prefixStart \in Nat /\ Begins(hc)
      BY <1>3, <2>2 DEF Counted, HcCalls, Begins, Ordered, HcStates
    <3>2. p \in hc.prefixStart .. hc.end
      BY <3>1, Numbers, MaxIs
    <3> QED
      BY <3>1, <3>2, InsertOrdered
  <2>3. ASSUME NEW s, Begins(s), s.dictCtx = hc.dictCtx
        PROVE  LET d == [s EXCEPT !.dirty = TRUE] IN Begins(d) /\ d.dictCtx = hc.dictCtx
    BY <2>3 DEF Begins, Ordered, HcStates, EndIndex, PrefixSize
  <2>4. Begins(hc)
    BY <1>3 DEF Counted
  <2>5. ASSUME hc' # hc
        PROVE  /\ hcCall.limit # "refused"
               /\ \E p \in hcCall.source .. Max({hcCall.source, hc.end - MFLIMIT}) :
                    \E s \in {hc, LZ4HC_Insert(hc, p)} : hc' = s \/ hc' = [s EXCEPT !.dirty = TRUE]
    BY <2>5 DEF HcReturned
  <2> QED
    BY <2>1, <2>2, <2>3, <2>4, <2>5
<1> QED
  BY <1>1, <1>2, <1>4, <1>5 DEF HcInv, Loaded, Begins, Ordered, EndIndex, PrefixSize

(* A stream that is begun, or whose dictionary is saved, is idle.          *)
LEMMA HcIdleKeeps ==
  ASSUME HcInv, HcIdle, hcCall' = hcCall, layout' = layout,
         at' \in Int, status' = "open" => at' > NULL,
         Ordered(hc'), Ordered(dictHc'), hc'.dictCtx => Loaded(dictHc'),
         ~unsaved'
  PROVE  HcInv'
<1>1. HcIdle'
  BY DEF HcIdle
<1> QED
  BY <1>1 DEF HcInv, Loaded, Begins, Ordered, EndIndex, PrefixSize

LEMMA BegunIdles ==
  ASSUME NEW bytes, Begun(bytes), HcBetween
  PROVE  /\ HcIdle /\ hcCall' = hcCall /\ layout' = layout
         /\ at' \in Int /\ (status' = "open" => at' > NULL) /\ ~unsaved'
BY Places, WindowNumbers DEF Begun, HcBetween

LEMMA HcBeginKeeps ==
  ASSUME HcInv, HcInitStream \/ HcResetFast \/ (\E n \in DictSizes : HcLoadDict(n) \/ HcAttach(n))
  PROVE  HcInv'
<1> USE WindowNumbers
<1>0. Ordered(hc) /\ Ordered(dictHc)
  BY DEF HcInv
<1>1. CASE HcInitStream
  BY <1>0, <1>1, BegunIdles, HcIdleKeeps, InitStreamOrdered DEF HcInitStream, HcBegun
<1>2. CASE HcResetFast
  BY <1>0, <1>2, BegunIdles, HcIdleKeeps, ResetOrdered DEF HcResetFast, HcBegun
<1>3. ASSUME NEW n \in DictSizes
      PROVE  /\ Loaded(LZ4_loadDictHC(DICT, n)) /\ Ordered(LZ4_loadDictHC(DICT, n))
             /\ ~LZ4_loadDictHC(DICT, n).dictCtx
  <2>1. n \in Nat
    BY UserAssumption, LenProperties
  <2>2. DICT \in Nat /\ DICT + n - Min({n, W}) > 0
    BY <2>1, MinIs DEF DICT
  <2> QED
    BY <2>1, <2>2, LoadDictLoaded DEF Loaded, Begins
<1>4. ASSUME NEW n \in DictSizes, HcLoadDict(n)
      PROVE  HcInv'
  BY <1>0, <1>3, <1>4, BegunIdles, HcIdleKeeps DEF HcLoadDict, HcBegun
<1>5. ASSUME NEW n \in DictSizes, HcAttach(n)
      PROVE  HcInv'
  <2> DEFINE r == LZ4_resetStreamHC_fast(hc)
             h == [r EXCEPT !.dictCtx = TRUE]
  <2>1. Ordered(r)
    BY <1>0, ResetOrdered
  <2> HIDE DEF r
  <2>2. Ordered(h)
    BY <2>1 DEF Ordered, HcStates, EndIndex, PrefixSize
  <2>3. hc' = h /\ dictHc' = LZ4_loadDictHC(DICT, n) /\ HcBetween /\ Begun(Word(DICT, n))
    BY <1>5 DEF HcAttach, r, HcBegun
  <2> HIDE DEF h
  <2>4. Ordered(hc') /\ Ordered(dictHc') /\ Loaded(dictHc')
    BY <1>3, <2>2, <2>3
  <2> QED
    BY <2>3, <2>4, BegunIdles, HcIdleKeeps
<1> QED
  BY <1>1, <1>2, <1>4, <1>5

LEMMA HcSaveDictKeeps ==
  ASSUME HcInv, NEW size \in SaveSizes, HcSaveDict(size)
  PROVE  HcInv'
<1> USE WindowNumbers
<1> DEFINE wanted == IF size < 4 THEN 0 ELSE Min({size, W})
           n == Min({wanted, PrefixSize(hc)})
<1>1. PICK safe \in SafeBuffers(n) : Saved(safe, hc.end - n, n) /\ hc' = SavedAt(hc, safe, n)
  BY DEF HcSaveDict
<1>2. /\ HcIdle /\ hcCall' = hcCall /\ dictHc' = dictHc
      /\ unsaved /\ ~unsaved' /\ layout' = layout /\ at' = at /\ status' = status
  BY <1>1 DEF HcSaveDict, HcBetween, Saved
<1>3. Begins(hc)
  BY <1>2 DEF HcInv, Begins
<1>4. PrefixSize(hc) \in Nat /\ size \in Nat
  BY <1>3, UserAssumption DEF Begins, Ordered, HcStates, PrefixSize
<1>5. wanted \in Nat /\ wanted <= W
  BY <1>4, MinIs
<1> HIDE DEF wanted
<1>6. n \in 0 .. PrefixSize(hc) /\ n <= W
  BY <1>4, <1>5, MinIs
<1> HIDE DEF n
<1>7. safe \in Nat
  BY <1>6, Places DEF SafeBuffers
<1>8. Ordered(hc') /\ hc'.dictCtx = hc.dictCtx
  BY <1>1, <1>3, <1>6, <1>7, SavedBegins
<1> QED
  BY <1>2, <1>8, HcIdleKeeps DEF HcInv, Loaded, Begins, Ordered, EndIndex, PrefixSize

LEMMA PositionsStep ==
  ASSUME PositionsInv, [Next]_streamVars
  PROVE  PositionsInv'
<1> USE WindowNumbers
<1>1. CASE UNCHANGED streamVars
  <2>1. UNCHANGED <<stream, hc, dictHc, hcCall, at, status, layout, unsaved>>
    BY <1>1 DEF streamVars, hcVars, userVars
  <2>2. HcInv => HcInv'
    BY <2>1 DEF HcInv, HcIdle, Loaded, Begins, Ordered, EndIndex, PrefixSize
  <2> QED
    BY <2>1, <2>2 DEF PositionsInv, HcIdle
<1>2. CASE Next
  <2>1. CASE stream # "hc"
    <3>1. UNCHANGED <<stream, hcVars>>
      BY <1>2, <2>1 DEF Next, Fast, Hc, Decoder
    <3> QED
      BY <2>1, <3>1 DEF PositionsInv, HcIdle, hcVars
  <2>2. CASE stream = "hc"
    <3>1. HcInv
      BY <2>2 DEF PositionsInv
    <3>2. stream' = stream
      BY <1>2 DEF Next, Fast, Hc, Decoder
    <3>3. \/ \E n \in HcSizes, limit \in {"limitedOutput", "fillOutput", "refused"} :
               HcContinue(n, limit) \/ HcExtState(n, limit)
          \/ HcReturned
          \/ HcInitStream \/ HcResetFast \/ (\E n \in DictSizes : HcLoadDict(n) \/ HcAttach(n))
          \/ \E n \in SaveSizes : HcSaveDict(n)
      BY <1>2, <2>2 DEF Next, Fast, Hc, Decoder
    <3>4. HcInv'
      BY <3>1, <3>3, HcAssumption, HcContinueKeeps, HcExtStateKeeps, HcReturnedKeeps,
         HcBeginKeeps, HcSaveDictKeeps
    <3> QED
      BY <2>2, <3>2, <3>4 DEF PositionsInv
  <2> QED
    BY <2>1, <2>2
<1> QED
  BY <1>1, <1>2

LEMMA PositionsBegin == Init => PositionsInv
<1> SUFFICES ASSUME Init PROVE PositionsInv
  OBVIOUS
<1>1. HcInit /\ at = BUF /\ layout \in Layouts /\ ~unsaved /\ (layout = "own" => stream = "decoder")
  BY DEF Init, UserInit
<1>2. HcIdle /\ hc = LZ4_initStreamHC /\ dictHc = LZ4_initStreamHC /\ hcCall \in HcCalls
  BY <1>1, WindowNumbers DEF HcInit, HcIdle, NoHcCall, HcCalls
<1>3. Ordered(hc) /\ Ordered(dictHc) /\ ~hc.dictCtx
  BY <1>2, InitStreamOrdered
<1>4. stream = "hc" => layout \in {"line", "ring", "two", "one"}
  BY <1>1, UserAssumption
<1> QED
  BY <1>1, <1>2, <1>3, <1>4, Places, WindowNumbers DEF PositionsInv, HcInv

(* PositionsInOrder: whatever the program calls, in any order and however  *)
(* often it uses a state of LZ4HC again, the hash table knows no position  *)
(* that is still to come, and no position exceeds 2 GB.                    *)
THEOREM PositionsStayInOrder == Spec => []PositionsInOrder
<1>1. PositionsInv => PositionsInOrder
  BY DEF PositionsInv, HcInv, Counted, Begins, Ordered, StartOf, PositionsInOrder, startIndex
<1> QED
  BY <1>1, PositionsBegin, PositionsStep, PTL DEF Spec

-----------------------------------------------------------------------------
(* The fast compressor.                                                    *)
FastStates ==
  [table : [Hashes -> Nat], currentOffset : Nat, tableType : {"cleared", "byU16", "byU32"},
   dictionary : Nat, dictSize : Nat, dictCtx : BOOLEAN]

FastCalls ==
  [source : Nat, n : Nat, room : Nat, limit : {"notLimited", "limitedOutput", "fillOutput"},
   tableType : {"byU16", "byU32"},
   directive : {"noDict", "withPrefix64k", "usingExtDict", "usingDictCtx"},
   issue : {"noDictIssue", "dictSmall"}, startIndex : Nat, dictionary : Nat, dictSize : Nat]

UserTypeOK ==
  /\ mem \in [1 .. TOP -> Values]
  /\ at \in Nat \ {0} /\ layout \in {"line", "ring", "two", "one"}

BlockTypeOK ==
  /\ call \in FastCalls
  /\ pc \in {"idle", "first", "search", "literals", "nextMatch", "test", "last", "returned"}
  /\ ip \in Nat /\ forward \in Nat /\ tries \in Nat /\ filled \in Nat /\ anchor \in Nat
  /\ cand \in [addr : Int, low : Int, offset : Int]
  /\ token \in Nat /\ op \in Nat /\ reach \in Nat

FastTypeOK ==
  /\ UserTypeOK /\ BlockTypeOK
  /\ lz \in FastStates /\ dictLz \in FastStates

(* Where the search is in the block.                                       *)
InBlock ==
  /\ pc = "first" => ip = call.source /\ anchor = call.source /\ op = 0
  /\ pc \in {"first", "search", "literals", "nextMatch", "test", "last"} =>
       call.source <= anchor /\ anchor <= iend
  /\ pc = "search" => anchor <= ip /\ ip <= forward /\ call.source < forward
  /\ pc = "literals" => anchor <= ip /\ call.source < ip /\ ip < mflimitPlusOne
  /\ pc = "nextMatch" => anchor <= ip /\ ip < mflimitPlusOne
  /\ pc = "test" => anchor = ip /\ call.source + MINMATCH <= ip /\ ip < mflimitPlusOne

(* How much room there is for what is always written next: a distance, a   *)
(* token; when the output is to be filled, the token of the last literals. *)
RoomAhead ==
  call.limit # "notLimited" =>
    /\ op <= call.room
    /\ pc = "nextMatch" => op + 2 <= call.room /\ token + 1 <= call.room
    /\ pc = "test" => op + 3 <= call.room
    /\ pc \in {"first", "search", "literals", "last"} /\ call.limit = "fillOutput" =>
         op + 1 <= call.room

OutputInv == FastTypeOK /\ InBlock /\ RoomAhead /\ StaysInOutput
-----------------------------------------------------------------------------
(* The bytes of the program's memory, and their hashes.                    *)
LEMMA WithType ==
  ASSUME NEW m \in [1 .. TOP -> Values], NEW a \in Int, NEW k \in Nat, NEW bytes \in [1 .. k -> Values]
  PROVE  With(m, a, bytes) \in [1 .. TOP -> Values]
<1> DEFINE f(x) == IF x - a + 1 \in DOMAIN bytes THEN bytes[x - a + 1] ELSE m[x]
<1>1. \A x \in 1 .. TOP : f(x) \in Values
  OBVIOUS
<1>2. With(m, a, bytes) = [x \in 1 .. TOP |-> f(x)]
  BY DEF With
<1> HIDE DEF f
<1> QED
  BY <1>1, <1>2

LEMMA WordType ==
  ASSUME mem \in [1 .. TOP -> Values], NEW a \in Int, NEW k \in Int
  PROVE  Word(a, k) \in [1 .. k -> Values]
<1>1. \A x : Byte(x) \in Values
  BY DEF Byte, Values
<1> QED
  BY <1>1 DEF Word

LEMMA HashAtType ==
  ASSUME mem \in [1 .. TOP -> Values], NEW a \in Int, NEW t
  PROVE  HashAt(a, t) \in Hashes
<1> DEFINE k == IF t = "byU16" THEN MINMATCH ELSE MINMATCH + 1
<1>1. k \in {MINMATCH, MINMATCH + 1} /\ k \in Int
  BY Numbers
<1>2. HashAt(a, t) = Hash(Word(a, k))
  BY DEF HashAt
<1> HIDE DEF k
<1>3. Word(a, k) \in [1 .. k -> Values]
  BY <1>1, WordType
<1> QED
  BY <1>1, <1>2, <1>3, FastAssumption

LEMMA PutType ==
  ASSUME mem \in [1 .. TOP -> Values], NEW a \in Int, NEW t, NEW idx \in Nat,
         NEW table \in [Hashes -> Nat]
  PROVE  Put(table, a, t, idx) \in [Hashes -> Nat]
<1>1. Stored(idx, t) \in Nat
  BY WindowNumbers DEF Stored
<1> QED
  BY <1>1, HashAtType DEF Put

LEMMA WordsType ==
  ASSUME NEW w \in Words \cup Singles \cup {Dictionary}
  PROVE  Len(w) \in Nat /\ w \in [1 .. Len(w) -> Values]
<1>1. w \in Seq(U8)
  BY UserAssumption
<1>2. Len(w) \in Nat /\ DOMAIN w = 1 .. Len(w) /\ w \in [1 .. Len(w) -> U8]
  BY <1>1, LenProperties
<1>3. \A i \in 1 .. Len(w) : w[i] \in Values
  BY <1>2 DEF Values
<1> QED
  BY <1>2, <1>3

LEMMA CandidateType ==
  ASSUME FastTypeOK, NEW table \in [Hashes -> Nat], NEW a \in Int
  PROVE  Candidate(table, a) \in [index : Int, addr : Int, low : Int]
<1> DEFINE h == HashAt(a, call.tableType)
           own == table[h]
           other == dictLz.table[h]
           low == IF call.directive = "withPrefix64k" THEN call.source - call.dictSize
                  ELSE call.source
<1>1. h \in Hashes
  BY HashAtType DEF FastTypeOK, UserTypeOK
<1>2. own \in Int /\ other \in Int
  BY <1>1 DEF FastTypeOK, FastStates
<1>3. base \in Int /\ dictBase \in Int /\ dictDelta \in Int /\ low \in Int /\ call.dictionary \in Int
  BY DEF base, dictBase, dictDelta, dictEnd, FastTypeOK, BlockTypeOK, FastCalls, FastStates
<1>4. Candidate(table, a) \in
        { [index |-> other + dictDelta, addr |-> dictBase + other, low |-> call.dictionary],
          [index |-> own, addr |-> dictBase + own, low |-> call.dictionary],
          [index |-> own, addr |-> base + own, low |-> low] }
  BY DEF Candidate
<1> HIDE DEF h, own, other, low
<1> QED
  BY <1>2, <1>3, <1>4

-----------------------------------------------------------------------------
(* How much is written: for the rest of a length, for literals, which are  *)
(* copied in pieces, for the rest of a match, four bytes at a time.        *)
LEMMA RestIs ==
  ASSUME NEW k \in Nat
  PROVE  RestOf(k) = ExtensionSize(k)
<1> USE Numbers
<1>1. CASE k < MASK
  <2> DEFINE a == k + MAXBYTE - MASK
  <2>1. a \in Nat /\ a < (0 + 1) * MAXBYTE
    BY <1>1
  <2> HIDE DEF a
  <2>2. a \div MAXBYTE \in Nat /\ a \div MAXBYTE <= 0
    BY <2>1, QuotientAtMost, QuotientTimes
  <2>3. RestOf(k) = a \div MAXBYTE
    BY DEF RestOf, a
  <2> QED
    BY <1>1, <2>2, <2>3 DEF ExtensionSize
<1>2. CASE k >= MASK
  <2> DEFINE a == k - MASK
  <2>1. a \in Nat /\ k + MAXBYTE - MASK = a + MAXBYTE
    BY <1>2
  <2>2. RestOf(k) = (a + MAXBYTE) \div MAXBYTE
    BY <2>1 DEF RestOf
  <2>3. ExtensionSize(k) = (a \div MAXBYTE) + 1
    BY <1>2 DEF ExtensionSize
  <2> HIDE DEF a
  <2> QED
    BY <2>1, <2>2, <2>3, QuotientNext
<1> QED
  BY <1>1, <1>2

LEMMA MatchLengthReach ==
  ASSUME NEW o \in Nat, NEW code \in Nat
  PROVE  /\ MatchLengthEnd(o, code) \in Nat
         /\ MatchLengthEnd(o, code) <= o + ExtensionSize(code) + 3
<1> USE Numbers
<1>0. ExtensionSize(code) \in Nat
  BY ExtensionCost
<1>1. CASE code < MASK
  BY <1>0, <1>1 DEF MatchLengthEnd
<1>2. CASE code >= MASK
  <2> DEFINE a == code - MASK
             four == 4 * MAXBYTE
             d == a \div four
             q == a \div MAXBYTE
  <2>1. a \in Nat /\ four \in Nat \ {0}
    BY <1>2
  <2>2. ExtensionSize(code) = q + 1 /\ MatchLengthEnd(o, code) = o + 4 * (d + 1)
    BY <1>2 DEF ExtensionSize, MatchLengthEnd, WRITE
  <2> HIDE DEF a
  <2>3. d \in Nat /\ d * four <= a
    BY <2>1, QuotientTimes
  <2> HIDE DEF d
  <2>4. (4 * d) * MAXBYTE = d * four /\ 4 * d \in Nat
    BY <2>3
  <2>5. (4 * d) * MAXBYTE <= a
    BY <2>3, <2>4
  <2>6. 4 * d <= q /\ q \in Nat
    BY <2>1, <2>4, <2>5, QuotientAtLeast, QuotientTimes
  <2> QED
    BY <2>2, <2>3, <2>6
<1> QED
  BY <1>1, <1>2

(* What fillOutput makes of the last literals when there is too little room*)
(* for all of them.                                                        *)
LEMMA LastRun ==
  ASSUME NEW room \in Nat
  PROVE  LET run == room - ((room + MAXBYTE + 1 - MASK) \div (MAXBYTE + 1))
         IN  run \in Nat /\ run + ExtensionSize(run) <= room
<1> USE Numbers
<1> DEFINE m == MAXBYTE + 1
           a == room + m - MASK
           q == a \div m
           run == room - q
<1>1. m \in Nat \ {0} /\ a \in Nat
  OBVIOUS
<1>2. (room + 1) * m = room * m + m /\ room <= room * m
  <2>1. room * m = room * MAXBYTE + room /\ room * MAXBYTE \in Nat
    OBVIOUS
  <2> QED
    BY <2>1
<1>3. a < (room + 1) * m
  BY <1>2
<1>4. q \in Nat /\ q <= room /\ a \in Nat
  BY ONLY <1>1, <1>3, QuotientAtMost, QuotientTimes, room \in Nat
<1>5. a % m \in 0 .. m - 1 /\ q * m + (a % m) = a
  BY ONLY <1>1, QuotientRemainder
<1>6. q * m = q * MAXBYTE + q /\ q * MAXBYTE \in Nat
  BY <1>4
<1>7. a = room + m - MASK /\ room + MAXBYTE + 1 - MASK = a
  OBVIOUS
<1> HIDE DEF q, a
<1> DEFINE r == a % m
<1> HIDE DEF m
<1>8. r \in 0 .. m - 1 /\ q * m + r = a
  BY <1>5
<1> HIDE DEF r
<1>9. room - q \in Nat /\ room - q < MASK + q * MAXBYTE
  BY <1>1, <1>4, <1>6, <1>7, <1>8
<1>10. ExtensionSize(room - q) <= q /\ ExtensionSize(room - q) \in Nat
  BY <1>4, <1>9, ExtensionFits, ExtensionCost
<1> QED
  BY <1>4, <1>7, <1>9, <1>10 DEF q, m

-----------------------------------------------------------------------------
(* How far the search compares, and goes on.                               *)
LEMMA CountWithin ==
  ASSUME NEW a \in Int, NEW b, NEW limit \in Int
  PROVE  Count(a, b, limit) \in Nat /\ (Count(a, b, limit) = 0 \/ Count(a, b, limit) <= limit - a)
<1> DEFINE T == {0} \cup {k \in 1 .. limit - a : \A i \in 0 .. k - 1 : Same(a + i, b + i)}
           m == IF limit - a > 0 THEN limit - a ELSE 0
<1>1. Bounded(T, m) /\ m \in Int
  BY DEF Bounded
<1>2. \A y \in T : y = 0 \/ (y \in Nat /\ y <= limit - a)
  OBVIOUS
<1>3. Count(a, b, limit) = Max(T)
  BY DEF Count
<1> HIDE DEF T, m
<1>4. Max(T) \in T
  BY <1>1, Greatest
<1> QED
  BY <1>2, <1>3, <1>4

LEMMA BackWithin ==
  ASSUME NEW a \in Int, NEW b \in Int, anchor \in Int, cand.low \in Int, anchor <= a
  PROVE  Back(a, b) \in Nat /\ Back(a, b) <= a - anchor
<1> DEFINE most == Min({a - anchor, b - cand.low})
           T == {0} \cup {k \in 1 .. most : \A i \in 1 .. k : Same(a - i, b - i)}
<1>1. most \in Int /\ most <= a - anchor
  BY MinIs
<1>2. Back(a, b) = Max(T)
  BY DEF Back
<1> HIDE DEF most
<1>3. Bounded(T, a - anchor)
  BY <1>1 DEF Bounded
<1>4. \A y \in T : y \in Nat /\ y <= a - anchor
  BY <1>1
<1> HIDE DEF T
<1>5. Max(T) \in T
  BY <1>3, Greatest
<1> QED
  BY <1>2, <1>4, <1>5

LEMMA CodeWithin ==
  ASSUME BlockTypeOK, ip < mflimitPlusOne
  PROVE  MatchCode \in Nat /\ ip + MINMATCH + MatchCode <= matchlimit
<1> DEFINE limit == IF InDict(cand) THEN Min({ip + (dictEnd - cand.addr), matchlimit}) ELSE matchlimit
           first == Count(ip + MINMATCH, cand.addr + MINMATCH, limit)
           second == Count(limit, call.source, matchlimit)
<1>1. /\ ip \in Nat /\ call.source \in Nat /\ call.n \in Nat /\ cand.addr \in Int
      /\ dictEnd \in Int /\ matchlimit \in Int /\ iend \in Int
  BY Numbers DEF BlockTypeOK, FastCalls, dictEnd, matchlimit, iend
<1>2. ip + MINMATCH <= matchlimit
  BY <1>1, Numbers, Lz4Assumption DEF mflimitPlusOne, matchlimit
<1>3. limit \in Int /\ limit <= matchlimit
  BY <1>1, MinIs
<1>4. MatchCode = IF InDict(cand) /\ ip + MINMATCH + first = limit THEN first + second ELSE first
  BY DEF MatchCode
<1> HIDE DEF limit
<1>5. first \in Nat /\ (first = 0 \/ first <= limit - (ip + MINMATCH))
  BY <1>1, <1>3, Numbers, CountWithin
<1>6. second \in Nat /\ (second = 0 \/ second <= matchlimit - limit)
  BY <1>1, <1>3, CountWithin
<1> HIDE DEF first, second
<1> QED
  BY <1>1, <1>2, <1>3, <1>4, <1>5, <1>6, Numbers

LEMMA StepIs ==
  ASSUME tries \in Nat
  PROVE  step \in Nat \ {0}
<1>1. SKIP \in Nat \ {0}
  BY FastAssumption
<1>2. CASE tries = 0
  BY <1>2 DEF step
<1>3. CASE tries # 0
  <2> DEFINE a == SKIP + tries - 1
  <2>1. a \in Nat /\ 1 * SKIP <= a
    BY <1>1, <1>3
  <2>2. step = a \div SKIP
    BY <1>3 DEF step
  <2> HIDE DEF a
  <2>3. 1 <= a \div SKIP /\ a \div SKIP \in Nat
    BY <1>1, <2>1, QuotientAtLeast, QuotientTimes
  <2> QED
    BY <2>2, <2>3
<1> QED
  BY <1>2, <1>3
-----------------------------------------------------------------------------
(* The functions that prepare a stream.                                    *)
LEMMA RereadType ==
  ASSUME NEW table \in [Hashes -> Nat],
         NEW from \in {"cleared", "byU16", "byU32"}, NEW to \in {"byU16", "byU32"}
  PROVE  Reread(table, from, to) \in [Hashes -> Nat]
<1> USE WindowNumbers
<1>1. [h \in Hashes |-> table[h] + W * table[h]] \in [Hashes -> Nat]
  <2>1. \A a \in Nat : a + W * a \in Nat
    OBVIOUS
  <2> QED
    BY <2>1
<1>2. [h \in Hashes |-> table[h] % W] \in [Hashes -> Nat]
  OBVIOUS
<1>3. CASE from \in {"cleared", to}
  BY <1>3 DEF Reread
<1>4. CASE from = "byU16" /\ to = "byU32"
  BY <1>1, <1>4 DEF Reread
<1>5. CASE from = "byU32" /\ to = "byU16"
  BY <1>2, <1>5 DEF Reread
<1> QED
  BY <1>3, <1>4, <1>5

LEMMA InitStreamType == LZ4_initStream \in FastStates /\ ~LZ4_initStream.dictCtx
BY DEF LZ4_initStream, FastStates, NULL

LEMMA PrepareTableType ==
  ASSUME NEW s \in FastStates, NEW n, NEW t
  PROVE  LZ4_prepareTable(s, n, t) \in FastStates
<1> USE WindowNumbers
<1> DEFINE kept == IF MustReset(s, n, t) THEN LZ4_initStream
                   ELSE [s EXCEPT !.dictCtx = FALSE, !.dictionary = NULL, !.dictSize = 0]
           offset == kept.currentOffset + W
<1>1. kept \in FastStates
  BY InitStreamType DEF FastStates
<1>2. \/ LZ4_prepareTable(s, n, t) = kept
      \/ LZ4_prepareTable(s, n, t) = [kept EXCEPT !.currentOffset = @ + W]
  BY DEF LZ4_prepareTable
<1> HIDE DEF kept
<1>3. offset \in Nat
  BY <1>1 DEF FastStates
<1>4. [kept EXCEPT !.currentOffset = @ + W] = [kept EXCEPT !.currentOffset = offset]
  BY <1>1 DEF FastStates
<1> HIDE DEF offset
<1> QED
  BY <1>1, <1>2, <1>3, <1>4 DEF FastStates

LEMMA LoadedType ==
  ASSUME NEW n \in DictSizes, mem \in [1 .. TOP -> Values]
  PROVE  LZ4_loadDict(n) \in FastStates
<1> USE WindowNumbers
<1> DEFINE kept == IF n > W THEN W ELSE n
           end == DICT + n
           first == end - kept
           last == end - HASH_UNIT - first
           start == W - kept
           here(h) == {k \in 0 .. last : k % 3 = 0 /\ HashAt(first + k, "byU32") = h}
           table == Hashed(first, end, start)
<1>1. n \in Nat /\ kept \in Nat /\ kept <= W /\ kept <= n /\ DICT \in Nat
  <2>1. n \in Nat
    BY UserAssumption, LenProperties
  <2> QED
    BY <2>1, Places
<1>2. start \in Nat /\ first \in Nat /\ end \in Nat /\ last \in Int
  BY <1>1, StreamAssumption
<1>3. table = [h \in Hashes |-> IF here(h) = {} THEN 0 ELSE start + Max(here(h))]
  BY DEF Hashed
<1>4. LZ4_loadDict(n) =
        IF n < HASH_UNIT THEN [LZ4_initStream EXCEPT !.currentOffset = W]
        ELSE [table |-> table, currentOffset |-> W, tableType |-> "byU32",
              dictionary |-> first, dictSize |-> kept, dictCtx |-> FALSE]
  BY DEF LZ4_loadDict
<1> HIDE DEF start, last, first
<1>5. ASSUME NEW h \in Hashes, here(h) # {}
      PROVE  Max(here(h)) \in Nat
  <2>1. here(h) \subseteq Nat /\ Bounded(here(h), last)
    BY <1>2, <1>5 DEF Bounded
  <2> QED
    BY <1>2, <2>1, Greatest
<1> HIDE DEF table, here
<1>6. table \in [Hashes -> Nat]
  BY <1>2, <1>3, <1>5
<1>7. [LZ4_initStream EXCEPT !.currentOffset = W] \in FastStates
  BY InitStreamType DEF FastStates
<1> HIDE DEF kept, end
<1>8. [table |-> table, currentOffset |-> W, tableType |-> "byU32",
       dictionary |-> first, dictSize |-> kept, dictCtx |-> FALSE] \in FastStates
  BY <1>1, <1>2, <1>6 DEF FastStates
<1> QED
  BY <1>4, <1>7, <1>8

LEMMA RenormType ==
  ASSUME NEW s \in FastStates, NEW n \in Nat
  PROVE  /\ LZ4_renormDictT(s, n) \in FastStates
         /\ LZ4_renormDictT(s, n).dictionary + LZ4_renormDictT(s, n).dictSize
              = s.dictionary + s.dictSize
<1> USE WindowNumbers
<1> DEFINE delta == s.currentOffset - W
           kept == IF s.dictSize > W THEN W ELSE s.dictSize
           from == s.dictionary + s.dictSize - kept
           table == [h \in Hashes |-> IF s.table[h] < delta THEN 0 ELSE s.table[h] - delta]
           r == [s EXCEPT !.table = table, !.currentOffset = W, !.dictSize = kept, !.dictionary = from]
<1>1. delta \in Int /\ kept \in Nat /\ kept <= s.dictSize /\ from \in Nat
      /\ from + kept = s.dictionary + s.dictSize
  BY DEF FastStates
<1>2. \A h \in Hashes : s.table[h] \in Nat
  BY DEF FastStates
<1>3. LZ4_renormDictT(s, n) = s \/ LZ4_renormDictT(s, n) = r
  BY DEF LZ4_renormDictT
<1> HIDE DEF delta, kept, from
<1>4. table \in [Hashes -> Nat]
  BY <1>1, <1>2
<1> HIDE DEF table
<1>5. r \in FastStates /\ r.dictionary = from /\ r.dictSize = kept
  BY <1>1, <1>4 DEF FastStates
<1> HIDE DEF r
<1> QED
  BY <1>1, <1>3, <1>5 DEF FastStates

LEMMA OverlapType ==
  ASSUME NEW s \in FastStates, NEW source \in Nat, NEW n \in Nat, NEW end \in Nat,
         end = s.dictionary + s.dictSize \/ end = NULL \/ end = source
  PROVE  WithoutOverlap(s, end, source, n) \in FastStates
<1> USE WindowNumbers
<1> DEFINE left == Min({end - (source + n), W})
           kept == IF left < 4 THEN 0 ELSE left
           from == end - kept
           r == [s EXCEPT !.dictSize = kept, !.dictionary = from]
<1>1. WithoutOverlap(s, end, source, n) =
        IF source + n > s.dictionary /\ source + n < end THEN r ELSE s
  BY DEF WithoutOverlap
<1>2. left \in Int /\ left <= end - (source + n)
  BY MinIs
<1> HIDE DEF left
<1>3. ASSUME source + n > s.dictionary /\ source + n < end
      PROVE  kept \in Nat /\ from \in Nat
  BY <1>2, <1>3 DEF FastStates
<1> HIDE DEF kept, from
<1>4. ASSUME kept \in Nat /\ from \in Nat
      PROVE  r \in FastStates
  BY <1>4 DEF FastStates
<1> QED
  BY <1>1, <1>3, <1>4

(* What the call keeps of the state, and where it begins.                  *)
BlockBegins ==
  /\ lz' \in FastStates /\ dictLz' \in FastStates
  /\ BlockTypeOK' /\ InBlock' /\ RoomAhead' /\ StaysInOutput'

LEMMA GenericBegins ==
  ASSUME BlockTypeOK, dictLz \in FastStates, NEW s \in FastStates,
         NEW source \in Nat, NEW n \in Nat, NEW room \in Nat,
         NEW limit \in {"notLimited", "limitedOutput", "fillOutput"},
         NEW tableType \in {"byU16", "byU32"},
         NEW directive \in {"noDict", "withPrefix64k", "usingExtDict", "usingDictCtx"},
         NEW issue \in {"noDictIssue", "dictSmall"},
         LZ4_compress_generic(s, source, n, room, limit, tableType, directive, issue)
  PROVE  BlockBegins
<1> USE WindowNumbers, Numbers
<1> DEFINE d == IF directive = "usingDictCtx" THEN dictLz ELSE s
           refused == n > MAX_INPUT_SIZE \/ n = 0 \/ (limit = "fillOutput" /\ room < 1)
           first == EmptyBlock(room, limit)
           c == [source |-> source, n |-> n, room |-> room, limit |-> limit,
                 tableType |-> tableType, directive |-> directive, issue |-> issue,
                 startIndex |-> s.currentOffset,
                 dictionary |-> d.dictionary, dictSize |-> d.dictSize]
           offset == s.currentOffset + n
           size == IF directive = "usingDictCtx" THEN n ELSE s.dictSize + n
           table == Reread(s.table, s.tableType, tableType)
           ctx == s.dictCtx /\ directive # "usingDictCtx"
           t == [s EXCEPT !.dictCtx = ctx, !.dictSize = size,
                          !.currentOffset = offset, !.tableType = tableType, !.table = table]
<1>1. call' = c /\ dictLz' = dictLz /\ UNCHANGED <<forward, tries, cand, filled, token>>
  BY DEF LZ4_compress_generic
<1>2. lz' = s \/ lz' = t
  BY DEF LZ4_compress_generic, FastStates
<1>3. /\ ip' = source /\ anchor' = source /\ op' = 0
      /\ reach' = (IF n = 0 THEN first ELSE 0)
  BY DEF LZ4_compress_generic
<1>4. \/ refused /\ pc' = "returned"
      \/ ~refused /\ n < LZ4_minLength /\ pc' = "last"
      \/ ~refused /\ ~(n < LZ4_minLength) /\ pc' = "first"
  BY DEF LZ4_compress_generic
<1>5. d \in FastStates
  OBVIOUS
<1> HIDE DEF d
<1>6. c \in FastCalls
  BY <1>5 DEF FastCalls, FastStates
<1>7. c.source = source /\ c.n = n /\ c.room = room /\ c.limit = limit
  OBVIOUS
<1>8. first \in Nat /\ (limit # "notLimited" => first <= room)
  BY DEF EmptyBlock
<1> HIDE DEF c, first
<1>9. offset \in Nat /\ size \in Nat /\ table \in [Hashes -> Nat]
  BY RereadType DEF FastStates
<1>10. ctx \in BOOLEAN
  OBVIOUS
<1> HIDE DEF offset, size, table, ctx
<1>11. t \in FastStates
  BY <1>9, <1>10 DEF FastStates
<1> HIDE DEF t
<1>12. BlockTypeOK'
  BY <1>1, <1>3, <1>4, <1>6, <1>8 DEF BlockTypeOK
<1>13. InBlock'
  BY <1>1, <1>3, <1>4, <1>7 DEF InBlock, iend
<1>14. RoomAhead'
  BY <1>1, <1>3, <1>4, <1>7 DEF RoomAhead
<1>15. StaysInOutput'
  BY <1>1, <1>3, <1>7, <1>8 DEF StaysInOutput
<1> QED
  BY <1>1, <1>2, <1>11, <1>12, <1>13, <1>14, <1>15 DEF BlockBegins

LEMMA ContinueBegins ==
  ASSUME FastTypeOK, NEW source \in Nat \ {0}, NEW n \in Nat, NEW room \in Nat,
         LZ4_compress_fast_continue(source, n, room)
  PROVE  BlockBegins
<1> USE WindowNumbers
<1> DEFINE end    == IF lz.dictSize > 0 THEN lz.dictionary + lz.dictSize ELSE NULL
           renorm == LZ4_renormDictT(lz, n)
           tiny   == Tiny(renorm, end, source, n)
           end2   == IF tiny THEN source ELSE end
           begun  == IF tiny THEN [renorm EXCEPT !.dictSize = 0, !.dictionary = source] ELSE renorm
           s      == WithoutOverlap(begun, end2, source, n)
           Compress(st, directive, issue) ==
             LZ4_compress_generic(st, source, n, room, "limitedOutput", "byU32", directive, issue)
<1>1. \/ Compress(s, "withPrefix64k", Issue(s))
      \/ Compress(dictLz, "usingExtDict", "noDictIssue")
      \/ Compress(s, "usingDictCtx", "noDictIssue")
      \/ Compress(s, "usingExtDict", Issue(s))
  BY DEF LZ4_compress_fast_continue
<1>2. lz \in FastStates /\ dictLz \in FastStates /\ BlockTypeOK
  BY DEF FastTypeOK
<1>3. /\ end \in Nat /\ renorm \in FastStates
      /\ end = NULL \/ end = renorm.dictionary + renorm.dictSize
  <2>1. /\ renorm \in FastStates
        /\ renorm.dictionary + renorm.dictSize = lz.dictionary + lz.dictSize
    BY <1>2, RenormType
  <2> HIDE DEF renorm
  <2> QED
    BY <1>2, <2>1 DEF FastStates
<1> HIDE DEF end, renorm, tiny
<1>4. begun \in FastStates
  BY <1>3 DEF FastStates
<1>5. /\ end2 \in Nat
      /\ end2 = begun.dictionary + begun.dictSize \/ end2 = NULL \/ end2 = source
  BY <1>3
<1> HIDE DEF begun, end2
<1>6. s \in FastStates
  BY <1>4, <1>5, OverlapType
<1> HIDE DEF s
<1>7. Issue(s) \in {"noDictIssue", "dictSmall"}
  BY DEF Issue
<1> QED
  BY <1>1, <1>2, <1>6, <1>7, GenericBegins

-----------------------------------------------------------------------------
(* The steps of a block.                                                   *)
LEMMA NewTableType ==
  ASSUME FastTypeOK, NEW table \in [Hashes -> Nat]
  PROVE  [lz EXCEPT !.table = table] \in FastStates
BY DEF FastTypeOK, FastStates

LEMMA IndexType ==
  ASSUME BlockTypeOK, NEW a \in Nat, call.source <= a
  PROVE  Index(a) \in Nat
BY DEF BlockTypeOK, FastCalls, Index, base

LEMMA StoredType ==
  ASSUME FastTypeOK, NEW a \in Int, NEW idx \in Nat
  PROVE  [lz EXCEPT !.table = Put(@, a, call.tableType, idx)] \in FastStates
<1> DEFINE table == Put(lz.table, a, call.tableType, idx)
<1>1. lz \in FastStates /\ lz.table \in [Hashes -> Nat] /\ mem \in [1 .. TOP -> Values]
  BY DEF FastTypeOK, FastStates, UserTypeOK
<1>2. table \in [Hashes -> Nat]
  BY <1>1, PutType
<1>3. [lz EXCEPT !.table = Put(@, a, call.tableType, idx)] = [lz EXCEPT !.table = table]
  BY <1>1 DEF FastStates
<1> HIDE DEF table
<1> QED
  BY <1>2, <1>3, NewTableType

LEMMA MatchType ==
  ASSUME FastTypeOK, NEW table \in [Hashes -> Nat], NEW a \in Int
  PROVE  MatchOf(Candidate(table, a), a) \in [addr : Int, low : Int, offset : Int]
<1> DEFINE c == Candidate(table, a)
<1>1. c \in [index : Int, addr : Int, low : Int]
  BY CandidateType
<1>2. Index(a) \in Int
  BY DEF FastTypeOK, BlockTypeOK, FastCalls, Index, base
<1> HIDE DEF c
<1> QED
  BY <1>1, <1>2 DEF MatchOf, c

LEMMA FirstByteKeeps ==
  ASSUME OutputInv, FirstByte
  PROVE  BlockBegins
<1>1. /\ FastTypeOK /\ InBlock /\ RoomAhead /\ StaysInOutput /\ BlockTypeOK
      /\ call.startIndex \in Nat /\ call.source \in Nat /\ ip \in Nat /\ dictLz \in FastStates
  BY DEF OutputInv, FastTypeOK, BlockTypeOK, FastCalls
<1>2. ip = call.source /\ anchor = call.source /\ op = 0 /\ anchor <= iend
  BY <1>1 DEF FirstByte, InBlock
<1>3. lz' = [lz EXCEPT !.table = Put(@, ip, call.tableType, call.startIndex)]
  BY DEF FirstByte
<1>4. lz' \in FastStates
  BY <1>1, <1>3, StoredType
<1>5. /\ pc = "first" /\ pc' = "search" /\ ip' = ip + 1 /\ forward' = ip + 1 /\ tries' = 0
      /\ UNCHANGED <<cand, filled, anchor, token, op, reach, call, dictLz>>
  BY DEF FirstByte, Kept
<1>6. BlockTypeOK'
  BY <1>1, <1>5 DEF BlockTypeOK
<1>7. InBlock'
  BY <1>1, <1>2, <1>5 DEF InBlock, iend
<1>8. RoomAhead' /\ StaysInOutput'
  BY <1>1, <1>5 DEF RoomAhead, StaysInOutput
<1> QED
  BY <1>1, <1>4, <1>5, <1>6, <1>7, <1>8 DEF BlockBegins

LEMMA SearchKeeps ==
  ASSUME OutputInv, Search
  PROVE  BlockBegins
<1>1. /\ FastTypeOK /\ InBlock /\ RoomAhead /\ StaysInOutput /\ BlockTypeOK
      /\ call.source \in Nat /\ ip \in Nat /\ forward \in Nat /\ tries \in Nat
      /\ dictLz \in FastStates /\ lz \in FastStates /\ lz.table \in [Hashes -> Nat]
      /\ anchor \in Nat /\ op \in Nat
  BY DEF OutputInv, FastTypeOK, BlockTypeOK, FastCalls, FastStates
<1>2. /\ call.source <= anchor /\ anchor <= iend
      /\ anchor <= ip /\ ip <= forward /\ call.source < forward
  BY <1>1 DEF Search, InBlock
<1>3. step \in Nat \ {0} /\ mflimitPlusOne \in Int
  <2>1. step \in Nat \ {0}
    BY <1>1, StepIs
  <2>2. mflimitPlusOne \in Int
    BY <1>1, Numbers DEF mflimitPlusOne, iend, BlockTypeOK, FastCalls
  <2> QED
    BY <2>1, <2>2
<1>4. pc = "search" /\ UNCHANGED <<filled, anchor, token, op, reach, call, dictLz>>
  BY DEF Search, Kept
<1>5. CASE forward + step > mflimitPlusOne
  <2>1. pc' = "last" /\ UNCHANGED <<lz, ip, forward, tries, cand>>
    BY <1>5 DEF Search
  <2>2. BlockTypeOK'
    BY <1>1, <1>4, <2>1 DEF BlockTypeOK
  <2>3. InBlock'
    BY <1>2, <1>4, <2>1 DEF InBlock, iend
  <2>4. RoomAhead' /\ StaysInOutput'
    BY <1>1, <1>4, <2>1 DEF RoomAhead, StaysInOutput
  <2> QED
    BY <1>1, <1>4, <2>1, <2>2, <2>3, <2>4 DEF BlockBegins
<1>6. CASE ~(forward + step > mflimitPlusOne)
  <2> DEFINE c == Candidate(lz.table, forward)
  <2>1. /\ lz' = [lz EXCEPT !.table = Put(@, forward, call.tableType, Index(forward))]
        /\ ip' = forward /\ forward' = forward + step /\ tries' = tries + 1
        /\ \/ pc' = "literals" /\ cand' = MatchOf(c, forward)
           \/ pc' = "search" /\ cand' = cand
    BY <1>6 DEF Search
  <2>2. Index(forward) \in Nat
    BY <1>1, <1>2, IndexType
  <2>3. lz' \in FastStates
    BY <1>1, <2>1, <2>2, StoredType
  <2>4. cand' \in [addr : Int, low : Int, offset : Int]
    BY <1>1, <2>1, MatchType DEF BlockTypeOK
  <2> HIDE DEF c
  <2>5. BlockTypeOK'
    BY <1>1, <1>3, <1>4, <2>1, <2>4 DEF BlockTypeOK
  <2>6. InBlock'
    BY <1>1, <1>2, <1>3, <1>4, <1>6, <2>1 DEF InBlock, iend, mflimitPlusOne
  <2>7. RoomAhead' /\ StaysInOutput'
    BY <1>1, <1>4, <2>1 DEF RoomAhead, StaysInOutput
  <2> QED
    BY <1>1, <1>4, <2>3, <2>5, <2>6, <2>7 DEF BlockBegins
<1> QED
  BY <1>5, <1>6

(* The room that literals take, with the eight bytes of their last piece.  *)
LEMMA LiteralsRoom ==
  ASSUME NEW o \in Nat, NEW lit \in Nat, NEW room \in Nat, NEW kind \in {"limitedOutput", "fillOutput"},
         kind = "limitedOutput" => o + 1 + lit + (2 + 1 + LASTLITERALS) + lit \div MAXBYTE <= room,
         kind = "fillOutput" => o + 1 + RestOf(lit) + lit + MATCH_ROOM <= room
  PROVE  LET next == o + 1 + ExtensionSize(lit) + lit
         IN  /\ next + 2 <= room /\ o + 1 <= room
             /\ WildCopyEnd(next - lit, lit) <= room
<1> USE Numbers, Lz4Assumption
<1> DEFINE e == ExtensionSize(lit)
           q == lit \div MAXBYTE
           from == o + 1 + e
           w == WildCopyEnd(from, lit)
<1>1. e \in Nat /\ e <= q + 1 /\ q \in Nat /\ RestOf(lit) = e /\ (lit < MASK => e = 0)
  BY ExtensionCost, RestIs, QuotientTimes
<1>2. from \in Nat
  BY <1>1
<1>3. w <= from + lit + WILDCOPYLENGTH /\ (lit > 0 => w <= from + lit + WILDCOPYLENGTH - 1) /\ w \in Nat
  BY <1>2, WildCopyReach
<1>4. MATCH_ROOM \in Int /\ MATCH_ROOM >= WILDCOPYLENGTH
  BY DEF MATCH_ROOM
<1>5. o + 1 + e + lit - lit = from
  BY <1>1
<1> HIDE DEF w, q
<1>6. CASE kind = "limitedOutput"
  <2>1. o + 1 + lit + (2 + 1 + LASTLITERALS) + q <= room
    BY <1>6 DEF q
  <2> HIDE DEF e
  <2>2. lit = 0 => w <= room
    BY <1>1, <1>3, <2>1
  <2>3. lit > 0 => w <= room
    BY <1>1, <1>3, <2>1
  <2>4. w <= room
    BY <2>2, <2>3
  <2> QED
    BY <1>1, <1>5, <2>1, <2>4 DEF e, w
<1>7. CASE kind = "fillOutput"
  <2>1. o + 1 + e + lit + MATCH_ROOM <= room
    BY <1>1, <1>7
  <2> HIDE DEF e
  <2>2. w <= room
    BY <1>1, <1>3, <1>4, <2>1
  <2> QED
    BY <1>1, <1>4, <1>5, <2>1, <2>2 DEF e, w
<1> QED
  BY <1>6, <1>7

LEMMA MaxOfIs ==
  ASSUME reach \in Nat, NEW k \in Nat
  PROVE  MaxOf(k) \in Nat /\ (MaxOf(k) = k \/ MaxOf(k) = reach)
BY DEF MaxOf

LEMMA LiteralsKeeps ==
  ASSUME OutputInv, Literals
  PROVE  BlockBegins
<1> USE Numbers
<1> DEFINE k   == Back(ip, cand.addr)
           lit == ip - k - anchor
           tooSmall == call.limit = "limitedOutput"
                         /\ op + 1 + lit + (2 + 1 + LASTLITERALS) + lit \div MAXBYTE > call.room
           full == call.limit = "fillOutput" /\ op + 1 + RestOf(lit) + lit + MATCH_ROOM > call.room
           next == op + 1 + ExtensionSize(lit) + lit
           wild == WildCopyEnd(next - lit, lit)
<1>1. /\ FastTypeOK /\ InBlock /\ RoomAhead /\ StaysInOutput /\ BlockTypeOK
      /\ call.source \in Nat /\ call.n \in Nat /\ call.room \in Nat /\ ip \in Nat
      /\ cand \in [addr : Int, low : Int, offset : Int] /\ reach \in Nat
      /\ call.limit \in {"notLimited", "limitedOutput", "fillOutput"}
      /\ dictLz \in FastStates /\ lz \in FastStates /\ anchor \in Nat /\ op \in Nat
  BY DEF OutputInv, FastTypeOK, BlockTypeOK, FastCalls
<1>2. /\ call.source <= anchor /\ anchor <= iend /\ anchor <= ip /\ ip < mflimitPlusOne
  BY <1>1 DEF Literals, InBlock
<1>3. pc = "literals" /\ filled' = ip
      /\ UNCHANGED <<lz, forward, tries, anchor, call, dictLz>>
  BY DEF Literals, Kept
<1>4. \/ tooSmall /\ Return(0) /\ UNCHANGED <<ip, cand, token, op, reach>>
      \/ full /\ pc' = "last" /\ UNCHANGED <<ip, cand, token, op, reach, result>>
      \/ /\ ~tooSmall /\ ~full
         /\ ip' = ip - k
         /\ cand' = [cand EXCEPT !.addr = @ - k]
         /\ token' = op
         /\ op' = next
         /\ reach' = MaxOf(wild)
         /\ pc' = "nextMatch"
  BY DEF Literals
<1>5. k \in Nat /\ k <= ip - anchor
  BY <1>1, <1>2, BackWithin
<1> HIDE DEF k
<1>6. lit \in Nat /\ ip - k \in Nat /\ anchor <= ip - k
  BY <1>1, <1>2, <1>5
<1>7. CASE tooSmall /\ Return(0) /\ UNCHANGED <<ip, cand, token, op, reach>>
  <2> HIDE DEF tooSmall, full
  <2>1. BlockTypeOK'
    BY <1>1, <1>3, <1>7 DEF BlockTypeOK, Return
  <2>2. InBlock' /\ RoomAhead' /\ StaysInOutput'
    BY <1>1, <1>2, <1>3, <1>7 DEF InBlock, iend, Return, RoomAhead, StaysInOutput
  <2> QED
    BY <1>1, <1>3, <2>1, <2>2 DEF BlockBegins
<1>8. CASE full /\ pc' = "last" /\ UNCHANGED <<ip, cand, token, op, reach, result>>
  <2> HIDE DEF tooSmall, full
  <2>1. BlockTypeOK'
    BY <1>1, <1>3, <1>8 DEF BlockTypeOK
  <2>2. InBlock' /\ RoomAhead' /\ StaysInOutput'
    BY <1>1, <1>2, <1>3, <1>8 DEF InBlock, iend, RoomAhead, StaysInOutput
  <2> QED
    BY <1>1, <1>3, <2>1, <2>2 DEF BlockBegins
<1>9. CASE /\ ~tooSmall /\ ~full
           /\ ip' = ip - k
           /\ cand' = [cand EXCEPT !.addr = @ - k]
           /\ token' = op
           /\ op' = next
           /\ reach' = MaxOf(wild)
           /\ pc' = "nextMatch"
  <2>1. call.limit = "limitedOutput" =>
          op + 1 + lit + (2 + 1 + LASTLITERALS) + lit \div MAXBYTE <= call.room
    BY <1>1, <1>6, <1>9, QuotientTimes
  <2>2. call.limit = "fillOutput" => op + 1 + RestOf(lit) + lit + MATCH_ROOM <= call.room
    <3>1. RestOf(lit) \in Nat /\ MATCH_ROOM \in Int
      BY <1>6, RestIs, ExtensionCost DEF MATCH_ROOM
    <3> QED
      BY <1>1, <1>6, <1>9, <3>1
  <2>3. ExtensionSize(lit) \in Nat
    BY <1>6, ExtensionCost
  <2> HIDE DEF lit
  <2>4. call.limit # "notLimited" =>
          next + 2 <= call.room /\ op + 1 <= call.room /\ wild <= call.room
    BY <1>1, <1>6, <2>1, <2>2, LiteralsRoom
  <2>5. next \in Nat /\ next - lit \in Nat
    BY <1>1, <1>6, <2>3
  <2> HIDE DEF next
  <2>6. wild \in Nat
    BY <1>6, <2>5, WildCopyReach
  <2> HIDE DEF wild, tooSmall, full
  <2>7. reach' \in Nat /\ (reach' = wild \/ reach' = reach)
    BY <1>1, <1>9, <2>6, MaxOfIs
  <2>8. cand' \in [addr : Int, low : Int, offset : Int]
    BY <1>1, <1>5, <1>9
  <2>9. BlockTypeOK'
    BY <1>1, <1>3, <1>6, <1>9, <2>5, <2>7, <2>8 DEF BlockTypeOK
  <2>10. InBlock'
    <3>1. mflimitPlusOne' = mflimitPlusOne /\ iend' = iend /\ mflimitPlusOne \in Int
      BY <1>1, <1>3 DEF mflimitPlusOne, iend
    <3> QED
      BY <1>1, <1>2, <1>3, <1>5, <1>6, <1>9, <3>1 DEF InBlock
  <2>11. RoomAhead' /\ StaysInOutput'
    BY <1>1, <1>3, <1>9, <2>4, <2>5, <2>6, <2>7 DEF RoomAhead, StaysInOutput
  <2> QED
    BY <1>1, <1>3, <2>9, <2>10, <2>11 DEF BlockBegins
<1> QED
  BY <1>4, <1>7, <1>8, <1>9

(* The room that a match takes, with what is always written behind it; one *)
(* that is made shorter takes all the room there is.                       *)
LEMMA MatchRoom ==
  ASSUME NEW next \in Nat, NEW code \in Nat, NEW room \in Nat,
         next + (1 + LASTLITERALS) + RestOf(code) <= room
  PROVE  /\ next + ExtensionSize(code) + 3 <= room
         /\ MatchLengthEnd(next, code) \in Nat /\ MatchLengthEnd(next, code) <= room
<1>1. RestOf(code) = ExtensionSize(code) /\ ExtensionSize(code) \in Nat
  BY RestIs, ExtensionCost
<1>2. MatchLengthEnd(next, code) \in Nat /\ MatchLengthEnd(next, code) <= next + ExtensionSize(code) + 3
  BY MatchLengthReach
<1>3. LASTLITERALS \in Nat /\ LASTLITERALS >= 2
  BY FastAssumption, Numbers
<1> DEFINE e == ExtensionSize(code)
           m == MatchLengthEnd(next, code)
<1> HIDE DEF e, m
<1>4. next + (1 + LASTLITERALS) + e <= room /\ e \in Nat /\ m \in Nat /\ m <= next + e + 3
  BY <1>1, <1>2 DEF e, m
<1>5. next + e + 3 <= room /\ m <= room
  BY <1>3, <1>4
<1> QED
  BY <1>4, <1>5 DEF e, m

LEMMA ReducedRoom ==
  ASSUME call.room \in Nat, NEW next \in Nat, NEW code \in Nat, next - 2 + MATCH_ROOM <= call.room,
         next + (1 + LASTLITERALS) + RestOf(code) > call.room
  PROVE  /\ Reduced(next) \in Nat /\ Reduced(next) <= code
         /\ next + (1 + LASTLITERALS) + RestOf(Reduced(next)) <= call.room
<1> USE Numbers, Lz4Assumption
<1> DEFINE room == call.room
           k == room - next - 1 - LASTLITERALS
           e == RestOf(code)
           r == Reduced(next)
<1>1. k \in Nat
  BY DEF MATCH_ROOM
<1>2. e = ExtensionSize(code) /\ e \in Nat
  BY RestIs, ExtensionCost
<1>3. k < e /\ r = MASK - 1 + k * MAXBYTE
  BY <1>2 DEF Reduced
<1> HIDE DEF r, e
<1>4. k * MAXBYTE \in Nat
  BY <1>1
<1>5. next + (1 + LASTLITERALS) + k = room
  BY <1>1
<1> HIDE DEF k
<1>6. r \in Nat /\ r < MASK + k * MAXBYTE
  BY <1>3, <1>4
<1>7. ~(code < MASK + k * MAXBYTE)
  <2>1. code < MASK + k * MAXBYTE => ExtensionSize(code) <= k
    BY <1>1, ExtensionFits
  <2> QED
    BY <1>1, <1>2, <1>3, <2>1
<1>8. RestOf(r) <= k /\ RestOf(r) \in Nat
  <2>1. RestOf(r) = ExtensionSize(r) /\ ExtensionSize(r) \in Nat
    BY <1>6, RestIs, ExtensionCost
  <2>2. ExtensionSize(r) <= k
    BY <1>1, <1>6, ExtensionFits
  <2> QED
    BY <2>1, <2>2
<1>9. r <= code
  BY <1>4, <1>6, <1>7
<1> DEFINE x == RestOf(r)
<1> HIDE DEF x
<1>10. next + (1 + LASTLITERALS) + x <= room
  <2>1. x <= k /\ x \in Nat
    BY <1>8 DEF x
  <2> QED
    BY <1>1, <1>5, <2>1
<1> QED
  BY <1>6, <1>9, <1>10 DEF r, x

LEMMA ClearedType ==
  ASSUME NEW table \in [Hashes -> Nat], NEW from
  PROVE  Cleared(table, from) \in [Hashes -> Nat]
BY DEF Cleared

LEMMA NextMatchKeeps ==
  ASSUME OutputInv, NextMatch
  PROVE  BlockBegins
<1> USE Numbers
<1> DEFINE next   == op + 2
           code   == MatchCode
           long   == call.limit # "notLimited" /\ next + (1 + LASTLITERALS) + RestOf(code) > call.room
           full   == call.limit = "fillOutput" /\ op + MATCH_ROOM > call.room
           made   == IF long THEN Reduced(next) ELSE code
           len    == MINMATCH + made
<1>1. /\ FastTypeOK /\ InBlock /\ RoomAhead /\ StaysInOutput /\ BlockTypeOK
      /\ call.source \in Nat /\ call.n \in Nat /\ call.room \in Nat /\ ip \in Nat
      /\ reach \in Nat /\ token \in Nat
      /\ call.limit \in {"notLimited", "limitedOutput", "fillOutput"}
      /\ dictLz \in FastStates /\ lz \in FastStates /\ lz.table \in [Hashes -> Nat]
      /\ anchor \in Nat /\ op \in Nat
  BY DEF OutputInv, FastTypeOK, BlockTypeOK, FastCalls, FastStates
<1>2. /\ call.source <= anchor /\ anchor <= iend /\ anchor <= ip /\ ip < mflimitPlusOne
  BY <1>1 DEF NextMatch, InBlock
<1>3. pc = "nextMatch" /\ UNCHANGED <<forward, tries, cand, filled, token, call, dictLz>>
  BY DEF NextMatch, Kept
<1>4. call.limit # "notLimited" => op + 2 <= call.room /\ token + 1 <= call.room
  BY <1>1, <1>3 DEF RoomAhead
<1>5. \/ full /\ op' = token /\ pc' = "last" /\ UNCHANGED <<lz, ip, anchor, reach>>
      \/ ~full /\ long /\ pc' = "returned" /\ reach' = MaxOf(next) /\ UNCHANGED <<lz, ip, anchor, op>>
      \/ /\ ~full /\ (long => call.limit = "fillOutput")
         /\ ip' = ip + len /\ anchor' = ip + len
         /\ lz' = lz \/ lz' = [lz EXCEPT !.table = Cleared(@, ip')]
         /\ op' = next + ExtensionSize(len - MINMATCH)
         /\ reach' = MaxOf(MatchLengthEnd(next, len - MINMATCH))
         /\ pc' = IF ip' >= mflimitPlusOne THEN "last" ELSE "test"
  BY DEF NextMatch, Return
<1>6. code \in Nat /\ ip + MINMATCH + code <= matchlimit
  BY <1>1, <1>2, CodeWithin
<1>7. matchlimit = iend - LASTLITERALS /\ iend = call.source + call.n /\ mflimitPlusOne = iend - MFLIMIT + 1
  BY DEF matchlimit, iend, mflimitPlusOne
<1>8. RestOf(code) \in Nat /\ MATCH_ROOM \in Int
  BY <1>6, RestIs, ExtensionCost DEF MATCH_ROOM
<1> HIDE DEF code
<1>9. CASE full /\ op' = token /\ pc' = "last" /\ UNCHANGED <<lz, ip, anchor, reach>>
  <2>1. BlockTypeOK'
    BY <1>1, <1>3, <1>9 DEF BlockTypeOK
  <2>2. InBlock' /\ RoomAhead' /\ StaysInOutput'
    BY <1>1, <1>2, <1>3, <1>4, <1>9 DEF InBlock, iend, RoomAhead, StaysInOutput
  <2> QED
    BY <1>1, <1>3, <1>9, <2>1, <2>2 DEF BlockBegins
<1>10. CASE ~full /\ long /\ pc' = "returned" /\ reach' = MaxOf(next) /\ UNCHANGED <<lz, ip, anchor, op>>
  <2>1. reach' \in Nat /\ (reach' = next \/ reach' = reach)
    BY <1>1, <1>10, MaxOfIs
  <2> HIDE DEF full, long
  <2>2. BlockTypeOK'
    BY <1>1, <1>3, <1>10, <2>1 DEF BlockTypeOK
  <2>3. InBlock' /\ RoomAhead' /\ StaysInOutput'
    BY <1>1, <1>2, <1>3, <1>4, <1>10, <2>1 DEF InBlock, RoomAhead, StaysInOutput
  <2> QED
    BY <1>1, <1>3, <1>10, <2>2, <2>3 DEF BlockBegins
<1>11. CASE /\ ~full /\ (long => call.limit = "fillOutput")
            /\ ip' = ip + len /\ anchor' = ip + len
            /\ lz' = lz \/ lz' = [lz EXCEPT !.table = Cleared(@, ip')]
            /\ op' = next + ExtensionSize(len - MINMATCH)
            /\ reach' = MaxOf(MatchLengthEnd(next, len - MINMATCH))
            /\ pc' = IF ip' >= mflimitPlusOne THEN "last" ELSE "test"
  <2>1. /\ made \in Nat /\ made <= code
        /\ call.limit # "notLimited" => next + (1 + LASTLITERALS) + RestOf(made) <= call.room
    <3>1. CASE long
      <4>1. next - 2 + MATCH_ROOM <= call.room
        BY <1>1, <1>8, <1>11, <3>1
      <4> QED
        BY <1>1, <1>6, <3>1, <4>1, ReducedRoom
    <3>2. CASE ~long
      BY <1>1, <1>6, <1>8, <3>2
    <3> QED
      BY <3>1, <3>2
  <2> HIDE DEF made, long, full
  <2>2. len \in Nat /\ len >= MINMATCH /\ len - MINMATCH = made /\ ip + len <= matchlimit
    BY <1>1, <1>6, <1>7, <2>1
  <2>3. call.limit # "notLimited" =>
          next + ExtensionSize(made) + 3 <= call.room /\ MatchLengthEnd(next, made) <= call.room
    BY <1>1, <2>1, MatchRoom
  <2>4. MatchLengthEnd(next, made) \in Nat /\ ExtensionSize(made) \in Nat
    <3>1. next \in Nat /\ made \in Nat
      BY <1>1, <2>1
    <3> HIDE DEF next
    <3>2. MatchLengthEnd(next, made) \in Nat
      BY ONLY <3>1, MatchLengthReach
    <3>3. ExtensionSize(made) \in Nat
      BY ONLY <3>1, ExtensionCost
    <3> QED
      BY <3>2, <3>3
  <2> HIDE DEF len
  <2>5. reach' \in Nat /\ (reach' = MatchLengthEnd(next, made) \/ reach' = reach)
    BY <1>1, <1>11, <2>2, <2>4, MaxOfIs
  <2>6. op' = next + ExtensionSize(made) /\ op' \in Nat
    BY <1>1, <1>11, <2>2, <2>4
  <2>7. pc' = "last" \/ (pc' = "test" /\ ip' < mflimitPlusOne)
    BY <1>1, <1>7, <1>11, <2>2
  <2>8. lz' \in FastStates
    <3>1. [lz EXCEPT !.table = Cleared(@, ip')] = [lz EXCEPT !.table = Cleared(lz.table, ip')]
      BY <1>1 DEF FastStates
    <3>2. Cleared(lz.table, ip') \in [Hashes -> Nat]
      BY <1>1, ClearedType
    <3>3. [lz EXCEPT !.table = Cleared(lz.table, ip')] \in FastStates
      BY <1>1, <3>2, NewTableType
    <3> QED
      BY <1>1, <1>11, <3>1, <3>3
  <2>9. ip' \in Nat /\ anchor' = ip' /\ ip' <= matchlimit /\ call.source + MINMATCH <= ip'
    BY <1>1, <1>2, <1>11, <2>2
  <2>10. BlockTypeOK'
    BY <1>1, <1>3, <2>5, <2>6, <2>7, <2>9 DEF BlockTypeOK
  <2>11. InBlock'
    <3>1. mflimitPlusOne' = mflimitPlusOne /\ iend' = iend
      BY <1>3 DEF mflimitPlusOne, iend
    <3> QED
      BY <1>1, <1>3, <1>7, <2>7, <2>9, <3>1 DEF InBlock
  <2>12. RoomAhead' /\ StaysInOutput'
    BY <1>1, <1>3, <2>3, <2>4, <2>5, <2>6, <2>7 DEF RoomAhead, StaysInOutput
  <2> QED
    BY <1>1, <1>3, <2>8, <2>10, <2>11, <2>12 DEF BlockBegins
<1> QED
  BY <1>5, <1>9, <1>10, <1>11

LEMMA TestKeeps ==
  ASSUME OutputInv, Test
  PROVE  BlockBegins
<1> USE Numbers
<1> DEFINE table == Put(lz.table, ip - 2, call.tableType, Index(ip - 2))
           then  == Put(table, ip, call.tableType, Index(ip))
           c     == Candidate(table, ip)
<1>1. /\ FastTypeOK /\ InBlock /\ RoomAhead /\ StaysInOutput /\ BlockTypeOK
      /\ call.source \in Nat /\ call.n \in Nat /\ call.room \in Nat /\ ip \in Nat
      /\ reach \in Nat /\ token \in Nat
      /\ dictLz \in FastStates /\ lz \in FastStates /\ lz.table \in [Hashes -> Nat]
      /\ anchor \in Nat /\ op \in Nat /\ mem \in [1 .. TOP -> Values]
      /\ cand \in [addr : Int, low : Int, offset : Int]
  BY DEF OutputInv, FastTypeOK, BlockTypeOK, FastCalls, FastStates, UserTypeOK
<1>2. /\ call.source <= anchor /\ anchor <= iend /\ anchor = ip /\ ip < mflimitPlusOne
      /\ call.source + MINMATCH <= ip
  BY <1>1 DEF Test, InBlock
<1>3. pc = "test" /\ UNCHANGED <<filled, anchor, call, dictLz>>
  BY DEF Test, Kept
<1>4. call.limit # "notLimited" => op + 3 <= call.room
  BY <1>1, <1>3 DEF RoomAhead
<1>5. /\ lz' = [lz EXCEPT !.table = then]
      /\ \/ /\ pc' = "nextMatch" /\ cand' = MatchOf(c, ip)
            /\ token' = op /\ op' = op + 1 /\ reach' = MaxOf(op')
            /\ UNCHANGED <<ip, forward, tries>>
         \/ /\ pc' = "search" /\ ip' = ip + 1 /\ forward' = ip + 1 /\ tries' = 0
            /\ UNCHANGED <<cand, token, op, reach>>
  BY DEF Test
<1>6. Index(ip - 2) \in Nat /\ Index(ip) \in Nat
  <2>1. ip - 2 \in Nat /\ call.source <= ip - 2 /\ call.source <= ip
    BY <1>1, <1>2, Lz4Assumption
  <2> QED
    BY <1>1, <2>1, IndexType
<1>7. table \in [Hashes -> Nat]
  <2>1. ip - 2 \in Int /\ lz.table \in [Hashes -> Nat] /\ mem \in [1 .. TOP -> Values]
    BY <1>1
  <2> QED
    BY ONLY <1>6, <2>1, PutType
<1> HIDE DEF table
<1>8. then \in [Hashes -> Nat]
  <2>1. ip \in Int /\ mem \in [1 .. TOP -> Values]
    BY <1>1
  <2> QED
    BY ONLY <1>6, <1>7, <2>1, PutType
<1> HIDE DEF then
<1>9. lz' \in FastStates
  BY <1>1, <1>5, <1>8, NewTableType
<1>10. cand' \in [addr : Int, low : Int, offset : Int]
  BY <1>1, <1>5, <1>7, MatchType
<1> HIDE DEF c
<1>11. mflimitPlusOne' = mflimitPlusOne /\ iend' = iend /\ mflimitPlusOne \in Int
  BY <1>1, <1>3 DEF mflimitPlusOne, iend
<1>12. reach' \in Nat /\ (reach' = op + 1 \/ reach' = reach)
  BY <1>1, <1>5, MaxOfIs
<1>13. CASE pc' = "nextMatch" /\ token' = op /\ op' = op + 1 /\ UNCHANGED <<ip, forward, tries>>
  <2>1. BlockTypeOK'
    BY <1>1, <1>3, <1>10, <1>12, <1>13 DEF BlockTypeOK
  <2>2. InBlock'
    BY <1>1, <1>2, <1>3, <1>11, <1>13 DEF InBlock
  <2>3. RoomAhead' /\ StaysInOutput'
    BY <1>1, <1>3, <1>4, <1>12, <1>13 DEF RoomAhead, StaysInOutput
  <2> QED
    BY <1>1, <1>3, <1>9, <2>1, <2>2, <2>3 DEF BlockBegins
<1>14. CASE /\ pc' = "search" /\ ip' = ip + 1 /\ forward' = ip + 1 /\ tries' = 0
            /\ UNCHANGED <<token, op, reach>>
  <2>1. BlockTypeOK'
    BY <1>1, <1>3, <1>10, <1>14 DEF BlockTypeOK
  <2>2. InBlock'
    BY <1>1, <1>2, <1>3, <1>11, <1>14 DEF InBlock
  <2>3. RoomAhead' /\ StaysInOutput'
    BY <1>1, <1>3, <1>4, <1>14 DEF RoomAhead, StaysInOutput
  <2> QED
    BY <1>1, <1>3, <1>9, <2>1, <2>2, <2>3 DEF BlockBegins
<1> QED
  BY <1>5, <1>13, <1>14

LEMMA LastLiteralsKeeps ==
  ASSUME OutputInv, LastLiterals
  PROVE  BlockBegins
<1> USE Numbers
<1> DEFINE all   == iend - anchor
           tight == call.limit # "notLimited" /\ op + all + 1 + RestOf(all) > call.room
           room  == call.room - op - 1
           less  == room - ((room + MAXBYTE + 1 - MASK) \div (MAXBYTE + 1))
           run   == IF tight THEN less ELSE all
           next  == op + 1 + ExtensionSize(run) + run
<1>1. /\ FastTypeOK /\ InBlock /\ RoomAhead /\ StaysInOutput /\ BlockTypeOK
      /\ call.source \in Nat /\ call.n \in Nat /\ call.room \in Nat /\ ip \in Nat
      /\ reach \in Nat /\ call.limit \in {"notLimited", "limitedOutput", "fillOutput"}
      /\ dictLz \in FastStates /\ lz \in FastStates /\ anchor \in Nat /\ op \in Nat
  BY DEF OutputInv, FastTypeOK, BlockTypeOK, FastCalls
<1>2. call.source <= anchor /\ anchor <= iend
  BY <1>1 DEF LastLiterals, InBlock
<1>3. pc = "last" /\ UNCHANGED <<lz, forward, tries, cand, filled, anchor, token, call, dictLz>>
  BY DEF LastLiterals, Kept
<1>4. call.limit = "fillOutput" => op + 1 <= call.room
  BY <1>1, <1>3 DEF RoomAhead
<1>5. /\ pc' = "returned"
      /\ \/ tight /\ call.limit = "limitedOutput" /\ UNCHANGED <<ip, op, reach>>
         \/ /\ ~(tight /\ call.limit = "limitedOutput")
            /\ ip' = anchor + run /\ op' = next /\ reach' = MaxOf(op')
  BY DEF LastLiterals, Return
<1>6. all \in Nat /\ RestOf(all) = ExtensionSize(all) /\ ExtensionSize(all) \in Nat
  <2>1. all \in Nat
    BY <1>1, <1>2 DEF iend
  <2> HIDE DEF all
  <2> QED
    BY <2>1, RestIs, ExtensionCost
<1> HIDE DEF all
<1>7. ASSUME ~(tight /\ call.limit = "limitedOutput")
      PROVE  /\ run \in Nat /\ next \in Nat
             /\ call.limit # "notLimited" => next <= call.room
  <2>1. CASE tight
    <3>1. room \in Nat
      BY <1>1, <1>4, <1>7, <2>1
    <3> HIDE DEF room
    <3>2. less \in Nat /\ less + ExtensionSize(less) <= room /\ ExtensionSize(less) \in Nat
      BY <3>1, LastRun, ExtensionCost
    <3> HIDE DEF less
    <3>3. run = less
      BY <2>1
    <3> HIDE DEF run, tight
    <3>4. next \in Nat /\ next <= op + 1 + room
      BY <1>1, <3>1, <3>2, <3>3
    <3> QED
      BY <1>1, <3>2, <3>3, <3>4 DEF room
  <2>2. CASE ~tight
    <3>1. run = all
      BY <2>2
    <3> QED
      BY <1>1, <1>6, <2>2, <3>1
  <2> QED
    BY <2>1, <2>2
<1> HIDE DEF run, next, tight
<1>8. /\ op' \in Nat /\ ip' \in Nat /\ reach' \in Nat /\ (reach' = reach \/ reach' = op')
      /\ call.limit # "notLimited" => op' <= call.room
  <2>1. CASE UNCHANGED <<ip, op, reach>>
    BY <1>1, <2>1 DEF RoomAhead
  <2>2. CASE /\ ~(tight /\ call.limit = "limitedOutput")
             /\ ip' = anchor + run /\ op' = next /\ reach' = MaxOf(op')
    <3>1. /\ run \in Nat /\ next \in Nat
          /\ call.limit # "notLimited" => next <= call.room
      BY <1>7, <2>2
    <3>2. reach' \in Nat /\ (reach' = next \/ reach' = reach)
      BY <1>1, <2>2, <3>1, MaxOfIs
    <3> QED
      BY <1>1, <2>2, <3>1, <3>2
  <2> QED
    BY <1>5, <2>1, <2>2
<1>9. BlockTypeOK'
  BY <1>1, <1>3, <1>5, <1>8 DEF BlockTypeOK
<1>10. InBlock' /\ RoomAhead' /\ StaysInOutput'
  BY <1>1, <1>3, <1>5, <1>8 DEF InBlock, RoomAhead, StaysInOutput
<1> QED
  BY <1>1, <1>3, <1>9, <1>10 DEF BlockBegins

(* Of a step of a block, and of a call.                                    *)
LEMMA BlockStepKeeps ==
  ASSUME OutputInv, CompressBlock
  PROVE  OutputInv'
<1>1. BlockBegins
  BY FirstByteKeeps, SearchKeeps, LiteralsKeeps, NextMatchKeeps, TestKeeps, LastLiteralsKeeps
     DEF CompressBlock
<1>2. UNCHANGED userVars
  BY DEF CompressBlock, FirstByte, Search, Literals, NextMatch, Test, LastLiterals, Kept
<1>3. UserTypeOK'
  BY <1>2 DEF OutputInv, FastTypeOK, UserTypeOK, userVars
<1> QED
  BY <1>1, <1>3 DEF OutputInv, FastTypeOK, BlockBegins

LEMMA RegionsType == TOP \in Nat /\ BUF \in Nat \ {0}
BY Places, UserAssumption DEF TOP

LEMMA ContinueKeeps ==
  ASSUME OutputInv, NEW word \in Words, NEW room \in Rooms, CompressContinue(word, room)
  PROVE  OutputInv'
<1> DEFINE n == Len(word)
           source == Place(n)
<1>1. FastTypeOK /\ UserTypeOK /\ dictLz \in FastStates /\ at \in Nat \ {0}
      /\ layout \in {"line", "ring", "two", "one"} /\ mem \in [1 .. TOP -> Values]
  BY DEF OutputInv, FastTypeOK, UserTypeOK
<1>2. n \in Nat /\ word \in [1 .. n -> Values] /\ room \in Nat
  BY WordsType, StreamAssumption
<1>3. source \in Nat \ {0}
  BY <1>1, <1>2, PlaceIs
<1>4. mem' = With(mem, source, word) /\ at' = source + n /\ layout' = layout
  BY DEF CompressContinue, Written
<1>5. LZ4_compress_fast_continue(source, n, room)
  BY DEF CompressContinue
<1> HIDE DEF n, source
<1>6. BlockBegins
  BY <1>1, <1>2, <1>3, <1>5, ContinueBegins
<1>7. mem' \in [1 .. TOP -> Values]
  BY <1>1, <1>2, <1>3, <1>4, WithType
<1>8. UserTypeOK'
  BY <1>1, <1>2, <1>3, <1>4, <1>7 DEF UserTypeOK
<1> QED
  BY <1>6, <1>8 DEF OutputInv, FastTypeOK, BlockBegins

LEMMA SingleKeeps ==
  ASSUME OutputInv, NEW word \in Singles, NEW room \in SingleRooms,
         ExtState(word, room) \/ FastReset(word, room) \/ DestSize(word, room)
  PROVE  OutputInv'
<1> DEFINE n == Len(word)
           s == LZ4_prepareTable(lz, n, TableType(n))
<1>1. FastTypeOK /\ BlockTypeOK /\ UserTypeOK /\ lz \in FastStates /\ dictLz \in FastStates
      /\ layout \in {"line", "ring", "two", "one"} /\ mem \in [1 .. TOP -> Values]
  BY DEF OutputInv, FastTypeOK, UserTypeOK
<1>2. n \in Nat /\ word \in [1 .. n -> Values] /\ room \in Nat
  BY WordsType, StreamAssumption
<1>3. mem' = With(mem, BUF, word) /\ at' = BUF /\ layout' = layout
  BY DEF ExtState, FastReset, DestSize, Single
<1>4. TableType(n) \in {"byU16", "byU32"}
      /\ Limit(n, room) \in {"notLimited", "limitedOutput", "fillOutput"}
  BY DEF TableType, Limit
<1>5. s \in FastStates /\ LZ4_initStream \in FastStates
  BY <1>1, PrepareTableType, InitStreamType
<1>6. \E st \in FastStates, limit \in {"notLimited", "limitedOutput", "fillOutput"},
         issue \in {"noDictIssue", "dictSmall"} :
        LZ4_compress_generic(st, BUF, n, room, limit, TableType(n), "noDict", issue)
  <2>1. CASE ExtState(word, room)
    BY <1>4, <1>5, <2>1 DEF ExtState
  <2>2. CASE FastReset(word, room)
    <3> DEFINE i == IF TableType(n) = "byU16" /\ s.currentOffset # 0 THEN "dictSmall" ELSE "noDictIssue"
    <3>1. LZ4_compress_generic(s, BUF, n, room, Limit(n, room), TableType(n), "noDict", i)
      BY <2>2 DEF FastReset
    <3>2. i \in {"noDictIssue", "dictSmall"}
      OBVIOUS
    <3> HIDE DEF i, s
    <3> QED
      BY <1>4, <1>5, <3>1, <3>2
  <2>3. CASE DestSize(word, room)
    <3> DEFINE limit == IF room >= CompressBound(n) THEN "notLimited" ELSE "fillOutput"
    <3>1. LZ4_compress_generic(LZ4_initStream, BUF, n, room, limit, TableType(n), "noDict",
                               "noDictIssue")
      BY <2>3 DEF DestSize
    <3>2. limit \in {"notLimited", "limitedOutput", "fillOutput"}
      OBVIOUS
    <3> HIDE DEF limit
    <3> QED
      BY <1>5, <3>1, <3>2
  <2> QED
    BY <2>1, <2>2, <2>3
<1> HIDE DEF n, s
<1>7. BlockBegins
  BY <1>1, <1>2, <1>4, <1>6, RegionsType, GenericBegins
<1>8. mem' \in [1 .. TOP -> Values]
  BY <1>1, <1>2, <1>3, RegionsType, WithType
<1>9. UserTypeOK'
  BY <1>1, <1>3, <1>8, RegionsType DEF UserTypeOK
<1> QED
  BY <1>7, <1>9 DEF OutputInv, FastTypeOK, BlockBegins

LEMMA FastReturnedKeeps ==
  ASSUME OutputInv, Returned
  PROVE  OutputInv'
<1> USE WindowNumbers
<1> DEFINE t == [lz EXCEPT !.dictionary = call.source, !.dictSize = call.n]
<1>1. /\ UserTypeOK /\ lz \in FastStates /\ dictLz \in FastStates
      /\ call.source \in Nat /\ call.n \in Nat
  BY DEF OutputInv, FastTypeOK, BlockTypeOK, FastCalls
<1>2. /\ call' = NoCall /\ pc' = "idle"
      /\ ip' = 0 /\ forward' = 0 /\ tries' = 0 /\ cand' = NoMatch /\ filled' = 0
      /\ anchor' = 0 /\ token' = 0 /\ op' = 0 /\ reach' = 0 /\ dictLz' = dictLz
  BY DEF Returned
<1>3. lz' = lz \/ lz' = t
  BY DEF Returned
<1>4. t \in FastStates
  BY <1>1 DEF FastStates
<1> HIDE DEF t
<1>5. NoCall \in FastCalls /\ NoCall.limit = "notLimited"
  BY DEF NoCall, FastCalls
<1>6. NoMatch \in [addr : Int, low : Int, offset : Int]
  BY DEF NoMatch
<1>7. BlockTypeOK'
  BY <1>2, <1>5, <1>6 DEF BlockTypeOK
<1>8. InBlock' /\ RoomAhead' /\ StaysInOutput'
  BY <1>2, <1>5 DEF InBlock, RoomAhead, StaysInOutput
<1>9. UNCHANGED <<mem, at, layout>>
  BY DEF Returned, Sent, Failed
<1>10. UserTypeOK'
  BY <1>1, <1>9 DEF UserTypeOK
<1> QED
  BY <1>1, <1>2, <1>3, <1>4, <1>7, <1>8, <1>10 DEF OutputInv, FastTypeOK

(* Between calls only the streams change, and the dictionary that is saved.*)
LEMMA BetweenKeeps ==
  ASSUME OutputInv, Between, lz' \in FastStates, dictLz' \in FastStates, layout' = layout,
         mem' \in [1 .. TOP -> Values], at' \in Nat \ {0}
  PROVE  OutputInv'
<1>1. UNCHANGED <<call, pc, ip, forward, tries, cand, filled, anchor, token, op, reach>>
  BY DEF Between, locals
<1>2. UserTypeOK'
  BY DEF OutputInv, FastTypeOK, UserTypeOK
<1>3. BlockTypeOK' /\ InBlock' /\ RoomAhead' /\ StaysInOutput'
  BY <1>1 DEF OutputInv, FastTypeOK, BlockTypeOK, InBlock, iend, mflimitPlusOne, RoomAhead,
              StaysInOutput
<1> QED
  BY <1>2, <1>3 DEF OutputInv, FastTypeOK

LEMMA BeginKeeps ==
  ASSUME OutputInv,
         InitStream \/ ResetStreamFast \/ (\E n \in DictSizes : LoadDict(n) \/ AttachDictionary(n))
  PROVE  OutputInv'
<1> USE WindowNumbers
<1>1. lz \in FastStates /\ dictLz \in FastStates /\ mem \in [1 .. TOP -> Values]
  BY DEF OutputInv, FastTypeOK, UserTypeOK
<1>2. ASSUME NEW bytes, Begun(bytes)
      PROVE  layout' = layout /\ mem' \in [1 .. TOP -> Values] /\ at' \in Nat \ {0}
  BY <1>1, <1>2, RegionsType DEF Begun
<1>3. CASE InitStream
  BY <1>1, <1>2, <1>3, InitStreamType, BetweenKeeps DEF InitStream
<1>4. CASE ResetStreamFast
  BY <1>1, <1>2, <1>4, PrepareTableType, BetweenKeeps DEF ResetStreamFast
<1>5. ASSUME NEW n \in DictSizes, LoadDict(n)
      PROVE  OutputInv'
  BY <1>1, <1>2, <1>5, LoadedType, BetweenKeeps DEF LoadDict
<1>6. ASSUME NEW n \in DictSizes, AttachDictionary(n)
      PROVE  OutputInv'
  <2> DEFINE s == LZ4_prepareTable(lz, 0, "byU32")
             offset == IF s.currentOffset = 0 THEN W ELSE s.currentOffset
             ctx == dictLz'.dictSize > 0
             t == [s EXCEPT !.currentOffset = offset, !.dictCtx = ctx]
  <2>1. Between /\ Begun(Word(DICT, n)) /\ dictLz' \in FastStates
    BY <1>1, <1>6, LoadedType DEF AttachDictionary
  <2>2. s \in FastStates
    BY <1>1, PrepareTableType
  <2>3. lz' = [s EXCEPT !.currentOffset = IF @ = 0 THEN W ELSE @, !.dictCtx = ctx]
    BY <1>6 DEF AttachDictionary
  <2> HIDE DEF s
  <2>4. lz' = t
    BY <2>2, <2>3 DEF FastStates
  <2>5. offset \in Nat /\ ctx \in BOOLEAN
    BY <2>2 DEF FastStates
  <2> HIDE DEF offset, ctx
  <2>6. t \in FastStates
    BY <2>2, <2>5 DEF FastStates
  <2> QED
    BY <1>2, <2>1, <2>4, <2>6, BetweenKeeps
<1> QED
  BY <1>3, <1>4, <1>5, <1>6

LEMMA SaveDictKeeps ==
  ASSUME OutputInv, NEW size \in SaveSizes, SaveDict(size)
  PROVE  OutputInv'
<1> USE WindowNumbers
<1> DEFINE least == Min({size, W})
           n == Min({size, W, lz.dictSize})
<1>1. /\ lz \in FastStates /\ lz.dictSize \in Nat /\ lz.dictionary \in Nat
      /\ dictLz \in FastStates /\ mem \in [1 .. TOP -> Values] /\ at \in Nat \ {0}
  BY DEF OutputInv, FastTypeOK, UserTypeOK, FastStates
<1>2. size \in Nat
  BY UserAssumption
<1>3. n \in {size, W, lz.dictSize} /\ n <= W
  <2> DEFINE T == {size, W, lz.dictSize}
  <2>1. \E x \in T : \A y \in T : x <= y
    BY <1>1, <1>2
  <2>2. Min(T) \in T /\ \A y \in T : Min(T) <= y
    BY <2>1 DEF Min
  <2> QED
    BY <2>2
<1>4. n \in Nat
  BY <1>1, <1>2, <1>3
<1>5. PICK safe \in SafeBuffers(n) :
        /\ Saved(safe, SavedFrom(n), n)
        /\ lz' = [lz EXCEPT !.dictionary = safe, !.dictSize = n]
  BY Zenon DEF SaveDict
<1>6. Between /\ dictLz' = dictLz
  BY DEF SaveDict
<1> HIDE DEF n
<1>7. safe \in Nat
  BY <1>3, <1>4, Places DEF SafeBuffers
<1>8. lz' \in FastStates
  BY <1>1, <1>4, <1>5, <1>7 DEF FastStates
<1>9. /\ mem' = With(mem, safe, Word(SavedFrom(n), n))
      /\ UNCHANGED <<layout, at>>
  BY <1>5 DEF Saved
<1>10. SavedFrom(n) \in Int
  BY <1>1, <1>4 DEF SavedFrom
<1>11. Word(SavedFrom(n), n) \in [1 .. n -> Values]
  BY <1>1, <1>4, <1>10, WordType
<1>12. mem' \in [1 .. TOP -> Values]
  BY <1>1, <1>4, <1>7, <1>9, <1>11, WithType
<1> QED
  BY <1>1, <1>6, <1>8, <1>9, <1>12, BetweenKeeps
-----------------------------------------------------------------------------
RoomInv ==
  /\ stream = "fast" => OutputInv
  /\ stream # "fast" => call = NoCall

LEMMA RoomStep ==
  ASSUME RoomInv, [Next]_streamVars
  PROVE  RoomInv'
<1>1. CASE stream # "fast"
  <2>1. stream' = stream /\ call' = call
    BY <1>1 DEF Next, Fast, Hc, Decoder, streamVars, blockVars
  <2> QED
    BY <1>1, <2>1 DEF RoomInv
<1>2. CASE stream = "fast"
  <2>1. stream' = stream
    BY <1>2 DEF Next, Fast, Hc, Decoder, streamVars
  <2>2. OutputInv
    BY <1>2 DEF RoomInv
  <2>3. CASE UNCHANGED streamVars
    <3>1. /\ UNCHANGED <<mem, at, layout, lz, dictLz, call, pc, ip, forward, tries, cand>>
          /\ UNCHANGED <<filled, anchor, token, op, reach>>
      BY <2>3 DEF streamVars, blockVars, userVars, locals
    <3>2. OutputInv'
      BY <2>2, <3>1 DEF OutputInv, FastTypeOK, UserTypeOK, BlockTypeOK, InBlock, iend,
                        mflimitPlusOne, RoomAhead, StaysInOutput
    <3> QED
      BY <1>2, <2>1, <3>2 DEF RoomInv
  <2>4. CASE Next
    <3>1. \/ \E word \in Words, room \in Rooms : CompressContinue(word, room)
          \/ \E word \in Singles, room \in SingleRooms :
               ExtState(word, room) \/ FastReset(word, room) \/ DestSize(word, room)
          \/ CompressBlock
          \/ Returned
          \/ InitStream \/ ResetStreamFast
               \/ (\E n \in DictSizes : LoadDict(n) \/ AttachDictionary(n))
          \/ \E n \in SaveSizes : SaveDict(n)
      BY <1>2, <2>4 DEF Next, Fast, Hc, Decoder
    <3>2. OutputInv'
      BY <2>2, <3>1, ContinueKeeps, SingleKeeps, BlockStepKeeps, FastReturnedKeeps, BeginKeeps,
         SaveDictKeeps
    <3> QED
      BY <1>2, <2>1, <3>2 DEF RoomInv
  <2> QED
    BY <2>3, <2>4
<1> QED
  BY <1>1, <1>2

LEMMA RoomBegins == Init => RoomInv
<1> SUFFICES ASSUME Init PROVE RoomInv
  OBVIOUS
<1> USE WindowNumbers
<1> DEFINE blank == [a \in 1 .. TOP |-> Foreign]
<1>1. /\ UserInit(IF stream = "fast" THEN Dictionary ELSE Numbered)
      /\ layout = "own" => stream = "decoder"
      /\ BlockInit /\ lz = LZ4_initStream /\ dictLz = LZ4_initStream
  BY DEF Init, StreamInit
<1>2. /\ call = NoCall /\ pc = "idle"
      /\ ip = 0 /\ forward = 0 /\ tries = 0 /\ cand = NoMatch /\ filled = 0
      /\ anchor = 0 /\ token = 0 /\ op = 0 /\ reach = 0
  BY <1>1 DEF BlockInit
<1>3. ASSUME stream = "fast"
      PROVE  OutputInv
  <2>1. mem = With(blank, DICT, Dictionary) /\ at = BUF /\ layout \in Layouts
    BY <1>1, <1>3 DEF UserInit
  <2>2. blank \in [1 .. TOP -> Values]
    BY DEF Values
  <2>3. Len(Dictionary) \in Nat /\ Dictionary \in [1 .. Len(Dictionary) -> Values]
    BY WordsType
  <2> HIDE DEF blank
  <2>4. mem \in [1 .. TOP -> Values]
    BY <2>1, <2>2, <2>3, Places, WithType
  <2>5. UserTypeOK
    BY <1>1, <1>3, <2>1, <2>4, RegionsType, UserAssumption DEF UserTypeOK
  <2>6. NoCall \in FastCalls /\ NoCall.limit = "notLimited"
    BY DEF NoCall, FastCalls
  <2>7. NoMatch \in [addr : Int, low : Int, offset : Int]
    BY DEF NoMatch
  <2>8. BlockTypeOK
    BY <1>2, <2>6, <2>7 DEF BlockTypeOK
  <2>9. InBlock /\ RoomAhead /\ StaysInOutput
    BY <1>2, <2>6 DEF InBlock, RoomAhead, StaysInOutput
  <2> QED
    BY <1>1, <2>5, <2>8, <2>9, InitStreamType DEF OutputInv, FastTypeOK
<1> QED
  BY <1>2, <1>3 DEF RoomInv

(* StaysInOutput: whatever is compressed, into however little room, the    *)
(* fast compressor never writes past the end of dst.                       *)
THEOREM FastCompressorStaysInOutput == Spec => []StaysInOutput
<1>1. RoomInv => StaysInOutput
  <2>1. NoCall.limit = "notLimited"
    BY DEF NoCall
  <2> QED
    BY <2>1 DEF RoomInv, OutputInv, StaysInOutput
<1> QED
  BY <1>1, RoomBegins, RoomStep, PTL DEF Spec

-----------------------------------------------------------------------------
(* What the tables of the fast compressor know.  Positions of former blocks*)
(* lie before the present one, four bytes or more; a table that counts as  *)
(* cleared is; one of 16-bit numbers is not used beyond 64 KB.             *)
Known(s) ==
  /\ s.tableType = "cleared" =>
       (\A h \in Hashes : s.table[h] = 0) /\ (s.currentOffset = 0 \/ s.currentOffset >= W)
  /\ s.tableType # "byU16" \/ s.currentOffset < W =>
       \A h \in Hashes : s.table[h] = 0 \/ s.table[h] + MINMATCH <= s.currentOffset

(* A dictionary as LZ4_loadDict leaves it; it lies before all the blocks.  *)
LoadedDict(d) ==
  /\ d.tableType = "byU32" /\ d.currentOffset = W /\ ~d.dictCtx
  /\ d.dictSize \in 1 .. W /\ d.dictionary + d.dictSize < BUF
  /\ \A h \in Hashes :
       d.table[h] = 0 \/ (W - d.dictSize <= d.table[h] /\ d.table[h] + MINMATCH <= W)

(* The dictionary of a stream that is open ends where the last block does, *)
(* or before all of them.                                                  *)
DictPlaced(s) ==
  /\ s.tableType # "byU16" /\ s.dictSize <= s.currentOffset
  /\ s.dictSize > 0 /\ ~unsaved =>
       LET end == s.dictionary + s.dictSize
       IN  \/ end <= BUF
           \/ /\ end = at /\ layout # "one"
              /\ layout = "two" /\ at >= SECOND => s.dictionary >= SECOND
  /\ s.dictCtx => s.dictSize = 0 /\ LoadedDict(dictLz)

(* The positions a block may find in the table: of former blocks, which are*)
(* 64 KB away when there is no dictionary; of an attached one, which lie   *)
(* in it; and of the block itself.                                         *)
Fresh == call.directive = "noDict" /\ call.tableType = "byU32" /\ call.startIndex # 0
FromDict ==
  /\ call.directive = "usingExtDict" /\ call.issue = "noDictIssue"
  /\ call.dictSize < W /\ call.dictSize < call.startIndex

Old(e) ==
  \/ e = 0
  \/ /\ e + MINMATCH <= call.startIndex
     /\ Fresh => e + MINMATCH + W <= call.startIndex
     /\ FromDict => e >= call.startIndex - call.dictSize

(* Beyond 64 KB positions of 16 bits are wrong, and all are rejected.      *)
Wrapped ==
  /\ call.tableType = "byU16" /\ call.startIndex >= W
  /\ call.issue = "dictSmall" /\ call.dictSize = 0

KnowsBefore(table, front) ==
  IF Wrapped THEN \A h \in Hashes : table[h] < W
  ELSE \A h \in Hashes : Old(table[h]) \/ table[h] \in call.startIndex .. front - 1

(* How a block is compressed: on its own, with a small table or a large    *)
(* one, with what stands before it, with a dictionary, with an attached one*)
(* through its own table.                                                  *)
SmallSingle ==
  /\ call.directive = "noDict" /\ call.tableType = "byU16"
  /\ \/ Wrapped
     \/ call.startIndex = 0 /\ call.n < W + MFLIMIT - 1
     \/ call.startIndex + call.n < DISTANCE_MAX /\ call.issue = "dictSmall" /\ call.dictSize = 0

LargeSingle ==
  /\ call.directive = "noDict" /\ call.tableType = "byU32" /\ call.issue = "noDictIssue"
  /\ call.startIndex = 0 \/ call.startIndex >= W

IssueTold ==
  call.issue = "dictSmall" \/ call.dictSize >= W \/ call.dictSize >= call.startIndex

Prefixed == call.directive = "withPrefix64k" /\ call.tableType = "byU32" /\ IssueTold

External ==
  /\ call.directive = "usingExtDict" /\ call.tableType = "byU32"
  /\ call.dictionary # call.source
  /\ IssueTold \/ (FromDict /\ call.startIndex >= W)
  /\ call.startIndex >= MINMATCH \/ call.startIndex >= W

Attached ==
  /\ call.directive = "usingDictCtx" /\ call.tableType = "byU32" /\ call.issue = "noDictIssue"
  /\ call.dictionary # call.source
  /\ LoadedDict(dictLz)
  /\ call.dictionary = dictLz.dictionary /\ call.dictSize = dictLz.dictSize

Calls == SmallSingle \/ LargeSingle \/ Prefixed \/ External \/ Attached

(* When the output is filled, what a position is in the table for is known.*)
Hashed4(table) ==
  call.limit = "fillOutput" =>
    /\ call.startIndex = 0 /\ call.directive = "noDict"
    /\ \A h \in Hashes : table[h] = 0 \/ HashAt(call.source + table[h], call.tableType) = h

TableOK(table, front) == KnowsBefore(table, front) /\ Hashed4(table)

(* All positions in the table are before this one.                         *)
Front ==
  CASE pc = "first"     -> call.startIndex
    [] pc = "search"    -> Index(forward)
    [] pc = "literals"  -> Index(ip) + 1
    [] pc = "nextMatch" -> Index(IF filled > ip THEN filled ELSE ip) + 1
    [] pc = "test"      -> Index(ip)
    [] pc = "last"      -> Index(iend) - MINMATCH + 1

(* The match of the search, and what went before it: so many bytes.        *)
Matched(k) ==
  /\ \A i \in 0 .. k + MINMATCH - 1 : Same(ip + i, cand.addr + i)
  /\ InDict(cand) => cand.addr + k + MINMATCH <= dictEnd

NoRoomFor(o) == call.limit = "fillOutput" /\ o + MATCH_ROOM > call.room

InSearch == pc \in {"first", "search", "literals", "nextMatch", "test", "last"}

Searching ==
  /\ Calls /\ lz.tableType = call.tableType /\ lz.currentOffset = call.startIndex + call.n
  /\ TableOK(lz.table, Front)
  /\ pc = "first" => call.source < mflimitPlusOne
  /\ pc = "search" => forward <= mflimitPlusOne
  /\ pc = "literals" => Matched(0)
  /\ pc = "nextMatch" =>
       filled < mflimitPlusOne /\ (filled >= ip /\ ~NoRoomFor(op) => Matched(filled - ip))
  /\ pc = "test" => filled < mflimitPlusOne /\ (filled >= ip => NoRoomFor(op + 1))

(* A call of a stream leaves it so that the next one may begin.            *)
Continuing ==
  LET s == IF ExternalMode THEN [lz EXCEPT !.dictionary = call.source, !.dictSize = call.n] ELSE lz
  IN  ~Idle /\ status = "open" /\ (pc = "returned" => result > 0) =>
        at = call.source + call.n /\ DictPlaced(s)

DataInv ==
  /\ OutputInv
  /\ ~stray
  /\ at >= BUF
  /\ Idle => Known(lz) /\ (status = "open" => DictPlaced(lz))
  /\ pc = "returned" => Known(lz)
  /\ InSearch => Searching
  /\ Continuing
-----------------------------------------------------------------------------
LEMMA CallTypes ==
  ASSUME BlockTypeOK
  PROVE  /\ call.source \in Nat /\ call.n \in Nat /\ call.room \in Nat
         /\ call.startIndex \in Nat /\ call.dictionary \in Nat /\ call.dictSize \in Nat
         /\ call.limit \in {"notLimited", "limitedOutput", "fillOutput"}
         /\ call.tableType \in {"byU16", "byU32"}
         /\ call.directive \in {"noDict", "withPrefix64k", "usingExtDict", "usingDictCtx"}
         /\ call.issue \in {"noDictIssue", "dictSmall"}
         /\ base = call.source - call.startIndex
         /\ mflimitPlusOne = call.source + call.n - MFLIMIT + 1
BY Numbers DEF BlockTypeOK, FastCalls, base, mflimitPlusOne, iend

(* What may be looked up in the table is part of the data.                 *)
LEMMA OwnIsData ==
  ASSUME BlockTypeOK, Calls, NEW a \in Nat, call.source < a, a < mflimitPlusOne,
         NEW e \in Nat, NEW low \in Int, low <= call.source,
         IF Wrapped THEN e < W ELSE Old(e) \/ e \in call.startIndex .. Index(a) - 1,
         LookedUp([index |-> e, addr |-> base + e, low |-> low], a),
         call.directive = "withPrefix64k" => low = call.source - call.dictSize,
         call.directive # "withPrefix64k" => low = call.source,
         maybe_extMem => e >= call.startIndex
  PROVE  IsData([index |-> e, addr |-> base + e, low |-> low], a)
<1> USE WindowNumbers, Numbers, Lz4Assumption
<1> DEFINE c == [index |-> e, addr |-> base + e, low |-> low]
           x == Index(a)
<1> SUFFICES IsData(c, a)
  OBVIOUS
<1>1. /\ call.source \in Nat /\ call.n \in Nat
      /\ call.startIndex \in Nat /\ call.dictionary \in Nat /\ call.dictSize \in Nat
      /\ call.tableType \in {"byU16", "byU32"}
      /\ base = call.source - call.startIndex
      /\ mflimitPlusOne = call.source + call.n - MFLIMIT + 1
  BY CallTypes
<1>2. /\ x \in Nat /\ call.startIndex < x /\ a = base + x /\ base \in Int
      /\ x < call.startIndex + call.n - MFLIMIT + 1
  BY <1>1 DEF Index
<1>3. c.index = e /\ c.addr = base + e /\ c.low = low
  OBVIOUS
<1>4. /\ call.issue = "dictSmall" => e >= call.startIndex - call.dictSize
      /\ call.tableType = "byU16" \/ e + DISTANCE_MAX >= x
  BY <1>1, <1>3 DEF LookedUp, prefixIdxLimit
<1>5. ~InDict(c)
  BY <1>1, <1>3 DEF InDict, maybe_extMem, Calls, SmallSingle, LargeSingle, Prefixed, External, Attached
<1> HIDE DEF c, x
<1>6. ASSUME e < x, x - e <= DISTANCE_MAX, base + e >= low
      PROVE  IsData(c, a)
  BY <1>2, <1>3, <1>5, <1>6 DEF IsData, x
<1>7. DISTANCE_MAX = W - 1 /\ W \in Nat
  BY DEF W
<1>8. CASE SmallSingle
  <2>1. low = call.source /\ call.tableType = "byU16" /\ ~Fresh /\ ~FromDict
    BY <1>8 DEF SmallSingle, Fresh, FromDict
  <2>2. CASE Wrapped
    BY <1>1, <1>4, <2>2 DEF Wrapped
  <2>3. CASE ~Wrapped /\ call.startIndex = 0 /\ call.n < W + MFLIMIT - 1
    BY <1>1, <1>2, <1>6, <1>7, <2>1, <2>3 DEF Old, x
  <2>4. CASE /\ ~Wrapped /\ call.startIndex + call.n < DISTANCE_MAX /\ call.issue = "dictSmall"
             /\ call.dictSize = 0
    BY <1>1, <1>2, <1>4, <1>6, <1>7, <2>1, <2>4 DEF Old, x
  <2> QED
    BY <1>8, <2>2, <2>3, <2>4 DEF SmallSingle
<1>9. CASE LargeSingle
  <2>1. /\ low = call.source /\ e + DISTANCE_MAX >= x /\ ~Wrapped
        /\ call.startIndex = 0 \/ (call.startIndex >= W /\ Fresh)
    BY <1>1, <1>4, <1>9 DEF LargeSingle, Wrapped, Fresh
  <2> QED
    BY <1>1, <1>2, <1>6, <1>7, <2>1 DEF Old, x
<1>10. CASE Prefixed
  <2>1. /\ low = call.source - call.dictSize /\ e + DISTANCE_MAX >= x /\ ~Wrapped
        /\ \/ e >= call.startIndex - call.dictSize
           \/ call.dictSize >= W \/ call.dictSize >= call.startIndex
    BY <1>1, <1>4, <1>10 DEF Prefixed, Wrapped, IssueTold
  <2> QED
    BY <1>1, <1>2, <1>6, <1>7, <2>1 DEF Old, x
<1>11. CASE External \/ Attached
  <2>1. low = call.source /\ e >= call.startIndex /\ e + DISTANCE_MAX >= x /\ ~Wrapped
    BY <1>1, <1>4, <1>11 DEF External, Attached, Wrapped, maybe_extMem
  <2> QED
    BY <1>1, <1>2, <1>6, <1>7, <2>1 DEF Old, x
<1> QED
  BY <1>8, <1>9, <1>10, <1>11 DEF Calls, c

(* So is what is looked up in a dictionary, by either table.               *)
LEMMA DictIsData ==
  ASSUME FastTypeOK, Calls, NEW a \in Nat, call.source < a, NEW e \in Nat, e < call.startIndex,
         NEW i \in Int, NEW addr \in Int,
         \/ /\ External /\ Old(e)
            /\ i = e /\ addr = dictEnd - call.startIndex + e
         \/ /\ Attached /\ \E h \in Hashes : i = dictLz.table[h] + dictDelta
                                             /\ addr = dictEnd - W + dictLz.table[h],
         LookedUp([index |-> i, addr |-> addr, low |-> call.dictionary], a)
  PROVE  IsData([index |-> i, addr |-> addr, low |-> call.dictionary], a)
<1> USE WindowNumbers, Numbers, Lz4Assumption, FastAssumption
<1> DEFINE c == [index |-> i, addr |-> addr, low |-> call.dictionary]
           x == Index(a)
<1>1. /\ call.source \in Nat /\ call.n \in Nat /\ BlockTypeOK
      /\ call.startIndex \in Nat /\ call.dictionary \in Nat /\ call.dictSize \in Nat
      /\ call.tableType \in {"byU16", "byU32"}
      /\ base = call.source - call.startIndex
  BY CallTypes DEF FastTypeOK
<1>2. x \in Nat /\ call.startIndex < x
  BY <1>1 DEF Index
<1>3. c.index = i /\ c.addr = addr /\ c.low = call.dictionary
  OBVIOUS
<1>4. call.tableType = "byU32" /\ InDict(c)
  BY <1>3 DEF InDict, maybe_extMem, External, Attached
<1>5. /\ call.issue = "dictSmall" => i >= call.startIndex - call.dictSize
      /\ i + DISTANCE_MAX >= x
  BY <1>1, <1>3, <1>4 DEF LookedUp, prefixIdxLimit
<1>6. dictEnd = call.dictionary + call.dictSize /\ dictEnd \in Int
  BY <1>1 DEF dictEnd
<1> HIDE DEF c, x
<1>7. ASSUME i < x, x - i <= DISTANCE_MAX, addr >= call.dictionary, addr + MINMATCH <= dictEnd
      PROVE  IsData(c, a)
  BY <1>3, <1>4, <1>7 DEF IsData, x
<1>8. DISTANCE_MAX = W - 1 /\ W \in Nat
  BY DEF W
<1>9. CASE External /\ Old(e) /\ i = e /\ addr = dictEnd - call.startIndex + e
  <2>1. /\ call.startIndex >= MINMATCH \/ call.startIndex >= W
        /\ \/ i >= call.startIndex - call.dictSize
           \/ call.dictSize >= W \/ call.dictSize >= call.startIndex
           \/ FromDict /\ call.startIndex >= W
    BY <1>1, <1>5, <1>9 DEF External, IssueTold
  <2>2. /\ e + MINMATCH <= call.startIndex \/ (e = 0 /\ call.startIndex >= W)
        /\ FromDict => e = 0 \/ e >= call.startIndex - call.dictSize
    BY <1>1, <1>9, <2>1 DEF Old
  <2> QED
    BY <1>1, <1>2, <1>5, <1>6, <1>7, <1>8, <1>9, <2>1, <2>2 DEF c
<1>10. ASSUME Attached, NEW h \in Hashes, i = dictLz.table[h] + dictDelta,
              addr = dictEnd - W + dictLz.table[h]
       PROVE  IsData(c, a)
  <2> DEFINE f == dictLz.table[h]
  <2>1. f \in Nat /\ dictLz.currentOffset = W /\ dictLz.dictSize = call.dictSize
    BY <1>10 DEF FastTypeOK, FastStates, Attached, LoadedDict
  <2>2. f = 0 \/ (W - call.dictSize <= f /\ f + MINMATCH <= W)
    BY <1>10 DEF Attached, LoadedDict
  <2>3. i = f + call.startIndex - W /\ addr = dictEnd - W + f
    BY <1>1, <1>10, <2>1 DEF dictDelta
  <2> HIDE DEF f
  <2> QED
    BY <1>1, <1>2, <1>5, <1>6, <1>7, <1>8, <2>1, <2>2, <2>3 DEF c
<1> QED
  BY <1>9, <1>10 DEF c

LEMMA CandidateIsData ==
  ASSUME FastTypeOK, Calls, NEW table \in [Hashes -> Nat], NEW a \in Nat,
         call.source < a, a < mflimitPlusOne, KnowsBefore(table, Index(a)),
         LookedUp(Candidate(table, a), a)
  PROVE  IsData(Candidate(table, a), a)
<1> DEFINE h   == HashAt(a, call.tableType)
           own == table[h]
           f   == dictLz.table[h]
           low == IF call.directive = "withPrefix64k" THEN call.source - call.dictSize
                  ELSE call.source
<1>1. /\ call.source \in Nat /\ BlockTypeOK /\ dictLz \in FastStates
      /\ call.startIndex \in Nat /\ call.dictionary \in Nat /\ call.dictSize \in Nat
  BY CallTypes DEF FastTypeOK
<1>2. h \in Hashes
  BY HashAtType DEF FastTypeOK, UserTypeOK
<1>3. own \in Nat /\ f \in Nat
  BY <1>1, <1>2 DEF FastStates
<1>4. IF Wrapped THEN own < W ELSE Old(own) \/ own \in call.startIndex .. Index(a) - 1
  BY <1>2 DEF KnowsBefore
<1>5. low \in Int /\ low <= call.source
  BY <1>1
<1>6. /\ call.directive = "withPrefix64k" => low = call.source - call.dictSize
      /\ call.directive # "withPrefix64k" => low = call.source
  OBVIOUS
<1>7. CASE ~(maybe_extMem /\ own < call.startIndex)
  <2>1. Candidate(table, a) = [index |-> own, addr |-> base + own, low |-> low]
    BY <1>7 DEF Candidate
  <2>2. maybe_extMem => own >= call.startIndex
    BY <1>1, <1>3, <1>7
  <2> HIDE DEF h, own, low
  <2> QED
    BY <1>1, <1>3, <1>4, <1>5, <1>6, <2>1, <2>2, OwnIsData
<1>8. ASSUME maybe_extMem, own < call.startIndex
      PROVE  /\ External \/ Attached
             /\ Old(own) /\ dictEnd \in Int
  <2>1. External \/ Attached
    BY <1>8 DEF maybe_extMem, Calls, SmallSingle, LargeSingle, Prefixed
  <2>2. ~Wrapped
    BY <2>1 DEF External, Attached, Wrapped
  <2> HIDE DEF h, own
  <2>3. Old(own) /\ dictEnd \in Int
    BY <1>1, <1>3, <1>4, <1>8, <2>2 DEF dictEnd
  <2> QED
    BY <2>1, <2>3
<1>9. CASE maybe_extMem /\ own < call.startIndex /\ call.directive # "usingDictCtx"
  <2> DEFINE addr == dictEnd - call.startIndex + own
  <2>1. Candidate(table, a) = [index |-> own, addr |-> addr, low |-> call.dictionary]
    BY <1>9 DEF Candidate, dictBase
  <2>2. External /\ Old(own) /\ addr \in Int
    BY <1>1, <1>3, <1>8, <1>9 DEF Attached
  <2> HIDE DEF h, own
  <2>3. own \in Int /\ own < call.startIndex /\ addr = dictEnd - call.startIndex + own
    BY <1>3, <1>9
  <2> HIDE DEF addr
  <2> QED
    BY <1>3, <2>1, <2>2, <2>3, DictIsData
<1>10. CASE maybe_extMem /\ own < call.startIndex /\ call.directive = "usingDictCtx"
  <2> DEFINE i == f + dictDelta
             addr == dictEnd - W + f
  <2>1. Attached /\ dictEnd \in Int
    BY <1>8, <1>10 DEF External
  <2>2. dictLz.currentOffset = W
    BY <2>1 DEF Attached, LoadedDict
  <2>3. Candidate(table, a) = [index |-> i, addr |-> addr, low |-> call.dictionary]
    BY <1>10, <2>2 DEF Candidate, dictBase
  <2>4. i \in Int /\ addr \in Int
    BY <1>1, <1>3, <2>1, <2>2, WindowNumbers DEF dictDelta
  <2>5. \E g \in Hashes : i = dictLz.table[g] + dictDelta /\ addr = dictEnd - W + dictLz.table[g]
    BY <1>2
  <2> HIDE DEF h, own, f, i, addr
  <2> QED
    BY <1>3, <1>10, <2>1, <2>3, <2>4, <2>5, DictIsData
<1> QED
  BY <1>7, <1>9, <1>10

-----------------------------------------------------------------------------
(* What is put into the table.                                             *)
LEMMA IndexFits ==
  ASSUME BlockTypeOK, Calls, ~Wrapped, NEW a \in Nat, call.source <= a, a < mflimitPlusOne
  PROVE  Stored(Index(a), call.tableType) = Index(a)
<1> USE WindowNumbers, Numbers
<1> DEFINE x == Index(a)
<1>1. /\ call.source \in Nat /\ call.n \in Nat /\ call.startIndex \in Nat
      /\ base = call.source - call.startIndex
      /\ mflimitPlusOne = call.source + call.n - MFLIMIT + 1
  BY CallTypes
<1>2. x \in Nat /\ x < call.startIndex + call.n - MFLIMIT + 1
  BY <1>1 DEF Index
<1>3. CASE call.tableType # "byU16"
  BY <1>3 DEF Stored
<1>4. CASE call.tableType = "byU16"
  <2>1. \/ call.startIndex = 0 /\ call.n < W + MFLIMIT - 1
        \/ call.startIndex + call.n < DISTANCE_MAX
    BY <1>4 DEF Calls, SmallSingle, LargeSingle, Prefixed, External, Attached
  <2>2. W = DISTANCE_MAX + 1 /\ MFLIMIT >= 4 /\ DISTANCE_MAX \in Int
    BY Lz4Assumption DEF W
  <2>3. x < W
    BY <1>1, <1>2, <2>1, <2>2
  <2> HIDE DEF x
  <2>4. x % W = x
    <3>1. 0 * W + x = x /\ x \in 0 .. W - 1
      BY <1>2, <2>3
    <3>2. 0 \in Nat /\ x \in Nat /\ W \in Nat \ {0}
      BY <1>2
    <3> QED
      BY ONLY <3>1, <3>2, RemainderUnique
  <2> QED
    BY <1>4, <2>4 DEF Stored, x
<1> QED
  BY <1>3, <1>4

LEMMA PutKnows ==
  ASSUME FastTypeOK, Calls, NEW table \in [Hashes -> Nat], NEW front \in Int, NEW a \in Nat,
         call.source <= a, a < mflimitPlusOne, TableOK(table, front),
         NEW next \in Int, front <= next, Index(a) < next
  PROVE  TableOK(Put(table, a, call.tableType, Index(a)), next)
<1> USE WindowNumbers
<1> DEFINE x    == Index(a)
           y    == Stored(x, call.tableType)
           then == Put(table, a, call.tableType, x)
           g    == HashAt(a, call.tableType)
<1>1. /\ call.source \in Nat /\ call.startIndex \in Nat /\ BlockTypeOK
      /\ base = call.source - call.startIndex
  BY CallTypes DEF FastTypeOK
<1>2. x \in Nat /\ call.startIndex <= x /\ a = call.source + (x - call.startIndex)
  BY <1>1 DEF Index
<1>3. g \in Hashes
  BY HashAtType DEF FastTypeOK, UserTypeOK
<1>4. \A h \in Hashes : then[h] = IF h = g THEN y ELSE table[h]
  BY <1>3 DEF Put
<1>5. ~Wrapped => y = x
  BY <1>1, IndexFits
<1>6. ASSUME Wrapped
      PROVE  y < W
  <2> HIDE DEF x
  <2>1. y = x % W
    BY <1>6 DEF Wrapped, Stored
  <2> QED
    BY <1>2, <2>1
<1> HIDE DEF then, x, y
<1>7. KnowsBefore(then, next)
  <2>1. CASE Wrapped
    BY <1>4, <1>6, <2>1 DEF TableOK, KnowsBefore
  <2>2. CASE ~Wrapped
    <3>1. ASSUME NEW h \in Hashes
          PROVE  Old(then[h]) \/ then[h] \in call.startIndex .. next - 1
      <4>1. CASE h = g
        BY <1>1, <1>2, <1>4, <1>5, <2>2, <4>1 DEF x
      <4>2. CASE h # g
        <5>1. Old(table[h]) \/ table[h] \in call.startIndex .. front - 1
          BY <2>2 DEF TableOK, KnowsBefore
        <5>2. then[h] = table[h]
          BY <1>4, <4>2
        <5> HIDE DEF g
        <5> QED
          BY <1>1, <1>2, <5>1, <5>2
      <4> QED
        BY <4>1, <4>2
    <3> QED
      BY <2>2, <3>1 DEF KnowsBefore
  <2> QED
    BY <2>1, <2>2
<1>8. Hashed4(then)
  <2> SUFFICES ASSUME call.limit = "fillOutput"
               PROVE  /\ call.startIndex = 0 /\ call.directive = "noDict"
                      /\ \A h \in Hashes : then[h] = 0
                                           \/ HashAt(call.source + then[h], call.tableType) = h
    BY DEF Hashed4
  <2>1. /\ call.startIndex = 0 /\ call.directive = "noDict"
        /\ \A h \in Hashes : table[h] = 0 \/ HashAt(call.source + table[h], call.tableType) = h
    BY DEF TableOK, Hashed4
  <2>2. ~Wrapped
    BY <2>1 DEF Wrapped
  <2>3. a = call.source + y
    BY <1>1, <1>2, <1>5, <2>1, <2>2
  <2> QED
    BY <1>4, <2>1, <2>3
<1> QED
  BY <1>7, <1>8 DEF TableOK, then, x

-----------------------------------------------------------------------------
(* Within a block the program's memory and the call stay what they are.    *)
LEMMA RulesKept ==
  ASSUME mem' = mem, call' = call, dictLz' = dictLz, Calls,
         NEW t, NEW f, lz'.table = t, f = Front', TableOK(t, f)
  PROVE  Calls' /\ TableOK(lz.table, Front)'
<1>1. Calls'
  BY DEF Calls, SmallSingle, LargeSingle, Prefixed, External, Attached, Wrapped, IssueTold, FromDict,
         LoadedDict
<1>2. KnowsBefore(lz.table, Front)'
  BY DEF TableOK, KnowsBefore, Wrapped, Old, Fresh, FromDict
<1>3. Hashed4(lz.table)'
  BY DEF TableOK, Hashed4, HashAt, Word, Byte
<1> QED
  BY <1>1, <1>2, <1>3 DEF TableOK

LEMMA MatchedKept ==
  ASSUME mem' = mem, call' = call, NEW a, a = ip', NEW c, c = cand', NEW k, k = 0 \/ k = filled' - ip',
         \A i \in 0 .. k + MINMATCH - 1 : Same(a + i, c.addr + i),
         InDict(c) => c.addr + k + MINMATCH <= dictEnd
  PROVE  (k = 0 => Matched(0)') /\ (k = filled' - ip' => Matched(filled - ip)')
BY DEF Matched, Same, Byte, InDict, maybe_extMem, dictEnd

(* The table of a block that has returned is what the next one begins with.*)
LEMMA KnownAfter ==
  ASSUME FastTypeOK, Calls, lz.tableType = call.tableType,
         lz.currentOffset = call.startIndex + call.n,
         NEW front \in Int, TableOK(lz.table, front), front <= Index(iend) - MINMATCH + 1
  PROVE  Known(lz)
<1> USE WindowNumbers, Numbers
<1>1. /\ call.source \in Nat /\ call.n \in Nat /\ call.startIndex \in Nat /\ BlockTypeOK
      /\ call.tableType \in {"byU16", "byU32"}
      /\ base = call.source - call.startIndex
      /\ lz.table \in [Hashes -> Nat]
  BY CallTypes DEF FastTypeOK, FastStates
<1>2. front <= lz.currentOffset - MINMATCH + 1 /\ call.startIndex <= lz.currentOffset
  BY <1>1 DEF Index, iend
<1>3. CASE Wrapped
  <2>1. lz.tableType = "byU16" /\ ~(lz.currentOffset < W)
    BY <1>1, <1>2, <1>3 DEF Wrapped
  <2> QED
    BY <2>1 DEF Known
<1>4. CASE ~Wrapped
  <2>1. ASSUME NEW h \in Hashes
        PROVE  lz.table[h] = 0 \/ lz.table[h] + MINMATCH <= lz.currentOffset
    <3> DEFINE e == lz.table[h]
    <3>1. e \in Nat /\ (Old(e) \/ e \in call.startIndex .. front - 1)
      BY <1>1, <1>4 DEF TableOK, KnowsBefore
    <3> HIDE DEF e
    <3>2. e = 0 \/ e + MINMATCH <= lz.currentOffset
      BY <1>1, <1>2, <3>1 DEF Old
    <3> QED
      BY <3>2 DEF e
  <2>2. lz.tableType # "cleared"
    BY <1>1
  <2> QED
    BY <2>1, <2>2 DEF Known
<1> QED
  BY <1>3, <1>4

(* What is true of a block between its steps.                              *)
BlockData ==
  /\ ~stray
  /\ pc = "returned" => Known(lz)
  /\ InSearch => Searching
  /\ Continuing

LEMMA ContinuingKept ==
  ASSUME Continuing, pc \notin {"idle", "returned"}, lz \in FastStates,
         UNCHANGED <<userVars, call, dictLz>>, NEW t, lz' = [lz EXCEPT !.table = t]
  PROVE  Continuing'
<1> DEFINE s == IF ExternalMode THEN [lz EXCEPT !.dictionary = call.source, !.dictSize = call.n] ELSE lz
<1>1. status = "open" => at = call.source + call.n /\ DictPlaced(s)
  BY DEF Continuing, Idle
<1>2. /\ s.tableType = lz.tableType /\ s.currentOffset = lz.currentOffset /\ s.dictCtx = lz.dictCtx
      /\ s.dictionary = IF ExternalMode THEN call.source ELSE lz.dictionary
      /\ s.dictSize = IF ExternalMode THEN call.n ELSE lz.dictSize
  BY DEF FastStates
<1>3. /\ s'.tableType = lz.tableType /\ s'.currentOffset = lz.currentOffset /\ s'.dictCtx = lz.dictCtx
      /\ s'.dictionary = IF ExternalMode THEN call.source ELSE lz.dictionary
      /\ s'.dictSize = IF ExternalMode THEN call.n ELSE lz.dictSize
  BY DEF FastStates, ExternalMode
<1> HIDE DEF s
<1>4. DictPlaced(s) => DictPlaced(s)'
  BY <1>2, <1>3 DEF DictPlaced, LoadedDict, userVars
<1>5. status = "open" => at' = call'.source + call'.n /\ DictPlaced(s)'
  BY <1>1, <1>4 DEF userVars
<1>6. status' = status
  BY DEF userVars
<1> QED
  BY <1>5, <1>6 DEF Continuing, s

LEMMA SearchingKept ==
  ASSUME BlockData, pc \notin {"idle", "returned"}, lz \in FastStates, InSearch,
         UNCHANGED <<userVars, call, dictLz>>, NEW t, lz' = [lz EXCEPT !.table = t],
         NEW f, f = Front', TableOK(t, f), ~stray', pc' # "returned", pc' # "first",
         pc' = "search" => forward' <= mflimitPlusOne,
         pc' = "literals" => Matched(0)',
         pc' = "nextMatch" =>
           /\ filled' < mflimitPlusOne
           /\ filled' >= ip' /\ ~NoRoomFor(op') => Matched(filled - ip)',
         pc' = "test" => filled' < mflimitPlusOne /\ (filled' >= ip' => NoRoomFor(op' + 1))
  PROVE  BlockData'
<1>1. Continuing'
  BY ContinuingKept DEF BlockData
<1>2. /\ Calls /\ lz.tableType = call.tableType /\ lz.currentOffset = call.startIndex + call.n
  BY DEF BlockData, Searching
<1>3. /\ lz'.table = t /\ lz'.tableType = lz.tableType /\ lz'.currentOffset = lz.currentOffset
  BY DEF FastStates
<1>4. Calls' /\ TableOK(lz.table, Front)'
  BY <1>2, <1>3, RulesKept DEF userVars
<1>5. mflimitPlusOne' = mflimitPlusOne
  BY DEF mflimitPlusOne, iend
<1>6. \A o : (NoRoomFor(o) <=> (call.limit = "fillOutput" /\ o + MATCH_ROOM > call.room))
  BY DEF NoRoomFor
<1>7. Searching'
  BY <1>2, <1>3, <1>4, <1>5, <1>6 DEF Searching, NoRoomFor
<1> QED
  BY <1>1, <1>7 DEF BlockData

LEMMA ReturnedKept ==
  ASSUME FastTypeOK, BlockData, InSearch, UNCHANGED <<userVars, call, dictLz, lz, stray>>, pc' = "returned",
         Front <= Index(iend) - MINMATCH + 1, Front \in Int
  PROVE  BlockData'
<1>1. Searching /\ pc \notin {"idle", "returned"} /\ lz \in FastStates
  BY DEF BlockData, InSearch, FastTypeOK
<1>2. Known(lz)
  BY <1>1, KnownAfter DEF Searching
<1>3. Known(lz)'
  BY <1>2 DEF Known
<1>4. lz' = [lz EXCEPT !.table = lz.table]
  BY <1>1 DEF FastStates
<1>5. Continuing /\ UNCHANGED <<userVars, call, dictLz>>
  BY DEF BlockData
<1>6. Continuing'
  BY ONLY <1>1, <1>4, <1>5, ContinuingKept
<1> QED
  BY <1>3, <1>6 DEF BlockData, InSearch

LEMMA TableOKLater ==
  ASSUME BlockTypeOK, NEW table, NEW f \in Int, NEW g \in Int, f <= g, TableOK(table, f)
  PROVE  TableOK(table, g)
<1>1. call.startIndex \in Nat
  BY CallTypes
<1> QED
  BY <1>1 DEF TableOK, KnowsBefore

(* The search ends, and the table with it.                                 *)
LEMMA EndsSearch ==
  ASSUME FastTypeOK, BlockData, InSearch, UNCHANGED <<userVars, call, dictLz, stray>>,
         lz' = [lz EXCEPT !.table = lz.table], pc' = "last",
         Front \in Int, Front <= Index(iend) - MINMATCH + 1
  PROVE  BlockData'
<1>1. /\ BlockTypeOK /\ Searching /\ pc \notin {"idle", "returned"} /\ lz \in FastStates /\ ~stray'
      /\ Index(iend) - MINMATCH + 1 \in Int
  BY CallTypes, Numbers DEF BlockData, InSearch, FastTypeOK, Index, iend
<1>2. TableOK(lz.table, Index(iend) - MINMATCH + 1)
  BY <1>1, TableOKLater DEF Searching
<1>3. Index(iend) - MINMATCH + 1 = Front'
  BY DEF Front, Index, iend, base
<1> QED
  BY <1>1, <1>2, <1>3, SearchingKept

LEMMA FirstByteData ==
  ASSUME OutputInv, BlockData, FirstByte
  PROVE  BlockData'
<1> USE Numbers
<1> DEFINE t == Put(lz.table, ip, call.tableType, call.startIndex)
<1>1. /\ FastTypeOK /\ BlockTypeOK /\ lz \in FastStates /\ lz.table \in [Hashes -> Nat] /\ ip \in Nat
      /\ call.source \in Nat /\ call.n \in Nat /\ call.startIndex \in Nat
      /\ base = call.source - call.startIndex
      /\ mflimitPlusOne = call.source + call.n - MFLIMIT + 1
  BY CallTypes DEF OutputInv, FastTypeOK, BlockTypeOK, FastStates
<1>2. pc = "first" /\ pc' = "search" /\ forward' = ip + 1 /\ UNCHANGED <<userVars, call, dictLz, stray>>
  BY DEF FirstByte, Kept
<1>3. lz' = [lz EXCEPT !.table = t]
  BY <1>1 DEF FirstByte, FastStates
<1>4. InSearch /\ Searching /\ ~stray
  BY <1>2 DEF InSearch, BlockData
<1>5. ip = call.source /\ call.source < mflimitPlusOne /\ Calls
  BY <1>2, <1>4 DEF OutputInv, InBlock, Searching
<1>6. Front = call.startIndex /\ Index(ip) = call.startIndex
  BY <1>1, <1>2, <1>5 DEF Front, Index
<1>7. TableOK(lz.table, call.startIndex)
  BY <1>4, <1>6 DEF Searching
<1>8. TableOK(Put(lz.table, ip, call.tableType, Index(ip)), Index(ip) + 1)
  BY <1>1, <1>5, <1>6, <1>7, PutKnows
<1>9. TableOK(t, Index(ip) + 1)
  BY <1>6, <1>8
<1> HIDE DEF t
<1>10. Index(ip) + 1 = Front'
  BY <1>1, <1>2 DEF Front, Index, base
<1>11. forward' <= mflimitPlusOne
  BY <1>1, <1>2, <1>5
<1> QED
  BY <1>1, <1>2, <1>3, <1>4, <1>9, <1>10, <1>11, SearchingKept

(* A candidate that is accepted is a match, and part of the data.          *)
LEMMA AcceptedIsMatch ==
  ASSUME FastTypeOK, Calls, NEW table \in [Hashes -> Nat], NEW a \in Nat,
         call.source < a, a < mflimitPlusOne, KnowsBefore(table, Index(a))
  PROVE  LET c == Candidate(table, a)
             m == MatchOf(c, a)
         IN  /\ LookedUp(c, a) => IsData(c, a)
             /\ Accepted(c, a) =>
                  /\ \A i \in 0 .. 0 + MINMATCH - 1 : Same(a + i, m.addr + i)
                  /\ InDict(m) => m.addr + 0 + MINMATCH <= dictEnd
<1> USE Numbers
<1> DEFINE c == Candidate(table, a)
           m == MatchOf(c, a)
<1>1. LookedUp(c, a) => IsData(c, a)
  BY CandidateIsData
<1>2. c.addr \in Int /\ m.addr = c.addr /\ m.low = c.low
  BY CandidateType DEF MatchOf
<1> HIDE DEF c, m
<1>3. ASSUME Accepted(c, a)
      PROVE  /\ \A i \in 0 .. 0 + MINMATCH - 1 : Same(a + i, m.addr + i)
             /\ InDict(m) => m.addr + 0 + MINMATCH <= dictEnd
  <2>1. IsData(c, a) /\ Word(c.addr, MINMATCH) = Word(a, MINMATCH)
    BY <1>1, <1>3 DEF Accepted
  <2>2. ASSUME NEW i \in 0 .. 0 + MINMATCH - 1
        PROVE  Same(a + i, m.addr + i)
    <3>1. i + 1 \in 1 .. MINMATCH /\ c.addr + (i + 1) - 1 = c.addr + i /\ a + (i + 1) - 1 = a + i
      BY <1>2
    <3>2. Word(c.addr, MINMATCH)[i + 1] = Byte(c.addr + (i + 1) - 1)
          /\ Word(a, MINMATCH)[i + 1] = Byte(a + (i + 1) - 1)
      BY <3>1 DEF Word
    <3> QED
      BY <1>2, <2>1, <3>1, <3>2 DEF Same
  <2>3. InDict(m) => m.addr + 0 + MINMATCH <= dictEnd
    BY <1>2, <2>1 DEF IsData, InDict
  <2> QED
    BY <2>2, <2>3
<1> QED
  BY <1>1, <1>3 DEF c, m

LEMMA SearchData ==
  ASSUME OutputInv, BlockData, Search
  PROVE  BlockData'
<1> USE Numbers
<1> DEFINE t == Put(lz.table, forward, call.tableType, Index(forward))
           c == Candidate(lz.table, forward)
           m == MatchOf(c, forward)
<1>1. /\ FastTypeOK /\ BlockTypeOK /\ lz \in FastStates /\ lz.table \in [Hashes -> Nat]
      /\ ip \in Nat /\ forward \in Nat /\ tries \in Nat
      /\ call.source \in Nat /\ call.n \in Nat /\ call.startIndex \in Nat
      /\ base = call.source - call.startIndex
      /\ mflimitPlusOne = call.source + call.n - MFLIMIT + 1
  BY CallTypes DEF OutputInv, FastTypeOK, BlockTypeOK, FastStates
<1>2. pc = "search" /\ UNCHANGED <<userVars, call, dictLz, filled, op>>
  BY DEF Search, Kept
<1>3. InSearch /\ Searching /\ ~stray
  BY <1>2 DEF InSearch, BlockData
<1>4. call.source < forward /\ Calls /\ Front = Index(forward) /\ TableOK(lz.table, Index(forward))
  BY <1>2, <1>3 DEF OutputInv, InBlock, Searching, Front
<1>5. step \in Nat \ {0} /\ Index(forward) = forward - base
  BY <1>1, StepIs DEF Index
<1>8. forward <= mflimitPlusOne /\ MFLIMIT >= MINMATCH
  BY <1>1, <1>2, <1>3, Lz4Assumption DEF Searching
<1>6. CASE forward + step > mflimitPlusOne
  <2>1. pc' = "last" /\ UNCHANGED <<lz, ip, forward, tries, cand, stray>>
    BY <1>6 DEF Search
  <2>2. lz' = [lz EXCEPT !.table = lz.table]
    BY <1>1, <2>1 DEF FastStates
  <2>3. Front \in Int /\ Front <= Index(iend) - MINMATCH + 1
    BY <1>1, <1>4, <1>5, <1>8 DEF Index, iend
  <2> QED
    BY <1>1, <1>2, <1>3, <1>4, <2>1, <2>2, <2>3, EndsSearch
<1>7. CASE ~(forward + step > mflimitPlusOne)
  <2>1. /\ lz' = [lz EXCEPT !.table = Put(@, forward, call.tableType, Index(forward))]
        /\ Examine(c, forward)
        /\ ip' = forward /\ forward' = forward + step
        /\ IF Accepted(c, forward) THEN pc' = "literals" /\ cand' = m
           ELSE pc' = "search" /\ cand' = cand
    BY <1>7 DEF Search
  <2>2. lz' = [lz EXCEPT !.table = t]
    BY <1>1, <2>1 DEF FastStates
  <2>3. forward < mflimitPlusOne
    BY <1>1, <1>5, <1>7
  <2>4. TableOK(t, Index(forward) + 1)
    BY <1>1, <1>4, <1>5, <2>3, PutKnows
  <2>5. /\ LookedUp(c, forward) => IsData(c, forward)
        /\ Accepted(c, forward) =>
             /\ \A i \in 0 .. 0 + MINMATCH - 1 : Same(forward + i, m.addr + i)
             /\ InDict(m) => m.addr + 0 + MINMATCH <= dictEnd
    BY <1>1, <1>4, <2>3, AcceptedIsMatch DEF TableOK
  <2> HIDE DEF t, c, m
  <2>6. ~stray'
    BY <1>3, <2>1, <2>5 DEF Examine
  <2>7. CASE pc' = "literals" /\ Accepted(c, forward) /\ cand' = m
    <3>1. Matched(0)'
      BY <1>2, <2>1, <2>5, <2>7, MatchedKept DEF userVars
    <3>2. Index(forward) + 1 = Front'
      BY <1>1, <1>2, <2>1, <2>7 DEF Front, Index, base
    <3> QED
      BY <1>1, <1>2, <1>3, <2>2, <2>4, <2>6, <2>7, <3>1, <3>2, SearchingKept
  <2>8. CASE pc' = "search"
    <3>1. Index(forward) + 1 <= Front' /\ Front' \in Int
      BY <1>1, <1>2, <1>5, <2>1, <2>8 DEF Front, Index, base
    <3>2. TableOK(t, Front')
      BY ONLY <1>1, <1>5, <2>4, <3>1, TableOKLater
    <3> QED
      BY <1>1, <1>2, <1>3, <1>5, <1>7, <2>1, <2>2, <2>6, <2>8, <3>2, SearchingKept
  <2> QED
    BY <2>1, <2>7, <2>8
<1> QED
  BY <1>6, <1>7

-----------------------------------------------------------------------------
(* What the search compares is equal, and the longest there is.            *)
LEMMA CountAtLeast ==
  ASSUME NEW a \in Int, NEW b, NEW limit \in Int, NEW k \in Nat, k <= limit - a,
         \A i \in 0 .. k - 1 : Same(a + i, b + i)
  PROVE  Count(a, b, limit) >= k
<1> DEFINE T == {0} \cup {j \in 1 .. limit - a : \A i \in 0 .. j - 1 : Same(a + i, b + i)}
           m == IF limit - a > 0 THEN limit - a ELSE 0
<1>1. Bounded(T, m) /\ m \in Int /\ T \subseteq Int
  BY DEF Bounded
<1>2. k \in T
  BY DEF Same
<1>3. Count(a, b, limit) = Max(T)
  BY DEF Count
<1> HIDE DEF T, m
<1>4. \A y \in T : y <= Max(T)
  BY <1>1, <1>2, Greatest
<1> QED
  BY <1>2, <1>3, <1>4

LEMMA BackEqual ==
  ASSUME NEW a \in Int, NEW b \in Int, anchor \in Int, cand.low \in Int, anchor <= a
  PROVE  \A i \in 1 .. Back(a, b) : Same(a - i, b - i)
<1> DEFINE most == Min({a - anchor, b - cand.low})
           T == {0} \cup {k \in 1 .. most : \A i \in 1 .. k : Same(a - i, b - i)}
<1>1. most \in Int /\ most <= a - anchor
  BY MinIs
<1>2. Back(a, b) = Max(T)
  BY DEF Back
<1> HIDE DEF most
<1>3. Bounded(T, a - anchor)
  BY <1>1 DEF Bounded
<1>4. \A y \in T : \A i \in 1 .. y : Same(a - i, b - i)
  BY <1>1
<1> HIDE DEF T
<1>5. Max(T) \in T
  BY <1>3, <1>1, Greatest, 0 \in T DEF T
<1> QED
  BY <1>2, <1>4, <1>5

LEMMA LiteralsData ==
  ASSUME OutputInv, BlockData, Literals
  PROVE  BlockData'
<1> USE Numbers
<1> DEFINE k == Back(ip, cand.addr)
           lit == ip - k - anchor
           c == [cand EXCEPT !.addr = @ - k]
<1>1. /\ FastTypeOK /\ BlockTypeOK /\ lz \in FastStates
      /\ ip \in Nat /\ anchor \in Nat
      /\ cand \in [addr : Int, low : Int, offset : Int]
      /\ call.source \in Nat /\ call.n \in Nat /\ call.startIndex \in Nat
      /\ base = call.source - call.startIndex
      /\ mflimitPlusOne = call.source + call.n - MFLIMIT + 1
  BY CallTypes DEF OutputInv, FastTypeOK, BlockTypeOK
<1>2. /\ pc = "literals" /\ filled' = ip
      /\ UNCHANGED <<userVars, call, dictLz, lz, stray, forward, anchor>>
  BY DEF Literals, Kept
<1>3. lz' = [lz EXCEPT !.table = lz.table]
  BY <1>1, <1>2 DEF FastStates
<1>4. InSearch /\ Searching /\ ~stray
  BY <1>2 DEF InSearch, BlockData
<1>5. anchor <= ip /\ ip < mflimitPlusOne
  BY <1>2 DEF OutputInv, InBlock
<1>6. Front = Index(ip) + 1 /\ Index(ip) = ip - base
  BY <1>2 DEF Front, Index
<1>7. Front \in Int /\ Front <= Index(iend) - MINMATCH + 1
  BY <1>1, <1>5, <1>6, Lz4Assumption DEF Index, iend
<1>8. \/ pc' = "returned"
      \/ pc' = "last"
      \/ pc' = "nextMatch" /\ ip' = ip - k /\ cand' = c
  BY DEF Literals, Return
<1>9. CASE pc' = "returned"
  BY <1>1, <1>2, <1>4, <1>7, <1>9, ReturnedKept
<1>10. CASE pc' = "last"
  BY <1>1, <1>2, <1>3, <1>4, <1>7, <1>10, EndsSearch
<1>11. CASE pc' = "nextMatch" /\ ip' = ip - k /\ cand' = c
  <2>1. k \in Nat /\ \A i \in 1 .. k : Same(ip - i, cand.addr - i)
    BY <1>1, <1>5, BackWithin, BackEqual
  <2>2. c.addr = cand.addr - k /\ c.low = cand.low
    BY <1>1
  <2>3. /\ \A i \in 0 .. 0 + MINMATCH - 1 : Same(ip + i, cand.addr + i)
        /\ InDict(cand) => cand.addr + 0 + MINMATCH <= dictEnd
    BY <1>2, <1>4 DEF Searching, Matched
  <2> HIDE DEF k, c
  <2>4. ASSUME NEW i \in 0 .. k + MINMATCH - 1
        PROVE  Same((ip - k) + i, c.addr + i)
    <3>1. CASE i < k
      <4>1. k - i \in 1 .. k /\ (ip - k) + i = ip - (k - i) /\ c.addr + i = cand.addr - (k - i)
        BY <1>1, <2>1, <2>2, <3>1
      <4> QED
        BY <2>1, <4>1
    <3>2. CASE i >= k
      <4>1. /\ i - k \in 0 .. 0 + MINMATCH - 1 /\ (ip - k) + i = ip + (i - k)
            /\ c.addr + i = cand.addr + (i - k)
        BY <1>1, <2>1, <2>2, <3>2
      <4> QED
        BY <2>3, <4>1
    <3> QED
      BY <2>1, <3>1, <3>2
  <2>5. InDict(c) => c.addr + k + MINMATCH <= dictEnd
    <3>1. c.addr + k + MINMATCH = cand.addr + 0 + MINMATCH
      BY <1>1, <2>1, <2>2
    <3> QED
      BY <2>2, <2>3, <3>1 DEF InDict
  <2>6. k = filled' - ip'
    BY <1>1, <1>2, <1>11, <2>1
  <2>7. Matched(filled - ip)'
    BY <1>2, <1>11, <2>4, <2>5, <2>6, MatchedKept DEF userVars
  <2>8. Front = Front'
    <3>1. Front' = (IF filled' > ip' THEN filled' ELSE ip') - base' + 1
      BY <1>11 DEF Front, Index
    <3>2. base' = base
      BY <1>2 DEF base
    <3> QED
      BY <1>1, <1>2, <1>6, <1>11, <2>1, <3>1, <3>2
  <2>9. TableOK(lz.table, Front)
    BY <1>4 DEF Searching
  <2>10. filled' < mflimitPlusOne /\ pc' = "nextMatch" /\ ~stray' /\ pc = "literals"
         /\ UNCHANGED <<userVars, call, dictLz>>
    BY <1>2, <1>4, <1>5, <1>11
  <2> QED
    BY ONLY <1>1, <1>3, <1>4, BlockData, <2>7, <2>8, <2>9, <2>10, SearchingKept
<1> QED
  BY <1>8, <1>9, <1>10, <1>11

(* A match goes back over what was found equal before its beginning.       *)
LEMMA CodeAtLeast ==
  ASSUME BlockTypeOK, ip < mflimitPlusOne, filled < mflimitPlusOne, filled >= ip,
         Matched(filled - ip)
  PROVE  MatchCode >= filled - ip
<1> USE Numbers
<1> DEFINE k == filled - ip
           a == ip + MINMATCH
           b == cand.addr + MINMATCH
           limit == IF InDict(cand) THEN Min({ip + (dictEnd - cand.addr), matchlimit}) ELSE matchlimit
           first == Count(a, b, limit)
           second == Count(limit, call.source, matchlimit)
<1>1. /\ ip \in Nat /\ filled \in Nat /\ call.source \in Nat /\ call.n \in Nat /\ cand.addr \in Int
      /\ dictEnd \in Int /\ matchlimit \in Int /\ iend \in Int
  BY DEF BlockTypeOK, FastCalls, dictEnd, matchlimit, iend
<1>2. k \in Nat /\ a \in Int /\ b \in Int
  BY <1>1
<1>3. /\ \A i \in 0 .. k + MINMATCH - 1 : Same(ip + i, cand.addr + i)
      /\ InDict(cand) => cand.addr + k + MINMATCH <= dictEnd
  BY DEF Matched
<1>4. \A i \in 0 .. k - 1 : Same(a + i, b + i)
  <2> SUFFICES ASSUME NEW i \in 0 .. k - 1
               PROVE  Same(a + i, b + i)
    OBVIOUS
  <2>1. i + MINMATCH \in 0 .. k + MINMATCH - 1 /\ a + i = ip + (i + MINMATCH)
        /\ b + i = cand.addr + (i + MINMATCH)
    BY <1>1, <1>2
  <2> QED
    BY <1>3, <2>1
<1>5. ip + MINMATCH + k <= matchlimit
  BY <1>1, Lz4Assumption DEF mflimitPlusOne, matchlimit
<1>6. limit \in Int /\ k <= limit - a
  <2>1. CASE InDict(cand)
    <3> DEFINE x == ip + (dictEnd - cand.addr)
    <3>1. x \in Int /\ k <= x - a
      BY <1>1, <1>3, <2>1
    <3>2. limit = Min({x, matchlimit})
      BY <2>1
    <3> HIDE DEF x
    <3>3. limit = IF x <= matchlimit THEN x ELSE matchlimit
      BY <1>1, <3>1, <3>2, MinIs
    <3> QED
      BY <1>1, <1>5, <3>1, <3>3
  <2>2. CASE ~InDict(cand)
    BY <1>1, <1>5, <2>2
  <2> QED
    BY <2>1, <2>2
<1>7. MatchCode = IF InDict(cand) /\ ip + MINMATCH + first = limit THEN first + second ELSE first
  BY DEF MatchCode
<1> HIDE DEF limit
<1>8. first >= k
  BY ONLY <1>2, <1>4, <1>6, CountAtLeast
<1>9. first \in Nat /\ second \in Nat
  BY <1>1, <1>2, <1>6, CountWithin
<1> HIDE DEF first, second, k
<1>10. MatchCode >= k
  BY <1>2, <1>7, <1>8, <1>9 DEF k
<1> QED
  BY <1>10 DEF k

(* A match that is made shorter leaves room for the last literals only.    *)
LEMMA ReducedFills ==
  ASSUME NEW o \in Nat, call.room \in Nat, o + 1 + LASTLITERALS <= call.room
  PROVE  o + ExtensionSize(Reduced(o)) = call.room - 1 - LASTLITERALS
<1> USE Numbers
<1> DEFINE q == call.room - o - 1 - LASTLITERALS
           r == Reduced(o)
           p == q - 1
           a == r - MASK
<1>1. q \in Nat /\ o + q = call.room - 1 - LASTLITERALS
  OBVIOUS
<1>2. r = MASK - 1 + q * MAXBYTE
  BY DEF Reduced
<1> HIDE DEF q, r
<1>3. CASE q = 0
  <2>1. q * MAXBYTE = 0
    BY <1>3
  <2>2. r < MASK
    BY <1>2, <2>1
  <2> QED
    BY <1>1, <1>3, <2>2 DEF ExtensionSize, r
<1>4. CASE q # 0
  <2>1. p \in Nat /\ q = p + 1
    BY <1>1, <1>4
  <2> HIDE DEF p
  <2>2. q * MAXBYTE = p * MAXBYTE + MAXBYTE /\ p * MAXBYTE \in Nat
    BY <2>1
  <2>3. a \in Nat /\ a = p * MAXBYTE + (MAXBYTE - 1) /\ r \in Nat /\ r >= MASK
    BY <1>2, <2>2
  <2>4. MAXBYTE - 1 \in 0 .. MAXBYTE - 1
    OBVIOUS
  <2>5. ExtensionSize(r) = (a \div MAXBYTE) + 1
    BY <2>3 DEF ExtensionSize
  <2> HIDE DEF a
  <2>6. a \div MAXBYTE = p
    BY ONLY <2>1, <2>3, <2>4, Numbers, RemainderUnique
  <2>7. ExtensionSize(r) = q
    BY <2>1, <2>5, <2>6
  <2> QED
    BY <1>1, <2>7 DEF r
<1> QED
  BY <1>3, <1>4

(* What it has passed is removed from the table.                           *)
LEMMA ClearedKnows ==
  ASSUME FastTypeOK, NEW t \in [Hashes -> Nat], call.limit = "fillOutput", NEW from \in Nat,
         call.source <= from, from <= filled, TableOK(t, Index(filled) + 1)
  PROVE  TableOK(Cleared(t, from), Index(from))
<1> USE WindowNumbers
<1> DEFINE gone == {HashAt(a, call.tableType) : a \in from .. filled}
           then == Cleared(t, from)
<1>1. /\ call.source \in Nat /\ call.startIndex \in Nat /\ BlockTypeOK /\ filled \in Nat
      /\ base = call.source - call.startIndex
  BY CallTypes DEF FastTypeOK, BlockTypeOK
<1>2. \A h \in Hashes : then[h] = IF h \in gone THEN 0 ELSE t[h]
  BY DEF Cleared
<1>3. /\ call.startIndex = 0 /\ call.directive = "noDict"
      /\ \A h \in Hashes : t[h] = 0 \/ HashAt(call.source + t[h], call.tableType) = h
  BY DEF TableOK, Hashed4
<1>4. ~Wrapped
  BY <1>3 DEF Wrapped
<1>5. \A h \in Hashes : Old(t[h]) \/ t[h] \in call.startIndex .. (Index(filled) + 1) - 1
  BY <1>4 DEF TableOK, KnowsBefore
<1>6. Index(from) = from - call.source /\ Index(filled) = filled - call.source
  BY <1>1, <1>3 DEF Index
<1> HIDE DEF then
<1>7. ASSUME NEW h \in Hashes
      PROVE  Old(then[h]) \/ then[h] \in call.startIndex .. Index(from) - 1
  <2>1. CASE h \in gone
    BY <1>2, <2>1 DEF Old
  <2>2. CASE h \notin gone
    <3> DEFINE a == call.source + t[h]
    <3>1. then[h] = t[h] /\ t[h] \in Nat
      BY <1>2, <2>2
    <3>2. t[h] # 0 => a \notin from .. filled
      BY <1>3, <2>2
    <3>3. t[h] # 0 /\ ~Old(t[h]) => a < from
      BY <1>1, <1>3, <1>5, <1>6, <3>1, <3>2
    <3>4. t[h] = 0 => Old(t[h])
      BY DEF Old
    <3> QED
      BY <1>1, <1>3, <1>6, <3>1, <3>3, <3>4
  <2> QED
    BY <2>1, <2>2
<1>8. KnowsBefore(then, Index(from))
  BY <1>4, <1>7 DEF KnowsBefore
<1>9. Hashed4(then)
  <2>1. ASSUME NEW h \in Hashes
        PROVE  then[h] = 0 \/ HashAt(call.source + then[h], call.tableType) = h
    BY <1>2, <1>3
  <2> QED
    BY <1>3, <2>1 DEF Hashed4
<1> QED
  BY <1>8, <1>9 DEF TableOK, then

LEMMA NextMatchData ==
  ASSUME OutputInv, BlockData, NextMatch
  PROVE  BlockData'
<1> USE Numbers
<1> DEFINE next == op + 2
           code == MatchCode
           long == call.limit # "notLimited" /\ next + (1 + LASTLITERALS) + RestOf(code) > call.room
           full == call.limit = "fillOutput" /\ op + MATCH_ROOM > call.room
           made == IF long THEN Reduced(next) ELSE code
           len  == MINMATCH + made
           back == IF filled > ip THEN filled ELSE ip
           cleared == Cleared(lz.table, ip')
<1>1. /\ FastTypeOK /\ BlockTypeOK /\ lz \in FastStates /\ lz.table \in [Hashes -> Nat]
      /\ ip \in Nat /\ anchor \in Nat /\ filled \in Nat /\ op \in Nat
      /\ call.source \in Nat /\ call.n \in Nat /\ call.startIndex \in Nat /\ call.room \in Nat
      /\ call.limit \in {"notLimited", "limitedOutput", "fillOutput"}
      /\ base = call.source - call.startIndex
      /\ mflimitPlusOne = call.source + call.n - MFLIMIT + 1
  BY CallTypes DEF OutputInv, FastTypeOK, BlockTypeOK, FastStates
<1>2. pc = "nextMatch" /\ UNCHANGED <<userVars, call, dictLz, stray, forward, filled>>
  BY DEF NextMatch, Kept
<1>3. InSearch /\ Searching /\ ~stray
  BY <1>2 DEF InSearch, BlockData
<1>4. anchor <= ip /\ ip < mflimitPlusOne /\ call.source <= anchor
  BY <1>2 DEF OutputInv, InBlock
<1>5. filled < mflimitPlusOne /\ (filled >= ip /\ ~NoRoomFor(op) => Matched(filled - ip))
  BY <1>2, <1>3 DEF Searching
<1>6. /\ Front = Index(back) + 1 /\ Index(back) = back - base
      /\ back \in Nat /\ filled <= back /\ ip <= back /\ (back = filled \/ back = ip)
  BY <1>1, <1>2 DEF Front, Index
<1> HIDE DEF back
<1>7. Front \in Int /\ Front <= Index(iend) - MINMATCH + 1
  BY <1>1, <1>4, <1>5, <1>6, Lz4Assumption DEF Index, iend
<1>8. TableOK(lz.table, Front)
  BY <1>3 DEF Searching
<1>9. code \in Nat /\ ip + MINMATCH + code <= matchlimit
  BY <1>1, <1>4, CodeWithin
<1>10. RestOf(code) \in Nat /\ MATCH_ROOM = MFLIMIT - 1 /\ MATCH_ROOM \in Int /\ MINMATCH = 4
  BY <1>9, RestIs, ExtensionCost, FastAssumption DEF MATCH_ROOM
<1>11. ~full /\ filled >= ip => code >= filled - ip
  BY <1>1, <1>4, <1>5, CodeAtLeast DEF NoRoomFor
<1>12. \/ pc' = "last" /\ lz' = lz
       \/ pc' = "returned" /\ lz' = lz
       \/ /\ ~full /\ (long => call.limit = "fillOutput")
          /\ ip' = ip + len
          /\ lz' = IF long /\ ip' <= filled THEN [lz EXCEPT !.table = Cleared(@, ip')] ELSE lz
          /\ op' = next + ExtensionSize(len - MINMATCH)
          /\ pc' = IF ip' >= mflimitPlusOne THEN "last" ELSE "test"
  BY DEF NextMatch, Return
<1> HIDE DEF code
<1>13. lz = [lz EXCEPT !.table = lz.table]
  BY <1>1 DEF FastStates
<1>14. CASE pc' = "last" /\ lz' = lz
  BY <1>1, <1>2, <1>3, <1>7, <1>13, <1>14, EndsSearch
<1>15. CASE pc' = "returned" /\ lz' = lz
  BY <1>1, <1>2, <1>3, <1>7, <1>15, ReturnedKept
<1>16. CASE /\ ~full /\ (long => call.limit = "fillOutput")
            /\ ip' = ip + len
            /\ lz' = IF long /\ ip' <= filled THEN [lz EXCEPT !.table = Cleared(@, ip')] ELSE lz
            /\ op' = next + ExtensionSize(len - MINMATCH)
            /\ pc' = IF ip' >= mflimitPlusOne THEN "last" ELSE "test"
  <2>1. /\ made \in Nat
        /\ long => op' + 1 + MATCH_ROOM > call.room
    <3>1. CASE ~long
      BY <1>9, <3>1
    <3>2. CASE long
      <4>1. next - 2 + MATCH_ROOM <= call.room /\ next \in Nat
        BY <1>1, <1>10, <1>16, <3>2
      <4>2. made = Reduced(next)
        BY <3>2
      <4>3. Reduced(next) \in Nat
        BY <1>1, <1>9, <3>2, <4>1, ReducedRoom
      <4>4. next + 1 + LASTLITERALS <= call.room
        BY <1>1, <1>10, <4>1, Lz4Assumption
      <4> HIDE DEF next
      <4>5. next + ExtensionSize(Reduced(next)) = call.room - 1 - LASTLITERALS
        BY ONLY <1>1, <4>1, <4>4, ReducedFills
      <4>6. len - MINMATCH = made
        BY <4>2, <4>3
      <4>7. op' = call.room - 1 - LASTLITERALS
        BY <1>16, <4>2, <4>5, <4>6
      <4> QED
        BY <1>1, <1>10, <4>2, <4>3, <4>7, Lz4Assumption
    <3> QED
      BY <3>1, <3>2
  <2>2. ip' \in Nat /\ ip' >= ip + MINMATCH /\ call.source <= ip'
    BY <1>1, <1>4, <1>16, <2>1
  <2>3. ~long => ip' >= back + 1
    <3>1. ~long => ip' = ip + MINMATCH + code
      BY <1>1, <1>9, <1>16
    <3> HIDE DEF long, full
    <3> QED
      BY <1>1, <1>6, <1>9, <1>10, <1>11, <1>16, <3>1
  <2>4. Index(ip') = ip' - base /\ Index(ip') \in Int
    BY <1>1, <2>2 DEF Index
  <2> HIDE DEF long, full, made
  <2>5. CASE ~(long /\ ip' <= filled)
    <3>1. lz' = lz
      BY <1>16, <2>5
    <3>2. CASE pc' = "last"
      BY <1>14, <3>1, <3>2
    <3>3. CASE pc' = "test"
      <4>1. ip' >= back + 1
        BY <1>1, <1>6, <1>10, <2>2, <2>3, <2>5
      <4>2. TableOK(lz.table, Index(ip'))
        <5>1. Front <= Index(ip')
          BY <1>1, <1>6, <2>2, <2>4, <4>1
        <5> QED
          BY ONLY <1>1, <1>7, <1>8, <2>4, <5>1, TableOKLater
      <4>3. Index(ip') = Front'
        BY <1>2, <3>3 DEF Front, Index, base
      <4>4. filled' < mflimitPlusOne /\ ~(filled' >= ip') /\ pc' = "test" /\ ~stray'
        BY <1>1, <1>2, <1>3, <1>5, <1>6, <2>2, <3>3, <4>1
      <4>5. lz' = [lz EXCEPT !.table = lz.table]
        BY <1>13, <3>1
      <4> QED
        BY ONLY <1>1, <1>2, <1>3, BlockData, <4>2, <4>3, <4>4, <4>5, SearchingKept
    <3> QED
      BY <1>16, <3>2, <3>3
  <2>6. CASE long /\ ip' <= filled
    <3>1. lz' = [lz EXCEPT !.table = cleared]
      BY <1>1, <1>16, <2>6 DEF FastStates
    <3>2. call.limit = "fillOutput" /\ back = filled
      BY <1>1, <1>6, <1>10, <1>16, <2>2, <2>6
    <3>3. TableOK(cleared, Index(ip'))
      BY <1>1, <1>6, <1>8, <2>2, <2>6, <3>2, ClearedKnows
    <3> HIDE DEF cleared
    <3>4. CASE pc' = "last"
      <4>1. Index(ip') <= Index(iend) - MINMATCH + 1 /\ Index(iend) - MINMATCH + 1 \in Int
        BY <1>1, <1>6, <1>7, <2>2, <2>4, <2>6, <3>2 DEF Index, iend
      <4>2. TableOK(cleared, Index(iend) - MINMATCH + 1)
        BY ONLY <1>1, <2>4, <3>3, <4>1, TableOKLater
      <4>3. Index(iend) - MINMATCH + 1 = Front'
        BY <1>2, <3>4 DEF Front, Index, iend, base
      <4>4. ~stray'
        BY <1>2, <1>3
      <4> QED
        BY ONLY <1>1, <1>2, <1>3, BlockData, <3>1, <3>4, <4>2, <4>3, <4>4, SearchingKept
    <3>5. CASE pc' = "test"
      <4>1. Index(ip') = Front'
        BY <1>2, <3>5 DEF Front, Index, base
      <4>2. /\ filled' < mflimitPlusOne /\ ~stray'
            /\ NoRoomFor(op' + 1)
        BY <1>2, <1>3, <1>5, <2>1, <2>6, <3>2 DEF NoRoomFor
      <4> QED
        BY ONLY <1>1, <1>2, <1>3, BlockData, <3>1, <3>3, <3>5, <4>1, <4>2, SearchingKept
    <3> QED
      BY <1>16, <3>4, <3>5
  <2> QED
    BY <2>5, <2>6
<1> QED
  BY <1>12, <1>14, <1>15, <1>16

LEMMA TestData ==
  ASSUME OutputInv, BlockData, Test
  PROVE  BlockData'
<1> USE Numbers
<1> DEFINE table == Put(lz.table, ip - 2, call.tableType, Index(ip - 2))
           then  == Put(table, ip, call.tableType, Index(ip))
           c     == Candidate(table, ip)
           m     == MatchOf(c, ip)
<1>0. base \in Int
  BY CallTypes DEF OutputInv, FastTypeOK
<1>1. /\ FastTypeOK /\ BlockTypeOK /\ lz \in FastStates /\ lz.table \in [Hashes -> Nat]
      /\ ip \in Nat /\ anchor \in Nat /\ filled \in Nat /\ op \in Nat
      /\ call.source \in Nat /\ call.n \in Nat /\ call.startIndex \in Nat /\ call.room \in Nat
      /\ base = call.source - call.startIndex
      /\ mflimitPlusOne = call.source + call.n - MFLIMIT + 1
      /\ mem \in [1 .. TOP -> Values]
  BY CallTypes DEF OutputInv, FastTypeOK, BlockTypeOK, FastStates, UserTypeOK
<1>2. pc = "test" /\ UNCHANGED <<userVars, call, dictLz, filled>>
  BY DEF Test, Kept
<1>3. InSearch /\ Searching /\ ~stray
  BY <1>2 DEF InSearch, BlockData
<1>4. anchor = ip /\ ip < mflimitPlusOne /\ call.source + MINMATCH <= ip
  BY <1>2 DEF OutputInv, InBlock
<1>5. Calls /\ filled < mflimitPlusOne /\ (filled >= ip => NoRoomFor(op + 1))
  BY <1>2, <1>3 DEF Searching
<1>6. Front = Index(ip) /\ Index(ip) \in Int /\ Index(ip - 2) \in Int /\ Index(ip - 2) < Index(ip)
  <2>1. Front = Index(ip)
    BY <1>2 DEF Front
  <2>2. Index(ip) = ip - base /\ Index(ip - 2) = (ip - 2) - base
    BY DEF Index
  <2>3. base \in Int /\ ip \in Int
    BY <1>0, <1>1
  <2> QED
    BY ONLY <2>1, <2>2, <2>3
<1>7. TableOK(lz.table, Index(ip))
  BY <1>3, <1>6 DEF Searching
<1>8. ip - 2 \in Nat /\ call.source <= ip - 2 /\ ip - 2 < mflimitPlusOne /\ call.source < ip
  BY <1>1, <1>4, Lz4Assumption
<1>9. table \in [Hashes -> Nat]
  <2>1. Index(ip - 2) \in Nat /\ ip - 2 \in Int
    BY <1>1, <1>8, IndexType
  <2> QED
    BY ONLY <1>1, <2>1, PutType
<1>10. TableOK(table, Index(ip))
  <2>1. Index(ip) <= Index(ip)
    BY <1>6
  <2> QED
    BY ONLY <1>1, <1>5, <1>6, <1>7, <1>8, <2>1, PutKnows
<1>11. /\ LookedUp(c, ip) => IsData(c, ip)
       /\ Accepted(c, ip) =>
            /\ \A i \in 0 .. 0 + MINMATCH - 1 : Same(ip + i, m.addr + i)
            /\ InDict(m) => m.addr + 0 + MINMATCH <= dictEnd
  BY <1>1, <1>4, <1>5, <1>8, <1>9, <1>10, AcceptedIsMatch DEF TableOK
<1>12. TableOK(then, Index(ip) + 1)
  <2>1. Index(ip) \in Int /\ Index(ip) + 1 \in Int /\ Index(ip) <= Index(ip) + 1
        /\ Index(ip) < Index(ip) + 1
    BY <1>6
  <2>2. call.source <= ip
    BY <1>1, <1>8
  <2> HIDE DEF table
  <2> QED
    BY ONLY <1>1, <1>4, <1>5, <1>9, <1>10, <2>1, <2>2, PutKnows
<1>13. /\ lz' = [lz EXCEPT !.table = then]
       /\ Examine(c, ip)
       /\ IF Accepted(c, ip)
            THEN pc' = "nextMatch" /\ cand' = m /\ op' = op + 1 /\ ip' = ip
            ELSE pc' = "search" /\ ip' = ip + 1 /\ forward' = ip + 1
  BY DEF Test
<1> HIDE DEF table, then, c, m
<1>14. ~stray'
  BY <1>3, <1>11, <1>13 DEF Examine
<1>15. CASE Accepted(c, ip)
  <2> DEFINE back == IF filled > ip THEN filled ELSE ip
  <2>1. pc' = "nextMatch" /\ cand' = m /\ op' = op + 1 /\ ip' = ip
    BY <1>13, <1>15
  <2>2. filled' >= ip' => NoRoomFor(op')
    BY <1>2, <1>5, <2>1
  <2>3. Front' = Index(back) + 1 /\ Index(back) + 1 \in Int /\ Index(ip) + 1 \in Int
        /\ Index(ip) + 1 <= Index(back) + 1
    <3>1. Front' = (IF filled' > ip' THEN filled' ELSE ip') - base' + 1
      BY <2>1 DEF Front, Index
    <3>2. base' = base
      BY <1>2 DEF base
    <3>3. back \in Nat /\ ip \in Nat /\ ip <= back
      BY <1>1
    <3>4. Front' = back - base + 1
      BY <1>2, <2>1, <3>1, <3>2
    <3> HIDE DEF back
    <3>5. Index(back) = back - base /\ Index(ip) = ip - base
      BY DEF Index
    <3> QED
      BY ONLY <1>0, <3>3, <3>4, <3>5
  <2> HIDE DEF back
  <2>4. TableOK(then, Index(back) + 1)
    BY ONLY <1>1, <1>12, <2>3, TableOKLater
  <2>5. filled' < mflimitPlusOne
    BY <1>2, <1>5
  <2> QED
    BY ONLY <1>1, <1>2, <1>3, <1>13, <1>14, BlockData, <2>1, <2>2, <2>3, <2>4, <2>5, SearchingKept
<1>16. CASE ~Accepted(c, ip)
  <2>1. pc' = "search" /\ ip' = ip + 1 /\ forward' = ip + 1
    BY <1>13, <1>16
  <2>2. Index(ip) + 1 = Front'
    <3>1. Front' = forward' - base'
      BY <2>1 DEF Front, Index
    <3>2. base' = base
      BY <1>2 DEF base
    <3>3. Index(ip) = ip - base
      BY DEF Index
    <3>4. ip \in Int /\ base \in Int
      BY <1>0, <1>1
    <3> QED
      BY ONLY <2>1, <3>1, <3>2, <3>3, <3>4
  <2>3. forward' <= mflimitPlusOne
    BY <1>1, <1>4, <2>1
  <2> QED
    BY ONLY <1>1, <1>2, <1>3, <1>12, <1>13, <1>14, BlockData, <2>1, <2>2, <2>3, SearchingKept
<1> QED
  BY <1>15, <1>16

LEMMA LastLiteralsData ==
  ASSUME OutputInv, BlockData, LastLiterals
  PROVE  BlockData'
<1> USE Numbers
<1>1. /\ FastTypeOK /\ BlockTypeOK /\ call.source \in Nat /\ call.n \in Nat
      /\ call.startIndex \in Nat /\ base = call.source - call.startIndex
  BY CallTypes DEF OutputInv, FastTypeOK
<1>2. pc = "last" /\ pc' = "returned" /\ UNCHANGED <<userVars, call, dictLz, lz, stray>>
  BY DEF LastLiterals, Return, Kept
<1>3. Front = Index(iend) - MINMATCH + 1 /\ Front \in Int
  BY <1>1, <1>2 DEF Front, Index, iend
<1>4. InSearch
  BY <1>2 DEF InSearch
<1> QED
  BY <1>1, <1>2, <1>3, <1>4, ReturnedKept

LEMMA BlockStepData ==
  ASSUME OutputInv, BlockData, CompressBlock
  PROVE  BlockData'
BY FirstByteData, SearchData, LiteralsData, NextMatchData, TestData, LastLiteralsData
   DEF CompressBlock

-----------------------------------------------------------------------------
(* A block begins: what the functions make of the stream.                  *)
LEMMA RenormKnown ==
  ASSUME NEW s \in FastStates, NEW n \in Nat, n <= MAXBLOCK, Known(s), s.tableType # "byU16",
         s.dictSize <= s.currentOffset
  PROVE  LET r == LZ4_renormDictT(s, n)
         IN  /\ r \in FastStates /\ Known(r) /\ r.tableType = s.tableType /\ r.dictCtx = s.dictCtx
             /\ r.dictSize <= r.currentOffset /\ r.dictionary + r.dictSize = s.dictionary + s.dictSize
             /\ s.dictionary <= r.dictionary /\ (r.dictSize = 0 <=> s.dictSize = 0)
<1> USE WindowNumbers, Numbers
<1> DEFINE delta == s.currentOffset - W
           kept == IF s.dictSize > W THEN W ELSE s.dictSize
           from == s.dictionary + s.dictSize - kept
           table == [h \in Hashes |-> IF s.table[h] < delta THEN 0 ELSE s.table[h] - delta]
           r == [s EXCEPT !.table = table, !.currentOffset = W, !.dictSize = kept, !.dictionary = from]
<1>1. s.currentOffset \in Nat /\ s.dictSize \in Nat /\ s.dictionary \in Nat
      /\ \A h \in Hashes : s.table[h] \in Nat
  BY DEF FastStates
<1>2. CASE s.currentOffset + n <= RENORM
  BY <1>1, <1>2 DEF LZ4_renormDictT
<1>3. CASE ~(s.currentOffset + n <= RENORM)
  <2>1. LZ4_renormDictT(s, n) = r
    BY <1>3 DEF LZ4_renormDictT
  <2>2. delta \in Nat \ {0} /\ delta = s.currentOffset - W
    BY <1>1, <1>3, StreamAssumption, UserAssumption
  <2>3. kept \in Nat /\ kept <= W /\ kept <= s.dictSize /\ (kept = 0 <=> s.dictSize = 0)
        /\ from \in Nat /\ from + kept = s.dictionary + s.dictSize
    BY <1>1
  <2>4. \A h \in Hashes : table[h] = IF s.table[h] < delta THEN 0 ELSE s.table[h] - delta
    OBVIOUS
  <2> HIDE DEF delta, kept, from
  <2>5. table \in [Hashes -> Nat]
    BY <1>1, <2>2
  <2> HIDE DEF table
  <2>6. /\ r \in FastStates /\ r.table = table /\ r.currentOffset = W /\ r.dictSize = kept
        /\ r.dictionary = from /\ r.tableType = s.tableType /\ r.dictCtx = s.dictCtx
    BY <2>3, <2>5 DEF FastStates
  <2> HIDE DEF r
  <2>7. Known(r)
    <3>1. ASSUME NEW h \in Hashes, s.table[h] = 0
          PROVE  table[h] = 0
      BY <2>2, <2>4, <3>1
    <3>2. ASSUME NEW h \in Hashes
          PROVE  table[h] = 0 \/ table[h] + MINMATCH <= W
      <4>1. s.table[h] = 0 \/ s.table[h] + MINMATCH <= s.currentOffset
        BY DEF Known
      <4> QED
        BY <1>1, <2>2, <2>4, <4>1
    <3> QED
      BY <2>6, <3>1, <3>2 DEF Known
  <2>8. s.dictionary <= r.dictionary
    BY <1>1, <2>3, <2>6
  <2> QED
    BY <2>1, <2>3, <2>6, <2>7, <2>8
<1> QED
  BY <1>2, <1>3

(* LZ4_compress_generic, with a stream that is fit for it.                 *)
LEMMA GenericData ==
  ASSUME NEW s \in FastStates, Known(s), NEW source \in Nat, NEW n \in Nat, NEW room \in Nat,
         NEW limit, NEW tableType, NEW directive, NEW issue,
         LZ4_compress_generic(s, source, n, room, limit, tableType, directive, issue),
         NEW table \in [Hashes -> Nat], table = Reread(s.table, s.tableType, tableType),
         n > 0 => Calls' /\ KnowsBefore(table, s.currentOffset)' /\ Hashed4(table)'
  PROVE  ~stray' /\ (pc' = "returned" => Known(lz)') /\ (InSearch => Searching)'
<1> USE WindowNumbers, Numbers, Lz4Assumption
<1>1. /\ call'.source = source /\ call'.n = n /\ call'.startIndex = s.currentOffset
      /\ call'.tableType = tableType /\ ~stray' /\ s.currentOffset \in Nat
  BY DEF LZ4_compress_generic, FastStates
<1>2. CASE pc' = "returned" /\ lz' = s
  BY <1>1, <1>2 DEF InSearch, Known
<1>3. CASE /\ ~(n = 0) /\ pc' = (IF n < LZ4_minLength THEN "last" ELSE "first")
           /\ lz' = [s EXCEPT !.dictCtx = @ /\ directive # "usingDictCtx",
                                   !.dictSize = IF directive = "usingDictCtx" THEN n ELSE @ + n,
                                   !.currentOffset = @ + n, !.tableType = tableType,
                                   !.table = Reread(@, s.tableType, tableType)]
  <2>1. lz'.table = table /\ lz'.tableType = tableType /\ lz'.currentOffset = s.currentOffset + n
    BY <1>3 DEF FastStates
  <2>2. n > 0 /\ Calls' /\ KnowsBefore(table, s.currentOffset)' /\ Hashed4(table)'
    BY <1>3
  <2>3. ASSUME NEW front
        PROVE  KnowsBefore(table, front)'
    <3>1. \A h \in Hashes : ~(table[h] \in call'.startIndex .. s.currentOffset - 1)
      BY <1>1
    <3> QED
      BY <2>2, <3>1 DEF KnowsBefore
  <2>4. Hashed4(lz.table)'
    BY <2>1, <2>2 DEF Hashed4
  <2>5. KnowsBefore(lz.table, Front)'
    <3>1. PICK f : f = Front'
      OBVIOUS
    <3>2. KnowsBefore(table, f)'
      BY <2>3
    <3> QED
      BY <2>1, <3>1, <3>2 DEF KnowsBefore
  <2>6. pc' = "first" => call'.source < mflimitPlusOne'
    BY <1>1, <1>3 DEF mflimitPlusOne, iend, LZ4_minLength
  <2>7. pc' \in {"last", "first"}
    BY <1>3
  <2>8. Searching'
    BY <1>1, <2>1, <2>2, <2>4, <2>5, <2>6, <2>7 DEF Searching, TableOK
  <2> QED
    BY <1>1, <2>7, <2>8
<1> QED
  BY <1>2, <1>3 DEF LZ4_compress_generic

LEMMA GenericContinues ==
  ASSUME NEW s \in FastStates, NEW source \in Nat, NEW n \in Nat, NEW room \in Nat,
         NEW directive \in {"withPrefix64k", "usingExtDict", "usingDictCtx"}, NEW issue,
         LZ4_compress_generic(s, source, n, room, "limitedOutput", "byU32", directive, issue),
         s.tableType # "byU16", at' = source + n,
         n > 0 =>
           /\ layout' = "one" => unsaved'
           /\ layout' = "two" /\ source + n >= SECOND => source >= SECOND
           /\ directive # "usingDictCtx" => ~s.dictCtx,
         directive = "withPrefix64k" =>
           /\ s.dictSize <= s.currentOffset
           /\ n > 0 => s.dictionary + s.dictSize = source
           /\ n > 0 /\ layout' = "two" /\ source + n >= SECOND => s.dictionary >= SECOND
           /\ n = 0 => DictPlaced(s)',
         n = 0 /\ s.dictCtx => LoadedDict(dictLz)'
  PROVE  Continuing'
<1> USE WindowNumbers
<1> DEFINE external == directive \in {"usingExtDict", "usingDictCtx"}
           u == [s EXCEPT !.dictCtx = @ /\ directive # "usingDictCtx",
                          !.dictSize = IF directive = "usingDictCtx" THEN n ELSE @ + n,
                          !.currentOffset = @ + n, !.tableType = "byU32",
                          !.table = Reread(@, s.tableType, "byU32")]
           next(l) == IF external THEN [l EXCEPT !.dictionary = source, !.dictSize = n] ELSE l
<1>1. /\ call'.source = source /\ call'.n = n /\ call'.directive = directive
      /\ s.currentOffset \in Nat /\ s.dictSize \in Nat /\ s.dictionary \in Nat
  BY DEF LZ4_compress_generic, FastStates
<1>2. ASSUME NEW t, DictPlaced(t)', t = next(lz')
      PROVE  Continuing'
  <2>1. t = (IF ExternalMode THEN [lz EXCEPT !.dictionary = call.source, !.dictSize = call.n] ELSE lz)'
    BY <1>1, <1>2 DEF ExternalMode
  <2> QED
    BY <1>1, <1>2, <2>1 DEF Continuing
<1>3. CASE pc' = "returned" /\ lz' = s /\ result' = IF n = 0 THEN EmptyBlock(room, "limitedOutput") ELSE 0
  <2>1. CASE n > 0
    BY <1>3, <2>1 DEF Continuing
  <2>2. CASE n = 0
    <3>1. PICK t : t = next(s)
      OBVIOUS
    <3>2. CASE ~external
      <4>1. t = s /\ directive = "withPrefix64k"
        BY <3>1, <3>2
      <4> QED
        BY <1>2, <1>3, <2>2, <3>1, <4>1
    <3>3. CASE external
      <4>1. /\ t.dictSize = 0 /\ t.tableType # "byU16" /\ t.dictCtx = s.dictCtx
            /\ t.currentOffset = s.currentOffset
        BY <2>2, <3>1, <3>3 DEF FastStates
      <4>2. DictPlaced(t)'
        BY <1>1, <2>2, <4>1 DEF DictPlaced
      <4> QED
        BY <1>2, <1>3, <3>1, <4>2
    <3> QED
      BY <3>2, <3>3
  <2> QED
    BY <2>1, <2>2
<1>4. CASE ~(n = 0) /\ lz' = u
  <2>1. PICK v : v = u
    OBVIOUS
  <2>2. /\ v.currentOffset = s.currentOffset + n /\ v.tableType = "byU32"
        /\ v.dictCtx <=> (s.dictCtx /\ directive # "usingDictCtx")
        /\ v.dictSize = (IF directive = "usingDictCtx" THEN n ELSE s.dictSize + n)
        /\ v.dictionary = s.dictionary
        /\ DOMAIN v = {"table", "currentOffset", "tableType", "dictionary", "dictSize", "dictCtx"}
    BY <2>1 DEF FastStates
  <2> HIDE DEF u
  <2>3. PICK t : t = next(v)
    OBVIOUS
  <2>4. /\ t.currentOffset = s.currentOffset + n /\ t.tableType = "byU32"
        /\ t.dictCtx <=> v.dictCtx
        /\ t.dictSize = IF external THEN n ELSE s.dictSize + n
        /\ t.dictionary = IF external THEN source ELSE s.dictionary
    BY <2>2, <2>3
  <2>5. ~t.dictCtx /\ n > 0 /\ n \in Nat
    BY <1>4, <2>2, <2>4
  <2>6. t.dictSize <= t.currentOffset /\ t.dictionary + t.dictSize = source + n
        /\ (layout' = "two" /\ source + n >= SECOND => t.dictionary >= SECOND)
    BY <1>1, <2>4, <2>5
  <2>7. DictPlaced(t)'
    BY <2>4, <2>5, <2>6 DEF DictPlaced
  <2>8. t = next(lz')
    BY <1>4, <2>1, <2>3
  <2> QED
    BY <1>2, <2>7, <2>8
<1> QED
  BY <1>3, <1>4 DEF LZ4_compress_generic

(* Where the next block goes, and where a dictionary lies from there.      *)
LEMMA PlaceOfBlock ==
  ASSUME UserTypeOK, at >= BUF, NEW word \in Words, Written(word)
  PROVE  LET n == Len(word)
             source == Place(n)
         IN  /\ n \in Nat /\ n <= MAXBLOCK /\ source \in Nat /\ BUF <= source /\ at' = source + n
             /\ ~unsaved /\ status = "open" /\ status' = status /\ layout' = layout
             /\ n > 0 =>
                  /\ layout' = "one" => unsaved'
                  /\ layout' = "two" /\ source + n >= SECOND => source >= SECOND
<1> DEFINE n == Len(word)
           source == Place(n)
<1>1. n \in Nat /\ word \in [1 .. n -> Values]
  BY WordsType
<1>2. /\ BUF \in Nat \ {0} /\ at \in Nat /\ layout \in {"line", "ring", "two", "one"}
      /\ SECOND = BUF + MAXBLOCK + 1 /\ MAXBLOCK \in Nat
  BY Places, UserAssumption DEF UserTypeOK, SECOND
<1>3. /\ n <= MAXBLOCK /\ at' = source + n /\ unsaved' = (layout = "one" /\ word # <<>>)
      /\ ~unsaved /\ status = "open" /\ status' = status /\ layout' = layout
  BY DEF Written
<1>4. n > 0 => word # <<>>
  OBVIOUS
<1> HIDE DEF n
<1>5. /\ source \in Nat /\ BUF <= source
      /\ layout = "two" => source = BUF \/ source = SECOND
  BY <1>1, <1>2 DEF Place
<1> HIDE DEF source
<1>6. n > 0 /\ layout' = "one" => unsaved'
  BY <1>3, <1>4
<1>7. layout' = "two" /\ source + n >= SECOND => source >= SECOND
  BY <1>1, <1>2, <1>3, <1>5
<1>8. n \in Nat
  BY <1>1
<1> QED
  BY ONLY <1>3, <1>5, <1>6, <1>7, <1>8 DEF n, source

LEMMA PrefixPlaced ==
  ASSUME UserTypeOK, at >= BUF, ~unsaved, lz \in FastStates, DictPlaced(lz), NEW n \in Nat,
         lz.dictSize > 0, lz.dictionary + lz.dictSize = Place(n), layout = "two",
         Place(n) >= SECOND
  PROVE  lz.dictionary >= SECOND
<1>1. SECOND \in Nat /\ BUF \in Nat /\ SECOND > BUF
  BY Places, UserAssumption DEF SECOND
<1> QED
  BY <1>1 DEF DictPlaced, FastStates, UserTypeOK

LEMMA ExternalPlaced ==
  ASSUME UserTypeOK, at >= BUF, ~unsaved, lz \in FastStates, DictPlaced(lz), RING >= 2 * MAXBLOCK,
         NEW n \in 1 .. MAXBLOCK, lz.dictSize > 0, lz.dictionary + lz.dictSize # Place(n),
         NEW dictionary \in Nat, lz.dictionary <= dictionary,
         dictionary < lz.dictionary + lz.dictSize,
         ~(Place(n) + n > dictionary /\ Place(n) + n < lz.dictionary + lz.dictSize)
  PROVE  dictionary # Place(n)
<1>1. /\ SECOND \in Nat /\ BUF \in Nat /\ SECOND = BUF + MAXBLOCK + 1 /\ MAXBLOCK \in Nat /\ RING \in Nat
      /\ at \in Nat /\ layout \in {"line", "ring", "two", "one"} /\ lz.dictionary \in Nat /\ lz.dictSize \in Nat
  BY Places, UserAssumption DEF SECOND, UserTypeOK, FastStates
<1> DEFINE end == lz.dictionary + lz.dictSize
           source == Place(n)
<1>2. \/ end <= BUF
      \/ /\ end = at /\ layout # "one"
         /\ layout = "two" /\ at >= SECOND => lz.dictionary >= SECOND
  BY DEF DictPlaced
<1>3. CASE end <= BUF
  BY <1>1, <1>3 DEF Place
<1>4. CASE end = at /\ layout = "line"
  BY <1>1, <1>4 DEF Place
<1>5. CASE end = at /\ layout = "ring"
  <2>1. source = BUF /\ at + n > BUF + RING
    BY <1>1, <1>5 DEF Place
  <2>2. source + n < end
    BY <1>1, <1>5, <2>1
  <2> HIDE DEF source, end
  <2> QED
    BY <1>1, <2>1, <2>2 DEF source, end
<1>6. CASE end = at /\ layout = "two" /\ (at >= SECOND => lz.dictionary >= SECOND)
  <2>1. source = IF at \in BUF + 1 .. BUF + MAXBLOCK THEN SECOND ELSE BUF
    BY <1>6 DEF Place
  <2>2. CASE at \in BUF + 1 .. BUF + MAXBLOCK
    BY <1>1, <1>6, <2>1, <2>2
  <2>3. CASE at >= SECOND
    BY <1>1, <1>6, <2>1, <2>3
  <2>4. CASE at = BUF
    BY <1>1, <1>6, <2>1, <2>4
  <2> QED
    BY <1>1, <2>2, <2>3, <2>4
<1> QED
  BY <1>1, <1>2, <1>3, <1>4, <1>5, <1>6

(* The block begins with the stream s, in one of the four ways.            *)
LEMMA PrefixData ==
  ASSUME NEW s \in FastStates, Known(s), NEW source \in Nat, NEW n \in Nat, NEW room \in Nat,
         LZ4_compress_generic(s, source, n, room, "limitedOutput", "byU32", "withPrefix64k", Issue(s)),
         s.tableType # "byU16", s.dictSize <= s.currentOffset, at' = source + n,
         n > 0 =>
           /\ layout' = "one" => unsaved'
           /\ layout' = "two" /\ source + n >= SECOND => source >= SECOND
           /\ ~s.dictCtx
           /\ s.dictionary + s.dictSize = source
           /\ layout' = "two" /\ source + n >= SECOND => s.dictionary >= SECOND,
         n = 0 => DictPlaced(s)',
         n = 0 /\ s.dictCtx => LoadedDict(dictLz)'
  PROVE  BlockData'
<1> USE WindowNumbers, Numbers
<1>1. PICK issue : issue = Issue(s)
  OBVIOUS
<1>2. LZ4_compress_generic(s, source, n, room, "limitedOutput", "byU32", "withPrefix64k", issue)
  BY <1>1
<1>3. Continuing'
  BY <1>2, GenericContinues
<1>4. PICK table \in [Hashes -> Nat] : table = s.table /\ table = Reread(s.table, s.tableType, "byU32")
  BY DEF Reread, FastStates
<1>5. /\ call'.directive = "withPrefix64k" /\ call'.tableType = "byU32" /\ call'.issue = issue
      /\ call'.startIndex = s.currentOffset /\ call'.dictSize = s.dictSize
      /\ call'.limit = "limitedOutput"
  BY <1>2 DEF LZ4_compress_generic
<1>6. s.currentOffset \in Nat /\ s.dictSize \in Nat
  BY DEF FastStates
<1>7. issue = "dictSmall" \/ s.dictSize >= W \/ s.dictSize >= s.currentOffset
  BY <1>1, <1>6 DEF Issue
<1>8. IssueTold'
  BY <1>5, <1>7 DEF IssueTold
<1>9. Calls'
  BY <1>5, <1>8 DEF Calls, Prefixed
<1>10. KnowsBefore(table, s.currentOffset)'
  BY <1>4, <1>5 DEF KnowsBefore, Wrapped, Old, Fresh, FromDict, Known
<1>11. Hashed4(table)'
  BY <1>5 DEF Hashed4
<1>12. ~stray' /\ (pc' = "returned" => Known(lz)') /\ (InSearch => Searching)'
  BY ONLY Known(s), <1>2, <1>4, <1>9, <1>10, <1>11, GenericData
<1> QED
  BY <1>3, <1>12 DEF BlockData

LEMMA ExternalData ==
  ASSUME NEW s \in FastStates, Known(s), NEW source \in Nat, NEW n \in Nat, NEW room \in Nat,
         NEW issue \in {"noDictIssue", "dictSmall"},
         LZ4_compress_generic(s, source, n, room, "limitedOutput", "byU32", "usingExtDict", issue),
         s.tableType # "byU16", at' = source + n, ~s.dictCtx,
         n > 0 =>
           /\ layout' = "one" => unsaved'
           /\ layout' = "two" /\ source + n >= SECOND => source >= SECOND
           /\ s.dictionary # source
           /\ \/ /\ issue = "dictSmall" \/ s.dictSize >= W \/ s.dictSize >= s.currentOffset
                 /\ s.currentOffset >= MINMATCH
              \/ LoadedDict(s)
  PROVE  BlockData'
<1> USE WindowNumbers, Numbers
<1>1. LZ4_compress_generic(s, source, n, room, "limitedOutput", "byU32", "usingExtDict", issue)
  OBVIOUS
<1>2. n = 0 /\ s.dictCtx => LoadedDict(dictLz)'
  OBVIOUS
<1>3. Continuing'
  BY <1>1, <1>2, GenericContinues
<1>4. PICK table \in [Hashes -> Nat] : table = s.table /\ table = Reread(s.table, s.tableType, "byU32")
  BY DEF Reread, FastStates
<1>5. /\ call'.directive = "usingExtDict" /\ call'.tableType = "byU32" /\ call'.issue = issue
      /\ call'.startIndex = s.currentOffset /\ call'.dictSize = s.dictSize
      /\ call'.limit = "limitedOutput" /\ call'.source = source /\ call'.dictionary = s.dictionary
  BY <1>1 DEF LZ4_compress_generic
<1>6. s.currentOffset \in Nat /\ s.dictSize \in Nat
  BY DEF FastStates
<1>7. ASSUME n > 0
      PROVE  Calls' /\ KnowsBefore(table, s.currentOffset)' /\ Hashed4(table)'
  <2>1. Hashed4(table)'
    BY <1>5 DEF Hashed4
  <2>2. s.dictionary # source
    BY <1>7
  <2>3. CASE /\ issue = "dictSmall" \/ s.dictSize >= W \/ s.dictSize >= s.currentOffset
             /\ s.currentOffset >= MINMATCH
    <3>1. IssueTold'
      BY <1>5, <2>3 DEF IssueTold
    <3>2. Calls'
      BY <1>5, <2>2, <2>3, <3>1 DEF Calls, External
    <3>3. ~FromDict' /\ ~Wrapped' /\ ~Fresh'
      BY <1>5, <1>6, <2>3 DEF FromDict, Wrapped, Fresh
    <3>4. \A h \in Hashes : Old(table[h])'
      BY <1>4, <1>5, <3>3 DEF Old, Known
    <3> QED
      BY <2>1, <3>2, <3>3, <3>4 DEF KnowsBefore
  <2>4. CASE LoadedDict(s) /\ issue = "noDictIssue"
    <3>1. s.currentOffset = W /\ s.dictSize \in 1 .. W
      BY <2>4 DEF LoadedDict
    <3>2. IssueTold' \/ FromDict'
      BY <1>5, <1>6, <2>4, <3>1 DEF IssueTold, FromDict
    <3>3. Calls'
      BY <1>5, <2>2, <3>1, <3>2 DEF Calls, External
    <3>4. ~Wrapped' /\ ~Fresh'
      BY <1>5 DEF Wrapped, Fresh
    <3>5. \A h \in Hashes : Old(table[h])'
      BY <1>4, <1>5, <2>4, <3>1, <3>4 DEF Old, LoadedDict
    <3> QED
      BY <2>1, <3>3, <3>4, <3>5 DEF KnowsBefore
  <2>5. CASE LoadedDict(s) /\ issue = "dictSmall"
    <3>1. s.currentOffset = W
      BY <2>5 DEF LoadedDict
    <3>2. Calls'
      BY <1>5, <2>2, <2>5, <3>1 DEF Calls, External, IssueTold
    <3>3. ~FromDict' /\ ~Wrapped' /\ ~Fresh'
      BY <1>5, <1>6, <2>5 DEF FromDict, Wrapped, Fresh
    <3>4. \A h \in Hashes : Old(table[h])'
      BY <1>4, <1>5, <3>3 DEF Old, Known
    <3> QED
      BY <2>1, <3>2, <3>3, <3>4 DEF KnowsBefore
  <2> QED
    BY <1>7, <2>3, <2>4, <2>5
<1>8. ~stray' /\ (pc' = "returned" => Known(lz)') /\ (InSearch => Searching)'
  BY ONLY Known(s), <1>1, <1>4, <1>7, GenericData
<1> QED
  BY <1>3, <1>8 DEF BlockData

LEMMA AttachedData ==
  ASSUME NEW s \in FastStates, Known(s), NEW source \in Nat, NEW n \in Nat, NEW room \in Nat,
         LZ4_compress_generic(s, source, n, room, "limitedOutput", "byU32", "usingDictCtx", "noDictIssue"),
         s.tableType # "byU16", at' = source + n, BUF <= source, LoadedDict(dictLz), dictLz' = dictLz,
         dictLz \in FastStates,
         n > 0 =>
           /\ layout' = "one" => unsaved'
           /\ layout' = "two" /\ source + n >= SECOND => source >= SECOND
  PROVE  BlockData'
<1> USE WindowNumbers, Numbers
<1>1. LZ4_compress_generic(s, source, n, room, "limitedOutput", "byU32", "usingDictCtx", "noDictIssue")
  OBVIOUS
<1>2. LoadedDict(dictLz)'
  BY DEF LoadedDict
<1>3. Continuing'
  BY <1>1, <1>2, GenericContinues
<1>4. PICK table \in [Hashes -> Nat] : table = s.table /\ table = Reread(s.table, s.tableType, "byU32")
  BY DEF Reread, FastStates
<1>5. /\ call'.directive = "usingDictCtx" /\ call'.tableType = "byU32" /\ call'.issue = "noDictIssue"
      /\ call'.startIndex = s.currentOffset /\ call'.dictSize = dictLz.dictSize
      /\ call'.limit = "limitedOutput" /\ call'.source = source
      /\ call'.dictionary = dictLz.dictionary
  BY <1>1 DEF LZ4_compress_generic
<1>6. dictLz.dictionary # source
  BY Places DEF LoadedDict, FastStates
<1>7. Calls'
  BY <1>2, <1>5, <1>6 DEF Calls, Attached
<1>8. KnowsBefore(table, s.currentOffset)'
  BY <1>4, <1>5 DEF KnowsBefore, Wrapped, Old, Fresh, FromDict, Known
<1>9. Hashed4(table)'
  BY <1>5 DEF Hashed4
<1>10. ~stray' /\ (pc' = "returned" => Known(lz)') /\ (InSearch => Searching)'
  BY ONLY Known(s), <1>1, <1>4, <1>7, <1>8, <1>9, GenericData
<1> QED
  BY <1>3, <1>10 DEF BlockData

LEMMA LoadedKnown ==
  ASSUME NEW d \in FastStates, LoadedDict(d)
  PROVE  Known(d)
BY WindowNumbers DEF LoadedDict, Known

LEMMA OverlapData ==
  ASSUME NEW s \in FastStates, NEW source \in Nat, NEW n \in Nat, s.dictSize > 0, Known(s)
  PROVE  LET end == s.dictionary + s.dictSize
             r == WithoutOverlap(s, end, source, n)
         IN  /\ r \in FastStates /\ Known(r)
             /\ r.tableType = s.tableType /\ r.dictCtx = s.dictCtx /\ r.currentOffset = s.currentOffset
             /\ \/ r.dictionary >= source + n
                \/ r.dictionary = s.dictionary /\ ~(source + n > s.dictionary /\ source + n < end)
<1> USE WindowNumbers
<1> DEFINE end == s.dictionary + s.dictSize
           left == Min({end - (source + n), W})
           kept == IF left < 4 THEN 0 ELSE left
           from == end - kept
           r == [s EXCEPT !.dictSize = kept, !.dictionary = from]
<1>1. WithoutOverlap(s, end, source, n) =
        IF source + n > s.dictionary /\ source + n < end THEN r ELSE s
  BY DEF WithoutOverlap
<1>2. s.dictionary \in Nat /\ s.dictSize \in Nat /\ end \in Nat
  BY DEF FastStates
<1>3. left \in Int /\ left <= end - (source + n)
  BY <1>2, MinIs
<1>4. CASE ~(source + n > s.dictionary /\ source + n < end)
  BY <1>1, <1>4
<1>5. CASE source + n > s.dictionary /\ source + n < end
  <2> HIDE DEF left, end
  <2>1. kept \in Nat /\ from \in Nat /\ from >= source + n
    BY <1>2, <1>3, <1>5
  <2> HIDE DEF kept, from
  <2>2. /\ r \in FastStates /\ r.dictionary = from /\ r.table = s.table /\ r.tableType = s.tableType
        /\ r.dictCtx = s.dictCtx /\ r.currentOffset = s.currentOffset
    BY <2>1 DEF FastStates
  <2> HIDE DEF r
  <2>3. Known(r)
    BY <2>2 DEF Known
  <2> QED
    BY <1>1, <1>5, <2>1, <2>2, <2>3 DEF end
<1> QED
  BY <1>4, <1>5

(* LZ4_compress_fast_continue: what stands before the block, or elsewhere, *)
(* is its dictionary.                                                      *)
LEMMA ContinueData ==
  ASSUME DataInv, RING >= 2 * MAXBLOCK, NEW word \in Words, NEW room \in Rooms,
         CompressContinue(word, room)
  PROVE  BlockData' /\ at' >= BUF
<1> USE WindowNumbers, Numbers
<1>1. /\ UserTypeOK /\ lz \in FastStates /\ dictLz \in FastStates /\ at >= BUF
      /\ Written(word) /\ room \in Nat
  BY StreamAssumption DEF DataInv, OutputInv, FastTypeOK, CompressContinue
<1>2. PICK n, source : n = Len(word) /\ source = Place(n)
  OBVIOUS
<1>3. /\ n \in Nat /\ n <= MAXBLOCK /\ source \in Nat /\ BUF <= source /\ at' = source + n
      /\ ~unsaved /\ status = "open" /\ status' = status /\ layout' = layout
      /\ n > 0 =>
           /\ layout' = "one" => unsaved'
           /\ layout' = "two" /\ source + n >= SECOND => source >= SECOND
  BY ONLY <1>1, <1>2, PlaceOfBlock
<1>4. Known(lz) /\ DictPlaced(lz) /\ dictLz' = dictLz
  BY <1>3 DEF DataInv, CompressContinue, LZ4_compress_fast_continue, LZ4_compress_generic
<1>5. /\ BUF \in Nat \ {0} /\ lz.dictionary \in Nat /\ lz.dictSize \in Nat
      /\ lz.tableType # "byU16" /\ lz.dictSize <= lz.currentOffset
      /\ lz.dictCtx => lz.dictSize = 0 /\ LoadedDict(dictLz)
  BY <1>1, <1>4, Places DEF FastStates, DictPlaced
<1>6. PICK r, end : /\ r = LZ4_renormDictT(lz, n)
                    /\ end = IF lz.dictSize > 0 THEN lz.dictionary + lz.dictSize ELSE NULL
  OBVIOUS
<1>7. /\ r \in FastStates /\ Known(r) /\ r.tableType = lz.tableType /\ r.dictCtx = lz.dictCtx
      /\ r.dictSize <= r.currentOffset /\ r.dictionary + r.dictSize = lz.dictionary + lz.dictSize
      /\ lz.dictionary <= r.dictionary /\ (r.dictSize = 0 <=> lz.dictSize = 0)
  BY ONLY <1>1, <1>3, <1>4, <1>5, <1>6, RenormKnown
<1>8. PICK tiny, end2, b, s :
        /\ tiny = Tiny(r, end, source, n)
        /\ end2 = IF tiny THEN source ELSE end
        /\ b = IF tiny THEN [r EXCEPT !.dictSize = 0, !.dictionary = source] ELSE r
        /\ s = WithoutOverlap(b, end2, source, n)
  BY DEF Tiny
<1> DEFINE Compress(st, directive, issue) ==
             LZ4_compress_generic(st, source, n, room, "limitedOutput", "byU32", directive, issue)
<1>9. IF end2 = source THEN Compress(s, "withPrefix64k", Issue(s))
      ELSE IF s.dictCtx
        THEN IF n > KB4 THEN Compress(dictLz, "usingExtDict", "noDictIssue")
             ELSE Compress(s, "usingDictCtx", "noDictIssue")
      ELSE Compress(s, "usingExtDict", Issue(s))
  BY <1>2, <1>6, <1>8 DEF CompressContinue, LZ4_compress_fast_continue
<1> HIDE DEF Compress
<1>10. r.dictionary \in Nat /\ r.dictSize \in Nat /\ r.currentOffset \in Nat /\ end \in Nat
  BY <1>5, <1>6, <1>7 DEF FastStates
<1>11. tiny <=> (r.dictSize < 4 /\ end # source /\ n > 0 /\ ~r.dictCtx)
  BY <1>8 DEF Tiny
<1>12. CASE tiny
  <2>1. /\ b \in FastStates /\ b.dictSize = 0 /\ b.dictionary = source /\ b.table = r.table
        /\ b.tableType = r.tableType /\ b.dictCtx = r.dictCtx /\ b.currentOffset = r.currentOffset
    BY <1>3, <1>7, <1>8, <1>12 DEF FastStates
  <2>2. end2 = source /\ s = b
    BY <1>3, <1>8, <1>12 DEF WithoutOverlap
  <2>3. Known(s)
    BY <1>7, <2>1, <2>2 DEF Known
  <2>4. Compress(s, "withPrefix64k", Issue(s))
    BY <1>9, <2>2
  <2>5. n > 0 /\ ~s.dictCtx /\ s.dictionary + s.dictSize = source
        /\ s.dictionary = source /\ s.dictSize <= s.currentOffset
    BY <1>3, <1>10, <1>11, <1>12, <2>1, <2>2
  <2> QED
    BY <1>1, <1>3, <1>5, <1>7, <2>1, <2>2, <2>3, <2>4, <2>5, PrefixData DEF Compress
<1>13. CASE ~tiny /\ end = source
  <2>1. end2 = source /\ s = r
    BY <1>3, <1>8, <1>13 DEF WithoutOverlap
  <2>2. lz.dictSize > 0 /\ end = lz.dictionary + lz.dictSize
    BY <1>3, <1>5, <1>6, <1>13
  <2>3. Compress(s, "withPrefix64k", Issue(s))
    BY <1>9, <2>1
  <2>4. ~s.dictCtx /\ s.dictionary + s.dictSize = source
    BY <1>5, <1>7, <1>13, <2>1, <2>2
  <2>5. layout' = "two" /\ source >= SECOND => s.dictionary >= SECOND
    <3>1. layout = "two" /\ source >= SECOND => lz.dictionary >= SECOND
      BY <1>1, <1>2, <1>3, <1>4, <1>13, <2>2, PrefixPlaced
    <3>2. SECOND \in Nat
      BY Places
    <3> QED
      BY <1>3, <1>5, <1>7, <1>10, <2>1, <3>1, <3>2
  <2>6. n > 0 /\ layout' = "two" /\ source + n >= SECOND => s.dictionary >= SECOND
    BY <1>3, <2>5
  <2>7. n = 0 => DictPlaced(s)'
    <3> SUFFICES ASSUME n = 0 PROVE DictPlaced(s)'
      OBVIOUS
    <3>1. end <= BUF \/ layout # "one"
      BY <1>3, <1>4, <2>2 DEF DictPlaced
    <3>2. at' = s.dictionary + s.dictSize /\ at' = end
      BY <1>3, <1>13, <2>4
    <3> QED
      BY <1>3, <1>5, <1>7, <1>13, <2>1, <2>4, <2>5, <3>1, <3>2 DEF DictPlaced
  <2> QED
    BY <1>1, <1>3, <1>5, <1>7, <2>1, <2>3, <2>4, <2>6, <2>7, PrefixData DEF Compress
<1>14. CASE ~tiny /\ end # source /\ r.dictCtx
  <2>1. LoadedDict(dictLz) /\ end = NULL
    BY <1>5, <1>6, <1>7, <1>14
  <2>2. s = r
    BY <1>3, <1>8, <1>14, <2>1 DEF WithoutOverlap
  <2>3. CASE n > KB4
    <3>1. PICK d : d = dictLz
      OBVIOUS
    <3>2. Compress(d, "usingExtDict", "noDictIssue")
      BY <1>8, <1>9, <1>14, <2>2, <2>3, <3>1
    <3>3. /\ d \in FastStates /\ Known(d) /\ LoadedDict(d) /\ d.tableType # "byU16" /\ ~d.dictCtx
          /\ d.dictionary # source
      BY <1>1, <1>3, <1>5, <2>1, <3>1, LoadedKnown DEF LoadedDict, FastStates
    <3>4. "noDictIssue" \in {"noDictIssue", "dictSmall"}
      OBVIOUS
    <3> QED
      BY <1>1, <1>3, <1>5, <3>2, <3>3, <3>4, ExternalData DEF Compress
  <2>4. CASE ~(n > KB4)
    <3>1. Compress(s, "usingDictCtx", "noDictIssue")
      BY <1>8, <1>9, <1>14, <2>2, <2>4
    <3> QED
      BY <1>1, <1>3, <1>4, <1>5, <1>7, <2>1, <2>2, <3>1, AttachedData DEF Compress
  <2> QED
    BY <2>3, <2>4
<1>15. CASE ~tiny /\ end # source /\ ~r.dictCtx
  <2>1. end2 = end /\ b = r
    BY <1>8, <1>15
  <2>2. /\ s \in FastStates /\ Known(s) /\ s.tableType = r.tableType /\ s.dictCtx = r.dictCtx
        /\ s.currentOffset = r.currentOffset
        /\ n > 0 => s.dictionary # source
    <3>1. CASE lz.dictSize = 0
      <4>1. end = NULL /\ s = r
        BY <1>3, <1>6, <1>8, <2>1, <3>1 DEF WithoutOverlap
      <4>2. n = 0
        BY <1>3, <1>7, <1>11, <1>15, <3>1
      <4> QED
        BY <1>7, <4>1, <4>2
    <3>2. CASE lz.dictSize > 0
      <4>1. end = r.dictionary + r.dictSize /\ r.dictSize > 0
        BY <1>5, <1>6, <1>7, <1>10, <3>2
      <4>2. /\ s \in FastStates /\ Known(s)
            /\ s.tableType = r.tableType /\ s.dictCtx = r.dictCtx /\ s.currentOffset = r.currentOffset
            /\ \/ s.dictionary >= source + n
               \/ s.dictionary = r.dictionary /\ ~(source + n > r.dictionary /\ source + n < end)
        BY ONLY <1>3, <1>7, <1>8, <2>1, <4>1, OverlapData
      <4>3. ASSUME n > 0
            PROVE  s.dictionary # source
        <5>1. CASE s.dictionary >= source + n
          BY <1>3, <4>3, <5>1
        <5>2. CASE s.dictionary = r.dictionary /\ ~(source + n > r.dictionary /\ source + n < end)
          <6>1. n \in 1 .. MAXBLOCK
            BY <1>3, <4>3, UserAssumption
          <6>2. /\ r.dictionary \in Nat /\ lz.dictionary <= r.dictionary
                /\ r.dictionary < lz.dictionary + lz.dictSize /\ end = lz.dictionary + lz.dictSize
            BY <1>5, <1>7, <1>10, <4>1
          <6>3. /\ lz.dictionary + lz.dictSize # Place(n)
                /\ ~(Place(n) + n > r.dictionary /\ Place(n) + n < lz.dictionary + lz.dictSize)
            BY <1>2, <1>15, <5>2, <6>2
          <6>4. r.dictionary # Place(n)
            BY ONLY <1>1, <1>3, <1>4, RING >= 2 * MAXBLOCK, <3>2, <6>1, <6>2, <6>3, ExternalPlaced
          <6> QED
            BY <1>2, <5>2, <6>4
        <5> QED
          BY <4>2, <5>1, <5>2
      <4> QED
        BY <4>2, <4>3
    <3> QED
      BY <1>5, <3>1, <3>2
  <2>3. Compress(s, "usingExtDict", Issue(s))
    BY <1>9, <1>15, <2>1, <2>2
  <2>4. PICK issue \in {"noDictIssue", "dictSmall"} : issue = Issue(s)
    BY DEF Issue
  <2>5. Compress(s, "usingExtDict", issue)
    BY <2>3, <2>4
  <2>6. issue = "dictSmall" \/ s.dictSize >= W \/ s.dictSize >= s.currentOffset
    BY <2>2, <2>4 DEF Issue, FastStates
  <2>7. n > 0 => s.currentOffset >= MINMATCH
    <3>1. n > 0 => r.dictSize >= 4
      BY <1>10, <1>11, <1>15
    <3> QED
      BY <1>7, <1>10, <2>2, <3>1, FastAssumption
  <2> QED
    BY <1>1, <1>3, <1>5, <1>7, <1>15, <2>2, <2>5, <2>6, <2>7, ExternalData DEF Compress
<1> QED
  BY <1>3, <1>12, <1>13, <1>14, <1>15

(* LZ4_prepareTable: the table is used again where its positions are known *)
(* to be far away, or can be told from those of the block.                 *)
LEMMA PrepareKnown ==
  ASSUME NEW s \in FastStates, Known(s), NEW n \in Nat, NEW t \in {"byU16", "byU32"}
  PROVE  LET r == LZ4_prepareTable(s, n, t)
         IN  /\ r \in FastStates /\ Known(r) /\ r.dictSize = 0 /\ ~r.dictCtx
             /\ r.tableType \in {"cleared", t}
             /\ t = "byU16" =>
                  \/ r.currentOffset = 0
                  \/ r.tableType = "cleared" /\ r.currentOffset >= W
                  \/ r.tableType = "byU16" /\ r.currentOffset + n < DISTANCE_MAX
             /\ t = "byU32" =>
                  \/ r.currentOffset = 0 /\ \A h \in Hashes : r.table[h] = 0
                  \/ /\ r.currentOffset >= W
                     /\ \A h \in Hashes :
                          r.table[h] = 0 \/ r.table[h] + MINMATCH + W <= r.currentOffset
<1> USE WindowNumbers, Numbers
<1> DEFINE forgot == [s EXCEPT !.dictCtx = FALSE, !.dictionary = NULL, !.dictSize = 0]
           kept == IF MustReset(s, n, t) THEN LZ4_initStream ELSE forgot
           offset == kept.currentOffset + W
           moved == [kept EXCEPT !.currentOffset = offset]
           r == LZ4_prepareTable(s, n, t)
<1>1. /\ kept \in FastStates /\ kept.dictSize = 0 /\ ~kept.dictCtx
      /\ \/ kept.tableType = "cleared" /\ kept.currentOffset = 0 /\ \A h \in Hashes : kept.table[h] = 0
         \/ /\ kept.table = s.table /\ kept.tableType = s.tableType
            /\ kept.currentOffset = s.currentOffset /\ ~MustReset(s, n, t)
  <2>1. CASE MustReset(s, n, t)
    BY <2>1, InitStreamType DEF LZ4_initStream
  <2>2. CASE ~MustReset(s, n, t)
    BY <2>2 DEF FastStates
  <2> QED
    BY <2>1, <2>2
<1>2. r = IF kept.currentOffset # 0 /\ t = "byU32" THEN moved ELSE kept
  <2>1. [kept EXCEPT !.currentOffset = @ + W] = moved
    BY <1>1 DEF FastStates
  <2> QED
    BY <2>1 DEF LZ4_prepareTable
<1> HIDE DEF kept, r
<1>3. kept.currentOffset \in Nat /\ \A h \in Hashes : kept.table[h] \in Nat
  BY <1>1 DEF FastStates
<1>4. /\ kept.tableType \in {"cleared", t}
      /\ kept.tableType = "cleared" =>
           (\A h \in Hashes : kept.table[h] = 0) /\ (kept.currentOffset = 0 \/ kept.currentOffset >= W)
      /\ kept.tableType = "byU16" => kept.currentOffset + n < DISTANCE_MAX
      /\ \A h \in Hashes : kept.table[h] = 0 \/ kept.table[h] + MINMATCH <= kept.currentOffset
  <2>1. CASE kept.tableType = "cleared" /\ kept.currentOffset = 0 /\ \A h \in Hashes : kept.table[h] = 0
    BY <2>1
  <2>2. CASE /\ kept.table = s.table /\ kept.tableType = s.tableType
             /\ kept.currentOffset = s.currentOffset /\ ~MustReset(s, n, t)
    <3>1. s.tableType = "byU16" => s.currentOffset + n < DISTANCE_MAX
      BY <1>3, <2>2, Lz4Assumption DEF MustReset
    <3>2. s.tableType # "byU16" \/ s.currentOffset < W
      BY <1>3, <2>2, <3>1, Lz4Assumption DEF W
    <3> QED
      BY <2>2, <3>1, <3>2 DEF Known, MustReset
  <2> QED
    BY <1>1, <2>1, <2>2
<1>5. CASE kept.currentOffset # 0 /\ t = "byU32"
  <2>1. offset \in Nat /\ offset = kept.currentOffset + W /\ offset >= W
    BY <1>3
  <2> HIDE DEF offset
  <2>2. /\ moved \in FastStates /\ moved.table = kept.table /\ moved.tableType = kept.tableType
        /\ moved.currentOffset = offset /\ moved.dictSize = 0 /\ ~moved.dictCtx
    BY <1>1, <2>1 DEF FastStates
  <2> HIDE DEF moved
  <2>3. \A h \in Hashes : kept.table[h] = 0 \/ kept.table[h] + MINMATCH + W <= offset
    BY <1>3, <1>4, <2>1
  <2>4. \A h \in Hashes : kept.table[h] = 0 \/ kept.table[h] + MINMATCH <= offset
    BY <1>3, <1>4, <2>1
  <2>5. Known(moved)
    BY <1>4, <2>1, <2>2, <2>4 DEF Known
  <2> QED
    BY <1>2, <1>4, <1>5, <2>1, <2>2, <2>3, <2>5 DEF r
<1>6. CASE ~(kept.currentOffset # 0 /\ t = "byU32")
  <2>1. Known(kept)
    BY <1>4 DEF Known
  <2>2. t = "byU32" => \A h \in Hashes : kept.table[h] = 0
    BY <1>3, <1>4, <1>6
  <2> QED
    BY <1>1, <1>2, <1>4, <1>6, <2>1, <2>2 DEF r
<1> QED
  BY <1>5, <1>6

(* A block of its own.                                                     *)
LEMMA SingleData ==
  ASSUME DataInv, NEW word \in Singles, NEW room \in SingleRooms,
         ExtState(word, room) \/ FastReset(word, room) \/ DestSize(word, room)
  PROVE  BlockData' /\ at' >= BUF
<1> USE WindowNumbers, Numbers
<1>1. lz \in FastStates /\ BUF \in Nat /\ room \in Nat
  BY StreamAssumption, Places DEF DataInv, OutputInv, FastTypeOK
<1>2. at' = BUF /\ status' # "open"
  BY DEF ExtState, FastReset, DestSize, Single
<1> SUFFICES BlockData'
  BY <1>1, <1>2
<1>3. Continuing'
  BY <1>2 DEF Continuing
<1>4. PICK n, t : n = Len(word) /\ t = TableType(n)
  OBVIOUS
<1>5. n \in Nat /\ t \in {"byU16", "byU32"} /\ (t = "byU16" => n < W + MFLIMIT - 1)
  BY <1>4, WordsType DEF TableType
<1>6. ASSUME NEW s \in FastStates, Known(s), NEW limit, NEW issue,
             LZ4_compress_generic(s, BUF, n, room, limit, t, "noDict", issue),
             limit # "fillOutput" \/ s = LZ4_initStream,
             s.dictSize = 0, s.tableType \in {"cleared", t},
             t = "byU16" =>
               /\ issue = "dictSmall" \/ s.currentOffset = 0
               /\ \/ s.currentOffset = 0
                  \/ s.tableType = "cleared" /\ s.currentOffset >= W
                  \/ s.tableType = "byU16" /\ s.currentOffset + n < DISTANCE_MAX,
             t = "byU32" =>
               /\ issue = "noDictIssue"
               /\ \/ s.currentOffset = 0 /\ \A h \in Hashes : s.table[h] = 0
                  \/ /\ s.currentOffset >= W
                     /\ \A h \in Hashes :
                          s.table[h] = 0 \/ s.table[h] + MINMATCH + W <= s.currentOffset
      PROVE  BlockData'
  <2>1. PICK table \in [Hashes -> Nat] : table = s.table /\ table = Reread(s.table, s.tableType, t)
    BY <1>6 DEF Reread, FastStates
  <2>2. /\ call'.directive = "noDict" /\ call'.tableType = t /\ call'.issue = issue
        /\ call'.startIndex = s.currentOffset /\ call'.dictSize = s.dictSize /\ call'.n = n
        /\ call'.limit = limit /\ s.currentOffset \in Nat
    BY <1>6 DEF LZ4_compress_generic, FastStates
  <2>3. Calls'
    BY <1>5, <1>6, <2>2 DEF Calls, SmallSingle, LargeSingle, Wrapped
  <2>4. KnowsBefore(table, s.currentOffset)'
    <3>1. CASE Wrapped'
      <4>1. t = "byU16" /\ s.currentOffset >= W /\ DISTANCE_MAX \in Nat /\ W = DISTANCE_MAX + 1
        BY <2>2, <3>1, Lz4Assumption DEF Wrapped, W
      <4>2. s.tableType = "cleared"
        BY <1>5, <1>6, <2>2, <4>1
      <4> QED
        BY <1>6, <2>1, <3>1, <4>2 DEF KnowsBefore, Known
    <3>2. CASE ~Wrapped'
      <4>1. ~FromDict'
        BY <2>2 DEF FromDict
      <4>2. CASE t = "byU32"
        <5>1. \A h \in Hashes : table[h] = 0 \/ table[h] + MINMATCH + W <= s.currentOffset
          BY <1>6, <2>1, <4>2
        <5>2. \A h \in Hashes : Old(table[h])'
          BY <2>2, <4>1, <5>1 DEF Old
        <5> QED
          BY <3>2, <5>2 DEF KnowsBefore
      <4>3. CASE t = "byU16"
        <5>1. s.tableType = "cleared" \/ s.currentOffset < W
          BY <1>5, <1>6, <2>2, <4>3, Lz4Assumption DEF W
        <5>2. \A h \in Hashes : table[h] = 0 \/ table[h] + MINMATCH <= s.currentOffset
          BY <1>6, <2>1, <5>1 DEF Known
        <5>3. ~Fresh'
          BY <2>2, <4>3 DEF Fresh
        <5>4. \A h \in Hashes : Old(table[h])'
          BY <2>2, <4>1, <5>2, <5>3 DEF Old
        <5> QED
          BY <3>2, <5>4 DEF KnowsBefore
      <4> QED
        BY <1>5, <4>2, <4>3
    <3> QED
      BY <3>1, <3>2
  <2>5. Hashed4(table)'
    <3>1. s = LZ4_initStream => s.currentOffset = 0 /\ \A h \in Hashes : s.table[h] = 0
      BY DEF LZ4_initStream
    <3> QED
      BY <1>6, <2>1, <2>2, <3>1 DEF Hashed4
  <2>6. ~stray' /\ (pc' = "returned" => Known(lz)') /\ (InSearch => Searching)'
    BY ONLY <1>1, <1>5, <1>6, <2>1, <2>3, <2>4, <2>5, GenericData
  <2> QED
    BY <1>3, <2>6 DEF BlockData
<1>7. PICK s \in FastStates :
        /\ s = LZ4_initStream /\ Known(s) /\ s.dictSize = 0
        /\ s.tableType = "cleared" /\ s.currentOffset = 0 /\ \A h \in Hashes : s.table[h] = 0
  BY InitStreamType DEF LZ4_initStream, Known
<1>8. CASE ExtState(word, room)
  <2>1. PICK limit : limit = Limit(n, room)
    OBVIOUS
  <2>2. LZ4_compress_generic(s, BUF, n, room, limit, t, "noDict", "noDictIssue")
    BY <1>4, <1>7, <1>8, <2>1 DEF ExtState
  <2>3. limit # "fillOutput" \/ s = LZ4_initStream
    BY <1>7
  <2> QED
    BY ONLY <1>5, <1>6, <1>7, <2>2, <2>3
<1>9. CASE DestSize(word, room)
  <2>1. PICK limit : limit = IF room >= CompressBound(n) THEN "notLimited" ELSE "fillOutput"
    OBVIOUS
  <2>2. LZ4_compress_generic(s, BUF, n, room, limit, t, "noDict", "noDictIssue")
    BY <1>4, <1>7, <1>9, <2>1 DEF DestSize
  <2>3. limit # "fillOutput" \/ s = LZ4_initStream
    BY <1>7
  <2> QED
    BY ONLY <1>5, <1>6, <1>7, <2>2, <2>3
<1>10. CASE FastReset(word, room)
  <2>1. PICK p, limit, issue :
          /\ p = LZ4_prepareTable(lz, n, t) /\ limit = Limit(n, room)
          /\ issue = IF t = "byU16" /\ p.currentOffset # 0 THEN "dictSmall" ELSE "noDictIssue"
    OBVIOUS
  <2>2. LZ4_compress_generic(p, BUF, n, room, limit, t, "noDict", issue) /\ limit # "fillOutput"
    BY <1>4, <1>10, <2>1 DEF FastReset, Limit
  <2>3. Known(lz)
    BY <1>10 DEF DataInv, FastReset
  <2>4. /\ p \in FastStates /\ Known(p) /\ p.dictSize = 0 /\ ~p.dictCtx
        /\ p.tableType \in {"cleared", t}
        /\ t = "byU16" =>
             \/ p.currentOffset = 0
             \/ p.tableType = "cleared" /\ p.currentOffset >= W
             \/ p.tableType = "byU16" /\ p.currentOffset + n < DISTANCE_MAX
        /\ t = "byU32" =>
             \/ p.currentOffset = 0 /\ \A h \in Hashes : p.table[h] = 0
             \/ /\ p.currentOffset >= W
                /\ \A h \in Hashes :
                     p.table[h] = 0 \/ p.table[h] + MINMATCH + W <= p.currentOffset
    BY ONLY <1>1, <1>5, <2>1, <2>3, PrepareKnown
  <2>5. /\ t = "byU16" => issue = "dictSmall" \/ p.currentOffset = 0
        /\ t = "byU32" => issue = "noDictIssue"
    BY <2>1
  <2> QED
    BY ONLY <1>5, <1>6, <2>2, <2>4, <2>5
<1> QED
  BY <1>1, <1>2, <1>8, <1>9, <1>10

-----------------------------------------------------------------------------
(* Between calls.                                                          *)
LEMMA LoadedIs ==
  ASSUME NEW n \in DictSizes, mem \in [1 .. TOP -> Values]
  PROVE  LET d == LZ4_loadDict(n)
         IN  /\ d \in FastStates /\ Known(d) /\ ~d.dictCtx /\ d.tableType # "byU16"
             /\ d.dictSize <= d.currentOffset
             /\ d.dictSize > 0 => LoadedDict(d)
<1> USE WindowNumbers, Numbers
<1> DEFINE kept == IF n > W THEN W ELSE n
           end == DICT + n
           from == end - kept
           last == end - HASH_UNIT - from
           start == W - kept
           here(h) == {k \in 0 .. last : k % 3 = 0 /\ HashAt(from + k, "byU32") = h}
           table == Hashed(from, end, start)
           d == LZ4_loadDict(n)
<1>1. d \in FastStates
  BY LoadedType
<1>2. /\ n \in Nat /\ n <= Len(Dictionary) /\ Len(Dictionary) \in Nat /\ HASH_UNIT \in Nat
      /\ HASH_UNIT > MINMATCH
  BY UserAssumption, StreamAssumption, LenProperties
<1>3. DICT \in Nat /\ BUF = DICT + Len(Dictionary) + 1 + W + 1 + W
  BY <1>2, Places DEF BUF, SAFE
<1>4. d = IF n < HASH_UNIT THEN [LZ4_initStream EXCEPT !.currentOffset = W]
          ELSE [table |-> table, currentOffset |-> W, tableType |-> "byU32",
                dictionary |-> from, dictSize |-> kept, dictCtx |-> FALSE]
  BY DEF LZ4_loadDict
<1>5. CASE n < HASH_UNIT
  <2>1. /\ d.tableType = "cleared" /\ d.dictSize = 0 /\ ~d.dictCtx /\ d.currentOffset = W
        /\ \A h \in Hashes : d.table[h] = 0
    BY <1>4, <1>5 DEF LZ4_initStream
  <2> HIDE DEF d
  <2> QED
    BY <1>1, <2>1 DEF Known, d
<1>6. CASE ~(n < HASH_UNIT)
  <2>1. /\ d.table = table /\ d.currentOffset = W /\ d.tableType = "byU32" /\ d.dictionary = from
        /\ d.dictSize = kept /\ ~d.dictCtx
    BY <1>4, <1>6
  <2> HIDE DEF d
  <2>2. kept \in 1 .. W /\ from + kept = end /\ end < BUF /\ last = kept - HASH_UNIT /\ last \in Int
        /\ start = W - kept
    BY <1>2, <1>3, <1>6
  <2>3. table = [h \in Hashes |-> IF here(h) = {} THEN 0 ELSE start + Max(here(h))]
    BY DEF Hashed
  <2> HIDE DEF kept, from, last, start, end
  <2>4. ASSUME NEW h \in Hashes
        PROVE  table[h] = 0 \/ (W - kept <= table[h] /\ table[h] + MINMATCH <= W)
    <3>1. CASE here(h) = {}
      BY <2>3, <3>1
    <3>2. CASE here(h) # {}
      <4>1. Bounded(here(h), last) /\ here(h) \subseteq 0 .. last
        BY <2>2, <3>2 DEF Bounded
      <4> HIDE DEF here
      <4>2. Max(here(h)) \in here(h)
        BY <2>2, <3>2, <4>1, Greatest
      <4>3. table[h] = start + Max(here(h)) /\ Max(here(h)) \in 0 .. last
        BY <2>3, <3>2, <4>1, <4>2
      <4>4. PICK m : m = Max(here(h))
        OBVIOUS
      <4>5. kept \in Int /\ HASH_UNIT \in Int
        BY <1>2, <2>2
      <4> QED
        BY <1>2, <2>2, <4>3, <4>4, <4>5
    <3> QED
      BY <3>1, <3>2
  <2> HIDE DEF table
  <2>5. LoadedDict(d)
    BY <2>1, <2>2, <2>4 DEF LoadedDict
  <2> QED
    BY <1>1, <2>1, <2>2, <2>5, LoadedKnown DEF d
<1> QED
  BY <1>5, <1>6

(* The rules between calls.                                                *)
BetweenData ==
  /\ Idle /\ ~stray /\ at >= BUF
  /\ Known(lz) /\ (status = "open" => DictPlaced(lz))

LEMMA BeginData ==
  ASSUME DataInv,
         InitStream \/ ResetStreamFast \/ (\E n \in DictSizes : LoadDict(n) \/ AttachDictionary(n))
  PROVE  BetweenData'
<1> USE WindowNumbers
<1>1. /\ lz \in FastStates /\ dictLz \in FastStates /\ mem \in [1 .. TOP -> Values] /\ ~stray
      /\ BUF \in Nat
  BY Places DEF DataInv, OutputInv, FastTypeOK, UserTypeOK
<1>2. ASSUME NEW bytes, Begun(bytes)
      PROVE  at' >= BUF /\ mem' = mem
  BY <1>1, <1>2 DEF Begun
<1>3. ASSUME NEW t \in FastStates, lz' = t, Known(t), t.tableType # "byU16",
             t.dictSize <= t.currentOffset,
             t.dictSize > 0 => t.dictionary + t.dictSize <= BUF,
             t.dictCtx => t.dictSize = 0 /\ LoadedDict(dictLz)',
             Between, at' >= BUF
      PROVE  BetweenData'
  <2>1. Idle' /\ ~stray'
    BY <1>1, <1>3 DEF Between, Idle, locals
  <2>2. Known(lz)' /\ DictPlaced(lz)'
    BY <1>3 DEF Known, DictPlaced
  <2> QED
    BY <1>3, <2>1, <2>2 DEF BetweenData
<1>4. CASE InitStream
  <2>1. PICK t \in FastStates : t = LZ4_initStream
    BY InitStreamType
  <2>2. Known(t) /\ t.tableType = "cleared" /\ t.dictSize = 0 /\ ~t.dictCtx /\ t.currentOffset = 0
    BY <2>1 DEF Known, LZ4_initStream
  <2>3. Between /\ lz' = t /\ at' >= BUF
    BY <1>2, <1>4, <2>1 DEF InitStream
  <2> QED
    BY ONLY <1>3, <2>2, <2>3, WindowNumbers
<1>5. ASSUME Between
      PROVE  Known(lz)
  BY <1>5 DEF DataInv, Between
<1>6. CASE ResetStreamFast
  <2>1. PICK t : t = LZ4_prepareTable(lz, 0, "byU32")
    OBVIOUS
  <2>2. Between /\ lz' = t /\ at' >= BUF
    BY <1>2, <1>6, <2>1 DEF ResetStreamFast
  <2>3. t \in FastStates /\ Known(t) /\ t.dictSize = 0 /\ ~t.dictCtx /\ t.tableType \in {"cleared", "byU32"}
    BY <1>1, <1>5, <2>1, <2>2, PrepareKnown
  <2>4. t.currentOffset \in Nat
    BY <2>3 DEF FastStates
  <2> QED
    BY <1>3, <2>2, <2>3, <2>4
<1>7. ASSUME NEW n \in DictSizes, LoadDict(n)
      PROVE  BetweenData'
  <2>1. PICK t : t = LZ4_loadDict(n)
    OBVIOUS
  <2>2. Between /\ lz' = t /\ at' >= BUF
    BY <1>2, <1>7, <2>1 DEF LoadDict
  <2>3. /\ t \in FastStates /\ Known(t) /\ ~t.dictCtx /\ t.tableType # "byU16"
        /\ t.dictSize <= t.currentOffset
        /\ t.dictSize > 0 => LoadedDict(t)
    BY ONLY <1>1, <2>1, LoadedIs
  <2>4. t.dictSize > 0 => t.dictionary + t.dictSize <= BUF
    BY <1>1, <2>3 DEF LoadedDict, FastStates
  <2> QED
    BY ONLY <1>3, <2>2, <2>3, <2>4
<1>8. ASSUME NEW n \in DictSizes, AttachDictionary(n)
      PROVE  BetweenData'
  <2>1. PICK s, d : s = LZ4_prepareTable(lz, 0, "byU32") /\ d = LZ4_loadDict(n)
    OBVIOUS
  <2>2. Between /\ at' >= BUF /\ dictLz' = d
    BY <1>2, <1>8, <2>1 DEF AttachDictionary
  <2>3. lz' = [s EXCEPT !.currentOffset = IF @ = 0 THEN W ELSE @, !.dictCtx = d.dictSize > 0]
    BY <1>8, <2>1, <2>2 DEF AttachDictionary
  <2>4. s \in FastStates /\ Known(s) /\ s.dictSize = 0 /\ s.tableType \in {"cleared", "byU32"}
        /\ \/ s.currentOffset = 0 /\ \A h \in Hashes : s.table[h] = 0
           \/ s.currentOffset >= W
    BY <1>1, <1>5, <2>1, <2>2, PrepareKnown
  <2>5. d \in FastStates /\ (d.dictSize > 0 => LoadedDict(d))
    BY ONLY <1>1, <2>1, LoadedIs
  <2>6. PICK offset, ctx : offset = (IF s.currentOffset = 0 THEN W ELSE s.currentOffset)
                           /\ ctx = (d.dictSize > 0)
    OBVIOUS
  <2>7. PICK t : t = [s EXCEPT !.currentOffset = offset, !.dictCtx = ctx]
    OBVIOUS
  <2>8. lz' = t
    BY <2>3, <2>4, <2>6, <2>7 DEF FastStates
  <2>9. offset \in Nat /\ ctx \in BOOLEAN
    BY <2>4, <2>6 DEF FastStates
  <2>10. /\ t \in FastStates /\ t.table = s.table /\ t.tableType = s.tableType /\ t.dictSize = 0
         /\ t.currentOffset = offset /\ t.dictCtx = ctx
    BY <2>4, <2>7, <2>9 DEF FastStates
  <2>11. Known(t)
    BY <2>4, <2>6, <2>10 DEF Known
  <2>12. t.dictCtx => LoadedDict(dictLz)'
    BY <2>2, <2>5, <2>6, <2>10 DEF LoadedDict
  <2>13. t.tableType # "byU16" /\ t.dictSize <= t.currentOffset /\ ~(t.dictSize > 0)
    BY <2>4, <2>9, <2>10
  <2> QED
    BY ONLY <1>3, <2>2, <2>8, <2>10, <2>11, <2>12, <2>13
<1> QED
  BY <1>4, <1>6, <1>7, <1>8

LEMMA SaveDictData ==
  ASSUME DataInv, NEW size \in SaveSizes, SaveDict(size)
  PROVE  BetweenData'
<1> USE WindowNumbers
<1>1. /\ lz \in FastStates /\ lz.dictSize \in Nat /\ lz.dictionary \in Nat /\ ~stray /\ at >= BUF
      /\ lz.currentOffset \in Nat
  BY DEF DataInv, OutputInv, FastTypeOK, FastStates
<1>2. size \in Nat
  BY UserAssumption
<1>3. PICK n : n = Min({size, W, lz.dictSize})
  OBVIOUS
<1>4. n \in Nat /\ n <= W /\ n <= lz.dictSize
  <2> DEFINE T == {size, W, lz.dictSize}
  <2>1. \E x \in T : \A y \in T : x <= y
    BY <1>1, <1>2
  <2>2. Min(T) \in T /\ \A y \in T : Min(T) <= y
    BY <2>1 DEF Min
  <2>3. n \in T /\ \A y \in T : n <= y
    BY <1>3, <2>2
  <2> QED
    BY <1>1, <1>2, <2>3
<1>5. PICK safe \in SafeBuffers(n) :
        /\ status = "open" /\ UNCHANGED <<layout, at, status>>
        /\ lz' = [lz EXCEPT !.dictionary = safe, !.dictSize = n]
  BY <1>3, Zenon DEF SaveDict, Saved
<1>6. Between /\ dictLz' = dictLz
  BY DEF SaveDict
<1>7. safe \in Nat /\ (n > 0 => safe + n <= BUF) /\ BUF \in Nat
  BY <1>4, Places DEF SafeBuffers, BUF
<1>8. /\ lz'.table = lz.table /\ lz'.tableType = lz.tableType /\ lz'.currentOffset = lz.currentOffset
      /\ lz'.dictCtx = lz.dictCtx /\ lz'.dictionary = safe /\ lz'.dictSize = n
  BY <1>1, <1>4, <1>5, <1>7 DEF FastStates
<1>9. Known(lz) /\ DictPlaced(lz)
  BY <1>5, <1>6 DEF DataInv, Between
<1>10. Known(lz)'
  BY <1>8, <1>9 DEF Known
<1>11. DictPlaced(lz)'
  BY <1>1, <1>4, <1>6, <1>7, <1>8, <1>9 DEF DictPlaced, LoadedDict
<1>12. Idle' /\ ~stray' /\ at' >= BUF
  BY <1>1, <1>5, <1>6 DEF Between, Idle, locals
<1> QED
  BY <1>10, <1>11, <1>12 DEF BetweenData

LEMMA ReturnedData ==
  ASSUME DataInv, Returned
  PROVE  BetweenData'
<1> USE WindowNumbers
<1>1. /\ lz \in FastStates /\ call.source \in Nat /\ call.n \in Nat /\ at >= BUF
  BY DEF DataInv, OutputInv, FastTypeOK, BlockTypeOK, FastCalls
<1>2. PICK t : t = IF ExternalMode THEN [lz EXCEPT !.dictionary = call.source, !.dictSize = call.n]
                   ELSE lz
  OBVIOUS
<1>3. /\ pc = "returned" /\ pc' = "idle" /\ ~stray' /\ dictLz' = dictLz /\ lz' = t
      /\ UNCHANGED <<mem, at, layout, unsaved>>
      /\ status' = "open" => status = "open" /\ result > 0
  BY <1>2 DEF Returned, Sent, Failed
<1>4. t.table = lz.table /\ t.tableType = lz.tableType /\ t.currentOffset = lz.currentOffset
  BY <1>1, <1>2 DEF FastStates
<1>5. Known(lz)
  BY <1>3 DEF DataInv
<1>6. Known(lz)'
  BY <1>3, <1>4, <1>5 DEF Known
<1>7. status' = "open" => DictPlaced(t)
  BY <1>2, <1>3 DEF DataInv, Continuing, Idle
<1>8. status' = "open" => DictPlaced(lz)'
  BY <1>3, <1>7 DEF DictPlaced, LoadedDict
<1> QED
  BY <1>1, <1>3, <1>6, <1>8 DEF BetweenData, Idle

-----------------------------------------------------------------------------
ComparesInv ==
  /\ stream = "fast" => DataInv
  /\ stream # "fast" => ~stray

LEMMA DataStep ==
  ASSUME ComparesInv, RING >= 2 * MAXBLOCK, [Next]_streamVars
  PROVE  ComparesInv'
<1>1. CASE stream # "fast"
  <2>1. stream' = stream /\ stray' = stray
    BY <1>1 DEF Next, Fast, Hc, Decoder, streamVars, blockVars, locals
  <2> QED
    BY <1>1, <2>1 DEF ComparesInv
<1>2. CASE stream = "fast"
  <2>1. stream' = stream
    BY <1>2 DEF Next, Fast, Hc, Decoder, streamVars
  <2>2. DataInv /\ OutputInv
    BY <1>2 DEF ComparesInv, DataInv
  <2>3. OutputInv'
    <3>1. RoomInv
      BY <1>2, <2>2 DEF RoomInv
    <3>2. RoomInv'
      BY <3>1, RoomStep
    <3> QED
      BY <1>2, <2>1, <3>2 DEF RoomInv
  <2>4. ASSUME BlockData', at' >= BUF, ~Idle'
        PROVE  DataInv'
    BY <2>3, <2>4 DEF DataInv, BlockData
  <2>5. ASSUME BetweenData'
        PROVE  DataInv'
    BY <2>3, <2>5 DEF DataInv, BetweenData, Idle, InSearch, Continuing
  <2>6. CASE UNCHANGED streamVars
    <3>1. UNCHANGED <<userVars, blockVars>>
      BY <2>6 DEF streamVars
    <3>2. UNCHANGED <<mem, layout, at, status, unsaved, lz, dictLz, call, pc, ip, forward, cand, filled>>
          /\ UNCHANGED <<op, stray, result>>
      BY <3>1 DEF userVars, blockVars, locals
    <3>3. Known(lz)' <=> Known(lz)
      BY <3>2 DEF Known
    <3>4. DictPlaced(lz)' <=> DictPlaced(lz)
      BY <3>2 DEF DictPlaced, LoadedDict
    <3>5. Continuing => Continuing'
      <4>1. PICK s : s = IF ExternalMode THEN [lz EXCEPT !.dictionary = call.source, !.dictSize = call.n]
                         ELSE lz
        OBVIOUS
      <4>2. s = (IF ExternalMode THEN [lz EXCEPT !.dictionary = call.source, !.dictSize = call.n]
                 ELSE lz)'
        BY <3>2, <4>1 DEF ExternalMode
      <4>3. DictPlaced(s) => DictPlaced(s)'
        BY <3>2 DEF DictPlaced, LoadedDict
      <4> QED
        BY <3>2, <4>1, <4>2, <4>3 DEF Continuing, Idle
    <3>6. Searching => Searching'
      <4>1. Front' = Front
        BY <3>2 DEF Front, Index, base, iend
      <4>2. Searching => Calls' /\ TableOK(lz.table, Front)'
        BY <3>2, <4>1, RulesKept DEF Searching
      <4>3. (Matched(0)' <=> Matched(0)) /\ (Matched(filled - ip)' <=> Matched(filled - ip))
        BY <3>2 DEF Matched, Same, Byte, InDict, maybe_extMem, dictEnd
      <4>4. (NoRoomFor(op)' <=> NoRoomFor(op)) /\ (NoRoomFor(op + 1)' <=> NoRoomFor(op + 1))
            /\ mflimitPlusOne' = mflimitPlusOne
        BY <3>2 DEF NoRoomFor, mflimitPlusOne, iend
      <4> QED
        BY <3>2, <4>2, <4>3, <4>4 DEF Searching
    <3>7. DataInv'
      BY <2>2, <2>3, <3>2, <3>3, <3>4, <3>5, <3>6 DEF DataInv, Idle, InSearch
    <3> QED
      BY <1>2, <2>1, <3>7 DEF ComparesInv
  <2>7. CASE Next
    <3>1. \/ \E word \in Words, room \in Rooms : CompressContinue(word, room)
          \/ \E word \in Singles, room \in SingleRooms :
               ExtState(word, room) \/ FastReset(word, room) \/ DestSize(word, room)
          \/ CompressBlock
          \/ Returned
          \/ InitStream \/ ResetStreamFast
               \/ (\E n \in DictSizes : LoadDict(n) \/ AttachDictionary(n))
          \/ \E n \in SaveSizes : SaveDict(n)
      BY <1>2, <2>7 DEF Next, Fast, Hc, Decoder
    <3>2. ASSUME NEW word \in Words, NEW room \in Rooms, CompressContinue(word, room)
          PROVE  DataInv'
      <4>1. BlockData' /\ at' >= BUF
        BY <2>2, <3>2, ContinueData
      <4>2. ~Idle'
        BY <3>2 DEF CompressContinue, LZ4_compress_fast_continue, LZ4_compress_generic, Idle
      <4> QED
        BY <2>4, <4>1, <4>2
    <3>3. ASSUME NEW word \in Singles, NEW room \in SingleRooms,
                 ExtState(word, room) \/ FastReset(word, room) \/ DestSize(word, room)
          PROVE  DataInv'
      <4>1. BlockData' /\ at' >= BUF
        BY <2>2, <3>3, SingleData
      <4>2. ~Idle'
        BY <3>3 DEF ExtState, FastReset, DestSize, LZ4_compress_generic, Idle
      <4> QED
        BY <2>4, <4>1, <4>2
    <3>4. ASSUME CompressBlock
          PROVE  DataInv'
      <4>1. ~Idle /\ ~Idle' /\ at' = at
        BY <3>4 DEF CompressBlock, FirstByte, Search, Literals, NextMatch, Test, LastLiterals, Return,
                    Kept, userVars, Idle
      <4>2. BlockData /\ at >= BUF
        BY <2>2 DEF DataInv, BlockData
      <4>3. BlockData'
        BY <2>2, <3>4, <4>2, BlockStepData
      <4> QED
        BY <2>4, <4>1, <4>2, <4>3
    <3>5. DataInv'
      BY <2>2, <2>5, <3>1, <3>2, <3>3, <3>4, ReturnedData, BeginData, SaveDictData
    <3> QED
      BY <1>2, <2>1, <3>5 DEF ComparesInv
  <2> QED
    BY <2>6, <2>7
<1> QED
  BY <1>1, <1>2

LEMMA DataBegins == Init => ComparesInv
<1> SUFFICES ASSUME Init PROVE ComparesInv
  OBVIOUS
<1>1. /\ UserInit(IF stream = "fast" THEN Dictionary ELSE Numbered)
      /\ BlockInit /\ lz = LZ4_initStream /\ dictLz = LZ4_initStream
  BY DEF Init, StreamInit
<1>2. at = BUF /\ BUF \in Nat /\ pc = "idle" /\ ~stray
  BY <1>1, Places DEF UserInit, BlockInit
<1>3. Known(lz) /\ DictPlaced(lz)
  BY <1>1 DEF Known, DictPlaced, LZ4_initStream
<1>4. ASSUME stream = "fast"
      PROVE  DataInv
  <2>1. OutputInv
    BY <1>4, RoomBegins DEF RoomInv
  <2> QED
    BY <1>2, <1>3, <2>1 DEF DataInv, Idle, InSearch, Continuing
<1> QED
  BY <1>2, <1>4 DEF ComparesInv

(* ComparesOnlyData: whatever a table still has of other blocks and other  *)
(* streams, and wherever the program puts its blocks, the search of the    *)
(* fast compressor looks up nothing but the data of the present one.  A    *)
(* ring has to hold two blocks of the greatest size.                       *)
THEOREM FastCompressorComparesOnlyData ==
  ASSUME RING >= 2 * MAXBLOCK
  PROVE  Spec => []ComparesOnlyData
<1>1. ComparesInv => ComparesOnlyData
  BY DEF ComparesInv, DataInv, ComparesOnlyData
<1>2. ComparesInv /\ [Next]_streamVars => ComparesInv'
  BY DataStep
<1> QED
  BY <1>1, <1>2, DataBegins, PTL DEF Spec

-----------------------------------------------------------------------------
(* The blocks decode.  The dictionary of a stream is kept the end of what  *)
(* the decoder has, the bytes that a match is compared with are where its  *)
(* distance leads the decoder, and what is written decodes to the block up *)
(* to the anchor.                                                          *)

(* Before an address stands the end of a window: so many bytes, as far     *)
(* back as a distance reaches.                                             *)
Behind(end, size, window) ==
  \A k \in 1 .. DISTANCE_MAX :
    k <= size => k <= Len(window) /\ Byte(end - k) = window[Len(window) - k + 1]

(* A dictionary is the end of what the decoder has.                        *)
DictIs(s, window) == Behind(s.dictionary + s.dictSize, s.dictSize, window)

(* What the decoder has with the block.                                    *)
Window == history \o Source

Following == IF ExternalMode THEN [lz EXCEPT !.dictionary = call.source, !.dictSize = call.n] ELSE lz

(* The dictionary of an open stream, its own or the attached one, before   *)
(* and after a block.                                                      *)
DictKept(s, window) == DictIs(s, window) /\ (s.dictCtx => DictIs(dictLz, window))

OpenStream ==
  status = "open" =>
    /\ Idle => DictKept(lz, history)
    /\ Compressing => call.limit # "fillOutput" /\ DictKept(Following, Window)

(* What stands before the block, or in the dictionary, while it is         *)
(* compressed.                                                             *)
BeforeIsHistory ==
  call.directive # "noDict" =>
    Behind(IF maybe_extMem THEN dictEnd ELSE call.source, call.dictSize, history)

(* The distance of a match leads to where it was found.                    *)
Leads ==
  /\ cand.offset \in 1 .. DISTANCE_MAX
  /\ IF InDict(cand)
       THEN /\ call.dictionary <= cand.addr
            /\ cand.offset = ip - call.source + (dictEnd - cand.addr)
       ELSE /\ cand.low <= cand.addr /\ cand.offset = ip - cand.addr
            /\ cand.low = IF call.directive = "withPrefix64k" THEN call.source - call.dictSize
                          ELSE call.source

(* What is written so far is decoded to the beginning of the block.        *)
DecodedSoFar ==
  /\ InSearch => BeforeIsHistory /\ decoded = Word(call.source, anchor - call.source)
  /\ pc \in {"literals", "nextMatch"} => Leads /\ Matched(0)
  /\ pc = "returned" /\ result > 0 =>
       /\ ip \in call.source .. iend /\ decoded = Word(call.source, ip - call.source)
       /\ call.limit # "fillOutput" => ip = iend

-----------------------------------------------------------------------------
(* Words, one after the other.                                             *)
LEMMA WordSeq ==
  ASSUME mem \in [1 .. TOP -> Values], NEW a \in Int, NEW k \in Nat
  PROVE  /\ Word(a, k) \in Seq(Values) /\ Len(Word(a, k)) = k
         /\ \A i \in 1 .. k : Word(a, k)[i] = Byte(a + i - 1)
<1>1. Word(a, k) \in [1 .. k -> Values]
  BY WordType
<1>2. \A i \in 1 .. k : Word(a, k)[i] = Byte(a + i - 1)
  BY DEF Word
<1> HIDE DEF Word
<1> QED
  BY <1>1, <1>2

LEMMA WordJoins ==
  ASSUME mem \in [1 .. TOP -> Values], NEW a \in Int, NEW j \in Nat, NEW k \in Nat
  PROVE  Word(a, j) \o Word(a + j, k) = Word(a, j + k)
<1> DEFINE s == Word(a, j)
           t == Word(a + j, k)
           u == Word(a, j + k)
<1>1. /\ s \in Seq(Values) /\ Len(s) = j /\ \A i \in 1 .. j : s[i] = Byte(a + i - 1)
      /\ t \in Seq(Values) /\ Len(t) = k /\ \A i \in 1 .. k : t[i] = Byte(a + j + i - 1)
      /\ u \in Seq(Values) /\ Len(u) = j + k /\ \A i \in 1 .. j + k : u[i] = Byte(a + i - 1)
  BY WordSeq
<1> HIDE DEF s, t, u
<1>2. /\ s \o t \in Seq(Values) /\ Len(s \o t) = j + k
      /\ \A i \in 1 .. j + k : (s \o t)[i] = IF i <= j THEN s[i] ELSE t[i - j]
  BY <1>1, ConcatProperties
<1>3. ASSUME NEW i \in 1 .. j + k
      PROVE  (s \o t)[i] = u[i]
  <2>1. CASE i <= j
    BY <1>1, <1>2, <2>1
  <2>2. CASE ~(i <= j)
    <3>1. i - j \in 1 .. k /\ a + j + (i - j) - 1 = a + i - 1
      BY <2>2
    <3> QED
      BY <1>1, <1>2, <2>2, <3>1
  <2> QED
    BY <2>1, <2>2
<1>4. s \o t = u
  BY <1>1, <1>2, <1>3, SeqEqual
<1> QED
  BY <1>4 DEF s, t, u

(* What the decoder has, and the block behind it.                          *)
LEMMA WindowIs ==
  ASSUME mem \in [1 .. TOP -> Values], history \in Seq(Values), NEW a \in Int, NEW k \in Nat
  PROVE  /\ Len(history) \in Nat
         /\ history \o Word(a, k) \in Seq(Values)
         /\ Len(history \o Word(a, k)) = Len(history) + k
         /\ \A i \in 1 .. Len(history) : (history \o Word(a, k))[i] = history[i]
         /\ \A i \in 1 .. k : (history \o Word(a, k))[Len(history) + i] = Byte(a + i - 1)
<1> DEFINE w == Word(a, k)
<1>1. w \in Seq(Values) /\ Len(w) = k /\ (\A i \in 1 .. k : w[i] = Byte(a + i - 1)) /\ Len(history) \in Nat
  BY WordSeq, LenProperties
<1> HIDE DEF w
<1>2. /\ history \o w \in Seq(Values) /\ Len(history \o w) = Len(history) + k
      /\ \A i \in 1 .. Len(history) + k :
           (history \o w)[i] = IF i <= Len(history) THEN history[i] ELSE w[i - Len(history)]
  BY <1>1, ConcatProperties
<1>3. \A i \in 1 .. Len(history) : i \in 1 .. Len(history) + k /\ i <= Len(history)
  BY <1>1
<1>4. \A i \in 1 .. k : Len(history) + i \in 1 .. Len(history) + k /\ ~(Len(history) + i <= Len(history))
                        /\ Len(history) + i - Len(history) = i
  BY <1>1
<1> QED
  BY <1>1, <1>2, <1>3, <1>4 DEF w

LEMMA Distances == DISTANCE_MAX \in Nat \ {0} /\ W = DISTANCE_MAX + 1
<1> DEFINE m == (MAXBYTE + 1) * (MAXBYTE + 1) - 1
<1>1. DISTANCE_MAX \in 1 .. m
  BY Lz4Assumption
<1>2. m \in Int
  BY Numbers
<1> HIDE DEF m
<1> QED
  BY <1>1, <1>2 DEF W

LEMMA RecentIs ==
  ASSUME NEW S, NEW s \in Seq(S)
  PROVE  /\ Recent(s) \in Seq(S)
         /\ Len(Recent(s)) = IF Len(s) <= DISTANCE_MAX THEN Len(s) ELSE DISTANCE_MAX
         /\ \A k \in 1 .. Len(Recent(s)) : Recent(s)[Len(Recent(s)) - k + 1] = s[Len(s) - k + 1]
<1>1. Len(s) \in Nat /\ DISTANCE_MAX \in Nat \ {0}
  BY LenProperties, Distances
<1>2. CASE Len(s) <= DISTANCE_MAX
  BY <1>2 DEF Recent
<1>3. CASE ~(Len(s) <= DISTANCE_MAX)
  <2> DEFINE m == Len(s) - DISTANCE_MAX + 1
             r == SubSeq(s, m, Len(s))
  <2>1. m \in 1 .. Len(s) /\ Len(s) - m + 1 = DISTANCE_MAX /\ Recent(s) = r
    BY <1>1, <1>3 DEF Recent
  <2>2. \A i \in m .. Len(s) : s[i] \in S
    BY <2>1, ElementOfSeq
  <2>3. r \in Seq(S) /\ Len(r) = DISTANCE_MAX /\ \A i \in 1 .. DISTANCE_MAX : r[i] = s[m + i - 1]
    BY <1>1, <2>1, <2>2, SubSeqProperties
  <2>4. \A k \in 1 .. DISTANCE_MAX :
          DISTANCE_MAX - k + 1 \in 1 .. DISTANCE_MAX /\ m + (DISTANCE_MAX - k + 1) - 1 = Len(s) - k + 1
    BY <1>1
  <2> HIDE DEF m, r
  <2>5. \A k \in 1 .. DISTANCE_MAX : r[DISTANCE_MAX - k + 1] = s[Len(s) - k + 1]
    BY <2>3, <2>4
  <2> QED
    BY ONLY <1>3, <2>1, <2>3, <2>5
<1> QED
  BY <1>2, <1>3

-----------------------------------------------------------------------------
(* A match is equal to what stands where its distance leads, in the block, *)
(* before it or in the dictionary, and from its end on in the block.       *)
LEMMA CountEqual ==
  ASSUME NEW a \in Int, NEW b, NEW limit \in Int
  PROVE  \A i \in 0 .. Count(a, b, limit) - 1 : Same(a + i, b + i)
<1> DEFINE T == {0} \cup {k \in 1 .. limit - a : \A i \in 0 .. k - 1 : Same(a + i, b + i)}
           m == IF limit - a > 0 THEN limit - a ELSE 0
<1>1. Bounded(T, m) /\ m \in Int
  BY DEF Bounded
<1>2. \A y \in T : \A i \in 0 .. y - 1 : Same(a + i, b + i)
  OBVIOUS
<1>3. Count(a, b, limit) = Max(T)
  BY DEF Count
<1> HIDE DEF T, m
<1>4. Max(T) \in T
  BY <1>1, Greatest
<1> QED
  BY <1>2, <1>3, <1>4

LEMMA CodeMatches ==
  ASSUME BlockTypeOK, ip < mflimitPlusOne, Matched(0)
  PROVE  \A i \in 0 .. MINMATCH + MatchCode - 1 :
           LET d == dictEnd - cand.addr
           IN  IF InDict(cand) /\ i >= d THEN Same(ip + i, call.source + (i - d))
               ELSE Same(ip + i, cand.addr + i)
<1> USE Numbers
<1> DEFINE d == dictEnd - cand.addr
           limit == IF InDict(cand) THEN Min({ip + (dictEnd - cand.addr), matchlimit}) ELSE matchlimit
           a == ip + MINMATCH
           b == cand.addr + MINMATCH
           first == Count(a, b, limit)
           second == Count(limit, call.source, matchlimit)
           code == MatchCode
<1>1. /\ ip \in Nat /\ call.source \in Nat /\ call.n \in Nat /\ cand.addr \in Int
      /\ dictEnd \in Int /\ matchlimit \in Int /\ iend \in Int
  BY DEF BlockTypeOK, FastCalls, dictEnd, matchlimit, iend
<1>2. a <= matchlimit
  BY <1>1, Lz4Assumption DEF mflimitPlusOne, matchlimit
<1>3. /\ \A i \in 0 .. 0 + MINMATCH - 1 : Same(ip + i, cand.addr + i)
      /\ InDict(cand) => cand.addr + 0 + MINMATCH <= dictEnd
  BY DEF Matched
<1>4. /\ limit \in Int /\ limit <= matchlimit /\ a <= limit
      /\ InDict(cand) => limit = IF ip + d <= matchlimit THEN ip + d ELSE matchlimit
  <2>1. ip + d \in Int /\ (InDict(cand) => a <= ip + d)
    BY <1>1, <1>3
  <2>2. Min({ip + d, matchlimit}) = IF ip + d <= matchlimit THEN ip + d ELSE matchlimit
    BY <1>1, <2>1, MinIs
  <2>3. limit = IF InDict(cand) THEN Min({ip + d, matchlimit}) ELSE matchlimit
    OBVIOUS
  <2> HIDE DEF limit, d, a
  <2> QED
    BY <1>1, <1>2, <2>1, <2>2, <2>3
<1>5. code = IF InDict(cand) /\ a + first = limit THEN first + second ELSE first
  BY DEF MatchCode
<1> HIDE DEF limit, code
<1>6. /\ first \in Nat /\ (first = 0 \/ first <= limit - a)
      /\ \A i \in 0 .. first - 1 : Same(a + i, b + i)
  BY <1>1, <1>4, CountWithin, CountEqual
<1>7. /\ second \in Nat /\ (second = 0 \/ second <= matchlimit - limit)
      /\ \A i \in 0 .. second - 1 : Same(limit + i, call.source + i)
  BY <1>1, <1>4, CountWithin, CountEqual
<1> HIDE DEF first, second
<1>8. ASSUME NEW i \in 0 .. MINMATCH + first - 1
      PROVE  Same(ip + i, cand.addr + i)
  <2>1. CASE i < MINMATCH
    BY <1>3, <2>1
  <2>2. CASE ~(i < MINMATCH)
    <3>1. i - MINMATCH \in 0 .. first - 1 /\ a + (i - MINMATCH) = ip + i
          /\ b + (i - MINMATCH) = cand.addr + i
      BY <1>1, <1>6, <2>2
    <3> QED
      BY <1>6, <3>1
  <2> QED
    BY <2>1, <2>2
<1>9. ASSUME NEW i \in 0 .. MINMATCH + code - 1
      PROVE  IF InDict(cand) /\ i >= d THEN Same(ip + i, call.source + (i - d))
             ELSE Same(ip + i, cand.addr + i)
  <2>1. CASE InDict(cand) /\ i >= d
    <3>1. a + first <= limit /\ limit <= ip + d /\ d \in Int
      BY <1>1, <1>4, <1>6, <2>1
    <3> HIDE DEF d
    <3>2. a + first = limit /\ code = first + second
      <4>1. CASE code = first
        <5>1. i < MINMATCH + first
          BY <1>6, <4>1
        <5> QED
          BY <1>1, <1>4, <1>6, <2>1, <3>1, <5>1
      <4> QED
        BY <1>5, <4>1
    <3>3. second > 0
      BY <1>1, <1>6, <1>7, <2>1, <3>1, <3>2
    <3>4. limit = ip + d
      BY <1>1, <1>4, <1>7, <2>1, <3>1, <3>3 DEF d
    <3>5. i - d \in 0 .. second - 1 /\ limit + (i - d) = ip + i
      BY <1>1, <1>6, <1>7, <2>1, <3>1, <3>2, <3>4
    <3> QED
      BY <1>7, <2>1, <3>5
  <2>2. CASE ~(InDict(cand) /\ i >= d)
    <3>1. i \in 0 .. MINMATCH + first - 1
      <4>1. CASE code = first
        BY <4>1
      <4>2. CASE InDict(cand) /\ a + first = limit
        <5>1. i < d /\ d \in Int
          BY <1>1, <2>2, <4>2
        <5> HIDE DEF d
        <5>2. limit <= matchlimit /\ (limit = ip + d \/ limit = matchlimit)
          BY <1>1, <1>4, <4>2 DEF d
        <5>3. CASE limit = ip + d
          BY <1>1, <1>6, <4>2, <5>1, <5>3
        <5>4. CASE limit = matchlimit
          BY <1>1, <1>5, <1>6, <1>7, <4>2, <5>4
        <5> QED
          BY <5>2, <5>3, <5>4
      <4> QED
        BY <1>5, <4>1, <4>2
    <3> QED
      BY <1>8, <2>2, <3>1
  <2> QED
    BY <2>1, <2>2
<1> QED
  BY <1>9 DEF code

(* Behind h bytes of w stands a block of n; and before address e the last  *)
(* of those h bytes.                                                       *)
HasBlock(w, h, n, source) == \A i \in 1 .. n : w[h + i] = Byte(source + i - 1)
EndsAs(w, h, e, d) == \A k \in 1 .. d : Byte(e - k) = w[h - k + 1]

(* What is equal, from a dictionary on that ends after d bytes.            *)
EqualDict(a, addr, source, d, len) ==
  \A i \in 0 .. len - 1 :
    /\ i >= d => Same(a + i, source + (i - d))
    /\ ~(i >= d) => Same(a + i, addr + i)

(* What is found in a dictionary that ends d bytes behind it, and goes on  *)
(* at the beginning of the block, repeats what went before.                *)
LEMMA DictRepeats ==
  ASSUME NEW w, NEW h \in Nat, NEW n \in Nat, NEW source \in Int, NEW p \in Nat, NEW len \in Nat,
         p + len <= n, NEW addr \in Int, NEW d \in Nat \ {0}, d <= h,
         HasBlock(w, h, n, source), EndsAs(w, h, addr + d, d),
         EqualDict(source + p, addr, source, d, len)
  PROVE  Periodic(w, h + p, p + d, len)
<1> USE DEF HasBlock, EndsAs, EqualDict
<1>1. ASSUME NEW i \in 1 .. len
      PROVE  w[h + p + i] = w[(h + p) - (p + d) + i]
  <2>1. i - 1 \in 0 .. len - 1 /\ p + i \in 1 .. n /\ h + p + i = h + (p + i)
        /\ source + (p + i) - 1 = source + p + (i - 1) /\ (h + p) - (p + d) + i = h - d + i
    OBVIOUS
  <2>2. w[h + p + i] = Byte(source + p + (i - 1))
    BY <2>1
  <2>3. CASE i <= d
    <3>1. d - i + 1 \in 1 .. d /\ (addr + d) - (d - i + 1) = addr + (i - 1) /\ h - (d - i + 1) + 1 = h - d + i
          /\ ~(i - 1 >= d)
      BY <2>3
    <3>2. Same(source + p + (i - 1), addr + (i - 1))
      BY <2>1, <3>1
    <3> QED
      BY <2>1, <2>2, <3>1, <3>2 DEF Same
  <2>4. CASE ~(i <= d)
    <3>1. i - d \in 1 .. n /\ h - d + i = h + (i - d) /\ source + (i - d) - 1 = source + ((i - 1) - d)
          /\ i - 1 >= d
      BY <2>4
    <3>2. Same(source + p + (i - 1), source + ((i - 1) - d))
      BY <2>1, <3>1
    <3> QED
      BY <2>1, <2>2, <3>1, <3>2 DEF Same
  <2> QED
    BY <2>3, <2>4
<1> QED
  BY <1>1 DEF Periodic

(* So does what is found in the block, or before it.                       *)
LEMMA PrefixRepeats ==
  ASSUME NEW w, NEW h \in Nat, NEW n \in Nat, NEW source \in Int, NEW p \in Nat, NEW len \in Nat,
         p + len <= n, NEW addr \in Int, source + p - addr \in 1 .. h + p,
         \A i \in 1 .. n : w[h + i] = Byte(source + i - 1),
         \A k \in 1 .. source - addr : Byte(source - k) = w[h - k + 1],
         \A i \in 0 .. len - 1 : Same(source + p + i, addr + i)
  PROVE  Periodic(w, h + p, source + p - addr, len)
<1>1. ASSUME NEW i \in 1 .. len
      PROVE  w[h + p + i] = w[(h + p) - (source + p - addr) + i]
  <2>1. i - 1 \in 0 .. len - 1 /\ p + i \in 1 .. n /\ h + p + i = h + (p + i)
        /\ source + (p + i) - 1 = source + p + (i - 1)
        /\ (h + p) - (source + p - addr) + i = h + addr - source + i
    OBVIOUS
  <2>2. w[h + p + i] = Byte(source + p + (i - 1)) /\ Same(source + p + (i - 1), addr + (i - 1))
    BY <2>1
  <2>3. CASE addr + (i - 1) >= source
    <3>1. addr + i - source \in 1 .. n /\ h + addr - source + i = h + (addr + i - source)
          /\ source + (addr + i - source) - 1 = addr + (i - 1)
      BY <2>3
    <3> QED
      BY <2>1, <2>2, <3>1 DEF Same
  <2>4. CASE ~(addr + (i - 1) >= source)
    <3> DEFINE k == source - (addr + (i - 1))
    <3>1. k \in 1 .. source - addr /\ source - k = addr + (i - 1) /\ h - k + 1 = h + addr - source + i
      BY <2>4
    <3> HIDE DEF k
    <3> QED
      BY <2>1, <2>2, <3>1 DEF Same
  <2> QED
    BY <2>3, <2>4
<1> QED
  BY <1>1 DEF Periodic

(* So a match repeats what the decoder has at its distance.                *)
LEMMA MatchRepeats ==
  ASSUME BlockTypeOK, mem \in [1 .. TOP -> Values], history \in Seq(Values),
         call.source <= ip, ip < mflimitPlusOne, BeforeIsHistory, Leads, Matched(0)
  PROVE  /\ cand.offset \in 1 .. Len(history) + (ip - call.source)
         /\ Periodic(Window, Len(history) + (ip - call.source), cand.offset, MINMATCH + MatchCode)
         /\ (ip - call.source) + (MINMATCH + MatchCode) <= call.n
<1> USE Numbers
<1>1. PICK source, n, a, addr, off, end, size :
        /\ source = call.source /\ n = call.n /\ a = ip /\ addr = cand.addr /\ off = cand.offset
        /\ end = dictEnd /\ size = call.dictSize
  OBVIOUS
<1>2. PICK h, p, len, d : h = Len(history) /\ p = a - source /\ len = MINMATCH + MatchCode /\ d = end - addr
  OBVIOUS
<1>20. p = a - source /\ d = end - addr
  BY <1>2
<1>3. /\ a \in Nat /\ source \in Nat /\ n \in Nat /\ addr \in Int /\ size \in Nat /\ end \in Int
      /\ end = call.dictionary + size /\ call.dictionary \in Nat /\ source <= a
  BY <1>1 DEF BlockTypeOK, FastCalls, dictEnd
<1>4. off \in 1 .. DISTANCE_MAX /\ DISTANCE_MAX \in Nat
  BY <1>1, Distances DEF Leads
<1>5. MatchCode \in Nat /\ ip + MINMATCH + MatchCode <= matchlimit
  BY CodeWithin
<1>0. MINMATCH = 4 /\ LASTLITERALS \in Nat
  BY FastAssumption
<1>6. len \in Nat \ {0} /\ p \in Nat /\ p + len <= n /\ a = source + p
  <2>1. matchlimit = (source + n) - LASTLITERALS
    BY <1>1 DEF matchlimit, iend
  <2>2. PICK code : code = MatchCode
    OBVIOUS
  <2>3. code \in Nat /\ a + MINMATCH + code <= (source + n) - LASTLITERALS /\ len = MINMATCH + code
    BY <1>1, <1>2, <1>5, <2>1, <2>2
  <2> QED
    BY ONLY <1>0, <1>20, <1>3, <2>3
<1>7. /\ h \in Nat
      /\ \A i \in 1 .. h : Window[i] = history[i]
      /\ \A i \in 1 .. n : Window[h + i] = Byte(source + i - 1)
  <2>1. source \in Int /\ history \in Seq(Values) /\ mem \in [1 .. TOP -> Values]
    BY <1>3
  <2>2. Window = history \o Word(source, n)
    BY <1>1 DEF Window, Source
  <2> QED
    BY ONLY <1>2, <1>3, <2>1, <2>2, WindowIs
<1>8. ASSUME NEW i \in 0 .. len - 1
      PROVE  IF InDict(cand) /\ i >= d THEN Same(source + p + i, source + (i - d))
             ELSE Same(source + p + i, addr + i)
  <2>1. i \in 0 .. MINMATCH + MatchCode - 1 /\ source + p + i = ip + i
    BY <1>1, <1>2, <1>3, <1>5, <1>6
  <2> QED
    BY <1>1, <1>2, <2>1, CodeMatches
<1>9. CASE InDict(cand)
  <2>1. /\ call.directive # "noDict" /\ maybe_extMem
        /\ call.dictionary <= addr /\ off = p + d
    BY <1>1, <1>2, <1>9 DEF Leads, InDict, maybe_extMem
  <2>2. addr + MINMATCH <= end
    BY <1>1, <1>3, <1>9 DEF Matched
  <2>3. d \in Nat \ {0} /\ d <= size /\ d <= DISTANCE_MAX /\ end = addr + d
    BY ONLY <1>0, <1>20, <1>3, <1>4, <1>6, <2>1, <2>2
  <2>4. \A k \in 1 .. DISTANCE_MAX : k <= size => k <= h /\ Byte(end - k) = history[h - k + 1]
    BY <1>1, <1>2, <2>1 DEF BeforeIsHistory, Behind
  <2>5. d <= h
    BY <2>3, <2>4
  <2>6. \A k \in 1 .. d : Byte((addr + d) - k) = Window[h - k + 1]
    <3>1. ASSUME NEW k \in 1 .. d
          PROVE  Byte((addr + d) - k) = Window[h - k + 1]
      <4>1. k \in 1 .. DISTANCE_MAX /\ k <= size /\ h - k + 1 \in 1 .. h /\ (addr + d) - k = end - k
        BY <1>3, <1>4, <1>7, <2>3, <2>5
      <4> QED
        BY <1>7, <2>4, <4>1
    <3> QED
      BY <3>1
  <2>7. Periodic(Window, h + p, p + d, len)
    <3>1. EqualDict(source + p, addr, source, d, len)
      BY <1>8, <1>9 DEF EqualDict
    <3>2. /\ source \in Int /\ len \in Nat /\ d \in Nat \ {0} /\ d <= h /\ h \in Nat /\ n \in Nat
          /\ p \in Nat /\ p + len <= n /\ addr \in Int
      BY <1>3, <1>6, <1>7, <2>3, <2>5
    <3>3. HasBlock(Window, h, n, source) /\ EndsAs(Window, h, addr + d, d)
      BY <1>7, <2>6 DEF HasBlock, EndsAs
    <3> QED
      BY ONLY <3>1, <3>2, <3>3, DictRepeats
  <2>8. off \in 1 .. h + p
    <3>1. h \in Nat /\ p \in Nat /\ off = p + d /\ d \in Nat \ {0} /\ d <= h
      BY <1>6, <1>7, <2>1, <2>3, <2>5
    <3> QED
      BY ONLY <3>1
  <2> QED
    BY <1>1, <1>2, <1>6, <2>1, <2>7, <2>8
<1>10. CASE ~InDict(cand)
  <2>1. /\ cand.low <= addr /\ off = a - addr
        /\ cand.low = IF call.directive = "withPrefix64k" THEN source - size ELSE source
    BY <1>1, <1>10 DEF Leads
  <2>2. ASSUME NEW k \in 1 .. source - addr
        PROVE  k <= h /\ Byte(source - k) = history[h - k + 1]
    <3>1. call.directive = "withPrefix64k" /\ k <= size
      BY <1>3, <2>1
    <3>2. ~maybe_extMem /\ call.directive # "noDict"
      BY <3>1 DEF maybe_extMem
    <3>3. k \in 1 .. DISTANCE_MAX
      BY <1>3, <1>4, <1>6, <2>1
    <3> QED
      BY <1>1, <1>2, <3>1, <3>2, <3>3 DEF BeforeIsHistory, Behind
  <2>3. off = source + p - addr
    BY <1>3, <1>6, <2>1
  <2>4. off \in 1 .. h + p
    <3>1. CASE addr >= source
      BY <1>3, <1>4, <1>6, <1>7, <2>3, <3>1
    <3>2. CASE ~(addr >= source)
      <4>1. source - addr \in 1 .. source - addr
        BY <1>3, <3>2
      <4>2. source - addr <= h
        BY <2>2, <4>1
      <4> QED
        BY <1>3, <1>4, <1>6, <1>7, <2>3, <4>2
    <3> QED
      BY <3>1, <3>2
  <2>5. \A k \in 1 .. source - addr : Byte(source - k) = Window[h - k + 1]
    <3>1. ASSUME NEW k \in 1 .. source - addr
          PROVE  Byte(source - k) = Window[h - k + 1]
      <4>1. k \in Int /\ k <= h /\ Byte(source - k) = history[h - k + 1]
        BY <2>2, <1>3
      <4>2. h - k + 1 \in 1 .. h
        BY <1>7, <4>1
      <4> QED
        BY <1>7, <4>1, <4>2
    <3> QED
      BY <3>1
  <2>6. source + p - addr \in 1 .. h + p
    BY <2>3, <2>4
  <2>7. \A i \in 0 .. len - 1 : Same(source + p + i, addr + i)
    BY <1>8, <1>10
  <2>8. source \in Int
    BY <1>3
  <2>9. Periodic(Window, h + p, source + p - addr, len)
    BY ONLY <1>3, <1>6, <1>7, <2>5, <2>6, <2>7, <2>8, PrefixRepeats
  <2> QED
    BY <1>1, <1>2, <1>6, <2>3, <2>4, <2>9
<1> QED
  BY <1>9, <1>10

(* What the decoder makes of it are the bytes of the block.                *)
LEMMA MatchDecodes ==
  ASSUME mem \in [1 .. TOP -> Values], history \in Seq(Values), call.n \in Nat,
         NEW source \in Nat, source = call.source, NEW q \in Nat, NEW lit \in Nat,
         NEW len \in Nat, q + lit + len <= call.n,
         decoded = Word(source, q),
         NEW off \in 1 .. Len(history) + (q + lit),
         NEW most \in Nat, len <= most, Periodic(Window, Len(history) + (q + lit), off, most)
  PROVE  Decoded(off, Word(source + q, lit), len) = Word(source, q + lit + len)
<1>1. PICK h, p, n, made, u :
        /\ h = Len(history) /\ p = q + lit /\ n = call.n
        /\ made = Word(source, p) /\ u = history \o made
  OBVIOUS
<1>2. decoded \o Word(source + q, lit) = made /\ p \in Nat /\ n \in Nat /\ source \in Int
  <2>1. source \in Int /\ q \in Nat /\ lit \in Nat /\ mem \in [1 .. TOP -> Values]
    OBVIOUS
  <2>2. Word(source, q) \o Word(source + q, lit) = Word(source, q + lit)
    BY ONLY <2>1, WordJoins
  <2>3. p \in Nat /\ n \in Nat
    BY <1>1
  <2>4. decoded \o Word(source + q, lit) = made
    BY ONLY decoded = Word(source, q), <1>1, <2>2
  <2> QED
    BY ONLY <2>1, <2>3, <2>4
<1>3. /\ h \in Nat /\ u \in Seq(Values) /\ Len(u) = h + p
      /\ \A i \in 1 .. h : u[i] = history[i]
      /\ \A i \in 1 .. p : u[h + i] = Byte(source + i - 1)
  <2>1. history \in Seq(Values) /\ mem \in [1 .. TOP -> Values] /\ u = history \o Word(source, p)
        /\ h = Len(history) /\ p \in Nat /\ source \in Int
    BY <1>1, <1>2
  <2> QED
    BY ONLY <2>1, WindowIs
<1>4. /\ \A i \in 1 .. h : Window[i] = history[i]
      /\ \A i \in 1 .. n : Window[h + i] = Byte(source + i - 1)
  <2>1. Window = history \o Word(source, n)
    BY <1>1 DEF Window, Source
  <2> QED
    BY ONLY history \in Seq(Values), mem \in [1 .. TOP -> Values], <1>1, <1>2, <2>1, WindowIs
<1>5. p + len <= n /\ p \in Nat /\ len \in Nat /\ n \in Nat /\ h \in Nat /\ source \in Int
  BY <1>1, <1>2, <1>3
<1>6. ASSUME NEW i \in 1 .. h + p
      PROVE  u[i] = Window[i]
  <2>1. CASE i <= h
    BY <1>3, <1>4, <2>1
  <2>2. CASE ~(i <= h)
    <3>1. i - h \in 1 .. p /\ i - h \in 1 .. n /\ h + (i - h) = i
      BY ONLY <1>5, <2>2, i \in 1 .. h + p
    <3> QED
      BY <1>3, <1>4, <3>1
  <2> QED
    BY <2>1, <2>2
<1>7. PICK j : j = h + p
  OBVIOUS
<1>8. j \in Nat /\ off \in 1 .. j /\ Len(u) = j /\ Periodic(Window, j, off, len)
  <2>1. off \in 1 .. j /\ Periodic(Window, j, off, most) /\ j \in Nat /\ Len(u) = j
    BY <1>1, <1>2, <1>3, <1>7
  <2>2. \A i \in 1 .. len : i \in 1 .. most
    OBVIOUS
  <2> QED
    BY ONLY <2>1, <2>2 DEF Periodic
<1>9. \A i \in 1 .. len : Window[j + i] = Window[j - off + 1 + ((i - 1) % off)]
  BY <1>8, OverlapRepeats
<1>10. CopyMatch(u, off, len) = Word(source + p, len)
  <2>1. ASSUME NEW i \in 1 .. len
        PROVE  u[Len(u) - off + 1 + ((i - 1) % off)] = Byte((source + p) + i - 1)
    <3>1. (i - 1) % off \in 0 .. off - 1
      <4>1. i - 1 \in Nat /\ off \in Nat \ {0}
        BY <1>8
      <4> QED
        BY ONLY <4>1, QuotientRemainder
    <3>2. PICK r : r = (i - 1) % off
      OBVIOUS
    <3>3. j - off + 1 + r \in 1 .. h + p
      BY <1>7, <1>8, <3>1, <3>2
    <3>4. u[j - off + 1 + r] = Window[j + i]
      BY <1>6, <1>9, <3>2, <3>3
    <3>5. p + i \in 1 .. n /\ j + i = h + (p + i) /\ source + (p + i) - 1 = (source + p) + i - 1
      BY ONLY <1>5, <1>7, i \in 1 .. len
    <3>6. Window[h + (p + i)] = Byte(source + (p + i) - 1)
      BY <1>4, <3>5
    <3> QED
      BY <1>8, <3>2, <3>4, <3>5, <3>6
  <2> QED
    BY <2>1 DEF CopyMatch, Word
<1>11. made \o Word(source + p, len) = Word(source, p + len)
  <2>1. made = Word(source, p) /\ mem \in [1 .. TOP -> Values]
    BY <1>1
  <2> QED
    BY ONLY <1>5, <2>1, WordJoins
<1>12. Decoded(off, Word(source + q, lit), len) = made \o CopyMatch(u, off, len)
  <2>1. Len(decoded) = q /\ Len(Word(source + q, lit)) = lit
    <3>1. source \in Int /\ source + q \in Int
      OBVIOUS
    <3> QED
      BY <3>1, WordSeq
  <2>2. off \in 1 .. Len(history) + Len(decoded) + Len(Word(source + q, lit))
    BY <1>1, <1>3, <2>1
  <2> QED
    BY <1>1, <1>2, <2>2 DEF Decoded, CopyOf
<1>13. p + len = q + lit + len
  BY <1>1
<1> QED
  BY <1>10, <1>11, <1>12, <1>13

-----------------------------------------------------------------------------
(* What a step of the block keeps.                                         *)
LEMMA HistoryKept ==
  ASSUME OpenStream, UNCHANGED <<userVars, call, dictLz>>, pc \notin {"idle", "returned"}, ~Idle',
         lz \in FastStates, NEW t, lz' = [lz EXCEPT !.table = t]
  PROVE  OpenStream' /\ (BeforeIsHistory => BeforeIsHistory')
<1>1. PICK f, g : f = Following /\ g = Following'
  OBVIOUS
<1>2. /\ lz'.dictionary = lz.dictionary /\ lz'.dictSize = lz.dictSize /\ lz'.dictCtx = lz.dictCtx
      /\ DOMAIN lz = DOMAIN lz'
      /\ {"dictionary", "dictSize", "dictCtx", "table", "tableType", "currentOffset"} = DOMAIN lz
  BY DEF FastStates
<1>3. /\ g.dictionary = f.dictionary /\ g.dictSize = f.dictSize /\ g.dictCtx = f.dictCtx
  <2>1. f = IF ExternalMode THEN [lz EXCEPT !.dictionary = call.source, !.dictSize = call.n] ELSE lz
    BY <1>1 DEF Following
  <2>2. g = IF ExternalMode THEN [lz' EXCEPT !.dictionary = call.source, !.dictSize = call.n] ELSE lz'
    BY <1>1 DEF Following, ExternalMode
  <2>3. CASE ExternalMode
    BY <1>2, <2>1, <2>2, <2>3
  <2>4. CASE ~ExternalMode
    BY <1>2, <2>1, <2>2, <2>4
  <2> QED
    BY <2>3, <2>4
<1>4. mem' = mem /\ history' = history /\ status' = status /\ dictLz' = dictLz /\ call' = call
  BY DEF userVars
<1>5. Window' = Window
  BY <1>4 DEF Window, Source, Word, Byte
<1>6. OpenStream'
  <2>1. status = "open" => call.limit # "fillOutput" /\ DictKept(f, Window)
    BY <1>1 DEF OpenStream, Idle, Compressing
  <2>2. status = "open" => DictKept(g, Window)'
    <3>1. \A w : DictIs(f, w) => DictIs(g, w)'
      BY <1>3, <1>4 DEF DictIs, Behind, Byte
    <3>2. \A w : DictIs(dictLz, w) => DictIs(dictLz, w)'
      BY <1>4 DEF DictIs, Behind, Byte
    <3> QED
      BY <1>3, <1>5, <2>1, <3>1, <3>2 DEF DictKept
  <2> QED
    BY <1>1, <1>4, <2>1, <2>2 DEF OpenStream
<1>7. BeforeIsHistory => BeforeIsHistory'
  BY <1>4 DEF BeforeIsHistory, Behind, Byte, maybe_extMem, dictEnd
<1> QED
  BY <1>6, <1>7

(* The distance of a match that is accepted leads to where it was found.   *)
LEMMA AcceptedLeads ==
  ASSUME FastTypeOK, Calls, NEW table \in [Hashes -> Nat], NEW a \in Nat,
         IsData(Candidate(table, a), a)
  PROVE  LET m == MatchOf(Candidate(table, a), a)
         IN  /\ m.offset \in 1 .. DISTANCE_MAX
             /\ IF InDict(m)
                  THEN /\ call.dictionary <= m.addr
                       /\ m.offset = (a - call.source) + (dictEnd - m.addr)
                  ELSE /\ m.low <= m.addr /\ m.offset = a - m.addr
                       /\ m.low = IF call.directive = "withPrefix64k" THEN call.source - call.dictSize
                                  ELSE call.source
<1> USE Numbers
<1> DEFINE c == Candidate(table, a)
           m == MatchOf(c, a)
           h == HashAt(a, call.tableType)
           low == IF call.directive = "withPrefix64k" THEN call.source - call.dictSize
                  ELSE call.source
<1>1. /\ call.source \in Nat /\ call.startIndex \in Nat /\ base = call.source - call.startIndex
      /\ call.dictionary \in Nat /\ call.dictSize \in Nat /\ dictEnd \in Int
  BY CallTypes DEF FastTypeOK, dictEnd
<1>2. PICK own, f, e, co, end, source, index :
        /\ own = table[h] /\ f = dictLz.table[h] /\ e = Index(a) /\ co = dictLz.currentOffset
        /\ end = dictEnd /\ source = call.source /\ index = call.startIndex
  OBVIOUS
<1>3. h \in Hashes
  BY HashAtType DEF FastTypeOK, UserTypeOK
<1>4. own \in Int /\ f \in Int /\ co \in Int /\ end \in Int /\ source \in Int /\ index \in Int
      /\ e = a - source + index
  <2>1. e = a - (source - index)
    BY <1>1, <1>2 DEF Index
  <2> QED
    BY <1>1, <1>2, <1>3, <2>1 DEF FastTypeOK, FastStates
<1>5. m.addr = c.addr /\ m.low = c.low /\ m.offset = e - c.index /\ (InDict(m) <=> InDict(c))
      /\ c \in [index : Int, addr : Int, low : Int]
  BY <1>2, CandidateType DEF MatchOf, InDict
<1>6. /\ c.index < e /\ e - c.index <= DISTANCE_MAX
      /\ IF InDict(c) THEN c.addr >= call.dictionary ELSE c.addr >= c.low
  BY <1>2 DEF IsData
<1>7. m.offset \in 1 .. DISTANCE_MAX
  BY <1>4, <1>5, <1>6, Distances
<1>8. CASE maybe_extMem /\ own < index /\ call.directive = "usingDictCtx"
  <2>1. /\ c.index = f + (index - co) /\ c.addr = (end - co) + f /\ c.low = call.dictionary
    BY <1>2, <1>8 DEF Candidate, dictDelta, dictBase
  <2>2. InDict(m)
    BY <1>5, <1>8, <2>1 DEF InDict
  <2>3. e - c.index = (a - source) + (end - c.addr)
    BY ONLY <1>4, <2>1, a \in Nat
  <2> QED
    BY <1>2, <1>5, <1>6, <1>7, <2>2, <2>3
<1>9. CASE maybe_extMem /\ own < index /\ call.directive # "usingDictCtx"
  <2>1. /\ c.index = own /\ c.addr = (end - index) + own /\ c.low = call.dictionary
    BY <1>2, <1>9 DEF Candidate, dictBase
  <2>2. InDict(m)
    BY <1>5, <1>9, <2>1 DEF InDict
  <2>3. e - c.index = (a - source) + (end - c.addr)
    BY ONLY <1>4, <2>1, a \in Nat
  <2> QED
    BY <1>2, <1>5, <1>6, <1>7, <2>2, <2>3
<1>10. CASE ~(maybe_extMem /\ own < index)
  <2>1. /\ c.index = own /\ c.addr = (source - index) + own /\ c.low = low
    BY <1>1, <1>2, <1>10 DEF Candidate
  <2>2. ~InDict(m)
    <3>1. maybe_extMem => low # call.dictionary
      BY <1>1 DEF maybe_extMem, Calls, SmallSingle, LargeSingle, Prefixed, External, Attached
    <3> QED
      BY <1>5, <2>1, <3>1 DEF InDict
  <2>3. e - c.index = a - c.addr
    BY ONLY <1>4, <2>1, a \in Nat
  <2> QED
    BY <1>2, <1>5, <1>6, <1>7, <2>1, <2>2, <2>3
<1> QED
  BY <1>8, <1>9, <1>10

LEMMA LeadsThen ==
  ASSUME UNCHANGED call, NEW a, a = ip', NEW m, m = cand',
         m.offset \in 1 .. DISTANCE_MAX,
         IF InDict(m)
           THEN /\ call.dictionary <= m.addr
                /\ m.offset = (a - call.source) + (dictEnd - m.addr)
           ELSE /\ m.low <= m.addr /\ m.offset = a - m.addr
                /\ m.low = IF call.directive = "withPrefix64k" THEN call.source - call.dictSize
                           ELSE call.source
  PROVE  Leads'
BY DEF Leads, InDict, maybe_extMem, dictEnd

-----------------------------------------------------------------------------
(* The steps of a block.                                                   *)
BlockHistory == OpenStream /\ DecodedSoFar /\ history \in Seq(Values)

LEMMA FirstByteHistory ==
  ASSUME OutputInv, BlockHistory, FirstByte
  PROVE  BlockHistory'
<1>1. /\ pc = "first" /\ pc' = "search" /\ UNCHANGED <<userVars, call, dictLz>>
      /\ anchor' = anchor /\ decoded' = decoded
      /\ lz' = [lz EXCEPT !.table = Put(@, ip, call.tableType, call.startIndex)]
  BY DEF FirstByte, Kept
<1>2. lz \in FastStates
  BY DEF OutputInv, FastTypeOK
<1>3. PICK t : lz' = [lz EXCEPT !.table = t]
  BY <1>1, <1>2 DEF FastStates
<1>4. OpenStream' /\ BeforeIsHistory' /\ decoded = Word(call.source, anchor - call.source)
  <2>1. BeforeIsHistory /\ decoded = Word(call.source, anchor - call.source) /\ OpenStream
    BY <1>1 DEF BlockHistory, DecodedSoFar, InSearch
  <2>2. ~Idle' /\ pc \notin {"idle", "returned"}
    BY <1>1 DEF Idle
  <2> QED
    BY ONLY <1>1, <1>2, <1>3, <2>1, <2>2, HistoryKept
<1>5. decoded' = Word(call.source, anchor - call.source)'
  BY <1>1, <1>4 DEF Word, Byte, userVars
<1> QED
  BY <1>1, <1>4, <1>5 DEF BlockHistory, DecodedSoFar, userVars

LEMMA SearchHistory ==
  ASSUME OutputInv, BlockData, BlockHistory, Search
  PROVE  BlockHistory'
<1> DEFINE c == Candidate(lz.table, forward)
           m == MatchOf(c, forward)
<1>1. /\ FastTypeOK /\ BlockTypeOK /\ lz \in FastStates /\ lz.table \in [Hashes -> Nat]
      /\ forward \in Nat /\ tries \in Nat /\ mflimitPlusOne \in Int
  BY CallTypes, Numbers DEF OutputInv, FastTypeOK, BlockTypeOK, FastStates
<1>2. /\ pc = "search" /\ UNCHANGED <<userVars, call, dictLz>>
      /\ anchor' = anchor /\ decoded' = decoded
  BY DEF Search, Kept
<1>3. Searching /\ BeforeIsHistory /\ decoded = Word(call.source, anchor - call.source) /\ OpenStream
  BY <1>2 DEF InSearch, BlockData, BlockHistory, DecodedSoFar
<1>4. call.source < forward /\ Calls /\ KnowsBefore(lz.table, Index(forward))
  BY <1>2, <1>3 DEF OutputInv, InBlock, Searching, Front, TableOK
<1>5. \/ pc' = "last" /\ lz' = lz
      \/ /\ forward + step <= mflimitPlusOne
         /\ lz' = [lz EXCEPT !.table = Put(@, forward, call.tableType, Index(forward))]
         /\ IF Accepted(c, forward) THEN pc' = "literals" /\ cand' = m /\ ip' = forward
            ELSE pc' = "search"
  <2>1. step \in Int
    BY <1>1, StepIs
  <2> QED
    BY <1>1, <2>1 DEF Search
<1>6. PICK t : lz' = [lz EXCEPT !.table = t]
  BY <1>1, <1>5 DEF FastStates
<1>7. OpenStream' /\ BeforeIsHistory' /\ pc' \in {"last", "literals", "search"}
  <2>1. pc' \in {"last", "literals", "search"}
    BY <1>5
  <2>2. ~Idle' /\ pc \notin {"idle", "returned"}
    BY <1>2, <2>1 DEF Idle
  <2> QED
    BY ONLY <1>1, <1>2, <1>3, <1>6, <2>1, <2>2, HistoryKept
<1>8. decoded' = Word(call.source, anchor - call.source)'
  BY <1>2, <1>3 DEF Word, Byte, userVars
<1>9. pc' = "literals" => Leads' /\ Matched(0)'
  <2> SUFFICES ASSUME pc' = "literals"
               PROVE  Leads' /\ Matched(0)'
    OBVIOUS
  <2>1. Accepted(c, forward) /\ cand' = m /\ ip' = forward /\ forward + step <= mflimitPlusOne
    BY <1>5
  <2>2. forward < mflimitPlusOne
    BY <1>1, <2>1, StepIs
  <2>3. /\ LookedUp(c, forward) => IsData(c, forward)
        /\ \A i \in 0 .. 0 + MINMATCH - 1 : Same(forward + i, m.addr + i)
        /\ InDict(m) => m.addr + 0 + MINMATCH <= dictEnd
    BY <1>1, <1>4, <2>1, <2>2, AcceptedIsMatch
  <2>4. IsData(c, forward)
    BY <2>1, <2>3 DEF Accepted
  <2>5. /\ m.offset \in 1 .. DISTANCE_MAX
        /\ IF InDict(m)
             THEN /\ call.dictionary <= m.addr
                  /\ m.offset = (forward - call.source) + (dictEnd - m.addr)
             ELSE /\ m.low <= m.addr /\ m.offset = forward - m.addr
                  /\ m.low = IF call.directive = "withPrefix64k" THEN call.source - call.dictSize
                             ELSE call.source
    BY <1>1, <1>4, <2>4, AcceptedLeads
  <2> HIDE DEF c, m
  <2>6. Leads'
    BY <1>2, <2>1, <2>5, LeadsThen
  <2>7. Matched(0)'
    BY <1>2, <2>1, <2>3, MatchedKept DEF userVars
  <2> QED
    BY <2>6, <2>7
<1> QED
  BY <1>2, <1>7, <1>8, <1>9 DEF BlockHistory, DecodedSoFar, userVars

LEMMA BackLow ==
  ASSUME NEW a \in Int, NEW b \in Int, anchor \in Int, cand.low \in Int, anchor <= a, cand.low <= b
  PROVE  Back(a, b) <= b - cand.low
<1> DEFINE most == Min({a - anchor, b - cand.low})
           T == {0} \cup {k \in 1 .. most : \A i \in 1 .. k : Same(a - i, b - i)}
<1>1. most \in Int /\ most <= b - cand.low
  BY MinIs
<1>2. Back(a, b) = Max(T)
  BY DEF Back
<1> HIDE DEF most
<1>3. Bounded(T, b - cand.low)
  BY <1>1 DEF Bounded
<1>4. \A y \in T : y <= b - cand.low
  BY <1>1
<1> HIDE DEF T
<1>5. Max(T) \in T
  BY <1>1, <1>3, Greatest, 0 \in T DEF T
<1> QED
  BY <1>2, <1>4, <1>5

LEMMA LiteralsHistory ==
  ASSUME OutputInv, BlockData, BlockHistory, Literals
  PROVE  BlockHistory'
<1> USE Numbers
<1> DEFINE k == Back(ip, cand.addr)
           c == [cand EXCEPT !.addr = @ - k]
<1>1. /\ FastTypeOK /\ BlockTypeOK /\ lz \in FastStates
      /\ ip \in Nat /\ anchor \in Nat /\ call.source \in Nat /\ dictEnd \in Int
      /\ cand \in [addr : Int, low : Int, offset : Int]
  BY CallTypes DEF OutputInv, FastTypeOK, BlockTypeOK, dictEnd
<1>2. /\ pc = "literals" /\ UNCHANGED <<userVars, call, dictLz>> /\ lz' = lz
      /\ anchor' = anchor /\ decoded' = decoded
  BY DEF Literals, Kept
<1>3. /\ Searching /\ BeforeIsHistory /\ decoded = Word(call.source, anchor - call.source)
      /\ OpenStream /\ Leads /\ Matched(0)
  BY <1>2 DEF InSearch, BlockData, BlockHistory, DecodedSoFar
<1>4. anchor <= ip
  BY <1>2 DEF OutputInv, InBlock
<1>5. \/ pc' = "returned" /\ result' = 0
      \/ pc' = "last"
      \/ pc' = "nextMatch" /\ ip' = ip - k /\ cand' = c
  BY DEF Literals, Return
<1>6. PICK t : lz' = [lz EXCEPT !.table = t]
  BY <1>1, <1>2 DEF FastStates
<1>7. OpenStream' /\ BeforeIsHistory' /\ pc' \in {"last", "returned", "nextMatch"}
  <2>1. pc' \in {"last", "returned", "nextMatch"}
    BY <1>5
  <2>2. ~Idle' /\ pc \notin {"idle", "returned"} /\ UNCHANGED <<userVars, call, dictLz>>
        /\ lz \in FastStates /\ OpenStream /\ BeforeIsHistory
    BY <1>1, <1>2, <1>3, <2>1 DEF Idle
  <2> QED
    BY ONLY <1>6, <2>1, <2>2, HistoryKept
<1>8. decoded' = Word(call.source, anchor - call.source)'
  BY <1>2, <1>3 DEF Word, Byte, userVars
<1>9. pc' = "nextMatch" => Leads' /\ Matched(0)'
  <2> SUFFICES ASSUME pc' = "nextMatch"
               PROVE  Leads' /\ Matched(0)'
    OBVIOUS
  <2>1. ip' = ip - k /\ cand' = c
    BY <1>5
  <2>2. /\ cand.offset \in 1 .. DISTANCE_MAX
        /\ IF InDict(cand)
             THEN /\ call.dictionary <= cand.addr
                  /\ cand.offset = (ip - call.source) + (dictEnd - cand.addr)
             ELSE /\ cand.low <= cand.addr /\ cand.offset = ip - cand.addr
                  /\ cand.low = IF call.directive = "withPrefix64k" THEN call.source - call.dictSize
                                ELSE call.source
    BY <1>3 DEF Leads
  <2>3. InDict(cand) => cand.low = call.dictionary
    BY DEF InDict
  <2>4. k \in Nat /\ k <= cand.addr - cand.low /\ \A i \in 1 .. k : Same(ip - i, cand.addr - i)
    <3>1. cand.low <= cand.addr
      BY <2>2, <2>3
    <3> QED
      BY <1>1, <1>4, <3>1, BackWithin, BackLow, BackEqual
  <2>5. c.addr = cand.addr - k /\ c.low = cand.low /\ c.offset = cand.offset
        /\ (InDict(c) <=> InDict(cand))
    BY <1>1 DEF InDict
  <2>6. PICK a, b, q : a = ip /\ b = cand.addr /\ q = k
    OBVIOUS
  <2> HIDE DEF k, c
  <2>7. /\ c.offset \in 1 .. DISTANCE_MAX
        /\ IF InDict(c)
             THEN /\ call.dictionary <= c.addr
                  /\ c.offset = (a - q - call.source) + (dictEnd - c.addr)
             ELSE /\ c.low <= c.addr /\ c.offset = (a - q) - c.addr
                  /\ c.low = IF call.directive = "withPrefix64k" THEN call.source - call.dictSize
                             ELSE call.source
    <3>1. a \in Int /\ b \in Int /\ q \in Nat /\ cand.low \in Int /\ c.addr = b - q
          /\ call.source \in Int /\ dictEnd \in Int /\ q <= b - cand.low
      BY <1>1, <2>4, <2>5, <2>6
    <3>2. CASE InDict(cand)
      <4>1. c.offset = (a - call.source) + (dictEnd - b) /\ cand.low = call.dictionary
        BY <2>2, <2>3, <2>5, <2>6, <3>2
      <4>2. c.offset = (a - q - call.source) + (dictEnd - c.addr) /\ call.dictionary <= c.addr
        BY ONLY <3>1, <4>1
      <4> QED
        BY <2>2, <2>5, <3>2, <4>2
    <3>3. CASE ~InDict(cand)
      <4>1. c.offset = a - b
        BY <2>2, <2>5, <2>6, <3>3
      <4>2. c.offset = (a - q) - c.addr /\ cand.low <= c.addr
        BY ONLY <3>1, <4>1
      <4> QED
        BY <2>2, <2>5, <3>3, <4>2
    <3> QED
      BY <3>2, <3>3
  <2>8. Leads'
    <3>1. PICK z : z = a - q
      OBVIOUS
    <3>2. z = ip' /\ c = cand'
      BY <2>1, <2>6, <3>1
    <3> QED
      BY <1>2, <2>7, <3>1, <3>2, LeadsThen
  <2>9. Matched(0)'
    <3>1. MINMATCH = 4
      BY FastAssumption
    <3>2. /\ \A i \in 0 .. 0 + MINMATCH - 1 : Same(ip + i, cand.addr + i)
          /\ InDict(cand) => cand.addr + 0 + MINMATCH <= dictEnd
      BY <1>3 DEF Matched
    <3>3. ASSUME NEW i \in 0 .. 0 + MINMATCH - 1
          PROVE  Same((a - q) + i, c.addr + i)
      <4>1. CASE i < q
        <5>1. q - i \in 1 .. k /\ (a - q) + i = ip - (q - i) /\ c.addr + i = cand.addr - (q - i)
          BY <1>1, <2>4, <2>5, <2>6, <3>1, <4>1
        <5> QED
          BY <2>4, <5>1
      <4>2. CASE i >= q
        <5>1. /\ i - q \in 0 .. 0 + MINMATCH - 1 /\ (a - q) + i = ip + (i - q)
              /\ c.addr + i = cand.addr + (i - q)
          BY <1>1, <2>4, <2>5, <2>6, <3>1, <4>2
        <5> QED
          BY <3>2, <5>1
      <4> QED
        BY <2>4, <2>6, <3>1, <4>1, <4>2
    <3>4. InDict(c) => c.addr + 0 + MINMATCH <= dictEnd
      BY <1>1, <2>4, <2>5, <3>1, <3>2
    <3>5. PICK z : z = a - q
      OBVIOUS
    <3>6. z = ip' /\ c = cand'
      BY <2>1, <2>6, <3>5
    <3> QED
      BY <1>2, <3>3, <3>4, <3>5, <3>6, MatchedKept DEF userVars
  <2> QED
    BY <2>8, <2>9
<1>10. pc' = "returned" => result' = 0
  BY <1>5
<1> QED
  BY <1>2, <1>7, <1>8, <1>9, <1>10 DEF BlockHistory, DecodedSoFar, userVars

LEMMA NextMatchHistory ==
  ASSUME OutputInv, BlockData, BlockHistory, NextMatch
  PROVE  BlockHistory'
<1> USE Numbers
<1> DEFINE next == op + 2
           code == MatchCode
           long == call.limit # "notLimited" /\ next + (1 + LASTLITERALS) + RestOf(code) > call.room
           full == call.limit = "fillOutput" /\ op + MATCH_ROOM > call.room
           made == IF long THEN Reduced(next) ELSE code
           len  == MINMATCH + made
<1>1. /\ FastTypeOK /\ BlockTypeOK /\ lz \in FastStates /\ mem \in [1 .. TOP -> Values]
      /\ ip \in Nat /\ anchor \in Nat /\ op \in Nat /\ call.source \in Nat /\ call.n \in Nat
      /\ call.room \in Nat /\ history \in Seq(Values)
      /\ call.limit \in {"notLimited", "limitedOutput", "fillOutput"}
  BY CallTypes DEF OutputInv, FastTypeOK, BlockTypeOK, UserTypeOK, BlockHistory
<1>2. pc = "nextMatch" /\ UNCHANGED <<userVars, call, dictLz>>
  BY DEF NextMatch, Kept
<1>3. /\ BeforeIsHistory /\ decoded = Word(call.source, anchor - call.source)
      /\ OpenStream /\ Leads /\ Matched(0)
  BY <1>2 DEF InSearch, BlockHistory, DecodedSoFar
<1>4. anchor <= ip /\ ip < mflimitPlusOne /\ call.source <= anchor
  BY <1>2 DEF OutputInv, InBlock
<1>5. \/ pc' = "last" /\ lz' = lz /\ anchor' = anchor /\ decoded' = decoded
      \/ pc' = "returned" /\ result' = 0 /\ lz' = lz
      \/ /\ ~full /\ (long => call.limit = "fillOutput")
         /\ anchor' = ip + len
         /\ lz' = IF long /\ ip' <= filled THEN [lz EXCEPT !.table = Cleared(@, ip')] ELSE lz
         /\ decoded' = Decoded(cand.offset, Word(anchor, ip - anchor), len)
         /\ pc' \in {"last", "test"}
  BY DEF NextMatch, Return
<1>6. PICK t : lz' = [lz EXCEPT !.table = t]
  BY <1>1, <1>5 DEF FastStates
<1>7. OpenStream' /\ BeforeIsHistory' /\ pc' \in {"last", "returned", "test"}
  <2>1. pc' \in {"last", "returned", "test"}
    BY <1>5
  <2>2. ~Idle' /\ pc \notin {"idle", "returned"}
    BY <1>2, <2>1 DEF Idle
  <2> QED
    BY ONLY <1>1, <1>2, <1>3, <1>6, <2>1, <2>2, HistoryKept
<1>8. CASE pc' = "last" /\ anchor' = anchor /\ decoded' = decoded
  <2>1. decoded' = Word(call.source, anchor - call.source)'
    BY <1>2, <1>3, <1>8 DEF Word, Byte, userVars
  <2> QED
    BY <1>2, <1>7, <1>8, <2>1 DEF BlockHistory, DecodedSoFar, userVars
<1>9. CASE pc' = "returned" /\ result' = 0
  BY <1>2, <1>7, <1>9 DEF BlockHistory, DecodedSoFar, InSearch, userVars
<1>10. CASE /\ ~full /\ (long => call.limit = "fillOutput")
            /\ anchor' = ip + len
            /\ decoded' = Decoded(cand.offset, Word(anchor, ip - anchor), len)
            /\ pc' \in {"last", "test"}
  <2>1. code \in Nat
    BY <1>1, <1>4, CodeWithin
  <2> HIDE DEF code
  <2>2. made \in Nat /\ made <= code
    <3>1. CASE ~long
      BY <2>1, <3>1
    <3>2. CASE long
      <4>1. next - 2 + MATCH_ROOM <= call.room /\ next \in Nat
        <5>1. MATCH_ROOM \in Int
          BY DEF MATCH_ROOM
        <5> QED
          BY <1>1, <1>10, <3>2, <5>1
      <4>2. made = Reduced(next)
        BY <3>2
      <4> HIDE DEF made
      <4> QED
        BY <1>1, <2>1, <3>2, <4>1, <4>2, ReducedRoom
    <3> QED
      BY <3>1, <3>2
  <2> HIDE DEF made, long, full
  <2>3. /\ cand.offset \in 1 .. Len(history) + (ip - call.source)
        /\ Periodic(Window, Len(history) + (ip - call.source), cand.offset, MINMATCH + code)
        /\ (ip - call.source) + (MINMATCH + code) <= call.n
    <3>1. call.source <= ip
      BY <1>1, <1>4
    <3> QED
      BY <1>1, <1>3, <1>4, <3>1, MatchRepeats DEF code
  <2>4. PICK source, q, lit, most, off, l, h, a, z :
          /\ source = call.source /\ q = anchor - source /\ lit = ip - anchor
          /\ most = MINMATCH + code /\ off = cand.offset /\ l = len /\ h = Len(history)
          /\ a = ip /\ z = anchor
    OBVIOUS
  <2>5. /\ q \in Nat /\ lit \in Nat /\ most \in Nat /\ l \in Nat /\ l <= most /\ source \in Nat
        /\ a - source = q + lit /\ source + q = z /\ a = source + (q + lit) /\ a \in Nat
    <3>1. q = z - source /\ lit = a - z /\ most = MINMATCH + code /\ l = MINMATCH + made
          /\ z \in Nat /\ a \in Nat /\ source \in Nat /\ z <= a /\ source <= z
      BY <1>1, <1>4, <2>4
    <3> QED
      BY ONLY <2>1, <2>2, <3>1, Numbers
  <2>6. off \in 1 .. h + (q + lit) /\ Periodic(Window, h + (q + lit), off, most)
        /\ (q + lit) + most <= call.n
    <3>1. ip - call.source = q + lit
      BY <2>4, <2>5
    <3> QED
      BY <2>3, <2>4, <3>1
  <2>7. q + lit + l <= call.n
    BY <1>1, <2>5, <2>6
  <2>8. decoded = Word(source, q)
    BY <1>3, <2>4
  <2>9. Decoded(off, Word(source + q, lit), l) = Word(source, q + lit + l)
    <3>1. /\ mem \in [1 .. TOP -> Values] /\ history \in Seq(Values) /\ call.n \in Nat
          /\ source = call.source
      BY <1>1, <2>4
    <3>2. off \in 1 .. Len(history) + (q + lit) /\ Periodic(Window, Len(history) + (q + lit), off, most)
      BY <2>4, <2>6
    <3>3. source \in Nat /\ q \in Nat /\ lit \in Nat /\ l \in Nat /\ most \in Nat /\ l <= most
      BY <2>5
    <3> QED
      BY ONLY <2>7, <2>8, <3>1, <3>2, <3>3, MatchDecodes
  <2>10. decoded' = Word(source, q + lit + l) /\ anchor' - call.source = q + lit + l
    <3>1. decoded' = Decoded(off, Word(source + q, lit), l)
      BY <1>10, <2>4, <2>5
    <3>2. anchor' - call.source = (a + l) - source
      BY <1>10, <2>4
    <3>3. (a + l) - source = q + lit + l
      BY ONLY <2>5
    <3> QED
      BY <2>9, <3>1, <3>2, <3>3
  <2>11. decoded' = Word(call.source, anchor - call.source)'
    BY <1>2, <2>4, <2>10 DEF Word, Byte, userVars
  <2> QED
    BY <1>2, <1>7, <1>10, <2>11 DEF BlockHistory, DecodedSoFar, userVars
<1> QED
  BY <1>5, <1>8, <1>9, <1>10

LEMMA TestHistory ==
  ASSUME OutputInv, BlockData, BlockHistory, Test
  PROVE  BlockHistory'
<1> USE Numbers
<1> DEFINE table == Put(lz.table, ip - 2, call.tableType, Index(ip - 2))
           c     == Candidate(table, ip)
           m     == MatchOf(c, ip)
<1>0. base \in Int
  BY CallTypes DEF OutputInv, FastTypeOK
<1>1. /\ FastTypeOK /\ BlockTypeOK /\ lz \in FastStates /\ lz.table \in [Hashes -> Nat]
      /\ ip \in Nat /\ call.source \in Nat /\ call.n \in Nat /\ call.startIndex \in Nat
      /\ base = call.source - call.startIndex
      /\ mflimitPlusOne = call.source + call.n - MFLIMIT + 1
      /\ mem \in [1 .. TOP -> Values]
  BY CallTypes DEF OutputInv, FastTypeOK, BlockTypeOK, FastStates, UserTypeOK
<1>2. /\ pc = "test" /\ UNCHANGED <<userVars, call, dictLz>>
      /\ anchor' = anchor /\ decoded' = decoded
  BY DEF Test, Kept
<1>3. Searching /\ BeforeIsHistory /\ decoded = Word(call.source, anchor - call.source) /\ OpenStream
  BY <1>2 DEF InSearch, BlockData, BlockHistory, DecodedSoFar
<1>4. ip < mflimitPlusOne /\ call.source + MINMATCH <= ip /\ Calls /\ TableOK(lz.table, Index(ip))
  BY <1>2, <1>3 DEF OutputInv, InBlock, Searching, Front
<1>5. /\ lz' = [lz EXCEPT !.table = Put(table, ip, call.tableType, Index(ip))]
      /\ IF Accepted(c, ip) THEN pc' = "nextMatch" /\ cand' = m /\ ip' = ip
         ELSE pc' = "search"
  BY DEF Test
<1>6. PICK t : lz' = [lz EXCEPT !.table = t]
  BY <1>5
<1>7. OpenStream' /\ BeforeIsHistory' /\ pc' \in {"nextMatch", "search"}
  <2>1. pc' \in {"nextMatch", "search"}
    BY <1>5
  <2>2. ~Idle' /\ pc \notin {"idle", "returned"}
    BY <1>2, <2>1 DEF Idle
  <2> QED
    BY ONLY <1>1, <1>2, <1>3, <1>6, <2>1, <2>2, HistoryKept
<1>8. decoded' = Word(call.source, anchor - call.source)'
  BY <1>2, <1>3 DEF Word, Byte, userVars
<1>9. pc' = "nextMatch" => Leads' /\ Matched(0)'
  <2> SUFFICES ASSUME pc' = "nextMatch"
               PROVE  Leads' /\ Matched(0)'
    OBVIOUS
  <2>1. Accepted(c, ip) /\ cand' = m /\ ip' = ip
    BY <1>5
  <2>2. ip - 2 \in Nat /\ call.source <= ip - 2 /\ ip - 2 < mflimitPlusOne /\ call.source < ip
    BY <1>1, <1>4, Lz4Assumption, FastAssumption
  <2>3. Index(ip) \in Int /\ Index(ip - 2) \in Int /\ Index(ip - 2) < Index(ip) /\ Index(ip) <= Index(ip)
    <3>1. Index(ip) = ip - base /\ Index(ip - 2) = (ip - 2) - base
      BY DEF Index
    <3>2. ip \in Int
      BY <1>1
    <3> QED
      BY ONLY <1>0, <3>1, <3>2
  <2>4. table \in [Hashes -> Nat]
    <3>1. Index(ip - 2) \in Nat /\ ip - 2 \in Int
      BY <1>1, <2>2, IndexType
    <3> QED
      BY ONLY <1>1, <3>1, PutType
  <2>5. TableOK(table, Index(ip))
    BY ONLY <1>1, <1>4, <2>2, <2>3, PutKnows
  <2>6. /\ LookedUp(c, ip) => IsData(c, ip)
        /\ \A i \in 0 .. 0 + MINMATCH - 1 : Same(ip + i, m.addr + i)
        /\ InDict(m) => m.addr + 0 + MINMATCH <= dictEnd
    BY <1>1, <1>4, <2>1, <2>2, <2>4, <2>5, AcceptedIsMatch DEF TableOK
  <2>7. IsData(c, ip)
    BY <2>1, <2>6 DEF Accepted
  <2>8. /\ m.offset \in 1 .. DISTANCE_MAX
        /\ IF InDict(m)
             THEN /\ call.dictionary <= m.addr
                  /\ m.offset = (ip - call.source) + (dictEnd - m.addr)
             ELSE /\ m.low <= m.addr /\ m.offset = ip - m.addr
                  /\ m.low = IF call.directive = "withPrefix64k" THEN call.source - call.dictSize
                             ELSE call.source
    <3> HIDE DEF table
    <3> QED
      BY <1>1, <1>4, <2>4, <2>7, AcceptedLeads
  <2> HIDE DEF c, m
  <2>9. Leads'
    BY <1>2, <2>1, <2>8, LeadsThen
  <2>10. Matched(0)'
    BY <1>2, <2>1, <2>6, MatchedKept DEF userVars
  <2> QED
    BY <2>9, <2>10
<1> QED
  BY <1>2, <1>7, <1>8, <1>9 DEF BlockHistory, DecodedSoFar, userVars

(* A run that is made shorter is shorter.                                  *)
LEMMA RunWithin ==
  ASSUME NEW room \in Nat, NEW run \in Nat, NEW all \in Nat, run + ExtensionSize(run) <= room,
         all + ExtensionSize(all) > room
  PROVE  run <= all
<1> SUFFICES ASSUME all <= run
             PROVE  FALSE
  OBVIOUS
<1>1. ExtensionSize(all) <= ExtensionSize(run)
  BY ExtensionMono
<1>2. ExtensionSize(all) \in Nat /\ ExtensionSize(run) \in Nat
  BY ExtensionCost
<1> QED
  BY <1>1, <1>2

LEMMA LastLiteralsHistory ==
  ASSUME OutputInv, BlockHistory, LastLiterals
  PROVE  BlockHistory'
<1> USE Numbers
<1> DEFINE all   == iend - anchor
           tight == call.limit # "notLimited" /\ op + all + 1 + RestOf(all) > call.room
           room  == call.room - op - 1
           less  == room - ((room + MAXBYTE + 1 - MASK) \div (MAXBYTE + 1))
           run   == IF tight THEN less ELSE all
<1>1. /\ FastTypeOK /\ BlockTypeOK /\ lz \in FastStates /\ mem \in [1 .. TOP -> Values]
      /\ call.source \in Nat /\ call.n \in Nat /\ call.room \in Nat /\ anchor \in Nat /\ op \in Nat
      /\ iend \in Nat
      /\ call.limit \in {"notLimited", "limitedOutput", "fillOutput"}
  BY CallTypes DEF OutputInv, FastTypeOK, BlockTypeOK, UserTypeOK, iend
<1>2. pc = "last" /\ pc' = "returned" /\ UNCHANGED <<userVars, call, dictLz>> /\ lz' = lz
  BY DEF LastLiterals, Kept, Return
<1>3. /\ decoded = Word(call.source, anchor - call.source) /\ OpenStream
      /\ call.source <= anchor /\ anchor <= iend
      /\ call.limit = "fillOutput" => op + 1 <= call.room
  BY <1>2 DEF InSearch, BlockHistory, DecodedSoFar, OutputInv, InBlock, RoomAhead
<1>4. \/ result' = 0
      \/ /\ ~(tight /\ call.limit = "limitedOutput")
         /\ ip' = anchor + run
         /\ decoded' = decoded \o Word(anchor, run)
  BY DEF LastLiterals, Return
<1>5. PICK t : lz' = [lz EXCEPT !.table = t]
  BY <1>1, <1>2 DEF FastStates
<1>6. OpenStream'
  <2>1. /\ ~Idle' /\ pc \notin {"idle", "returned"} /\ UNCHANGED <<userVars, call, dictLz>>
        /\ lz \in FastStates /\ OpenStream
    BY <1>1, <1>2, <1>3 DEF Idle
  <2> QED
    BY ONLY <1>5, <2>1, HistoryKept
<1>7. CASE result' = 0
  BY <1>2, <1>6, <1>7 DEF BlockHistory, DecodedSoFar, InSearch, userVars
<1>8. CASE /\ ~(tight /\ call.limit = "limitedOutput")
           /\ ip' = anchor + run
           /\ decoded' = decoded \o Word(anchor, run)
  <2>1. all \in Nat /\ RestOf(all) = ExtensionSize(all) /\ ExtensionSize(all) \in Nat
    <3>1. all \in Nat
      BY <1>1, <1>3
    <3> HIDE DEF all
    <3> QED
      BY <3>1, RestIs, ExtensionCost
  <2> HIDE DEF all
  <2>2. run \in Nat /\ run <= all /\ (call.limit # "fillOutput" => run = all)
    <3>1. CASE tight
      <4>1. room \in Nat /\ call.limit = "fillOutput" /\ all + ExtensionSize(all) > room
        <5>1. call.limit = "fillOutput" /\ op + all + 1 + RestOf(all) > call.room
          BY <1>1, <1>8, <3>1
        <5>2. op + 1 <= call.room
          BY <1>3, <5>1
        <5>3. PICK e : e = ExtensionSize(all)
          OBVIOUS
        <5>4. op + all + 1 + e > call.room /\ e \in Nat /\ all \in Nat
          BY <2>1, <5>1, <5>3
        <5>5. room \in Nat /\ all + e > room
          BY ONLY <1>1, <5>2, <5>4
        <5> QED
          BY <5>1, <5>3, <5>5
      <4> HIDE DEF room
      <4>2. less \in Nat /\ less + ExtensionSize(less) <= room
        BY <4>1, LastRun
      <4> HIDE DEF less
      <4>3. less <= all
        BY <2>1, <4>1, <4>2, RunWithin
      <4> QED
        BY <3>1, <4>1, <4>2, <4>3
    <3>2. CASE ~tight
      BY <2>1, <3>2
    <3> QED
      BY <3>1, <3>2
  <2> HIDE DEF run, tight
  <2>3. PICK source, q, l, z : source = call.source /\ q = anchor - source /\ l = run /\ z = anchor
    OBVIOUS
  <2>4. source \in Int /\ q \in Nat /\ l \in Nat /\ source + q = z /\ mem \in [1 .. TOP -> Values]
    BY <1>1, <1>3, <2>2, <2>3
  <2>5. Word(source, q) \o Word(source + q, l) = Word(source, q + l)
    BY ONLY <2>4, WordJoins
  <2>6. decoded' = Word(source, q + l)
    BY <1>3, <1>8, <2>3, <2>4, <2>5
  <2>7. ip' - source = q + l
    BY <1>8, <2>3, <2>4
  <2>8. decoded' = Word(call.source, ip - call.source)'
    BY <1>2, <2>3, <2>6, <2>7 DEF Word, Byte, userVars
  <2>9. ip' \in call.source .. iend /\ (call.limit # "fillOutput" => ip' = iend)
    <3>1. iend = anchor + all
      BY <1>1, <1>3 DEF all
    <3> QED
      BY <1>1, <1>3, <1>8, <2>1, <2>2, <3>1
  <2>10. call' = call /\ iend' = iend
    BY <1>2 DEF iend
  <2> QED
    BY <1>2, <1>6, <2>8, <2>9, <2>10 DEF BlockHistory, DecodedSoFar, InSearch, userVars
<1> QED
  BY <1>4, <1>7, <1>8

LEMMA BlockStepHistory ==
  ASSUME OutputInv, BlockData, BlockHistory, CompressBlock
  PROVE  BlockHistory'
BY FirstByteHistory, SearchHistory, LiteralsHistory, NextMatchHistory, TestHistory,
   LastLiteralsHistory
   DEF CompressBlock

-----------------------------------------------------------------------------
(* A block begins.                                                         *)
LEMMA NextWindowIs ==
  ASSUME mem' \in [1 .. TOP -> Values], history \in Seq(Values), history' = history,
         NEW a \in Int, NEW k \in Nat, call'.source = a, call'.n = k
  PROVE  /\ Len(history) \in Nat /\ Len(Window') = Len(history) + k
         /\ \A i \in 1 .. Len(history) : Window'[i] = history[i]
         /\ \A i \in 1 .. k : Window'[Len(history) + i] = Byte(a + i - 1)'
<1> DEFINE w == [i \in 1 .. k |-> Byte(a + i - 1)']
<1>1. Window' = history \o w
  BY DEF Window, Source, Word
<1>2. \A x \in Int : Byte(x)' \in Values
  BY DEF Byte, Values
<1>3. \A i \in 1 .. k : a + i - 1 \in Int
  OBVIOUS
<1>4. w \in [1 .. k -> Values] /\ \A i \in 1 .. k : w[i] = Byte(a + i - 1)'
  BY <1>2, <1>3
<1> HIDE DEF w
<1>5. w \in Seq(Values) /\ Len(w) = k /\ Len(history) \in Nat
  BY <1>4, LenProperties
<1>6. /\ Len(history \o w) = Len(history) + k
      /\ \A i \in 1 .. Len(history) + k :
           (history \o w)[i] = IF i <= Len(history) THEN history[i] ELSE w[i - Len(history)]
  BY <1>5, ConcatProperties
<1>7. \A i \in 1 .. Len(history) : i \in 1 .. Len(history) + k /\ i <= Len(history)
  BY <1>5
<1>8. \A i \in 1 .. k : Len(history) + i \in 1 .. Len(history) + k /\ ~(Len(history) + i <= Len(history))
                        /\ Len(history) + i - Len(history) = i
  BY <1>5
<1> QED
  BY <1>1, <1>4, <1>5, <1>6, <1>7, <1>8

LEMMA BeginsDecoded ==
  ASSUME NEW s, NEW source \in Nat, NEW n \in Nat, NEW room \in Nat,
         NEW limit, NEW tableType, NEW directive, NEW issue,
         LZ4_compress_generic(s, source, n, room, limit, tableType, directive, issue),
         n > 0 => BeforeIsHistory'
  PROVE  DecodedSoFar'
<1>1. /\ call'.source = source /\ call'.n = n
      /\ ip' = source /\ anchor' = source /\ decoded' = <<>>
      /\ \/ pc' = "returned" /\ (result' > 0 => n = 0)
         \/ n # 0 /\ pc' \in {"first", "last"}
  <2>1. call'.source = source /\ call'.n = n /\ ip' = source /\ anchor' = source /\ decoded' = <<>>
    BY DEF LZ4_compress_generic
  <2>2. \/ pc' = "returned" /\ (result' > 0 => n = 0)
        \/ n # 0 /\ pc' \in {"first", "last"}
    BY DEF LZ4_compress_generic
  <2> QED
    BY <2>1, <2>2
<1>2. Word(source, 0)' = <<>>
  <2>1. PICK f : f = [i \in 1 .. 0 |-> Byte(source + i - 1)']
    OBVIOUS
  <2>2. f \in [1 .. 0 -> {}]
    BY <2>1
  <2>3. f \in Seq({}) /\ Len(f) = 0
    BY <2>2, LenProperties
  <2>4. f = <<>>
    BY <2>3, EmptySeq
  <2> QED
    BY <2>1, <2>4 DEF Word
<1>3. (call.source)' = source /\ (anchor - call.source)' = 0 /\ (ip - call.source)' = 0 /\ (n = 0 => iend' = source)
      /\ source \in source .. source
  BY <1>1 DEF iend
<1>4. InSearch' => BeforeIsHistory' /\ (decoded = Word(call.source, anchor - call.source))'
  <2>1. InSearch' => n > 0
    BY <1>1 DEF InSearch
  <2>2. (decoded = Word(call.source, anchor - call.source))'
    BY <1>1, <1>2, <1>3 DEF Word
  <2> QED
    BY <2>1, <2>2
<1>5. pc' = "returned" /\ result' > 0 =>
        /\ (ip \in call.source .. iend)' /\ (decoded = Word(call.source, ip - call.source))'
        /\ (ip = iend)'
  BY <1>1, <1>2, <1>3 DEF Word
<1>6. pc' \notin {"literals", "nextMatch"}
  BY <1>1
<1> QED
  BY <1>4, <1>5, <1>6 DEF DecodedSoFar

(* What stood before a block, and the block, stand before its end.         *)
LEMMA BehindBlock ==
  ASSUME mem' \in [1 .. TOP -> Values], history \in Seq(Values), history' = history,
         NEW source \in Nat, NEW n \in Nat, call'.source = source, call'.n = n,
         NEW size \in Nat, Behind(source, size, history)'
  PROVE  Behind(source + n, size + n, Window)'
<1>1. PICK h, w : h = Len(history) /\ w = Window'
  OBVIOUS
<1>2. /\ h \in Nat /\ Len(w) = h + n
      /\ \A i \in 1 .. h : w[i] = history[i]
      /\ \A i \in 1 .. n : w[h + i] = Byte(source + i - 1)'
  <2>1. source \in Int
    OBVIOUS
  <2> QED
    BY <1>1, <2>1, NextWindowIs
<1>3. \A k \in 1 .. DISTANCE_MAX :
        k <= size => k <= h /\ Byte(source - k)' = history[h - k + 1]
  BY <1>1 DEF Behind
<1>4. DISTANCE_MAX \in Nat
  BY Distances
<1>5. ASSUME NEW k \in 1 .. DISTANCE_MAX, k <= size + n
      PROVE  k <= Len(w) /\ Byte((source + n) - k)' = w[Len(w) - k + 1]
  <2>1. CASE k <= n
    <3>1. n - k + 1 \in 1 .. n /\ h + (n - k + 1) = (h + n) - k + 1
          /\ source + (n - k + 1) - 1 = (source + n) - k /\ k <= h + n
      <4>1. h \in Nat /\ k \in Int /\ k >= 1
        BY <1>2, <1>4
      <4> QED
        BY ONLY <2>1, <4>1, source \in Nat, n \in Nat
    <3> QED
      BY <1>2, <3>1
  <2>2. CASE ~(k <= n)
    <3> DEFINE j == k - n
    <3>1. j \in 1 .. DISTANCE_MAX /\ j <= size /\ source - j = (source + n) - k
      BY <1>4, <1>5, <2>2
    <3>2. j <= h /\ Byte(source - j)' = history[h - j + 1]
      BY <1>3, <3>1
    <3>3. h - j + 1 = (h + n) - k + 1 /\ h - j + 1 \in 1 .. h /\ k <= h + n
      BY <1>2, <1>4, <3>1, <3>2
    <3> HIDE DEF j
    <3> QED
      BY <1>2, <3>1, <3>2, <3>3
  <2> QED
    BY <2>1, <2>2
<1> QED
  BY <1>1, <1>5 DEF Behind

LEMMA BehindNothing ==
  ASSUME mem' \in [1 .. TOP -> Values], history \in Seq(Values), history' = history,
         call'.source \in Nat, call'.n = 0, NEW end, NEW size \in Nat, Behind(end, size, history)'
  PROVE  Behind(end, size, Window)'
<1>1. PICK h, w, source : h = Len(history) /\ w = Window' /\ source = call'.source
  OBVIOUS
<1>2. h \in Nat /\ Len(w) = h /\ \A i \in 1 .. h : w[i] = history[i]
  <2>1. source \in Int /\ 0 \in Nat
    BY <1>1
  <2> QED
    BY <1>1, <2>1, NextWindowIs
<1>3. DISTANCE_MAX \in Nat
  BY Distances
<1>4. \A k \in 1 .. DISTANCE_MAX :
        k <= size => k <= h /\ Byte(end - k)' = history[h - k + 1]
  BY <1>1 DEF Behind
<1>5. \A k \in 1 .. DISTANCE_MAX : k <= h => h - k + 1 \in 1 .. h
  BY <1>2, <1>3
<1> QED
  BY <1>1, <1>2, <1>4, <1>5 DEF Behind

(* A block of its own; one with what stands before it; one with a          *)
(* dictionary.                                                             *)
LEMMA AloneHistory ==
  ASSUME NEW s, NEW source \in Nat, NEW n \in Nat, NEW room \in Nat,
         NEW limit, NEW tableType, NEW issue,
         LZ4_compress_generic(s, source, n, room, limit, tableType, "noDict", issue),
         status' # "open", history' \in Seq(Values)
  PROVE  BlockHistory'
<1>1. call'.directive = "noDict"
  BY DEF LZ4_compress_generic
<1>2. BeforeIsHistory'
  BY <1>1 DEF BeforeIsHistory
<1>3. DecodedSoFar'
  BY <1>2, BeginsDecoded
<1> QED
  BY <1>3 DEF BlockHistory, OpenStream

LEMMA BehindNone == ASSUME NEW end, NEW window PROVE Behind(end, 0, window)'
<1>1. \A k \in 1 .. DISTANCE_MAX : ~(k <= 0)
  BY Distances
<1> QED
  BY <1>1 DEF Behind

LEMMA PrefixHistory ==
  ASSUME NEW s \in FastStates, NEW source \in Nat, NEW n \in Nat, NEW room \in Nat, NEW issue,
         LZ4_compress_generic(s, source, n, room, "limitedOutput", "byU32", "withPrefix64k", issue),
         mem' \in [1 .. TOP -> Values], history \in Seq(Values), history' = history,
         dictLz \in FastStates,
         n > 0 => /\ ~s.dictCtx /\ s.dictionary + s.dictSize = source
                  /\ Behind(source, s.dictSize, history)',
         n = 0 => DictKept(s, history)'
  PROVE  BlockHistory'
<1> DEFINE u == [s EXCEPT !.dictCtx = @ /\ "withPrefix64k" # "usingDictCtx",
                          !.dictSize = IF "withPrefix64k" = "usingDictCtx" THEN n ELSE @ + n,
                          !.currentOffset = @ + n, !.tableType = "byU32",
                          !.table = Reread(@, s.tableType, "byU32")]
<1>1. /\ call'.source = source /\ call'.n = n /\ call'.directive = "withPrefix64k"
      /\ call'.dictSize = s.dictSize /\ call'.limit = "limitedOutput"
      /\ pc' # "idle" /\ dictLz' = dictLz
  BY DEF LZ4_compress_generic
<1>2. \/ pc' = "returned" /\ lz' = s /\ (result' > 0 => n = 0)
      \/ n # 0 /\ lz' = u
  BY DEF LZ4_compress_generic
<1>3. ~maybe_extMem' /\ ~ExternalMode' /\ s.dictSize \in Nat /\ s.dictionary \in Nat
  BY <1>1 DEF maybe_extMem, ExternalMode, FastStates
<1>4. n > 0 => BeforeIsHistory'
  BY <1>1, <1>3 DEF BeforeIsHistory
<1>5. DecodedSoFar'
  BY <1>4, BeginsDecoded
<1>6. Following' = lz'
  BY <1>3 DEF Following
<1>7. ASSUME Compressing' => DictKept(Following, Window)'
      PROVE  BlockHistory'
  BY <1>1, <1>5, <1>7 DEF BlockHistory, OpenStream, Idle
<1>8. CASE n = 0 /\ lz' = s
  <2>1. PICK d : d = dictLz' /\ d.dictSize \in Nat
    BY <1>1 DEF FastStates
  <2>2. /\ Behind(s.dictionary + s.dictSize, s.dictSize, history)'
        /\ s.dictCtx => Behind(d.dictionary + d.dictSize, d.dictSize, history)'
    BY <1>8, <2>1 DEF DictKept, DictIs
  <2>3. /\ Behind(s.dictionary + s.dictSize, s.dictSize, Window)'
        /\ s.dictCtx => Behind(d.dictionary + d.dictSize, d.dictSize, Window)'
    <3>1. call'.source \in Nat /\ call'.n = 0
      BY <1>1, <1>8
    <3>2. Behind(s.dictionary + s.dictSize, s.dictSize, Window)'
      BY <1>3, <2>2, <3>1, BehindNothing
    <3>3. s.dictCtx => Behind(d.dictionary + d.dictSize, d.dictSize, Window)'
      BY <2>1, <2>2, <3>1, BehindNothing
    <3> QED
      BY <3>2, <3>3
  <2>4. DictKept(Following, Window)'
    BY <1>6, <1>8, <2>1, <2>3 DEF DictKept, DictIs
  <2> QED
    BY <1>7, <2>4
<1>9. CASE n # 0 /\ lz' = u
  <2>1. PICK v : v = u
    OBVIOUS
  <2>2. v.dictSize = s.dictSize + n /\ v.dictionary = s.dictionary /\ (v.dictCtx <=> s.dictCtx)
    BY <2>1 DEF FastStates
  <2> HIDE DEF u
  <2>3. n > 0 /\ ~v.dictCtx /\ v.dictionary + v.dictSize = source + n
    <3>1. n > 0 /\ ~s.dictCtx /\ s.dictionary + s.dictSize = source
      BY <1>9
    <3> QED
      BY ONLY <1>3, <2>2, <3>1, n \in Nat
  <2>4. Behind(source + n, s.dictSize + n, Window)'
    BY <1>1, <1>3, <2>3, BehindBlock
  <2>5. DictIs(v, Window)'
    BY <2>2, <2>3, <2>4 DEF DictIs
  <2>6. Following' = v
    BY <1>6, <1>9, <2>1
  <2>7. DictKept(Following, Window)'
    BY <2>3, <2>5, <2>6 DEF DictKept, DictIs
  <2> QED
    BY <1>7, <2>7
<1>10. CASE n # 0 /\ pc' = "returned" /\ ~(result' > 0)
  BY <1>7, <1>10 DEF Compressing
<1> QED
  BY <1>2, <1>8, <1>9, <1>10

LEMMA ExternalHistory ==
  ASSUME NEW s \in FastStates, NEW source \in Nat, NEW n \in Nat, NEW room \in Nat, NEW issue,
         NEW directive \in {"usingExtDict", "usingDictCtx"},
         LZ4_compress_generic(s, source, n, room, "limitedOutput", "byU32", directive, issue),
         mem' \in [1 .. TOP -> Values], history \in Seq(Values), history' = history,
         dictLz \in FastStates, NEW d \in FastStates, d = IF directive = "usingDictCtx" THEN dictLz ELSE s,
         n > 0 => /\ DictIs(d, history)'
                  /\ directive = "usingExtDict" => ~s.dictCtx,
         n = 0 /\ s.dictCtx => DictIs(dictLz, history)'
  PROVE  BlockHistory'
<1> DEFINE u == [s EXCEPT !.dictCtx = @ /\ directive # "usingDictCtx",
                          !.dictSize = IF directive = "usingDictCtx" THEN n ELSE @ + n,
                          !.currentOffset = @ + n, !.tableType = "byU32",
                          !.table = Reread(@, s.tableType, "byU32")]
           next(l) == [l EXCEPT !.dictionary = source, !.dictSize = n]
<1>1. /\ call'.source = source /\ call'.n = n /\ call'.directive = directive
      /\ call'.dictSize = d.dictSize /\ call'.dictionary = d.dictionary /\ call'.limit = "limitedOutput"
      /\ pc' # "idle" /\ dictLz' = dictLz
  BY DEF LZ4_compress_generic
<1>2. \/ pc' = "returned" /\ lz' = s /\ (result' > 0 => n = 0)
      \/ n # 0 /\ lz' = u
  BY DEF LZ4_compress_generic
<1>3. maybe_extMem' /\ ExternalMode' /\ dictEnd' = d.dictionary + d.dictSize
  BY <1>1 DEF maybe_extMem, ExternalMode, dictEnd
<1>4. n > 0 => BeforeIsHistory'
  BY <1>1, <1>3 DEF BeforeIsHistory, DictIs
<1>5. DecodedSoFar'
  BY <1>4, BeginsDecoded
<1>6. Following' = next(lz')
  BY <1>1, <1>3 DEF Following
<1>7. ASSUME Compressing' => DictKept(Following, Window)'
      PROVE  BlockHistory'
  BY <1>1, <1>5, <1>7 DEF BlockHistory, OpenStream, Idle
<1>8. CASE n = 0 /\ lz' = s
  <2>1. PICK e, t : e = dictLz' /\ t = next(s) /\ e.dictSize \in Nat
    BY <1>1 DEF FastStates
  <2>2. t.dictSize = 0 /\ t.dictionary = source /\ (t.dictCtx <=> s.dictCtx)
    BY <1>8, <2>1 DEF FastStates
  <2>3. s.dictCtx => Behind(e.dictionary + e.dictSize, e.dictSize, history)'
    BY <1>8, <2>1 DEF DictIs
  <2>4. s.dictCtx => Behind(e.dictionary + e.dictSize, e.dictSize, Window)'
    <3>1. call'.source \in Nat /\ call'.n = 0
      BY <1>1, <1>8
    <3> QED
      BY <2>1, <2>3, <3>1, BehindNothing
  <2>5. Behind(t.dictionary + t.dictSize, t.dictSize, Window)'
    BY <2>2, BehindNone
  <2>6. DictKept(Following, Window)'
    BY <1>6, <1>8, <2>1, <2>2, <2>4, <2>5 DEF DictKept, DictIs
  <2> QED
    BY <1>7, <2>6
<1>9. CASE n # 0 /\ lz' = u
  <2>1. PICK v : v = u
    OBVIOUS
  <2>2. /\ v.dictCtx <=> s.dictCtx /\ directive # "usingDictCtx"
        /\ DOMAIN v = {"table", "currentOffset", "tableType", "dictionary", "dictSize", "dictCtx"}
    BY <2>1 DEF FastStates
  <2> HIDE DEF u
  <2>3. PICK t : t = next(v)
    OBVIOUS
  <2>4. t.dictSize = n /\ t.dictionary = source /\ (t.dictCtx <=> v.dictCtx)
    BY <2>2, <2>3
  <2>5. ~t.dictCtx /\ n > 0
    BY <1>9, <2>2, <2>4
  <2>6. Behind(source, 0, history)'
    <3>1. history' = history
      OBVIOUS
    <3> QED
      BY <3>1, BehindNone
  <2>7. Behind(source + n, 0 + n, Window)'
    BY <1>1, <2>6, BehindBlock
  <2>8. DictIs(t, Window)'
    BY <2>4, <2>7 DEF DictIs
  <2>9. Following' = t
    BY <1>6, <1>9, <2>1, <2>3
  <2>10. DictKept(Following, Window)'
    BY <2>5, <2>8, <2>9 DEF DictKept, DictIs
  <2> QED
    BY <1>7, <2>10
<1>10. CASE n # 0 /\ pc' = "returned" /\ ~(result' > 0)
  BY <1>7, <1>10 DEF Compressing
<1> QED
  BY <1>2, <1>8, <1>9, <1>10

(* What is written elsewhere changes nothing of it, nor does it if less    *)
(* of it is kept.                                                          *)
LEMMA BehindKept ==
  ASSUME mem \in [1 .. TOP -> Values], NEW a \in Int, NEW n \in Nat, NEW bytes \in [1 .. n -> Values],
         mem' = With(mem, a, bytes), NEW end \in Int, NEW size \in Nat, NEW kept \in Nat,
         kept <= size, NEW window, Behind(end, size, window),
         end <= a \/ a + n <= end - kept
  PROVE  \A w : w = window => Behind(end, kept, w)'
<1>1. ASSUME NEW x \in Int, x < a \/ a + n <= x
      PROVE  Byte(x)' = Byte(x)
  <2>1. x - a + 1 \notin DOMAIN bytes
    BY <1>1
  <2>2. DOMAIN mem' = DOMAIN mem /\ (x \in DOMAIN mem => mem'[x] = mem[x])
    BY <2>1 DEF With
  <2> QED
    BY <2>2 DEF Byte
<1>2. DISTANCE_MAX \in Nat
  BY Distances
<1>3. ASSUME NEW k \in 1 .. DISTANCE_MAX, k <= kept
      PROVE  k <= Len(window) /\ Byte(end - k)' = window[Len(window) - k + 1]
  <2>1. k \in Nat \ {0} /\ k <= size
    BY <1>2, <1>3
  <2>2. end - k \in Int /\ (end - k < a \/ a + n <= end - k)
    BY ONLY <1>3, <2>1, end \in Int, a \in Int, n \in Nat, kept \in Nat, end <= a \/ a + n <= end - kept
  <2>3. k <= Len(window) /\ Byte(end - k) = window[Len(window) - k + 1]
    BY <2>1 DEF Behind
  <2> QED
    BY <1>1, <2>2, <2>3
<1> QED
  BY <1>3 DEF Behind

(* A block that is not directly behind the dictionary is behind it, or     *)
(* before it, or overwrites nothing but its beginning.                     *)
LEMMA DictionaryApart ==
  ASSUME UserTypeOK, at >= BUF, ~unsaved, lz \in FastStates, DictPlaced(lz), RING >= 2 * MAXBLOCK,
         NEW n \in 1 .. MAXBLOCK, lz.dictSize > 0, lz.dictionary + lz.dictSize # Place(n)
  PROVE  \/ lz.dictionary + lz.dictSize <= Place(n)
         \/ Place(n) + n <= lz.dictionary
         \/ Place(n) + n < lz.dictionary + lz.dictSize
<1>1. /\ SECOND \in Nat /\ BUF \in Nat /\ SECOND = BUF + MAXBLOCK + 1 /\ MAXBLOCK \in Nat /\ RING \in Nat
      /\ at \in Nat /\ layout \in {"line", "ring", "two", "one"} /\ lz.dictionary \in Nat /\ lz.dictSize \in Nat
      /\ n \in Nat /\ n <= MAXBLOCK
  BY Places, UserAssumption DEF SECOND, UserTypeOK, FastStates
<1>2. PICK end, source, dictionary :
        end = lz.dictionary + lz.dictSize /\ source = Place(n) /\ dictionary = lz.dictionary
  OBVIOUS
<1>3. \/ end <= BUF
      \/ /\ end = at /\ layout # "one"
         /\ layout = "two" /\ at >= SECOND => dictionary >= SECOND
  BY <1>2 DEF DictPlaced
<1>4. end # source /\ dictionary \in Nat
  BY <1>1, <1>2
<1>5. CASE end <= BUF
  <2>1. source >= BUF
    BY <1>1, <1>2 DEF Place
  <2>2. end \in Nat /\ source \in Nat
    BY <1>1, <1>2 DEF Place
  <2>3. end <= source
    BY ONLY <1>1, <1>5, <2>1, <2>2
  <2> QED
    BY <1>2, <2>3
<1>6. CASE end = at /\ layout = "line"
  BY <1>2, <1>4, <1>6 DEF Place
<1>7. CASE end = at /\ layout = "ring"
  <2>1. source = BUF /\ at + n > BUF + RING
    BY <1>1, <1>2, <1>4, <1>7 DEF Place
  <2> QED
    BY <1>1, <1>2, <1>7, <2>1
<1>8. CASE end = at /\ layout = "two" /\ (at >= SECOND => dictionary >= SECOND)
  <2>1. source = IF at \in BUF + 1 .. BUF + MAXBLOCK THEN SECOND ELSE BUF
    BY <1>2, <1>8 DEF Place
  <2>2. CASE at \in BUF + 1 .. BUF + MAXBLOCK
    BY <1>1, <1>2, <1>8, <2>1, <2>2
  <2>3. CASE at >= SECOND
    BY <1>1, <1>2, <1>4, <1>8, <2>1, <2>3
  <2>4. CASE at = BUF
    BY <1>1, <1>2, <1>4, <1>8, <2>1, <2>4
  <2> QED
    BY <1>1, <2>2, <2>3, <2>4
<1> QED
  BY <1>1, <1>3, <1>5, <1>6, <1>7, <1>8

LEMMA OverlapEnds ==
  ASSUME NEW s \in FastStates, NEW source \in Nat, NEW n \in Nat, s.dictSize > 0
  PROVE  LET end == s.dictionary + s.dictSize
             r == WithoutOverlap(s, end, source, n)
         IN  r.dictionary + r.dictSize = end /\ r.dictSize \in Nat /\ r.dictSize <= s.dictSize
<1> USE WindowNumbers
<1> DEFINE end == s.dictionary + s.dictSize
           left == Min({end - (source + n), W})
           kept == IF left < 4 THEN 0 ELSE left
           from == end - kept
           r == [s EXCEPT !.dictSize = kept, !.dictionary = from]
<1>1. WithoutOverlap(s, end, source, n) =
        IF source + n > s.dictionary /\ source + n < end THEN r ELSE s
  BY DEF WithoutOverlap
<1>2. s.dictionary \in Nat /\ s.dictSize \in Nat /\ end \in Nat /\ end = s.dictionary + s.dictSize
  BY DEF FastStates
<1>3. left \in Int /\ left <= end - (source + n)
  BY <1>2, MinIs
<1>4. CASE ~(source + n > s.dictionary /\ source + n < end)
  BY <1>1, <1>2, <1>4
<1>5. CASE source + n > s.dictionary /\ source + n < end
  <2> HIDE DEF left, end
  <2>1. kept \in Nat /\ kept <= s.dictSize /\ from + kept = end
    BY <1>2, <1>3, <1>5
  <2> HIDE DEF kept, from
  <2>2. r.dictionary = from /\ r.dictSize = kept
    BY DEF FastStates
  <2> HIDE DEF r
  <2> QED
    BY <1>1, <1>5, <2>1, <2>2 DEF end
<1> QED
  BY <1>4, <1>5

(* LZ4_compress_fast_continue.                                             *)
LEMMA ContinueHistory ==
  ASSUME DataInv, BlockHistory, RING >= 2 * MAXBLOCK, NEW word \in Words, NEW room \in Rooms,
         CompressContinue(word, room), mem' \in [1 .. TOP -> Values]
  PROVE  BlockHistory'
<1> USE WindowNumbers, Numbers
<1>1. /\ UserTypeOK /\ lz \in FastStates /\ dictLz \in FastStates /\ at >= BUF
      /\ Written(word) /\ room \in Nat /\ mem \in [1 .. TOP -> Values] /\ Idle
  BY StreamAssumption DEF DataInv, OutputInv, FastTypeOK, CompressContinue, UserTypeOK
<1>2. PICK n, source : n = Len(word) /\ source = Place(n)
  OBVIOUS
<1>3. /\ n \in Nat /\ n <= MAXBLOCK /\ source \in Nat /\ BUF <= source
      /\ ~unsaved /\ status = "open"
  BY ONLY <1>1, <1>2, PlaceOfBlock
<1>4. Known(lz) /\ DictPlaced(lz) /\ dictLz' = dictLz
  BY <1>1, <1>3 DEF DataInv, CompressContinue, LZ4_compress_fast_continue, LZ4_compress_generic
<1>5. /\ BUF \in Nat \ {0} /\ lz.dictionary \in Nat /\ lz.dictSize \in Nat
      /\ lz.tableType # "byU16" /\ lz.dictSize <= lz.currentOffset
      /\ lz.dictCtx => lz.dictSize = 0 /\ LoadedDict(dictLz)
  BY <1>1, <1>4, Places DEF FastStates, DictPlaced
<1>6. PICK r, end : /\ r = LZ4_renormDictT(lz, n)
                    /\ end = IF lz.dictSize > 0 THEN lz.dictionary + lz.dictSize ELSE NULL
  OBVIOUS
<1>7. /\ r \in FastStates /\ Known(r) /\ r.tableType = lz.tableType /\ r.dictCtx = lz.dictCtx
      /\ r.dictSize <= r.currentOffset /\ r.dictionary + r.dictSize = lz.dictionary + lz.dictSize
      /\ lz.dictionary <= r.dictionary /\ (r.dictSize = 0 <=> lz.dictSize = 0)
  BY ONLY <1>1, <1>3, <1>4, <1>5, <1>6, RenormKnown
<1>8. PICK tiny, end2, b, s :
        /\ tiny = Tiny(r, end, source, n)
        /\ end2 = IF tiny THEN source ELSE end
        /\ b = IF tiny THEN [r EXCEPT !.dictSize = 0, !.dictionary = source] ELSE r
        /\ s = WithoutOverlap(b, end2, source, n)
  BY DEF Tiny
<1> DEFINE Compress(st, directive, issue) ==
             LZ4_compress_generic(st, source, n, room, "limitedOutput", "byU32", directive, issue)
<1>9. IF end2 = source THEN Compress(s, "withPrefix64k", Issue(s))
      ELSE IF s.dictCtx
        THEN IF n > KB4 THEN Compress(dictLz, "usingExtDict", "noDictIssue")
             ELSE Compress(s, "usingDictCtx", "noDictIssue")
      ELSE Compress(s, "usingExtDict", Issue(s))
  BY <1>2, <1>6, <1>8 DEF CompressContinue, LZ4_compress_fast_continue
<1> HIDE DEF Compress
<1>10. /\ r.dictionary \in Nat /\ r.dictSize \in Nat /\ r.currentOffset \in Nat /\ end \in Nat
       /\ r.dictSize <= lz.dictSize
       /\ lz.dictSize > 0 => end = r.dictionary + r.dictSize /\ r.dictSize > 0
  <2>1. r.dictionary \in Nat /\ r.dictSize \in Nat /\ r.currentOffset \in Nat /\ end \in Nat
    BY <1>5, <1>6, <1>7 DEF FastStates
  <2>2. lz.dictSize > 0 => end = lz.dictionary + lz.dictSize
    BY <1>6
  <2> QED
    BY ONLY <1>5, <1>7, <2>1, <2>2
<1>11. tiny <=> (r.dictSize < 4 /\ end # source /\ n > 0 /\ ~r.dictCtx)
  BY <1>8 DEF Tiny
<1>12. PICK w : w = history /\ w \in Seq(Values)
  BY DEF BlockHistory
<1>13. history' = w /\ mem' = With(mem, source, word) /\ word \in [1 .. n -> Values]
  BY <1>1, <1>2, <1>12, WordsType DEF Written
<1>14. /\ Behind(lz.dictionary + lz.dictSize, lz.dictSize, w)
       /\ lz.dictCtx => Behind(dictLz.dictionary + dictLz.dictSize, dictLz.dictSize, w)
  BY <1>1, <1>3, <1>12 DEF BlockHistory, OpenStream, DictKept, DictIs
<1>15. ASSUME NEW e \in Int, NEW size \in Nat, NEW kept \in Nat, kept <= size, Behind(e, size, w),
              e <= source \/ source + n <= e - kept
       PROVE  Behind(e, kept, history)'
  BY <1>1, <1>3, <1>13, <1>15, BehindKept
<1>16. lz.dictCtx => DictIs(dictLz, history)'
  <2> SUFFICES ASSUME lz.dictCtx PROVE DictIs(dictLz, history)'
    OBVIOUS
  <2>1. PICK e, size : e = dictLz.dictionary + dictLz.dictSize /\ size = dictLz.dictSize
    OBVIOUS
  <2>2. e \in Int /\ size \in Nat /\ e <= source
    BY <1>1, <1>3, <1>5, <2>1 DEF LoadedDict, FastStates
  <2>3. Behind(e, size, w)
    BY <1>14, <2>1
  <2>4. Behind(e, size, history)'
    BY <1>15, <2>2, <2>3
  <2> QED
    BY <1>4, <2>1, <2>4 DEF DictIs
<1>17. CASE tiny
  <2>1. b \in FastStates /\ b.dictSize = 0 /\ b.dictionary = source /\ b.dictCtx = r.dictCtx
    BY <1>3, <1>7, <1>8, <1>17 DEF FastStates
  <2>2. end2 = source /\ s = b
    BY <1>3, <1>8, <1>17 DEF WithoutOverlap
  <2>3. Compress(s, "withPrefix64k", Issue(s))
    BY <1>9, <2>2
  <2>4. n > 0 /\ ~s.dictCtx /\ s.dictionary + s.dictSize = source /\ s \in FastStates
    BY <1>3, <1>10, <1>11, <1>17, <2>1, <2>2
  <2>5. Behind(source, s.dictSize, history)'
    <3>1. Behind(source, 0, w)'
      BY BehindNone
    <3> QED
      BY <1>13, <2>1, <2>2, <3>1 DEF Behind
  <2> QED
    BY <1>1, <1>3, <1>12, <1>13, <2>3, <2>4, <2>5, PrefixHistory DEF Compress
<1>18. CASE ~tiny /\ end = source
  <2>1. end2 = source /\ s = r
    BY <1>3, <1>8, <1>18 DEF WithoutOverlap
  <2>2. lz.dictSize > 0 /\ end = lz.dictionary + lz.dictSize
    BY <1>3, <1>5, <1>6, <1>18
  <2>3. Compress(s, "withPrefix64k", Issue(s))
    BY <1>9, <2>1
  <2>4. ~s.dictCtx /\ s.dictionary + s.dictSize = source
    BY <1>5, <1>7, <1>18, <2>1, <2>2
  <2>5. Behind(source, lz.dictSize, w)
    BY <1>14, <1>18, <2>2
  <2>6. Behind(source, s.dictSize, history)'
    BY <1>3, <1>5, <1>10, <1>15, <2>1, <2>5
  <2>7. DictKept(s, history)'
    BY <2>4, <2>6 DEF DictKept, DictIs
  <2> QED
    BY <1>1, <1>3, <1>7, <1>12, <1>13, <2>1, <2>3, <2>4, <2>6, <2>7, PrefixHistory DEF Compress
<1>19. CASE ~tiny /\ end # source /\ r.dictCtx
  <2>1. LoadedDict(dictLz) /\ end = NULL
    BY <1>5, <1>6, <1>7, <1>19
  <2>2. s = r
    BY <1>3, <1>8, <1>19, <2>1 DEF WithoutOverlap
  <2>3. PICK d : d = dictLz
    OBVIOUS
  <2>4. DictIs(d, history)' /\ DictIs(dictLz, history)' /\ ~d.dictCtx /\ d \in FastStates
    BY <1>1, <1>4, <1>7, <1>16, <1>19, <2>1, <2>3 DEF DictIs, LoadedDict
  <2>5. CASE n > KB4
    <3>1. Compress(d, "usingExtDict", "noDictIssue")
      BY <1>8, <1>9, <1>19, <2>2, <2>3, <2>5
    <3> QED
      BY <1>1, <1>3, <1>12, <1>13, <2>4, <3>1, ExternalHistory DEF Compress
  <2>6. CASE ~(n > KB4)
    <3>1. Compress(s, "usingDictCtx", "noDictIssue")
      BY <1>8, <1>9, <1>19, <2>2, <2>6
    <3> QED
      BY <1>1, <1>3, <1>7, <1>12, <1>13, <2>2, <2>3, <2>4, <3>1, ExternalHistory DEF Compress
  <2> QED
    BY <2>5, <2>6
<1>20. CASE ~tiny /\ end # source /\ ~r.dictCtx
  <2>1. end2 = end /\ b = r
    BY <1>8, <1>20
  <2>2. s \in FastStates /\ s.dictCtx = r.dictCtx /\ (n > 0 => DictIs(s, history)')
    <3>1. CASE lz.dictSize = 0
      <4>1. end = NULL /\ s = r
        BY <1>3, <1>6, <1>8, <2>1, <3>1 DEF WithoutOverlap
      <4>2. n = 0
        BY <1>3, <1>7, <1>11, <1>20, <3>1
      <4> QED
        BY <1>7, <4>1, <4>2
    <3>2. CASE lz.dictSize > 0
      <4>1. end = r.dictionary + r.dictSize /\ r.dictSize > 0 /\ end = lz.dictionary + lz.dictSize
        BY <1>6, <1>10, <3>2
      <4>2. /\ s \in FastStates /\ s.dictCtx = r.dictCtx
            /\ \/ s.dictionary >= source + n
               \/ s.dictionary = r.dictionary /\ ~(source + n > r.dictionary /\ source + n < end)
        BY ONLY <1>3, <1>7, <1>8, <2>1, <4>1, OverlapData
      <4>3. s.dictionary + s.dictSize = end /\ s.dictSize \in Nat /\ s.dictSize <= r.dictSize
        BY ONLY <1>3, <1>7, <1>8, <2>1, <4>1, OverlapEnds
      <4>4. ASSUME n > 0
            PROVE  end <= source \/ source + n <= end - s.dictSize
        <5>1. n \in 1 .. MAXBLOCK
          BY <1>3, <4>4, UserAssumption
        <5>2. lz.dictionary + lz.dictSize # Place(n)
          BY <1>2, <1>20, <4>1
        <5>3. \/ end <= source
              \/ source + n <= lz.dictionary
              \/ source + n < end
          <6>1. \/ lz.dictionary + lz.dictSize <= Place(n)
                \/ Place(n) + n <= lz.dictionary
                \/ Place(n) + n < lz.dictionary + lz.dictSize
            BY ONLY <1>1, <1>3, <1>4, RING >= 2 * MAXBLOCK, <3>2, <5>1, <5>2, DictionaryApart
          <6> QED
            BY <1>2, <4>1, <6>1
        <5>4. s.dictionary \in Nat
          BY <4>2 DEF FastStates
        <5> QED
          BY ONLY <1>3, <1>5, <1>7, <1>10, <4>2, <4>3, <5>3, <5>4
      <4>5. s.dictSize <= lz.dictSize
        BY ONLY <1>5, <1>10, <4>3
      <4>6. Behind(end, lz.dictSize, w)
        BY <1>14, <4>1
      <4>7. n > 0 => Behind(end, s.dictSize, history)'
        BY <1>5, <1>10, <1>15, <4>3, <4>4, <4>5, <4>6
      <4> QED
        BY <4>2, <4>3, <4>7 DEF DictIs
    <3> QED
      BY <1>5, <3>1, <3>2
  <2>3. PICK issue : issue = Issue(s)
    OBVIOUS
  <2>4. Compress(s, "usingExtDict", issue)
    BY <1>9, <1>20, <2>1, <2>2, <2>3
  <2> QED
    BY <1>1, <1>3, <1>12, <1>13, <1>20, <2>2, <2>4, ExternalHistory DEF Compress
<1> QED
  BY <1>17, <1>18, <1>19, <1>20

(* A block of its own has no history, and leaves none.                     *)
LEMMA SingleHistory ==
  ASSUME NEW word \in Singles, NEW room \in SingleRooms,
         ExtState(word, room) \/ FastReset(word, room) \/ DestSize(word, room)
  PROVE  BlockHistory'
<1>1. BUF \in Nat /\ room \in Nat
  BY StreamAssumption, Places
<1>2. status' # "open" /\ history' = <<>>
  BY DEF ExtState, FastReset, DestSize, Single
<1>3. history' \in Seq(Values)
  BY <1>2
<1>4. PICK n : n = Len(word) /\ n \in Nat
  BY WordsType
<1>5. ASSUME NEW s, NEW limit, NEW tableType, NEW issue,
             LZ4_compress_generic(s, BUF, n, room, limit, tableType, "noDict", issue)
      PROVE  BlockHistory'
  BY <1>1, <1>2, <1>3, <1>4, <1>5, AloneHistory
<1>6. CASE ExtState(word, room)
  BY <1>4, <1>5, <1>6 DEF ExtState
<1>7. CASE DestSize(word, room)
  BY <1>4, <1>5, <1>7 DEF DestSize
<1>8. CASE FastReset(word, room)
  BY <1>4, <1>5, <1>8 DEF FastReset
<1> QED
  BY <1>6, <1>7, <1>8

-----------------------------------------------------------------------------
(* Between calls.                                                          *)
BetweenHistory ==
  Idle /\ history \in Seq(Values) /\ (status = "open" => DictKept(lz, history))

LEMMA BetweenBlocks == ASSUME BetweenHistory' PROVE BlockHistory'
<1>1. pc' = "idle" /\ ~Compressing'
  BY DEF BetweenHistory, Idle, Compressing
<1>2. OpenStream'
  BY <1>1 DEF OpenStream, BetweenHistory
<1>3. DecodedSoFar'
  BY <1>1 DEF DecodedSoFar, InSearch
<1> QED
  BY <1>2, <1>3 DEF BlockHistory, BetweenHistory

(* No more is kept of what the decoder has than a distance reaches.        *)
LEMMA BehindRecent ==
  ASSUME NEW end, NEW size, NEW window \in Seq(Values), Behind(end, size, window)
  PROVE  Behind(end, size, Recent(window))
<1>1. DISTANCE_MAX \in Nat /\ Len(window) \in Nat
  BY Distances, LenProperties
<1>2. PICK r : r = Recent(window)
  OBVIOUS
<1>3. /\ Len(r) = IF Len(window) <= DISTANCE_MAX THEN Len(window) ELSE DISTANCE_MAX
      /\ \A k \in 1 .. Len(r) : r[Len(r) - k + 1] = window[Len(window) - k + 1]
  BY <1>2, RecentIs
<1>4. \A k \in 1 .. DISTANCE_MAX : k <= Len(window) => k \in 1 .. Len(r) /\ k <= Len(r)
  BY <1>1, <1>3
<1> QED
  BY <1>2, <1>3, <1>4 DEF Behind

(* The block is sent.                                                      *)
LEMMA ReturnedHistory ==
  ASSUME FastTypeOK, BlockHistory, Returned
  PROVE  BetweenHistory'
<1>1. /\ mem \in [1 .. TOP -> Values] /\ history \in Seq(Values)
      /\ call.source \in Nat /\ call.n \in Nat
  BY DEF FastTypeOK, UserTypeOK, BlockTypeOK, FastCalls, BlockHistory
<1>2. /\ pc = "returned" /\ Idle' /\ lz' = Following /\ dictLz' = dictLz /\ mem' = mem
      /\ IF result > 0 THEN Sent(decoded) ELSE Failed
  BY DEF Returned, Following, Sent, Failed, Idle
<1>3. CASE status = "open" /\ result > 0
  <2>1. call.limit # "fillOutput" /\ DictKept(Following, Window)
    BY <1>2, <1>3 DEF BlockHistory, OpenStream, Compressing, Idle
  <2>2. decoded = Source
    <3>1. ip = iend /\ decoded = Word(call.source, ip - call.source)
      BY <1>2, <1>3, <2>1 DEF BlockHistory, DecodedSoFar
    <3>2. ip - call.source = call.n
      BY <1>1, <3>1 DEF iend
    <3> QED
      BY <3>1, <3>2 DEF Source
  <2>3. history' = Recent(Window)
    BY <1>2, <1>3, <2>2 DEF Sent, Window
  <2>4. Window \in Seq(Values)
    <3>1. PICK a, k : a = call.source /\ k = call.n /\ a \in Int /\ k \in Nat
      BY <1>1
    <3>2. history \o Word(a, k) \in Seq(Values)
      BY <1>1, <3>1, WindowIs
    <3> QED
      BY <3>1, <3>2 DEF Window, Source
  <2>5. PICK w, r : w = Window /\ r = Recent(Window)
    OBVIOUS
  <2>6. r \in Seq(Values)
    BY <2>4, <2>5, RecentIs
  <2>7. \A s : DictIs(s, w) => DictIs(s, r)
    BY <2>4, <2>5, BehindRecent DEF DictIs
  <2>8. \A s : DictIs(s, r) => DictIs(s, r)'
    BY <1>2 DEF DictIs, Behind, Byte
  <2>9. PICK f, d : f = Following /\ d = dictLz
    OBVIOUS
  <2>10. DictIs(f, r)' /\ (f.dictCtx => DictIs(d, r)')
    BY <2>1, <2>5, <2>7, <2>8, <2>9 DEF DictKept
  <2>11. DictKept(lz, history)'
    BY <1>2, <2>3, <2>5, <2>9, <2>10 DEF DictKept
  <2> QED
    BY <1>2, <2>3, <2>5, <2>6, <2>11 DEF BetweenHistory
<1>4. CASE ~(status = "open" /\ result > 0)
  BY <1>1, <1>2, <1>4 DEF Sent, Failed, BetweenHistory
<1> QED
  BY <1>3, <1>4

(* A dictionary is loaded.                                                 *)
LEMMA LoadedEnds ==
  ASSUME NEW n \in DictSizes
  PROVE  LET d == LZ4_loadDict(n)
         IN  \/ d.dictSize = 0
             \/ d.dictSize \in Nat /\ d.dictSize <= n /\ d.dictionary + d.dictSize = DICT + n
<1> USE WindowNumbers
<1>1. n \in Nat /\ DICT \in Nat
  BY UserAssumption, LenProperties, Places
<1> DEFINE kept == IF n > W THEN W ELSE n
           end == DICT + n
           from == end - kept
           table == Hashed(from, end, W - kept)
<1>2. LZ4_loadDict(n) =
        IF n < HASH_UNIT THEN [LZ4_initStream EXCEPT !.currentOffset = W]
        ELSE [table |-> table, currentOffset |-> W, tableType |-> "byU32",
              dictionary |-> from, dictSize |-> kept, dictCtx |-> FALSE]
  BY DEF LZ4_loadDict
<1>3. kept \in Nat /\ kept <= n /\ from + kept = DICT + n
  BY <1>1
<1> HIDE DEF kept, from, table, end
<1>4. CASE n < HASH_UNIT
  BY <1>2, <1>4 DEF LZ4_initStream
<1>5. CASE ~(n < HASH_UNIT)
  BY <1>2, <1>3, <1>5
<1> QED
  BY <1>4, <1>5

LEMMA LoadedHistory ==
  ASSUME NEW n \in DictSizes, mem \in [1 .. TOP -> Values], NEW d, d = LZ4_loadDict(n)
  PROVE  LET w == Recent(Word(DICT, n)) IN w \in Seq(Values) /\ DictIs(d, w)
<1>1. n \in Nat /\ DICT \in Nat /\ DISTANCE_MAX \in Nat
  BY UserAssumption, LenProperties, Places, Distances
<1>2. PICK u : u = Word(DICT, n)
  OBVIOUS
<1>3. u \in Seq(Values) /\ Len(u) = n /\ \A i \in 1 .. n : u[i] = Byte(DICT + i - 1)
  <2>1. DICT \in Int /\ n \in Nat
    BY <1>1
  <2>2. /\ Word(DICT, n) \in Seq(Values) /\ Len(Word(DICT, n)) = n
        /\ \A i \in 1 .. n : Word(DICT, n)[i] = Byte(DICT + i - 1)
    BY <2>1, WordSeq
  <2> QED
    BY <1>2, <2>2
<1>4. Recent(u) \in Seq(Values)
  BY <1>3, RecentIs
<1>5. PICK end, size : end = d.dictionary + d.dictSize /\ size = d.dictSize
  OBVIOUS
<1>6. size = 0 \/ (size \in Nat /\ size <= n /\ end = DICT + n)
  BY <1>5, LoadedEnds
<1>7. CASE size = 0
  <2>1. \A k \in 1 .. DISTANCE_MAX : ~(k <= 0)
    BY <1>1
  <2> QED
    BY <1>2, <1>4, <1>5, <1>7, <2>1 DEF DictIs, Behind
<1>8. CASE size \in Nat /\ size <= n /\ end = DICT + n
  <2>1. ASSUME NEW k \in 1 .. DISTANCE_MAX, k <= size
        PROVE  k <= Len(u) /\ Byte(end - k) = u[Len(u) - k + 1]
    <3>1. n - k + 1 \in 1 .. n /\ DICT + (n - k + 1) - 1 = end - k /\ k <= n
      BY <1>1, <1>8, <2>1
    <3> QED
      BY <1>3, <3>1
  <2>2. Behind(end, size, u)
    BY <2>1 DEF Behind
  <2>3. Behind(end, size, Recent(u))
    BY <1>3, <2>2, BehindRecent
  <2> QED
    BY <1>2, <1>4, <1>5, <2>3 DEF DictIs
<1> QED
  BY <1>6, <1>7, <1>8

(* A stream is begun.                                                      *)
LEMMA BeginHistory ==
  ASSUME DataInv,
         InitStream \/ ResetStreamFast \/ (\E n \in DictSizes : LoadDict(n) \/ AttachDictionary(n))
  PROVE  BetweenHistory'
<1> USE WindowNumbers
<1>1. lz \in FastStates /\ mem \in [1 .. TOP -> Values]
  BY DEF DataInv, OutputInv, FastTypeOK, UserTypeOK
<1>2. Recent(<<>>) \in Seq(Values)
  <2>1. PICK w : w = <<>>
    OBVIOUS
  <2>2. w \in Seq(Values)
    BY <2>1
  <2>3. Recent(w) \in Seq(Values)
    BY <2>2, RecentIs
  <2> QED
    BY <2>1, <2>3
<1>3. ASSUME NEW w \in Seq(Values), history' = w, Between,
             NEW t, lz' = t, DictIs(t, w)', t.dictCtx => DictIs(dictLz, w)'
      PROVE  BetweenHistory'
  <2>1. Idle'
    BY <1>3 DEF Between, Idle
  <2>2. DictKept(lz, history)'
    BY <1>3 DEF DictKept, DictIs, Behind
  <2> QED
    BY <1>3, <2>1, <2>2 DEF BetweenHistory
<1>4. ASSUME NEW t, t.dictSize = 0, NEW w
      PROVE  DictIs(t, w)'
  <2>1. PICK end : end = t.dictionary + t.dictSize
    OBVIOUS
  <2>2. Behind(end, 0, w)'
    BY BehindNone
  <2> QED
    BY <1>4, <2>1, <2>2 DEF DictIs
<1>5. ASSUME NEW n \in DictSizes, NEW d, d = LZ4_loadDict(n), mem' = mem
      PROVE  \A w : w = Recent(Word(DICT, n)) => w \in Seq(Values) /\ DictIs(d, w)'
  <2>1. Recent(Word(DICT, n)) \in Seq(Values) /\ DictIs(d, Recent(Word(DICT, n)))
    BY <1>1, <1>5, LoadedHistory
  <2>2. \A w : DictIs(d, w) => DictIs(d, w)'
    BY <1>5 DEF DictIs, Behind, Byte
  <2> QED
    BY <2>1, <2>2
<1>6. CASE InitStream
  <2>1. PICK t, w : t = LZ4_initStream /\ w = Recent(<<>>) /\ w \in Seq(Values)
    BY <1>2
  <2>2. t.dictSize = 0 /\ ~t.dictCtx
    BY <2>1 DEF LZ4_initStream
  <2>3. Between /\ lz' = t /\ history' = w
    BY <1>6, <2>1 DEF InitStream, Begun
  <2> QED
    BY <1>3, <1>4, <2>1, <2>2, <2>3
<1>7. ASSUME Between
      PROVE  Known(lz)
  BY <1>7 DEF DataInv, Between
<1>8. CASE ResetStreamFast
  <2>1. PICK t, w : t = LZ4_prepareTable(lz, 0, "byU32") /\ w = Recent(<<>>) /\ w \in Seq(Values)
    BY <1>2
  <2>2. Between /\ lz' = t /\ history' = w
    BY <1>8, <2>1 DEF ResetStreamFast, Begun
  <2>3. t.dictSize = 0 /\ ~t.dictCtx
    BY <1>1, <1>7, <2>1, <2>2, PrepareKnown
  <2> QED
    BY <1>3, <1>4, <2>1, <2>2, <2>3
<1>9. ASSUME NEW n \in DictSizes, LoadDict(n)
      PROVE  BetweenHistory'
  <2>1. PICK t, w : t = LZ4_loadDict(n) /\ w = Recent(Word(DICT, n))
    OBVIOUS
  <2>2. Between /\ lz' = t /\ history' = w /\ mem' = mem
    BY <1>9, <2>1 DEF LoadDict, Begun
  <2>3. ~t.dictCtx
    BY <1>1, <2>1, LoadedIs
  <2>4. w \in Seq(Values) /\ DictIs(t, w)'
    BY <1>5, <2>1, <2>2
  <2> QED
    BY <1>3, <2>2, <2>3, <2>4
<1>10. ASSUME NEW n \in DictSizes, AttachDictionary(n)
       PROVE  BetweenHistory'
  <2>1. PICK s, d, w : s = LZ4_prepareTable(lz, 0, "byU32") /\ d = LZ4_loadDict(n)
                       /\ w = Recent(Word(DICT, n))
    OBVIOUS
  <2>2. Between /\ dictLz' = d /\ history' = w /\ mem' = mem
    BY <1>10, <2>1 DEF AttachDictionary, Begun
  <2>3. lz' = [s EXCEPT !.currentOffset = IF @ = 0 THEN W ELSE @, !.dictCtx = d.dictSize > 0]
    BY <1>10, <2>1, <2>2 DEF AttachDictionary
  <2>4. s \in FastStates /\ s.dictSize = 0
    BY <1>1, <1>7, <2>1, <2>2, PrepareKnown
  <2>5. PICK t : t = lz' /\ t.dictSize = 0
    <3>1. PICK offset, ctx : offset = (IF s.currentOffset = 0 THEN W ELSE s.currentOffset)
                             /\ ctx = (d.dictSize > 0)
      OBVIOUS
    <3>2. lz' = [s EXCEPT !.currentOffset = offset, !.dictCtx = ctx]
      BY <2>3, <2>4, <3>1 DEF FastStates
    <3>3. [s EXCEPT !.currentOffset = offset, !.dictCtx = ctx].dictSize = s.dictSize
      BY <2>4 DEF FastStates
    <3> QED
      BY <2>4, <3>2, <3>3
  <2>6. w \in Seq(Values) /\ DictIs(d, w)'
    BY <1>5, <2>1, <2>2
  <2>7. DictIs(dictLz, w)'
    BY <2>2, <2>6 DEF DictIs
  <2>8. DictIs(t, w)'
    BY <1>4, <2>5
  <2>9. lz' = t
    BY <2>5
  <2> QED
    BY ONLY <1>3, <2>2, <2>6, <2>7, <2>8, <2>9
<1> QED
  BY <1>6, <1>8, <1>9, <1>10

LEMMA SaveDictHistory ==
  ASSUME DataInv, BlockHistory, NEW size \in SaveSizes, SaveDict(size)
  PROVE  BetweenHistory'
<1> USE WindowNumbers
<1>1. /\ lz \in FastStates /\ lz.dictSize \in Nat /\ lz.dictionary \in Nat
      /\ mem \in [1 .. TOP -> Values] /\ history \in Seq(Values) /\ Idle
  BY DEF DataInv, OutputInv, FastTypeOK, FastStates, UserTypeOK, BlockHistory, SaveDict, Between
<1>2. size \in Nat
  BY UserAssumption
<1>3. PICK n : n = Min({size, W, lz.dictSize})
  OBVIOUS
<1>4. n \in Nat /\ n <= W /\ n <= lz.dictSize
  <2> DEFINE T == {size, W, lz.dictSize}
  <2>1. \E x \in T : \A y \in T : x <= y
    BY <1>1, <1>2
  <2>2. Min(T) \in T /\ \A y \in T : Min(T) <= y
    BY <2>1 DEF Min
  <2>3. n \in T /\ \A y \in T : n <= y
    BY <1>3, <2>2
  <2> QED
    BY <1>1, <1>2, <2>3
<1>5. PICK end, from : end = lz.dictionary + lz.dictSize /\ from = end - n /\ from \in Int /\ end \in Int
  BY <1>1, <1>4
<1>6. SavedFrom(n) = from
  BY <1>1, <1>4, <1>5 DEF SavedFrom
<1>7. PICK bytes \in [1 .. n -> Values] :
        bytes = Word(SavedFrom(n), n) /\ \A i \in 1 .. n : bytes[i] = Byte(from + i - 1)
  <2>1. Word(from, n) \in [1 .. n -> Values]
    BY <1>1, <1>4, <1>5, WordType
  <2>2. \A i \in 1 .. n : Word(from, n)[i] = Byte(from + i - 1)
    BY DEF Word
  <2> QED
    BY <1>6, <2>1, <2>2, Zenon
<1>8. PICK safe \in SafeBuffers(n) :
        /\ status = "open" /\ mem' = With(mem, safe, bytes) /\ UNCHANGED <<history, status>>
        /\ lz' = [lz EXCEPT !.dictionary = safe, !.dictSize = n]
  BY <1>3, <1>7, Zenon DEF SaveDict, Saved
<1>9. Between /\ dictLz' = dictLz
  BY DEF SaveDict
<1>10. safe \in Nat /\ (n > 0 => safe > 0 /\ safe + n <= BUF) /\ BUF \in Nat
  BY <1>4, Places DEF SafeBuffers, BUF
<1>11. BUF <= TOP /\ TOP \in Nat
  <2>1. PICK m : m = (IF BLOCKS < 2 THEN 2 ELSE BLOCKS) * MAXBLOCK
    OBVIOUS
  <2>2. m \in Nat
    BY <2>1, UserAssumption
  <2>3. TOP = BUF + m + 2
    BY <2>1 DEF TOP
  <2> QED
    BY <1>10, <2>2, <2>3
<1>12. PICK t : t = [lz EXCEPT !.dictionary = safe, !.dictSize = n]
  OBVIOUS
<1>13. t.dictionary = safe /\ t.dictSize = n /\ t.dictCtx = lz.dictCtx
  BY <1>1, <1>12 DEF FastStates
<1>14. PICK w : w = history
  OBVIOUS
<1>15. Behind(end, lz.dictSize, w) /\ (lz.dictCtx => DictIs(dictLz, w))
  BY <1>1, <1>5, <1>8, <1>14 DEF BlockHistory, OpenStream, DictKept, DictIs
<1>16. DISTANCE_MAX \in Nat
  BY Distances
<1>17. ASSUME NEW k \in 1 .. DISTANCE_MAX, k <= n
       PROVE  k <= Len(w) /\ Byte((safe + n) - k)' = w[Len(w) - k + 1]
  <2>1. k \in Nat \ {0} /\ k <= lz.dictSize
    BY <1>1, <1>4, <1>16, <1>17
  <2>2. k <= Len(w) /\ Byte(end - k) = w[Len(w) - k + 1]
    BY <1>15, <2>1 DEF Behind
  <2>3. /\ n - k + 1 \in 1 .. n /\ from + (n - k + 1) - 1 = end - k
        /\ ((safe + n) - k) - safe + 1 = n - k + 1 /\ (safe + n) - k \in 1 .. TOP
    BY ONLY <1>4, <1>5, <1>10, <1>11, <1>17, <2>1
  <2>4. Byte((safe + n) - k)' = bytes[n - k + 1]
    BY <1>1, <1>7, <1>8, <2>3 DEF Byte, With
  <2>5. bytes[n - k + 1] = Byte(end - k)
    BY <1>7, <2>3
  <2> QED
    BY <2>2, <2>4, <2>5
<1>18. DictIs(t, w)'
  BY <1>13, <1>17 DEF DictIs, Behind
<1>19. lz.dictCtx => DictIs(dictLz, w)'
  <2> SUFFICES ASSUME lz.dictCtx PROVE DictIs(dictLz, w)'
    OBVIOUS
  <2>1. DictPlaced(lz)
    BY <1>1, <1>8 DEF DataInv
  <2>2. n = 0
    BY <1>4, <2>1 DEF DictPlaced
  <2>3. \A x : x - safe + 1 \notin DOMAIN bytes
    BY <1>7, <2>2
  <2>4. DOMAIN mem' = DOMAIN mem /\ \A x \in DOMAIN mem : mem'[x] = mem[x]
    BY <1>8, <2>3 DEF With
  <2>5. \A x : Byte(x)' = Byte(x)
    BY <2>4 DEF Byte
  <2> QED
    BY <1>9, <1>15, <2>5 DEF DictIs, Behind
<1>20. DictKept(lz, history)'
  <2>1. history' = w /\ lz' = t
    BY <1>8, <1>12, <1>14
  <2> QED
    BY <1>13, <1>18, <1>19, <2>1 DEF DictKept, DictIs, Behind
<1> QED
  BY <1>1, <1>8, <1>9, <1>20 DEF BetweenHistory, Between, Idle

-----------------------------------------------------------------------------
(* What the two properties say of the streams that are not the fast one:   *)
(* what their decoders have is a sequence, of whatever they use for bytes. *)
IsSequence(s) == \E S : s \in Seq(S)

LEMMA WordIsSequence ==
  ASSUME NEW a, NEW k \in Nat
  PROVE  IsSequence(Word(a, k))
<1> DEFINE f(i) == Byte(a + i - 1)
           s == [i \in 1 .. k |-> f(i)]
           S == {f(i) : i \in 1 .. k}
<1>1. s \in [1 .. k -> S]
  OBVIOUS
<1>2. s = Word(a, k)
  BY DEF Word
<1> HIDE DEF s, S
<1>3. s \in Seq(S)
  BY <1>1
<1> QED
  BY <1>2, <1>3 DEF IsSequence

LEMMA JoinedIsSequence ==
  ASSUME NEW s, NEW t, IsSequence(s), IsSequence(t)
  PROVE  IsSequence(s \o t)
<1>1. PICK S, T : s \in Seq(S) /\ t \in Seq(T)
  BY DEF IsSequence
<1>2. PICK U : U = S \cup T
  OBVIOUS
<1>3. s \in Seq(U) /\ t \in Seq(U)
  <2>1. /\ Len(s) \in Nat /\ s \in [1 .. Len(s) -> S]
        /\ Len(t) \in Nat /\ t \in [1 .. Len(t) -> T]
    BY <1>1, LenProperties
  <2>2. s \in [1 .. Len(s) -> U] /\ t \in [1 .. Len(t) -> U]
    BY <1>2, <2>1
  <2> QED
    BY <2>1, <2>2
<1>4. s \o t \in Seq(U)
  BY <1>3, ConcatProperties
<1> QED
  BY <1>4 DEF IsSequence

LEMMA RecentIsSequence ==
  ASSUME NEW s, IsSequence(s)
  PROVE  IsSequence(Recent(s))
<1>1. PICK S : s \in Seq(S)
  BY DEF IsSequence
<1>2. Recent(s) \in Seq(S)
  BY <1>1, RecentIs
<1> QED
  BY <1>2 DEF IsSequence

LEMMA EmptyIsSequence == IsSequence(<<>>)
<1>1. <<>> \in Seq({})
  BY EmptySeq
<1> QED
  BY <1>1 DEF IsSequence

Sequences ==
  /\ IsSequence(history) /\ hcCall.n \in Nat /\ decoding.n \in Nat /\ sd.prefixSize \in Nat
  /\ DOMAIN sd = {"prefixEnd", "prefixSize", "externalDict", "extDictSize"}
  /\ stream # "fast" => Idle /\ lz = LZ4_initStream

LEMMA BegunIsSequence ==
  ASSUME NEW n \in Nat, Begun(<<>>) \/ Begun(Word(DICT, n))
  PROVE  IsSequence(history')
<1>1. IsSequence(Word(DICT, n))
  BY WordIsSequence
<1>2. IsSequence(Recent(Word(DICT, n))) /\ IsSequence(Recent(<<>>))
  BY <1>1, RecentIsSequence, EmptyIsSequence
<1> QED
  BY <1>2 DEF Begun

LEMMA HcSequences ==
  ASSUME Sequences, stream' = stream, UNCHANGED <<blockVars, sdVars>>,
         \/ \E n \in HcSizes, limit \in {"limitedOutput", "fillOutput", "refused"} :
              HcContinue(n, limit) \/ HcExtState(n, limit)
         \/ HcReturned
         \/ HcInitStream \/ HcResetFast
         \/ \E n \in DictSizes : HcLoadDict(n) \/ HcAttach(n)
         \/ \E n \in SaveSizes : HcSaveDict(n)
  PROVE  Sequences'
<1>1. decoding' = decoding /\ sd' = sd /\ pc' = pc /\ lz' = lz
  BY DEF blockVars, sdVars
<1>2. ASSUME IsSequence(history'), hcCall'.n \in Nat
      PROVE  Sequences'
  BY <1>1, <1>2 DEF Sequences, Idle
<1>3. HcSizes \subseteq Nat /\ DictSizes \subseteq Nat
  BY HcAssumption, UserAssumption, LenProperties
<1>4. ASSUME NEW n \in HcSizes, NEW limit, HcContinue(n, limit) \/ HcExtState(n, limit)
      PROVE  Sequences'
  <2>1. hcCall'.n = n
    BY <1>4 DEF HcContinue, HcExtState, CompressHc
  <2>2. history' = history \/ history' = <<>>
    BY <1>4 DEF HcContinue, HcExtState, Written, Single
  <2>3. IsSequence(history')
    BY <2>2, EmptyIsSequence DEF Sequences
  <2> QED
    BY <1>2, <1>3, <2>1, <2>3
<1>5. CASE HcReturned
  <2>1. hcCall'.n \in Nat
    BY <1>5 DEF HcReturned, NoHcCall
  <2>2. ASSUME NEW m, m \in 0 .. hcCall.n \/ m = hcCall.n, ReadOnly(m)
        PROVE  IsSequence(history')
    <3>1. m \in Nat
      BY <2>2 DEF Sequences
    <3>2. IsSequence(Word(hcCall.source, m))
      BY <3>1, WordIsSequence
    <3>3. IsSequence(history \o Word(hcCall.source, m))
      BY <3>2, JoinedIsSequence DEF Sequences
    <3>4. IsSequence(Recent(history \o Word(hcCall.source, m)))
      BY <3>3, RecentIsSequence
    <3> QED
      BY <2>2, <3>4 DEF ReadOnly, Sequences
  <2>3. Failed \/ \E m : (m \in 0 .. hcCall.n \/ m = hcCall.n) /\ ReadOnly(m)
    BY <1>5 DEF HcReturned
  <2>4. IsSequence(history')
    BY <2>2, <2>3 DEF Failed, Sequences
  <2> QED
    BY <1>2, <2>1, <2>4
<1>6. ASSUME HcBetween, NEW n \in Nat, Begun(<<>>) \/ Begun(Word(DICT, n))
      PROVE  Sequences'
  <2>1. IsSequence(history')
    BY <1>6, BegunIsSequence
  <2>2. hcCall'.n \in Nat
    BY <1>6 DEF HcBetween, Sequences
  <2> QED
    BY <1>2, <2>1, <2>2
<1>7. CASE HcInitStream \/ HcResetFast
  <2>1. HcBetween /\ Begun(<<>>) /\ 0 \in Nat
    BY <1>7 DEF HcInitStream, HcResetFast, HcBegun
  <2> QED
    BY <1>6, <2>1
<1>8. CASE \E n \in DictSizes : HcLoadDict(n) \/ HcAttach(n)
  BY <1>3, <1>6, <1>8 DEF HcLoadDict, HcAttach, HcBegun
<1>9. CASE \E n \in SaveSizes : HcSaveDict(n)
  <2>1. history' = history /\ hcCall' = hcCall
    BY <1>9 DEF HcSaveDict, Saved, HcBetween
  <2> QED
    BY <1>2, <2>1 DEF Sequences
<1> QED
  BY <1>4, <1>5, <1>7, <1>8, <1>9

LEMMA DecoderSequences ==
  ASSUME Sequences, stream' = stream, UNCHANGED <<blockVars, hcVars>>,
         \/ \E n, room \in DecodeSizes : DecodeContinue(n, room)
         \/ DecodeReturned
         \/ DecodeFailed
         \/ \E n \in DictSizes \union {0} : SetStreamDecode(n)
         \/ \E n \in SaveSizes : SaveDecoded(n)
  PROVE  Sequences'
<1> USE WindowNumbers
<1>1. hcCall' = hcCall /\ pc' = pc /\ lz' = lz
  BY DEF blockVars, hcVars
<1>2. ASSUME IsSequence(history'), decoding'.n \in Nat, sd'.prefixSize \in Nat, DOMAIN sd' = DOMAIN sd
      PROVE  Sequences'
  BY <1>1, <1>2 DEF Sequences, Idle
<1>3. /\ DecodeSizes \subseteq Nat /\ DictSizes \subseteq Nat /\ SaveSizes \subseteq Nat
      /\ IsSequence(history) /\ decoding.n \in Nat /\ sd.prefixSize \in Nat
      /\ DOMAIN sd = {"prefixEnd", "prefixSize", "externalDict", "extDictSize"}
  BY DecodeAssumption, UserAssumption, LenProperties DEF Sequences
<1>4. ASSUME NEW n \in DecodeSizes, NEW room \in DecodeSizes, DecodeContinue(n, room)
      PROVE  Sequences'
  <2>1. decoding'.n = n /\ history' = history
    BY <1>4 DEF DecodeContinue, userVars
  <2>2. sd' = sd \/ sd' = Switched(sd)
    BY <1>4 DEF DecodeContinue
  <2>3. sd'.prefixSize = sd.prefixSize /\ DOMAIN sd' = DOMAIN sd
    BY <1>3, <2>2 DEF Switched
  <2> QED
    BY <1>2, <1>3, <2>1, <2>3
<1>5. CASE DecodeReturned
  <2>1. decoding'.n \in Nat
    BY <1>5 DEF DecodeReturned, NotDecoding
  <2>2. PICK n, block : n = decoding.n /\ block = [i \in 1 .. n |-> (blocks + 1) * 1000 + i]
    BY Zenon
  <2>3. IsSequence(block)
    <3> DEFINE f(i) == (blocks + 1) * 1000 + i
               S == {f(i) : i \in 1 .. n}
    <3>1. block \in [1 .. n -> S]
      BY <2>2
    <3> HIDE DEF S
    <3>2. block \in Seq(S)
      BY <1>3, <2>2, <3>1
    <3> QED
      BY <3>2 DEF IsSequence
  <2>4. history' = Recent(history \o block)
    BY <1>5, <2>2 DEF DecodeReturned
  <2>5. IsSequence(history')
    BY <1>3, <2>3, <2>4, JoinedIsSequence, RecentIsSequence
  <2>6. PICK size, end : /\ size = IF Rolling(decoding.dest) THEN sd.prefixSize + n ELSE n
                         /\ end = decoding.dest + n
    OBVIOUS
  <2>7. sd' = sd \/ sd' = [sd EXCEPT !.prefixSize = size, !.prefixEnd = end]
    BY <1>3, <1>5, <2>2, <2>6 DEF DecodeReturned
  <2>8. size \in Nat
    BY <1>3, <2>2, <2>6
  <2>9. sd'.prefixSize \in Nat /\ DOMAIN sd' = DOMAIN sd
    BY <1>3, <2>7, <2>8
  <2> QED
    BY <1>2, <2>1, <2>5, <2>9
<1>6. CASE DecodeFailed
  BY <1>2, <1>3, <1>6 DEF DecodeFailed, NotDecoding
<1>7. ASSUME NEW n \in Nat, NEW a, sd' = LZ4_setStreamDecode(a, n)
      PROVE  sd'.prefixSize \in Nat /\ DOMAIN sd' = DOMAIN sd
  BY <1>3, <1>7 DEF LZ4_setStreamDecode
<1>8. ASSUME NEW n \in DictSizes \union {0}, SetStreamDecode(n)
      PROVE  Sequences'
  <2>1. n \in Nat
    BY <1>3
  <2>2. IsSequence(history')
    BY <1>8, <2>1, BegunIsSequence DEF SetStreamDecode
  <2>3. decoding' = decoding /\ sd' = LZ4_setStreamDecode(IF n = 0 THEN NULL ELSE DICT, n)
    BY <1>8 DEF SetStreamDecode
  <2> QED
    BY <1>2, <1>3, <1>7, <2>1, <2>2, <2>3
<1>9. ASSUME NEW size \in SaveSizes, SaveDecoded(size)
      PROVE  Sequences'
  <2>1. PICK n : n = Min({size, W, sd.prefixSize})
    OBVIOUS
  <2>2. n \in Nat
    <3> DEFINE T == {size, W, sd.prefixSize}
    <3>1. \E x \in T : \A y \in T : x <= y
      BY <1>3
    <3>2. Min(T) \in T
      BY <3>1 DEF Min
    <3> QED
      BY <1>3, <2>1, <3>2
  <2>3. PICK safe : sd' = LZ4_setStreamDecode(safe, n)
    BY <1>9, <2>1 DEF SaveDecoded
  <2>4. decoding' = decoding
    BY <1>9 DEF SaveDecoded
  <2>5. history' = SubSeq(history, Len(history) - Min({n, Len(history)}) + 1, Len(history))
    BY <1>9, <2>1 DEF SaveDecoded
  <2>6. IsSequence(history')
    <3>1. PICK S : history \in Seq(S)
      BY <1>3 DEF IsSequence
    <3>2. PICK len, m : len = Len(history) /\ m = Min({n, len}) /\ len \in Nat
      BY <3>1, LenProperties
    <3>3. m \in Nat /\ m <= len
      BY <2>2, <3>2, MinIs
    <3>4. PICK first : first = len - m + 1
      OBVIOUS
    <3>5. history' = SubSeq(history, first, len)
      BY <2>5, <3>2, <3>4
    <3>6. first \in 1 .. len + 1 /\ len = Len(history)
      BY <3>2, <3>3, <3>4
    <3>7. \A i \in first .. len : history[i] \in S
      BY <3>1, <3>2, <3>6, ElementOfSeq
    <3>8. SubSeq(history, first, len) \in Seq(S)
      BY <3>1, <3>2, <3>6, <3>7, SubSeqProperties
    <3> QED
      BY <3>5, <3>8 DEF IsSequence
  <2> QED
    BY <1>2, <1>3, <1>7, <2>2, <2>3, <2>4, <2>6
<1> QED
  BY <1>4, <1>5, <1>6, <1>8, <1>9

-----------------------------------------------------------------------------
(* What the invariant says of the blocks and the dictionary.               *)
LEMMA HistoryDecodes ==
  ASSUME OutputInv, BlockHistory
  PROVE  BlocksDecode
<1>1. /\ mem \in [1 .. TOP -> Values] /\ call.source \in Nat /\ call.n \in Nat
      /\ anchor \in Nat /\ ip \in Nat
      /\ pc \in {"idle", "first", "search", "literals", "nextMatch", "test", "last", "returned"}
  BY DEF OutputInv, FastTypeOK, UserTypeOK, BlockTypeOK, FastCalls
<1>2. PICK a, n : a = call.source /\ n = call.n
  OBVIOUS
<1>3. a \in Nat /\ n \in Nat /\ iend = a + n
  BY <1>1, <1>2 DEF iend
<1>4. ASSUME NEW k \in 0 .. n, decoded = Word(a, k)
      PROVE  decoded = SubSeq(Source, 1, Len(decoded)) /\ Len(decoded) = k
  <2>1. PICK s : s = Word(a, n)
    OBVIOUS
  <2>2. k \in Nat /\ a \in Int
    BY <1>3
  <2>3. /\ s \in Seq(Values) /\ Len(s) = n /\ \A i \in 1 .. n : s[i] = Byte(a + i - 1)
        /\ decoded \in Seq(Values) /\ Len(decoded) = k /\ \A i \in 1 .. k : decoded[i] = Byte(a + i - 1)
    BY <1>1, <1>3, <1>4, <2>1, <2>2, WordSeq
  <2>4. \A i \in 1 .. k : s[i] \in Values
    BY <1>3, <2>3, ElementOfSeq
  <2>5. 1 \in 1 .. n + 1 /\ k \in 0 .. n
    BY <1>3
  <2>6. /\ SubSeq(s, 1, k) \in Seq(Values) /\ Len(SubSeq(s, 1, k)) = k
        /\ \A i \in 1 .. k : SubSeq(s, 1, k)[i] = s[i]
    <3>1. 1 \in Int /\ k \in Int
      BY <2>2
    <3>2. PICK u : u = SubSeq(s, 1, k)
      OBVIOUS
    <3>3. /\ u \in Seq(Values) /\ Len(u) = (IF 1 <= k THEN k - 1 + 1 ELSE 0)
          /\ \A i \in 1 .. k - 1 + 1 : u[i] = s[1 + i - 1]
      BY ONLY <2>4, <3>1, <3>2, SubSeqProperties
    <3>4. k - 1 + 1 = k /\ \A i \in 1 .. k : 1 + i - 1 = i
      BY <2>2
    <3> QED
      BY <2>2, <3>2, <3>3, <3>4
  <2>7. \A i \in 1 .. k : decoded[i] = SubSeq(s, 1, k)[i]
    BY <1>3, <2>3, <2>6
  <2>8. decoded = SubSeq(s, 1, k)
    BY <2>3, <2>6, <2>7, SeqEqual
  <2> QED
    BY <1>2, <2>1, <2>3, <2>8 DEF Source
<1>5. CASE InSearch
  <2>1. decoded = Word(a, anchor - a) /\ a <= anchor /\ anchor <= iend
    BY <1>2, <1>5 DEF BlockHistory, DecodedSoFar, OutputInv, InBlock, InSearch
  <2>2. anchor - a \in 0 .. n
    BY <1>1, <1>3, <2>1
  <2> QED
    BY <1>4, <1>5, <2>1, <2>2 DEF BlocksDecode, InSearch
<1>6. CASE pc = "returned" /\ result > 0
  <2>1. /\ ip \in a .. iend /\ decoded = Word(a, ip - a)
        /\ call.limit # "fillOutput" => ip = iend
    BY <1>2, <1>6 DEF BlockHistory, DecodedSoFar
  <2>2. ip - a \in 0 .. n /\ (call.limit # "fillOutput" => ip - a = n)
    BY <1>1, <1>3, <2>1
  <2> QED
    BY <1>2, <1>4, <2>1, <2>2 DEF BlocksDecode
<1>7. CASE ~Compressing
  BY <1>7 DEF BlocksDecode
<1> QED
  BY <1>1, <1>5, <1>6, <1>7 DEF InSearch, Compressing, Idle

LEMMA EndOfHistory ==
  ASSUME IsSequence(history), DictIs(lz, history), lz.dictSize \in Nat, lz.dictionary \in Nat
  PROVE  DictionaryIsHistory
<1>1. PICK S, len : history \in Seq(S) /\ len = Len(history) /\ len \in Nat
  BY LenProperties DEF IsSequence
<1>2. PICK n : n = Min({lz.dictSize, DISTANCE_MAX, len})
  OBVIOUS
<1>3. DISTANCE_MAX \in Nat
  BY Distances
<1>4. n \in Nat /\ n <= lz.dictSize /\ n <= DISTANCE_MAX /\ n <= len
  <2> DEFINE T == {lz.dictSize, DISTANCE_MAX, len}
  <2>1. \E x \in T : \A y \in T : x <= y
    BY <1>1, <1>3
  <2>2. Min(T) \in T /\ \A y \in T : Min(T) <= y
    BY <2>1 DEF Min
  <2> QED
    BY <1>1, <1>2, <1>3, <2>2
<1>5. PICK end : /\ end = lz.dictionary + lz.dictSize /\ end \in Int
                 /\ end - n = lz.dictionary + lz.dictSize - n
  BY <1>4
<1>6. \A k \in 1 .. DISTANCE_MAX : k <= lz.dictSize => Byte(end - k) = history[len - k + 1]
  BY <1>1, <1>5 DEF DictIs, Behind
<1>7. ASSUME NEW i \in 1 .. n
      PROVE  Byte((end - n) + i - 1) = history[i + (len - n + 1) - 1]
  <2> DEFINE k == n - i + 1
  <2>1. k \in 1 .. DISTANCE_MAX /\ k <= lz.dictSize
    BY <1>3, <1>4
  <2>2. end - k = (end - n) + i - 1 /\ len - k + 1 = i + (len - n + 1) - 1
    BY <1>1, <1>4, <1>5
  <2> HIDE DEF k
  <2> QED
    BY <1>6, <2>1, <2>2
<1>8. PICK w, first : w = Word(end - n, n) /\ first = len - n + 1 /\ first \in Nat \ {0}
  BY <1>1, <1>4
<1>9. w = [i \in 1 .. n |-> history[i + first - 1]]
  BY <1>7, <1>8 DEF Word
<1>10. SubSeq(history, first, len) = w
  <2>1. \A i \in first .. len : history[i] \in S
    BY <1>1, <1>8, ElementOfSeq
  <2>2. first \in Int /\ len \in Int /\ n = len - first + 1
    BY <1>1, <1>4, <1>8
  <2>3. PICK u : u = SubSeq(history, first, len)
    OBVIOUS
  <2>4. /\ u \in Seq(S) /\ Len(u) = (IF first <= len THEN len - first + 1 ELSE 0)
        /\ \A i \in 1 .. len - first + 1 : u[i] = history[first + i - 1]
    BY ONLY <2>1, <2>2, <2>3, SubSeqProperties
  <2>5. Len(u) = n /\ u \in [1 .. n -> S] /\ \A i \in 1 .. n : u[i] = history[i + first - 1]
    <3>1. Len(u) = n
      BY <1>1, <1>4, <2>2, <2>4
    <3>2. \A i \in 1 .. n : i \in 1 .. len - first + 1 /\ first + i - 1 = i + first - 1
      BY <2>2
    <3>3. u \in [1 .. Len(u) -> S]
      BY <2>4, LenProperties
    <3> QED
      BY <2>4, <3>1, <3>2, <3>3
  <2> QED
    BY <1>9, <2>3, <2>5
<1>11. Word(end - n, n) = SubSeq(history, len - n + 1, len)
  BY <1>8, <1>9, <1>10
<1> QED
  BY <1>1, <1>2, <1>5, <1>11 DEF DictionaryIsHistory

-----------------------------------------------------------------------------
AllHistory == Sequences /\ (stream = "fast" => BlockHistory)

LEMMA HistoryStutters ==
  ASSUME BlockHistory, UNCHANGED <<userVars, blockVars>>
  PROVE  BlockHistory'
<1>1. /\ UNCHANGED <<mem, history, status, lz, dictLz, call, pc, result>>
      /\ UNCHANGED <<ip, cand, anchor, decoded>>
  BY DEF userVars, blockVars, locals
<1>2. Window' = Window /\ Following' = Following /\ (Compressing' <=> Compressing) /\ (Idle' <=> Idle)
  BY <1>1 DEF Window, Source, Word, Byte, Following, ExternalMode, Compressing, Idle
<1>3. ASSUME NEW s, NEW w, DictKept(s, w)
      PROVE  DictKept(s, w)'
  BY <1>1, <1>3 DEF DictKept, DictIs, Behind, Byte
<1>4. OpenStream'
  <2>1. PICK h, v, f, l : h = history /\ v = Window /\ f = Following /\ l = lz
    OBVIOUS
  <2>2. DictKept(l, h) => DictKept(lz, history)'
    BY <1>1, <1>3, <2>1 DEF DictKept, DictIs, Behind
  <2>3. DictKept(f, v) => DictKept(Following, Window)'
    BY <1>2, <1>3, <2>1 DEF DictKept, DictIs, Behind
  <2> QED
    BY <1>1, <1>2, <2>1, <2>2, <2>3 DEF BlockHistory, OpenStream
<1>5. DecodedSoFar'
  <2>1. BeforeIsHistory' <=> BeforeIsHistory
    BY <1>1 DEF BeforeIsHistory, Behind, Byte, maybe_extMem, dictEnd
  <2>2. (Leads' <=> Leads) /\ (Matched(0)' <=> Matched(0))
    BY <1>1 DEF Leads, Matched, Same, Byte, InDict, maybe_extMem, dictEnd
  <2>3. (InSearch' <=> InSearch) /\ iend' = iend
    BY <1>1 DEF InSearch, iend
  <2>4. (decoded = Word(call.source, anchor - call.source))' <=>
          decoded = Word(call.source, anchor - call.source)
    BY <1>1 DEF Word, Byte
  <2>5. (decoded = Word(call.source, ip - call.source))' <=>
          decoded = Word(call.source, ip - call.source)
    BY <1>1 DEF Word, Byte
  <2> QED
    BY <1>1, <2>1, <2>2, <2>3, <2>4, <2>5 DEF BlockHistory, DecodedSoFar
<1> QED
  BY <1>1, <1>4, <1>5 DEF BlockHistory

LEMMA HistoryStep ==
  ASSUME ComparesInv, ComparesInv', AllHistory, RING >= 2 * MAXBLOCK, [Next]_streamVars
  PROVE  AllHistory'
<1>1. CASE UNCHANGED streamVars
  <2>1. stream' = stream /\ UNCHANGED <<userVars, blockVars, hcVars, sdVars>>
    BY <1>1 DEF streamVars
  <2>2. Sequences'
    <3>1. UNCHANGED <<history, hcCall, decoding, sd, pc, lz>>
      BY <2>1 DEF userVars, blockVars, hcVars, sdVars
    <3> QED
      BY <2>1, <3>1 DEF AllHistory, Sequences, Idle
  <2>3. stream = "fast" => BlockHistory'
    BY <2>1, HistoryStutters DEF AllHistory
  <2> QED
    BY <2>1, <2>2, <2>3 DEF AllHistory
<1>2. CASE Next /\ stream = "fast"
  <2>1. /\ stream' = stream /\ UNCHANGED <<hcVars, sdVars>>
        /\ \/ \E word \in Words, room \in Rooms : CompressContinue(word, room)
           \/ \E word \in Singles, room \in SingleRooms :
                ExtState(word, room) \/ FastReset(word, room) \/ DestSize(word, room)
           \/ CompressBlock
           \/ Returned
           \/ InitStream \/ ResetStreamFast
                \/ (\E n \in DictSizes : LoadDict(n) \/ AttachDictionary(n))
           \/ \E n \in SaveSizes : SaveDict(n)
    BY <1>2 DEF Next, Fast, Hc, Decoder
  <2>2. DataInv /\ OutputInv /\ BlockHistory /\ FastTypeOK
    BY <1>2 DEF ComparesInv, DataInv, OutputInv, AllHistory
  <2>3. mem' \in [1 .. TOP -> Values]
    BY <1>2, <2>1 DEF ComparesInv, DataInv, OutputInv, FastTypeOK, UserTypeOK
  <2>4. ASSUME BlockHistory'
        PROVE  AllHistory'
    <3>1. IsSequence(history')
      BY <2>4 DEF BlockHistory, IsSequence
    <3>2. UNCHANGED <<hcCall, decoding, sd>>
      BY <2>1 DEF hcVars, sdVars
    <3> QED
      BY <1>2, <2>1, <2>4, <3>1, <3>2 DEF AllHistory, Sequences
  <2>5. ASSUME NEW word \in Words, NEW room \in Rooms, CompressContinue(word, room)
        PROVE  BlockHistory'
    BY <2>2, <2>3, <2>5, ContinueHistory
  <2>6. ASSUME NEW word \in Singles, NEW room \in SingleRooms,
               ExtState(word, room) \/ FastReset(word, room) \/ DestSize(word, room)
        PROVE  BlockHistory'
    BY <2>6, SingleHistory
  <2>7. CASE CompressBlock
    <3>1. ~Idle
      BY <2>7 DEF CompressBlock, FirstByte, Search, Literals, NextMatch, Test, LastLiterals, Idle
    <3>2. BlockData
      BY <2>2, <3>1 DEF DataInv, BlockData
    <3> QED
      BY <2>2, <2>4, <2>7, <3>2, BlockStepHistory
  <2>8. CASE Returned
    BY <2>2, <2>4, <2>8, ReturnedHistory, BetweenBlocks
  <2>9. CASE InitStream \/ ResetStreamFast
               \/ (\E n \in DictSizes : LoadDict(n) \/ AttachDictionary(n))
    BY <2>2, <2>4, <2>9, BeginHistory, BetweenBlocks
  <2>10. ASSUME NEW n \in SaveSizes, SaveDict(n)
         PROVE  BlockHistory'
    BY <2>2, <2>10, SaveDictHistory, BetweenBlocks
  <2> QED
    BY <2>1, <2>4, <2>5, <2>6, <2>7, <2>8, <2>9, <2>10
<1>3. CASE Next /\ stream # "fast"
  <2>1. Sequences
    BY DEF AllHistory
  <2>2. \/ /\ stream' = stream /\ UNCHANGED <<blockVars, sdVars>>
           /\ \/ \E n \in HcSizes, limit \in {"limitedOutput", "fillOutput", "refused"} :
                   HcContinue(n, limit) \/ HcExtState(n, limit)
              \/ HcReturned
              \/ HcInitStream \/ HcResetFast
              \/ \E n \in DictSizes : HcLoadDict(n) \/ HcAttach(n)
              \/ \E n \in SaveSizes : HcSaveDict(n)
        \/ /\ stream' = stream /\ UNCHANGED <<blockVars, hcVars>>
           /\ \/ \E n, room \in DecodeSizes : DecodeContinue(n, room)
              \/ DecodeReturned
              \/ DecodeFailed
              \/ \E n \in DictSizes \union {0} : SetStreamDecode(n)
              \/ \E n \in SaveSizes : SaveDecoded(n)
    BY <1>3 DEF Next, Fast, Hc, Decoder
  <2>3. Sequences'
    BY <2>1, <2>2, HcSequences, DecoderSequences
  <2> QED
    BY <1>3, <2>2, <2>3 DEF AllHistory
<1> QED
  BY <1>1, <1>2, <1>3

LEMMA HistoryBegins == Init => AllHistory
<1> SUFFICES ASSUME Init PROVE AllHistory
  OBVIOUS
<1>1. /\ history = <<>> /\ pc = "idle" /\ lz = LZ4_initStream /\ dictLz = LZ4_initStream
      /\ hcCall = NoHcCall /\ decoding = NotDecoding
      /\ sd = [prefixEnd |-> NULL, prefixSize |-> 0, externalDict |-> NULL, extDictSize |-> 0]
  BY DEF Init, StreamInit, UserInit, BlockInit, HcInit, DecodeInit
<1>2. Sequences
  BY <1>1, EmptyIsSequence DEF Sequences, Idle, NoHcCall, NotDecoding
<1>3. history \in Seq(Values)
  BY <1>1
<1>4. DictKept(lz, history)
  <2>1. \A k \in 1 .. DISTANCE_MAX : ~(k <= 0)
    BY Distances
  <2>2. lz.dictSize = 0 /\ ~lz.dictCtx
    BY <1>1 DEF LZ4_initStream
  <2> QED
    BY <2>1, <2>2 DEF DictKept, DictIs, Behind
<1>5. BlockHistory
  BY <1>1, <1>3, <1>4 DEF BlockHistory, OpenStream, DecodedSoFar, Idle, Compressing, InSearch
<1> QED
  BY <1>2, <1>5 DEF AllHistory

LEMMA HistoryShows ==
  ASSUME ComparesInv, AllHistory
  PROVE  BlocksDecode /\ DictionaryIsHistory
<1>1. CASE stream = "fast"
  <2>1. OutputInv /\ BlockHistory /\ lz \in FastStates
    BY <1>1 DEF ComparesInv, DataInv, OutputInv, FastTypeOK, AllHistory
  <2>2. BlocksDecode
    BY <2>1, HistoryDecodes
  <2>3. CASE Idle /\ status = "open"
    <3>1. DictIs(lz, history) /\ lz.dictSize \in Nat /\ lz.dictionary \in Nat /\ IsSequence(history)
      BY <2>1, <2>3 DEF BlockHistory, OpenStream, DictKept, FastStates, AllHistory, Sequences
    <3> QED
      BY <2>2, <3>1, EndOfHistory
  <2>4. CASE ~(Idle /\ status = "open")
    BY <2>2, <2>4 DEF DictionaryIsHistory
  <2> QED
    BY <2>3, <2>4
<1>2. CASE stream # "fast"
  <2>1. Idle /\ lz = LZ4_initStream /\ IsSequence(history)
    BY <1>2 DEF AllHistory, Sequences
  <2>2. BlocksDecode
    BY <2>1 DEF BlocksDecode, Compressing
  <2>3. lz.dictSize = 0 /\ lz.dictionary = 0
    BY <2>1, WindowNumbers DEF LZ4_initStream
  <2>4. \A k \in 1 .. DISTANCE_MAX : ~(k <= 0)
    BY Distances
  <2>5. DictIs(lz, history)
    BY <2>3, <2>4 DEF DictIs, Behind
  <2> QED
    BY <2>1, <2>2, <2>3, <2>5, EndOfHistory
<1> QED
  BY <1>1, <1>2

(* BlocksDecode: wherever the program puts its blocks, whatever the stream *)
(* was used for before, and however its dictionary was loaded, attached,   *)
(* saved or overwritten in part, what LZ4_compress_fast_continue and the   *)
(* functions for single blocks write is decoded, with what the decoder     *)
(* has, to the block they were given.  A ring has to hold two blocks of    *)
(* the greatest size.                                                      *)
THEOREM FastBlocksDecode ==
  ASSUME RING >= 2 * MAXBLOCK
  PROVE  Spec => []BlocksDecode
<1>1. ComparesInv /\ [Next]_streamVars => ComparesInv'
  BY DataStep
<1>2. ComparesInv /\ ComparesInv' /\ AllHistory /\ [Next]_streamVars => AllHistory'
  BY HistoryStep
<1>3. ComparesInv /\ AllHistory => BlocksDecode
  BY HistoryShows
<1> QED
  BY <1>1, <1>2, <1>3, DataBegins, HistoryBegins, PTL DEF Spec

(* DictionaryIsHistory: between two calls the dictionary of a stream that  *)
(* may go on is the end of what the decoder has.                           *)
THEOREM FastDictionaryIsHistory ==
  ASSUME RING >= 2 * MAXBLOCK
  PROVE  Spec => []DictionaryIsHistory
<1>1. ComparesInv /\ [Next]_streamVars => ComparesInv'
  BY DataStep
<1>2. ComparesInv /\ ComparesInv' /\ AllHistory /\ [Next]_streamVars => AllHistory'
  BY HistoryStep
<1>3. ComparesInv /\ AllHistory => DictionaryIsHistory
  BY HistoryShows
<1> QED
  BY <1>1, <1>2, <1>3, DataBegins, HistoryBegins, PTL DEF Spec
=============================================================================
