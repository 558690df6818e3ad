--------------------------- MODULE Lz4HistoryProofs ---------------------------
(***************************************************************************)
(* What LZ4HC can look up is what the decoder has, and what a block may    *)
(* refer to is where the decoder looks for it.  The first is about numbers *)
(* that a stream gives to addresses, the second about what the layouts     *)
(* leave of the memory: the blocks, the copies that write further than     *)
(* they should, and the dictionaries that are saved.                       *)
(***************************************************************************)
EXTENDS Lz4StreamsProofs

-----------------------------------------------------------------------------
(* LZ4HC: what can be looked up is what the decoder has.  The prefix and   *)
(* the external dictionary, one behind the other, are the end of the       *)
(* history, and an attached dictionary stands before them.                 *)

(* How many bytes the stream s has before an address in its prefix, and    *)
(* where the one at distance k is.                                         *)
HcReach(s, end) == (end - s.prefixStart) + (s.dictLimit - s.lowLimit)

HcAddress(s, end, k) ==
  IF k <= end - s.prefixStart THEN end - k
  ELSE s.dictStart + (s.dictLimit - s.lowLimit) - (k - (end - s.prefixStart))

HcReads(s, end, window) ==
  \A k \in 1 .. DISTANCE_MAX :
    k <= HcReach(s, end) =>
      k <= Len(window) /\ Byte(HcAddress(s, end, k)) = window[Len(window) - k + 1]

(* The dictionary of d stands before the prefix of s.                      *)
HcAttached(s, d, end, window) ==
  s.dictCtx =>
    \A k \in 1 .. DISTANCE_MAX :
      end - s.prefixStart < k /\ k <= (end - s.prefixStart) + PrefixSize(d) =>
        /\ k <= Len(window)
        /\ Byte(d.end - (k - (end - s.prefixStart))) = window[Len(window) - k + 1]

(* After a cut there may be a gap between the two: the prefix is what it   *)
(* was as long as the dictionary is not copied behind it.                  *)
HcHeld(s, d, c, end, window) ==
  /\ s.prefixStart # NULL /\ (c => s.dictCtx) => HcReads(s, end, window)
  /\ ~c => HcAttached(s, d, end, window)

(* Between two calls, and while a block is compressed; a stream to which a *)
(* dictionary is attached has no other.                                    *)
HcWindow ==
  /\ DOMAIN mem = 1 .. TOP
  /\ status = "open" => at >= BUF
  /\ hc.dictCtx => dictHc.end <= DICT + Len(Dictionary)
  /\ hc.prefixStart = NULL => hc.end = NULL
  /\ hc.dictCtx /\ hc.prefixStart # NULL => hc.lowLimit = hc.dictLimit
  /\ HcIdle /\ status = "open" => HcHeld(hc, dictHc, cut, hc.end, history)
  /\ ~HcIdle => HcHeld(hc, dictHc, cut, hcCall.source, history)

WindowInv == stream = "hc" => HcWindow /\ Sequences

-----------------------------------------------------------------------------
(* What is written changes nothing anywhere else.                          *)
LEMMA ApartKept ==
  ASSUME NEW a \in Int, NEW n \in Nat, NEW bytes, DOMAIN bytes = 1 .. n, mem' = With(mem, a, bytes),
         NEW x \in Int, x < a \/ a + n <= x
  PROVE  Byte(x)' = Byte(x)
<1>1. x - a + 1 \notin DOMAIN bytes
  OBVIOUS
<1>2. DOMAIN mem' = DOMAIN mem /\ (x \in DOMAIN mem => mem'[x] = mem[x])
  BY <1>1 DEF With
<1> QED
  BY <1>2 DEF Byte

(* And there are the bytes that are written.                               *)
LEMMA WrittenThere ==
  ASSUME NEW a \in Int, NEW n \in Nat, NEW bytes, DOMAIN bytes = 1 .. n, mem' = With(mem, a, bytes),
         NEW i \in 1 .. n, a + i - 1 \in DOMAIN mem
  PROVE  Byte(a + i - 1)' = bytes[i]
<1>1. (a + i - 1) - a + 1 = i
  OBVIOUS
<1>2. DOMAIN mem' = DOMAIN mem /\ mem'[a + i - 1] = bytes[i]
  BY <1>1 DEF With
<1> QED
  BY <1>2 DEF Byte

(* Without prefix and dictionary nothing is looked up.                     *)
LEMMA NothingRead ==
  ASSUME NEW s, NEW end \in Nat, s.prefixStart = end, s.lowLimit = s.dictLimit, s.dictLimit \in Nat,
         NEW window
  PROVE  HcReads(s, end, window)
<1>1. HcReach(s, end) = 0
  BY DEF HcReach
<1>2. \A k \in 1 .. DISTANCE_MAX : ~(k <= 0)
  BY Distances
<1> QED
  BY <1>1, <1>2 DEF HcReads

(* The prefix alone, and only the end of it.                               *)
LEMMA PrefixRead ==
  ASSUME NEW s \in HcStates, NEW end \in Nat, s.prefixStart <= end, s.lowLimit <= s.dictLimit,
         NEW r \in HcStates, r.lowLimit = r.dictLimit, r.prefixStart \in s.prefixStart .. end,
         NEW window, HcReads(s, end, window)
  PROVE  HcReads(r, end, window)
<1>1. ASSUME NEW k \in 1 .. DISTANCE_MAX, k <= HcReach(r, end)
      PROVE  k <= Len(window) /\ Byte(HcAddress(r, end, k)) = window[Len(window) - k + 1]
  <2>1. k \in Nat /\ k <= end - r.prefixStart /\ k <= end - s.prefixStart /\ k <= HcReach(s, end)
    BY <1>1, Distances DEF HcReach, HcStates
  <2>2. HcAddress(r, end, k) = end - k /\ HcAddress(s, end, k) = end - k
    BY <2>1 DEF HcAddress
  <2> QED
    BY <2>1, <2>2 DEF HcReads
<1> QED
  BY <1>1 DEF HcReads

(* The prefix becomes the dictionary of a block elsewhere.                 *)
LEMMA ExternalAddress ==
  ASSUME NEW s \in HcStates, s.prefixStart <= s.end, s.lowLimit <= s.dictLimit,
         NEW r \in HcStates, NEW source \in Nat,
         r.prefixStart = source, r.dictStart = s.prefixStart,
         r.lowLimit = s.dictLimit, r.dictLimit = EndIndex(s),
         NEW k \in 1 .. DISTANCE_MAX, k <= HcReach(r, source)
  PROVE  k <= PrefixSize(s) /\ HcAddress(r, source, k) = s.end - k
<1>1. k \in Nat \ {0} /\ k <= PrefixSize(s)
  BY Distances DEF HcReach, HcStates, EndIndex, PrefixSize
<1> QED
  BY <1>1 DEF HcAddress, HcStates, EndIndex, PrefixSize

LEMMA ExternalRead ==
  ASSUME NEW s \in HcStates, s.prefixStart <= s.end, s.lowLimit <= s.dictLimit,
         NEW r \in HcStates, NEW source \in Nat,
         r.prefixStart = source, r.dictStart = s.prefixStart,
         r.lowLimit = s.dictLimit, r.dictLimit = EndIndex(s),
         NEW window,
         \A k \in 1 .. DISTANCE_MAX :
           k <= PrefixSize(s) => k <= Len(window) /\ Byte(s.end - k) = window[Len(window) - k + 1]
  PROVE  HcReads(r, source, window)
BY ExternalAddress DEF HcReads

LEMMA ReadsPrefix ==
  ASSUME NEW s \in HcStates, s.prefixStart <= s.end, s.lowLimit <= s.dictLimit,
         NEW window, HcReads(s, s.end, window)
  PROVE  \A k \in 1 .. DISTANCE_MAX :
           k <= PrefixSize(s) => k <= Len(window) /\ Byte(s.end - k) = window[Len(window) - k + 1]
<1>1. ASSUME NEW k \in 1 .. DISTANCE_MAX, k <= PrefixSize(s)
      PROVE  k <= Len(window) /\ Byte(s.end - k) = window[Len(window) - k + 1]
  <2>1. k \in Nat \ {0} /\ k <= HcReach(s, s.end) /\ HcAddress(s, s.end, k) = s.end - k
    BY <1>1, Distances DEF HcReach, HcAddress, HcStates, PrefixSize
  <2> QED
    BY <2>1 DEF HcReads
<1> QED
  BY <1>1

-----------------------------------------------------------------------------
(* The windows that the functions leave.                                   *)
LEMMA InitWindow ==
  ASSUME NEW s, Ordered(s), NEW start \in Nat
  PROVE  LET r == LZ4HC_init_internal(s, start) IN r.lowLimit = r.dictLimit /\ r.dictLimit \in Nat
<1> DEFINE offset == (IF EndIndex(s) > GB1 THEN 0 ELSE EndIndex(s)) + W
           top == IF EndIndex(s) > GB1 THEN 0 ELSE s.top
           r == LZ4HC_init_internal(s, start)
<1>1. s \in HcStates /\ offset \in Nat
  BY WindowNumbers DEF Ordered, HcStates, EndIndex, PrefixSize
<1>2. r = [s EXCEPT !.top = top, !.nextToUpdate = offset, !.dictLimit = offset, !.lowLimit = offset,
                    !.prefixStart = start, !.end = start, !.dictStart = start]
  BY DEF LZ4HC_init_internal
<1> HIDE DEF r, top, offset
<1>3. r.dictLimit = offset /\ r.lowLimit = offset
  BY <1>1, <1>2 DEF HcStates
<1> QED
  BY <1>1, <1>3 DEF r

LEMMA LoadWindow ==
  ASSUME NEW dictionary \in Nat, NEW n \in Nat, dictionary + n - Min({n, W}) > 0
  PROVE  LET r == LZ4_loadDictHC(dictionary, n)
         IN  /\ r.lowLimit = r.dictLimit /\ r.prefixStart = dictionary + n - Min({n, W})
             /\ r.end = dictionary + n
<1> USE WindowNumbers
<1> DEFINE kept == Min({n, W})
           start == dictionary + n - kept
           i == LZ4HC_init_internal(LZ4_initStreamHC, start)
           s == [i EXCEPT !.end = start + kept]
           t == LZ4HC_Insert(s, s.end - 3)
           r == LZ4_loadDictHC(dictionary, n)
<1>1. kept \in Nat /\ start \in Nat \ {0} /\ start + kept = dictionary + n
  BY MinIs
<1>2. r = IF kept >= LZ4HC_HASHSIZE THEN t ELSE s
  BY DEF LZ4_loadDictHC
<1>3. i.lowLimit = i.dictLimit /\ i.prefixStart = start /\ i \in HcStates
  <2>1. Begins(i) /\ i.prefixStart = start
    BY <1>1, InitStreamOrdered, InitInternalOrdered
  <2>2. i.lowLimit = i.dictLimit
    BY <1>1, InitStreamOrdered, InitWindow
  <2> QED
    BY <2>1, <2>2 DEF Begins, Ordered
<1> HIDE DEF i, kept, start
<1>4. /\ s.lowLimit = s.dictLimit /\ s.prefixStart = start /\ s.end = start + kept
      /\ DOMAIN s = {"prefixStart", "end", "dictStart", "dictLimit", "lowLimit",
                     "nextToUpdate", "dirty", "dictCtx", "top"}
  BY <1>1, <1>3 DEF HcStates
<1> HIDE DEF s
<1>5. t.lowLimit = s.lowLimit /\ t.dictLimit = s.dictLimit /\ t.prefixStart = s.prefixStart /\ t.end = s.end
  BY <1>4 DEF LZ4HC_Insert
<1> HIDE DEF t, r
<1> QED
  BY <1>1, <1>2, <1>4, <1>5 DEF r, kept, start

LEMMA ExternalWindow ==
  ASSUME NEW s, Begins(s), NEW newBlock \in Nat \ {0}
  PROVE  LET r == LZ4HC_setExternalDict(s, newBlock)
         IN  r.lowLimit = s.dictLimit /\ r.dictStart = s.prefixStart /\ r.dictLimit = EndIndex(s)
<1> DEFINE u == LZ4HC_Insert(s, s.end - 3)
           t == IF PrefixSize(s) >= 4 THEN u ELSE s
           r == LZ4HC_setExternalDict(s, newBlock)
<1>1. s \in HcStates
  BY DEF Begins, Ordered
<1>2. DOMAIN t = DOMAIN s
  <2>1. DOMAIN u = DOMAIN s
    BY DEF LZ4HC_Insert
  <2> HIDE DEF u
  <2> QED
    BY <2>1
<1>3. DOMAIN s = {"prefixStart", "end", "dictStart", "dictLimit", "lowLimit",
                  "nextToUpdate", "dirty", "dictCtx", "top"}
  BY <1>1 DEF HcStates
<1>4. r = [t EXCEPT !.lowLimit = s.dictLimit, !.dictStart = s.prefixStart,
                    !.dictLimit = EndIndex(s), !.nextToUpdate = EndIndex(s),
                    !.prefixStart = newBlock, !.end = newBlock, !.dictCtx = FALSE]
  BY DEF LZ4HC_setExternalDict
<1> HIDE DEF t, r
<1>5. r.lowLimit = s.dictLimit /\ r.dictStart = s.prefixStart /\ r.dictLimit = EndIndex(s)
  BY <1>2, <1>3, <1>4
<1> QED
  BY <1>5 DEF r

(* The block has overwritten what the window no longer shows.              *)
LEMMA OverlapRead ==
  ASSUME NEW s, Begins(s), NEW source \in Nat, s.end = source, NEW n \in Nat,
         NEW bytes, DOMAIN bytes = 1 .. n, mem' = With(mem, source, bytes),
         NEW window, HcReads(s, source, window)
  PROVE  HcReads(HcWithoutOverlap(s, source, n), source, window)'
<1> DEFINE dictionaryEnd == s.dictStart + s.dictLimit - s.lowLimit
           gone == Min({source + n, dictionaryEnd}) - s.dictStart
           a == [s EXCEPT !.lowLimit = s.dictLimit, !.dictStart = s.prefixStart]
           b == [s EXCEPT !.lowLimit = @ + gone, !.dictStart = @ + gone]
           r == HcWithoutOverlap(s, source, n)
<1>0. /\ s \in HcStates /\ s.lowLimit <= s.dictLimit /\ s.prefixStart <= s.end
      /\ s.dictStart \in Nat /\ s.dictLimit \in Nat /\ s.lowLimit \in Nat /\ s.prefixStart \in Nat
  BY DEF Begins, Ordered, HcStates
<1>1. PICK end : end = dictionaryEnd
  OBVIOUS
<1>2. end \in Nat /\ end = s.dictStart + (s.dictLimit - s.lowLimit)
  BY ONLY <1>0, <1>1
<1>3. /\ gone \in Int /\ (gone = (source + n) - s.dictStart \/ gone = end - s.dictStart)
      /\ gone <= (source + n) - s.dictStart /\ gone <= end - s.dictStart
  <2>1. PICK m : m = Min({source + n, end})
    OBVIOUS
  <2>2. m \in Int /\ (m = source + n \/ m = end) /\ m <= source + n /\ m <= end
    <3>1. source + n \in Int /\ end \in Int
      BY <1>2
    <3> QED
      BY ONLY <2>1, <3>1, MinIs
  <2>3. gone = m - s.dictStart
    BY <1>1, <2>1
  <2> HIDE DEF gone
  <2> QED
    BY ONLY <1>0, <1>2, <2>2, <2>3, source \in Nat, n \in Nat
<1>4. PICK lost : lost = gone
  OBVIOUS
<1>5. /\ r.prefixStart = s.prefixStart /\ r.dictLimit = s.dictLimit
      /\ \/ r.lowLimit = s.dictLimit
         \/ /\ r.lowLimit = s.lowLimit + lost /\ r.dictStart = s.dictStart + lost
            /\ source + n > s.dictStart /\ source < end /\ s.lowLimit + lost <= s.dictLimit
         \/ /\ r = s /\ ~(source + n > s.dictStart /\ source < end)
  <2>1. r = IF source + n > s.dictStart /\ source < end
              THEN IF s.dictLimit - (s.lowLimit + gone) < LZ4HC_HASHSIZE THEN a ELSE b
              ELSE s
    BY <1>1 DEF HcWithoutOverlap
  <2>2. a.prefixStart = s.prefixStart /\ a.dictLimit = s.dictLimit /\ a.lowLimit = s.dictLimit
    BY <1>0 DEF HcStates
  <2>3. /\ b.prefixStart = s.prefixStart /\ b.dictLimit = s.dictLimit
        /\ b.lowLimit = s.lowLimit + gone /\ b.dictStart = s.dictStart + gone
    BY <1>0, <1>3 DEF HcStates
  <2>4. ~(s.dictLimit - (s.lowLimit + gone) < LZ4HC_HASHSIZE) => s.lowLimit + gone <= s.dictLimit
    <3> HIDE DEF gone
    <3> QED
      BY ONLY <1>0, <1>3 DEF LZ4HC_HASHSIZE
  <2> HIDE DEF a, b, gone, r
  <2> QED
    BY <1>4, <2>1, <2>2, <2>3, <2>4
<1>6. PICK t : t = r
  OBVIOUS
<1> HIDE DEF r, a, b, gone, dictionaryEnd
<1>7. ASSUME NEW k \in 1 .. DISTANCE_MAX, k <= HcReach(t, source)
      PROVE  k <= Len(window) /\ Byte(HcAddress(t, source, k))' = window[Len(window) - k + 1]
  <2>1. k \in Nat \ {0}
    BY Distances
  <2>2. CASE k <= source - s.prefixStart
    <3>1. HcAddress(t, source, k) = source - k /\ HcAddress(s, source, k) = source - k
      BY <1>5, <1>6, <2>2 DEF HcAddress
    <3>2. k <= HcReach(s, source)
      BY <1>0, <2>1, <2>2 DEF HcReach
    <3>3. Byte(source - k)' = Byte(source - k)
      BY <2>1, ApartKept
    <3> QED
      BY <3>1, <3>2, <3>3 DEF HcReads
  <2>3. CASE ~(k <= source - s.prefixStart)
    <3> DEFINE x == s.dictStart + (s.dictLimit - s.lowLimit) - (k - (source - s.prefixStart))
    <3>1. HcAddress(s, source, k) = x /\ x \in Int
      BY <1>0, <2>1, <2>3 DEF HcAddress
    <3>2. t.lowLimit # s.dictLimit
      BY <1>0, <1>5, <1>6, <1>7, <2>1, <2>3 DEF HcReach
    <3>3. HcAddress(t, source, k) = x /\ k <= HcReach(s, source)
      <4>1. CASE t = s
        BY <1>7, <3>1, <4>1
      <4>2. CASE t # s
        <5>1. /\ t.prefixStart = s.prefixStart /\ t.dictLimit = s.dictLimit
              /\ t.lowLimit = s.lowLimit + lost /\ t.dictStart = s.dictStart + lost
              /\ source + n > s.dictStart /\ source < end
          BY <1>5, <1>6, <3>2, <4>2
        <5>2. lost \in Nat
          BY ONLY <1>0, <1>2, <1>3, <1>4, <5>1, source \in Nat, n \in Nat
        <5>3. HcAddress(t, source, k) = t.dictStart + (t.dictLimit - t.lowLimit) - (k - (source - t.prefixStart))
          BY <2>3, <5>1 DEF HcAddress
        <5>4. k <= (source - t.prefixStart) + (t.dictLimit - t.lowLimit)
          BY <1>7 DEF HcReach
        <5>5. HcAddress(t, source, k) = x
          <6>1. PICK ds, dl, ll, p : ds = s.dictStart /\ dl = s.dictLimit /\ ll = s.lowLimit /\ p = source - s.prefixStart
            OBVIOUS
          <6>2. ds \in Nat /\ dl \in Nat /\ ll \in Nat /\ p \in Int
            BY <1>0, <6>1
          <6>3. HcAddress(t, source, k) = (ds + lost) + (dl - (ll + lost)) - (k - p)
            BY <5>1, <5>3, <6>1
          <6>4. x = ds + (dl - ll) - (k - p)
            BY <6>1
          <6> HIDE DEF x
          <6> QED
            BY ONLY <2>1, <5>2, <6>2, <6>3, <6>4
        <5>6. k <= HcReach(s, source)
          BY <1>0, <2>1, <5>1, <5>2, <5>4 DEF HcReach
        <5> QED
          BY <5>5, <5>6
      <4> QED
        BY <4>1, <4>2
    <3>4. x < source \/ source + n <= x
      <4>1. x < end /\ s.dictStart <= x
        <5>1. k <= (source - s.prefixStart) + (s.dictLimit - s.lowLimit)
          BY <3>3 DEF HcReach
        <5>2. PICK ds, dl, ll, p : ds = s.dictStart /\ dl = s.dictLimit /\ ll = s.lowLimit /\ p = source - s.prefixStart
          OBVIOUS
        <5>3. ds \in Nat /\ dl \in Nat /\ ll \in Nat /\ p \in Int /\ k > p /\ k <= p + (dl - ll) /\ end = ds + (dl - ll)
          BY <1>0, <1>2, <2>1, <2>3, <5>1, <5>2
        <5>4. x = ds + (dl - ll) - (k - p)
          BY <5>2
        <5> HIDE DEF x
        <5>5. x < end /\ ds <= x
          BY ONLY <2>1, <5>3, <5>4
        <5> QED
          BY <5>2, <5>5
      <4>2. CASE ~(source + n > s.dictStart /\ source < end)
        BY <1>0, <1>2, <3>1, <4>1, <4>2
      <4>3. CASE source + n > s.dictStart /\ source < end
        <5>1. /\ t.prefixStart = s.prefixStart /\ t.dictLimit = s.dictLimit
              /\ t.lowLimit = s.lowLimit + lost /\ s.lowLimit + lost <= s.dictLimit
          BY <1>5, <1>6, <3>2, <4>3
        <5>2. k <= (source - s.prefixStart) + (s.dictLimit - (s.lowLimit + lost))
          BY <1>7, <5>1 DEF HcReach
        <5>3. x >= s.dictStart + lost /\ lost \in Int
          BY ONLY <1>0, <1>3, <1>4, <2>1, <5>2, source \in Nat
        <5>4. lost = (source + n) - s.dictStart \/ x >= end
          BY <1>0, <1>2, <1>3, <1>4, <5>3
        <5> QED
          BY <1>0, <1>2, <3>1, <4>1, <5>3, <5>4
      <4> QED
        BY <4>2, <4>3
    <3>5. Byte(x)' = Byte(x)
      BY <3>1, <3>4, ApartKept
    <3>6. k <= Len(window) /\ Byte(x) = window[Len(window) - k + 1]
      BY <3>1, <3>3 DEF HcReads
    <3> HIDE DEF x
    <3> QED
      BY <3>3, <3>5, <3>6
  <2> QED
    BY <2>2, <2>3
<1>8. HcReads(t, source, window)'
  BY <1>7 DEF HcReads
<1> QED
  BY <1>6, <1>8 DEF r

-----------------------------------------------------------------------------
(* A block begins.                                                         *)
LEMMA ReloadedRead ==
  ASSUME NEW s, Begins(s), NEW window
  PROVE  LET r == Reloaded(s)
         IN  /\ Begins(r) /\ r.end = s.end
             /\ HcReads(s, s.end, window) => HcReads(r, r.end, window)
             /\ r.dictCtx => r = s
<1> DEFINE n == Min({PrefixSize(s), W})
           t == LZ4_loadDictHC(s.end - n, n)
           r == Reloaded(s)
<1>0. /\ s \in HcStates /\ s.lowLimit <= s.dictLimit /\ s.prefixStart <= s.end /\ s.prefixStart # 0
      /\ s.end \in Nat /\ s.prefixStart \in Nat /\ PrefixSize(s) = s.end - s.prefixStart
  BY WindowNumbers DEF Begins, Ordered, HcStates, PrefixSize
<1>1. PICK k : k = n
  OBVIOUS
<1>2. k \in Nat /\ k <= s.end - s.prefixStart /\ k <= W
  <2>1. s.end - s.prefixStart \in Int /\ s.end - s.prefixStart >= 0
    BY <1>0
  <2> QED
    BY ONLY <1>0, <1>1, <2>1, WindowNumbers, MinIs
<1>3. PICK a : a = s.end - k
  OBVIOUS
<1>4. a \in Nat /\ a + k - Min({k, W}) > 0 /\ a + k = s.end /\ a = a + k - Min({k, W}) /\ a >= s.prefixStart
  <2>1. Min({k, W}) = k
    BY ONLY <1>2, WindowNumbers, MinIs
  <2> QED
    BY ONLY <1>0, <1>2, <1>3, <2>1
<1>5. CASE EndIndex(s) <= GB2
  BY <1>5 DEF Reloaded
<1>6. CASE ~(EndIndex(s) <= GB2)
  <2>1. r = LZ4_loadDictHC(a, k)
    BY <1>1, <1>3, <1>6 DEF Reloaded
  <2> HIDE DEF r, n, t
  <2>2. Loaded(r) /\ r.end = a + k /\ ~r.dictCtx
    BY <1>2, <1>4, <2>1, LoadDictLoaded
  <2>3. r.lowLimit = r.dictLimit /\ r.prefixStart = a + k - Min({k, W})
    BY <1>2, <1>4, <2>1, LoadWindow
  <2>4. Begins(r) /\ r \in HcStates
    BY <2>2 DEF Loaded, Begins, Ordered
  <2>5. r.end = s.end /\ r.prefixStart \in s.prefixStart .. s.end
    BY <1>0, <1>2, <1>4, <2>2, <2>3
  <2>6. HcReads(s, s.end, window) => HcReads(r, s.end, window)
    BY <1>0, <2>3, <2>4, <2>5, PrefixRead
  <2> QED
    BY <2>2, <2>4, <2>5, <2>6 DEF r
<1> QED
  BY <1>5, <1>6

LEMMA OverlapWindow ==
  ASSUME NEW s, Begins(s), s.lowLimit = s.dictLimit, NEW source \in Nat, NEW n \in Nat
  PROVE  LET r == HcWithoutOverlap(s, source, n) IN r.lowLimit = s.dictLimit /\ r.dictLimit = s.dictLimit
<1> DEFINE dictionaryEnd == s.dictStart + s.dictLimit - s.lowLimit
           gone == Min({source + n, dictionaryEnd}) - s.dictStart
           a == [s EXCEPT !.lowLimit = s.dictLimit, !.dictStart = s.prefixStart]
           r == HcWithoutOverlap(s, source, n)
<1>0. /\ s \in HcStates /\ s.dictStart \in Nat /\ s.dictLimit \in Nat
  BY DEF Begins, Ordered, HcStates
<1>1. dictionaryEnd = s.dictStart
  BY <1>0
<1>2. source + n > s.dictStart => gone = 0
  <2>1. source + n \in Nat
    OBVIOUS
  <2> QED
    BY ONLY <1>0, <1>1, <2>1, MinIs
<1>3. r = s \/ r = a
  <2>1. source + n > s.dictStart => s.dictLimit - (s.lowLimit + gone) < LZ4HC_HASHSIZE
    <3> HIDE DEF gone
    <3> QED
      BY ONLY <1>0, <1>2, s.lowLimit = s.dictLimit DEF LZ4HC_HASHSIZE
  <2> QED
    BY <2>1 DEF HcWithoutOverlap
<1>4. a.lowLimit = s.dictLimit /\ a.dictLimit = s.dictLimit
  BY <1>0 DEF HcStates
<1> HIDE DEF r, a
<1>5. r.lowLimit = s.dictLimit /\ r.dictLimit = s.dictLimit
  BY <1>3, <1>4
<1> QED
  BY <1>5 DEF r

LEMMA ContinuedRead ==
  ASSUME NEW s, Ordered(s), NEW source \in Nat \ {0}, NEW n \in Nat,
         NEW bytes, DOMAIN bytes = 1 .. n, mem' = With(mem, source, bytes),
         NEW window, s.prefixStart = NULL => s.end = NULL,
         s.dictCtx /\ s.prefixStart # NULL => s.lowLimit = s.dictLimit
  PROVE  LET r == Continued(s, source, n)
         IN  /\ (s.prefixStart # NULL => HcReads(s, s.end, window)) => HcReads(r, source, window)'
             /\ r.dictCtx => /\ s.dictCtx /\ r.lowLimit = r.dictLimit
                             /\ source - r.prefixStart = s.end - s.prefixStart
<1> USE WindowNumbers
<1> DEFINE begun  == IF s.prefixStart = NULL THEN LZ4HC_init_internal(s, source) ELSE s
           loaded == Reloaded(begun)
           ext    == LZ4HC_setExternalDict(loaded, source)
           joined == IF source # loaded.end THEN ext ELSE loaded
           r      == HcWithoutOverlap(joined, source, n)
<1>0. PICK held : held = (s.prefixStart # NULL => HcReads(s, s.end, window))
  OBVIOUS
<1>1. /\ Begins(begun) /\ (begun.dictCtx <=> s.dictCtx) /\ (held => HcReads(begun, begun.end, window))
      /\ begun.end - begun.prefixStart = s.end - s.prefixStart
      /\ begun.dictCtx => begun.lowLimit = begun.dictLimit
  <2>1. CASE s.prefixStart # NULL
    BY <1>0, <2>1 DEF Begins
  <2>2. CASE s.prefixStart = NULL
    <3> DEFINE i == LZ4HC_init_internal(s, source)
    <3>1. Begins(i) /\ i.prefixStart = source /\ i.end = source /\ i.dictCtx = s.dictCtx
      BY InitInternalOrdered
    <3>2. i.lowLimit = i.dictLimit /\ i.dictLimit \in Nat
      BY InitWindow
    <3>3. begun = i
      BY <2>2
    <3> HIDE DEF i, begun
    <3>4. HcReads(i, i.end, window)
      BY <3>1, <3>2, NothingRead
    <3>5. i.end - i.prefixStart = 0 /\ s.end - s.prefixStart = 0
      BY <2>2, <3>1
    <3> QED
      BY <3>1, <3>2, <3>3, <3>4, <3>5
  <2> QED
    BY <2>1, <2>2
<1> HIDE DEF begun
<1>2. /\ Begins(loaded) /\ (held => HcReads(loaded, loaded.end, window))
      /\ loaded.dictCtx => loaded = begun
  BY <1>1, ReloadedRead
<1> HIDE DEF loaded
<1>3. /\ loaded \in HcStates /\ loaded.prefixStart <= loaded.end /\ loaded.lowLimit <= loaded.dictLimit
  BY <1>2 DEF Begins, Ordered
<1>4. /\ Begins(joined) /\ joined.end = source /\ (held => HcReads(joined, source, window))
      /\ joined.dictCtx => joined = begun
  <2>1. CASE source = loaded.end
    BY <1>2, <2>1
  <2>2. CASE source # loaded.end
    <3>1. Begins(ext) /\ ext.prefixStart = source /\ ext.end = source /\ ~ext.dictCtx
      BY <1>2, ExternalOrdered
    <3>2. ext.lowLimit = loaded.dictLimit /\ ext.dictStart = loaded.prefixStart /\ ext.dictLimit = EndIndex(loaded)
      BY <1>2, ExternalWindow
    <3>3. joined = ext
      BY <2>2
    <3> HIDE DEF ext, joined
    <3>4. ext \in HcStates /\ source \in Nat
      BY <3>1 DEF Begins, Ordered
    <3>5. held =>
            \A k \in 1 .. DISTANCE_MAX :
              k <= PrefixSize(loaded) => k <= Len(window) /\ Byte(loaded.end - k) = window[Len(window) - k + 1]
      BY <1>2, <1>3, ReadsPrefix
    <3>6. held => HcReads(ext, source, window)
      BY <1>3, <3>1, <3>2, <3>4, <3>5, ExternalRead
    <3> QED
      BY <3>1, <3>3, <3>6
  <2> QED
    BY <2>1, <2>2
<1> HIDE DEF joined, ext
<1>5. held => HcReads(r, source, window)'
  BY <1>4, OverlapRead
<1>6. r.prefixStart = joined.prefixStart /\ r.dictCtx = joined.dictCtx
  <2>1. source \in Nat
    OBVIOUS
  <2> QED
    BY ONLY <1>4, <2>1, n \in Nat, OverlapOrdered
<1>7. ASSUME r.dictCtx
      PROVE  s.dictCtx /\ r.lowLimit = r.dictLimit /\ source - r.prefixStart = s.end - s.prefixStart
  <2>1. joined = begun /\ begun.dictCtx /\ s.dictCtx /\ joined.lowLimit = joined.dictLimit
    BY <1>1, <1>4, <1>6, <1>7
  <2>2. r.lowLimit = joined.dictLimit /\ r.dictLimit = joined.dictLimit
    <3>1. source \in Nat
      OBVIOUS
    <3> QED
      BY ONLY <1>4, <2>1, <3>1, n \in Nat, OverlapWindow
  <2> QED
    BY <1>1, <1>4, <1>6, <2>1, <2>2
<1>8. Continued(s, source, n) = r
  BY DEF Continued, joined, loaded, begun, ext
<1> HIDE DEF r
<1> QED
  BY <1>0, <1>5, <1>7, <1>8

LEMMA ReadsSame ==
  ASSUME NEW s, NEW r, r.prefixStart = s.prefixStart, r.dictStart = s.dictStart,
         r.dictLimit = s.dictLimit, r.lowLimit = s.lowLimit, NEW end, NEW window
  PROVE  /\ HcReads(s, end, window) => HcReads(r, end, window)
         /\ HcReads(s, end, window)' => HcReads(r, end, window)'
BY DEF HcReads, HcReach, HcAddress

LEMMA HeldSame ==
  ASSUME NEW s, NEW r, r.prefixStart = s.prefixStart, r.dictStart = s.dictStart,
         r.dictLimit = s.dictLimit, r.lowLimit = s.lowLimit, r.dictCtx <=> s.dictCtx,
         NEW d, NEW c, NEW end, NEW window
  PROVE  /\ HcHeld(s, d, c, end, window) => HcHeld(r, d, c, end, window)
         /\ HcHeld(s, d, c, end, window)' => HcHeld(r, d, c, end, window)'
<1>1. /\ HcAttached(s, d, end, window) => HcAttached(r, d, end, window)
      /\ HcAttached(s, d, end, window)' => HcAttached(r, d, end, window)'
  BY DEF HcAttached
<1> QED
  BY <1>1, ReadsSame DEF HcHeld

(* The dictionary that is attached is out of reach, or copied, or stays.   *)
LEMMA DispatchedRead ==
  ASSUME NEW s, Begins(s), NEW source \in Nat \ {0}, s.end = source, NEW n, NEW d, d = dictHc,
         s.dictCtx => Loaded(d), NEW c, NEW window, HcHeld(s, d, c, source, window)',
         NEW r, r = Dispatched(s, source, n)
  PROVE  HcHeld(r, d, c, source, window)' /\ (r.dictCtx => r = s)
<1> DEFINE a == [s EXCEPT !.dictCtx = FALSE]
           b == LZ4HC_setExternalDict(d, source)
<1>0. /\ s \in HcStates /\ s.end = source /\ s.prefixStart \in Nat /\ s.prefixStart <= source
      /\ s.dictLimit \in Nat /\ s.lowLimit \in Nat /\ s.lowLimit <= s.dictLimit /\ s.prefixStart # NULL
  BY DEF Begins, Ordered, HcStates
<1>1. HcHeld(a, d, c, source, window)' /\ ~a.dictCtx
  <2>1. /\ a.prefixStart = s.prefixStart /\ a.dictStart = s.dictStart
        /\ a.dictLimit = s.dictLimit /\ a.lowLimit = s.lowLimit /\ ~a.dictCtx
    BY <1>0 DEF HcStates
  <2> HIDE DEF a
  <2>2. ~c => HcReads(a, source, window)'
    BY <1>0, <2>1, ReadsSame DEF HcHeld
  <2> QED
    BY <2>1, <2>2 DEF HcHeld, HcAttached
<1>2. ASSUME s.dictCtx, PrefixSize(s) + s.dictLimit - s.lowLimit = 0
      PROVE  HcHeld(b, d, c, source, window)' /\ ~b.dictCtx
  <2>1. Begins(d) /\ d \in HcStates /\ d.prefixStart <= d.end /\ d.lowLimit <= d.dictLimit
    BY <1>2 DEF Loaded, Begins, Ordered
  <2>2. /\ Begins(b) /\ b.prefixStart = source /\ ~b.dictCtx
        /\ b.lowLimit = d.dictLimit /\ b.dictStart = d.prefixStart /\ b.dictLimit = EndIndex(d)
    BY <2>1, ExternalOrdered, ExternalWindow
  <2>3. b \in HcStates
    BY <2>2 DEF Begins, Ordered
  <2> HIDE DEF b
  <2>4. source - s.prefixStart = 0
    BY <1>0, <1>2 DEF PrefixSize
  <2> SUFFICES ASSUME ~c
               PROVE  HcReads(b, source, window)' /\ HcAttached(b, d, source, window)'
    BY <2>2 DEF HcHeld
  <2>5. \A k \in 1 .. DISTANCE_MAX :
          k <= PrefixSize(d) => k <= Len(window) /\ Byte(d.end - k)' = window[Len(window) - k + 1]
    <3> SUFFICES ASSUME NEW k \in 1 .. DISTANCE_MAX, k <= PrefixSize(d)
                 PROVE  k <= Len(window) /\ Byte(d.end - k)' = window[Len(window) - k + 1]
      OBVIOUS
    <3>1. /\ k \in Nat \ {0} /\ PrefixSize(d) \in Int /\ d.end \in Nat
      BY <2>1, Distances DEF HcStates, PrefixSize
    <3>2. 0 < k /\ k <= 0 + PrefixSize(d) /\ d.end - (k - 0) = d.end - k
      BY <3>1
    <3> QED
      BY <1>2, <2>4, <3>2 DEF HcHeld, HcAttached
  <2>6. HcReads(b, source, window)'
    <3>1. \A k \in 1 .. DISTANCE_MAX :
            k <= HcReach(b, source) => k <= PrefixSize(d) /\ HcAddress(b, source, k) = d.end - k
      BY <2>1, <2>2, <2>3, ExternalAddress
    <3> QED
      BY <2>5, <3>1 DEF HcReads
  <2> QED
    BY <2>2, <2>6 DEF HcAttached
<1>3. \/ r = s \/ r = a
      \/ r = b /\ s.dictCtx /\ PrefixSize(s) + s.dictLimit - s.lowLimit = 0
  BY DEF Dispatched
<1> HIDE DEF a, b
<1> QED
  BY <1>1, <1>2, <1>3

LEMMA CompressReads ==
  ASSUME NEW s, Begins(s), EndIndex(s) <= GB2, NEW source \in Nat \ {0}, s.end = source, NEW n \in Nat,
         NEW limit, NEW d, d = dictHc, s.dictCtx => Loaded(d), s.dictCtx => s.lowLimit = s.dictLimit,
         NEW c, cut' = c, NEW window, HcHeld(s, d, c, source, window)', history' = window,
         CompressHc(s, source, n, limit)
  PROVE  /\ HcHeld(hc, dictHc, cut, hcCall.source, history)'
         /\ hcCall'.source = source /\ dictHc' = d /\ (hc'.dictCtx => s.dictCtx) /\ hc'.prefixStart # NULL
         /\ hc'.dictCtx => hc'.lowLimit = hc'.dictLimit
<1> USE WindowNumbers
<1>4. PICK f : f = Dispatched(s, source, n)
  OBVIOUS
<1>1. /\ Begins(f) /\ (f.dictCtx => s.dictCtx)
  BY <1>4, DispatchedBegins
<1>3. /\ hc' = [f EXCEPT !.end = IF limit = "refused" THEN @ ELSE @ + n]
      /\ hcCall' = [source |-> source, n |-> n, limit |-> limit] /\ dictHc' = dictHc
  BY <1>4 DEF CompressHc
<1>5. f \in HcStates /\ f.prefixStart # NULL
  BY <1>1 DEF Begins, Ordered
<1>6. PICK h : h = hc'
  OBVIOUS
<1>7. /\ h.prefixStart = f.prefixStart /\ h.dictStart = f.dictStart /\ h.dictLimit = f.dictLimit
      /\ h.lowLimit = f.lowLimit /\ (h.dictCtx <=> f.dictCtx)
  BY <1>3, <1>5, <1>6 DEF HcStates
<1>8. HcHeld(f, d, c, source, window)' /\ (f.dictCtx => f = s)
  BY <1>4, DispatchedRead
<1>9. HcHeld(h, d, c, source, window)'
  BY <1>7, <1>8, HeldSame
<1>10. hcCall'.source = source
  BY <1>3
<1>11. h.dictCtx => h.lowLimit = h.dictLimit
  BY <1>7, <1>8
<1> QED
  BY <1>1, <1>3, <1>4, <1>5, <1>6, <1>7, <1>9, <1>10, <1>11

LEMMA HcContinueReads ==
  ASSUME HcInv, HcWindow, NEW n \in Nat, NEW limit \in {"limitedOutput", "fillOutput", "refused"},
         HcContinue(n, limit)
  PROVE  HcWindow'
<1> USE WindowNumbers
<1>1. PICK bytes, source, d, w, s, c :
        /\ bytes = Block(n) /\ source = Place(n) /\ d = dictHc /\ w = history /\ s = Continued(hc, source, n)
        /\ c = (cut /\ (hc.dictCtx => s.dictCtx))
  OBVIOUS
<1>2. Len(Block(n)) = n /\ DOMAIN bytes = 1 .. n
  BY <1>1 DEF Block
<1>3. /\ HcIdle /\ status = "open" /\ mem' = With(mem, source, bytes) /\ at' = source + n
      /\ history' = w /\ status' = status /\ CompressHc(s, source, n, limit) /\ cut' = c
  BY <1>1, <1>2 DEF HcContinue, Written
<1>4. at \in Nat \ {0} /\ source \in Nat \ {0} /\ source >= BUF
  <2>1. at \in Nat \ {0} /\ layout \in {"line", "ring", "two", "one"} /\ at >= BUF
    BY <1>3 DEF HcInv, HcWindow
  <2>2. Place(n) >= BUF
    BY <2>1, Places, UserAssumption DEF Place, SECOND
  <2> QED
    BY <1>1, <2>1, <2>2, PlaceIs
<1>5. PICK h : h = hc
  OBVIOUS
<1>6. /\ Ordered(h) /\ (h.dictCtx => Loaded(d))
      /\ h.prefixStart # NULL /\ (cut => h.dictCtx) => HcReads(h, h.end, w)
      /\ h.prefixStart = NULL => h.end = NULL
      /\ (~cut => HcAttached(h, d, h.end, w)) /\ (h.dictCtx => d.end <= DICT + Len(Dictionary))
  BY <1>1, <1>3, <1>5 DEF HcInv, HcWindow, HcHeld
<1>7. s = Continued(h, source, n) /\ (h.dictCtx /\ h.prefixStart # NULL => h.lowLimit = h.dictLimit)
  BY <1>1, <1>5 DEF HcWindow
<1>8. Begins(s) /\ EndIndex(s) <= GB2 /\ s.end = source /\ (s.dictCtx => h.dictCtx)
  BY <1>4, <1>6, <1>7, ContinuedBegins
<1>9. /\ (h.prefixStart # NULL => HcReads(h, h.end, w)) => HcReads(s, source, w)'
      /\ s.dictCtx => /\ h.dictCtx /\ s.lowLimit = s.dictLimit
                      /\ source - s.prefixStart = h.end - h.prefixStart
  BY <1>2, <1>3, <1>4, <1>6, <1>7, ContinuedRead
<1>a. (c => s.dictCtx) => HcReads(s, source, w)'
  <2>1. (c => s.dictCtx) => (cut => h.dictCtx)
    BY <1>1, <1>5, <1>8
  <2> QED
    BY <1>6, <1>9, <2>1
<1>10. ~c => HcAttached(s, d, source, w)'
  <2> SUFFICES ASSUME ~c, s.dictCtx
               PROVE  HcAttached(s, d, source, w)'
    BY DEF HcAttached
  <2>0. HcAttached(h, d, h.end, w)
    BY <1>1, <1>6
  <2>1. PICK p : p = h.end - h.prefixStart
    OBVIOUS
  <2>2. p \in Int /\ source - s.prefixStart = p
    BY <1>6, <1>9, <2>1 DEF Ordered, HcStates
  <2>3. ASSUME NEW k \in 1 .. DISTANCE_MAX, p < k
        PROVE  Byte(d.end - (k - p))' = Byte(d.end - (k - p))
    <3>1. d.end \in Nat /\ d.end <= DICT + Len(Dictionary)
      BY <1>6, <1>9 DEF Loaded, Begins, Ordered, HcStates
    <3>2. DICT + Len(Dictionary) \in Nat /\ DICT + Len(Dictionary) < SAFE /\ SAFE < BUF /\ SAFE \in Nat /\ BUF \in Nat
      BY Places, UserAssumption, LenProperties DEF DICT, SAFE
    <3>3. k \in Nat
      BY Distances
    <3>4. d.end - (k - p) \in Int /\ d.end - (k - p) < source
      BY ONLY <1>4, <2>2, <2>3, <3>1, <3>2, <3>3
    <3> QED
      BY <1>2, <1>3, <1>4, <3>4, ApartKept
  <2>4. ASSUME NEW k \in 1 .. DISTANCE_MAX, p < k, k <= p + PrefixSize(d)
        PROVE  k <= Len(w) /\ Byte(d.end - (k - p)) = w[Len(w) - k + 1]
    BY <1>9, <2>0, <2>1, <2>4 DEF HcAttached
  <2> QED
    BY <2>2, <2>3, <2>4 DEF HcAttached
<1>11. (s.dictCtx => Loaded(d)) /\ (s.dictCtx => s.lowLimit = s.dictLimit)
  BY <1>6, <1>9
<1>b. HcHeld(s, d, c, source, w)'
  BY <1>a, <1>10 DEF HcHeld
<1>12. /\ HcHeld(hc, dictHc, cut, hcCall.source, history)'
       /\ hcCall'.source = source /\ dictHc' = d /\ (hc'.dictCtx => s.dictCtx) /\ hc'.prefixStart # NULL
       /\ hc'.dictCtx => hc'.lowLimit = hc'.dictLimit
  BY <1>1, <1>3, <1>4, <1>8, <1>11, <1>b, CompressReads
<1>13. ~HcIdle'
  BY <1>4, <1>12 DEF HcIdle, NoHcCall
<1>14. DOMAIN mem' = 1 .. TOP
  BY <1>3 DEF HcWindow, With
<1>15. at' >= BUF
  BY <1>3, <1>4, Places
<1>16. hc'.dictCtx => dictHc'.end <= DICT + Len(Dictionary)
  BY <1>6, <1>8, <1>12
<1> QED
  BY <1>12, <1>13, <1>14, <1>15, <1>16 DEF HcWindow

LEMMA HcExtStateReads ==
  ASSUME HcInv, HcWindow, NEW n \in Nat, NEW limit \in {"limitedOutput", "fillOutput", "refused"},
         HcExtState(n, limit)
  PROVE  HcWindow'
<1> USE WindowNumbers
<1>1. PICK t \in {LZ4_resetStreamHC_fast(hc), LZ4_initStreamHC} :
        CompressHc(LZ4HC_init_internal(t, BUF), BUF, n, limit)
  BY DEF HcExtState
<1>2. Ordered(t) /\ ~t.dictCtx
  BY <1>1, ResetOrdered, InitStreamOrdered DEF HcInv
<1>3. PICK s, d, w : s = LZ4HC_init_internal(t, BUF) /\ d = dictHc /\ w = history'
  OBVIOUS
<1>4. /\ Begins(s) /\ EndIndex(s) <= GB1 + W /\ s.end = BUF /\ s.prefixStart = BUF /\ ~s.dictCtx
      /\ BUF \in Nat \ {0} /\ s.lowLimit = s.dictLimit /\ s.dictLimit \in Nat
  BY <1>2, <1>3, Places, InitInternalOrdered, InitWindow
<1>5. EndIndex(s) <= GB2
  BY <1>4 DEF Begins, Ordered, HcStates, EndIndex, PrefixSize
<1>6. HcHeld(s, d, FALSE, BUF, w)'
  <2>1. HcReach(s, BUF) = 0
    BY <1>4 DEF HcReach
  <2>2. \A k \in 1 .. DISTANCE_MAX : ~(k <= 0)
    BY Distances
  <2>3. HcReads(s, BUF, w)' /\ HcAttached(s, d, BUF, w)'
    BY <1>4, <2>1, <2>2 DEF HcReads, HcAttached
  <2> QED
    BY <2>3 DEF HcHeld
<1>7. /\ HcHeld(hc, dictHc, cut, hcCall.source, history)'
      /\ hcCall'.source = BUF /\ dictHc' = d /\ (hc'.dictCtx => s.dictCtx) /\ hc'.prefixStart # NULL
  <2>1. CompressHc(s, BUF, n, limit) /\ cut' = FALSE
    BY <1>1, <1>3 DEF HcExtState
  <2> QED
    BY <1>3, <1>4, <1>5, <1>6, <2>1, CompressReads
<1>8. ~HcIdle' /\ status' = "closed"
  BY <1>4, <1>7 DEF HcIdle, NoHcCall, HcExtState, Single
<1>9. DOMAIN mem' = 1 .. TOP
  BY DEF HcExtState, Single, HcWindow, With
<1> QED
  BY <1>4, <1>7, <1>8, <1>9 DEF HcWindow

(* The decoder has a word more, and no more than it can refer to.          *)
LEMMA LaterWindow ==
  ASSUME NEW w, IsSequence(w), NEW u, IsSequence(u), NEW v, v = Recent(w \o u),
         NEW k \in 1 .. DISTANCE_MAX, NEW n, n = Len(u)
  PROVE  /\ k <= n => k <= Len(v) /\ v[Len(v) - k + 1] = u[n - k + 1]
         /\ n < k /\ k - n <= Len(w) =>
              k <= Len(v) /\ v[Len(v) - k + 1] = w[Len(w) - (k - n) + 1]
<1>1. PICK S, T : w \in Seq(S) /\ u \in Seq(T)
  BY DEF IsSequence
<1>2. PICK U : U = S \cup T
  OBVIOUS
<1>3. w \in Seq(U) /\ u \in Seq(U) /\ Len(w) \in Nat /\ Len(u) \in Nat
  <2>1. Len(w) \in Nat /\ w \in [1 .. Len(w) -> S] /\ Len(u) \in Nat /\ u \in [1 .. Len(u) -> T]
    BY <1>1, LenProperties
  <2>2. w \in [1 .. Len(w) -> U] /\ u \in [1 .. Len(u) -> U]
    BY <1>2, <2>1
  <2> QED
    BY <2>1, <2>2
<1>4. PICK j : j = w \o u
  OBVIOUS
<1>5. /\ j \in Seq(U) /\ Len(j) = Len(w) + Len(u)
      /\ \A i \in 1 .. Len(w) + Len(u) : j[i] = IF i <= Len(w) THEN w[i] ELSE u[i - Len(w)]
  BY <1>3, <1>4, ConcatProperties
<1>6. /\ Len(v) = IF Len(j) <= DISTANCE_MAX THEN Len(j) ELSE DISTANCE_MAX
      /\ \A i \in 1 .. Len(v) : v[Len(v) - i + 1] = j[Len(j) - i + 1]
  BY <1>4, <1>5, RecentIs
<1>7. k \in Nat \ {0} /\ k <= DISTANCE_MAX /\ DISTANCE_MAX \in Nat
  BY Distances
<1>8. ASSUME k <= Len(w) + Len(u)
      PROVE  k <= Len(v) /\ v[Len(v) - k + 1] = j[Len(j) - k + 1]
  BY <1>3, <1>5, <1>6, <1>7, <1>8
<1>9. ASSUME k <= Len(u)
      PROVE  k <= Len(v) /\ v[Len(v) - k + 1] = u[Len(u) - k + 1]
  <2>1. PICK i : i = Len(j) - k + 1
    OBVIOUS
  <2>2. i \in 1 .. Len(w) + Len(u) /\ ~(i <= Len(w)) /\ i - Len(w) = Len(u) - k + 1 /\ k <= Len(w) + Len(u)
    BY <1>3, <1>5, <1>7, <1>9, <2>1
  <2>3. j[i] = u[Len(u) - k + 1]
    BY <1>5, <2>2
  <2> QED
    BY <1>8, <2>1, <2>2, <2>3
<1>10. ASSUME Len(u) < k, k - Len(u) <= Len(w)
       PROVE  k <= Len(v) /\ v[Len(v) - k + 1] = w[Len(w) - (k - Len(u)) + 1]
  <2>1. PICK i : i = Len(j) - k + 1
    OBVIOUS
  <2>2. i \in 1 .. Len(w) + Len(u) /\ i <= Len(w) /\ i = Len(w) - (k - Len(u)) + 1 /\ k <= Len(w) + Len(u)
    BY <1>3, <1>5, <1>7, <1>10, <2>1
  <2>3. j[i] = w[Len(w) - (k - Len(u)) + 1]
    BY <1>5, <2>2
  <2> QED
    BY <1>8, <2>1, <2>2, <2>3
<1> QED
  BY <1>9, <1>10

(* The block is part of the prefix.                                        *)
LEMMA BlockRead ==
  ASSUME NEW s \in HcStates, s.lowLimit <= s.dictLimit, NEW d \in HcStates, d.prefixStart <= d.end,
         NEW source \in Nat, s.prefixStart <= source, s.prefixStart # NULL, NEW n \in Nat, NEW c,
         NEW w, IsSequence(w), NEW v, v = Recent(w \o Word(source, n)), HcHeld(s, d, c, source, w)
  PROVE  HcHeld(s, d, c, source + n, v)
<1>1. PICK u : u = Word(source, n)
  OBVIOUS
<1>2. /\ IsSequence(u) /\ Len(u) = n /\ \A i \in 1 .. n : u[i] = Byte(source + i - 1)
  <2>1. Word(source, n) = [i \in 1 .. n |-> Byte(source + i - 1)]
    BY DEF Word
  <2>2. IsSequence(u)
    BY <1>1, WordIsSequence
  <2>3. DOMAIN u = 1 .. n /\ Len(u) \in Nat /\ DOMAIN u = 1 .. Len(u)
    BY <1>1, <2>1, <2>2, LenProperties DEF IsSequence
  <2> QED
    BY <1>1, <2>1, <2>2, <2>3
<1>a. v = Recent(w \o u) /\ IsSequence(w)
  BY <1>1
<1>3. PICK p : p = source - s.prefixStart
  OBVIOUS
<1>4. /\ p \in Nat /\ (source + n) - s.prefixStart = p + n /\ DISTANCE_MAX \in Nat
      /\ s.dictLimit - s.lowLimit \in Nat
  BY <1>3, Distances DEF HcStates
<1>5. ASSUME NEW k \in 1 .. DISTANCE_MAX, k <= n
      PROVE  k <= Len(v) /\ Byte((source + n) - k) = v[Len(v) - k + 1]
  <2>1. k <= Len(v) /\ v[Len(v) - k + 1] = u[n - k + 1]
    <3>1. IsSequence(u) /\ n = Len(u) /\ k <= n
      BY <1>2, <1>5
    <3> QED
      BY ONLY <1>a, <3>1, LaterWindow, k \in 1 .. DISTANCE_MAX
  <2>2. n - k + 1 \in 1 .. n /\ source + (n - k + 1) - 1 = (source + n) - k
    BY <1>4, <1>5
  <2> QED
    BY <1>2, <2>1, <2>2
<1>6. ASSUME NEW k \in 1 .. DISTANCE_MAX, n < k, k - n <= Len(w)
      PROVE  k <= Len(v) /\ v[Len(v) - k + 1] = w[Len(w) - (k - n) + 1]
  <2>1. IsSequence(u) /\ n = Len(u) /\ n < k /\ k - n <= Len(w)
    BY <1>2, <1>6
  <2> QED
    BY ONLY <1>a, <2>1, LaterWindow, k \in 1 .. DISTANCE_MAX
<1>7. HcReads(s, source, w) => HcReads(s, source + n, v)
  <2> SUFFICES ASSUME HcReads(s, source, w), NEW k \in 1 .. DISTANCE_MAX, k <= HcReach(s, source + n)
               PROVE  k <= Len(v) /\ Byte(HcAddress(s, source + n, k)) = v[Len(v) - k + 1]
    BY DEF HcReads
  <2>1. k \in Nat \ {0}
    BY <1>4
  <2>2. CASE k <= n
    <3>1. HcAddress(s, source + n, k) = (source + n) - k
      BY <1>4, <2>1, <2>2 DEF HcAddress
    <3> QED
      BY <1>5, <2>2, <3>1
  <2>3. CASE n < k
    <3>1. k - n \in 1 .. DISTANCE_MAX /\ k - n <= HcReach(s, source)
      BY <1>3, <1>4, <2>1, <2>3 DEF HcReach
    <3>2. HcAddress(s, source + n, k) = HcAddress(s, source, k - n)
      <4>1. k <= p + n <=> k - n <= p
        BY <1>4, <2>1
      <4>2. (source + n) - k = source - (k - n) /\ k - (p + n) = (k - n) - p
        BY <1>4, <2>1
      <4> QED
        BY <1>3, <1>4, <4>1, <4>2 DEF HcAddress
    <3>3. k - n <= Len(w) /\ Byte(HcAddress(s, source, k - n)) = w[Len(w) - (k - n) + 1]
      BY <3>1 DEF HcReads
    <3> QED
      BY <1>6, <2>3, <3>2, <3>3
  <2> QED
    BY <2>1, <2>2, <2>3
<1>8. HcAttached(s, d, source, w) => HcAttached(s, d, source + n, v)
  <2> SUFFICES ASSUME HcAttached(s, d, source, w), s.dictCtx,
                      NEW k \in 1 .. DISTANCE_MAX, p + n < k, k <= (p + n) + PrefixSize(d)
               PROVE  k <= Len(v) /\ Byte(d.end - (k - (p + n))) = v[Len(v) - k + 1]
    BY <1>4 DEF HcAttached
  <2>1. k \in Nat \ {0} /\ PrefixSize(d) \in Nat
    BY <1>4 DEF HcStates, PrefixSize
  <2>2. /\ k - n \in 1 .. DISTANCE_MAX /\ p < k - n /\ k - n <= p + PrefixSize(d) /\ n < k
        /\ (k - n) - p = k - (p + n)
    BY <1>4, <2>1
  <2>3. k - n <= Len(w) /\ Byte(d.end - ((k - n) - p)) = w[Len(w) - (k - n) + 1]
    BY <1>3, <2>2 DEF HcAttached
  <2> QED
    BY <1>6, <2>2, <2>3
<1> QED
  BY <1>7, <1>8 DEF HcHeld

LEMMA HcReturnedReads ==
  ASSUME HcInv, HcWindow, IsSequence(history), ~GOES_ON, HcReturned
  PROVE  HcWindow'
<1> USE WindowNumbers
<1>1. hcCall' = NoHcCall /\ dictHc' = dictHc /\ cut' = cut /\ ~HcIdle /\ HcIdle' /\ mem' = mem
  BY DEF HcReturned, HcIdle, Failed, ReadOnly
<1>2. PICK h, d, c, w, source, n :
        h = hc /\ d = dictHc /\ c = cut /\ w = history /\ source = hcCall.source /\ n = hcCall.n
  OBVIOUS
<1>3. /\ Begins(h) /\ Ordered(d) /\ source \in Nat /\ n \in Nat /\ h.prefixStart <= source
      /\ hcCall.limit # "refused" => h.end = source + n
      /\ HcHeld(h, d, c, source, w) /\ (h.dictCtx => d.end <= DICT + Len(Dictionary))
      /\ h.dictCtx /\ h.prefixStart # NULL => h.lowLimit = h.dictLimit
      /\ status = "open" => at = source + n /\ at >= BUF
  BY <1>1, <1>2 DEF HcInv, HcWindow, HcCalls, Counted
<1>4. PICK g : g = hc'
  OBVIOUS
<1>5. /\ g.prefixStart = h.prefixStart /\ g.end = h.end /\ g.dictStart = h.dictStart
      /\ g.dictLimit = h.dictLimit /\ g.lowLimit = h.lowLimit /\ (g.dictCtx <=> h.dictCtx)
  <2>1. ASSUME NEW s, s = hc \/ \E ip0 \in hcCall.source .. Max({hcCall.source, hc.end - MFLIMIT}) :
                                  hcCall.limit # "refused" /\ s = LZ4HC_Insert(hc, ip0)
        PROVE  /\ s.prefixStart = h.prefixStart /\ s.end = h.end /\ s.dictStart = h.dictStart
               /\ s.dictLimit = h.dictLimit /\ s.lowLimit = h.lowLimit /\ (s.dictCtx <=> h.dictCtx)
               /\ s \in HcStates
    <3>1. CASE s = hc
      BY <1>2, <1>3, <3>1 DEF Begins, Ordered
    <3>2. ASSUME NEW ip0 \in hcCall.source .. Max({hcCall.source, hc.end - MFLIMIT}),
                 hcCall.limit # "refused", s = LZ4HC_Insert(hc, ip0)
          PROVE  /\ s.prefixStart = h.prefixStart /\ s.end = h.end /\ s.dictStart = h.dictStart
                 /\ s.dictLimit = h.dictLimit /\ s.lowLimit = h.lowLimit /\ (s.dictCtx <=> h.dictCtx)
                 /\ s \in HcStates
      <4>1. ip0 \in h.prefixStart .. h.end
        <5>1. h.end = source + n /\ h.prefixStart \in Nat /\ MFLIMIT \in Nat
          BY <1>3, <3>2, Numbers DEF Begins, Ordered, HcStates
        <5>2. ip0 \in source .. Max({source, h.end - MFLIMIT})
          BY <1>2, <3>2
        <5>3. h.end - MFLIMIT \in Int
          BY <1>3, <5>1
        <5>4. Max({source, h.end - MFLIMIT}) = IF source >= h.end - MFLIMIT THEN source ELSE h.end - MFLIMIT
          BY <1>3, <5>3, MaxIs
        <5> QED
          BY <1>3, <5>1, <5>2, <5>3, <5>4
      <4>2. s = LZ4HC_Insert(h, ip0)
        BY <1>2, <3>2
      <4>3. Begins(s)
        BY ONLY <1>3, <4>1, <4>2, InsertOrdered
      <4>4. /\ s.prefixStart = h.prefixStart /\ s.end = h.end /\ s.dictStart = h.dictStart
            /\ s.dictLimit = h.dictLimit /\ s.lowLimit = h.lowLimit /\ s.dictCtx = h.dictCtx
        BY ONLY <1>3, <4>1, <4>2, InsertOrdered
      <4> QED
        BY <4>3, <4>4 DEF Begins, Ordered
    <3> QED
      BY <2>1, <3>1, <3>2
  <2>2. PICK s :
               /\ \/ s = hc
                  \/ \E ip0 \in hcCall.source .. Max({hcCall.source, hc.end - MFLIMIT}) :
                       hcCall.limit # "refused" /\ s = LZ4HC_Insert(hc, ip0)
               /\ hc' = s \/ hc' = [s EXCEPT !.dirty = TRUE]
    BY DEF HcReturned
  <2>3. /\ s.prefixStart = h.prefixStart /\ s.end = h.end /\ s.dictStart = h.dictStart
        /\ s.dictLimit = h.dictLimit /\ s.lowLimit = h.lowLimit /\ (s.dictCtx <=> h.dictCtx)
        /\ s \in HcStates
    BY <2>1, <2>2
  <2>4. g = s \/ g = [s EXCEPT !.dirty = TRUE]
    BY <1>4, <2>2
  <2> QED
    BY ONLY <2>3, <2>4 DEF HcStates
<1>6. /\ DOMAIN mem' = 1 .. TOP /\ (hc'.dictCtx => dictHc'.end <= DICT + Len(Dictionary))
      /\ hc'.prefixStart # NULL
      /\ hc'.dictCtx /\ hc'.prefixStart # NULL => hc'.lowLimit = hc'.dictLimit
  BY <1>1, <1>2, <1>3, <1>4, <1>5 DEF HcWindow, Begins
<1>7. CASE status' # "open"
  BY <1>1, <1>6, <1>7 DEF HcWindow
<1>8. CASE status' = "open"
  <2>1. /\ status = "open" /\ hcCall.limit # "refused" /\ at' = at
        /\ history' = Recent(history \o Word(hcCall.source, hcCall.n))
    <3>1. ~Failed
      BY <1>8 DEF Failed
    <3>2. PICK m \in IF hcCall.limit = "fillOutput" THEN 0 .. hcCall.n ELSE {hcCall.n} : ReadOnly(m)
      BY <3>1 DEF HcReturned
    <3>3. hcCall.limit # "refused"
      BY <3>1 DEF HcReturned
    <3>4. m \in Nat /\ m <= hcCall.n /\ ~(m < hcCall.n)
      <4>1. m \in 0 .. hcCall.n /\ hcCall.n \in Nat
        BY <1>2, <1>3, <3>2
      <4> QED
        BY <1>8, <3>2, <4>1 DEF ReadOnly
    <3>5. m = hcCall.n
      BY <1>2, <1>3, <3>4
    <3>6. hcCall.n - m = 0
      BY <1>2, <1>3, <3>5
    <3>7. /\ status' = status /\ at' = at - 0
          /\ history' = (IF status = "open" THEN Recent(history \o Word(hcCall.source, m)) ELSE history)
      BY <3>2, <3>4, <3>6 DEF ReadOnly
    <3> QED
      BY <1>2, <1>3, <1>8, <3>3, <3>5, <3>7, Places
  <2>2. PICK v : v = Recent(w \o Word(source, n))
    OBVIOUS
  <2>3. /\ h \in HcStates /\ h.lowLimit <= h.dictLimit /\ d \in HcStates /\ d.prefixStart <= d.end
    BY <1>3 DEF Begins, Ordered
  <2>a. h.prefixStart # NULL
    BY <1>3 DEF Begins
  <2>4. HcHeld(h, d, c, source + n, v)
    BY <1>2, <1>3, <2>2, <2>3, <2>a, BlockRead
  <2>5. HcHeld(g, d, c, source + n, v)
    BY <1>5, <2>4, HeldSame
  <2>6. g.end = source + n /\ history' = v /\ dictHc' = d /\ cut' = c
    BY <1>1, <1>2, <1>3, <1>5, <2>1, <2>2
  <2>7. HcHeld(g, d, c, g.end, v)'
    BY <1>1, <2>5, <2>6 DEF HcHeld, HcReads, HcAttached, Byte
  <2>8. HcHeld(hc, dictHc, cut, hc.end, history)'
    BY <1>4, <2>6, <2>7
  <2>9. at' >= BUF
    BY <1>3, <2>1
  <2> QED
    BY <1>1, <1>6, <2>8, <2>9 DEF HcWindow
<1> QED
  BY <1>7, <1>8

(* A stream is begun.                                                      *)
LEMMA HcLoadedReads ==
  ASSUME NEW n \in 0 .. Len(Dictionary), NEW d, d = LZ4_loadDictHC(DICT, n),
         NEW w, w = Recent(Word(DICT, n))
  PROVE  /\ \A k \in 1 .. DISTANCE_MAX :
              k <= PrefixSize(d) => k <= Len(w) /\ Byte(d.end - k) = w[Len(w) - k + 1]
         /\ HcReads(d, d.end, w) /\ d.end <= DICT + Len(Dictionary) /\ Loaded(d) /\ ~d.dictCtx
         /\ d \in HcStates /\ d.prefixStart # NULL
<1> USE WindowNumbers
<1>1. n \in Nat /\ DICT \in Nat \ {0} /\ Len(Dictionary) \in Nat /\ n <= Len(Dictionary)
  BY Places, UserAssumption, LenProperties
<1>2. PICK kept : kept = Min({n, W})
  OBVIOUS
<1>3. kept \in Nat /\ kept <= n /\ kept <= W /\ DICT + n - Min({n, W}) > 0
  BY <1>1, <1>2, MinIs
<1>4. /\ Loaded(d) /\ d.end = DICT + n /\ ~d.dictCtx
      /\ d.lowLimit = d.dictLimit /\ d.prefixStart = DICT + n - kept
  BY <1>1, <1>2, <1>3, LoadDictLoaded, LoadWindow
<1>5. d \in HcStates /\ d.prefixStart # NULL /\ PrefixSize(d) = kept /\ d.dictLimit \in Nat
  BY <1>1, <1>3, <1>4 DEF Loaded, Begins, Ordered, PrefixSize, HcStates
<1>6. PICK u, e : u = Word(DICT, n) /\ e = <<>>
  OBVIOUS
<1>7. /\ IsSequence(u) /\ Len(u) = n /\ \A i \in 1 .. n : u[i] = Byte(DICT + i - 1)
  <2>1. Word(DICT, n) = [i \in 1 .. n |-> Byte(DICT + i - 1)]
    BY DEF Word
  <2>2. IsSequence(u)
    BY <1>1, <1>6, WordIsSequence
  <2>3. DOMAIN u = 1 .. n /\ Len(u) \in Nat /\ DOMAIN u = 1 .. Len(u)
    BY <1>6, <2>1, <2>2, LenProperties DEF IsSequence
  <2> QED
    BY <1>1, <1>6, <2>1, <2>2, <2>3
<1>8. ASSUME NEW k \in 1 .. DISTANCE_MAX, k <= PrefixSize(d)
      PROVE  k <= Len(w) /\ Byte(d.end - k) = w[Len(w) - k + 1]
  <2>1. w = Recent(u) /\ k \in Nat \ {0} /\ k <= n
    BY <1>1, <1>3, <1>5, <1>6, <1>8, Distances
  <2>2. k <= Len(w) /\ w[Len(w) - k + 1] = u[n - k + 1]
    <3>1. PICK S : u \in Seq(S)
      BY <1>7 DEF IsSequence
    <3>2. /\ Len(w) = IF Len(u) <= DISTANCE_MAX THEN Len(u) ELSE DISTANCE_MAX
          /\ \A i \in 1 .. Len(w) : w[Len(w) - i + 1] = u[Len(u) - i + 1]
      BY <2>1, <3>1, RecentIs
    <3>3. k \in 1 .. Len(w) /\ k <= Len(w)
      BY <1>1, <1>7, <2>1, <3>2, Distances
    <3> QED
      BY <1>7, <3>2, <3>3
  <2>3. n - k + 1 \in 1 .. n /\ DICT + (n - k + 1) - 1 = d.end - k
    BY <1>1, <1>4, <2>1
  <2> QED
    BY <1>7, <2>2, <2>3
<1>9. HcReads(d, d.end, w)
  <2> SUFFICES ASSUME NEW k \in 1 .. DISTANCE_MAX, k <= HcReach(d, d.end)
               PROVE  k <= Len(w) /\ Byte(HcAddress(d, d.end, k)) = w[Len(w) - k + 1]
    BY DEF HcReads
  <2>1. k \in Nat /\ d.end \in Nat /\ d.prefixStart \in Nat
    BY <1>5, Distances DEF HcStates
  <2>2. k <= PrefixSize(d)
    BY <1>4, <1>5, <2>1 DEF HcReach, PrefixSize
  <2>3. HcAddress(d, d.end, k) = d.end - k
    BY <2>2 DEF HcAddress, PrefixSize
  <2> QED
    BY <1>8, <2>2, <2>3
<1>10. d.end <= DICT + Len(Dictionary)
  BY <1>1, <1>4
<1> QED
  BY <1>4, <1>5, <1>8, <1>9, <1>10

LEMMA HcBeginReads ==
  ASSUME HcInv, HcWindow,
         HcInitStream \/ HcResetFast \/ (\E n \in DictSizes : HcLoadDict(n) \/ HcAttach(n))
  PROVE  HcWindow'
<1> USE WindowNumbers
<1>1. /\ HcIdle' /\ mem' = mem /\ at' = BUF /\ DOMAIN mem = 1 .. TOP
      /\ BUF >= BUF /\ cut' = FALSE
  BY Places DEF HcInitStream, HcResetFast, HcLoadDict, HcAttach, HcBegun, HcBetween, HcIdle, Begun, HcWindow
<1>2. PICK h : h = hc'
  OBVIOUS
<1>3. Ordered(hc)
  BY DEF HcInv
<1>4. \A n \in DictSizes : n \in 0 .. Len(Dictionary)
  BY UserAssumption
<1>5. CASE h.prefixStart = NULL /\ h.end = NULL /\ ~h.dictCtx
  BY <1>1, <1>2, <1>5 DEF HcWindow, HcHeld, HcAttached
<1>6. ASSUME NEW s, s = LZ4_initStreamHC \/ s = LZ4_resetStreamHC_fast(hc)
      PROVE  s.prefixStart = NULL /\ s.end = NULL /\ ~s.dictCtx /\ s \in HcStates
  <2> DEFINE r == [hc EXCEPT !.dictLimit = EndIndex(hc), !.prefixStart = NULL, !.end = NULL,
                             !.dictCtx = FALSE]
  <2>1. Ordered(s) /\ ~s.dictCtx
    BY <1>3, <1>6, InitStreamOrdered, ResetOrdered
  <2>2. s = LZ4_initStreamHC \/ s = r
    BY <1>6 DEF LZ4_resetStreamHC_fast
  <2>3. r.prefixStart = NULL /\ r.end = NULL
    BY <1>3 DEF Ordered, HcStates
  <2>4. LZ4_initStreamHC.prefixStart = NULL /\ LZ4_initStreamHC.end = NULL
    BY DEF LZ4_initStreamHC
  <2> HIDE DEF r
  <2> QED
    BY <2>1, <2>2, <2>3, <2>4 DEF Ordered
<1>7. CASE HcInitStream \/ HcResetFast
  BY <1>2, <1>5, <1>6, <1>7 DEF HcInitStream, HcResetFast
<1>8. ASSUME NEW n \in DictSizes, HcLoadDict(n)
      PROVE  HcWindow'
  <2>1. PICK w : w = Recent(Word(DICT, n))
    OBVIOUS
  <2>2. h = LZ4_loadDictHC(DICT, n) /\ history' = w /\ n \in 0 .. Len(Dictionary)
    BY <1>2, <1>4, <1>8, <2>1 DEF HcLoadDict, HcBegun, Begun
  <2>3. HcReads(h, h.end, w) /\ ~h.dictCtx /\ h.prefixStart # NULL
    BY <2>1, <2>2, HcLoadedReads
  <2>4. HcReads(h, h.end, w)'
    BY <1>1, <2>3 DEF HcReads, Byte
  <2>5. HcReads(hc, hc.end, history)' /\ ~hc'.dictCtx /\ hc'.prefixStart # NULL
    BY <1>2, <2>2, <2>3, <2>4
  <2> QED
    BY <1>1, <2>5 DEF HcWindow, HcHeld, HcAttached
<1>9. ASSUME NEW n \in DictSizes, HcAttach(n)
      PROVE  HcWindow'
  <2>1. PICK w, d, s : w = Recent(Word(DICT, n)) /\ d = LZ4_loadDictHC(DICT, n) /\ s = LZ4_resetStreamHC_fast(hc)
    OBVIOUS
  <2>2. /\ h = [s EXCEPT !.dictCtx = TRUE] /\ dictHc' = d /\ history' = w /\ n \in 0 .. Len(Dictionary)
    BY <1>2, <1>4, <1>9, <2>1 DEF HcAttach, HcBegun, Begun
  <2>3. h.prefixStart = NULL /\ h.end = NULL /\ h.dictCtx
    BY <1>6, <2>1, <2>2 DEF HcStates
  <2>4. /\ \A k \in 1 .. DISTANCE_MAX :
             k <= PrefixSize(d) => k <= Len(w) /\ Byte(d.end - k) = w[Len(w) - k + 1]
        /\ d.end <= DICT + Len(Dictionary) /\ d \in HcStates
    BY <2>1, <2>2, HcLoadedReads
  <2>5. HcAttached(h, d, h.end, w)'
    <3> SUFFICES ASSUME NEW k \in 1 .. DISTANCE_MAX, k <= (h.end - h.prefixStart) + PrefixSize(d)
                 PROVE  k <= Len(w) /\ Byte(d.end - (k - (h.end - h.prefixStart)))' = w[Len(w) - k + 1]
      BY <2>3 DEF HcAttached
    <3>1. h.end - h.prefixStart = 0 /\ k \in Nat /\ PrefixSize(d) \in Int
      BY <2>3, <2>4, Distances DEF HcStates, PrefixSize
    <3>2. k <= PrefixSize(d) /\ k - 0 = k
      BY <3>1
    <3>3. k <= Len(w) /\ Byte(d.end - k) = w[Len(w) - k + 1]
      BY <2>4, <3>2
    <3> QED
      BY <1>1, <3>1, <3>2, <3>3 DEF Byte
  <2>6. HcAttached(hc, dictHc, hc.end, history)'
    BY <1>2, <2>2, <2>5
  <2>7. hc'.prefixStart = NULL /\ hc'.end = NULL /\ dictHc'.end <= DICT + Len(Dictionary)
    BY <1>2, <2>2, <2>3, <2>4
  <2> QED
    BY <1>1, <2>6, <2>7 DEF HcWindow, HcHeld
<1> QED
  BY <1>7, <1>8, <1>9

(* The last n bytes are saved elsewhere.                                   *)
LEMMA HcSaveDictReads ==
  ASSUME HcInv, HcWindow, NEW size \in SaveSizes, HcSaveDict(size)
  PROVE  HcWindow'
<1> USE WindowNumbers
<1>1. PICK h, d, w, wanted, n :
        /\ h = hc /\ d = dictHc /\ w = history
        /\ wanted = (IF size < 4 THEN 0 ELSE Min({size, W})) /\ n = Min({wanted, PrefixSize(h)})
  OBVIOUS
<1>2. PICK safe \in SafeBuffers(n) : Saved(safe, h.end - n, n) /\ hc' = SavedAt(h, safe, n)
  BY <1>1 DEF HcSaveDict
<1>3. /\ HcIdle /\ HcIdle' /\ dictHc' = d /\ history' = w /\ at' = at /\ status' = status /\ status = "open"
      /\ unsaved /\ mem' = With(mem, safe, Word(h.end - n, n))
      /\ cut' = (cut \/ (h.dictCtx /\ n < PrefixSize(h)))
  BY <1>1, <1>2 DEF HcSaveDict, HcBetween, HcIdle, Saved
<1>4. /\ Begins(h) /\ ((cut => h.dictCtx) => HcReads(h, h.end, w)) /\ (~cut => HcAttached(h, d, h.end, w))
      /\ h.dictCtx => Loaded(d) /\ d.end <= DICT + Len(Dictionary)
      /\ at >= BUF /\ DOMAIN mem = 1 .. TOP
  BY <1>1, <1>3 DEF HcInv, HcWindow, HcHeld, Begins
<1>5. /\ h \in HcStates /\ h.prefixStart <= h.end /\ h.lowLimit <= h.dictLimit
      /\ PrefixSize(h) \in Nat /\ PrefixSize(h) = h.end - h.prefixStart /\ EndIndex(h) \in Nat /\ h.end \in Nat
  BY <1>4 DEF Begins, Ordered, HcStates, PrefixSize, EndIndex
<1>6. n \in Nat /\ n <= PrefixSize(h) /\ n <= W
  <2>1. size \in Nat
    BY UserAssumption
  <2>2. wanted \in Nat /\ wanted <= W
    BY <1>1, <2>1, MinIs
  <2>3. n = Min({wanted, PrefixSize(h)})
    BY <1>1
  <2> QED
    BY ONLY <1>5, <2>2, <2>3, WindowNumbers, MinIs
<1>7. /\ safe \in Nat /\ (n > 0 => safe >= SAFE /\ safe + n <= BUF) /\ SAFE \in Nat \ {0}
      /\ BUF \in Nat /\ BUF <= TOP /\ DICT + Len(Dictionary) \in Nat /\ DICT + Len(Dictionary) < SAFE
  <2>1. /\ SAFE \in Nat \ {0} /\ BUF \in Nat \ {0} /\ BUF > W + SAFE
        /\ DICT + Len(Dictionary) \in Nat /\ DICT + Len(Dictionary) < SAFE
    BY Places, UserAssumption, LenProperties DEF DICT, SAFE
  <2>2. BUF <= TOP
    <3> DEFINE m == IF BLOCKS < 2 THEN 2 ELSE BLOCKS
    <3>1. m \in Nat /\ MAXBLOCK \in Nat
      BY UserAssumption
    <3> HIDE DEF m
    <3>2. m * MAXBLOCK \in Nat
      BY <3>1
    <3>3. TOP = BUF + m * MAXBLOCK + 2
      BY DEF TOP, m
    <3> QED
      BY <2>1, <3>2, <3>3
  <2>3. safe = SAFE \/ safe = BUF - n \/ (n = 0 /\ safe = 0)
    BY <1>2 DEF SafeBuffers
  <2> QED
    BY <1>6, <2>1, <2>2, <2>3
<1>8. PICK g, from, bytes : g = SavedAt(h, safe, n) /\ from = h.end - n /\ bytes = Word(from, n)
  OBVIOUS
<1>9. /\ DOMAIN bytes = 1 .. n /\ (\A i \in 1 .. n : bytes[i] = Byte(from + i - 1))
      /\ mem' = With(mem, safe, bytes) /\ DOMAIN mem' = DOMAIN mem
  BY <1>3, <1>8 DEF Word, With
<1>10. /\ g.prefixStart = safe /\ g.end = safe + n /\ g.lowLimit = g.dictLimit /\ g.dictCtx = h.dictCtx
       /\ g.dictLimit \in Int
  <2> DEFINE least == EndIndex(h) - n
             next == Max({h.nextToUpdate, least})
             r == [h EXCEPT !.prefixStart = safe, !.end = safe + n, !.dictStart = safe,
                            !.dictLimit = least, !.lowLimit = least, !.nextToUpdate = next]
  <2>1. g = r
    BY <1>8 DEF SavedAt
  <2>2. least \in Int
    BY <1>5, <1>6
  <2> HIDE DEF least, next
  <2>3. r.prefixStart = safe /\ r.end = safe + n /\ r.lowLimit = least /\ r.dictLimit = least /\ r.dictCtx = h.dictCtx
    BY <1>5 DEF HcStates
  <2> QED
    BY <2>1, <2>2, <2>3
<1>11. ASSUME HcReads(h, h.end, w)
       PROVE  HcReads(g, safe + n, w)'
  <2> SUFFICES ASSUME NEW k \in 1 .. DISTANCE_MAX, k <= HcReach(g, safe + n)
               PROVE  k <= Len(w) /\ Byte(HcAddress(g, safe + n, k))' = w[Len(w) - k + 1]
    BY DEF HcReads
  <2>1. k \in Nat \ {0} /\ k <= n
    BY <1>6, <1>7, <1>10, Distances DEF HcReach
  <2>2. HcAddress(g, safe + n, k) = (safe + n) - k
    BY <1>6, <1>7, <1>10, <2>1 DEF HcAddress
  <2>3. k <= Len(w) /\ Byte(h.end - k) = w[Len(w) - k + 1]
    <3>1. k <= PrefixSize(h)
      BY <1>5, <1>6, <2>1
    <3> QED
      BY <1>5, <1>11, <3>1, ReadsPrefix
  <2>4. PICK i : i = n - k + 1
    OBVIOUS
  <2>5. /\ i \in 1 .. n /\ safe + i - 1 = (safe + n) - k /\ from + i - 1 = h.end - k
    <3>1. from = h.end - n
      BY <1>8
    <3>2. i \in 1 .. n
      BY ONLY <1>6, <2>1, <2>4
    <3>3. safe + i - 1 = (safe + n) - k
      BY ONLY <1>6, <1>7, <2>1, <2>4
    <3>4. from + i - 1 = h.end - k
      BY ONLY <1>5, <1>6, <2>1, <2>4, <3>1
    <3> QED
      BY <3>2, <3>3, <3>4
  <2>6. safe + i - 1 \in DOMAIN mem
    <3>1. TOP \in Int
      BY ONLY <1>7, UserAssumption, Places DEF TOP
    <3>2. safe + i - 1 \in 1 .. TOP
      BY ONLY <1>6, <1>7, <2>1, <2>5, <3>1
    <3> QED
      BY <1>4, <3>2
  <2>7. Byte(safe + i - 1)' = bytes[i]
    BY <1>6, <1>7, <1>9, <2>5, <2>6, WrittenThere
  <2> QED
    BY <1>9, <2>2, <2>3, <2>5, <2>7
<1>12. ASSUME ~cut'
       PROVE  HcAttached(g, d, safe + n, w)'
  <2> SUFFICES ASSUME g.dictCtx
               PROVE  \A k \in 1 .. DISTANCE_MAX :
                        n < k /\ k <= n + PrefixSize(d) =>
                          k <= Len(w) /\ Byte(d.end - (k - n))' = w[Len(w) - k + 1]
    <3>1. (safe + n) - g.prefixStart = n
      BY <1>6, <1>7, <1>10
    <3> QED
      BY <1>10, <3>1 DEF HcAttached
  <2> SUFFICES ASSUME NEW k \in 1 .. DISTANCE_MAX, n < k, k <= n + PrefixSize(d)
               PROVE  k <= Len(w) /\ Byte(d.end - (k - n))' = w[Len(w) - k + 1]
    OBVIOUS
  <2>0. h.dictCtx /\ ~(n < PrefixSize(h)) /\ HcAttached(h, d, h.end, w)
    BY <1>3, <1>4, <1>10, <1>12
  <2>1. h.dictCtx /\ n = h.end - h.prefixStart
    BY <1>5, <1>6, <2>0
  <2>2. k <= Len(w) /\ Byte(d.end - (k - n)) = w[Len(w) - k + 1]
    BY <2>0, <2>1 DEF HcAttached
  <2>3. d.end \in Nat /\ k \in Nat
    BY <1>4, <2>1, Distances DEF Loaded, Begins, Ordered, HcStates
  <2>4. d.end - (k - n) \in Int /\ (d.end - (k - n) < safe \/ n = 0)
    <3>1. d.end <= DICT + Len(Dictionary)
      BY <1>4, <2>1
    <3> QED
      BY ONLY <1>6, <1>7, <2>3, <3>1, n < k
  <2>5. Byte(d.end - (k - n))' = Byte(d.end - (k - n))
    <3>1. d.end - (k - n) < safe \/ safe + n <= d.end - (k - n)
      BY <1>7, <2>4
    <3> QED
      BY <1>6, <1>7, <1>9, <2>4, <3>1, ApartKept
  <2> QED
    BY <2>2, <2>5
<1>13. HcHeld(hc, dictHc, cut, hc.end, history)'
  <2>1. hc' = g
    BY <1>2, <1>8
  <2>2. hc'.end = safe + n
    BY <1>10, <2>1
  <2>3. (cut' => g.dictCtx) => (cut => h.dictCtx)
    BY <1>3, <1>10
  <2>4. (cut' => g.dictCtx) => HcReads(g, safe + n, w)'
    BY <1>4, <1>11, <2>3
  <2> QED
    BY <1>3, <1>12, <2>1, <2>2, <2>4 DEF HcHeld
<1>14. /\ hc'.dictCtx => dictHc'.end <= DICT + Len(Dictionary)
       /\ hc'.prefixStart = NULL => hc'.end = NULL
       /\ hc'.lowLimit = hc'.dictLimit
  <2>1. hc' = g
    BY <1>2, <1>8
  <2>2. safe = 0 => n = 0
    BY <1>6, <1>7
  <2>3. safe = 0 => safe + n = 0
    BY <2>2
  <2>4. hc'.dictCtx => dictHc'.end <= DICT + Len(Dictionary)
    BY <1>3, <1>4, <1>10, <2>1
  <2>5. hc'.prefixStart = 0 => hc'.end = 0
    BY <1>10, <2>1, <2>3
  <2> QED
    BY <1>10, <2>1, <2>4, <2>5
<1> QED
  BY <1>3, <1>4, <1>9, <1>13, <1>14 DEF HcWindow

-----------------------------------------------------------------------------
(* The invariant, and what it says of the positions.                       *)
LEMMA WindowStep ==
  ASSUME PositionsInv, WindowInv, ~GOES_ON, [Next]_streamVars
  PROVE  WindowInv'
<1>1. CASE UNCHANGED streamVars
  <2>1. UNCHANGED <<stream, userVars, hc, dictHc, hcCall, cut>>
    BY <1>1 DEF streamVars, hcVars
  <2>2. HcWindow => HcWindow'
    BY <2>1 DEF HcWindow, HcIdle, HcHeld, HcReads, HcAttached, Byte, userVars
  <2>3. Sequences => Sequences'
    <3>1. UNCHANGED <<history, hcCall, decoding, sd, pc, lz>>
      BY <1>1 DEF streamVars, userVars, blockVars, hcVars, sdVars
    <3> QED
      BY <2>1, <3>1 DEF Sequences, Idle
  <2> QED
    BY <2>1, <2>2, <2>3 DEF WindowInv
<1>2. CASE Next
  <2>1. CASE stream # "hc"
    BY <1>2, <2>1 DEF WindowInv, Next, Fast, Hc, Decoder
  <2>2. CASE stream = "hc"
    <3>1. HcInv /\ HcWindow /\ IsSequence(history)
      BY <2>2 DEF PositionsInv, WindowInv, Sequences
    <3>2. \/ \E n \in HcSizes, limit \in {"limitedOutput", "fillOutput", "refused"} :
               HcContinue(n, limit) \/ HcExtState(n, limit)
          \/ HcReturned
          \/ HcInitStream \/ HcResetFast \/ (\E n \in DictSizes : HcLoadDict(n) \/ HcAttach(n))
          \/ \E n \in SaveSizes : HcSaveDict(n)
      BY <1>2, <2>2 DEF Next, Fast, Hc, Decoder
    <3>3. HcWindow'
      BY <3>1, <3>2, HcAssumption, HcContinueReads, HcExtStateReads, HcReturnedReads,
         HcBeginReads, HcSaveDictReads
    <3>4. Sequences /\ stream' = stream /\ UNCHANGED <<blockVars, sdVars>>
      BY <1>2, <2>2 DEF WindowInv, Next, Fast, Hc, Decoder
    <3>5. Sequences'
      BY <3>2, <3>4, HcSequences
    <3> QED
      BY <3>3, <3>5 DEF WindowInv
  <2> QED
    BY <2>1, <2>2
<1> QED
  BY <1>1, <1>2

LEMMA WindowBegins == Init => WindowInv
<1> SUFFICES ASSUME Init PROVE WindowInv
  OBVIOUS
<1>1. /\ HcInit /\ at = BUF /\ \E bytes : mem = With([a \in 1 .. TOP |-> Foreign], DICT, bytes)
  BY DEF Init, UserInit
<1>2. DOMAIN mem = 1 .. TOP /\ BUF >= BUF
  BY <1>1, Places DEF With
<1>3. HcIdle /\ hc.prefixStart = NULL /\ hc.end = NULL /\ ~hc.dictCtx
  BY <1>1 DEF HcInit, HcIdle, LZ4_initStreamHC
<1>4. /\ history = <<>> /\ pc = "idle" /\ lz = LZ4_initStream
      /\ hcCall = NoHcCall /\ decoding = NotDecoding
      /\ sd = [prefixEnd |-> NULL, prefixSize |-> 0, externalDict |-> NULL, extDictSize |-> 0]
  BY DEF Init, StreamInit, UserInit, BlockInit, HcInit, DecodeInit
<1>5. Sequences
  BY <1>4, EmptyIsSequence DEF Sequences, Idle, NoHcCall, NotDecoding
<1> QED
  BY <1>1, <1>2, <1>3, <1>5 DEF WindowInv, HcWindow, HcHeld, HcAttached

LEMMA WindowShows ==
  ASSUME PositionsInv, WindowInv, ~HcIdle
  PROVE  WindowIsHistory /\ AttachedUnlessCut
<1> USE WindowNumbers
<1>1. HcInv /\ HcWindow
  BY DEF PositionsInv, WindowInv
<1>2. PICK h, d, source, w : h = hc /\ d = dictHc /\ source = hcCall.source /\ w = history
  OBVIOUS
<1>3. /\ Begins(h) /\ source \in Nat /\ h.prefixStart <= source
      /\ HcHeld(h, d, cut, source, w) /\ (h.dictCtx => Loaded(d))
      /\ h.dictCtx /\ h.prefixStart # NULL => h.lowLimit = h.dictLimit
  BY <1>1, <1>2 DEF HcInv, HcWindow, HcCalls, Counted
<1>4. /\ h \in HcStates /\ h.lowLimit <= h.dictLimit /\ h.prefixStart \in Nat /\ h.dictStart \in Nat
      /\ h.dictLimit \in Nat /\ h.lowLimit \in Nat /\ h.prefixStart # NULL
  BY <1>3 DEF Begins, Ordered, HcStates
<1>5. PICK start, low : start = startIndex /\ low = lowest
  OBVIOUS
<1>6. start = source - h.prefixStart + h.dictLimit
  BY <1>2, <1>5 DEF startIndex
<1>7. start = (source - h.prefixStart) + h.dictLimit /\ start \in Nat /\ DISTANCE_MAX \in Nat
  BY <1>3, <1>4, <1>6, Distances
<1>8. low = IF h.lowLimit >= start - DISTANCE_MAX THEN h.lowLimit ELSE start - DISTANCE_MAX
  <2>1. low = Max({h.lowLimit, start - DISTANCE_MAX})
    BY <1>2, <1>5 DEF lowest
  <2>2. start - DISTANCE_MAX \in Int /\ h.lowLimit \in Int
    BY <1>4, <1>7
  <2> QED
    BY ONLY <2>1, <2>2, MaxIs
<1>9. ASSUME cut => h.dictCtx, NEW index \in low .. start - 1
      PROVE  HistoryAt(start - index) = <<SeenAt(index)>>
  <2>1. PICK k : k = start - index
    OBVIOUS
  <2>2. k \in 1 .. DISTANCE_MAX /\ index \in Int /\ index >= h.lowLimit
    BY <1>4, <1>7, <1>8, <1>9, <2>1
  <2>3. k <= HcReach(h, source)
    BY <1>3, <1>4, <1>7, <2>1, <2>2 DEF HcReach
  <2>4. k <= Len(w) /\ Byte(HcAddress(h, source, k)) = w[Len(w) - k + 1]
    BY <1>3, <1>4, <1>9, <2>2, <2>3 DEF HcHeld, HcReads
  <2>5. SeenAt(index) = Byte(HcAddress(h, source, k))
    <3>1. CASE index >= h.dictLimit
      <4>1. k <= source - h.prefixStart /\ h.prefixStart + index - h.dictLimit = source - k
        BY <1>3, <1>4, <1>7, <2>1, <2>2, <3>1
      <4> QED
        BY <1>2, <3>1, <4>1 DEF SeenAt, HcAddress
    <3>2. CASE ~(index >= h.dictLimit)
      <4>1. /\ ~(k <= source - h.prefixStart)
            /\ h.dictStart + index - h.lowLimit
                 = h.dictStart + (h.dictLimit - h.lowLimit) - (k - (source - h.prefixStart))
        BY <1>3, <1>4, <1>7, <2>1, <2>2, <3>2
      <4> QED
        BY <1>2, <3>2, <4>1 DEF SeenAt, HcAddress
    <3> QED
      BY <3>1, <3>2
  <2> QED
    BY <1>2, <2>1, <2>4, <2>5 DEF HistoryAt
<1>10. WindowIsHistory
  BY <1>2, <1>5, <1>9 DEF WindowIsHistory
<1>11. ASSUME ~cut, h.dictCtx, start - low < DISTANCE_MAX,
              NEW index \in d.dictLimit .. EndIndex(d) - 1,
              NEW distance, distance = EndIndex(d) - index + start - low, distance <= DISTANCE_MAX
       PROVE  HistoryAt(distance) = <<Byte(d.prefixStart + index - d.dictLimit)>>
  <2>1. /\ d \in HcStates /\ d.prefixStart <= d.end /\ d.end \in Nat /\ d.prefixStart \in Nat
        /\ d.dictLimit \in Nat
    BY <1>3, <1>11 DEF Loaded, Begins, Ordered, HcStates
  <2>2. PICK p, e : p = source - h.prefixStart /\ e = EndIndex(d)
    OBVIOUS
  <2>3. p \in Nat /\ e = (d.end - d.prefixStart) + d.dictLimit /\ PrefixSize(d) = d.end - d.prefixStart
    BY <1>3, <1>4, <2>1, <2>2 DEF EndIndex, PrefixSize
  <2>4. h.lowLimit = h.dictLimit
    BY <1>3, <1>4, <1>11
  <2>5. start - low = p
    BY <1>4, <1>7, <1>8, <1>11, <2>2, <2>3, <2>4
  <2>6. e - index + start - low = (e - index) + (start - low)
    BY <1>4, <1>7, <1>8, <2>1, <2>2, <2>3
  <2>7. distance = (e - index) + p
    BY <1>11, <2>2, <2>5, <2>6
  <2>8. /\ index \in Int /\ d.dictLimit <= index /\ index <= e - 1
    BY <2>1, <2>2, <2>3
  <2>9. /\ distance \in 1 .. DISTANCE_MAX /\ p < distance /\ distance <= p + PrefixSize(d)
        /\ d.end - (distance - p) = d.prefixStart + index - d.dictLimit
    BY <1>7, <1>11, <2>1, <2>3, <2>7, <2>8
  <2>10. distance <= Len(w) /\ Byte(d.end - (distance - p)) = w[Len(w) - distance + 1]
    BY <1>3, <1>11, <2>2, <2>9 DEF HcHeld, HcAttached
  <2> QED
    BY <1>2, <2>9, <2>10 DEF HistoryAt
<1>12. AttachedUnlessCut
  BY <1>2, <1>5, <1>11 DEF AttachedUnlessCut, AttachedIsHistory
<1> QED
  BY <1>10, <1>12

(* WindowIsHistory: whatever LZ4HC can look up while it compresses a block *)
(* of a stream, in the prefix and in the external dictionary, is what the  *)
(* decoder has at that distance, when a stream of which                    *)
(* LZ4_compress_HC_continue_destSize has not read all of a block is not    *)
(* gone on with.                                                           *)
THEOREM HcWindowIsHistory ==
  ASSUME ~GOES_ON
  PROVE  Spec => []WindowIsHistory
<1>1. PositionsInv /\ [Next]_streamVars => PositionsInv'
  BY PositionsStep
<1>2. PositionsInv /\ WindowInv /\ [Next]_streamVars => WindowInv'
  BY WindowStep
<1>3. PositionsInv /\ WindowInv => WindowIsHistory
  <2>1. HcIdle => WindowIsHistory
    BY DEF WindowIsHistory
  <2> QED
    BY <2>1, WindowShows
<1> QED
  BY <1>1, <1>2, <1>3, PositionsBegin, WindowBegins, PTL DEF Spec

(* AttachedUnlessCut: and so is what it can look up in the dictionary that *)
(* was attached to the stream, unless only a part of the blocks was saved  *)
(* with LZ4_saveDictHC and the next block put right behind that part.      *)
(* Then it is false, and LZ4_saveDictHC has nothing against it.            *)
THEOREM HcAttachedIsHistory ==
  ASSUME ~GOES_ON
  PROVE  Spec => []AttachedUnlessCut
<1>1. PositionsInv /\ [Next]_streamVars => PositionsInv'
  BY PositionsStep
<1>2. PositionsInv /\ WindowInv /\ [Next]_streamVars => WindowInv'
  BY WindowStep
<1>3. PositionsInv /\ WindowInv => AttachedUnlessCut
  <2>1. HcIdle => AttachedUnlessCut
    BY DEF AttachedUnlessCut, AttachedIsHistory
  <2> QED
    BY <2>1, WindowShows
<1> QED
  BY <1>1, <1>2, <1>3, PositionsBegin, WindowBegins, PTL DEF Spec

-----------------------------------------------------------------------------
(* The decoder.  The prefix, and behind it what is left of the dictionary, *)
(* are the end of the history.                                             *)
SdStates == [prefixEnd : Nat, prefixSize : Nat, externalDict : Nat, extDictSize : Nat]

SdOK ==
  /\ sd \in SdStates
  /\ sd.prefixSize > 0 => sd.prefixSize < sd.prefixEnd
  /\ sd.extDictSize > 0 => sd.externalDict > 0
  /\ sd.prefixSize = 0 => sd.extDictSize = 0 /\ sd.externalDict = NULL /\ Len(history) = 0

(* At each distance within the prefix the decoder finds the history, and   *)
(* at each one behind it too, unless the prefix has come over it.          *)
PrefixHeld(s, window) ==
  \A k \in 1 .. Len(window) :
    k <= s.prefixSize => Byte(s.prefixEnd - k) = window[Len(window) - k + 1]

DictAddress(s, k) == s.externalDict + s.extDictSize - (k - s.prefixSize)

DictHeld(s, window) ==
  \A k \in 1 .. Len(window) :
    s.prefixSize < k /\ k <= s.prefixSize + s.extDictSize =>
      \/ DictAddress(s, k) \in s.prefixEnd - s.prefixSize .. s.prefixEnd - 1
      \/ Byte(DictAddress(s, k)) = window[Len(window) - k + 1]

(* Where they lie, when a block goes to p: in front of the buffer; right   *)
(* before the block, from the beginning of the buffer on, behind something *)
(* in front of it or the last lap of a ring; or they are that lap.         *)
InFront(s, window, p) ==
  /\ p = BUF /\ s.prefixEnd <= BUF /\ (layout # "one" => s.prefixEnd < BUF)
  /\ Len(window) <= s.prefixSize

Before(s, window, p) ==
  /\ layout \in {"line", "own"} /\ p = s.prefixEnd /\ s.prefixEnd - s.prefixSize = BUF
  /\ \/ s.externalDict + s.extDictSize <= BUF /\ Len(window) <= s.prefixSize + s.extDictSize
     \/ layout = "own" /\ s.externalDict = BUF /\ s.extDictSize > W + RING_MARGIN

LastLap(s, p) ==
  /\ layout = "own" /\ p = BUF
  /\ s.prefixEnd - s.prefixSize = BUF /\ s.prefixSize > W + RING_MARGIN

Placed(s, window, p) ==
  layout \in {"line", "one", "own"} =>
    InFront(s, window, p) \/ Before(s, window, p) \/ LastLap(s, p)

(* The end of the b-th block.                                              *)
Reached(p, b) ==
  IF layout = "two" THEN p <= SECOND + MAXBLOCK ELSE p <= BUF + b * MAXBLOCK

(* Between two blocks, and while one is decoded.                           *)
DecodedWindow ==
  /\ DOMAIN mem = 1 .. TOP /\ SdOK /\ blocks \in 0 .. BLOCKS /\ layout \in Layouts
  /\ IsSequence(history) /\ Len(history) <= DISTANCE_MAX
  /\ at \in Nat /\ at >= BUF /\ Reached(at, blocks)
  /\ unsaved => layout = "one"
  /\ status = "open" => PrefixHeld(sd, history)
  /\ DecodeIdle /\ status = "open" =>
       /\ DictHeld(sd, history)
       /\ ~unsaved => Placed(sd, history, IF layout = "one" THEN BUF ELSE at)

DecodedBlock ==
  LET r == References(sd, decoding.dest) IN
  /\ status = "open" /\ ~unsaved /\ blocks < BLOCKS
  /\ decoding.dest \in Nat /\ decoding.n \in 0 .. MAXBLOCK /\ decoding.room \in DecodeSizes
  /\ decoding.n <= decoding.room /\ (layout # "own" => decoding.room = decoding.n)
  /\ decoding.dest >= BUF /\ Reached(decoding.dest + decoding.n, blocks + 1)
  /\ decoding.prefix = r.prefix /\ decoding.dict = r.dict /\ decoding.dictSize = r.dictSize
  /\ IF Switching(decoding.dest)
       THEN sd.externalDict = sd.prefixEnd - sd.prefixSize /\ sd.extDictSize = sd.prefixSize
       ELSE DictHeld(sd, history)
  /\ Placed(sd, history, decoding.dest)

DecodeInv ==
  /\ stream # "decoder" => DecodeIdle
  /\ stream = "decoder" => DecodedWindow /\ (~DecodeIdle => DecodedBlock)

(* LZ4_decoderRingBufferSize gives a ring its size.                        *)
RingHasSize == "own" \in Layouts => MAXBLOCK <= MAX_INPUT_SIZE

(* The numbers of the layouts.                                             *)
LEMMA DecodeNumbers ==
  /\ DISTANCE_MAX \in Nat \ {0} /\ W = DISTANCE_MAX + 1 /\ NULL = 0
  /\ BUF \in Nat \ {0} /\ DICT \in Nat \ {0} /\ SAFE \in Nat \ {0} /\ BUF > W + SAFE
  /\ SECOND = BUF + MAXBLOCK + 1 /\ MAXBLOCK \in Nat /\ BLOCKS \in Nat /\ MAX_INPUT_SIZE \in Nat
  /\ RING_MARGIN \in Nat /\ RING_BLOCK \in Nat /\ OVERSHOOT \in Nat /\ FAST_OVERSHOOT \in Nat
  /\ FASTLOOP_SAFE_DISTANCE \in Nat /\ FAST_OVERSHOOT < FASTLOOP_SAFE_DISTANCE
  /\ DecodeSizes \subseteq Nat
BY Distances, WindowNumbers, Places, UserAssumption, DecodeAssumption, Lz4Assumption DEF SECOND

(* By how much a copy of this block may write too far.                     *)
Overshoot(most) ==
  /\ most \in Nat /\ most >= OVERSHOOT /\ (FastLoop => most >= FAST_OVERSHOOT)
  /\ most = OVERSHOOT \/ (FastLoop /\ most = FAST_OVERSHOOT)

LEMMA ReachIs ==
  \E most : /\ Overshoot(most)
            /\ Reach = IF layout = "own" /\ most > RING_MARGIN + 2
                         THEN DISTANCE_MAX + RING_MARGIN + 2 - most ELSE DISTANCE_MAX
<1> USE DecodeNumbers
<1>1. PICK more : more = IF FastLoop THEN FAST_OVERSHOOT ELSE OVERSHOOT
  OBVIOUS
<1>2. PICK most : most = Max({OVERSHOOT, more})
  OBVIOUS
<1>3. most = IF OVERSHOOT >= more THEN OVERSHOOT ELSE more
  <2>1. OVERSHOOT \in Int /\ more \in Int
    BY <1>1
  <2> QED
    BY ONLY <1>2, <2>1, MaxIs
<1>4. Overshoot(most)
  BY <1>1, <1>3 DEF Overshoot
<1>5. most = Max({OVERSHOOT} \union IF FastLoop THEN {FAST_OVERSHOOT} ELSE {})
  <2>1. {OVERSHOOT, more} = {OVERSHOOT} \union IF FastLoop THEN {FAST_OVERSHOOT} ELSE {}
    BY <1>1
  <2> QED
    BY ONLY <1>2, <2>1
<1>6. PICK far : far = DISTANCE_MAX + RING_MARGIN + 2 - most
  OBVIOUS
<1>7. most \in Nat /\ far \in Int /\ DISTANCE_MAX \in Int
  BY <1>4, <1>6 DEF Overshoot
<1>8. Reach = IF layout = "own" THEN Min({DISTANCE_MAX, far}) ELSE DISTANCE_MAX
  BY <1>5, <1>6 DEF Reach
<1>9. Min({DISTANCE_MAX, far}) = IF DISTANCE_MAX <= far THEN DISTANCE_MAX ELSE far
  BY ONLY <1>7, MinIs
<1>10. DISTANCE_MAX <= far <=> ~(most > RING_MARGIN + 2)
  BY ONLY <1>6, <1>7, DecodeNumbers
<1> QED
  BY <1>4, <1>6, <1>8, <1>9, <1>10

(* How far dst has been written when a block that reads k bytes back does. *)
LEMMA WrittenReach ==
  ASSUME DecodedBlock, NEW k \in 1 .. DISTANCE_MAX, k <= Reach, decoding.n > 0
  PROVE  LET written == WrittenBy(LastReader(k, Reach)) IN
         /\ written \in Nat /\ (layout # "own" => written <= decoding.n)
         /\ layout = "own" => written <= DISTANCE_MAX - k + RING_MARGIN + 2
<1> USE DecodeNumbers
<1>1. PICK n, room : n = decoding.n /\ room = decoding.room
  OBVIOUS
<1>2. n \in Nat \ {0} /\ room \in Nat /\ (layout # "own" => room = n)
  <2>1. n \in 0 .. MAXBLOCK /\ n > 0 /\ room \in DecodeSizes /\ (layout # "own" => room = n)
    BY <1>1 DEF DecodedBlock
  <2> QED
    BY ONLY <2>1, DecodeNumbers
<1>3. PICK most : /\ Overshoot(most)
                  /\ Reach = IF layout = "own" /\ most > RING_MARGIN + 2
                               THEN DISTANCE_MAX + RING_MARGIN + 2 - most ELSE DISTANCE_MAX
  BY ReachIs
<1>4. PICK far : far = Reach
  OBVIOUS
<1>5. /\ most \in Nat /\ most >= OVERSHOOT /\ far \in Int /\ far <= DISTANCE_MAX /\ k <= far
      /\ layout = "own" => far + most <= DISTANCE_MAX + RING_MARGIN + 2
      /\ room >= FASTLOOP_SAFE_DISTANCE => most >= FAST_OVERSHOOT
  BY <1>1, <1>3, <1>4 DEF Overshoot, FastLoop
<1>6. PICK p : p = LastReader(k, Reach)
  OBVIOUS
<1>7. p \in Nat /\ p <= far - k
  <2>1. n - 1 \in Int /\ far - k \in Int /\ far - k >= 0 /\ n - 1 >= 0
    BY <1>2, <1>5
  <2>2. p = Min({n - 1, far - k})
    BY <1>1, <1>4, <1>6 DEF LastReader
  <2> QED
    BY ONLY <2>1, <2>2, MinIs
<1>8. PICK last : last = room - FAST_OVERSHOOT - 1
  OBVIOUS
<1>9. PICK fast : fast = Min({p, last}) + FAST_OVERSHOOT
  OBVIOUS
<1>10. last \in Int /\ fast = (IF p <= last THEN p ELSE last) + FAST_OVERSHOOT
  <2>1. p \in Int /\ last \in Int
    BY <1>2, <1>7, <1>8
  <2> QED
    BY ONLY <1>9, <2>1, MinIs
<1>11. PICK more : more = IF room >= FASTLOOP_SAFE_DISTANCE THEN fast ELSE p + OVERSHOOT
  OBVIOUS
<1>12. PICK b : b = Max({p + OVERSHOOT, more})
  OBVIOUS
<1>13. more \in Int /\ more <= p + most
  BY ONLY <1>2, <1>5, <1>7, <1>10, <1>11, DecodeNumbers
<1>14. b \in Nat /\ b <= p + most
  <2>1. p + OVERSHOOT \in Nat /\ p + OVERSHOOT \in Int
    BY <1>7
  <2>2. b = IF p + OVERSHOOT >= more THEN p + OVERSHOOT ELSE more
    BY ONLY <1>12, <1>13, <2>1, MaxIs
  <2> QED
    BY ONLY <1>5, <1>7, <1>13, <2>1, <2>2, DecodeNumbers
<1>15. WrittenBy(p) = Min({room, b})
  <2>1. b = Max({p + OVERSHOOT} \union IF FastLoop THEN {fast} ELSE {})
    <3>1. {p + OVERSHOOT, more} = {p + OVERSHOOT} \union IF FastLoop THEN {fast} ELSE {}
      BY <1>1, <1>11 DEF FastLoop
    <3> QED
      BY ONLY <1>12, <3>1
  <2> QED
    BY <1>1, <1>8, <1>9, <2>1 DEF WrittenBy
<1>16. WrittenBy(p) = IF room <= b THEN room ELSE b
  <2>1. room \in Int /\ b \in Int
    BY <1>2, <1>14
  <2> QED
    BY ONLY <1>15, <2>1, MinIs
<1>17. PICK written : written = WrittenBy(p)
  OBVIOUS
<1>18. /\ written \in Nat /\ written <= room
       /\ layout = "own" => written <= DISTANCE_MAX - k + RING_MARGIN + 2
  BY ONLY <1>2, <1>5, <1>7, <1>14, <1>16, <1>17, DecodeNumbers, k \in 1 .. DISTANCE_MAX
<1> QED
  BY <1>1, <1>2, <1>6, <1>17, <1>18

(* What a block may refer to is where the decoder looks for it.            *)
LEMMA DecodedShows ==
  ASSUME DecodedWindow, DecodedBlock, ~DecodeIdle
  PROVE  WithinReachInPlace
<1>1. SUFFICES ASSUME decoding.n > 0, NEW k \in 1 .. Len(history), k <= Reach
               PROVE  SourceForgot(k) \/ InPlace(k, Reach)
  <2>1. PICK len, far : len = Len(history) /\ far = Reach
    OBVIOUS
  <2>2. len \in Int /\ far \in Int
    <3>1. len \in Nat
      BY <2>1, LenProperties DEF DecodedWindow, IsSequence
    <3>2. far \in Int
      BY <2>1, ReachIs, DecodeNumbers DEF Overshoot
    <3> QED
      BY ONLY <3>1, <3>2
  <2>3. \A k \in 1 .. Min({len, far}) : k \in 1 .. len /\ k <= far
    <3>1. Min({len, far}) = IF len <= far THEN len ELSE far
      BY ONLY <2>2, MinIs
    <3> QED
      BY ONLY <2>2, <3>1
  <2> QED
    BY <1>1, <2>1, <2>3 DEF WithinReachInPlace
<1>2. PICK s, w, dest, n, written, a :
        /\ s = sd /\ w = history /\ dest = decoding.dest /\ n = decoding.n
        /\ written = WrittenBy(LastReader(k, Reach)) /\ a = AddressOf(k)
  OBVIOUS
<1>3. PICK len, end, size, dict, dictSize :
        /\ len = Len(w) /\ end = s.prefixEnd /\ size = s.prefixSize
        /\ dict = s.externalDict /\ dictSize = s.extDictSize
  OBVIOUS
<1>4. /\ len \in Nat /\ len <= DISTANCE_MAX /\ end \in Nat /\ size \in Nat
      /\ dict \in Nat /\ dictSize \in Nat
      /\ (size > 0 => size < end) /\ (dictSize > 0 => dict > 0) /\ (size = 0 => len = 0)
  <2>1. Len(history) \in Nat /\ s \in SdStates
    BY <1>2, LenProperties DEF DecodedWindow, SdOK, IsSequence
  <2> QED
    BY <1>2, <1>3, <2>1 DEF DecodedWindow, SdOK, SdStates
<1>5. k \in Nat \ {0} /\ k <= len /\ k \in 1 .. Len(w) /\ k \in 1 .. DISTANCE_MAX
  <2>1. k \in 1 .. len
    BY <1>2, <1>3
  <2> QED
    BY <1>3, <1>4, <2>1, DecodeNumbers
<1>6. /\ dest \in Nat /\ dest >= BUF /\ n \in Nat \ {0} /\ layout \in Layouts
      /\ Placed(s, w, dest)
      /\ decoding.prefix = References(s, dest).prefix /\ decoding.dict = References(s, dest).dict
      /\ decoding.dictSize = References(s, dest).dictSize
      /\ IF Switching(dest) THEN dict = end - size /\ dictSize = size ELSE DictHeld(s, w)
      /\ k <= size => Byte(end - k) = w[len - k + 1]
  <2>1. n \in 0 .. MAXBLOCK /\ n > 0
    BY <1>1, <1>2 DEF DecodedBlock
  <2>2. n \in Nat \ {0}
    BY <2>1, DecodeNumbers
  <2>3. PrefixHeld(s, w)
    BY <1>2 DEF DecodedBlock, DecodedWindow
  <2> QED
    BY <1>2, <1>3, <1>5, <2>2, <2>3 DEF DecodedBlock, DecodedWindow, PrefixHeld
<1>7. /\ written \in Nat /\ (layout # "own" => written <= n)
      /\ layout = "own" => written <= DISTANCE_MAX - k + RING_MARGIN + 2
  BY <1>1, <1>2, <1>5, <1>6, WrittenReach
<1>8. layout \in {"line", "one", "own"} =>
        \/ dest = BUF /\ end <= BUF /\ len <= size
        \/ /\ dest = end /\ end - size = BUF
           /\ \/ dict + dictSize <= BUF /\ len <= size + dictSize
              \/ layout = "own" /\ dict = BUF /\ dictSize > W + RING_MARGIN
        \/ layout = "own" /\ dest = BUF /\ end - size = BUF /\ size > W + RING_MARGIN
  BY <1>3, <1>6 DEF Placed, InFront, Before, LastLap
<1>9. layout \in {"line", "one", "own"} \/ layout \in {"ring", "two"}
  BY <1>6, UserAssumption
(* The address suffices, unless a ring or the other buffer is overwritten. *)
<1>10. ASSUME a \in Nat \ {0}, Byte(a) = w[len - k + 1],
              \/ a < dest
              \/ layout # "own" /\ a \notin dest .. dest + n - 1
              \/ layout = "own" /\ a >= dest + DISTANCE_MAX - k + RING_MARGIN + 2
      PROVE  InPlace(k, Reach)
  <2>1. /\ a \in Nat \ {0} /\ k \in Nat \ {0} /\ k <= DISTANCE_MAX
        /\ dest \in Nat /\ n \in Nat /\ written \in Nat
        /\ \/ a < dest
           \/ written <= n /\ a \notin dest .. dest + n - 1
           \/ /\ a >= dest + DISTANCE_MAX - k + RING_MARGIN + 2
              /\ written <= DISTANCE_MAX - k + RING_MARGIN + 2
    <3>1. k <= DISTANCE_MAX
      BY ONLY <1>4, <1>5
    <3> QED
      BY <1>5, <1>6, <1>7, <1>10, <3>1
  <2>2. a # NULL
    BY ONLY <2>1, DecodeNumbers
  <2>3. a \notin dest .. dest + written - 1
    <3>0. SUFFICES ASSUME a >= dest, a <= dest + written - 1 PROVE FALSE
      BY <2>1
    <3>1. CASE written <= n /\ a \notin dest .. dest + n - 1
      BY ONLY <2>1, <3>0, <3>1
    <3>2. CASE /\ a >= dest + DISTANCE_MAX - k + RING_MARGIN + 2
               /\ written <= DISTANCE_MAX - k + RING_MARGIN + 2
      BY ONLY <2>1, <3>0, <3>2, DecodeNumbers
    <3> QED
      BY <2>1, <3>0, <3>1, <3>2
  <2> QED
    BY <1>2, <1>3, <1>10, <2>2, <2>3 DEF InPlace
<1>11. ASSUME layout \in {"ring", "two"}, a = NULL, k > size
       PROVE  SourceForgot(k)
  BY <1>2, <1>3, <1>11 DEF SourceForgot
<1>12. ASSUME layout \in {"ring", "two"}, a # NULL, k > decoding.prefix,
              a \in dest - decoding.prefix .. dest + n - 1
       PROVE  SourceForgot(k)
  BY <1>2, <1>12 DEF SourceForgot
<1>13. CASE Switching(dest)
  <2>1. size > 0 /\ end # dest /\ dict = end - size /\ dictSize = size
    BY <1>2, <1>3, <1>6, <1>13 DEF Switching
  <2>2. decoding.prefix = 0 /\ decoding.dict = dict /\ decoding.dictSize = dictSize
    BY <1>3, <1>6, <1>13 DEF References
  <2>3. CASE k > size
    <3>1. a = NULL
      <4>1. ~(k <= 0) /\ k > 0 + dictSize
        BY ONLY <1>4, <1>5, <2>1, <2>3
      <4> QED
        BY <1>2, <2>2, <4>1 DEF AddressOf
    <3>2. ~(layout \in {"line", "one", "own"})
      BY ONLY <1>4, <1>5, <1>8, <2>1, <2>3, DecodeNumbers
    <3> QED
      BY <1>9, <1>11, <2>3, <3>1, <3>2
  <2>4. CASE ~(k > size)
    <3>1. a = end - k
      <4>1. ~(k <= 0) /\ ~(k > 0 + dictSize) /\ dict + dictSize - (k - 0) = end - k
        BY ONLY <1>4, <1>5, <2>1, <2>4
      <4> QED
        BY <1>2, <2>2, <4>1 DEF AddressOf
    <3>2. a \in Nat \ {0} /\ k <= size
      BY ONLY <1>4, <1>5, <2>1, <2>4, <3>1
    <3>3. Byte(a) = w[len - k + 1]
      BY <1>6, <3>1, <3>2
    <3>4. CASE layout \in {"ring", "two"} /\ a \in dest .. dest + n - 1
      <4>1. k > decoding.prefix /\ a \in dest - decoding.prefix .. dest + n - 1 /\ a # NULL
        BY ONLY <1>5, <1>6, <2>2, <3>2, <3>4, DecodeNumbers
      <4> QED
        BY <1>12, <3>4, <4>1
    <3>5. CASE layout \in {"ring", "two"} /\ a \notin dest .. dest + n - 1
      BY <1>10, <3>2, <3>3, <3>5
    <3>6. CASE layout \in {"line", "one", "own"}
      <4>1. a < dest \/ (layout = "own" /\ a >= dest + DISTANCE_MAX - k + RING_MARGIN + 2)
        BY ONLY <1>4, <1>5, <1>6, <1>8, <2>1, <3>1, <3>6, DecodeNumbers
      <4> QED
        BY <1>10, <3>2, <3>3, <4>1
    <3> QED
      BY <1>9, <3>4, <3>5, <3>6
  <2> QED
    BY <2>3, <2>4
<1>14. CASE ~Switching(dest) /\ Rolling(dest) /\ size >= W - 1
  <2>1. decoding.prefix = W /\ end = dest
    BY <1>2, <1>3, <1>6, <1>14 DEF References, Rolling
  <2>2. k <= W /\ k <= size
    BY ONLY <1>4, <1>5, <1>14, DecodeNumbers
  <2>3. a = end - k
    BY <1>2, <2>1, <2>2 DEF AddressOf
  <2>4. a \in Nat \ {0} /\ a < dest
    BY ONLY <1>4, <1>5, <2>1, <2>2, <2>3
  <2> QED
    BY <1>6, <1>10, <2>2, <2>3, <2>4
<1>15. CASE ~Switching(dest) /\ ~(Rolling(dest) /\ size >= W - 1)
  <2>1. decoding.prefix = size /\ decoding.dict = dict /\ decoding.dictSize = dictSize
    BY <1>3, <1>6, <1>15 DEF References
  <2>2. size > 0
    BY ONLY <1>4, <1>5
  <2>3. end = dest
    BY <1>2, <1>3, <1>15, <2>2 DEF Switching
  <2>4. CASE k <= size
    <3>1. a = end - k
      BY <1>2, <2>1, <2>3, <2>4 DEF AddressOf
    <3>2. a \in Nat \ {0} /\ a < dest
      BY ONLY <1>4, <1>5, <2>2, <2>3, <2>4, <3>1
    <3> QED
      BY <1>6, <1>10, <2>4, <3>1, <3>2
  <2>5. CASE k > size /\ k > size + dictSize
    <3>1. ~(k <= size)
      BY ONLY <1>4, <1>5, <2>5
    <3>2. a = NULL
      BY <1>2, <2>1, <2>5, <3>1 DEF AddressOf
    <3>3. ~(layout \in {"line", "one", "own"})
      BY ONLY <1>4, <1>5, <1>8, <2>2, <2>5, DecodeNumbers
    <3> QED
      BY <1>9, <1>11, <2>5, <3>2, <3>3
  <2>6. CASE k > size /\ ~(k > size + dictSize)
    <3>1. ~(k <= size) /\ k <= size + dictSize
      BY ONLY <1>4, <1>5, <2>6
    <3>2. a = dict + dictSize - (k - size) /\ a = DictAddress(s, k)
      BY <1>2, <1>3, <2>1, <2>6, <3>1 DEF AddressOf, DictAddress
    <3>3. a \in Nat \ {0}
      BY ONLY <1>4, <1>5, <3>1, <3>2, <2>6
    <3>4. a \in end - size .. end - 1 \/ Byte(a) = w[len - k + 1]
      <4>1. DictHeld(s, w) /\ k \in 1 .. Len(w)
        BY <1>5, <1>6, <1>15
      <4> QED
        BY ONLY <1>3, <2>6, <3>1, <3>2, <4>1 DEF DictHeld
    <3>5. CASE layout \in {"ring", "two"} /\ a \in dest - size .. dest + n - 1
      <4>1. a # NULL
        BY ONLY <3>3, DecodeNumbers
      <4> QED
        BY <1>12, <2>1, <2>6, <3>5, <4>1
    <3>6. CASE layout \in {"ring", "two"} /\ a \notin dest - size .. dest + n - 1
      <4>1. a \notin dest .. dest + n - 1 /\ a \notin end - size .. end - 1
        BY ONLY <1>4, <1>6, <2>3, <3>3, <3>6
      <4> QED
        BY <1>10, <3>3, <3>4, <3>6, <4>1
    <3>7. CASE layout \in {"line", "one", "own"}
      <4>1. a \notin end - size .. end - 1
        BY ONLY <1>4, <1>5, <1>8, <2>2, <2>3, <2>6, <3>1, <3>2, <3>7, DecodeNumbers
      <4>2. a < dest \/ (layout = "own" /\ a >= dest + DISTANCE_MAX - k + RING_MARGIN + 2)
        BY ONLY <1>4, <1>5, <1>8, <2>2, <2>3, <2>6, <3>1, <3>2, <3>7, DecodeNumbers
      <4> QED
        BY <1>10, <3>3, <3>4, <4>1, <4>2
    <3> QED
      BY <1>9, <3>5, <3>6, <3>7
  <2>7. k <= size \/ k > size
    BY ONLY <1>4, <1>5
  <2> QED
    BY <2>4, <2>5, <2>6, <2>7
<1> QED
  BY <1>13, <1>14, <1>15


-----------------------------------------------------------------------------
(* The invariant of the decoder holds at first, and after every call.      *)
LEMMA ReachedWithin ==
  ASSUME NEW p \in Nat, NEW b \in 0 .. BLOCKS, Reached(p, b)
  PROVE  p <= TOP /\ TOP \in Nat
<1> USE DecodeNumbers
<1>1. PICK most : most = IF BLOCKS < 2 THEN 2 ELSE BLOCKS
  OBVIOUS
<1>2. most \in Nat /\ most >= 2 /\ b <= most /\ b \in Nat
  BY <1>1
<1>3. PICK all, two, part : all = most * MAXBLOCK /\ two = 2 * MAXBLOCK /\ part = b * MAXBLOCK
  OBVIOUS
<1>4. all \in Nat /\ two \in Nat /\ part \in Nat /\ two <= all /\ part <= all
  <2>1. \A x, y, z \in Nat : x <= y => x * z <= y * z /\ x * z \in Nat
    BY ProductMono
  <2> QED
    BY ONLY <1>2, <1>3, <2>1, DecodeNumbers
<1>5. TOP = BUF + all + 2
  BY <1>1, <1>3 DEF TOP
<1>6. p <= BUF + part \/ p <= SECOND + MAXBLOCK
  BY <1>3 DEF Reached
<1> QED
  BY ONLY <1>3, <1>4, <1>5, <1>6, DecodeNumbers, p \in Nat

LEMMA DecodeInits == Init /\ stream = "decoder" => DecodeInv
<1> SUFFICES ASSUME Init, stream = "decoder" PROVE DecodeInv
  OBVIOUS
<1> USE DecodeNumbers
<1>1. /\ history = <<>> /\ layout \in Layouts /\ at = BUF /\ ~unsaved /\ blocks = 0
      /\ sd = [prefixEnd |-> NULL, prefixSize |-> 0, externalDict |-> NULL, extDictSize |-> 0]
      /\ decoding = NotDecoding
      /\ \E bytes : mem = With([a \in 1 .. TOP |-> Foreign], DICT, bytes)
  BY DEF Init, UserInit, DecodeInit
<1>2. /\ sd \in SdStates /\ sd.prefixEnd = 0 /\ sd.prefixSize = 0 /\ sd.externalDict = 0
      /\ sd.extDictSize = 0
  BY <1>1 DEF SdStates
<1>3. Len(history) = 0 /\ IsSequence(history)
  BY <1>1, EmptyIsSequence
<1>4. DOMAIN mem = 1 .. TOP
  BY <1>1 DEF With
<1>5. Reached(BUF, 0)
  <2>1. 0 * MAXBLOCK = 0
    OBVIOUS
  <2> QED
    BY <2>1 DEF Reached
<1>6. SdOK
  BY <1>2, <1>3 DEF SdOK
<1>7. PrefixHeld(sd, history) /\ DictHeld(sd, history)
  BY <1>3 DEF PrefixHeld, DictHeld
<1>8. Placed(sd, history, BUF)
  BY <1>2, <1>3 DEF Placed, InFront
<1>9. DecodedWindow
  BY <1>1, <1>3, <1>4, <1>5, <1>6, <1>7, <1>8 DEF DecodedWindow
<1> QED
  BY <1>1, <1>9 DEF DecodeInv, DecodeIdle

(* A block is placed, and the stream notices when it is placed elsewhere.  *)
LEMMA DecodePlaced ==
  ASSUME DecodedWindow, RingHasSize, NEW n \in Nat, n <= MAXBLOCK, NEW room, DecodeContinue(n, room),
         NEW dest, dest = DecodePlace(n)
  PROVE  /\ dest \in Nat /\ dest >= BUF /\ Reached(dest + n, blocks + 1)
         /\ Placed(sd', history, dest)
<1> USE DecodeNumbers
<1>1. PICK s, t : s = sd /\ t = sd'
  OBVIOUS
<1>2. t = IF Switching(dest) THEN Switched(s) ELSE s
  BY <1>1 DEF DecodeContinue
<1>3. /\ s \in SdStates /\ layout \in Layouts /\ at \in Nat /\ at >= BUF /\ Reached(at, blocks)
      /\ blocks \in Nat /\ Placed(s, history, IF layout = "one" THEN BUF ELSE at)
  BY <1>1 DEF DecodeContinue, DecodedWindow, SdOK
<1>4. t.prefixEnd = s.prefixEnd /\ t.prefixSize = s.prefixSize
  BY <1>2, <1>3 DEF Switched, SdStates
<1>5. s.prefixEnd = dest => t = s
  BY <1>1, <1>2 DEF Switching
<1>6. s.prefixEnd \in Nat /\ s.prefixSize \in Nat
  BY <1>3 DEF SdStates
<1>7. layout \in {"line", "ring", "two", "one", "own"}
  BY <1>3, UserAssumption
<1>8. dest = IF layout = "own"
               THEN IF BUF + LZ4_decoderRingBufferSize(MAXBLOCK) - at < MAXBLOCK THEN BUF ELSE at
               ELSE Place(n)
  BY DEF DecodePlace
<1>9. /\ (layout = "line" => dest = at) /\ (layout = "one" => dest = BUF)
      /\ (layout \in {"ring", "own"} => dest = at \/ dest = BUF)
      /\ (layout = "two" => dest = SECOND \/ dest = BUF)
  <2>1. layout # "own" => dest = Place(n)
    BY <1>8
  <2>2. layout = "line" => dest = at
    BY <2>1 DEF Place
  <2>3. layout = "one" => dest = BUF
    BY <2>1 DEF Place
  <2>4. layout = "ring" => dest = at \/ dest = BUF
    BY <2>1 DEF Place
  <2>5. layout = "two" => dest = SECOND \/ dest = BUF
    BY <2>1 DEF Place
  <2>6. layout = "own" => dest = at \/ dest = BUF
    BY <1>8
  <2> QED
    BY <2>2, <2>3, <2>4, <2>5, <2>6
<1>10. dest \in Nat /\ dest >= BUF
  BY <1>3, <1>7, <1>9
<1>11. Reached(dest + n, blocks + 1)
  <2>1. PICK p : p = blocks * MAXBLOCK
    OBVIOUS
  <2>2. p \in Nat /\ (blocks + 1) * MAXBLOCK = p + MAXBLOCK
    BY <1>3, <2>1
  <2>3. CASE layout = "two"
    BY <1>9, <2>3 DEF Reached
  <2>4. CASE layout # "two"
    <3>1. at <= BUF + p
      BY <1>3, <2>1, <2>4 DEF Reached
    <3>2. dest = at \/ dest = BUF
      BY <1>7, <1>9, <2>4
    <3>3. dest + n <= BUF + (p + MAXBLOCK)
      BY ONLY <1>3, <2>2, <3>1, <3>2, DecodeNumbers, n \in Nat, n <= MAXBLOCK
    <3> QED
      BY <2>2, <2>4, <3>3 DEF Reached
  <2> QED
    BY <2>3, <2>4
<1>12. ASSUME Placed(s, history, dest)
       PROVE  Placed(t, history, dest)
  <2>1. InFront(s, history, dest) => InFront(t, history, dest)
    BY <1>4 DEF InFront
  <2>2. Before(s, history, dest) => Before(t, history, dest)
    BY <1>5 DEF Before
  <2>3. LastLap(s, dest) => LastLap(t, dest)
    BY <1>4 DEF LastLap
  <2> QED
    BY <1>12, <2>1, <2>2, <2>3 DEF Placed
<1>13. CASE layout = "own" /\ dest # at
  <2>1. /\ LZ4_decoderRingBufferSize(MAXBLOCK) = W + RING_MARGIN + Max({MAXBLOCK, RING_BLOCK})
        /\ BUF + LZ4_decoderRingBufferSize(MAXBLOCK) - at < MAXBLOCK /\ dest = BUF
    BY <1>3, <1>8, <1>13 DEF RingHasSize, LZ4_decoderRingBufferSize
  <2>2. PICK most, ring : most = Max({MAXBLOCK, RING_BLOCK}) /\ ring = LZ4_decoderRingBufferSize(MAXBLOCK)
    OBVIOUS
  <2>3. most \in Nat /\ most >= MAXBLOCK
    <3>1. MAXBLOCK \in Int /\ RING_BLOCK \in Int
      OBVIOUS
    <3> QED
      BY ONLY <2>2, <3>1, DecodeNumbers, MaxIs
  <2>4. at - BUF > W + RING_MARGIN
    BY ONLY <1>3, <2>1, <2>2, <2>3, DecodeNumbers
  <2>5. Before(s, history, at)
    <3>1. at # BUF /\ Placed(s, history, at)
      BY <1>3, <1>13, <2>4
    <3> QED
      BY <1>13, <3>1 DEF Placed, InFront, LastLap
  <2>6. s.prefixEnd - s.prefixSize = BUF /\ s.prefixSize > W + RING_MARGIN
    BY <1>3, <1>6, <2>4, <2>5 DEF Before
  <2>7. LastLap(t, dest)
    BY <1>4, <1>13, <2>1, <2>6 DEF LastLap
  <2> QED
    BY <1>1, <1>10, <1>11, <2>7 DEF Placed
<1>14. CASE ~(layout = "own" /\ dest # at)
  <2>1. layout \in {"line", "one", "own"} => dest = IF layout = "one" THEN BUF ELSE at
    BY <1>9, <1>14
  <2>2. Placed(s, history, dest)
    BY <1>3, <2>1 DEF Placed
  <2> QED
    BY <1>1, <1>10, <1>11, <1>12, <2>2
<1> QED
  BY <1>13, <1>14

LEMMA DecodeContinueKeeps ==
  ASSUME DecodedWindow, RingHasSize, NEW n \in DecodeSizes, NEW room \in DecodeSizes,
         DecodeContinue(n, room)
  PROVE  ~DecodeIdle' /\ DecodedWindow' /\ DecodedBlock'
<1> USE DecodeNumbers
<1>1. PICK s, t, dest, w : s = sd /\ t = sd' /\ dest = DecodePlace(n) /\ w = history
  OBVIOUS
<1>2. PICK r : r = References(t, dest)
  OBVIOUS
<1>3. /\ n \in 0 .. MAXBLOCK /\ n \in Nat /\ n <= room /\ (layout # "own" => room = n)
      /\ DecodeIdle /\ status = "open" /\ ~unsaved /\ blocks < BLOCKS
      /\ t = IF Switching(dest) THEN Switched(s) ELSE s
      /\ decoding' = [dest |-> dest, n |-> n, room |-> room,
                      prefix |-> r.prefix, dict |-> r.dict, dictSize |-> r.dictSize]
      /\ UNCHANGED userVars
  <2>1. t = IF Switching(dest) THEN Switched(s) ELSE s
    BY <1>1 DEF DecodeContinue
  <2>2. /\ n <= MAXBLOCK /\ n <= room /\ (layout # "own" => room = n)
        /\ DecodeIdle /\ status = "open" /\ ~unsaved /\ blocks < BLOCKS /\ UNCHANGED userVars
    BY DEF DecodeContinue
  <2>3. n \in Nat
    OBVIOUS
  <2>4. decoding' = [dest |-> dest, n |-> n, room |-> room,
                     prefix |-> r.prefix, dict |-> r.dict, dictSize |-> r.dictSize]
    BY <1>1, <1>2, <2>1 DEF DecodeContinue
  <2> QED
    BY <2>1, <2>2, <2>3, <2>4
<1>4. dest \in Nat /\ dest >= BUF /\ Reached(dest + n, blocks + 1) /\ Placed(t, w, dest)
  BY <1>1, <1>3, DecodePlaced
<1>5. ~DecodeIdle'
  <2>1. decoding'.dest = dest /\ NotDecoding.dest = 0 /\ dest # 0
    BY <1>3, <1>4 DEF NotDecoding
  <2> QED
    BY <2>1 DEF DecodeIdle, NotDecoding
<1>6. /\ SdOK /\ s \in SdStates /\ PrefixHeld(s, w) /\ DictHeld(s, w)
  BY <1>1, <1>3 DEF DecodedWindow, SdOK
<1>7. PICK end, size : end = s.prefixEnd /\ size = s.prefixSize /\ end \in Nat /\ size \in Nat
  BY <1>6 DEF SdStates
<1>8. /\ t \in SdStates /\ t.prefixEnd = end /\ t.prefixSize = size
      /\ Switching(dest) => t.externalDict = end - size /\ t.extDictSize = size /\ size > 0 /\ size < end
      /\ ~Switching(dest) => t = s
  <2>1. CASE Switching(dest)
    <3>1. size > 0 /\ size < end
      BY <1>1, <1>6, <1>7, <2>1 DEF Switching, SdOK
    <3>2. PICK d : d = end - size /\ d \in Nat
      BY ONLY <1>7, <3>1
    <3>3. t = [s EXCEPT !.extDictSize = size, !.externalDict = d]
      BY <1>3, <1>7, <2>1, <3>2 DEF Switched
    <3>4. t \in SdStates
      BY ONLY <1>6, <1>7, <3>2, <3>3 DEF SdStates
    <3>5. t.prefixEnd = end /\ t.prefixSize = size /\ t.externalDict = d /\ t.extDictSize = size
      BY ONLY <1>6, <1>7, <3>2, <3>3 DEF SdStates
    <3> QED
      BY <2>1, <3>1, <3>2, <3>4, <3>5
  <2>2. CASE ~Switching(dest)
    BY <1>3, <1>6, <1>7, <2>2
  <2> QED
    BY <2>1, <2>2
<1>9. SdOK'
  <2>1. /\ t.prefixSize > 0 => t.prefixSize < t.prefixEnd
        /\ t.extDictSize > 0 => t.externalDict > 0
        /\ t.prefixSize = 0 => t.extDictSize = 0 /\ t.externalDict = NULL /\ Len(w) = 0
    <3>1. CASE Switching(dest)
      BY <1>7, <1>8, <3>1
    <3>2. CASE ~Switching(dest)
      BY <1>1, <1>6, <1>8, <3>2 DEF SdOK
    <3> QED
      BY <3>1, <3>2
  <2> QED
    BY <1>1, <1>3, <1>8, <2>1 DEF SdOK, userVars
<1>10. PrefixHeld(t, w) /\ (~Switching(dest) => DictHeld(t, w))
  BY <1>6, <1>7, <1>8 DEF PrefixHeld
<1>11. UNCHANGED <<mem, history, layout, at, status, unsaved, blocks>>
  BY <1>3 DEF userVars
<1>12. DecodedWindow'
  <2>1. PrefixHeld(sd, history)'
    BY <1>1, <1>10, <1>11 DEF PrefixHeld, Byte
  <2>2. Reached(at, blocks)' <=> Reached(at, blocks)
    BY <1>11 DEF Reached
  <2> QED
    BY <1>3, <1>5, <1>9, <1>11, <2>1, <2>2 DEF DecodedWindow
<1>13. Switching(dest)' <=> Switching(dest)
  BY <1>1, <1>7, <1>8 DEF Switching
<1>14. References(t, dest)' = r
  <2>1. Rolling(dest)' <=> Rolling(dest)
    BY <1>1, <1>7, <1>8 DEF Rolling
  <2> QED
    BY <1>2, <1>13, <2>1 DEF References
<1>15. /\ decoding'.dest = dest /\ decoding'.n = n /\ decoding'.room = room
       /\ decoding'.prefix = r.prefix /\ decoding'.dict = r.dict /\ decoding'.dictSize = r.dictSize
  BY <1>3
<1>16. Placed(t, w, dest)' /\ Reached(dest + n, blocks + 1)' /\ (DictHeld(t, w)' <=> DictHeld(t, w))
  BY <1>4, <1>11 DEF Placed, InFront, Before, LastLap, Reached, DictHeld, DictAddress, Byte
<1>17. DecodedBlock'
  <2>1. References(sd, decoding.dest)' = r
    BY <1>1, <1>14, <1>15 DEF References, Switching, Rolling
  <2>2. Placed(sd, history, decoding.dest)' /\ Reached(decoding.dest + decoding.n, blocks + 1)'
    BY <1>1, <1>11, <1>15, <1>16 DEF Placed, InFront, Before, LastLap, Reached
  <2>3. IF Switching(decoding.dest)'
          THEN sd'.externalDict = sd'.prefixEnd - sd'.prefixSize /\ sd'.extDictSize = sd'.prefixSize
          ELSE DictHeld(sd, history)'
    <3>1. Switching(decoding.dest)' <=> Switching(dest)
      BY <1>13, <1>15 DEF Switching
    <3>2. ~Switching(dest) => DictHeld(sd, history)'
      BY <1>1, <1>10, <1>11, <1>16 DEF DictHeld, DictAddress, Byte
    <3> QED
      BY <1>1, <1>8, <3>1, <3>2
  <2>4. /\ status' = "open" /\ ~unsaved' /\ blocks' < BLOCKS
        /\ decoding'.dest \in Nat /\ decoding'.n \in 0 .. MAXBLOCK /\ decoding'.room \in DecodeSizes
        /\ decoding'.n <= decoding'.room /\ (layout' # "own" => decoding'.room = decoding'.n)
        /\ decoding'.dest >= BUF
    BY <1>3, <1>4, <1>11, <1>15
  <2> QED
    BY <1>15, <2>1, <2>2, <2>3, <2>4 DEF DecodedBlock
<1> QED
  BY <1>5, <1>12, <1>17


(* What is decoded is put behind the history, and the rest of it stays.    *)
LEMMA LaterLength ==
  ASSUME NEW w, IsSequence(w), NEW u, IsSequence(u), Len(w) <= DISTANCE_MAX
  PROVE  /\ Len(w) \in Nat /\ Len(u) \in Nat /\ Len(Recent(w \o u)) \in Nat
         /\ Len(Recent(w \o u)) <= DISTANCE_MAX /\ Len(Recent(w \o u)) <= Len(w) + Len(u)
<1>1. PICK S : w \o u \in Seq(S)
  BY JoinedIsSequence DEF IsSequence
<1>2. PICK A, B : w \in Seq(A) /\ u \in Seq(B)
  BY DEF IsSequence
<1>3. Len(w) \in Nat /\ Len(u) \in Nat
  BY <1>2, LenProperties
<1>4. Len(w \o u) = Len(w) + Len(u)
  <2>1. PICK C : C = A \cup B
    OBVIOUS
  <2>2. w \in Seq(C) /\ u \in Seq(C)
    <3>1. /\ w \in [1 .. Len(w) -> A] /\ u \in [1 .. Len(u) -> B]
      BY <1>2, LenProperties
    <3>2. w \in [1 .. Len(w) -> C] /\ u \in [1 .. Len(u) -> C]
      BY <2>1, <3>1
    <3> QED
      BY <1>3, <3>2
  <2> QED
    BY <2>2, ConcatProperties
<1>5. Len(Recent(w \o u)) = IF Len(w \o u) <= DISTANCE_MAX THEN Len(w \o u) ELSE DISTANCE_MAX
  BY <1>1, RecentIs
<1> QED
  BY ONLY <1>3, <1>4, <1>5, Distances

LEMMA DecodeReturnedKeeps ==
  ASSUME DecodedWindow, DecodedBlock, ~DecodeIdle, DecodeReturned
  PROVE  DecodeIdle' /\ DecodedWindow'
<1> USE DecodeNumbers
<1>1. PICK s, t, dest, w, v, n, block :
        /\ s = sd /\ t = sd' /\ dest = decoding.dest /\ w = history /\ v = history' /\ n = decoding.n
        /\ block = [i \in 1 .. n |-> (blocks + 1) * 1000 + i]
  BY Zenon
<1>2. /\ decoding' = NotDecoding /\ mem' = With(mem, dest, block) /\ v = Recent(w \o block)
      /\ at' = dest + n /\ blocks' = blocks + 1 /\ (unsaved' <=> layout = "one" /\ n > 0)
      /\ layout' = layout /\ status' = status
      /\ t = IF n = 0 THEN s
             ELSE [s EXCEPT !.prefixSize = IF Rolling(dest) THEN s.prefixSize + n ELSE n,
                            !.prefixEnd = dest + n]
  <2>1. /\ decoding' = NotDecoding /\ mem' = With(mem, dest, block) /\ v = Recent(w \o block)
        /\ at' = dest + n /\ blocks' = blocks + 1 /\ layout' = layout /\ status' = status
    BY <1>1 DEF DecodeReturned
  <2>2. unsaved' <=> layout = "one" /\ n > 0
    BY <1>1, Zenon DEF DecodeReturned
  <2>3. n = 0 => t = s
    BY <1>1 DEF DecodeReturned
  <2>4. n # 0 => t = [s EXCEPT !.prefixSize = IF Rolling(dest) THEN s.prefixSize + n ELSE n,
                               !.prefixEnd = dest + n]
    BY <1>1 DEF DecodeReturned
  <2> QED
    BY <2>1, <2>2, <2>3, <2>4
<1>3. /\ s \in SdStates /\ SdOK /\ DOMAIN mem = 1 .. TOP /\ layout \in Layouts
      /\ IsSequence(w) /\ Len(w) <= DISTANCE_MAX /\ PrefixHeld(s, w)
      /\ status = "open" /\ blocks \in 0 .. BLOCKS - 1
      /\ dest \in Nat /\ dest >= BUF /\ n \in 0 .. MAXBLOCK /\ Reached(dest + n, blocks + 1)
      /\ Placed(s, w, dest)
  BY <1>1 DEF DecodedWindow, DecodedBlock, SdOK
<1>4. n \in Nat /\ blocks + 1 \in 0 .. BLOCKS
  BY ONLY <1>3, DecodeNumbers
<1>5. dest + n \in Nat /\ dest + n <= TOP /\ TOP \in Nat
  BY ONLY <1>3, <1>4, ReachedWithin
<1>6. PICK end, size, dict, dictSize :
        /\ end = s.prefixEnd /\ size = s.prefixSize /\ dict = s.externalDict /\ dictSize = s.extDictSize
        /\ end \in Nat /\ size \in Nat /\ dict \in Nat /\ dictSize \in Nat
  BY <1>3 DEF SdStates
<1>7. /\ size > 0 => size < end
      /\ dictSize > 0 => dict > 0
      /\ size = 0 => dictSize = 0 /\ dict = 0 /\ Len(w) = 0
  BY <1>1, <1>3, <1>6 DEF SdOK
<1>8. /\ Switching(dest) <=> size > 0 /\ end # dest
      /\ Rolling(dest) <=> size > 0 /\ end = dest
  BY <1>1, <1>6 DEF Switching, Rolling
<1>n. /\ end \in Nat /\ size \in Nat /\ dict \in Nat /\ dictSize \in Nat /\ n \in Nat
      /\ dest \in Nat /\ dest >= BUF /\ BUF \in Nat /\ BUF > 0 /\ W \in Nat /\ RING_MARGIN \in Nat
      /\ DISTANCE_MAX \in Nat /\ NULL = 0
      /\ (size > 0 => size < end) /\ (dictSize > 0 => dict > 0)
  BY <1>3, <1>4, <1>6, <1>7
<1>9. DictHeld(s, w) /\ (Switching(dest) => dict = end - size /\ dictSize = size)
  <2>1. CASE Switching(dest)
    <3>1. dict = end - size /\ dictSize = size
      BY <1>1, <1>6, <2>1 DEF DecodedBlock
    <3>2. ASSUME NEW k \in 1 .. Len(w), size < k, k <= size + dictSize
          PROVE  DictAddress(s, k) \in end - size .. end - 1
      <4>1. PICK a, len : a = dict + dictSize - (k - size) /\ len = Len(w)
        OBVIOUS
      <4>2. DictAddress(s, k) = a /\ len \in Nat /\ k \in 1 .. len /\ size > 0 /\ size < end
        BY <1>3, <1>6, <1>7, <1>8, <2>1, <4>1, LenProperties DEF DictAddress, IsSequence
      <4>3. a = dict + dictSize - (k - size) /\ k \in 1 .. len /\ len \in Nat
        BY ONLY <4>1, <4>2
      <4>4. a \in end - size .. end - 1
        BY ONLY <1>n, <3>1, <3>2, <4>3
      <4> QED
        BY <4>2, <4>4
    <3> QED
      BY <1>6, <3>1, <3>2 DEF DictHeld
  <2>2. CASE ~Switching(dest)
    BY <1>1, <2>2 DEF DecodedBlock
  <2> QED
    BY <2>1, <2>2
<1>10. IsSequence(block) /\ Len(block) = n /\ DOMAIN block = 1 .. n
  <2> DEFINE f(i) == (blocks + 1) * 1000 + i
             S == {f(i) : i \in 1 .. n}
  <2>1. block \in [1 .. n -> S]
    BY <1>1
  <2> HIDE DEF S
  <2>2. block \in Seq(S) /\ Len(block) = n
    BY <1>4, <2>1
  <2> QED
    BY <2>1, <2>2 DEF IsSequence
<1>11. /\ IsSequence(v) /\ Len(v) \in Nat /\ Len(w) \in Nat
       /\ Len(v) <= DISTANCE_MAX /\ Len(v) <= Len(w) + n
  <2>1. IsSequence(v)
    BY <1>2, <1>3, <1>10, JoinedIsSequence, RecentIsSequence
  <2> QED
    BY <1>2, <1>3, <1>10, <2>1, LaterLength
(* The bytes, old and new, at their distances.                             *)
<1>12. ASSUME NEW k \in 1 .. Len(v), k <= n
       PROVE  Byte((dest + n) - k)' = v[Len(v) - k + 1]
  <2>1. k \in 1 .. DISTANCE_MAX /\ k \in Nat \ {0}
    BY <1>11
  <2>2. v[Len(v) - k + 1] = block[n - k + 1]
    <3>1. IsSequence(block) /\ n = Len(block) /\ k <= n
      BY <1>10, <1>12
    <3> QED
      BY ONLY <1>2, <1>3, <2>1, <3>1, LaterWindow
  <2>3. PICK i : i = n - k + 1
    OBVIOUS
  <2>4. i \in 1 .. n /\ dest + i - 1 = (dest + n) - k /\ dest + i - 1 \in 1 .. TOP
    BY ONLY <1>3, <1>4, <1>5, <1>12, <2>1, <2>3, DecodeNumbers
  <2>5. Byte(dest + i - 1)' = block[i]
    <3>1. dest + i - 1 \in DOMAIN mem /\ dest \in Int
      BY <1>3, <2>4
    <3> QED
      BY ONLY <1>2, <1>4, <1>10, <2>4, <3>1, WrittenThere
  <2> QED
    BY <2>2, <2>3, <2>4, <2>5
<1>13. ASSUME NEW k \in 1 .. Len(v), k > n
       PROVE  /\ k - n \in 1 .. Len(w) /\ v[Len(v) - k + 1] = w[Len(w) - (k - n) + 1]
  <2>1. k \in 1 .. DISTANCE_MAX /\ k \in Nat \ {0} /\ k - n \in 1 .. Len(w)
    BY ONLY <1>4, <1>11, <1>13, DecodeNumbers
  <2>2. n < k /\ k - n <= Len(w) /\ n = Len(block)
    BY <1>4, <1>10, <1>11, <1>13, <2>1
  <2>3. v[Len(v) - k + 1] = w[Len(w) - (k - n) + 1]
    BY ONLY <1>2, <1>3, <1>10, <2>1, <2>2, LaterWindow
  <2> QED
    BY <2>1, <2>3
<1>14. ASSUME NEW x \in Int, x \notin dest .. (dest + n) - 1
       PROVE  Byte(x)' = Byte(x)
  <2>1. x < dest \/ dest + n <= x
    BY ONLY <1>3, <1>4, <1>14
  <2> QED
    <3>1. x \in Int /\ dest \in Int
      BY <1>3
    <3> QED
      BY ONLY <1>2, <1>4, <1>10, <2>1, <3>1, ApartKept
(* The state of the stream: it stays, the prefix grows, or it is new.      *)
<1>15. \/ /\ n = 0 /\ t = s
       \/ /\ n > 0 /\ Rolling(dest) /\ t \in SdStates /\ t.prefixSize = size + n
          /\ t.prefixEnd = end + n /\ t.externalDict = dict /\ t.extDictSize = dictSize
       \/ /\ n > 0 /\ ~Rolling(dest) /\ t \in SdStates /\ t.prefixSize = n
          /\ t.prefixEnd = dest + n /\ t.externalDict = dict /\ t.extDictSize = dictSize
  <2>1. PICK next, last : next = (IF Rolling(dest) THEN size + n ELSE n) /\ last = dest + n
    OBVIOUS
  <2>2. next \in Nat /\ last \in Nat
    BY <1>4, <1>5, <1>6, <2>1
  <2>3. n # 0 => t = [s EXCEPT !.prefixSize = next, !.prefixEnd = last]
    BY <1>2, <1>6, <2>1
  <2>4. n # 0 => t \in SdStates
    BY ONLY <1>3, <2>2, <2>3 DEF SdStates
  <2>5. n # 0 => /\ t.prefixSize = next /\ t.prefixEnd = last
                 /\ t.externalDict = dict /\ t.extDictSize = dictSize
    BY ONLY <1>3, <1>6, <2>2, <2>3 DEF SdStates
  <2>6. n = 0 => t = s
    BY <1>2
  <2> QED
    BY <1>4, <1>8, <2>1, <2>4, <2>5, <2>6
<1>a. PICK tEnd, tSize, tDict, tDictSize, len, longer :
         /\ tEnd = t.prefixEnd /\ tSize = t.prefixSize /\ tDict = t.externalDict /\ tDictSize = t.extDictSize
         /\ len = Len(w) /\ longer = Len(v)
  OBVIOUS
<1>c. \/ /\ n = 0 /\ tSize = size /\ tEnd = end /\ tDict = dict /\ tDictSize = dictSize
      \/ /\ n > 0 /\ size > 0 /\ end = dest /\ tSize = size + n
         /\ tEnd = end + n /\ tDict = dict /\ tDictSize = dictSize
      \/ /\ n > 0 /\ ~(size > 0 /\ end = dest) /\ tSize = n
         /\ tEnd = dest + n /\ tDict = dict /\ tDictSize = dictSize
  BY <1>6, <1>8, <1>15, <1>a
<1>d. /\ len \in Nat /\ longer \in Nat /\ longer <= DISTANCE_MAX /\ longer <= len + n
      /\ (size = 0 => dictSize = 0 /\ dict = 0 /\ len = 0)
  BY <1>7, <1>11, <1>a
<1>e. size > 0 /\ end # dest => dict = end - size /\ dictSize = size
  BY <1>8, <1>9
<1>f. /\ tSize > 0 => tSize < tEnd
      /\ tDictSize > 0 => tDict > 0
      /\ tSize = 0 => tDictSize = 0 /\ tDict = NULL /\ longer = 0
  BY ONLY <1>n, <1>c, <1>d
<1>16. SdOK'
  BY <1>1, <1>3, <1>15, <1>a, <1>f DEF SdOK
<1>17. PrefixHeld(t, v)'
  <2>1. ASSUME NEW k \in 1 .. longer, k <= tSize
        PROVE  Byte(tEnd - k)' = v[longer - k + 1]
    <3>1. k \in Nat \ {0} /\ k \in 1 .. Len(v)
      BY <1>a, <1>d
    <3>2. CASE k <= n
      <4>1. tEnd = dest + n
        BY ONLY <1>n, <1>c, <3>1, <3>2
      <4> QED
        BY <1>12, <1>a, <3>1, <3>2, <4>1
    <3>3. CASE k > n
      <4>1. PICK j, x : j = k - n /\ x = end - j
        OBVIOUS
      <4>2. j \in Nat \ {0} /\ j <= size /\ x \in Int /\ x = tEnd - k /\ x \notin dest .. (dest + n) - 1
        BY ONLY <1>n, <1>c, <2>1, <3>1, <3>3, <4>1
      <4>3. j \in 1 .. Len(w) /\ v[longer - k + 1] = w[Len(w) - j + 1]
        BY <1>13, <1>a, <3>1, <3>3, <4>1
      <4>4. Byte(x) = w[Len(w) - j + 1]
        BY <1>3, <1>6, <4>1, <4>2, <4>3 DEF PrefixHeld
      <4> QED
        BY <1>14, <4>2, <4>3, <4>4
    <3> QED
      BY <1>4, <3>1, <3>2, <3>3
  <2> QED
    BY <1>a, <2>1 DEF PrefixHeld
<1>18. DictHeld(t, v)'
  <2>1. ASSUME NEW k \in 1 .. longer, tSize < k, k <= tSize + tDictSize,
               NEW a, a = tDict + tDictSize - (k - tSize)
        PROVE  a \in tEnd - tSize .. tEnd - 1 \/ Byte(a)' = v[longer - k + 1]
    <3>1. k \in Nat \ {0} /\ k \in 1 .. Len(v)
      BY <1>a, <1>d
    <3>2. PICK j : j = k - n
      OBVIOUS
    <3>3. k > n /\ j \in Nat \ {0} /\ a \in Int
      BY ONLY <1>n, <1>c, <1>d, <2>1, <3>1, <3>2
    <3>4. j \in 1 .. Len(w) /\ v[longer - k + 1] = w[Len(w) - j + 1]
      BY <1>13, <1>a, <3>1, <3>2, <3>3
    <3>5. a \in dest .. (dest + n) - 1 \/ Byte(a)' = Byte(a)
      BY <1>14, <3>3
    <3>6. CASE n = 0 \/ (size > 0 /\ end = dest)
      <4>1. size < j /\ j <= size + dictSize /\ a = dict + dictSize - (j - size)
        BY ONLY <1>n, <1>c, <2>1, <3>1, <3>2, <3>6
      <4>2. DictAddress(s, j) = a
        BY <1>6, <4>1 DEF DictAddress
      <4>3. a \in end - size .. end - 1 \/ Byte(a) = w[Len(w) - j + 1]
        BY <1>6, <1>9, <3>4, <4>1, <4>2 DEF DictHeld
      <4>4. a \in end - size .. end - 1 \/ a \in dest .. (dest + n) - 1 =>
              a \in tEnd - tSize .. tEnd - 1
        BY ONLY <1>n, <1>c, <3>3, <3>6
      <4> QED
        BY <3>4, <3>5, <4>3, <4>4
    <3>7. CASE n > 0 /\ ~(size > 0 /\ end = dest)
      <4>1. size > 0 /\ end # dest
        BY ONLY <1>n, <1>c, <1>d, <2>1, <3>1, <3>7
      <4>2. j <= size /\ a = end - j
        BY ONLY <1>n, <1>c, <1>e, <2>1, <3>1, <3>2, <3>7, <4>1
      <4>3. Byte(a) = w[Len(w) - j + 1]
        BY <1>3, <1>6, <3>4, <4>2 DEF PrefixHeld
      <4>4. a \in dest .. (dest + n) - 1 => a \in tEnd - tSize .. tEnd - 1
        BY ONLY <1>n, <1>c, <3>7
      <4> QED
        BY <3>4, <3>5, <4>3, <4>4
    <3> QED
      BY <1>4, <3>6, <3>7
  <2> QED
    BY <1>a, <2>1 DEF DictHeld, DictAddress
(* Where they lie, for the next block.                                     *)
<1>19. ASSUME NEW p
       PROVE  /\ (InFront(s, w, p) <=> p = BUF /\ end <= BUF /\ (layout # "one" => end < BUF) /\ len <= size)
              /\ (Before(s, w, p) <=>
                    /\ layout \in {"line", "own"} /\ p = end /\ end - size = BUF
                    /\ \/ dict + dictSize <= BUF /\ len <= size + dictSize
                       \/ layout = "own" /\ dict = BUF /\ dictSize > W + RING_MARGIN)
              /\ (LastLap(s, p) <=> layout = "own" /\ p = BUF /\ end - size = BUF /\ size > W + RING_MARGIN)
  BY <1>6, <1>a DEF InFront, Before, LastLap
<1>h. ASSUME NEW p
      PROVE  /\ (InFront(t, v, p) <=> p = BUF /\ tEnd <= BUF /\ (layout # "one" => tEnd < BUF) /\ longer <= tSize)
             /\ (Before(t, v, p) <=>
                   /\ layout \in {"line", "own"} /\ p = tEnd /\ tEnd - tSize = BUF
                   /\ \/ tDict + tDictSize <= BUF /\ longer <= tSize + tDictSize
                      \/ layout = "own" /\ tDict = BUF /\ tDictSize > W + RING_MARGIN)
             /\ (LastLap(t, p) <=> layout = "own" /\ p = BUF /\ tEnd - tSize = BUF /\ tSize > W + RING_MARGIN)
  BY <1>a DEF InFront, Before, LastLap
<1>g. ~(layout = "one" /\ n > 0) => Placed(t, v, IF layout = "one" THEN BUF ELSE dest + n)
  <2>1. CASE n = 0
    <3>1. /\ tSize = size /\ tEnd = end /\ tDict = dict /\ tDictSize = dictSize /\ longer <= len
          /\ dest + n = dest
      BY ONLY <1>n, <1>c, <1>d, <2>1
    <3>2. InFront(s, w, dest) => InFront(t, v, dest)
      BY ONLY <1>n, <1>19, <1>h, <1>d, <3>1
    <3>3. Before(s, w, dest) => Before(t, v, dest)
      <4>1. len <= size + dictSize => longer <= size + dictSize
        BY ONLY <1>n, <1>d, <3>1
      <4> QED
        BY ONLY <1>19, <1>h, <3>1, <4>1
    <3>4. LastLap(s, dest) => LastLap(t, dest)
      BY ONLY <1>19, <1>h, <3>1
    <3>5. layout = "one" /\ Placed(s, w, dest) => dest = BUF
      BY <1>19, <1>h DEF Placed
    <3> QED
      BY <1>3, <3>1, <3>2, <3>3, <3>4, <3>5 DEF Placed
  <2>2. CASE n > 0 /\ layout \in {"line", "own"}
    <3>1. \/ dest = BUF /\ end < BUF /\ len <= size
          \/ /\ dest = end /\ end - size = BUF
             /\ \/ dict + dictSize <= BUF /\ len <= size + dictSize
                \/ layout = "own" /\ dict = BUF /\ dictSize > W + RING_MARGIN
          \/ layout = "own" /\ dest = BUF /\ end - size = BUF /\ size > W + RING_MARGIN
      BY <1>3, <1>19, <1>h, <2>2 DEF Placed
    <3>2. /\ dest + n = tEnd /\ tEnd - tSize = BUF
          /\ \/ tDict + tDictSize <= BUF /\ longer <= tSize + tDictSize
             \/ layout = "own" /\ tDict = BUF /\ tDictSize > W + RING_MARGIN
      BY ONLY <1>n, <1>c, <1>d, <1>e, <2>2, <3>1
    <3>3. Before(t, v, dest + n)
      BY ONLY <1>19, <1>h, <2>2, <3>2
    <3> QED
      BY <2>2, <3>3 DEF Placed
  <2>3. CASE n > 0 /\ layout \notin {"line", "own"}
    BY <2>3 DEF Placed
  <2> QED
    BY <1>4, <2>1, <2>2, <2>3
<1>20. ~(layout = "one" /\ n > 0) => Placed(t, v, IF layout = "one" THEN BUF ELSE dest + n)'
  BY <1>2, <1>g DEF Placed, InFront, Before, LastLap
<1>21. DecodeIdle' /\ DOMAIN mem' = 1 .. TOP
  BY <1>2, <1>3 DEF DecodeIdle, With
<1>22. Reached(at, blocks)'
  <2>1. PICK p, b : p = dest + n /\ b = blocks + 1
    OBVIOUS
  <2>2. Reached(p, b) /\ at' = p /\ blocks' = b /\ layout' = layout
    BY <1>2, <1>3, <2>1
  <2> QED
    BY <2>2 DEF Reached
<1>23. PrefixHeld(sd, history)' /\ DictHeld(sd, history)'
  BY <1>1, <1>17, <1>18 DEF PrefixHeld, DictHeld, DictAddress
<1>24. ~unsaved' => Placed(sd, history, IF layout = "one" THEN BUF ELSE at)'
  BY <1>1, <1>2, <1>20 DEF Placed, InFront, Before, LastLap
<1>25. at' \in Nat /\ at' >= BUF /\ blocks' \in 0 .. BLOCKS
  <2>1. PICK p, b : p = dest + n /\ b = blocks + 1
    OBVIOUS
  <2>2. p \in Nat /\ p >= BUF /\ b \in 0 .. BLOCKS
    BY ONLY <1>n, <1>4, <2>1
  <2> QED
    BY <1>2, <2>1, <2>2
<1> QED
  BY <1>1, <1>2, <1>3, <1>11, <1>16, <1>21, <1>22, <1>23, <1>24, <1>25 DEF DecodedWindow


(* A block that cannot be decoded ends the stream; another one, or what    *)
(* was saved, is in front of the buffer.                                   *)
LEMMA DecodeFailedKeeps ==
  ASSUME DecodedWindow, DecodedBlock, DecodeFailed
  PROVE  DecodeIdle' /\ DecodedWindow'
<1>1. /\ decoding' = NotDecoding /\ status' = "invalid" /\ ~unsaved
      /\ \E bytes : mem' = With(mem, decoding.dest, bytes)
      /\ UNCHANGED <<sd, history, layout, at, unsaved, blocks>>
  BY DEF DecodeFailed, DecodedBlock
<1>2. DOMAIN mem' = DOMAIN mem
  BY <1>1 DEF With
<1>3. SdOK' <=> SdOK
  BY <1>1 DEF SdOK
<1>4. Reached(at, blocks)' <=> Reached(at, blocks)
  BY <1>1 DEF Reached
<1> QED
  BY <1>1, <1>2, <1>3, <1>4 DEF DecodedWindow, DecodeIdle

LEMMA DecodeFresh ==
  ASSUME NEW place \in Nat, NEW n \in Nat, n > 0 => place > 0, place + n < BUF \/ (layout = "one" /\ place + n <= BUF),
         NEW s, s = LZ4_setStreamDecode(place, n), NEW w, Len(w) \in Nat, Len(w) <= n
  PROVE  /\ s \in SdStates /\ (s.prefixSize > 0 => s.prefixSize < s.prefixEnd) /\ s.extDictSize = 0
         /\ s.prefixSize = n /\ s.prefixEnd = place + n /\ s.externalDict = NULL
         /\ DictHeld(s, w) /\ Placed(s, w, BUF)
<1> USE DecodeNumbers
<1>1. /\ s \in SdStates /\ s.extDictSize = 0 /\ s.prefixSize = n /\ s.prefixEnd = place + n
      /\ s.externalDict = NULL
  BY DEF LZ4_setStreamDecode, SdStates
<1>2. s.prefixSize > 0 => s.prefixSize < s.prefixEnd
  BY <1>1
<1>3. DictHeld(s, w)
  <2>1. \A k \in 1 .. Len(w) : ~(n < k /\ k <= n + 0)
    OBVIOUS
  <2> QED
    BY <1>1, <2>1 DEF DictHeld
<1>4. Placed(s, w, BUF)
  BY <1>1 DEF Placed, InFront
<1> QED
  BY <1>1, <1>2, <1>3, <1>4

LEMMA SetStreamDecodeKeeps ==
  ASSUME DecodedWindow, NEW n \in DictSizes \union {0}, SetStreamDecode(n)
  PROVE  DecodeIdle' /\ DecodedWindow'
<1> USE DecodeNumbers
<1>1. PICK place, word, w : place = (IF n = 0 THEN NULL ELSE DICT) /\ word = Word(DICT, n) /\ w = history'
  OBVIOUS
<1>2. /\ DecodeIdle /\ decoding' = decoding /\ sd' = LZ4_setStreamDecode(place, n) /\ w = Recent(word)
      /\ status' = "open" /\ at' = BUF /\ ~unsaved' /\ UNCHANGED <<mem, layout, blocks>>
  BY <1>1 DEF SetStreamDecode, Begun
<1>3. n \in Nat /\ n <= Len(Dictionary) /\ Len(Dictionary) \in Nat
  BY UserAssumption, LenProperties
<1>4. place \in Nat /\ place + n < BUF /\ (n > 0 => place > 0)
  <2>1. SAFE = DICT + Len(Dictionary) + 1
    BY DEF SAFE
  <2> QED
    BY <1>1, <1>3, <2>1
<1>5. IsSequence(word) /\ Len(word) = n /\ \A i \in 1 .. n : word[i] = Byte(DICT + i - 1)
  <2>1. IsSequence(word) /\ DOMAIN word = 1 .. n
    BY <1>1, <1>3, WordIsSequence DEF Word
  <2>2. Len(word) \in Nat /\ DOMAIN word = 1 .. Len(word)
    BY <2>1, LenProperties DEF IsSequence
  <2> QED
    BY <1>1, <1>3, <2>1, <2>2 DEF Word
<1>6. /\ IsSequence(w) /\ Len(w) \in Nat /\ Len(w) <= n /\ Len(w) <= DISTANCE_MAX
      /\ \A k \in 1 .. Len(w) : w[Len(w) - k + 1] = word[n - k + 1]
  <2>1. PICK S : word \in Seq(S)
    BY <1>5 DEF IsSequence
  <2>2. /\ Len(w) = IF n <= DISTANCE_MAX THEN n ELSE DISTANCE_MAX
        /\ \A k \in 1 .. Len(w) : w[Len(w) - k + 1] = word[n - k + 1]
    BY <1>2, <1>5, <2>1, RecentIs
  <2> QED
    BY <1>2, <1>3, <1>5, <2>2, RecentIsSequence
<1>7. PICK s : s = sd'
  OBVIOUS
<1>8. /\ s \in SdStates /\ (s.prefixSize > 0 => s.prefixSize < s.prefixEnd) /\ s.extDictSize = 0
      /\ s.prefixSize = n /\ s.prefixEnd = place + n /\ s.externalDict = NULL
      /\ DictHeld(s, w) /\ Placed(s, w, BUF)
  <2>1. s = LZ4_setStreamDecode(place, n)
    BY <1>2, <1>7
  <2> QED
    BY ONLY <1>3, <1>4, <1>6, <2>1, DecodeFresh
<1>9. SdOK'
  <2>1. n = 0 => Len(w) = 0
    BY <1>3, <1>6
  <2> QED
    BY <1>1, <1>7, <1>8, <2>1 DEF SdOK
<1>10. PrefixHeld(s, w)
  <2> SUFFICES ASSUME NEW k \in 1 .. Len(w), k <= n
               PROVE  Byte((place + n) - k) = w[Len(w) - k + 1]
    BY <1>8 DEF PrefixHeld
  <2>1. PICK i : i = n - k + 1
    OBVIOUS
  <2>2. k \in Nat \ {0} /\ n > 0
    BY <1>3, <1>6
  <2>3. i \in 1 .. n /\ place = DICT
    BY <1>1, <1>3, <2>1, <2>2
  <2>4. DICT + i - 1 = (place + n) - k
    BY <1>3, <2>1, <2>2, <2>3
  <2> QED
    BY <1>5, <1>6, <2>1, <2>3, <2>4
<1>11. PrefixHeld(sd, history)' /\ DictHeld(sd, history)' /\ Placed(sd, history, BUF)'
  <2>1. PrefixHeld(sd, history)' <=> PrefixHeld(s, w)
    BY <1>1, <1>2, <1>7 DEF PrefixHeld, Byte
  <2>2. DictHeld(sd, history)' <=> DictHeld(s, w)
    BY <1>1, <1>2, <1>7 DEF DictHeld, DictAddress, Byte
  <2>3. Placed(sd, history, BUF)' <=> Placed(s, w, BUF)
    BY <1>1, <1>2, <1>7 DEF Placed, InFront, Before, LastLap
  <2> QED
    BY <1>8, <1>10, <2>1, <2>2, <2>3
<1>12. Reached(at, blocks)'
  <2>1. PICK p : p = blocks * MAXBLOCK
    OBVIOUS
  <2>2. blocks \in Nat
    BY DEF DecodedWindow
  <2>3. p \in Nat /\ blocks' * MAXBLOCK = p
    BY <1>2, <2>1, <2>2
  <2>4. BUF <= BUF + p /\ BUF <= SECOND + MAXBLOCK
    BY <2>3
  <2> QED
    BY <1>2, <2>3, <2>4 DEF Reached
<1>13. DecodeIdle'
  BY <1>2 DEF DecodeIdle
<1>14. (IF layout = "one" THEN BUF ELSE at)' = BUF
  BY <1>2
<1> QED
  BY <1>1, <1>2, <1>6, <1>9, <1>11, <1>12, <1>13, <1>14 DEF DecodedWindow


LEMMA SaveDecodedKeeps ==
  ASSUME DecodedWindow, NEW size \in SaveSizes, SaveDecoded(size)
  PROVE  DecodeIdle' /\ DecodedWindow'
<1> USE DecodeNumbers
<1>1. PICK n, len, end, all, w, v :
        /\ n = Min({size, W, sd.prefixSize}) /\ w = history /\ v = history' /\ len = Len(w)
        /\ end = sd.prefixEnd /\ all = sd.prefixSize
  OBVIOUS
<1>2. PICK m, first : m = Min({n, len}) /\ first = len - m + 1
  OBVIOUS
<1>3. PICK place, from, bytes :
        /\ place \in SafeBuffers(n) /\ from = end - n /\ bytes = Word(from, n)
        /\ mem' = With(mem, place, bytes) /\ sd' = LZ4_setStreamDecode(place, n)
  <2>1. \E safe \in SafeBuffers(n) :
          mem' = With(mem, safe, Word(end - n, n)) /\ sd' = LZ4_setStreamDecode(safe, n)
    BY <1>1 DEF SaveDecoded
  <2> QED
    BY <2>1
<1>4. /\ DecodeIdle /\ decoding' = decoding /\ status = "open" /\ unsaved /\ ~unsaved'
      /\ v = SubSeq(w, first, len) /\ UNCHANGED <<layout, at, status, blocks>>
  BY <1>1, <1>2 DEF SaveDecoded
<1>5. /\ DOMAIN mem = 1 .. TOP /\ sd \in SdStates /\ layout = "one" /\ IsSequence(w) /\ len <= DISTANCE_MAX
      /\ PrefixHeld(sd, w) /\ (all > 0 => all < end) /\ (all = 0 => len = 0)
  BY <1>1, <1>4 DEF DecodedWindow, SdOK
<1>6. end \in Nat /\ all \in Nat /\ len \in Nat /\ size \in Nat
  BY <1>1, <1>5, UserAssumption, LenProperties DEF SdStates, IsSequence
<1>7. n \in Nat /\ n <= all
  <2> DEFINE T == {size, W, all}
  <2>1. \E x \in T : \A y \in T : x <= y
    BY <1>6
  <2>2. Min(T) \in T /\ \A y \in T : Min(T) <= y
    BY <2>1 DEF Min
  <2> QED
    BY <1>1, <1>6, <2>2
<1>8. m \in Nat /\ m <= n /\ m <= len /\ (n = 0 => m = 0)
  <2>1. n \in Int /\ len \in Int
    BY <1>6, <1>7
  <2>2. m = IF n <= len THEN n ELSE len
    BY ONLY <1>2, <2>1, MinIs
  <2> QED
    BY ONLY <1>6, <1>7, <2>2
<1>9. /\ IsSequence(v) /\ Len(v) = m
      /\ \A k \in 1 .. m : v[m - k + 1] = w[len - k + 1]
  <2>1. PICK S : w \in Seq(S)
    BY <1>5 DEF IsSequence
  <2>2. first \in 1 .. len + 1 /\ len \in Int /\ (len - first) + 1 = m
    BY ONLY <1>2, <1>6, <1>8
  <2>3. \A i \in first .. len : w[i] \in S
    BY <1>1, <1>6, <2>1, <2>2, ElementOfSeq
  <2>4. /\ SubSeq(w, first, len) \in Seq(S)
        /\ Len(SubSeq(w, first, len)) = IF first <= len THEN len - first + 1 ELSE 0
        /\ \A i \in 1 .. (len - first) + 1 : SubSeq(w, first, len)[i] = w[first + i - 1]
    <3>1. first \in Int
      BY ONLY <1>6, <2>2
    <3> QED
      BY ONLY <2>2, <2>3, <3>1, SubSeqProperties
  <2>5. v \in Seq(S) /\ \A i \in 1 .. m : v[i] = w[first + i - 1]
    BY ONLY <1>4, <2>2, <2>4
  <2>6. Len(v) = m
    <3>1. Len(v) = IF first <= len THEN len - first + 1 ELSE 0
      BY ONLY <1>4, <2>4
    <3> QED
      BY ONLY <1>2, <1>6, <1>8, <3>1
  <2>7. ASSUME NEW k \in 1 .. m
        PROVE  m - k + 1 \in 1 .. m /\ first + (m - k + 1) - 1 = len - k + 1
    BY ONLY <1>2, <1>6, <1>8, <2>7
  <2> QED
    BY <2>5, <2>6, <2>7 DEF IsSequence
<1>10. /\ place \in Nat /\ place + n <= BUF /\ (n > 0 => place > 0) /\ place + n \in Nat
       /\ place + n <= TOP /\ TOP \in Nat
  <2>1. n <= W
    <3> DEFINE T == {size, W, all}
    <3>1. \E x \in T : \A y \in T : x <= y
      BY <1>6
    <3>2. \A y \in T : Min(T) <= y
      BY <3>1 DEF Min
    <3> QED
      BY <1>1, <3>2
  <2>2. place = SAFE \/ place = BUF - n \/ (n = 0 /\ place = 0)
    BY <1>3 DEF SafeBuffers
  <2>3. BUF <= TOP /\ TOP \in Nat
    <3>1. 0 \in 0 .. BLOCKS /\ 0 * MAXBLOCK = 0
      OBVIOUS
    <3>2. Reached(BUF, 0)
      BY <3>1 DEF Reached
    <3> QED
      BY <3>1, <3>2, ReachedWithin
  <2>4. place \in Nat /\ place + n <= BUF /\ (n > 0 => place > 0)
    BY ONLY <1>7, <2>1, <2>2, DecodeNumbers
  <2> QED
    BY ONLY <1>7, <2>3, <2>4, DecodeNumbers
<1>11. PICK s : s = sd'
  OBVIOUS
<1>12. /\ s \in SdStates /\ (s.prefixSize > 0 => s.prefixSize < s.prefixEnd) /\ s.extDictSize = 0
       /\ s.prefixSize = n /\ s.prefixEnd = place + n /\ s.externalDict = NULL
       /\ DictHeld(s, v) /\ Placed(s, v, BUF)
  <2>1. s = LZ4_setStreamDecode(place, n) /\ Len(v) \in Nat /\ Len(v) <= n
    BY <1>3, <1>8, <1>9, <1>11
  <2>2. place + n < BUF \/ (layout = "one" /\ place + n <= BUF)
    BY <1>5, <1>10
  <2> QED
    BY ONLY <1>7, <1>10, <2>1, <2>2, DecodeFresh
<1>13. SdOK'
  <2>1. n = 0 => Len(v) = 0
    BY <1>8, <1>9
  <2> QED
    BY <1>1, <1>11, <1>12, <2>1 DEF SdOK
<1>14. ASSUME NEW k \in 1 .. m
       PROVE  Byte((place + n) - k)' = v[m - k + 1]
  <2>1. PICK i, x, y : i = n - k + 1 /\ x = (place + n) - k /\ y = end - k
    OBVIOUS
  <2>2. /\ k \in Nat \ {0} /\ k <= all /\ k \in 1 .. len /\ i \in 1 .. n /\ x \in 1 .. TOP
        /\ place + i - 1 = x /\ from + i - 1 = y
    BY ONLY <1>3, <1>6, <1>7, <1>8, <1>10, <2>1
  <2>3. Byte(y) = w[len - k + 1]
    BY <1>1, <1>5, <2>1, <2>2 DEF PrefixHeld
  <2>4. DOMAIN bytes = 1 .. n /\ bytes[i] = Byte(y)
    BY <1>3, <2>2 DEF Word
  <2>5. Byte(place + i - 1)' = bytes[i]
    <3>1. place + i - 1 \in DOMAIN mem /\ place \in Int
      BY <1>5, <1>10, <2>2
    <3>2. mem' = With(mem, place, bytes) /\ DOMAIN bytes = 1 .. n /\ i \in 1 .. n
      BY <1>3, <2>2, <2>4
    <3> QED
      BY ONLY <1>7, <3>1, <3>2, WrittenThere
  <2> QED
    BY <1>9, <2>1, <2>2, <2>3, <2>4, <2>5
<1>15. PrefixHeld(sd, history)' /\ DictHeld(sd, history)' /\ Placed(sd, history, BUF)'
  <2>1. PrefixHeld(sd, history)'
    BY <1>1, <1>9, <1>11, <1>12, <1>14 DEF PrefixHeld
  <2>2. DictHeld(sd, history)'
    <3>1. \A k \in 1 .. m : ~(n < k)
      BY <1>7, <1>8
    <3>2. \A k \in 1 .. Len(v) : ~(s.prefixSize < k)
      BY <1>9, <1>12, <3>1
    <3>3. v = history' /\ s = sd'
      BY <1>1, <1>11
    <3> QED
      BY ONLY <3>2, <3>3 DEF DictHeld
  <2>3. Placed(sd, history, BUF)' <=> Placed(s, v, BUF)
    BY <1>1, <1>4, <1>11 DEF Placed, InFront, Before, LastLap
  <2> QED
    BY <1>12, <2>1, <2>2, <2>3
<1>16. Reached(at, blocks)'
  BY <1>4 DEF DecodedWindow, Reached
<1>17. DecodeIdle' /\ DOMAIN mem' = 1 .. TOP /\ (IF layout = "one" THEN BUF ELSE at)' = BUF
  BY <1>3, <1>4, <1>5 DEF DecodeIdle, With
<1>18. Len(v) <= DISTANCE_MAX
  BY <1>5, <1>6, <1>8, <1>9
<1> QED
  BY <1>1, <1>4, <1>9, <1>13, <1>15, <1>16, <1>17, <1>18 DEF DecodedWindow

LEMMA DecodeStep ==
  ASSUME DecodeInv, RingHasSize, [Next]_streamVars
  PROVE  DecodeInv'
<1>1. CASE UNCHANGED streamVars
  <2>1. UNCHANGED <<stream, mem, history, layout, at, status, unsaved, blocks, sd, decoding>>
    BY <1>1 DEF streamVars, userVars, sdVars
  <2>2. /\ DecodeIdle' <=> DecodeIdle
        /\ DecodedWindow' <=> DecodedWindow
    BY <2>1 DEF DecodeIdle, DecodedWindow, SdOK, Reached, PrefixHeld, DictHeld, DictAddress, Byte,
                Placed, InFront, Before, LastLap
  <2>3. DecodedBlock' <=> DecodedBlock
    BY <2>1 DEF DecodedBlock, References, Switching, Rolling, Reached, DictHeld, DictAddress, Byte,
                Placed, InFront, Before, LastLap
  <2> QED
    BY <2>1, <2>2, <2>3 DEF DecodeInv
<1>2. CASE Next /\ stream # "decoder"
  <2>1. stream' = stream /\ decoding' = decoding
    BY <1>2 DEF Next, Fast, Hc, Decoder, sdVars
  <2> QED
    BY <1>2, <2>1 DEF DecodeInv, DecodeIdle
<1>3. CASE Next /\ stream = "decoder"
  <2>1. DecodedWindow /\ (~DecodeIdle => DecodedBlock)
    BY <1>3 DEF DecodeInv
  <2>2. /\ stream' = "decoder"
        /\ \/ \E n, room \in DecodeSizes : DecodeContinue(n, room)
           \/ DecodeReturned \/ DecodeFailed
           \/ \E n \in DictSizes \union {0} : SetStreamDecode(n)
           \/ \E n \in SaveSizes : SaveDecoded(n)
    BY <1>3 DEF Next, Fast, Hc, Decoder
  <2>3. CASE \E n, room \in DecodeSizes : DecodeContinue(n, room)
    <3>1. DecodedWindow' /\ DecodedBlock'
      BY <2>1, <2>3, DecodeContinueKeeps
    <3> QED
      BY <2>2, <3>1 DEF DecodeInv
  <2>4. CASE DecodeReturned
    <3>1. ~DecodeIdle
      BY <2>4 DEF DecodeReturned
    <3>2. DecodeIdle' /\ DecodedWindow'
      BY <2>1, <2>4, <3>1, DecodeReturnedKeeps
    <3> QED
      BY <2>2, <3>2 DEF DecodeInv
  <2>5. CASE DecodeFailed
    <3>1. ~DecodeIdle
      BY <2>5 DEF DecodeFailed
    <3>2. DecodeIdle' /\ DecodedWindow'
      BY <2>1, <2>5, <3>1, DecodeFailedKeeps
    <3> QED
      BY <2>2, <3>2 DEF DecodeInv
  <2>6. CASE \E n \in DictSizes \union {0} : SetStreamDecode(n)
    <3>1. DecodeIdle' /\ DecodedWindow'
      BY <2>1, <2>6, SetStreamDecodeKeeps
    <3> QED
      BY <2>2, <3>1 DEF DecodeInv
  <2>7. CASE \E n \in SaveSizes : SaveDecoded(n)
    <3>1. DecodeIdle' /\ DecodedWindow'
      BY <2>1, <2>7, SaveDecodedKeeps
    <3> QED
      BY <2>2, <3>1 DEF DecodeInv
  <2> QED
    BY <2>2, <2>3, <2>4, <2>5, <2>6, <2>7
<1> QED
  BY <1>1, <1>2, <1>3

(* WithinReachInPlace: whatever a block may refer to, at any distance      *)
(* within Reach, is still where LZ4_decompress_safe_continue looks for it  *)
(* when it gets there, and is what was decoded: after the ring has wrapped *)
(* around or the buffer was changed, with what was saved, and although     *)
(* copies in pieces write further than they should.                        *)
THEOREM DecoderFindsHistory ==
  ASSUME RingHasSize
  PROVE  Spec => []WithinReachInPlace
<1>1. Init => DecodeInv
  <2>1. Init => DecodeIdle
    BY DEF Init, DecodeInit, DecodeIdle
  <2> QED
    BY <2>1, DecodeInits DEF DecodeInv
<1>2. DecodeInv /\ [Next]_streamVars => DecodeInv'
  BY DecodeStep
<1>3. DecodeInv => WithinReachInPlace
  <2>1. DecodeIdle => WithinReachInPlace
    BY DEF WithinReachInPlace
  <2> QED
    BY <2>1, DecodedShows DEF DecodeInv
<1> QED
  BY <1>1, <1>2, <1>3, PTL DEF Spec

(* No copy of a block writes further than the margin of its ring allows:   *)
(* the loop for fast decoding is not built, or has too little room.        *)
MarginHolds ==
  /\ OVERSHOOT <= RING_MARGIN + 2
  /\ FAST_OVERSHOOT <= RING_MARGIN + 2 \/ \A room \in DecodeSizes : room < FASTLOOP_SAFE_DISTANCE

(* HistoryInPlace, the same at any distance at all: what lz4.h:467-471     *)
(* says of rings is true without the loop for fast decoding, and of all    *)
(* other layouts.                                                          *)
THEOREM DecoderFindsAll ==
  ASSUME RingHasSize, "own" \in Layouts => MarginHolds
  PROVE  Spec => []HistoryInPlace
<1>1. Init => DecodeInv
  <2>1. Init => DecodeIdle
    BY DEF Init, DecodeInit, DecodeIdle
  <2> QED
    BY <2>1, DecodeInits DEF DecodeInv
<1>2. DecodeInv /\ [Next]_streamVars => DecodeInv'
  BY DecodeStep
<1>3. DecodeInv => HistoryInPlace
  <2>1. DecodeIdle => HistoryInPlace
    BY DEF HistoryInPlace
  <2>2. ASSUME DecodeInv, ~DecodeIdle
        PROVE  HistoryInPlace
    <3>1. DecodedWindow /\ DecodedBlock /\ WithinReachInPlace
      BY <2>2, DecodedShows DEF DecodeInv
    <3>2. Reach = DISTANCE_MAX
      <4>1. PICK most : /\ Overshoot(most)
                        /\ Reach = IF layout = "own" /\ most > RING_MARGIN + 2
                                     THEN DISTANCE_MAX + RING_MARGIN + 2 - most ELSE DISTANCE_MAX
        BY ReachIs
      <4>2. layout \in Layouts /\ decoding.room \in DecodeSizes
        BY <3>1 DEF DecodedWindow, DecodedBlock
      <4>3. layout = "own" => ~(most > RING_MARGIN + 2)
        <5>1. SUFFICES ASSUME layout = "own"
                       PROVE  ~(most > RING_MARGIN + 2)
          OBVIOUS
        <5>2. MarginHolds
          BY <4>2, <5>1
        <5>3. PICK room : room = decoding.room
          OBVIOUS
        <5>4. /\ OVERSHOOT <= RING_MARGIN + 2
              /\ FAST_OVERSHOOT <= RING_MARGIN + 2 \/ room < FASTLOOP_SAFE_DISTANCE
          BY <4>2, <5>2, <5>3 DEF MarginHolds
        <5>5. /\ most \in Nat
              /\ most = OVERSHOOT \/ (room >= FASTLOOP_SAFE_DISTANCE /\ most = FAST_OVERSHOOT)
          BY <4>1, <5>3 DEF Overshoot, FastLoop
        <5>6. room \in Nat
          BY <4>2, <5>3, DecodeNumbers
        <5> QED
          BY ONLY <5>4, <5>5, <5>6, DecodeNumbers
      <4> QED
        BY <4>1, <4>3
    <3>3. Min({Len(history), Reach}) = Len(history)
      <4>1. PICK len : len = Len(history)
        OBVIOUS
      <4>2. len \in Int /\ len <= DISTANCE_MAX /\ DISTANCE_MAX \in Int
        BY <3>1, <4>1, DecodeNumbers, LenProperties DEF DecodedWindow, IsSequence
      <4> QED
        BY ONLY <3>2, <4>1, <4>2, MinIs
    <3> QED
      BY <3>1, <3>2, <3>3 DEF WithinReachInPlace, HistoryInPlace
  <2> QED
    BY <2>1, <2>2
<1> QED
  BY <1>1, <1>2, <1>3, PTL DEF Spec
==============================================================================
