-------------------------- MODULE FilterChooserProofs --------------------------
(***************************************************************************)
(* FilterChooser keeps its type, chooses the best filter of every line,    *)
(* the first after the guess when several are best, and implements         *)
(* BestFilter, for every extent of the space and every way to price an     *)
(* error that CostAssumption admits.                                       *)
(*                                                                         *)
(* The heart of the inductive invariant is Tried: after m candidates the   *)
(* function holds the first one that none of them beats, by its complete   *)
(* sum, although the others may have been given up early.                  *)
(***************************************************************************)
EXTENDS FilterChooser, TLAPS

(* Where the search for the filter of the current line starts.             *)
Start == IF method = "new" THEN lastBest ELSE 0

(* The i-th filter after g, around the table.                              *)
After(g, i) == (i + g) % FILTERS_CNT

(* What line l costs under each filter, in the order of the trials.        *)
Costs(l, g) == [i \in FilterId |-> LineCost(l, After(g, i))]

(* w is the first of the least among the first m.                          *)
FirstLeast(c, w, m) ==
  /\ w \in 0 .. m - 1
  /\ \A i \in 0 .. m - 1 : c[w] <= c[i] /\ (i < w => c[w] < c[i])

Tried(m) ==
  IF m = 0 THEN bestSum = MAXSUM
  ELSE \E w \in FilterId : /\ FirstLeast(Costs(line, Start), w, m)
                           /\ bestFilter = After(Start, w)
                           /\ bestSum = Costs(line, Start)[w]

(* The line l has the first of the best filters after the guess.           *)
WellChosen(l) ==
  \E w \in FilterId : /\ FirstLeast(Costs(l, Guess(l)), w, FILTERS_CNT)
                      /\ filters[l] = After(Guess(l), w)

(* The lines that the running call has seen, or the last call saw.         *)
Seen == {l \in Lines : (phase # "idle" => l > line) /\ method # "none"}

Place ==
  phase # "idle" => z \in 0 .. ZS - 1 /\ y \in 0 .. YS - 1 /\ method \in Methods

Starts ==
  phase # "idle" /\ method = "new" =>
    lastBest = IF y = YS - 1 THEN 0 ELSE filters[line + 1]

(* The running sum is the true one, over whole voxels in the old function. *)
Summing ==
  phase \in {"sum", "compare"} =>
    /\ f \in FilterId
    /\ sum = SumOf(n)
    /\ method = "old" => \E v \in 0 .. XS : n = v * BPV
    /\ phase = "compare" => sum > bestSum
    /\ Tried(f)

Assigning == phase = "assign" => Tried(FILTERS_CNT)

Chosen == \A l \in Seen : filters[l] \in FilterId /\ WellChosen(l)

IInv == TypeOK /\ Place /\ Starts /\ Summing /\ Assigning /\ Chosen

(* Multiplication by a natural number is monotonic.                        *)
LEMMA TimesMono ==
  ASSUME NEW q \in Nat, NEW r \in Nat, NEW radix \in Nat, q <= r
  PROVE  q * radix <= r * radix
<1> DEFINE d == r - q
<1>1. d \in Nat /\ r = q + d
  OBVIOUS
<1>2. d * radix \in Nat
  BY <1>1
<1>3. (q + d) * radix = q * radix + d * radix
  BY <1>1
<1> QED
  BY <1>1, <1>2, <1>3

(* A digit r below the radix: the number is below the next multiple.       *)
LEMMA RadixStep ==
  ASSUME NEW q \in Nat, NEW p \in Nat, NEW radix \in Nat, NEW r \in 0 .. radix - 1, q < p
  PROVE  q * radix + r < p * radix
<1>1. (q + 1) * radix <= p * radix
  BY TimesMono
<1>2. (q + 1) * radix = q * radix + radix
  OBVIOUS
<1>3. q * radix \in Int /\ p * radix \in Int
  OBVIOUS
<1> QED
  BY <1>1, <1>2, <1>3

(* A two-digit number is in range.                                         *)
LEMMA RadixBounds ==
  ASSUME NEW m \in Nat, NEW radix \in Nat, NEW q \in 0 .. m - 1, NEW r \in 0 .. radix - 1
  PROVE  q * radix + r \in 0 .. m * radix - 1
<1>1. q * radix + r < m * radix
  BY RadixStep
<1>2. q * radix \in Nat /\ m * radix \in Nat
  OBVIOUS
<1> QED
  BY <1>1, <1>2

(* The digits of a two-digit number are unique.                            *)
LEMMA RadixUnique ==
  ASSUME NEW radix \in Nat, NEW q \in Nat, NEW p \in Nat,
         NEW r \in 0 .. radix - 1, NEW s \in 0 .. radix - 1,
         q * radix + r = p * radix + s
  PROVE  q = p /\ r = s
<1>0. q * radix \in Nat /\ p * radix \in Nat
  OBVIOUS
<1>1. ~(q < p)
  <2>1. ASSUME q < p PROVE FALSE
    <3>1. q * radix + r < p * radix
      BY <2>1, RadixStep
    <3> QED
      BY <3>1, <1>0
  <2> QED BY <2>1
<1>2. ~(p < q)
  <2>1. ASSUME p < q PROVE FALSE
    <3>1. p * radix + s < q * radix
      BY <2>1, RadixStep
    <3> QED
      BY <3>1, <1>0
  <2> QED BY <2>1
<1>3. q = p
  BY <1>1, <1>2
<1> QED
  BY <1>3, <1>0

-----------------------------------------------------------------------------
(* Filters around the table.                                               *)
LEMMA AfterFilter ==
  ASSUME NEW g \in FilterId, NEW i \in FilterId
  PROVE  After(g, i) \in FilterId /\ (After(g, i) - g) % FILTERS_CNT = i
  BY DEF After, FilterId, FILTERS_CNT

(* Every filter is the one after some other.                               *)
LEMMA AfterOnto ==
  ASSUME NEW g \in FilterId, NEW h \in FilterId
  PROVE  \E i \in FilterId : After(g, i) = h
<1> DEFINE i == IF h >= g THEN h - g ELSE h - g + 9
<1> i \in FilterId /\ After(g, i) = h
  BY DEF After, FilterId, FILTERS_CNT
<1> QED
  OBVIOUS

(* The next candidate wins if it is strictly less, and loses otherwise.    *)
LEMMA FirstLeastStep ==
  ASSUME NEW c \in [FilterId -> Nat], NEW m \in FilterId, NEW w \in FilterId,
         FirstLeast(c, w, m)
  PROVE  /\ c[m] < c[w] => FirstLeast(c, m, m + 1)
         /\ ~(c[m] < c[w]) => FirstLeast(c, w, m + 1)
  BY DEF FirstLeast, FilterId, FILTERS_CNT

(* The only candidate so far is the first of the least.                    *)
LEMMA FirstLeastOne ==
  ASSUME NEW c \in [FilterId -> Nat]
  PROVE  FirstLeast(c, 0, 1)
  BY DEF FirstLeast, FilterId, FILTERS_CNT

(* Quotient and remainder.                                                 *)
LEMMA DivMod ==
  ASSUME NEW b \in Nat, b > 0, NEW i \in Nat
  PROVE  /\ i \div b \in Nat /\ i % b \in 0 .. b - 1
         /\ (i \div b) * b + (i % b) = i
  OBVIOUS

(* Lines are numbered plane by plane.                                      *)
LEMMA LineNumber ==
  ASSUME NEW p \in 0 .. ZS - 1, NEW q \in 0 .. YS - 1
  PROVE  /\ p * YS + q \in Lines /\ p * YS + q \in Nat
         /\ (p * YS + q) % YS = q
<1> DEFINE l == p * YS + q
<1>1. YS \in Nat /\ ZS \in Nat /\ p \in Nat /\ YS > 0
  BY ExtentsAssumption
<1>2. l \in 0 .. ZS * YS - 1
  BY <1>1, RadixBounds
<1>3. ZS * YS = YS * ZS
  BY <1>1
<1>4. l \in Lines /\ l \in Nat
  BY <1>2, <1>3 DEF Lines
<1>5. /\ l \div YS \in Nat /\ l % YS \in 0 .. YS - 1
      /\ (l \div YS) * YS + (l % YS) = l
  BY <1>1, <1>4, DivMod
<1>6. l % YS = q
  BY <1>1, <1>5, RadixUnique
<1> QED
  BY <1>4, <1>6

(* What CostAssumption says of the sums of one line under one filter.      *)
LEMMA CostFacts ==
  ASSUME NEW m \in Methods, NEW i \in Images, NEW l \in Lines, NEW g \in FilterId
  PROVE  /\ LineBytes \in Nat
         /\ \A k \in 0 .. LineBytes : Cost[m][i][l][g][k] \in 0 .. MAXSUM - 1
         /\ Cost[m][i][l][g][0] = 0
         /\ \A k, j \in 0 .. LineBytes :
               k <= j => Cost[m][i][l][g][k] <= Cost[m][i][l][g][j]
<1>1. LineBytes \in Nat
  BY ExtentsAssumption DEF LineBytes
<1> QED
  BY <1>1, CostAssumption

(* Complete sums are natural numbers below MAXSUM.                         *)
LEMMA CostsType ==
  ASSUME TypeOK, method \in Methods, NEW l \in Lines, NEW g \in FilterId
  PROVE  /\ Costs(l, g) \in [FilterId -> Nat]
         /\ \A i \in FilterId : Costs(l, g)[i] < MAXSUM
<1>1. ASSUME NEW i \in FilterId
      PROVE  LineCost(l, After(g, i)) \in 0 .. MAXSUM - 1
  BY AfterFilter, CostFacts DEF TypeOK, LineCost
<1> QED
  BY <1>1, CostAssumption DEF Costs

(* Below a line that is not the last of its plane there is another one.    *)
LEMMA NextLine ==
  ASSUME NEW l \in Lines, l % YS # YS - 1
  PROVE  l + 1 \in Lines
<1> DEFINE q == l \div YS
           r == l % YS
<1>1. YS \in Nat /\ ZS \in Nat /\ YS > 0 /\ l \in Nat
  <2>1. YS \in Nat /\ ZS \in Nat /\ l \in Nat /\ l <= YS * ZS - 1
    BY ExtentsAssumption DEF Lines
  <2>2. ASSUME YS = 0 PROVE FALSE
    <3>1. YS * ZS = 0
      BY <2>1, <2>2
    <3> QED
      BY <2>1, <3>1
  <2> QED
    BY <2>1, <2>2
<1>2. q \in Nat /\ r \in 0 .. YS - 1 /\ q * YS + r = l
  BY <1>1, DivMod
<1>3. r # YS - 1
  OBVIOUS
<1> HIDE DEF q, r
<1> DEFINE s == r + 1
           o == 0
<1>4. s \in 0 .. YS - 1 /\ o \in 0 .. YS - 1
  BY <1>1, <1>2, <1>3
<1>5. ASSUME l + 1 = YS * ZS PROVE FALSE
  <2>1. q * YS + s = ZS * YS + o
    <3> DEFINE a == q * YS
               c == ZS * YS
    <3>1. a \in Nat /\ c \in Nat /\ c = YS * ZS
      BY <1>1, <1>2
    <3>2. a + r = l
      BY <1>2
    <3> HIDE DEF a, c
    <3>3. a + (r + 1) = c + 0
      BY <1>1, <1>2, <1>5, <3>1, <3>2
    <3> QED
      BY <3>3 DEF a, c
  <2> HIDE DEF s, o
  <2>2. s = o
    BY <1>1, <1>2, <1>4, <2>1, RadixUnique
  <2> QED
    BY <2>2, <1>2 DEF s, o
<1> QED
  BY <1>1, <1>5 DEF Lines

-----------------------------------------------------------------------------
(* A step that leaves the choices alone keeps those that were seen.        *)
LEMMA ChosenFrame ==
  ASSUME Chosen, UNCHANGED <<image, filters, method>>, Seen' \subseteq Seen
  PROVE  Chosen'
  BY DEF Chosen, WellChosen, Guess, Costs, LineCost, After

(* The invariant holds before the first call.                              *)
LEMMA InitIInv == Init => IInv
<1> SUFFICES ASSUME Init PROVE IInv
  OBVIOUS
<1>1. LineBytes \in Nat /\ MAXSUM \in Nat
  BY ExtentsAssumption, CostAssumption DEF LineBytes
<1>2. TypeOK
  BY <1>1, CostAssumption DEF Init, TypeOK, FilterId, FILTERS_CNT
<1> QED
  BY <1>2 DEF Init, IInv, Place, Starts, Summing, Assigning, Chosen, Seen

(* The current line, and what is tried on it.                              *)
LEMMA Current ==
  ASSUME IInv, phase # "idle"
  PROVE  /\ line \in Lines /\ line \in Nat /\ line % YS = y
         /\ Start \in FilterId
         /\ \A i \in FilterId : Candidate(i) = After(Start, i)
<1>1. line \in Lines /\ line \in Nat /\ line % YS = y
  BY LineNumber DEF IInv, Place, line
<1>2. Start \in FilterId
  BY DEF IInv, TypeOK, Start, FilterId, FILTERS_CNT
<1>3. ASSUME NEW i \in FilterId PROVE Candidate(i) = After(Start, i)
  BY DEF Candidate, After, Start, FilterId, FILTERS_CNT
<1> QED
  BY <1>1, <1>2, <1>3

(* A call starts on the last line, with nothing chosen.                    *)
LEMMA CallStep ==
  ASSUME IInv, NEW m \in Methods, Call(m)
  PROVE  IInv'
<1>1. YS \in Nat /\ ZS \in Nat /\ YS > 0 /\ ZS > 0
  BY ExtentsAssumption DEF Call
<1>2. TypeOK'
  BY <1>1 DEF IInv, TypeOK, Call, FilterId, FILTERS_CNT
<1>3. Place' /\ Starts' /\ Summing' /\ Assigning'
  BY <1>1 DEF IInv, Call, Place, Starts, Summing, Assigning
<1>4. Seen' = {}
  <2>1. line' = YS * ZS - 1
    <3>1. line' = (ZS - 1) * YS + (YS - 1)
      BY DEF line, Call
    <3>2. (ZS - 1) * YS = ZS * YS - YS /\ ZS * YS = YS * ZS /\ ZS * YS \in Nat
      BY <1>1
    <3> QED
      BY <3>1, <3>2, <1>1
  <2>2. YS * ZS \in Nat
    BY <1>1
  <2>3. \A l \in Lines : ~(l > YS * ZS - 1)
    BY <2>2 DEF Lines
  <2> QED
    BY <2>1, <2>3 DEF Seen, Call
<1>5. Chosen'
  BY <1>4 DEF Chosen
<1> QED
  BY <1>2, <1>3, <1>5 DEF IInv

(* A line starts with the guess, or with filter 0.                         *)
LEMMA StartLineStep ==
  ASSUME IInv, StartLine
  PROVE  IInv'
<1>1. LineBytes \in Nat /\ MAXSUM \in Nat /\ XS \in Nat /\ BPV \in Nat
  BY ExtentsAssumption, CostAssumption DEF LineBytes
<1>2. TypeOK'
  BY <1>1 DEF IInv, TypeOK, StartLine, FilterId, FILTERS_CNT
<1>3. Place' /\ Starts' /\ Assigning'
  BY DEF IInv, StartLine, Place, Starts, Assigning, line
<1>4. Summing'
  <2>1. SumOf(0)' = 0
    <3>1. Candidate(0) \in FilterId /\ line \in Lines
      BY Current, AfterFilter DEF StartLine, FilterId, FILTERS_CNT
    <3>2. Cost[method][image][line][Candidate(0)][0] = 0
      BY <3>1, CostFacts DEF IInv, TypeOK, Place, StartLine
    <3> QED
      BY <3>2 DEF SumOf, StartLine, Candidate, line
  <2>2. 0 = 0 * BPV
    BY <1>1
  <2>3. Tried(0)'
    BY DEF Tried, StartLine
  <2> QED
    BY <1>1, <2>1, <2>2, <2>3 DEF Summing, StartLine, FilterId, FILTERS_CNT
<1>5. Chosen'
  BY ChosenFrame DEF IInv, Seen, StartLine, line
<1> QED
  BY <1>2, <1>3, <1>4, <1>5 DEF IInv


(* The sums of the current candidate.                                      *)
LEMMA CurrentSums ==
  ASSUME IInv, phase \in {"sum", "compare"}
  PROVE  /\ LineBytes \in Nat
         /\ \A k \in 0 .. LineBytes : SumOf(k) \in 0 .. MAXSUM - 1
         /\ SumOf(0) = 0
         /\ SumOf(n) <= SumOf(LineBytes)
         /\ SumOf(LineBytes) = Costs(line, Start)[f]
<1>1. f \in FilterId /\ method \in Methods /\ image \in Images
  BY DEF IInv, Summing, Place, TypeOK
<1>2. line \in Lines /\ Candidate(f) \in FilterId /\ Candidate(f) = After(Start, f)
  BY <1>1, Current, AfterFilter
<1>3. n \in 0 .. LineBytes /\ LineBytes \in Nat
  BY ExtentsAssumption DEF IInv, TypeOK, LineBytes
<1>4. Costs(line, Start)[f] = SumOf(LineBytes)
  BY <1>1, <1>2 DEF Costs, LineCost, SumOf
<1>5. /\ \A k \in 0 .. LineBytes : SumOf(k) \in 0 .. MAXSUM - 1
      /\ SumOf(0) = 0
      /\ SumOf(n) <= SumOf(LineBytes)
  BY <1>1, <1>2, <1>3, CostFacts DEF SumOf
<1> QED
  BY <1>3, <1>4, <1>5

(* OptimizeFilters_old adds the errors of a whole voxel.                   *)
LEMMA AddVoxelStep ==
  ASSUME IInv, AddVoxel
  PROVE  IInv'
<1>1. /\ LineBytes \in Nat /\ n \in 0 .. LineBytes
      /\ f \in FilterId /\ Tried(f) /\ sum = SumOf(n)
  BY CurrentSums DEF IInv, TypeOK, Summing, AddVoxel
<1>2. \E v \in 0 .. XS : n' = v * BPV /\ n' \in 0 .. LineBytes
  <2>1. PICK v \in 0 .. XS : n = v * BPV
    BY DEF IInv, Summing, AddVoxel
  <2>2. XS \in Nat /\ BPV \in Nat /\ v \in Nat
    BY ExtentsAssumption
  <2>3. v < XS
    BY <2>1, <2>2 DEF AddVoxel, LineBytes
  <2>4. (v + 1) * BPV = v * BPV + BPV
    BY <2>2
  <2>5. (v + 1) * BPV <= XS * BPV
    BY <2>2, <2>3, TimesMono
  <2>6. v + 1 \in 0 .. XS /\ (v + 1) * BPV \in Nat
    BY <2>2, <2>3
  <2>7. n' = (v + 1) * BPV
    BY <2>1, <2>4 DEF AddVoxel
  <2>8. n' \in 0 .. LineBytes
    BY <2>2, <2>5, <2>6, <2>7 DEF LineBytes
  <2> QED
    BY <2>6, <2>7, <2>8
<1>3. sum' = SumOf(n') /\ sum' \in Nat
  <2>1. SumOf(n') \in 0 .. MAXSUM - 1 /\ SumOf(n) \in 0 .. MAXSUM - 1
    BY <1>1, <1>2, CurrentSums DEF AddVoxel
  <2>2. sum' = SumOf(n) + (SumOf(n') - SumOf(n))
    BY <1>1 DEF AddVoxel
  <2> QED
    BY <2>1, <2>2
<1>4. SumOf(n)' = SumOf(n')
  BY DEF SumOf, Candidate, line, AddVoxel
<1>5. TypeOK'
  BY <1>2, <1>3 DEF IInv, TypeOK, AddVoxel
<1>6. Place' /\ Starts' /\ Assigning'
  BY DEF IInv, AddVoxel, Place, Starts, Assigning, line
<1>7. Tried(f)'
  BY <1>1 DEF AddVoxel, Tried, Costs, LineCost, Start, line, After
<1>8. Summing'
  BY <1>1, <1>2, <1>3, <1>4, <1>7 DEF Summing, AddVoxel
<1>9. Chosen'
  BY ChosenFrame DEF IInv, Seen, AddVoxel, line
<1> QED
  BY <1>5, <1>6, <1>8, <1>9 DEF IInv

(* OptimizeFilters adds the error of one byte.                             *)
LEMMA AddByteStep ==
  ASSUME IInv, AddByte
  PROVE  IInv'
<1>1. /\ LineBytes \in Nat /\ n \in 0 .. LineBytes
      /\ f \in FilterId /\ Tried(f) /\ sum = SumOf(n)
  BY CurrentSums DEF IInv, TypeOK, Summing, AddByte
<1>2. n' \in 0 .. LineBytes
  BY <1>1 DEF AddByte
<1>3. sum' = SumOf(n') /\ sum' \in Nat
  <2>1. SumOf(n') \in 0 .. MAXSUM - 1 /\ SumOf(n) \in 0 .. MAXSUM - 1
    BY <1>1, <1>2, CurrentSums DEF AddByte
  <2>2. sum' = SumOf(n) + (SumOf(n') - SumOf(n))
    BY <1>1 DEF AddByte
  <2> QED
    BY <2>1, <2>2
<1>4. SumOf(n)' = SumOf(n')
  BY DEF SumOf, Candidate, line, AddByte
<1>5. TypeOK'
  BY <1>2, <1>3 DEF IInv, TypeOK, AddByte
<1>6. Place' /\ Starts' /\ Assigning'
  BY DEF IInv, AddByte, Place, Starts, Assigning, line
<1>7. Tried(f)'
  BY <1>1 DEF AddByte, Tried, Costs, LineCost, Start, line, After
<1>8. Summing'
  BY <1>1, <1>3, <1>4, <1>7 DEF Summing, AddByte
<1>9. Chosen'
  BY ChosenFrame DEF IInv, Seen, AddByte, line
<1> QED
  BY <1>5, <1>6, <1>8, <1>9 DEF IInv


(* A candidate is compared by its complete sum, or beaten all the same.    *)
LEMMA CompareSum ==
  ASSUME IInv, Compare
  PROVE  /\ f \in FilterId /\ Tried(f)
         /\ Better <=> Costs(line, Start)[f] < bestSum
         /\ Better => sum = Costs(line, Start)[f]
<1>1. phase \in {"sum", "compare"}
  BY DEF Compare, EndOfSum
<1>2. f \in FilterId /\ Tried(f) /\ sum = SumOf(n) /\ (phase = "compare" => sum > bestSum)
  BY <1>1 DEF IInv, Summing
<1> DEFINE total == Costs(line, Start)[f]
<1>3. sum <= total /\ (n = LineBytes => sum = total)
  BY <1>1, <1>2, CurrentSums
<1>4. total \in Nat /\ sum \in Nat /\ bestSum \in Nat
  <2>1. n \in 0 .. LineBytes
    BY DEF IInv, TypeOK
  <2> QED
    BY <1>1, <1>2, <2>1, CurrentSums, CostAssumption DEF IInv, TypeOK
<1> HIDE DEF total
<1>5. CASE n = LineBytes
  BY <1>2, <1>3, <1>5 DEF Better, total
<1>6. CASE sum >= bestSum
  BY <1>2, <1>3, <1>4, <1>6 DEF Better, total
<1>7. n = LineBytes \/ sum >= bestSum
  BY <1>2, <1>4 DEF Compare, EndOfSum
<1> QED
  BY <1>5, <1>6, <1>7

(* A finished candidate replaces the best one or not.                      *)
LEMMA CompareStep ==
  ASSUME IInv, Compare
  PROVE  IInv'
<1> DEFINE c == Costs(line, Start)
<1>1. /\ phase \in {"sum", "compare"} /\ f \in FilterId /\ Tried(f)
      /\ Better <=> c[f] < bestSum
      /\ Better => sum = c[f]
  BY CompareSum DEF Compare, EndOfSum
<1>2. /\ line \in Lines /\ Start \in FilterId /\ method \in Methods
      /\ \A i \in FilterId : Candidate(i) = After(Start, i)
  BY <1>1, Current DEF IInv, Place
<1>3. c \in [FilterId -> Nat] /\ \A i \in FilterId : c[i] < MAXSUM
  BY <1>2, CostsType DEF IInv
<1>4. f + 1 \in 1 .. FILTERS_CNT /\ f \in Nat
  BY <1>1 DEF FilterId, FILTERS_CNT
<1> HIDE DEF c
<1>5. \E w \in FilterId : /\ FirstLeast(c, w, f + 1)
                          /\ bestFilter' = After(Start, w)
                          /\ bestSum' = c[w]
  <2>1. CASE f = 0
    <3>1. Better
      BY <1>1, <1>3, <2>1 DEF Tried
    <3>2. FirstLeast(c, f, f + 1)
      BY <1>3, <2>1, FirstLeastOne
    <3> QED
      BY <1>1, <1>2, <3>1, <3>2 DEF Compare
  <2>2. CASE f # 0
    <3>1. PICK w \in FilterId : /\ FirstLeast(c, w, f)
                               /\ bestFilter = After(Start, w)
                               /\ bestSum = c[w]
      BY <1>1, <2>2 DEF Tried, c
    <3>2. CASE Better
      <4>1. FirstLeast(c, f, f + 1)
        BY <1>1, <1>3, <3>1, <3>2, FirstLeastStep
      <4> QED
        BY <1>1, <1>2, <3>2, <4>1 DEF Compare
    <3>3. CASE ~Better
      <4>1. FirstLeast(c, w, f + 1)
        BY <1>1, <1>3, <3>1, <3>3, FirstLeastStep
      <4> QED
        BY <3>1, <3>3, <4>1 DEF Compare
    <3> QED
      BY <3>2, <3>3
  <2> QED
    BY <2>1, <2>2
<1>6. c = Costs(line, Start)' /\ Start' = Start
  BY DEF c, Costs, LineCost, Start, line, After, Compare
<1>7. Tried(f)'
  <2>1. f' = f + 1
    BY DEF Compare
  <2> QED
    BY <1>4, <1>5, <1>6, <2>1 DEF Tried, After, FirstLeast
<1>8. TypeOK'
  <2>1. bestSum' \in 0 .. MAXSUM /\ bestFilter' \in FilterId
    BY <1>2, <1>3, <1>5, AfterFilter, CostAssumption
  <2>2. f' < FILTERS_CNT => f' \in FilterId
    BY <1>4 DEF Compare, FilterId, FILTERS_CNT
  <2>3. 0 \in 0 .. LineBytes
    BY ExtentsAssumption DEF LineBytes
  <2> QED
    BY <1>1, <2>1, <2>2, <2>3 DEF IInv, TypeOK, Compare
<1>9. Place' /\ Starts'
  BY <1>1 DEF IInv, Compare, Place, Starts, line
<1>10. Summing'
  <2> SUFFICES ASSUME f' < FILTERS_CNT, phase' = "sum" PROVE Summing'
    BY DEF Summing, Compare
  <2>1. f' \in FilterId
    BY <1>4 DEF Compare, FilterId, FILTERS_CNT
  <2>2. SumOf(0)' = 0
    <3>1. Candidate(f)' \in FilterId
      <4>1. Candidate(f)' = After(Start, f')
        BY <1>2, <2>1 DEF Candidate, Compare
      <4> QED
        BY <1>2, <2>1, <4>1, AfterFilter
    <3>2. Cost[method][image][line][Candidate(f)'][0] = 0
      BY <1>2, <3>1, CostFacts DEF IInv, TypeOK
    <3> QED
      BY <3>2 DEF SumOf, Compare, line
  <2>3. 0 \in 0 .. XS /\ 0 = 0 * BPV
    BY ExtentsAssumption
  <2> QED
    BY <1>7, <2>1, <2>2, <2>3 DEF Summing, Compare
<1>11. Assigning'
  <2> SUFFICES ASSUME f' = FILTERS_CNT PROVE Tried(FILTERS_CNT)'
    BY <1>4 DEF Assigning, Compare, FILTERS_CNT
  <2> QED
    BY <1>7 DEF Tried
<1>12. Chosen'
  BY <1>1, ChosenFrame DEF IInv, Seen, Compare, line
<1> QED
  BY <1>8, <1>9, <1>10, <1>11, <1>12 DEF IInv


(* After the last candidate the best filter of the line is known.          *)
LEMMA AssignFacts ==
  ASSUME IInv, Assign
  PROVE  /\ bestFilter \in FilterId
         /\ \E w \in FilterId : /\ FirstLeast(Costs(line, Start), w, FILTERS_CNT)
                                /\ bestFilter = After(Start, w)
         /\ YS \in Nat /\ ZS \in Nat
         /\ y \in 0 .. YS - 1 /\ z \in 0 .. ZS - 1
         /\ line \in Lines /\ line \in Nat /\ line % YS = y
         /\ method \in Methods
         /\ method = "new" => lastBest = IF y = YS - 1 THEN 0 ELSE filters[line + 1]
<1>1. bestFilter \in FilterId
  BY DEF IInv, TypeOK
<1>2. Tried(FILTERS_CNT)
  BY DEF IInv, Assigning, Assign
<1>3. line \in Lines /\ line \in Nat /\ line % YS = y
  BY Current DEF Assign
<1>4. /\ YS \in Nat /\ ZS \in Nat
      /\ y \in 0 .. YS - 1 /\ z \in 0 .. ZS - 1
      /\ method \in Methods
  BY ExtentsAssumption DEF IInv, Place, Assign
<1>5. method = "new" => lastBest = IF y = YS - 1 THEN 0 ELSE filters[line + 1]
  BY DEF IInv, Starts, Assign
<1> QED
  BY <1>1, <1>2, <1>3, <1>4, <1>5 DEF Tried, FILTERS_CNT

(* The loops step to the line before.                                      *)
LEMMA LineBefore ==
  ASSUME IInv, Assign
  PROVE  /\ phase' # "idle" => line' = line - 1
         /\ phase' = "idle" <=> line = 0
         /\ phase' \in {"line", "idle"}
<1>1. /\ YS \in Nat /\ ZS \in Nat /\ y \in 0 .. YS - 1 /\ z \in 0 .. ZS - 1
      /\ phase' = IF z > 0 \/ y > 0 THEN "line" ELSE "idle"
      /\ IF y > 0 THEN y' = y - 1 /\ z' = z ELSE y' = YS - 1 /\ z' = z - 1
  BY AssignFacts DEF Assign, LinesLeft
<1>2. z \in Nat /\ z * YS \in Nat /\ (z - 1) * YS = z * YS - YS
  BY <1>1
<1>3. line' = line - 1
  <2>1. CASE y > 0
    BY <1>1, <1>2, <2>1 DEF line
  <2>2. CASE ~(y > 0)
    <3>1. line' = (z - 1) * YS + (YS - 1) /\ line = z * YS /\ y = 0
      BY <1>1, <1>2, <2>2 DEF line
    <3> QED
      BY <1>1, <1>2, <3>1
  <2> QED
    BY <2>1, <2>2
<1>4. line = 0 <=> z = 0 /\ y = 0
  <2>1. z = 0 => z * YS = 0
    BY <1>1
  <2>2. z > 0 => z * YS >= YS
    <3>1. z > 0 => 1 * YS <= z * YS
      BY <1>1, <1>2, TimesMono
    <3> QED
      BY <1>1, <1>2, <3>1
  <2> QED
    BY <1>1, <1>2, <2>1, <2>2 DEF line
<1> QED
  BY <1>1, <1>3, <1>4

(* The best filter is stored and the loops go to the line before.          *)
LEMMA AssignStep ==
  ASSUME IInv, Assign
  PROVE  IInv'
<1>1. filters' = [filters EXCEPT ![line] = bestFilter] /\ filters \in [Lines -> Byte]
  BY DEF IInv, TypeOK, Assign
<1>2. bestFilter \in Byte
  BY AssignFacts DEF FilterId, FILTERS_CNT, Byte
<1>3. filters'[line] = bestFilter /\ \A l \in Lines \ {line} : filters'[l] = filters[l]
  BY <1>1, AssignFacts
<1>4. /\ YS \in Nat /\ ZS \in Nat /\ y \in 0 .. YS - 1 /\ z \in 0 .. ZS - 1
      /\ phase' = IF z > 0 \/ y > 0 THEN "line" ELSE "idle"
      /\ IF y > 0 THEN y' = y - 1 /\ z' = z ELSE y' = YS - 1 /\ z' = z - 1
      /\ UNCHANGED <<image, method>>
  BY AssignFacts DEF Assign, LinesLeft
<1>5. TypeOK'
  <2>1. filters' \in [Lines -> Byte]
    BY <1>1, <1>2
  <2>2. lastBest' \in FilterId
    BY AssignFacts DEF Assign, Inherited, FilterId, FILTERS_CNT
  <2>3. phase' # "idle" => z' \in 0 .. ZS - 1 /\ y' \in 0 .. YS - 1
    BY <1>4
  <2>4. UNCHANGED <<image, method, f, n, sum, bestSum, bestFilter>>
    BY DEF Assign
  <2>5. phase' \in {"line", "idle"}
    BY <1>4
  <2> QED
    BY <2>1, <2>2, <2>3, <2>4, <2>5 DEF IInv, TypeOK
<1>6. Place'
  <2>1. phase' # "idle" => z' \in 0 .. ZS - 1 /\ y' \in 0 .. YS - 1
    BY <1>4
  <2> QED
    BY <1>4, <2>1, AssignFacts DEF Place
<1>7. Starts'
  <2> SUFFICES ASSUME phase' # "idle"
               PROVE  lastBest' = IF y' = YS - 1 THEN 0 ELSE filters'[line' + 1]
    BY DEF Starts
  <2>1. line' + 1 = line
    BY LineBefore, AssignFacts
  <2>2. lastBest' = IF y > 0 THEN bestFilter ELSE 0
    BY DEF Assign, Inherited
  <2> QED
    BY <1>3, <1>4, <2>1, <2>2
<1>8. Summing' /\ Assigning'
  BY <1>4 DEF Summing, Assigning
<1>9. Chosen'
  <2>1. ASSUME NEW l \in Seen' PROVE l \in Lines /\ (l = line \/ l \in Seen)
    <3>1. l \in Lines /\ l \in Nat /\ (phase' # "idle" => l > line')
      BY <1>4, <2>1 DEF Seen, Lines
    <3>2. l >= line
      BY <3>1, LineBefore, AssignFacts
    <3>3. method # "none"
      BY AssignFacts, CostAssumption
    <3> QED
      BY <3>1, <3>2, <3>3, AssignFacts DEF Seen
  <2>2. ASSUME NEW l \in Lines, l >= line
        PROVE  Guess(l)' = Guess(l)
    <3>1. CASE l % YS = YS - 1
      BY <1>4, <3>1 DEF Guess
    <3>2. CASE l % YS # YS - 1
      <4>1. l + 1 \in Lines \ {line}
        BY <2>2, <3>2, NextLine, AssignFacts DEF Lines
      <4> QED
        BY <1>3, <1>4, <4>1 DEF Guess
    <3> QED
      BY <3>1, <3>2
  <2>3. ASSUME NEW l \in Lines, NEW g
        PROVE  Costs(l, g)' = Costs(l, g)
    BY <1>4 DEF Costs, LineCost, After
  <2>4. ASSUME NEW l \in Lines, NEW w \in FilterId, l >= line,
               FirstLeast(Costs(l, Guess(l)), w, FILTERS_CNT),
               filters'[l] = After(Guess(l), w)
        PROVE  WellChosen(l)'
    <3>1. Guess(l)' = Guess(l) /\ Costs(l, Guess(l))' = Costs(l, Guess(l))
      BY <1>4, <2>2, <2>4 DEF Costs, LineCost, After
    <3> QED
      BY <2>4, <3>1 DEF WellChosen, FirstLeast, After
  <2>5. ASSUME NEW l \in Lines, l = line
        PROVE  filters'[l] \in FilterId /\ WellChosen(l)'
    <3>1. Guess(l) = Start
      BY <2>5, AssignFacts DEF Guess, Start
    <3>2. PICK w \in FilterId : /\ FirstLeast(Costs(line, Start), w, FILTERS_CNT)
                               /\ bestFilter = After(Start, w)
      BY AssignFacts
    <3>3. l >= line
      BY <2>5, AssignFacts
    <3> QED
      BY <1>3, <2>4, <2>5, <3>1, <3>2, <3>3, AssignFacts
  <2>6. ASSUME NEW l \in Seen
        PROVE  filters'[l] \in FilterId /\ WellChosen(l)'
    <3>1. l \in Lines /\ l \in Nat /\ l > line
      BY DEF Seen, Assign, Lines
    <3>2. filters'[l] = filters[l]
      BY <1>3, <3>1, AssignFacts
    <3>3. filters[l] \in FilterId /\ WellChosen(l)
      BY DEF IInv, Chosen
    <3>4. PICK w \in FilterId : /\ FirstLeast(Costs(l, Guess(l)), w, FILTERS_CNT)
                               /\ filters[l] = After(Guess(l), w)
      BY <3>3 DEF WellChosen
    <3>5. l >= line
      BY <3>1, AssignFacts
    <3> QED
      BY <2>4, <3>1, <3>2, <3>3, <3>4, <3>5
  <2> QED
    BY <2>1, <2>5, <2>6 DEF Chosen
<1> QED
  BY <1>5, <1>6, <1>7, <1>8, <1>9 DEF IInv

(* No step leaves the invariant.                                           *)
LEMMA NextIInv == IInv /\ [Next]_vars => IInv'
<1> SUFFICES ASSUME IInv, [Next]_vars PROVE IInv'
  OBVIOUS
<1>1. CASE \E m \in Methods : Call(m)
  BY <1>1, CallStep
<1>2. CASE StartLine
  BY <1>2, StartLineStep
<1>3. CASE AddVoxel
  BY <1>3, AddVoxelStep
<1>4. CASE AddByte
  BY <1>4, AddByteStep
<1>5. CASE Compare
  BY <1>5, CompareStep
<1>6. CASE Assign
  BY <1>6, AssignStep
<1>7. CASE UNCHANGED vars
  <2>1. Chosen'
    BY <1>7, ChosenFrame DEF IInv, Seen, line, vars
  <2>2. TypeOK' /\ Place' /\ Starts' /\ Summing' /\ Assigning'
    BY <1>7 DEF IInv, TypeOK, Place, Starts, Summing, Assigning, Tried, Costs, LineCost,
      Start, After, SumOf, Candidate, line, vars
  <2> QED
    BY <2>1, <2>2 DEF IInv
<1> QED
  BY <1>1, <1>2, <1>3, <1>4, <1>5, <1>6, <1>7 DEF Next

(* The invariant holds in every behaviour.                                 *)
THEOREM Inductive == Spec => []IInv
  BY InitIInv, NextIInv, PTL DEF Spec

(* Type correctness.                                                       *)
THEOREM TypeCorrect == Spec => []TypeOK
<1>1. IInv => TypeOK
  BY DEF IInv
<1> QED
  BY <1>1, Inductive, PTL


-----------------------------------------------------------------------------
(* The first of the least costs, as the filters see it.                    *)
LEMMA LeastIsBest ==
  ASSUME NEW l \in Lines, NEW g \in FilterId, NEW w \in FilterId,
         Costs(l, g) \in [FilterId -> Nat],
         FirstLeast(Costs(l, g), w, FILTERS_CNT)
  PROVE  /\ After(g, w) \in Best(l)
         /\ \A h \in Best(l) : (After(g, w) - g) % FILTERS_CNT <= (h - g) % FILTERS_CNT
<1> DEFINE c == Costs(l, g)
<1>1. \A i \in FilterId : c[i] = LineCost(l, After(g, i))
  BY DEF Costs
<1>2. \A i \in FilterId : c[w] <= c[i] /\ (i < w => c[w] < c[i])
  BY DEF FirstLeast, FilterId, FILTERS_CNT
<1>3. After(g, w) \in FilterId /\ (After(g, w) - g) % FILTERS_CNT = w
  BY AfterFilter
<1> HIDE DEF c
<1>4. ASSUME NEW h \in FilterId
      PROVE  LineCost(l, After(g, w)) <= LineCost(l, h)
  <2>1. PICK i \in FilterId : After(g, i) = h
    BY AfterOnto
  <2> QED
    BY <1>1, <1>2, <2>1
<1>5. ASSUME NEW h \in Best(l)
      PROVE  w <= (h - g) % FILTERS_CNT
  <2>1. h \in FilterId /\ LineCost(l, h) <= LineCost(l, After(g, w))
    BY <1>3 DEF Best
  <2>2. PICK i \in FilterId : After(g, i) = h
    BY <2>1, AfterOnto
  <2>3. (h - g) % FILTERS_CNT = i
    BY <2>2, AfterFilter
  <2>4. c[i] <= c[w]
    BY <1>1, <2>1, <2>2
  <2>5. i \in Nat /\ w \in Nat /\ c[i] \in Nat /\ c[w] \in Nat
    BY DEF FilterId, c
  <2>6. ~(i < w)
    <3>1. ASSUME i < w PROVE FALSE
      <4>1. c[w] < c[i] /\ c[w] <= c[i]
        BY <1>2, <3>1
      <4> QED
        BY <2>4, <2>5, <4>1
    <3> QED
      BY <3>1
  <2> QED
    BY <2>3, <2>5, <2>6
<1> QED
  BY <1>3, <1>4, <1>5 DEF Best

(* The filters that a call has chosen when it returns.                     *)
LEMMA ChosenAtReturn ==
  ASSUME IInv, phase = "idle", method # "none", NEW l \in Lines
  PROVE  /\ filters[l] \in Best(l)
         /\ \A h \in Best(l) :
              (filters[l] - Guess(l)) % FILTERS_CNT <= (h - Guess(l)) % FILTERS_CNT
<1>1. \A k \in Lines : filters[k] \in FilterId /\ WellChosen(k)
  BY DEF IInv, Chosen, Seen
<1>2. Guess(l) \in FilterId
  BY <1>1, NextLine DEF Guess, FilterId, FILTERS_CNT
<1>3. PICK w \in FilterId : /\ FirstLeast(Costs(l, Guess(l)), w, FILTERS_CNT)
                           /\ filters[l] = After(Guess(l), w)
  BY <1>1 DEF WellChosen
<1>4. Costs(l, Guess(l)) \in [FilterId -> Nat]
  BY <1>2, CostsType DEF IInv, TypeOK
<1> QED
  BY <1>2, <1>3, <1>4, LeastIsBest

(* No filter beats the one a line has got: giving candidates up early, and *)
(* starting from the filter of the line before, cost nothing.              *)
THEOREM BestOnEveryLine == Spec => []ChoosesBest
<1>1. IInv => ChoosesBest
  BY ChosenAtReturn DEF ChoosesBest
<1> QED
  BY <1>1, Inductive, PTL

(* Of several best filters a line gets the first after the guess.          *)
THEOREM FirstOnEveryLine == Spec => []FirstOfTheBest
<1>1. IInv => FirstOfTheBest
  BY ChosenAtReturn DEF FirstOfTheBest
<1> QED
  BY <1>1, Inductive, PTL

(* Both functions implement the choice of a best filter, line by line.     *)
THEOREM Implements == Spec => ImplementsBestFilter
<1> DEFINE left == IF phase = "idle" THEN 0 ELSE line + 1
           aVars == <<image, filters, method, left>>
<1>1. Init => Abstract!Init
  BY DEF Init, Abstract!Init
<1>2. ASSUME IInv, [Next]_vars
      PROVE  Abstract!Next \/ UNCHANGED aVars
  <2>1. ASSUME NEW m \in Methods, Call(m)
        PROVE  Abstract!Call
    <3>1. YS \in Nat /\ ZS \in Nat /\ YS > 0 /\ ZS > 0
      BY <2>1, ExtentsAssumption DEF Call
    <3>2. line' = YS * ZS - 1
      <4>1. line' = (ZS - 1) * YS + (YS - 1)
        BY <2>1 DEF line, Call
      <4>2. (ZS - 1) * YS = ZS * YS - YS /\ ZS * YS = YS * ZS /\ ZS * YS \in Nat
        BY <3>1
      <4> QED
        BY <4>1, <4>2, <3>1
    <3>3. line' \in Lines
      <4>1. IInv' /\ phase' # "idle"
        BY <1>2, <2>1, CallStep DEF Call
      <4>2. z' \in 0 .. ZS - 1 /\ y' \in 0 .. YS - 1
        BY <4>1 DEF IInv, Place
      <4> QED
        BY <4>2, LineNumber DEF line
    <3>4. left = 0 /\ left' = line' + 1
      BY <2>1 DEF Call
    <3>5. left' \notin Lines
      <4>1. YS * ZS \in Nat
        BY <3>1
      <4> QED
        BY <3>2, <3>4, <4>1 DEF Lines
    <3> QED
      BY <2>1, <3>3, <3>4, <3>5 DEF Abstract!Call, Call
  <2>2. ASSUME Assign
        PROVE  Abstract!Choose
    <3>1. line \in Nat /\ line \in Lines
      BY <1>2, <2>2, AssignFacts
    <3>2. left = line + 1 /\ left' = line
      BY <1>2, <2>2, <3>1, LineBefore DEF Assign
    <3>3. bestFilter \in Best(line)
      <4>1. Start \in FilterId
        BY <1>2, <2>2, Current DEF Assign
      <4>2. Costs(line, Start) \in [FilterId -> Nat]
        BY <1>2, <2>2, <4>1, AssignFacts, CostsType DEF IInv
      <4> QED
        BY <1>2, <2>2, <3>1, <4>1, <4>2, AssignFacts, LeastIsBest
    <3>4. bestFilter \in Abstract!Best(method, left')
      <4>1. method \in Methods /\ image \in Images
        BY <1>2, <2>2, AssignFacts DEF IInv, TypeOK
      <4> QED
        BY <3>1, <3>2, <3>3, <4>1 DEF Best, Abstract!Best, LineCost
    <3>5. filters' = [filters EXCEPT ![left'] = bestFilter] /\ UNCHANGED <<image, method>>
      BY <2>2, <3>2 DEF Assign
    <3>6. left > 0 /\ left' = left - 1
      BY <3>1, <3>2
    <3>7. \E g \in Abstract!Best(method, left') : filters' = [filters EXCEPT ![left'] = g]
      BY <3>4, <3>5
    <3> QED
      BY <3>5, <3>6, <3>7, Zenon DEF Abstract!Choose
  <2>3. ASSUME StartLine \/ AddVoxel \/ AddByte
        PROVE  UNCHANGED aVars
    BY <2>3 DEF StartLine, AddVoxel, AddByte, line
  <2>4. ASSUME Compare
        PROVE  UNCHANGED aVars
    BY <2>4 DEF Compare, EndOfSum, line
  <2>5. ASSUME UNCHANGED vars
        PROVE  UNCHANGED aVars
    BY <2>5 DEF vars, line
  <2> QED
    BY <1>2, <2>1, <2>2, <2>3, <2>4, <2>5 DEF Next, Abstract!Next
<1> HIDE DEF left, aVars
<1> QED
  BY <1>1, <1>2, Inductive, PTL DEF Spec, ImplementsBestFilter, Abstract!Spec, aVars, left

==============================================================================
