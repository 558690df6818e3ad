----------------------------- MODULE FilterChooser -----------------------------
(***************************************************************************)
(* ctx::OptimizeFilters_old and ctx::OptimizeFilters: for each line, the   *)
(* filter of least total cost, found without summing every candidate to    *)
(* the end.  The old function gives a candidate up after a voxel, once its *)
(* sum is worse than the best so far; the new one gives up after a byte,   *)
(* once it is not better, and tries the filter of the previous line first. *)
(*                                                                         *)
(* The code calls the way an error is priced "an arbitrary choice" (line   *)
(* 220), as long as it can "stop early": the prices are a constant here,   *)
(* of which only that is assumed.                                          *)
(***************************************************************************)
EXTENDS ByteSpace

CONSTANTS
  Images,      (* The contents the space may have.                         *)
  Methods,     (* Which of the functions the caller may call.              *)
  Cost,        (* Cost[m][i][l][f][n]: the sum over the first n bytes of   *)
               (* line l of image i that are visited, under filter f.      *)
  MAXSUM,      (* ~0ull: more than any sum.                                *)
  InitTable    (* What `new uint8_t[]` leaves in the array of filters.     *)

LineBytes == XS * BPV

ASSUME CostAssumption ==
  /\ Methods \subseteq {"old", "new"}
  /\ MAXSUM \in Nat
  /\ InitTable \subseteq Byte
  /\ \A m \in Methods, i \in Images, l \in Lines, f \in FilterId :
       /\ Cost[m][i][l][f] \in [0 .. LineBytes -> 0 .. MAXSUM - 1]
       /\ Cost[m][i][l][f][0] = 0
       /\ \A n, k \in 0 .. LineBytes : n <= k => Cost[m][i][l][f][n] <= Cost[m][i][l][f][k]

VARIABLES
  image,       (* The content of the space: both functions only read it.   *)
  filters,     (* ctx::filters.                                            *)
  method,      (* The function that runs, or ran last.                     *)
  phase,
  z, y,        (* The line.                                                *)
  f,           (* The number of the candidate.                             *)
  n,           (* How many bytes of the line are in `sum`.                 *)
  sum, bestSum, bestFilter, lastBest

vars == <<image, filters, method, phase, z, y, f, n, sum, bestSum, bestFilter, lastBest>>

line == z * YS + y

(* The candidates are tried in turn, by OptimizeFilters from lastBest on.  *)
Candidate(k) == IF method = "new" THEN (k + lastBest) % FILTERS_CNT ELSE k

SumOf(k) == Cost[method][image][line][Candidate(f)][k]

Init ==
  /\ image \in Images
  /\ filters \in [Lines -> InitTable]
  /\ method = "none"
  /\ phase = "idle"
  /\ z = 0 /\ y = 0 /\ f = 0 /\ n = 0
  /\ sum = 0 /\ bestSum = MAXSUM /\ bestFilter = 0 /\ lastBest = 0

(* Without lines the loops have nothing to do.                             *)
Call(m) ==
  /\ phase = "idle" /\ YS > 0 /\ ZS > 0
  /\ method' = m
  /\ phase' = "line"
  /\ z' = ZS - 1 /\ y' = YS - 1
  /\ lastBest' = 0
  /\ UNCHANGED <<image, filters, f, n, sum, bestSum, bestFilter>>

(* Mutant: the best sum of the line before stays.                          *)
StartLineKeepsSum ==
  /\ phase = "line"
  /\ phase' = "sum"
  /\ bestFilter' = IF method = "new" THEN lastBest ELSE 0
  /\ f' = 0 /\ n' = 0 /\ sum' = 0
  /\ UNCHANGED <<image, filters, method, z, y, bestSum, lastBest>>

StartLine ==
  /\ phase = "line"
  /\ phase' = "sum"
  /\ bestSum' = MAXSUM
  /\ bestFilter' = IF method = "new" THEN lastBest ELSE 0
  /\ f' = 0 /\ n' = 0 /\ sum' = 0
  /\ UNCHANGED <<image, filters, method, z, y, lastBest>>

(* OptimizeFilters_old: all bytes of a voxel, then the test for the break. *)
AddVoxel ==
  /\ phase = "sum" /\ method = "old"
  /\ n < LineBytes
  /\ n' = n + BPV
  /\ sum' = sum + (SumOf(n') - SumOf(n))
  /\ phase' = IF sum' > bestSum THEN "compare" ELSE "sum"
  /\ UNCHANGED <<image, filters, method, z, y, f, bestSum, bestFilter, lastBest>>

(* OptimizeFilters: the test is in the condition of the innermost loop.    *)
AddByte ==
  /\ phase = "sum" /\ method = "new"
  /\ n < LineBytes /\ sum < bestSum
  /\ n' = n + 1
  /\ sum' = sum + (SumOf(n') - SumOf(n))
  /\ UNCHANGED <<image, filters, method, phase, z, y, f, bestSum, bestFilter, lastBest>>

(* Mutant: a candidate is judged by its first voxel.                       *)
EndOfVoxel ==
  \/ phase = "compare"
  \/ phase = "sum" /\ (n = LineBytes \/ n = BPV)
  \/ phase = "sum" /\ method = "new" /\ sum >= bestSum

EndOfSum ==
  \/ phase = "compare"
  \/ phase = "sum" /\ n = LineBytes
  \/ phase = "sum" /\ method = "new" /\ sum >= bestSum

(* Mutant: of several best filters, the last.                              *)
NotWorse == sum <= bestSum

Better == sum < bestSum

Compare ==
  /\ EndOfSum
  /\ IF Better
       THEN bestSum' = sum /\ bestFilter' = Candidate(f)
       ELSE UNCHANGED <<bestSum, bestFilter>>
  /\ f' = f + 1
  /\ n' = 0 /\ sum' = 0
  /\ phase' = IF f' < FILTERS_CNT THEN "sum" ELSE "assign"
  /\ UNCHANGED <<image, filters, method, z, y, lastBest>>

(* Mutant: the guess is carried over into the next plane.                  *)
InheritedAlways == bestFilter

(* lastBest starts again from 0 in each plane.                             *)
Inherited == IF y > 0 THEN bestFilter ELSE 0

(* Mutant: one plane too many.                                             *)
LinesLeftFromMinusOne == z > -1

LinesLeft == z > 0 \/ y > 0

Assign ==
  /\ phase = "assign"
  /\ filters' = [filters EXCEPT ![line] = bestFilter]
  /\ lastBest' = Inherited
  /\ IF y > 0 THEN y' = y - 1 /\ z' = z ELSE y' = YS - 1 /\ z' = z - 1
  /\ phase' = IF LinesLeft THEN "line" ELSE "idle"
  /\ UNCHANGED <<image, method, f, n, sum, bestSum, bestFilter>>

Next ==
  \/ \E m \in Methods : Call(m)
  \/ StartLine
  \/ AddVoxel
  \/ AddByte
  \/ Compare
  \/ Assign

Spec == Init /\ [][Next]_vars

-----------------------------------------------------------------------------
TypeOK ==
  /\ image \in Images
  /\ filters \in [Lines -> Byte]
  /\ method \in Methods \cup {"none"}
  /\ phase \in {"idle", "line", "sum", "compare", "assign"}
  /\ phase # "idle" => z \in 0 .. ZS - 1 /\ y \in 0 .. YS - 1
  /\ phase \in {"sum", "compare"} => f \in FilterId
  /\ n \in 0 .. LineBytes
  /\ sum \in Nat /\ bestSum \in 0 .. MAXSUM
  /\ bestFilter \in FilterId /\ lastBest \in FilterId

(* The whole line under filter g.                                          *)
LineCost(l, g) == Cost[method][image][l][g][LineBytes]

Best(l) == {g \in FilterId : \A h \in FilterId : LineCost(l, g) <= LineCost(l, h)}

(* When a call returns, no line has a filter that another one would beat,  *)
(* although most candidates were given up before their sum was complete,   *)
(* and whatever filters the context held before.                           *)
ChoosesBest ==
  phase = "idle" /\ method # "none" => \A l \in Lines : filters[l] \in Best(l)

(* "The last optimal filter is a reasonable guess for this one"            *)
(* (VxLite_ctx.cpp:212): from line to line of a plane, OptimizeFilters     *)
(* changes the filter only for a strictly better one, and within the ties  *)
(* prefers the first after it.  OptimizeFilters_old takes the first of all. *)
Guess(l) ==
  IF method = "new" /\ l % YS # YS - 1 THEN filters[l + 1] ELSE 0

FirstOfTheBest ==
  phase = "idle" /\ method # "none" =>
    \A l \in Lines : \A g \in Best(l) :
      (filters[l] - Guess(l)) % FILTERS_CNT <= (g - Guess(l)) % FILTERS_CNT

(* Either function implements the choice of a best filter line by line.    *)
Abstract == INSTANCE BestFilter WITH
  Total <- [m \in Methods |-> [i \in Images |-> [l \in Lines |-> [g \in FilterId |->
             Cost[m][i][l][g][LineBytes]]]]],
  left  <- IF phase = "idle" THEN 0 ELSE line + 1

ImplementsBestFilter == Abstract!Spec
==============================================================================
