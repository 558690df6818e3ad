----------------------------- MODULE VoxelFilter -----------------------------
(***************************************************************************)
(* ctx::FilterSpace and ctx::UnfilterSpace, one step per byte.             *)
(*                                                                         *)
(* Both transform the array in place, while the predictions read it.       *)
(* FilterSpace walks the bytes from the last to the first, so that what a  *)
(* prediction reads is still original; UnfilterSpace walks from the first  *)
(* to the last, so that what it reads is original again.  A caller may     *)
(* call the two in any order and any number of times: `level` counts the   *)
(* FilterSpace calls minus the UnfilterSpace calls.                        *)
(***************************************************************************)
EXTENDS ByteSpace

CONSTANTS
  InitBytes,   (* The byte values of the input images.                     *)
  InitFilters, (* The filters the context may hold.                        *)
  Levels       (* The bound on `level`: a caller stays within it.          *)

ASSUME InputsAssumption ==
  /\ InitBytes \subseteq Byte
  /\ InitFilters \subseteq FilterId
  /\ Levels \subseteq Int
  /\ 0 \in Levels

VARIABLES
  data,         (* space->data.                                            *)
  lineFilters,  (* ctx::filters, one per line.                             *)
  pc,           (* Which of the two functions is running.                  *)
  cur,          (* The loop counters z, y, x, b of the running function.   *)
  level,        (* How many times the data is filtered at the last return. *)
  hist          (* History: the data at the first return at each level.    *)

filterVars == <<data, lineFilters, pc, cur, level, hist>>

First == At(0, 0, 0, 0)
Last  == At(XS - 1, YS - 1, ZS - 1, BPV - 1)

(* Mutants: a loop bound off by one; x not started anew on the next line.  *)
SuccPastEnd(c) ==
  IF c.b < BPV THEN At(c.x, c.y, c.z, c.b + 1)
  ELSE IF c.x < XS - 1 THEN At(c.x + 1, c.y, c.z, 0)
  ELSE IF c.y < YS - 1 THEN At(0, c.y + 1, c.z, 0)
  ELSE At(0, 0, c.z + 1, 0)

PredSameX(c) ==
  IF c.b > 0 THEN At(c.x, c.y, c.z, c.b - 1)
  ELSE IF c.x > 0 THEN At(c.x - 1, c.y, c.z, BPV - 1)
  ELSE IF c.y > 0 THEN At(0, c.y - 1, c.z, BPV - 1)
  ELSE At(XS - 1, YS - 1, c.z - 1, BPV - 1)

(* The nested loops for z, for y, for x, for b: one iteration up or down.  *)
Succ(c) ==
  IF c.b < BPV - 1 THEN At(c.x, c.y, c.z, c.b + 1)
  ELSE IF c.x < XS - 1 THEN At(c.x + 1, c.y, c.z, 0)
  ELSE IF c.y < YS - 1 THEN At(0, c.y + 1, c.z, 0)
  ELSE At(0, 0, c.z + 1, 0)

Pred(c) ==
  IF c.b > 0 THEN At(c.x, c.y, c.z, c.b - 1)
  ELSE IF c.x > 0 THEN At(c.x - 1, c.y, c.z, BPV - 1)
  ELSE IF c.y > 0 THEN At(XS - 1, c.y - 1, c.z, BPV - 1)
  ELSE At(XS - 1, YS - 1, c.z - 1, BPV - 1)

(* The array d on the first return at level l; later returns are compared. *)
Record(l, d) ==
  [k \in (DOMAIN hist) \cup {l} |-> IF k \in DOMAIN hist THEN hist[k] ELSE d]

FilterInit ==
  /\ data \in [0 .. Size - 1 -> InitBytes]
  /\ lineFilters \in [Lines -> InitFilters]
  /\ pc = "idle"
  /\ cur = First
  /\ level = 0
  /\ hist = [k \in {0} |-> data]

(* A call on an empty space (Size = 0) runs no iteration: it is a stutter. *)
CallFilterSpace ==
  /\ pc = "idle" /\ Size > 0 /\ level + 1 \in Levels
  /\ pc' = "filter"
  /\ cur' = Last
  /\ UNCHANGED <<data, lineFilters, level, hist>>

CallUnfilterSpace ==
  /\ pc = "idle" /\ Size > 0 /\ level - 1 \in Levels
  /\ pc' = "unfilter"
  /\ cur' = First
  /\ UNCHANGED <<data, lineFilters, level, hist>>

(* space->at(x, y, z, b) -= predictionFilters[filter](space, x, y, z, b)   *)
Filtered(d, c) ==
  [d EXCEPT ![Addr(c)] = Wrap8(@ - Predict(lineFilters[Line(c)], d, c))]

(* Mutant: the filter is read once per plane and not once per line.        *)
UnfilteredByPlane(d, c) ==
  [d EXCEPT ![Addr(c)] = Wrap8(@ + Predict(lineFilters[c.z * YS], d, c))]

(* Mutant: the sum saturates.                                              *)
UnfilteredSaturated(d, c) ==
  [d EXCEPT ![Addr(c)] =
     IF @ + Predict(lineFilters[Line(c)], d, c) > 255
       THEN 255 ELSE @ + Predict(lineFilters[Line(c)], d, c)]

(* space->at(x, y, z, b) += predictionFilters[filter](space, x, y, z, b)   *)
Unfiltered(d, c) ==
  [d EXCEPT ![Addr(c)] = Wrap8(@ + Predict(lineFilters[Line(c)], d, c))]

(* Mutant: a byte without a prediction is skipped, and the counter with it. *)
FilterStepSkips ==
  /\ pc = "filter"
  /\ data' = Filtered(data, cur)
  /\ IF cur = First
       THEN /\ pc' = "idle"
            /\ level' = level + 1
            /\ hist' = Record(level + 1, data')
            /\ UNCHANGED cur
       ELSE /\ cur' = IF data' = data THEN cur ELSE Pred(cur)
            /\ UNCHANGED <<pc, level, hist>>
  /\ UNCHANGED lineFilters

FilterStep ==
  /\ pc = "filter"
  /\ data' = Filtered(data, cur)
  /\ IF cur = First
       THEN /\ pc' = "idle"
            /\ level' = level + 1
            /\ hist' = Record(level + 1, data')
            /\ UNCHANGED cur
       ELSE /\ cur' = Pred(cur)
            /\ UNCHANGED <<pc, level, hist>>
  /\ UNCHANGED lineFilters

UnfilterStep ==
  /\ pc = "unfilter"
  /\ data' = Unfiltered(data, cur)
  /\ IF cur = Last
       THEN /\ pc' = "idle"
            /\ level' = level - 1
            /\ hist' = Record(level - 1, data')
            /\ UNCHANGED cur
       ELSE /\ cur' = Succ(cur)
            /\ UNCHANGED <<pc, level, hist>>
  /\ UNCHANGED lineFilters

FilterNext ==
  \/ CallFilterSpace
  \/ FilterStep
  \/ CallUnfilterSpace
  \/ UnfilterStep

FilterSpec == FilterInit /\ [][FilterNext]_filterVars

-----------------------------------------------------------------------------
(* Types; in particular the loops stay inside the space.                   *)
FilterTypeOK ==
  /\ data \in Data
  /\ lineFilters \in [Lines -> FilterId]
  /\ pc \in {"idle", "filter", "unfilter"}
  /\ pc # "idle" => cur \in Coord
  /\ level \in Levels
  /\ DOMAIN hist \subseteq Levels
  /\ \A k \in DOMAIN hist : hist[k] \in Data

(* Whenever the caller is back at a filter level it was at before, every   *)
(* byte is what it was then: UnfilterSpace undoes FilterSpace ("yielding   *)
(* the original data", VxLite_ctx.cpp:156) and FilterSpace undoes          *)
(* UnfilterSpace, over any legal sequence of calls, although both update   *)
(* in place the array they predict from.                                   *)
RoundTrip == pc = "idle" => level \in DOMAIN hist /\ data = hist[level]

(* e holds the prediction errors of d: what filtering d must store.        *)
ErrorsOf(d, e) ==
  \A c \in Coord :
    e[Addr(c)] = Wrap8(d[Addr(c)] - Predict(lineFilters[Line(c)], d, c))

(* The data one level up holds, at each byte, the error of the prediction  *)
(* made from the data one level down, and not from the half-transformed    *)
(* array that the loops of FilterSpace and UnfilterSpace were reading.     *)
StoresPredictionErrors ==
  \A k \in DOMAIN hist :
    k + 1 \in DOMAIN hist => ErrorsOf(hist[k], hist[k + 1])

(* The four nested loops of either function step through the array byte by *)
(* byte, downwards in FilterSpace and upwards in UnfilterSpace, whatever   *)
(* the extents: no byte is skipped or visited twice.                       *)
SequentialWalk ==
  [][/\ (pc = "filter" /\ pc' = "filter") => Addr(cur') = Addr(cur) - 1
     /\ (pc = "unfilter" /\ pc' = "unfilter") => Addr(cur') = Addr(cur) + 1
     /\ (pc = "filter" /\ pc' = "idle") => Addr(cur) = 0
     /\ (pc = "unfilter" /\ pc' = "idle") => Addr(cur) = Size - 1]_filterVars

(* Each call returns: the downward loops of FilterSpace stop at 0.         *)
CallReturns == pc # "idle" ~> pc = "idle"
==============================================================================
