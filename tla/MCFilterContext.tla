--------------------------- MODULE MCFilterContext ---------------------------
(* An instance of FilterContext for TLC, with the prices of ErrorCost.     *)
EXTENDS FilterContext

Prices == INSTANCE ErrorCost

MCMethods == Prices!Optimizers
MCAllFilters == FilterId
MCAllBytes == Byte
MCLevels == -1 .. 1

(* Images that repeat every five bytes: the neighbours of a byte in the    *)
(* three directions stand at other distances from it.  The two values are  *)
(* far enough apart that sums, differences and averages leave 0..255       *)
(* before they are stored, and neither is the 0 that is read outside of    *)
(* the space.                                                              *)
MCFives ==
  {[i \in 0 .. Size - 1 |-> five[i % 5]] : five \in {w \in [0 .. 4 -> {7, 200}] : w[4] = 7}}

(* Two values in turn at some bytes: filters tie, and the best one changes *)
(* from line to line, and within a line from voxel to voxel.               *)
MCFree == {i \in 1 .. Size - 1 : i % 3 = 0}
MCImage(free) ==
  [i \in 0 .. Size - 1 |->
     IF i \in MCFree THEN free[i] ELSE IF i = 0 THEN 9 ELSE (40 * i) % 256]
MCImages == {MCImage(free) : free \in [MCFree -> {9, 200}]}

MCCost == Prices!CostTable(MCImages)

(* Any two filters, on lines beside each other in all directions.          *)
MCTables ==
  {[l \in Lines |-> IF l \in {1, 2} THEN second ELSE first] : first, second \in FilterId}

(* A table is read from a file, together with the data that is to be       *)
(* unfiltered; or the context is new, its array holds something, and       *)
(* filters are chosen.                                                     *)
MCInit ==
  /\ \/ data \in MCFives /\ lineFilters \in MCTables /\ image = MCImage([i \in MCFree |-> 9])
     \/ data \in MCImages /\ lineFilters = [l \in Lines |-> 8] /\ image = data
  /\ filters = lineFilters
  /\ ContextInit

MCSpec == MCInit /\ [][ContextNext]_contextVars /\ ContextFairness
==============================================================================
