------------------------------ MODULE BestFilter ------------------------------
(***************************************************************************)
(* What choosing the filters of a space promises: one line at a time, from *)
(* the last to the first, the line gets a filter that no other filter      *)
(* beats on the whole line.                                                *)
(***************************************************************************)
EXTENDS Integers

CONSTANTS
  FilterId,   (* The filters.                                              *)
  Lines,      (* The lines, 0 .. n - 1.                                    *)
  Methods,    (* The ways to price a line.                                 *)
  Images,     (* The contents of the space.                                *)
  Total       (* Total[m][i][l][f]: the price of line l under filter f.    *)

VARIABLES
  image,      (* The content of the space.                                 *)
  filters,    (* The filter of each line.                                  *)
  method,     (* The way the lines were priced last.                       *)
  left        (* The lines that wait for a choice are 0 .. left - 1.       *)

Best(m, l) ==
  {f \in FilterId : \A g \in FilterId : Total[m][image][l][f] <= Total[m][image][l][g]}

Init == image \in Images /\ method = "none" /\ left = 0

Call ==
  /\ left = 0
  /\ left' \in {l + 1 : l \in Lines} /\ left' \notin Lines
  /\ method' \in Methods
  /\ UNCHANGED <<image, filters>>

Choose ==
  /\ left > 0
  /\ left' = left - 1
  /\ \E f \in Best(method, left') : filters' = [filters EXCEPT ![left'] = f]
  /\ UNCHANGED <<image, method>>

Next == Call \/ Choose

Spec == Init /\ [][Next]_<<image, filters, method, left>>
==============================================================================
