------------------------------- MODULE MCVxLite -------------------------------
(* Instances of VxLite for TLC.                                            *)
EXTENDS VxLite

(* Images are numbers.  The second has another number of lines, and a 10   *)
(* (a line feed) among its extents.                                        *)
MCDims(x, y, z, b) == [xs |-> x, ys |-> y, zs |-> z, bpv |-> b]

MCImages == 1 .. 3
MCDimsOf == <<MCDims(2, 1, 1, 1), MCDims(1, 2, 1, 10), MCDims(7, 4, 1, 1)>>

(* With `int` 5 bits wide and inputs of 12 bytes at most: an image that is *)
(* compressed, one too large, one of negative size, one that wraps around. *)
MCLargeDimsOf ==
  <<MCDims(2, 1, 1, 1), MCDims(7, 2, 1, 1), MCDims(10, 2, 1, 1), MCDims(17, 2, 1, 1)>>
MCLargeImages == 1 .. 4

MCTables == 1 .. 2
MCOneTable == {1}

(* A code no word of which begins another one; some contain a line feed.   *)
MCCode(x) ==
  IF x.kind = "table" THEN <<8 + x.id>>
  ELSE <<x.image,
         CASE x.by = <<>> -> 20
           [] x.by[1] = "+" -> 20 + x.by[2]
           [] x.by[1] = "-" -> 30 + x.by[2]>>
==============================================================================
