------------------------------ MODULE ErrorCost ------------------------------
(***************************************************************************)
(* The two prices VxLite_ctx.cpp puts on the error of a prediction, and    *)
(* what a line costs under each filter, byte after byte in the order in    *)
(* which the loops of OptimizeFilters_old and OptimizeFilters visit them.  *)
(***************************************************************************)
EXTENDS ByteSpace

(* OptimizeFilters_old, and OptimizeFilters.                               *)
Optimizers == {"old", "new"}

LineBytes == XS * BPV

(* The n-th byte, from 0, of a line: x and b run downwards.                *)
Visit(l, n) ==
  At(XS - 1 - (n \div BPV), l % YS, l \div YS, BPV - 1 - (n % BPV))

(* The int that is priced: it is not reduced to a byte first.              *)
Deviation(f, d, c) == d[Addr(c)] - Predict(f, d, c)

(* __builtin_popcount of a 32-bit int between -255 and 255.                *)
Ones[n \in Byte] == IF n = 0 THEN 0 ELSE (n % 2) + Ones[n \div 2]
SetBits(e) == IF e >= 0 THEN Ones[e] ELSE 32 - Ones[-e - 1]

(* std::abs: the macro of that name is undefined again by then.            *)
Magnitude(e) == IF e >= 0 THEN e ELSE -e

Price(m, e) == IF m = "old" THEN SetBits(e) ELSE Magnitude(e)

(* The sum after the first n bytes of line l, for every n.                 *)
CostOf(m, d, l, f) ==
  LET sum[n \in 0 .. LineBytes] ==
        IF n = 0 THEN 0 ELSE sum[n - 1] + Price(m, Deviation(f, d, Visit(l, n - 1)))
  IN  sum

CostTable(images) ==
  [m \in Optimizers |-> [d \in images |-> [l \in Lines |-> [f \in FilterId |->
    CostOf(m, d, l, f)]]]]
==============================================================================
