------------------------------ MODULE ByteSpace ------------------------------
(***************************************************************************)
(* The sparse byte space of VxLite.hpp and the prediction filters of       *)
(* VxLite_ctx.cpp: a prism of XS * YS * ZS voxels of BPV bytes each, kept  *)
(* in one flat array, read either unchecked (`at`) or with a bounds check  *)
(* that answers 0 outside the prism (`get`), and the nine functions that   *)
(* predict a byte from its already known neighbours.                       *)
(***************************************************************************)
EXTENDS Integers

CONSTANTS
  XS, YS, ZS,  (* The extents of the prism, in voxels.                     *)
  BPV,         (* Bytes per voxel.                                         *)
  WORD         (* Coordinates are unsigned and wrap at WORD (2^64).        *)

(* The loops of FilterSpace run on signed 64-bit counters, so a space with *)
(* an extent of 2^63 or more is outside of what the program can process.   *)
ASSUME ExtentsAssumption ==
  /\ XS \in Nat /\ YS \in Nat /\ ZS \in Nat /\ BPV \in Nat
  /\ WORD \in Nat \ {0}
  /\ 2 * XS <= WORD /\ 2 * YS <= WORD /\ 2 * ZS <= WORD /\ 2 * BPV <= WORD

Byte == 0 .. 255

(* The number of bytes of the space: the length of its array.              *)
Size == XS * YS * ZS * BPV

Data == [0 .. Size - 1 -> Byte]

(* The voxel bytes, as the loops name them.                                *)
Coord == [x : 0 .. XS - 1, y : 0 .. YS - 1, z : 0 .. ZS - 1, b : 0 .. BPV - 1]

At(x, y, z, b) == [x |-> x, y |-> y, z |-> z, b |-> b]

(* sbs::at(): where the byte of a voxel lies in the array.                 *)
Addr(c) == (c.z * XS * YS + c.y * XS + c.x) * BPV + c.b

(* sbs::get(): 0 outside of the prism.                                     *)
Get(d, c) ==
  IF c.x >= XS \/ c.y >= YS \/ c.z >= ZS \/ c.b >= BPV
    THEN 0
    ELSE d[Addr(c)]

(* Mutant: the predictors look forward instead of back.                    *)
DecForward(i) == i + 1

(* The uint64_t subtraction i - 1.                                         *)
Dec(i) == IF i = 0 THEN WORD - 1 ELSE i - 1

(* The neighbours a prediction reads: one step back along some axes.       *)
Left(d, c)       == Get(d, At(Dec(c.x), c.y, c.z, c.b))
Up(d, c)         == Get(d, At(c.x, Dec(c.y), c.z, c.b))
Back(d, c)       == Get(d, At(c.x, c.y, Dec(c.z), c.b))
LeftUp(d, c)     == Get(d, At(Dec(c.x), Dec(c.y), c.z, c.b))
LeftUpBack(d, c) == Get(d, At(Dec(c.x), Dec(c.y), Dec(c.z), c.b))

Average(v, w) == (v + w) \div 2

(* uint8_t arithmetic.                                                     *)
Wrap8(i) == i % 256

(* The macro `abs` of VxLite_ctx.cpp does not parenthesise its argument:   *)
(* abs(p-v) is -p-v, and not v-p, when p-v is negative.  The distance is   *)
(* then stored in a uint8_t.                                               *)
Distance(p, v) == Wrap8(IF p - v >= 0 THEN p - v ELSE -p - v)

Paeth2(a, b, c) ==
  LET p  == a + b - c
      pa == Distance(p, a)
      pb == Distance(p, b)
      pc == Distance(p, c)
  IN  CASE pa <= pb /\ pa <= pc -> a
        [] ~(pa <= pb /\ pa <= pc) /\ pb <= pc -> b
        [] OTHER -> c

Paeth3(a, b, c, d, g) ==
  LET p  == a + b + d - c - g
      pa == Distance(p, a)
      pb == Distance(p, b)
      pc == Distance(p, c)
      pd == Distance(p, d)
      pg == Distance(p, g)
  IN  IF \A q \in {pb, pc, pd, pg} : pa <= q THEN a
      ELSE IF \A q \in {pc, pd, pg} : pb <= q THEN b
      ELSE IF \A q \in {pd, pg} : pc <= q THEN c
      ELSE IF pd <= pg THEN d
      ELSE g

(* The indices of the table predictionFilters[].                           *)
FILTERS_CNT == 9
FilterId == 0 .. FILTERS_CNT - 1

(* predictionFilters[f](space, x, y, z, b).                                *)
Predict(f, d, c) ==
  CASE f = 0 -> 0
    [] f = 1 -> Left(d, c)
    [] f = 2 -> Up(d, c)
    [] f = 3 -> Back(d, c)
    [] f = 4 -> Average(Left(d, c), Up(d, c))
    [] f = 5 -> Average(Left(d, c), Back(d, c))
    [] f = 6 -> Average(Up(d, c), Back(d, c))
    [] f = 7 -> Paeth2(Left(d, c), Up(d, c), LeftUp(d, c))
    [] f = 8 -> Paeth3(Left(d, c), Up(d, c), LeftUp(d, c),
                       LeftUpBack(d, c), Back(d, c))

(* The line of bytes along the X-axis a voxel lies on: its entry of the    *)
(* filter array of the context.                                            *)
Lines == 0 .. YS * ZS - 1
Line(c) == c.z * YS + c.y
==============================================================================
