------------------------------ MODULE Lz4Format ------------------------------
(***************************************************************************)
(* The LZ4 block format as lz4.c and lz4hc.c write and read it.  A block   *)
(* is a list of sequences: a token with two short lengths, the rest of the *)
(* length of the literals if it does not fit, the literals, the distance   *)
(* to a match in two bytes, the rest of the length of the match.  The last *)
(* sequence ends with its literals.                                        *)
(*                                                                         *)
(* The numbers of the format are parameters, related to each other as they *)
(* are in the code: smaller ones let a model checker meet long lengths,    *)
(* and the end of a block, on short inputs.                                *)
(***************************************************************************)
EXTENDS Integers, Sequences

CONSTANTS
  MASK,             (* RUN_MASK and ML_MASK: 15.                           *)
  MAXBYTE,          (* 255.                                                *)
  MINMATCH,         (* 4.                                                  *)
  LASTLITERALS,     (* 5: a match ends so many bytes before the end...     *)
  MFLIMIT,          (* 12: ... and starts so many bytes before it.         *)
  WILDCOPYLENGTH,   (* 8: literals are copied in pieces of so many bytes.  *)
  DISTANCE_MAX,     (* LZ4_DISTANCE_MAX, 65535.                            *)
  SLACK,            (* 16.                                                 *)
  MAX_INPUT_SIZE    (* LZ4_MAX_INPUT_SIZE, 0x7E000000.                     *)

ASSUME Lz4Assumption ==
  /\ MASK \in Nat \ {0} /\ MAXBYTE = (MASK + 1) * (MASK + 1) - 1
  /\ MINMATCH \in Nat /\ MINMATCH >= 4
  /\ LASTLITERALS \in Nat \ {0}
  /\ WILDCOPYLENGTH = LASTLITERALS + 3
  /\ MFLIMIT \in Nat
  /\ MFLIMIT >= WILDCOPYLENGTH /\ MFLIMIT >= LASTLITERALS + MINMATCH
  /\ MFLIMIT <= 2 * LASTLITERALS + MINMATCH
  /\ MASK > 2 * LASTLITERALS /\ MASK >= MFLIMIT - MINMATCH
  /\ DISTANCE_MAX \in 1 .. (MAXBYTE + 1) * (MAXBYTE + 1) - 1
  /\ SLACK \in Nat /\ SLACK >= 2
  /\ MAX_INPUT_SIZE \in Nat

U8 == 0 .. MAXBYTE

(* Mutant: nothing for the lengths of long runs of literals.               *)
BoundOfLiterals(n) == IF n > MAX_INPUT_SIZE THEN 0 ELSE n + SLACK

(* LZ4_COMPRESSBOUND().                                                    *)
CompressBound(n) ==
  IF n > MAX_INPUT_SIZE THEN 0 ELSE n + (n \div MAXBYTE) + SLACK

(* How many bytes the rest of a length takes.                              *)
ExtensionSize(len) == IF len < MASK THEN 0 ELSE (len - MASK) \div MAXBYTE + 1

(* Mutant: a rest of MAXBYTE is written in one byte.                       *)
ExtensionOneByte(len) ==
  IF len < MASK THEN <<>>
  ELSE IF len - MASK = MAXBYTE THEN <<MAXBYTE>>
  ELSE [i \in 1 .. ExtensionSize(len) |->
         IF i < ExtensionSize(len) THEN MAXBYTE ELSE (len - MASK) % MAXBYTE]

(* The rest of a length: as many MAXBYTE as fit, and one byte more.        *)
Extension(len) ==
  [i \in 1 .. ExtensionSize(len) |->
    IF i < ExtensionSize(len) THEN MAXBYTE ELSE (len - MASK) % MAXBYTE]

(* Mutant: all of the length.                                              *)
ShortOfAny(len) == len

Short(len) == IF len < MASK THEN len ELSE MASK
Token(literals, match) == Short(literals) * (MASK + 1) + Short(match)

(* LZ4_writeLE16, LZ4_readLE16.                                            *)
LE16(v) == <<v % (MAXBYTE + 1), v \div (MAXBYTE + 1)>>
ReadLE16(b, pos) == b[pos + 1] + b[pos + 2] * (MAXBYTE + 1)

(* Up to which byte a copy of n bytes from position `from` on really goes. *)
WildCopyEnd(from, n) ==
  from + (IF n = 0 THEN WILDCOPYLENGTH
          ELSE ((n + WILDCOPYLENGTH - 1) \div WILDCOPYLENGTH) * WILDCOPYLENGTH)

(* What a match that begins `offset` bytes back in the window adds to it:  *)
(* it may overlap with what it produces.                                   *)
CopyMatch(window, offset, len) ==
  [i \in 1 .. len |-> window[Len(window) - offset + 1 + ((i - 1) % offset)]]
==============================================================================
