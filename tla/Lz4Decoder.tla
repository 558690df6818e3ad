------------------------------ MODULE Lz4Decoder ------------------------------
(***************************************************************************)
(* LZ4_decompress_unsafe_generic of lz4.c, which LZ4_decompress_fast and   *)
(* so ctx::Decompress call: it knows how many bytes to produce and not how *)
(* many there are to read.                                                 *)
(***************************************************************************)
EXTENDS Lz4Format

CONSTANTS
  Unset         (* What a byte of dst is that was never written.           *)

VARIABLES
  input,        (* The bytes from istart on, as far as they are the        *)
                (* caller's.                                               *)
  history,      (* The bytes before dst: the dictionary and the prefix.    *)
  size,         (* decompressedSize.                                       *)
  step,         (* "idle", "literals", "match"; at last "done", "failed",  *)
                (* or "outside": it reads on behind the caller's bytes.    *)
  ip,           (* How much was read.                                      *)
  token,
  dst           (* What was produced.                                      *)

decoderVars == <<input, history, size, step, ip, token, dst>>

Init ==
  /\ step = "idle"
  /\ size = 0 /\ ip = 0 /\ token = 0 /\ dst = <<>>

Call(s) ==
  /\ step = "idle"
  /\ size' = s
  /\ step' = "literals"
  /\ UNCHANGED <<input, history, ip, token, dst>>

left == size - Len(dst)

(* read_long_length_no_check: bytes are added up to the first one that is  *)
(* not MAXBYTE; none if it lies outside of the input.                      *)
LongAt(pos) ==
  LET ends == {i \in pos + 1 .. Len(input) : input[i] # MAXBYTE}
      end  == CHOOSE i \in ends : \A j \in ends : i <= j
  IN  IF ends = {} THEN {}
      ELSE {[len |-> (end - pos - 1) * MAXBYTE + input[end], next |-> end]}

(* Mutant: the longest short length is taken for a complete one.           *)
LengthAtNoRest(short, pos) == {[len |-> short, next |-> pos]}

(* A length: `short` is its part of the token, its rest is at pos.         *)
LengthAt(short, pos) ==
  IF short < MASK THEN {[len |-> short, next |-> pos]}
  ELSE {[l EXCEPT !.len = @ + short] : l \in LongAt(pos)}

(* The lengths of the next step, if all that it reads is in the input.     *)
LiteralsAhead ==
  IF ip = Len(input) THEN {}
  ELSE {l \in LengthAt(input[ip + 1] \div (MASK + 1), ip + 1) :
          l.len > left \/ l.next + l.len <= Len(input)}

MatchAhead ==
  IF ip + 2 > Len(input) THEN {} ELSE LengthAt(token % (MASK + 1), ip + 2)

(* Mutant: the block may end anywhere.                                     *)
AfterLiteralsAnywhere(rest) == IF rest > 0 THEN "match" ELSE "done"

AfterLiterals(rest) ==
  IF rest >= MFLIMIT THEN "match" ELSE IF rest = 0 THEN "done" ELSE "failed"

Literals ==
  /\ step = "literals"
  /\ \E l \in LiteralsAhead :
       /\ token' = input[ip + 1]
       /\ IF l.len > left
            THEN step' = "failed" /\ UNCHANGED <<ip, dst>>
            ELSE /\ dst' = dst \o SubSeq(input, l.next + 1, l.next + l.len)
                 /\ ip' = l.next + l.len
                 /\ step' = AfterLiterals(left - l.len)
  /\ UNCHANGED <<input, history, size>>

(* A distance of 0 leaves the bytes of dst as they were.                   *)
Copied(offset, len) ==
  IF offset = 0 THEN [i \in 1 .. len |-> Unset]
  ELSE CopyMatch(history \o dst, offset, len)

OutOfRange(offset) == offset > Len(dst) + Len(history)

(* Mutant: the room is compared with the length less MINMATCH.             *)
TooLongBeforeMin(len) == len - MINMATCH > left

TooLong(len) == len > left

Match ==
  /\ step = "match"
  /\ \E l \in MatchAhead :
       LET offset == ReadLE16(input, ip)
           len == l.len + MINMATCH
       IN  IF TooLong(len) \/ OutOfRange(offset)
             THEN step' = "failed" /\ UNCHANGED <<ip, dst>>
             ELSE /\ dst' = dst \o Copied(offset, len)
                  /\ ip' = l.next
                  /\ step' = IF left - len < LASTLITERALS THEN "failed" ELSE "literals"
  /\ UNCHANGED <<input, history, size, token>>

(* "it may read an unknown amount of input, past input buffer bounds"      *)
(* (lz4.h:835): what it does then is not defined.                          *)
Outside ==
  /\ \/ step = "literals" /\ LiteralsAhead = {}
     \/ step = "match" /\ MatchAhead = {}
  /\ step' = "outside"
  /\ UNCHANGED <<input, history, size, ip, token, dst>>

Decode == Literals \/ Match \/ Outside
-----------------------------------------------------------------------------
(* "it never writes past the output buffer" (lz4.h:834), whatever bytes    *)
(* the input is made of.                                                   *)
NeverPastOutput == Len(dst) <= size
==============================================================================
