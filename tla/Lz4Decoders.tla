------------------------------ MODULE Lz4Decoders ------------------------------
(***************************************************************************)
(* The decoders of lz4.c on the same block: LZ4_decompress_fast, then the  *)
(* safe one, then the partial one.                                         *)
(***************************************************************************)
EXTENDS Lz4SafeDecoder

CONSTANTS
  Unset,        (* As in Lz4Decoder.                                       *)
  Targets       (* How much of a block partial decoding is to find.        *)

ASSUME DecodersAssumption == Targets \subseteq Nat

VARIABLES
  srcSize,      (* How many bytes of the input the block has,              *)
  capacity,     (* and how many the output buffer has.                     *)
  size, step, fastIp, fastToken, dst,   (* Of Lz4Decoder.                  *)
  whole         (* What the safe decoder has returned.                     *)

fastVars == <<size, step, fastIp, fastToken, dst>>
allVars == <<safeVars, fastVars, srcSize, capacity, whole>>

Fast == INSTANCE Lz4Decoder
          WITH input <- SubSeq(input, 1, srcSize), history <- ext \o prefix,
               ip <- fastIp, token <- fastToken

Nothing == [result |-> -1, out |-> <<>>]

(* Whatever bytes the caller has, as many of them as it says, whatever     *)
(* room for the output, and whatever dictionaries.                         *)
DecodersInit ==
  /\ input \in Seq(U8) /\ srcSize \in 0 .. Len(input) /\ capacity \in Nat
  /\ prefix \in Seq(U8) /\ ext \in Seq(U8)
  /\ SafeInit /\ Fast!Init /\ whole = Nothing

FastReturned == step \in {"done", "failed", "outside"}

CallFast ==
  UNCHANGED <<safeVars, srcSize, capacity, whole>> /\ Fast!Call(capacity)

DecodeFast == UNCHANGED <<safeVars, srcSize, capacity, whole>> /\ Fast!Decode

(* LZ4_decompress_safe, with as much room.                                 *)
CallSafe ==
  /\ FastReturned /\ stage = "idle"
  /\ Call(srcSize, capacity, FALSE)
  /\ UNCHANGED <<fastVars, srcSize, capacity, whole>>

DecodeSafe == Decode /\ UNCHANGED <<fastVars, srcSize, capacity, whole>>

(* LZ4_decompress_safe_partial: the caller may not know where the block    *)
(* ends, if it wants no more than what the block has (lz4.h:303).          *)
CallPartial(n, target) ==
  /\ stage = "done" /\ ~partial
  /\ whole' = [result |-> result, out |-> Output]
  /\ n # srcSize => target <= result
  /\ Call(n, target, TRUE)
  /\ UNCHANGED <<fastVars, srcSize, capacity>>

Finished == stage = "done" /\ partial /\ UNCHANGED allVars

DecodersNext ==
  \/ CallFast \/ DecodeFast \/ CallSafe \/ DecodeSafe
  \/ \E n \in {srcSize, Len(input)}, t \in Targets : CallPartial(n, t)
  \/ Finished

DecodersSpec == DecodersInit /\ [][DecodersNext]_allVars
-----------------------------------------------------------------------------
(* Too few bytes are left for the last literals.                           *)
EndsInMatch == step = "failed" /\ size - Len(dst) < LASTLITERALS

(* The three ways of the safe decoder, with all their copies of more bytes *)
(* than needed, give what the plain loop of LZ4_decompress_fast does; and  *)
(* both take the same bytes for a block of exactly this size.  "last match *)
(* must stop at least LASTLITERALS==5 bytes before end" (lz4.c:1897) is    *)
(* the only rule that the shortcut does not enforce.                       *)
DecodersAgree ==
  stage = "done" /\ ~partial /\ oend > 0 =>
    /\ step = "done" /\ fastIp = srcSize => result = oend
    /\ result = oend => (step = "done" /\ fastIp = srcSize) \/ EndsInMatch
    /\ result = oend => \A i \in 1 .. Len(dst) : dst[i] \in {Unset, Output[i]}

(* "The function stops decoding on reaching this objective", and "will, at *)
(* most, generate block's decompressed size" (lz4.h:277, 300): a partial   *)
(* decoding of a block is a beginning of it, except for bytes that a       *)
(* distance of 0 makes, of which no decoder says what they are.            *)
PartialIsPrefix ==
  stage = "done" /\ partial /\ whole.result >= 0 =>
    /\ result = Min({oend, whole.result})
    /\ \A i \in 1 .. result :
         Output[i] = whole.out[i] \/ (i <= Len(dst) /\ dst[i] = Unset)

NeverPastOutput == Fast!NeverPastOutput
==============================================================================
