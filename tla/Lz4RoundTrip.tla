----------------------------- MODULE Lz4RoundTrip -----------------------------
(***************************************************************************)
(* A block that Lz4Encoder writes is read by Lz4Decoder.                   *)
(***************************************************************************)
EXTENDS Lz4Encoder

CONSTANTS
  Unset         (* As in Lz4Decoder.                                       *)

VARIABLES
  size, step, ip, token, dst

Decoder == INSTANCE Lz4Decoder WITH input <- out, history <- <<>>

readVars == <<size, step, ip, token, dst>>

RoundTripInit == Init /\ Decoder!Init

Encode == Next /\ UNCHANGED readVars

(* LZ4_decompress_fast: the caller knows how much was consumed.            *)
Call == pc = "done" /\ result > 0 /\ Decoder!Call(consumed) /\ UNCHANGED vars

Decode == Decoder!Decode /\ UNCHANGED vars

(* Both calls have returned.                                               *)
Returned ==
  /\ \/ step \in {"done", "failed", "outside"}
     \/ pc = "done" /\ result = 0
  /\ UNCHANGED <<vars, readVars>>

RoundTripNext == Encode \/ Call \/ Decode \/ Returned

RoundTripSpec == RoundTripInit /\ [][RoundTripNext]_<<vars, readVars>>
-----------------------------------------------------------------------------
(* Whatever matches the parser elects, in whatever mode and room, the      *)
(* decoder gives back the bytes that were consumed and stops exactly where *)
(* the block ends.                                                         *)
Restores ==
  /\ step \notin {"failed", "outside"}
  /\ step = "done" => dst = SubSeq(src, 1, consumed) /\ ip = Len(out)
==============================================================================
