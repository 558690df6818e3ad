------------------------------ MODULE Lz4Streams ------------------------------
(***************************************************************************)
(* A program that works with one of the three streams, and may use its     *)
(* state again as soon as a call has returned: for the next block, for     *)
(* another stream, or for a block of its own.                              *)
(***************************************************************************)
EXTENDS Lz4FastStream, Lz4HcStream, Lz4DecodeStream

CONSTANT
  Streams       (* "fast", "hc", "decoder"                                 *)

VARIABLE
  stream

streamVars == <<stream, userVars, blockVars, hcVars, sdVars>>

(* A dictionary of which every byte is another one, as in Lz4HcStream.     *)
Numbered == [i \in DOMAIN Dictionary |-> i]

(* Only a decoder chooses the size of its ring.                            *)
Init ==
  /\ stream \in Streams
  /\ UserInit(IF stream = "fast" THEN Dictionary ELSE Numbered)
  /\ layout = "own" => stream = "decoder"
  /\ StreamInit
  /\ HcInit
  /\ DecodeInit

Fast(Action) == stream = "fast" /\ UNCHANGED <<stream, hcVars, sdVars>> /\ Action
Hc(Action) == stream = "hc" /\ UNCHANGED <<stream, blockVars, sdVars>> /\ Action
Decoder(Action) == stream = "decoder" /\ UNCHANGED <<stream, blockVars, hcVars>> /\ Action

Next ==
  \/ \E word \in Words, room \in Rooms : Fast(CompressContinue(word, room))
  \/ \E word \in Singles, room \in SingleRooms :
       \/ Fast(ExtState(word, room))
       \/ Fast(FastReset(word, room))
       \/ Fast(DestSize(word, room))
  \/ Fast(CompressBlock)
  \/ Fast(Returned)
  \/ Fast(InitStream)
  \/ Fast(ResetStreamFast)
  \/ \E n \in DictSizes : Fast(LoadDict(n)) \/ Fast(AttachDictionary(n))
  \/ \E n \in SaveSizes : Fast(SaveDict(n))
  \/ \E n \in HcSizes, limit \in {"limitedOutput", "fillOutput", "refused"} :
       Hc(HcContinue(n, limit)) \/ Hc(HcExtState(n, limit))
  \/ Hc(HcReturned)
  \/ Hc(HcInitStream)
  \/ Hc(HcResetFast)
  \/ \E n \in DictSizes : Hc(HcLoadDict(n)) \/ Hc(HcAttach(n))
  \/ \E n \in SaveSizes : Hc(HcSaveDict(n))
  \/ \E n, room \in DecodeSizes : Decoder(DecodeContinue(n, room))
  \/ Decoder(DecodeReturned)
  \/ Decoder(DecodeFailed)
  \/ \E n \in DictSizes \union {0} : Decoder(SetStreamDecode(n))
  \/ \E n \in SaveSizes : Decoder(SaveDecoded(n))

Spec == Init /\ [][Next]_streamVars
==============================================================================
