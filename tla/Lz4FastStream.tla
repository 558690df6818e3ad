----------------------------- MODULE Lz4FastStream -----------------------------
(***************************************************************************)
(* The streams of lz4.c: LZ4_compress_fast_continue and what belongs to    *)
(* it, and the functions for single blocks that use the same state.        *)
(*                                                                         *)
(* A stream is never cleared if that can be avoided: what its hash table   *)
(* still holds of other blocks and other streams is kept apart by the      *)
(* numbers that positions have.                                            *)
(***************************************************************************)
EXTENDS Lz4FastBlock

CONSTANTS
  RENORM,       (* 0x80000000: from there on positions are made small.     *)
  HASH_UNIT,    (* sizeof(reg_t).                                          *)
  Rooms,        (* maxOutputSize, of a stream                              *)
  SingleRooms   (* and of a block of its own.                              *)

(* No block is so long that positions come near RENORM with it alone.      *)
ASSUME StreamAssumption ==
  /\ Rooms \cup SingleRooms \subseteq Nat
  /\ HASH_UNIT \in Nat /\ HASH_UNIT > MINMATCH
  /\ RENORM \in Nat /\ MAXBLOCK + W <= RENORM

(* Mutant: the table is kept.                                              *)
NeverReset(s, n, tableType) == FALSE

(* "figure out if it's safe to leave as is or whether it needs to be reset"*)
MustReset(s, n, tableType) ==
  /\ s.tableType # "cleared"
  /\ \/ s.tableType # tableType
     \/ tableType = "byU16" /\ s.currentOffset + n >= DISTANCE_MAX
     \/ tableType = "byU32" /\ s.currentOffset > GB1
     \/ n >= KB4

LZ4_prepareTable(s, n, tableType) ==
  LET kept == IF MustReset(s, n, tableType)
                THEN LZ4_initStream
                ELSE [s EXCEPT !.dictCtx = FALSE, !.dictionary = NULL, !.dictSize = 0]
  IN  IF kept.currentOffset # 0 /\ tableType = "byU32"
        THEN [kept EXCEPT !.currentOffset = @ + W] ELSE kept

(* Every third position of the last 64 KB.                                 *)
Hashed(from, end, start) ==
  [h \in Hashes |->
    LET here == {k \in 0 .. end - HASH_UNIT - from : k % 3 = 0 /\ HashAt(from + k, "byU32") = h}
    IN  IF here = {} THEN 0 ELSE start + Max(here)]

LZ4_loadDict(n) ==
  LET kept == IF n > W THEN W ELSE n
      end  == DICT + n
  IN  IF n < HASH_UNIT THEN [LZ4_initStream EXCEPT !.currentOffset = W]
      ELSE [table |-> Hashed(end - kept, end, W - kept), currentOffset |-> W,
            tableType |-> "byU32", dictionary |-> end - kept, dictSize |-> kept,
            dictCtx |-> FALSE]

(* Mutant: positions are not made smaller with the offset.                 *)
RenormOffsetOnly(s, n) ==
  IF s.currentOffset + n <= RENORM THEN s ELSE [s EXCEPT !.currentOffset = W]

(* "fix index overflow"                                                    *)
LZ4_renormDictT(s, n) ==
  IF s.currentOffset + n <= RENORM THEN s
  ELSE LET delta == s.currentOffset - W
           kept  == IF s.dictSize > W THEN W ELSE s.dictSize
       IN  [s EXCEPT !.table = [h \in Hashes |-> IF @[h] < delta THEN 0 ELSE @[h] - delta],
                     !.currentOffset = W, !.dictSize = kept,
                     !.dictionary = s.dictionary + s.dictSize - kept]

(* "invalidate tiny dictionaries"                                          *)
Tiny(s, end, source, n) == s.dictSize < 4 /\ end # source /\ n > 0 /\ ~s.dictCtx

(* Mutant: what the block overwrites stays in the dictionary.              *)
OverlapKept(s, end, source, n) == s

(* "Check overlapping input/dictionary space"                              *)
WithoutOverlap(s, end, source, n) ==
  LET left == Min({end - (source + n), W})
      kept == IF left < 4 THEN 0 ELSE left
  IN  IF source + n > s.dictionary /\ source + n < end
        THEN [s EXCEPT !.dictSize = kept, !.dictionary = end - kept] ELSE s

Issue(s) ==
  IF s.dictSize < W /\ s.dictSize < s.currentOffset THEN "dictSmall" ELSE "noDictIssue"

LZ4_compress_fast_continue(source, n, room) ==
  LET end    == IF lz.dictSize > 0 THEN lz.dictionary + lz.dictSize ELSE NULL
      renorm == LZ4_renormDictT(lz, n)
      tiny   == Tiny(renorm, end, source, n)
      end2   == IF tiny THEN source ELSE end
      s      == WithoutOverlap(IF tiny THEN [renorm EXCEPT !.dictSize = 0, !.dictionary = source]
                               ELSE renorm, end2, source, n)
      Compress(stream, directive, issue) ==
        LZ4_compress_generic(stream, source, n, room, "limitedOutput", "byU32", directive, issue)
  IN  IF end2 = source THEN Compress(s, "withPrefix64k", Issue(s))
      ELSE IF s.dictCtx
        THEN IF n > KB4 THEN Compress(dictLz, "usingExtDict", "noDictIssue")
             ELSE Compress(s, "usingDictCtx", "noDictIssue")
      ELSE Compress(s, "usingExtDict", Issue(s))
-----------------------------------------------------------------------------
Idle == pc = "idle"

StreamInit == BlockInit /\ lz = LZ4_initStream /\ dictLz = LZ4_initStream

CompressContinue(word, room) ==
  /\ Idle /\ Written(word)
  /\ LZ4_compress_fast_continue(Place(Len(word)), Len(word), room)

(* A block of its own: LZ4_compress_fast_extState, its variant with        *)
(* fastReset, and LZ4_compress_destSize.                                   *)
Limit(n, room) == IF room >= CompressBound(n) THEN "notLimited" ELSE "limitedOutput"
TableType(n) == IF n < W + MFLIMIT - 1 THEN "byU16" ELSE "byU32"

ExtState(word, room) ==
  LET n == Len(word) IN
  /\ Idle /\ Single(word, "closed")
  /\ LZ4_compress_generic(LZ4_initStream, BUF, n, room, Limit(n, room), TableType(n),
                          "noDict", "noDictIssue")

FastReset(word, room) ==
  LET n == Len(word)
      s == LZ4_prepareTable(lz, n, TableType(n))
  IN
  /\ Idle /\ status # "broken" /\ Single(word, "closed")
  /\ LZ4_compress_generic(s, BUF, n, room, Limit(n, room), TableType(n), "noDict",
       IF TableType(n) = "byU16" /\ s.currentOffset # 0 THEN "dictSmall" ELSE "noDictIssue")

DestSize(word, room) ==
  LET n == Len(word) IN
  /\ Idle /\ Single(word, "broken")
  /\ LZ4_compress_generic(LZ4_initStream, BUF, n, room,
       IF room >= CompressBound(n) THEN "notLimited" ELSE "fillOutput", TableType(n),
       "noDict", "noDictIssue")

ExternalMode == call.directive \in {"usingExtDict", "usingDictCtx"}

(* The call returns; in external mode the block is the next dictionary.    *)
Returned ==
  /\ pc = "returned" /\ pc' = "idle"
  /\ lz' = IF ExternalMode THEN [lz EXCEPT !.dictionary = call.source, !.dictSize = call.n]
           ELSE lz
  /\ IF result > 0 THEN Sent(decoded) ELSE Failed
  /\ call' = NoCall /\ result' = 0
  /\ ip' = NULL /\ forward' = NULL /\ tries' = 0 /\ cand' = NoMatch /\ filled' = NULL
  /\ anchor' = NULL /\ token' = 0 /\ op' = 0 /\ decoded' = <<>> /\ reach' = 0 /\ stray' = FALSE
  /\ UNCHANGED dictLz

Between == Idle /\ UNCHANGED <<call, pc, locals, result>>

InitStream == Between /\ Begun(<<>>) /\ lz' = LZ4_initStream /\ UNCHANGED dictLz

ResetStreamFast ==
  /\ Between /\ status # "broken" /\ Begun(<<>>)
  /\ lz' = LZ4_prepareTable(lz, 0, "byU32") /\ UNCHANGED dictLz

LoadDict(n) ==
  /\ Between /\ Begun(Word(DICT, n))
  /\ lz' = LZ4_loadDict(n) /\ UNCHANGED dictLz

(* LZ4_resetStream_fast, then LZ4_attach_dictionary of a stream that       *)
(* LZ4_loadDict has prepared.                                              *)
AttachDictionary(n) ==
  /\ Between /\ status # "broken" /\ Begun(Word(DICT, n))
  /\ dictLz' = LZ4_loadDict(n)
  /\ LET s == LZ4_prepareTable(lz, 0, "byU32")
     IN  lz' = [s EXCEPT !.currentOffset = IF @ = 0 THEN W ELSE @,
                         !.dictCtx = dictLz'.dictSize > 0]

(* Mutant: the beginning of the dictionary is saved, not its end.          *)
SavedFromStart(n) == lz.dictionary

SavedFrom(n) == lz.dictionary + lz.dictSize - n

SaveDict(size) ==
  LET n == Min({size, W, lz.dictSize}) IN
  /\ Between
  /\ \E safe \in SafeBuffers(n) :
       /\ Saved(safe, SavedFrom(n), n)
       /\ lz' = [lz EXCEPT !.dictionary = safe, !.dictSize = n]
  /\ UNCHANGED dictLz
-----------------------------------------------------------------------------
Source == Word(call.source, call.n)

Compressing == ~Idle /\ (pc = "returned" => result > 0)

(* What LZ4_compress_fast_continue and the others write is decoded, with   *)
(* the history that the decoder has, to the block they were given; what    *)
(* LZ4_compress_destSize writes is decoded to as much of it as it says it  *)
(* has consumed.  However the blocks lie in memory, and whatever the stream*)
(* was used for before, no distance leads to other bytes than the ones     *)
(* that were compared.                                                     *)
BlocksDecode ==
  Compressing =>
    /\ decoded = SubSeq(Source, 1, Len(decoded))
    /\ pc = "returned" =>
         Len(decoded) = IF call.limit = "fillOutput" THEN ip - call.source ELSE call.n

(* Between two calls the dictionary of a stream, as far as a distance      *)
(* reaches, is the end of what the decoder has: blocks that were           *)
(* overwritten, moved by LZ4_saveDict or left behind are not part of it.   *)
DictionaryIsHistory ==
  Idle /\ status = "open" /\ ~lz.dictCtx =>
    LET n == Min({lz.dictSize, DISTANCE_MAX, Len(history)})
    IN  Word(lz.dictionary + lz.dictSize - n, n) = SubSeq(history, Len(history) - n + 1, Len(history))

(* The search compares a block with nothing but the block itself, what     *)
(* stands before it in prefix mode, and the dictionary: a position that    *)
(* the table still has of another block or another stream is not looked    *)
(* up.  And each is smaller than the present one: the assertions of        *)
(* LZ4_compress_generic_validated.                                         *)
ComparesOnlyData == ~stray

(* dst is never written past its end: not by copies in pieces of eight     *)
(* bytes, not by the four bytes at a time of a long match, and not by the  *)
(* match that is made shorter to fit.                                      *)
StaysInOutput == call.limit # "notLimited" => reach <= call.room
==============================================================================
