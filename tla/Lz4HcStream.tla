------------------------------ MODULE Lz4HcStream ------------------------------
(***************************************************************************)
(* The streams of lz4hc.c: LZ4_compress_HC_continue and what belongs to    *)
(* it, and the functions for single blocks that use the same state.        *)
(*                                                                         *)
(* A position of the stream is an index.  From dictLimit on indices mean   *)
(* the prefix, the bytes from prefixStart to the block; from lowLimit to   *)
(* dictLimit the external dictionary, the bytes from dictStart on; and     *)
(* before them, as long as it is attached, comes the other stream's        *)
(* dictionary.  Lz4HcFinder searches in one block; here no search is made. *)
(* Every byte of a block is another one, and all the positions a search    *)
(* could look up are compared with what the decoder has at that distance.  *)
(*                                                                         *)
(* Left out is favorDecSpeed, and the level: both change only what a       *)
(* search elects.                                                          *)
(***************************************************************************)
EXTENDS Lz4StreamUser

CONSTANTS
  HcSizes,      (* How long blocks are.                                    *)
  GB2,          (* 2 GB: from there on a stream is loaded anew.            *)
  GOES_ON       (* The program goes on with a stream that has not read all *)
                (* of its last block.                                      *)

(* A stream whose positions begin anew stays below 2 GB.                   *)
ASSUME HcAssumption ==
  /\ HcSizes \subseteq Nat /\ GOES_ON \in BOOLEAN
  /\ GB2 \in Nat /\ GB1 + W <= GB2

VARIABLES
  hc,           (* The stream; top is the last position in its hash table. *)
  dictHc,       (* The stream that dictCtx points to.                      *)
  hcCall,       (* The block that is compressed: source, n, limit.         *)
  cut           (* History: a part of the stream was saved while a         *)
                (* dictionary was attached, and the rest is in between.    *)

hcVars == <<hc, dictHc, hcCall, cut>>

LZ4HC_HASHSIZE == 4
NoHcCall == [source |-> NULL, n |-> 0, limit |-> "none"]

LZ4_initStreamHC ==
  [prefixStart |-> NULL, end |-> NULL, dictStart |-> NULL, dictLimit |-> 0, lowLimit |-> 0,
   nextToUpdate |-> 0, dirty |-> FALSE, dictCtx |-> FALSE, top |-> 0]

PrefixSize(s) == s.end - s.prefixStart
EndIndex(s) == PrefixSize(s) + s.dictLimit

(* LZ4HC_Insert: all positions before ip.                                  *)
LZ4HC_Insert(s, ip) ==
  LET target == ip - s.prefixStart + s.dictLimit
  IN  [s EXCEPT !.top = IF s.nextToUpdate < target THEN Max({@, target - 1}) ELSE @,
                !.nextToUpdate = target]

(* Mutant: positions begin anew, and the table is not cleared.             *)
InitUncleared(s, start) ==
  LET offset == (IF EndIndex(s) > GB1 THEN 0 ELSE EndIndex(s)) + W
  IN  [s EXCEPT !.nextToUpdate = offset, !.dictLimit = offset, !.lowLimit = offset,
                !.prefixStart = start, !.end = start, !.dictStart = start]

LZ4HC_init_internal(s, start) ==
  LET far    == EndIndex(s) > GB1
      offset == (IF far THEN 0 ELSE EndIndex(s)) + W
  IN  [s EXCEPT !.top = IF far THEN 0 ELSE @,
                !.nextToUpdate = offset, !.dictLimit = offset, !.lowLimit = offset,
                !.prefixStart = start, !.end = start, !.dictStart = start]

LZ4_resetStreamHC_fast(s) ==
  IF s.dirty THEN LZ4_initStreamHC
  ELSE [s EXCEPT !.dictLimit = EndIndex(s), !.prefixStart = NULL, !.end = NULL,
                 !.dictCtx = FALSE]

LZ4_loadDictHC(dictionary, n) ==
  LET kept  == Min({n, W})
      start == dictionary + n - kept
      s     == [LZ4HC_init_internal(LZ4_initStreamHC, start) EXCEPT !.end = start + kept]
  IN  IF kept >= LZ4HC_HASHSIZE THEN LZ4HC_Insert(s, s.end - 3) ELSE s

(* Mutant: the attached dictionary stays, behind the external one.         *)
ExternalAttached(s, newBlock) ==
  LET t == IF PrefixSize(s) >= 4 THEN LZ4HC_Insert(s, s.end - 3) ELSE s
  IN  [t EXCEPT !.lowLimit = s.dictLimit, !.dictStart = s.prefixStart,
                !.dictLimit = EndIndex(s), !.nextToUpdate = EndIndex(s),
                !.prefixStart = newBlock, !.end = newBlock]

LZ4HC_setExternalDict(s, newBlock) ==
  LET t == IF PrefixSize(s) >= 4 THEN LZ4HC_Insert(s, s.end - 3) ELSE s
  IN  [t EXCEPT !.lowLimit = s.dictLimit, !.dictStart = s.prefixStart,
                !.dictLimit = EndIndex(s), !.nextToUpdate = EndIndex(s),
                !.prefixStart = newBlock, !.end = newBlock, !.dictCtx = FALSE]

(* Mutant: what the block overwrites stays in the dictionary.              *)
HcOverlapKept(s, source, n) == s

(* "Check overlapping input/dictionary space"                              *)
HcWithoutOverlap(s, source, n) ==
  LET dictEnd == s.dictStart + s.dictLimit - s.lowLimit
      gone    == Min({source + n, dictEnd}) - s.dictStart
  IN  IF source + n > s.dictStart /\ source < dictEnd
        THEN IF s.dictLimit - (s.lowLimit + gone) < LZ4HC_HASHSIZE
               THEN [s EXCEPT !.lowLimit = s.dictLimit, !.dictStart = s.prefixStart]
               ELSE [s EXCEPT !.lowLimit = @ + gone, !.dictStart = @ + gone]
        ELSE s

(* Mutant: positions are never made small again.                           *)
HcNeverReloaded(s) == s

(* "Check overflow"                                                        *)
Reloaded(s) ==
  IF EndIndex(s) <= GB2 THEN s
  ELSE LET n == Min({PrefixSize(s), W}) IN LZ4_loadDictHC(s.end - n, n)

(* LZ4_compressHC_continue_generic, up to the call of                      *)
(* LZ4HC_compress_generic.                                                 *)
Continued(s, source, n) ==
  LET begun  == IF s.prefixStart = NULL THEN LZ4HC_init_internal(s, source) ELSE s
      loaded == Reloaded(begun)
      joined == IF source # loaded.end THEN LZ4HC_setExternalDict(loaded, source) ELSE loaded
  IN  HcWithoutOverlap(joined, source, n)

(* LZ4HC_compress_generic_dictCtx: the dictionary is out of reach, or it   *)
(* is copied.                                                              *)
Dispatched(s, source, n) ==
  LET position == PrefixSize(s) + s.dictLimit - s.lowLimit
  IN  IF ~s.dictCtx THEN s
      ELSE IF position >= W THEN [s EXCEPT !.dictCtx = FALSE]
      ELSE IF position = 0 /\ n > KB4 THEN LZ4HC_setExternalDict(dictHc, source)
      ELSE s

(* LZ4HC_compress_generic; "refused": there is no room at all for output   *)
(* to fill, or the block is too long.                                      *)
CompressHc(s, source, n, limit) ==
  /\ hc' = [Dispatched(s, source, n) EXCEPT !.end = IF limit = "refused" THEN @ ELSE @ + n]
  /\ hcCall' = [source |-> source, n |-> n, limit |-> limit]
  /\ UNCHANGED dictHc
-----------------------------------------------------------------------------
HcIdle == hcCall = NoHcCall

HcInit ==
  hc = LZ4_initStreamHC /\ dictHc = LZ4_initStreamHC /\ hcCall = NoHcCall /\ cut = FALSE

(* A block of which every byte is another one.                             *)
Block(n) == [i \in 1 .. n |-> (blocks + 1) * 100 + i]

HcContinue(n, limit) ==
  /\ HcIdle /\ Written(Block(n))
  /\ LET source == Place(n)
         s      == Continued(hc, source, n)
     IN  /\ CompressHc(s, source, n, limit)
         /\ cut' = (cut /\ (hc.dictCtx => s.dictCtx))

(* LZ4_compress_HC_extStateHC_fastReset; LZ4_compress_HC_extStateHC and    *)
(* LZ4_compress_HC_destSize initialize the stream before.                  *)
HcExtState(n, limit) ==
  /\ HcIdle /\ Single(Block(n), "closed") /\ cut' = FALSE
  /\ \/ /\ limit # "fillOutput"
        /\ CompressHc(LZ4HC_init_internal(LZ4_resetStreamHC_fast(hc), BUF), BUF, n, limit)
     \/ CompressHc(LZ4HC_init_internal(LZ4_initStreamHC, BUF), BUF, n, limit)

(* The program goes on where the stream has stopped reading, or begins     *)
(* anew.                                                                   *)
ReadOnly(m) ==
  IF m < hcCall.n /\ ~GOES_ON
    THEN /\ status' = "closed"
         /\ UNCHANGED <<mem, history, layout, at, unsaved, blocks, calls>>
    ELSE /\ history' = (IF status = "open" THEN Recent(history \o Word(hcCall.source, m))
                        ELSE history)
         /\ at' = at - (hcCall.n - m)
         /\ UNCHANGED <<mem, layout, status, unsaved, blocks, calls>>

(* The search has inserted positions up to somewhere; with fillOutput not  *)
(* all of the block may have been read.                                    *)
HcReturned ==
  /\ ~HcIdle /\ hcCall' = NoHcCall /\ UNCHANGED <<dictHc, cut>>
  /\ \/ hcCall.limit = "refused" /\ Failed /\ UNCHANGED hc
     \/ /\ hcCall.limit # "refused"
        /\ \E ip \in hcCall.source .. Max({hcCall.source, hc.end - MFLIMIT}) :
             LET s == IF hcCall.n > MFLIMIT THEN LZ4HC_Insert(hc, ip) ELSE hc
             IN  \/ /\ \E m \in IF hcCall.limit = "fillOutput" THEN 0 .. hcCall.n ELSE {hcCall.n} :
                         ReadOnly(m)
                    /\ hc' = s
                 \/ Failed /\ hc' = [s EXCEPT !.dirty = TRUE]

HcBetween == HcIdle /\ UNCHANGED hcCall

(* Another stream, from which nothing is cut away yet.                     *)
HcBegun(bytes) == HcBetween /\ Begun(bytes) /\ cut' = FALSE

HcInitStream == HcBegun(<<>>) /\ hc' = LZ4_initStreamHC /\ UNCHANGED dictHc

HcResetFast == HcBegun(<<>>) /\ hc' = LZ4_resetStreamHC_fast(hc) /\ UNCHANGED dictHc

HcLoadDict(n) ==
  /\ HcBegun(Word(DICT, n))
  /\ hc' = LZ4_loadDictHC(DICT, n) /\ UNCHANGED dictHc

(* LZ4_attach_HC_dictionary, to a stream that has just been reset.         *)
HcAttach(n) ==
  /\ HcBegun(Word(DICT, n))
  /\ hc' = [LZ4_resetStreamHC_fast(hc) EXCEPT !.dictCtx = TRUE]
  /\ dictHc' = LZ4_loadDictHC(DICT, n)

(* Mutant: nextToUpdate is left behind.                                    *)
SavedBehind(s, safe, n) ==
  [s EXCEPT !.prefixStart = safe, !.end = safe + n, !.dictStart = safe,
            !.dictLimit = EndIndex(s) - n, !.lowLimit = EndIndex(s) - n]

SavedAt(s, safe, n) ==
  [s EXCEPT !.prefixStart = safe, !.end = safe + n, !.dictStart = safe,
            !.dictLimit = EndIndex(s) - n, !.lowLimit = EndIndex(s) - n,
            !.nextToUpdate = Max({@, EndIndex(s) - n})]

(* LZ4_saveDictHC.  An attached dictionary stays attached: its positions   *)
(* are those before the lowest one of the stream, and that moves up to     *)
(* what is saved.                                                          *)
HcSaveDict(size) ==
  LET wanted == IF size < 4 THEN 0 ELSE Min({size, W})
      n      == Min({wanted, PrefixSize(hc)})
  IN
  /\ HcBetween
  /\ cut' = (cut \/ (hc.dictCtx /\ n < PrefixSize(hc)))
  /\ \E safe \in SafeBuffers(n) : Saved(safe, hc.end - n, n) /\ hc' = SavedAt(hc, safe, n)
  /\ UNCHANGED dictHc
-----------------------------------------------------------------------------
startIndex == hcCall.source - hc.prefixStart + hc.dictLimit
lowest == Max({hc.lowLimit, startIndex - DISTANCE_MAX})

(* What the decoder has at this distance from the block: <<>> if it has    *)
(* nothing there.                                                          *)
HistoryAt(distance) ==
  IF distance <= Len(history) THEN <<history[Len(history) - distance + 1]>> ELSE <<>>

SeenAt(index) ==
  IF index >= hc.dictLimit THEN Byte(hc.prefixStart + index - hc.dictLimit)
  ELSE Byte(hc.dictStart + index - hc.lowLimit)

(* Whatever an index means that a search may look up, from the lowest one  *)
(* to the block, is what the decoder has at that distance: however the     *)
(* blocks lie, whether the dictionary was loaded, saved, overwritten in    *)
(* part or has become the external one, and when positions begin anew.     *)
(* Only after a cut, once the attached dictionary has been copied into the *)
(* stream, its positions are among these.                                  *)
WindowIsHistory ==
  ~HcIdle /\ (cut => hc.dictCtx) =>
    \A index \in lowest .. startIndex - 1 : HistoryAt(startIndex - index) = <<SeenAt(index)>>

(* The same of the positions of an attached dictionary, which stand before *)
(* the lowest of the stream's own: it "will remain attached to the working *)
(* stream" for "the current stream session" (lz4hc.h:398), and a part of   *)
(* the blocks may be saved (lz4hc.h:146).                                  *)
AttachedIsHistory ==
  /\ ~HcIdle /\ hcCall.limit # "refused"
  /\ hc.dictCtx /\ startIndex - lowest < DISTANCE_MAX
  =>
    \A index \in dictHc.dictLimit .. EndIndex(dictHc) - 1 :
      LET distance == EndIndex(dictHc) - index + startIndex - lowest
      IN  distance <= DISTANCE_MAX =>
            HistoryAt(distance) = <<Byte(dictHc.prefixStart + index - dictHc.dictLimit)>>

(* And so it is as long as no part of the blocks has been saved with the   *)
(* dictionary attached, or the block after that was not put right behind   *)
(* what was saved, which detaches the dictionary.                          *)
AttachedUnlessCut == ~cut => AttachedIsHistory

(* The table knows no position that is still to come, positions that are   *)
(* yet to be inserted are in the prefix, and all fit into 32 bits: the     *)
(* assertions of LZ4HC_InsertAndGetWiderMatch and LZ4HC_Insert, in a       *)
(* stream that is not cleared when it is used again.                       *)
PositionsInOrder ==
  ~HcIdle => /\ hc.top < startIndex
             /\ hc.nextToUpdate >= hc.dictLimit
             /\ startIndex <= GB2
==============================================================================
