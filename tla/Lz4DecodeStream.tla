---------------------------- MODULE Lz4DecodeStream ----------------------------
(***************************************************************************)
(* The streams of the decoder in lz4.c: LZ4_decompress_safe_continue, its  *)
(* counterpart that trusts its input, and LZ4_setStreamDecode.             *)
(*                                                                         *)
(* The state says where the last blocks are: the prefix, which ends where  *)
(* the next block begins, or has just been left; and the segment before    *)
(* it.  A block is decoded in one step, Lz4SafeDecoder does it byte for    *)
(* byte; in between the property looks at what can be copied.  As in       *)
(* Lz4HcStream every byte is another one.                                  *)
(***************************************************************************)
EXTENDS Lz4StreamUser

CONSTANTS
  DecodeSizes,  (* How long blocks are.                                    *)
  RING_MARGIN,  (* 14, in LZ4_DECODER_RING_BUFFER_SIZE,                    *)
  RING_BLOCK,   (* and 16, the block that it is made for at least.         *)
  OVERSHOOT,    (* By how much a copy in pieces writes too far: 16 bytes   *)
                (* for no literals at all.                                 *)
  FAST_OVERSHOOT, (* In the loop for fast decoding: 31, LZ4_wildCopy32.    *)
  FASTLOOP_SAFE_DISTANCE (* Room with which that loop is begun: 64.        *)

(* A block is no shorter than none, and no copy ends before it should.     *)
ASSUME DecodeAssumption ==
  /\ DecodeSizes \subseteq Nat
  /\ {RING_MARGIN, RING_BLOCK, OVERSHOOT, FAST_OVERSHOOT, FASTLOOP_SAFE_DISTANCE} \subseteq Nat
  /\ FAST_OVERSHOOT < FASTLOOP_SAFE_DISTANCE

VARIABLES
  sd,           (* LZ4_streamDecode_t.                                     *)
  decoding      (* The block that is decoded: dest, n, room, and what it   *)
                (* may refer to: prefix (its size), dict, dictSize.        *)

sdVars == <<sd, decoding>>

NotDecoding ==
  [dest |-> NULL, n |-> 0, room |-> 0, prefix |-> 0, dict |-> NULL, dictSize |-> 0]

DecodeInit ==
  /\ sd = [prefixEnd |-> NULL, prefixSize |-> 0, externalDict |-> NULL, extDictSize |-> 0]
  /\ decoding = NotDecoding

(* Mutant: without the margin.                                             *)
RingOf64K(maxBlockSize) == W + maxBlockSize

(* The ring that holds 64 KB before any block of this size, and the margin;*)
(* 0 for a size that no block may have.                                    *)
LZ4_decoderRingBufferSize(maxBlockSize) ==
  IF maxBlockSize \in 0 .. MAX_INPUT_SIZE
    THEN W + RING_MARGIN + Max({maxBlockSize, RING_BLOCK}) ELSE 0

(* Where the next block goes; "own": a ring for blocks of any source.      *)
DecodePlace(n) ==
  IF layout = "own"
    THEN IF BUF + LZ4_decoderRingBufferSize(MAXBLOCK) - at < MAXBLOCK THEN BUF ELSE at
    ELSE Place(n)

(* Mutant: the segment before the last one stays the dictionary.           *)
SwitchedKeeps(s) ==
  IF s.extDictSize > 0 THEN s
  ELSE [s EXCEPT !.extDictSize = s.prefixSize, !.externalDict = s.prefixEnd - s.prefixSize]

(* "The buffer wraps around, or they're switching to another buffer."      *)
Switched(s) ==
  [s EXCEPT !.extDictSize = s.prefixSize, !.externalDict = s.prefixEnd - s.prefixSize]

Rolling(dest) == sd.prefixSize > 0 /\ sd.prefixEnd = dest
Switching(dest) == sd.prefixSize > 0 /\ sd.prefixEnd # dest

(* LZ4_decompress_safe_withPrefix64k takes 64 KB before dest for granted.  *)
References(s, dest) ==
  IF Switching(dest) THEN [prefix |-> 0, dict |-> s.externalDict, dictSize |-> s.extDictSize]
  ELSE IF Rolling(dest) /\ s.prefixSize >= W - 1
    THEN [prefix |-> W, dict |-> NULL, dictSize |-> 0]
  ELSE [prefix |-> s.prefixSize, dict |-> s.externalDict, dictSize |-> s.extDictSize]

DecodeIdle == decoding = NotDecoding

(* LZ4_decompress_safe_continue, or LZ4_decompress_fast_continue.  When    *)
(* buffers are kept in step with the encoder's, a block has just the room  *)
(* it needs.                                                               *)
DecodeContinue(n, room) ==
  LET dest == DecodePlace(n)
      s    == IF Switching(dest) THEN Switched(sd) ELSE sd
      r    == References(s, dest)
  IN
  /\ DecodeIdle /\ status = "open" /\ ~unsaved /\ blocks < BLOCKS
  /\ n <= MAXBLOCK /\ n <= room /\ (layout # "own" => room = n)
  /\ sd' = s
  /\ decoding' = [dest |-> dest, n |-> n, room |-> room,
                  prefix |-> r.prefix, dict |-> r.dict, dictSize |-> r.dictSize]
  /\ UNCHANGED userVars

(* result > 0; an empty block gives 0, and leaves the stream as it is.     *)
DecodeReturned ==
  LET dest  == decoding.dest
      n     == decoding.n
      block == [i \in 1 .. n |-> (blocks + 1) * 1000 + i]
  IN
  /\ ~DecodeIdle /\ decoding' = NotDecoding
  /\ sd' = IF n = 0 THEN sd
           ELSE [sd EXCEPT !.prefixSize = IF Rolling(dest) THEN @ + n ELSE n,
                           !.prefixEnd = dest + n]
  /\ mem' = With(mem, dest, block)
  /\ history' = Recent(history \o block)
  /\ at' = dest + n /\ blocks' = blocks + 1 /\ unsaved' = (layout = "one" /\ n > 0)
  /\ UNCHANGED <<layout, status, calls>>

(* A block that cannot be decoded: what is behind the last one is lost.    *)
DecodeFailed ==
  /\ ~DecodeIdle /\ decoding' = NotDecoding
  /\ mem' = With(mem, decoding.dest, [i \in 1 .. decoding.n |-> Foreign])
  /\ status' = "invalid"
  /\ UNCHANGED <<sd, history, layout, at, unsaved, blocks, calls>>

LZ4_setStreamDecode(dictionary, n) ==
  [prefixSize |-> n, prefixEnd |-> dictionary + n, externalDict |-> NULL, extDictSize |-> 0]

(* Another stream of blocks, with or without a dictionary.                 *)
SetStreamDecode(n) ==
  /\ DecodeIdle /\ Begun(Word(DICT, n))
  /\ sd' = LZ4_setStreamDecode(IF n = 0 THEN NULL ELSE DICT, n)
  /\ UNCHANGED decoding

(* The last n bytes are copied away before the buffer is used again, and   *)
(* the encoder, too, has no more than these.                               *)
SaveDecoded(size) ==
  LET n == Min({size, W, sd.prefixSize}) IN
  /\ DecodeIdle /\ status = "open" /\ unsaved
  /\ \E safe \in SafeBuffers(n) :
       /\ mem' = With(mem, safe, Word(sd.prefixEnd - n, n))
       /\ sd' = LZ4_setStreamDecode(safe, n)
  /\ unsaved' = FALSE
  /\ history' = SubSeq(history, Len(history) - Min({n, Len(history)}) + 1, Len(history))
  /\ UNCHANGED <<layout, at, status, blocks, calls, decoding>>
-----------------------------------------------------------------------------
(* The address of the byte that stands k bytes before the block, for the   *)
(* decoder; NULL: "offset outside buffers".                                *)
AddressOf(k) ==
  IF k <= decoding.prefix THEN decoding.dest - k
  ELSE IF k > decoding.prefix + decoding.dictSize THEN NULL
  ELSE decoding.dict + decoding.dictSize - (k - decoding.prefix)

FastLoop == decoding.room >= FASTLOOP_SAFE_DISTANCE

(* How far dst has been written when byte p of the block is the next one.  *)
(* The last copy for fast decoding has ended there, or where it could just *)
(* not write behind dst.                                                   *)
WrittenBy(p) ==
  LET fast == Min({p, decoding.room - FAST_OVERSHOOT - 1}) + FAST_OVERSHOOT
  IN  Min({decoding.room, Max({p + OVERSHOOT} \union IF FastLoop THEN {fast} ELSE {})})

(* Mutant: a ring is large enough for any distance.                        *)
ReachEverywhere == DISTANCE_MAX

(* The distances for which a ring of LZ4_decoderRingBufferSize is large    *)
(* enough: it is begun anew with so much behind it that a copy may write   *)
(* RING_MARGIN + 2 too far.                                                *)
Reach ==
  IF layout = "own"
    THEN Min({DISTANCE_MAX, DISTANCE_MAX + RING_MARGIN + 2
                              - Max({OVERSHOOT} \union IF FastLoop THEN {FAST_OVERSHOOT} ELSE {})})
    ELSE DISTANCE_MAX

(* The last byte of the block that may be copied from k bytes before it,   *)
(* if distances go this far.                                               *)
LastReader(k, reach) == Min({decoding.n - 1, reach - k})

(* A source that uses rings of the same size, or two buffers in turn,      *)
(* refers to nothing that the block, or the blocks before it, overwrite,   *)
(* or that is two buffers back.                                            *)
SourceForgot(k) ==
  /\ layout \in {"ring", "two"}
  /\ IF AddressOf(k) = NULL THEN k > sd.prefixSize
     ELSE /\ k > decoding.prefix
          /\ AddressOf(k) \in decoding.dest - decoding.prefix .. decoding.dest + decoding.n - 1

(* What stands k bytes before the block is still where the decoder looks   *)
(* for it when it gets to a byte that refers to it.                        *)
InPlace(k, reach) ==
  /\ AddressOf(k) # NULL
  /\ AddressOf(k) \notin decoding.dest .. decoding.dest + WrittenBy(LastReader(k, reach)) - 1
  /\ Byte(AddressOf(k)) = history[Len(history) - k + 1]

(* Whatever a block may refer to, at any distance within Reach, is in      *)
(* place: after the ring has wrapped around or the buffer was changed,     *)
(* with what was saved, and although copies in pieces write further than   *)
(* they should.                                                            *)
WithinReachInPlace ==
  ~DecodeIdle /\ decoding.n > 0 =>
    \A k \in 1 .. Min({Len(history), Reach}) : SourceForgot(k) \/ InPlace(k, Reach)

(* The same at any distance at all: a ring of LZ4_decoderRingBufferSize is *)
(* for data "produced by any source compliant with LZ4 format              *)
(* specification" (lz4.h:471).                                             *)
HistoryInPlace ==
  ~DecodeIdle /\ decoding.n > 0 =>
    \A k \in 1 .. Len(history) : SourceForgot(k) \/ InPlace(k, DISTANCE_MAX)
==============================================================================
