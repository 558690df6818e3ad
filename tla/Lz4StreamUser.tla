---------------------------- MODULE Lz4StreamUser ----------------------------
(***************************************************************************)
(* A program that compresses one block after the other, and where it keeps *)
(* them (lz4.h:381-395): a line, each block behind the one before it; a    *)
(* ring, which is begun anew when a block does not fit behind the last;    *)
(* two buffers with a byte between them, used in turn; one buffer, from    *)
(* which the dictionary is saved before it is used again.                  *)
(***************************************************************************)
EXTENDS Lz4Format, FiniteSetsExt

CONSTANTS
  Words,        (* What blocks contain that belong together,               *)
  Singles,      (* and blocks of their own.                                *)
  Dictionary,   (* What is at address DICT.                                *)
  Layouts,      (* "line", "ring", "two", "one".                           *)
  MAXBLOCK,     (* No block is longer.                                     *)
  RING,         (* The size of the ring.                                   *)
  BLOCKS,       (* Bound: of so many blocks,                               *)
  CALLS,        (* and of so many calls between them.                      *)
  KB4,          (* 4 KB: "small data".                                     *)
  GB1,          (* 1 GB: from there on positions begin anew.               *)
  DictSizes,    (* How much of Dictionary is loaded,                       *)
  SaveSizes,    (* and how much of a block is saved.                       *)
  Foreign       (* What a byte is that belongs to somebody else.           *)

VARIABLES
  mem,          (* The memory: a byte for every address; 0 is NULL.        *)
  history,      (* What the decoder has before the next block.             *)
  layout,
  at,           (* Where the last block ends.                              *)
  status,       (* "open"; "invalid" after an error; "closed" after calls  *)
                (* for single blocks, "broken" after one with destSize.    *)
  unsaved,      (* The block is to be overwritten, and not saved yet.      *)
  blocks, calls (* How many there were.                                    *)

userVars == <<mem, history, layout, at, status, unsaved, blocks, calls>>

W == DISTANCE_MAX + 1           (* 64 KB                                   *)
NULL == 0

(* A dictionary has the bytes that are loaded; 1 GB is more than 64 KB.    *)
ASSUME UserAssumption ==
  /\ Words \cup Singles \cup {Dictionary} \subseteq Seq(U8)
  /\ Layouts \subseteq {"line", "ring", "two", "one", "own"}
  /\ MAXBLOCK \in Nat /\ RING \in Nat /\ BLOCKS \in Nat /\ CALLS \in Nat
  /\ DictSizes \subseteq 0 .. Len(Dictionary) /\ SaveSizes \subseteq Nat
  /\ KB4 \in Nat /\ GB1 \in Nat /\ W <= GB1

(* The regions: the dictionary, a safe place for another one, and, with    *)
(* room for one in front of them, the buffers.                             *)
DICT == 2
SAFE == DICT + Len(Dictionary) + 1
BUF  == SAFE + W + 1 + W
SECOND == BUF + MAXBLOCK + 1
TOP == BUF + (IF BLOCKS < 2 THEN 2 ELSE BLOCKS) * MAXBLOCK + 2

Byte(a) == IF a \in DOMAIN mem THEN mem[a] ELSE Foreign
Word(a, k) == [i \in 1 .. k |-> Byte(a + i - 1)]

(* memory m with these bytes at address a                                  *)
With(m, a, bytes) ==
  [x \in DOMAIN m |-> IF x - a + 1 \in DOMAIN bytes THEN bytes[x - a + 1] ELSE m[x]]

UserInit(dictionary) ==
  /\ mem = With([a \in 1 .. TOP |-> Foreign], DICT, dictionary)
  /\ history = <<>>
  /\ layout \in Layouts
  /\ at = BUF /\ status = "open" /\ unsaved = FALSE /\ blocks = 0 /\ calls = 0

(* Where the next block of n bytes goes.                                   *)
Place(n) ==
  CASE layout = "line" -> at
    [] layout = "ring" -> IF at + n <= BUF + RING THEN at ELSE BUF
    [] layout = "two"  -> IF at \in BUF + 1 .. BUF + MAXBLOCK THEN SECOND ELSE BUF
    [] layout = "one"  -> BUF

(* The last bytes, as far back as a distance reaches.                      *)
Recent(bytes) ==
  IF Len(bytes) <= DISTANCE_MAX THEN bytes
  ELSE SubSeq(bytes, Len(bytes) - DISTANCE_MAX + 1, Len(bytes))

(* The program puts a block where its turn is.                             *)
Written(word) ==
  /\ status = "open" /\ ~unsaved /\ blocks < BLOCKS /\ Len(word) <= MAXBLOCK
  /\ mem' = With(mem, Place(Len(word)), word)
  /\ at' = Place(Len(word)) + Len(word)
  /\ blocks' = blocks + 1
  /\ unsaved' = (layout = "one" /\ word # <<>>)
  /\ UNCHANGED <<history, layout, status, calls>>

(* A single block, somewhere.                                              *)
Single(word, next) ==
  /\ blocks < BLOCKS
  /\ mem' = With(mem, BUF, word)
  /\ at' = BUF /\ blocks' = blocks + 1 /\ unsaved' = FALSE
  /\ history' = <<>> /\ status' = next
  /\ UNCHANGED <<layout, calls>>

(* A stream is begun: with no history, or with a dictionary.               *)
Begun(bytes) ==
  /\ calls < CALLS /\ calls' = calls + 1
  /\ history' = Recent(bytes)
  /\ status' = "open" /\ at' = BUF /\ unsaved' = FALSE
  /\ UNCHANGED <<mem, layout, blocks>>

(* Where a dictionary of n bytes may be saved: far away, or in front of    *)
(* the buffer; nothing needs no place.                                     *)
SafeBuffers(n) == {SAFE, BUF - n} \union IF n = 0 THEN {NULL} ELSE {}

Saved(safe, from, n) ==
  /\ status = "open" /\ unsaved
  /\ mem' = With(mem, safe, Word(from, n))
  /\ unsaved' = FALSE
  /\ UNCHANGED <<history, layout, at, status, blocks, calls>>

(* The decoder gets what was compressed.                                   *)
Sent(bytes) ==
  /\ history' = (IF status = "open" THEN Recent(history \o bytes) ELSE history)
  /\ UNCHANGED <<mem, layout, at, status, unsaved, blocks, calls>>

Failed ==
  /\ status' = (IF status = "open" THEN "invalid" ELSE status)
  /\ UNCHANGED <<mem, history, layout, at, unsaved, blocks, calls>>
==============================================================================
