------------------------------ MODULE Lz4Encoder ------------------------------
(***************************************************************************)
(* How lz4hc.c writes a block: LZ4HC_encodeSequence for every match that   *)
(* the parser elects, then the last literals, within the room there is.    *)
(* Which matches are elected is left open: any list of true matches that   *)
(* the limits of LZ4HC_compress_optimal admit.                             *)
(*                                                                         *)
(* In a buffer of CompressBound bytes nothing is checked (notLimited); in  *)
(* a smaller one compression fails when there is no room (limitedOutput);  *)
(* LZ4_compress_HC_destSize stops when the buffer is full (fillOutput) and *)
(* shortens the last match so that the buffer gets as full as it can.      *)
(***************************************************************************)
EXTENDS Lz4Format

CONSTANTS
  Sources,      (* The inputs: sequences of bytes.                         *)
  Capacities    (* The sizes of the output buffer.                         *)

ASSUME EncoderAssumption ==
  Sources \subseteq Seq(U8) /\ Capacities \subseteq Nat

VARIABLES
  src, capacity, limit,
  pc,
  anchor,       (* How much of src is encoded.                             *)
  out,          (* What is written: op is its length.                      *)
  over,         (* The sequence that did not fit: ip, offset, length.      *)
  reach,        (* History: how far dst was written and src was read.      *)
  consumed,     (* srcSizePtr.                                             *)
  result        (* The return value.                                       *)

vars == <<src, capacity, limit, pc, anchor, out, over, reach, consumed, result>>

n == Len(src)

(* Room for the last literals is kept aside by fillOutput.                 *)
Oend == IF limit = "fillOutput" THEN capacity - LASTLITERALS ELSE capacity

Farther(a, b) == IF a > b THEN a ELSE b
Reached(dst, read) == [dst |-> Farther(reach.dst, dst), src |-> Farther(reach.src, read)]

(* LZ4_compress_HC and LZ4_compress_HC_destSize choose the mode.           *)
Modes ==
  {"fillOutput"} \cup
  {IF capacity < CompressBound(n) THEN "limitedOutput" ELSE "notLimited"}

Init ==
  /\ src \in Sources /\ capacity \in Capacities
  /\ limit \in Modes
  /\ pc = (IF (limit = "fillOutput" /\ capacity < 1) \/ n > MAX_INPUT_SIZE
             THEN "done" ELSE "parse")
  /\ anchor = 0 /\ out = <<>> /\ over = <<>>
  /\ reach = [dst |-> 0, src |-> 0]
  /\ consumed = 0 /\ result = 0

(* The matches of the finder: len bytes at ip that are the same `offset`   *)
(* bytes before.  The parser may use a shorter match than the finder has.  *)
Matches(ip) ==
  {m \in [offset : 1 .. (IF ip < DISTANCE_MAX THEN ip ELSE DISTANCE_MAX),
          len : MINMATCH .. (n - LASTLITERALS - ip)] :
     \A i \in 1 .. m.len : src[ip + i] = src[ip - m.offset + i]}

Literals(from, to) == SubSeq(src, from + 1, to)

(* What LZ4HC_encodeSequence writes up to the offset, and all of it.       *)
FirstPart(ip, m) ==
  <<Token(ip - anchor, m.len - MINMATCH)>> \o Extension(ip - anchor)
  \o Literals(anchor, ip)

Sequence(ip, m) == FirstPart(ip, m) \o LE16(m.offset) \o Extension(m.len - MINMATCH)

(* Where the copy of the literals ends, in dst and in src.                 *)
CopyReach(ip, op) ==
  Reached(WildCopyEnd(op + 1 + ExtensionSize(ip - anchor), ip - anchor),
          WildCopyEnd(anchor, ip - anchor))

RoomForLiterals(op, len) ==
  op + 1 + (len \div MAXBYTE) + len + (2 + 1 + LASTLITERALS) <= Oend

RoomForMatch(op, len) == op + (len \div MAXBYTE) + (1 + LASTLITERALS) <= Oend

Fits(ip, m) ==
  \/ limit = "notLimited"
  \/ /\ RoomForLiterals(Len(out), ip - anchor)
     /\ RoomForMatch(Len(out \o FirstPart(ip, m)) + 2, m.len - MINMATCH)

EncodeSequence(ip, m) ==
  /\ pc = "parse"
  /\ anchor' = ip + m.len
  /\ Fits(ip, m)
  /\ out' = out \o Sequence(ip, m)
  /\ reach' = [CopyReach(ip, Len(out)) EXCEPT !.dst = Farther(@, Len(out'))]
  /\ UNCHANGED <<src, capacity, limit, pc, over, consumed, result>>

(* The sequence has been written in part.                                  *)
Overflow(ip, m) ==
  /\ pc = "parse"
  /\ IF limit = "fillOutput"
       THEN pc' = "overflow" /\ over' = [ip |-> ip, m |-> m]
       ELSE pc' = "done" /\ over' = over
  /\ ~Fits(ip, m)
  /\ reach' = IF RoomForLiterals(Len(out), ip - anchor)
                THEN [CopyReach(ip, Len(out)) EXCEPT
                       !.dst = Farther(@, Len(out \o FirstPart(ip, m)) + 2)]
                ELSE reach
  /\ UNCHANGED <<src, capacity, limit, anchor, out, consumed, result>>

(* _dest_overflow: the sequence is written nevertheless if it fits with a  *)
(* shorter match, and if enough bytes follow its start.                    *)
LiteralsCost(ll) == 1 + ((ll + MAXBYTE - MASK) \div MAXBYTE) + ll

MaxMatch(room) == MINMATCH + (MASK - 1) + room * MAXBYTE

(* Mutant: whatever follows.                                               *)
WorthShorteningAlways(litEnd, len) == TRUE

WorthShortening(litEnd, len) ==
  (Oend + LASTLITERALS) - (litEnd + 2) - 1 + len >= MFLIMIT

Shortened ==
  LET litEnd == Len(out) + LiteralsCost(over.ip - anchor)
      room   == (Oend - 3) - litEnd
      len    == IF over.m.len > MaxMatch(room) THEN MaxMatch(room) ELSE over.m.len
  IN  IF room >= 0 /\ WorthShortening(litEnd, len)
        THEN {[over.m EXCEPT !.len = len]} ELSE {}

ShortenSequence ==
  /\ pc = "overflow"
  /\ \/ /\ Shortened = {}
        /\ UNCHANGED <<anchor, out, reach>>
     \/ \E m \in Shortened :
          /\ out' = out \o Sequence(over.ip, m)
          /\ anchor' = over.ip + m.len
          /\ reach' = [CopyReach(over.ip, Len(out)) EXCEPT !.dst = Farther(@, Len(out'))]
  /\ pc' = "last"
  /\ UNCHANGED <<src, capacity, limit, over, consumed, result>>

(* How many literals end the block: all that are left; or, with            *)
(* fillOutput, as many as there is room for.                               *)
LastRun ==
  LET all  == n - anchor
      room == capacity - Len(out) - 1
  IN  IF limit = "notLimited" \/ LiteralsCost(all) <= room + 1 THEN all
      ELSE room - ((room + MAXBYTE + 1 - MASK) \div (MAXBYTE + 1))

(* Mutant: limitedOutput adapts the last literals too.                     *)
NeverTooSmall == FALSE

TooSmall ==
  limit = "limitedOutput" /\ Len(out) + LiteralsCost(n - anchor) > capacity

LastLiterals ==
  /\ pc \in {"parse", "last"}
  /\ pc' = "done"
  /\ \/ TooSmall /\ UNCHANGED <<anchor, out, reach, consumed, result>>
     \/ /\ ~TooSmall
        /\ out' = out \o <<Token(LastRun, 0)>> \o Extension(LastRun)
                       \o Literals(anchor, anchor + LastRun)
        /\ anchor' = anchor + LastRun
        /\ reach' = Reached(Len(out'), anchor')
        /\ consumed' = anchor'
        /\ result' = Len(out')
  /\ UNCHANGED <<src, capacity, limit, over>>

(* The parser finds another match, or none up to the end.                  *)
Next ==
  \/ \E ip \in anchor .. n - MFLIMIT :
       \E m \in Matches(ip) : EncodeSequence(ip, m) \/ Overflow(ip, m)
  \/ ShortenSequence
  \/ LastLiterals

Spec == Init /\ [][Next]_vars
-----------------------------------------------------------------------------
TypeOK ==
  /\ src \in Sources /\ capacity \in Capacities
  /\ limit \in {"notLimited", "limitedOutput", "fillOutput"}
  /\ pc \in {"parse", "overflow", "last", "done"}
  /\ anchor \in 0 .. n /\ consumed \in 0 .. n
  /\ out \in Seq(U8)
  /\ result \in {0, Len(out)}

(* Nothing is written behind the end of the buffer, nor read behind the    *)
(* end of the input, although literals are copied in whole pieces and the  *)
(* checks count the bytes of a length only roughly ("necessarily <=        *)
(* targetDstSize", lz4hc.h:87; "Check output limit", lz4hc.c:524).         *)
StaysInBuffers == reach.dst <= capacity /\ reach.src <= n

(* In a buffer of LZ4_compressBound() bytes compression succeeds           *)
(* (lz4hc.h:58), and unless it fills the buffer it encodes all of src.     *)
BoundSuffices ==
  pc = "done" /\ limit # "fillOutput" =>
    /\ n <= MAX_INPUT_SIZE /\ capacity >= CompressBound(n) => result > 0
    /\ result > 0 => consumed = n
==============================================================================
