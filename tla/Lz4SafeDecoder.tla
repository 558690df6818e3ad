---------------------------- MODULE Lz4SafeDecoder ----------------------------
(***************************************************************************)
(* LZ4_decompress_generic of lz4.c, behind LZ4_decompress_safe, its        *)
(* partial variant, and those with a prefix or an external dictionary: it  *)
(* knows the size of its input and must not be misled by it.               *)
(*                                                                         *)
(* There are three ways to decode a sequence: the fast loop, far from the  *)
(* end of the output; the shortcut of the safe loop; and the rest of it.   *)
(* All of them copy more bytes than they need, in pieces of 8, 16 or 32,   *)
(* and each may hand over to the others in the middle of a sequence.       *)
(*                                                                         *)
(* The checks for sums of pointers that wrap around are left out; so are   *)
(* withPrefix64k, for which every distance lies within the prefix, and the *)
(* end of the output in the fast loop's copy from the dictionary, which    *)
(* lies far behind it.                                                     *)
(***************************************************************************)
EXTENDS Lz4Format, FiniteSetsExt

CONSTANTS
  Old,          (* What a byte of the output buffer is before the call,    *)
  Foreign       (* and what a byte behind it is.                           *)

(* The tables and the sizes of the pieces are made for these numbers.      *)
ASSUME SafeDecoderAssumption ==
  MASK = 15 /\ MAXBYTE = 255 /\ MINMATCH = 4 /\ WILDCOPYLENGTH = 8

VARIABLES
  input, prefix, ext,  (* The bytes that are there: of the block, before   *)
                       (* the output, and of the external dictionary.      *)
  iend, oend, partial, (* The sizes of the call, and partialDecoding.      *)
  stage,        (* Where it is: "fast" and "safe" are the heads of the     *)
                (* loops, the others are named for their labels.           *)
  ip, op, token, length, offset,
  mem,          (* The prefix, the output buffer, the bytes behind it.     *)
  read,         (* History: how far the input was read.                    *)
  result

safeVars ==
  <<input, prefix, ext, iend, oend, partial, stage, ip, op, token, length, offset,
    mem, read, result>>
callVars == <<input, prefix, ext, iend, oend, partial>>

FASTLOOP_SAFE_DISTANCE == 64
MATCH_SAFEGUARD_DISTANCE == 2 * WILDCOPYLENGTH - MINMATCH
BEHIND == 64

lowPrefix == 0 - Len(prefix)
match == op - offset
checkOffset == Len(ext) < (MAXBYTE + 1) * (MAXBYTE + 1)

SafeInit ==
  /\ stage = "idle" /\ iend = 0 /\ oend = 0 /\ partial = FALSE
  /\ ip = 0 /\ op = 0 /\ token = 0 /\ length = 0 /\ offset = 0
  /\ mem = <<>> /\ read = 0 /\ result = 0

Returned(r) == stage' = "done" /\ result' = r
Failed == Returned(-ip - 1)

(* The call, with the special cases of empty buffers.                      *)
Call(srcSize, dstSize, part) ==
  /\ iend' = srcSize /\ oend' = dstSize /\ partial' = part
  /\ ip' = 0 /\ op' = 0 /\ token' = 0 /\ length' = 0 /\ offset' = 0
  /\ mem' = prefix \o [i \in 1 .. dstSize |-> Old] \o [i \in 1 .. BEHIND |-> Foreign]
  /\ read' = IF dstSize = 0 /\ ~part /\ srcSize = 1 THEN 1 ELSE 0
  /\ IF dstSize = 0
       THEN Returned(IF part \/ (srcSize = 1 /\ input[1] = 0) THEN 0 ELSE -1)
     ELSE IF srcSize = 0 THEN Returned(-1)
     ELSE /\ stage' = IF dstSize < FASTLOOP_SAFE_DISTANCE THEN "safe" ELSE "fast"
          /\ result' = 0
  /\ UNCHANGED <<input, prefix, ext>>
-----------------------------------------------------------------------------
(* Bytes of the input, whether it has them or not, and of the memory.      *)
In(pos) == IF pos < Len(input) THEN input[pos + 1] ELSE 0
Input(from, n) == [i \in 1 .. n |-> In(from + i - 1)]
At(m, pos) == m[Len(prefix) + pos + 1]
Bytes(m, from, n) == [i \in 1 .. n |-> At(m, from + i - 1)]

Put(m, to, bytes) ==
  [i \in DOMAIN m |->
    LET k == i - Len(prefix) - to IN IF k \in DOMAIN bytes THEN bytes[k] ELSE m[i]]

ReadTo(pos) == IF pos > read THEN pos ELSE read
Offset(pos) == In(pos) + In(pos + 1) * (MAXBYTE + 1)

(* memcpy of n bytes; the wild copies repeat it until `end` is reached.    *)
Copy(m, to, from, n) == Put(m, to, Bytes(m, from, n))

Pieces(n, size) == IF n <= 0 THEN size ELSE ((n + size - 1) \div size) * size

CopyPieces(m, to, from, end, n) ==
  LET count == Pieces(end - to, n) \div n
      copied[k \in 0 .. count] ==
        IF k = 0 THEN m ELSE Copy(copied[k - 1], to + (k - 1) * n, from + (k - 1) * n, n)
  IN  copied[count]

WildCopy8(m, to, from, end) == CopyPieces(m, to, from, end, WILDCOPYLENGTH)
WildCopy32(m, to, from, end) == CopyPieces(m, to, from, to + Pieces(end - to, 32), 16)

(* A copy that goes byte by byte upwards, over what it produces.           *)
Overlapping(m, to, distance, n) ==
  Put(m, to, [i \in 1 .. n |-> At(m, to - distance + ((i - 1) % distance))])

(* The first 8 bytes of a match at a small distance, of which the next     *)
(* ones are then copied from `from`, at least 8 bytes before.              *)
inc32table == <<0, 1, 2, 1, 0, 4, 4, 4>>
dec64table == <<0, 0, 0, -1, -4, 1, 2, 3>>

First8(m) ==
  IF offset >= 8 THEN [mem |-> Copy(m, op, match, 8), from |-> match + 8]
  ELSE LET four == IF offset = 0 THEN Put(m, op, <<0, 0, 0, 0>>)
                   ELSE Overlapping(m, op, offset, 4)
           next == match + inc32table[offset + 1]
       IN  [mem  |-> Copy(four, op + 4, next, 4), from |-> next - dec64table[offset + 1]]

(* LZ4_memcpy_using_offset: distances of which 8 is a multiple repeat one  *)
(* piece.                                                                  *)
CopyUsingOffset(m, end) ==
  IF offset \in {1, 2, 4}
    THEN Overlapping(m, op, offset, Pieces(end - op, 8))
  ELSE WildCopy8(First8(m).mem, op + 8, First8(m).from, end)
-----------------------------------------------------------------------------
(* A length of which `short` is in the token, its rest at pos: bytes are   *)
(* read up to the first that is not MAXBYTE, or that lies behind limit.    *)
ReadLength(short, pos, limit, check) ==
  LET last == IF limit > pos THEN limit ELSE pos
      end  == Min({i \in pos .. last : i + 1 > limit \/ In(i) # MAXBYTE})
  IN  IF short # MASK THEN [ok |-> TRUE, len |-> short, next |-> pos]
      ELSE IF check /\ pos >= limit THEN [ok |-> FALSE, len |-> 0, next |-> pos]
      ELSE [ok |-> end + 1 <= limit, next |-> end + 1,
            len |-> short + (end - pos) * MAXBYTE + In(end)]

LiteralsLength ==
  ReadLength(In(ip) \div (MASK + 1), ip + 1, iend - MASK, TRUE)

(* Mutant: up to the last byte.                                            *)
MatchLengthToEnd(short) == ReadLength(short, ip, iend, FALSE)

MatchLength(short) == ReadLength(short, ip, iend - LASTLITERALS + 1, FALSE)

FailedAt(pos) ==
  /\ Returned(-pos - 1) /\ ip' = pos /\ read' = ReadTo(pos)
  /\ UNCHANGED <<op, length, offset, mem>>

(* Literals are copied, then the distance of the match is read.            *)
LiteralsThenOffset(from, n, copied, next) ==
  /\ mem' = Put(mem, op, Input(from, copied))
  /\ op' = op + n /\ ip' = from + n + 2
  /\ offset' = Offset(from + n)
  /\ read' = ReadTo(Max({from + copied, from + n + 2}))
  /\ length' = token' % (MASK + 1)
  /\ stage' = next /\ UNCHANGED result

GoTo(next, pos, len) ==
  /\ stage' = next /\ ip' = pos /\ length' = len /\ read' = ReadTo(pos)
  /\ UNCHANGED <<op, offset, mem, result>>

FastLiterals ==
  /\ stage = "fast"
  /\ token' = In(ip)
  /\ LET l == LiteralsLength
         long == In(ip) \div (MASK + 1) = MASK
         room == IF long THEN op + l.len <= oend - 32 /\ l.next + l.len <= iend - 32
                 ELSE l.next <= iend - (16 + 1)
     IN  \/ ~l.ok /\ FailedAt(l.next)
         \/ l.ok /\ ~room /\ GoTo("literals", l.next, l.len)
         \/ /\ l.ok /\ room
            /\ LiteralsThenOffset(l.next, l.len, IF long THEN Pieces(l.len, 32) ELSE 16,
                                  "fastMatch")
  /\ UNCHANGED callVars

SafeLiterals ==
  /\ stage = "safe"
  /\ token' = In(ip)
  /\ LET l == LiteralsLength
         shortcut == /\ In(ip) \div (MASK + 1) # MASK
                     /\ ip + 1 < iend - 14 - 2 /\ op <= oend - 14 - 18
     IN  \/ shortcut /\ LiteralsThenOffset(l.next, l.len, 16, "shortcut")
         \/ ~shortcut /\ ~l.ok /\ FailedAt(l.next)
         \/ ~shortcut /\ l.ok /\ GoTo("literals", l.next, l.len)
  /\ UNCHANGED callVars

LastLiteralsOrNone == op + length > oend - MFLIMIT \/ ip + length > iend - (2 + 1 + LASTLITERALS)

(* safe_literal_copy                                                       *)
CopyLiterals ==
  /\ stage = "literals" /\ ~LastLiteralsOrNone
  /\ token' = token
  /\ LiteralsThenOffset(ip, length, Pieces(length, WILDCOPYLENGTH), "copyMatch")
  /\ UNCHANGED callVars

LastLiterals ==
  /\ stage = "literals" /\ LastLiteralsOrNone /\ ~partial
  /\ IF ip + length # iend \/ op + length > oend THEN Failed /\ UNCHANGED <<mem, read>>
     ELSE /\ mem' = Put(mem, op, Input(ip, length))
          /\ read' = ReadTo(ip + length) /\ Returned(op + length)
  /\ UNCHANGED <<callVars, ip, op, token, length, offset>>

(* Mutant: whatever room there is.                                         *)
LiteralsLeftOfInput == Min({length, iend - ip})

LiteralsLeft == Min({length, iend - ip, oend - op})

(* Partial decoding ends in the middle of the literals, or goes on if      *)
(* there is still a distance to read.                                      *)
PartialLiterals ==
  /\ stage = "literals" /\ LastLiteralsOrNone /\ partial
  /\ token' = token
  /\ LET n == LiteralsLeft
     IN  IF op + n = oend \/ ip + n >= iend - 2
           THEN /\ mem' = Put(mem, op, Input(ip, n))
                /\ read' = ReadTo(ip + n) /\ Returned(op + n)
                /\ UNCHANGED <<ip, op, length, offset>>
           ELSE LiteralsThenOffset(ip, n, n, "copyMatch")
  /\ UNCHANGED callVars
-----------------------------------------------------------------------------
(* A match that begins in the external dictionary may end in the output.   *)
OutsideBuffers == checkOffset /\ match + Len(ext) < lowPrefix

FromExt(n) ==
  LET k     == lowPrefix - match
      first == SubSeq(ext, Len(ext) - k + 1, Len(ext) - k + n)
  IN  IF n <= k THEN Put(mem, op, first)
      ELSE Overlapping(Put(mem, op, SubSeq(ext, Len(ext) - k + 1, Len(ext))),
                       op + k, op + k - lowPrefix, n - k)

(* Mutant: whatever its distance.                                          *)
InThreePiecesAny == match >= lowPrefix

(* Three pieces of 8, 8 and 2 bytes, for any length that is in the token.  *)
InThreePieces == match >= lowPrefix /\ offset >= 8

ThreePieces == Copy(Copy(Copy(mem, op, match, 8), op + 8, match + 8, 8), op + 16, match + 16, 2)

MatchDone(m, n, next) ==
  /\ mem' = m /\ op' = op + n /\ stage' = next
  /\ UNCHANGED <<length, offset, result>>

FastMatch ==
  /\ stage = "fastMatch"
  /\ LET l    == MatchLength(length)
         n    == l.len + MINMATCH
         near == op + n >= oend - FASTLOOP_SAFE_DISTANCE
         bad  == ~l.ok \/ (OutsideBuffers /\ (length = MASK \/ ~near))
     IN  \/ bad /\ FailedAt(l.next)
         \/ ~bad /\ near /\ GoTo("match", l.next, n)
         \/ /\ ~bad /\ ~near
            /\ ip' = l.next /\ read' = ReadTo(l.next)
            /\ MatchDone(IF length # MASK /\ InThreePieces THEN ThreePieces
                         ELSE IF match < lowPrefix THEN FromExt(n)
                         ELSE IF offset < 16 THEN CopyUsingOffset(mem, op + n)
                         ELSE WildCopy32(mem, op, match, op + n), n, "fast")
  /\ UNCHANGED <<callVars, token>>

Shortcut ==
  /\ stage = "shortcut"
  /\ IF length # MASK /\ InThreePieces
       THEN MatchDone(ThreePieces, length + MINMATCH, "safe") /\ UNCHANGED <<ip, read>>
       ELSE GoTo("copyMatch", ip, length)
  /\ UNCHANGED <<callVars, token>>

(* _copy_match                                                             *)
ReadMatchLength ==
  /\ stage = "copyMatch"
  /\ LET l == MatchLength(length)
     IN  \/ ~l.ok /\ FailedAt(l.next)
         \/ l.ok /\ GoTo("match", l.next, l.len + MINMATCH)
  /\ UNCHANGED <<callVars, token>>

InExt == match < lowPrefix
PastEnd == op + length > oend - LASTLITERALS
NearEnd == op + length > oend - MATCH_SAFEGUARD_DISTANCE
LengthLeft == Min({length, oend - op})

(* Up to 7 bytes before the end in pieces of 8, and then byte by byte.     *)
ToTheEnd(first) ==
  LET until == oend - (WILDCOPYLENGTH - 1)
      at    == IF op + 8 < until THEN until ELSE op + 8
      m     == IF op + 8 < until THEN WildCopy8(first.mem, op + 8, first.from, until)
               ELSE first.mem
  IN  Overlapping(m, at, op + 8 - first.from, op + length - at)

FarFromEnd(first) ==
  LET m == Copy(first.mem, op + 8, first.from, 8)
  IN  IF length > 16 THEN WildCopy8(m, op + 16, first.from + 8, op + length) ELSE m

(* safe_match_copy; within the block, its first bytes are there before the *)
(* end is compared.                                                        *)
BadMatch ==
  /\ stage = "match"
  /\ OutsideBuffers \/ (PastEnd /\ ~partial)
  /\ Failed
  /\ mem' = IF OutsideBuffers \/ InExt THEN mem ELSE First8(mem).mem
  /\ UNCHANGED <<callVars, ip, op, token, length, offset, read>>

MatchFromExt ==
  /\ stage = "match" /\ ~OutsideBuffers /\ InExt
  /\ partial \/ ~PastEnd
  /\ LET n == IF PastEnd THEN LengthLeft ELSE length IN MatchDone(FromExt(n), n, "safe")
  /\ UNCHANGED <<callVars, ip, token, read>>

PartialMatch ==
  /\ stage = "match" /\ ~OutsideBuffers /\ ~InExt
  /\ partial /\ NearEnd
  /\ mem' = (IF offset = 0 THEN mem ELSE Overlapping(mem, op, offset, LengthLeft))
  /\ op' = op + LengthLeft
  /\ IF op' = oend THEN Returned(op') ELSE stage' = "safe" /\ UNCHANGED result
  /\ UNCHANGED <<callVars, ip, token, length, offset, read>>

MatchInBlock ==
  /\ stage = "match" /\ ~OutsideBuffers /\ ~InExt
  /\ ~PastEnd /\ ~(partial /\ NearEnd)
  /\ MatchDone(IF NearEnd THEN ToTheEnd(First8(mem)) ELSE FarFromEnd(First8(mem)),
               length, "safe")
  /\ UNCHANGED <<callVars, ip, token, read>>

Decode ==
  \/ FastLiterals \/ SafeLiterals \/ CopyLiterals \/ LastLiterals \/ PartialLiterals
  \/ FastMatch \/ Shortcut \/ ReadMatchLength
  \/ BadMatch \/ MatchFromExt \/ PartialMatch \/ MatchInBlock
-----------------------------------------------------------------------------
Output == [i \in 1 .. result |-> At(mem, i - 1)]

(* "it will never writes outside 'dst' buffer, nor read outside 'source'   *)
(* buffer" (lz4.h:199), however much more is copied than needed.           *)
StaysInside ==
  /\ read <= iend
  /\ \A i \in DOMAIN mem : i > Len(prefix) + oend => mem[i] = Foreign
==============================================================================
