----------------------------- MODULE Lz4FastBlock -----------------------------
(***************************************************************************)
(* LZ4_compress_generic of lz4.c: how the fast compressor writes a block.  *)
(*                                                                         *)
(* A hash table holds the last position that was seen of every hash.       *)
(* Positions are numbers that go on from block to block: `base` is where   *)
(* the memory would begin if all that was compressed before stood in front *)
(* of the block.  What really stands there may be somewhere else, too      *)
(* short, or gone: the directives tell the search which positions it may   *)
(* look up, and where.                                                     *)
(*                                                                         *)
(* A block is kept as what its decoder makes of it, sequence for sequence; *)
(* Lz4Encoder writes the bytes.  Left out are byPtr (32-bit builds only)   *)
(* and accelerations above 1.                                              *)
(***************************************************************************)
EXTENDS Lz4StreamUser

CONSTANTS
  Hash(_),      (* LZ4_hash4 and LZ4_hash5: a number for 4 or 5 bytes.     *)
  Hashes,       (* Its values.                                             *)
  SKIP          (* 1 << LZ4_skipTrigger: misses until the steps grow.      *)

VARIABLES
  lz,           (* The stream: table, currentOffset, tableType,            *)
                (* dictionary, dictSize, and dictCtx: attached or not.     *)
  dictLz,       (* The stream that dictCtx points to.                      *)
  call,         (* What the call was given, and what it keeps of lz.       *)
  pc,
  ip, forward, tries,   (* The search: forwardIp, and how often it missed. *)
  cand,         (* The match: addr, low (lowLimit), and its offset.        *)
  filled,       (* filledIp.                                               *)
  anchor, token, op,
  decoded,      (* What the decoder makes of what is written.              *)
  reach,        (* History: how far dst was written.                       *)
  stray,        (* History: a candidate was none of the data.              *)
  result

(* What bytes there are.                                                   *)
Values ==
  {Foreign} \cup UNION {{w[i] : i \in DOMAIN w} : w \in Words \cup Singles \cup {Dictionary}}

(* Behind a match there is room for the token and the offset of the next.  *)
ASSUME FastAssumption ==
  /\ LASTLITERALS >= 2 /\ SKIP \in Nat \ {0} /\ MINMATCH = 4
  /\ \A k \in {MINMATCH, MINMATCH + 1} : \A w \in [1 .. k -> Values] : Hash(w) \in Hashes

LZ4_minLength == MFLIMIT + 1

locals == <<ip, forward, tries, cand, filled, anchor, token, op, decoded, reach, stray>>
blockVars == <<lz, dictLz, call, pc, locals, result>>

Same(a, b) == Byte(a) = Byte(b)

LZ4_initStream ==
  [table |-> [h \in Hashes |-> 0], currentOffset |-> 0, tableType |-> "cleared",
   dictionary |-> NULL, dictSize |-> 0, dictCtx |-> FALSE]

(* LZ4_hashPosition: five bytes on 64-bit machines, but for byU16.         *)
HashAt(a, tableType) == Hash(Word(a, IF tableType = "byU16" THEN MINMATCH ELSE MINMATCH + 1))

(* LZ4_putIndexOnHash: (U16)idx, or an idx of 32 bits.                     *)
Stored(idx, tableType) == IF tableType = "byU16" THEN idx % W ELSE idx
Put(table, a, tableType, idx) ==
  [table EXCEPT ![HashAt(a, tableType)] = Stored(idx, tableType)]

(* A table of 16-bit numbers, read as one of 32-bit numbers, or vice versa.*)
Reread(table, from, to) ==
  CASE from \in {"cleared", to} -> table
    [] from = "byU16" /\ to = "byU32" -> [h \in Hashes |-> table[h] + W * table[h]]
    [] from = "byU32" /\ to = "byU16" -> [h \in Hashes |-> table[h] % W]

iend == call.source + call.n
mflimitPlusOne == iend - MFLIMIT + 1
matchlimit == iend - LASTLITERALS
base == call.source - call.startIndex
Index(a) == a - base

maybe_extMem == call.directive \in {"usingExtDict", "usingDictCtx"}
dictEnd == call.dictionary + call.dictSize
prefixIdxLimit == call.startIndex - call.dictSize
-----------------------------------------------------------------------------
NoCall ==
  [source |-> NULL, n |-> 0, room |-> 0, limit |-> "notLimited", tableType |-> "byU32",
   directive |-> "noDict", issue |-> "noDictIssue", startIndex |-> 0,
   dictionary |-> NULL, dictSize |-> 0]
NoMatch == [addr |-> NULL, low |-> NULL, offset |-> 0]

BlockInit ==
  /\ call = NoCall /\ pc = "idle" /\ result = 0
  /\ ip = NULL /\ forward = NULL /\ tries = 0 /\ cand = NoMatch /\ filled = NULL
  /\ anchor = NULL /\ token = 0 /\ op = 0 /\ decoded = <<>> /\ reach = 0 /\ stray = FALSE

(* The call, on a stream s that LZ4_compress_fast_continue or the others   *)
(* have prepared: sizes are checked, and the stream counts the block.      *)
EmptyBlock(room, limit) == IF limit # "notLimited" /\ room <= 0 THEN 0 ELSE 1

LZ4_compress_generic(s, source, n, room, limit, tableType, directive, issue) ==
  LET d == IF directive = "usingDictCtx" THEN dictLz ELSE s
      refused == n > MAX_INPUT_SIZE \/ n = 0 \/ (limit = "fillOutput" /\ room < 1)
  IN  /\ call' = [source |-> source, n |-> n, room |-> room, limit |-> limit,
                  tableType |-> tableType, directive |-> directive, issue |-> issue,
                  startIndex |-> s.currentOffset,
                  dictionary |-> d.dictionary, dictSize |-> d.dictSize]
      /\ IF refused
           THEN /\ lz' = s /\ pc' = "returned"
                /\ result' = IF n = 0 THEN EmptyBlock(room, limit) ELSE 0
           ELSE /\ lz' = [s EXCEPT !.dictCtx = @ /\ directive # "usingDictCtx",
                                   !.dictSize = IF directive = "usingDictCtx" THEN n ELSE @ + n,
                                   !.currentOffset = @ + n, !.tableType = tableType,
                                   !.table = Reread(@, s.tableType, tableType)]
                /\ pc' = (IF n < LZ4_minLength THEN "last" ELSE "first") /\ result' = 0
      /\ ip' = source /\ anchor' = source /\ op' = 0 /\ decoded' = <<>>
      /\ reach' = (IF n = 0 THEN EmptyBlock(room, limit) ELSE 0) /\ stray' = FALSE
      /\ UNCHANGED <<dictLz, forward, tries, cand, filled, token>>

Return(r) == pc' = "returned" /\ result' = r
Kept == UNCHANGED <<userVars, dictLz, call>>

FirstByte ==
  /\ pc = "first" /\ pc' = "search"
  /\ lz' = [lz EXCEPT !.table = Put(@, ip, call.tableType, call.startIndex)]
  /\ ip' = ip + 1 /\ forward' = ip + 1 /\ tries' = 0
  /\ UNCHANGED <<cand, filled, anchor, token, op, decoded, reach, stray, result>> /\ Kept

(* Where a position leads: into the block or the prefix, into the external *)
(* dictionary, or, by the other stream's table, into its dictionary.       *)
dictBase == IF call.directive = "usingDictCtx" THEN dictEnd - dictLz.currentOffset
            ELSE dictEnd - call.startIndex
dictDelta == call.startIndex - dictLz.currentOffset

Candidate(table, a) ==
  LET h   == HashAt(a, call.tableType)
      own == table[h]
  IN  IF maybe_extMem /\ own < call.startIndex
        THEN IF call.directive = "usingDictCtx"
               THEN [index |-> dictLz.table[h] + dictDelta, addr |-> dictBase + dictLz.table[h],
                     low |-> call.dictionary]
               ELSE [index |-> own, addr |-> dictBase + own, low |-> call.dictionary]
        ELSE [index |-> own, addr |-> base + own,
              low |-> IF call.directive = "withPrefix64k" THEN call.source - call.dictSize
                      ELSE call.source]

InDict(c) == maybe_extMem /\ c.low = call.dictionary

(* Mutant: positions before a small dictionary are looked up as well.      *)
LookedUpAny(c, a) == call.tableType = "byU16" \/ c.index + DISTANCE_MAX >= Index(a)

(* A position that is not before a small dictionary, nor too far away.     *)
LookedUp(c, a) ==
  /\ ~(call.issue = "dictSmall" /\ c.index < prefixIdxLimit)
  /\ call.tableType = "byU16" \/ c.index + DISTANCE_MAX >= Index(a)

Accepted(c, a) == LookedUp(c, a) /\ Word(c.addr, MINMATCH) = Word(a, MINMATCH)

(* The data that a match may be made of, and the assertions of the search. *)
IsData(c, a) ==
  /\ c.index < Index(a) /\ Index(a) - c.index <= DISTANCE_MAX
  /\ IF InDict(c) THEN c.addr >= call.dictionary /\ c.addr + MINMATCH <= dictEnd
     ELSE c.addr >= c.low /\ c.addr < a

MatchOf(c, a) == [addr |-> c.addr, low |-> c.low, offset |-> Index(a) - c.index]
Examine(c, a) == stray' = (stray \/ (LookedUp(c, a) /\ ~IsData(c, a)))

step == IF tries = 0 THEN 1 ELSE (SKIP + tries - 1) \div SKIP

(* "Find a match"                                                          *)
Search ==
  /\ pc = "search"
  /\ IF forward + step > mflimitPlusOne
       THEN pc' = "last" /\ UNCHANGED <<lz, ip, forward, tries, cand, stray>>
       ELSE LET c == Candidate(lz.table, forward)
            IN  /\ lz' = [lz EXCEPT !.table = Put(@, forward, call.tableType, Index(forward))]
                /\ Examine(c, forward)
                /\ ip' = forward /\ forward' = forward + step /\ tries' = tries + 1
                /\ IF Accepted(c, forward) THEN pc' = "literals" /\ cand' = MatchOf(c, forward)
                   ELSE pc' = "search" /\ UNCHANGED cand
  /\ UNCHANGED <<filled, anchor, token, op, decoded, reach, result>> /\ Kept
-----------------------------------------------------------------------------
MaxOf(k) == IF k > reach THEN k ELSE reach

(* LZ4_count: how many bytes from a on are those from b on, up to limit.   *)
Count(a, b, limit) ==
  Max({0} \cup {k \in 1 .. limit - a : \A i \in 0 .. k - 1 : Same(a + i, b + i)})

(* "Catch up": how many bytes before them are equal, too.                  *)
Back(a, b) ==
  LET most == Min({a - anchor, b - cand.low})
  IN  Max({0} \cup {k \in 1 .. most : \A i \in 1 .. k : Same(a - i, b - i)})

RestOf(k) == (k + MAXBYTE - MASK) \div MAXBYTE

(* The room that fillOutput keeps for a match and the last literals.       *)
MATCH_ROOM == 2 + 1 + MFLIMIT - MINMATCH

(* "Encode Literals"                                                       *)
Literals ==
  /\ pc = "literals"
  /\ LET k   == Back(ip, cand.addr)
         lit == ip - k - anchor
         tooSmall == call.limit = "limitedOutput"
                       /\ op + 1 + lit + (2 + 1 + LASTLITERALS) + lit \div MAXBYTE > call.room
         full == call.limit = "fillOutput" /\ op + 1 + RestOf(lit) + lit + MATCH_ROOM > call.room
     IN  /\ filled' = ip
         /\ \/ tooSmall /\ Return(0) /\ UNCHANGED <<ip, cand, token, op, reach>>
            \/ full /\ pc' = "last" /\ UNCHANGED <<ip, cand, token, op, reach, result>>
            \/ /\ ~tooSmall /\ ~full
               /\ ip' = ip - k
               /\ cand' = [cand EXCEPT !.addr = @ - k]
               /\ token' = op
               /\ op' = op + 1 + ExtensionSize(lit) + lit
               /\ reach' = MaxOf(WildCopyEnd(op' - lit, lit))
               /\ pc' = "nextMatch" /\ UNCHANGED result
  /\ UNCHANGED <<lz, forward, tries, anchor, decoded, stray>> /\ Kept

(* matchCode: a match in the dictionary may go on in the block.            *)
MatchCode ==
  LET limit == IF InDict(cand) THEN Min({ip + (dictEnd - cand.addr), matchlimit}) ELSE matchlimit
      first == Count(ip + MINMATCH, cand.addr + MINMATCH, limit)
  IN  IF InDict(cand) /\ ip + MINMATCH + first = limit
        THEN first + Count(limit, call.source, matchlimit)
        ELSE first

(* Mutant: positions that a shortened match has passed stay in the table.  *)
ClearedNone(table, from) == table

(* "we have to remove these positions from the hash table"                 *)
Cleared(table, from) ==
  LET gone == {HashAt(a, call.tableType) : a \in from .. filled}
  IN  [h \in Hashes |-> IF h \in gone THEN 0 ELSE table[h]]

(* Mutant: one byte more.                                                  *)
ReducedMore(o) == MASK + (call.room - o - 1 - LASTLITERALS) * MAXBYTE

(* "Match description too long : reduce it"                                *)
Reduced(o) == MASK - 1 + (call.room - o - 1 - LASTLITERALS) * MAXBYTE

CopyOf(offset, lits, len) ==
  LET made == decoded \o lits IN made \o CopyMatch(history \o made, offset, len)

(* The rest of a match length is written four bytes at a time.             *)
WRITE == 4
MatchLengthEnd(o, code) ==
  IF code < MASK THEN o ELSE o + WRITE * ((code - MASK) \div (WRITE * MAXBYTE) + 1)

(* What the decoder makes of a match that it has not got: nothing.         *)
Decoded(offset, lits, len) ==
  IF offset \in 1 .. Len(history) + Len(decoded) + Len(lits) THEN CopyOf(offset, lits, len)
  ELSE decoded \o lits \o [i \in 1 .. len |-> Foreign]

(* _next_match: "Encode Offset", "Encode MatchLength"                      *)
NextMatch ==
  /\ pc = "nextMatch"
  /\ LET next   == op + 2
         code   == MatchCode
         long   == call.limit # "notLimited" /\ next + (1 + LASTLITERALS) + RestOf(code) > call.room
         full   == call.limit = "fillOutput" /\ op + MATCH_ROOM > call.room
         len    == MINMATCH + IF long THEN Reduced(next) ELSE code
     IN  \/ /\ full /\ op' = token /\ pc' = "last"
            /\ UNCHANGED <<lz, ip, anchor, decoded, reach, result>>
         \/ /\ ~full /\ long /\ call.limit = "limitedOutput" /\ Return(0)
            /\ reach' = MaxOf(next)
            /\ UNCHANGED <<lz, ip, anchor, op, decoded>>
         \/ /\ ~full /\ (long => call.limit = "fillOutput")
            /\ ip' = ip + len /\ anchor' = ip + len
            /\ lz' = IF long /\ ip' <= filled THEN [lz EXCEPT !.table = Cleared(@, ip')] ELSE lz
            /\ decoded' = Decoded(cand.offset, Word(anchor, ip - anchor), len)
            /\ op' = next + ExtensionSize(len - MINMATCH)
            /\ reach' = MaxOf(MatchLengthEnd(next, len - MINMATCH))
            /\ pc' = (IF ip' >= mflimitPlusOne THEN "last" ELSE "test") /\ UNCHANGED result
  /\ UNCHANGED <<forward, tries, cand, filled, token, stray>> /\ Kept

(* "Fill table", "Test next position", "Prepare next loop"                 *)
Test ==
  /\ pc = "test"
  /\ LET table == Put(lz.table, ip - 2, call.tableType, Index(ip - 2))
         c     == Candidate(table, ip)
     IN  /\ lz' = [lz EXCEPT !.table = Put(table, ip, call.tableType, Index(ip))]
         /\ Examine(c, ip)
         /\ IF Accepted(c, ip)
              THEN /\ pc' = "nextMatch" /\ cand' = MatchOf(c, ip)
                   /\ token' = op /\ op' = op + 1 /\ reach' = MaxOf(op')
                   /\ UNCHANGED <<ip, forward, tries>>
              ELSE /\ pc' = "search" /\ ip' = ip + 1 /\ forward' = ip + 1 /\ tries' = 0
                   /\ UNCHANGED <<cand, token, op, reach>>
  /\ UNCHANGED <<filled, anchor, decoded, result>> /\ Kept

(* "Encode Last Literals"                                                  *)
LastLiterals ==
  /\ pc = "last"
  /\ LET all   == iend - anchor
         tight == call.limit # "notLimited" /\ op + all + 1 + RestOf(all) > call.room
         room  == call.room - op - 1
         run   == IF tight THEN room - ((room + MAXBYTE + 1 - MASK) \div (MAXBYTE + 1)) ELSE all
     IN  IF tight /\ call.limit = "limitedOutput"
           THEN Return(0) /\ UNCHANGED <<ip, op, decoded, reach>>
           ELSE /\ ip' = anchor + run
                /\ op' = op + 1 + ExtensionSize(run) + run
                /\ decoded' = decoded \o Word(anchor, run)
                /\ reach' = MaxOf(op')
                /\ Return(op')
  /\ UNCHANGED <<lz, forward, tries, cand, filled, anchor, token, stray>> /\ Kept

CompressBlock ==
  FirstByte \/ Search \/ Literals \/ NextMatch \/ Test \/ LastLiterals
==============================================================================
