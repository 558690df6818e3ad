------------------------------ MODULE Lz4HcParser ------------------------------
(***************************************************************************)
(* LZ4HC_compress_optimal: which matches are elected.  From a position     *)
(* with a match on, the table opt holds for every position behind it the   *)
(* cheapest way known to get there, a literal or a match as its last step. *)
(* Every position before the last one that a match reaches is searched     *)
(* for matches that make a position cheaper.  Then the way to the last     *)
(* position is encoded.                                                    *)
(***************************************************************************)
EXTENDS Lz4HcFinder

CONSTANTS
  Sources, Capacities,  (* As in Lz4Encoder.                               *)
  OPT_NUM,              (* LZ4_OPT_NUM.                                    *)
  Levels                (* clTable: its rows, for both parsers.            *)

ASSUME ParserAssumption ==
  /\ Sources \subseteq Seq(U8) /\ Capacities \subseteq Nat /\ OPT_NUM \in Nat
  /\ Levels \subseteq [strat : {"lz4opt", "lz4hc"}, nbSearches : Nat,
                       targetLength : Nat \ {0}, full : BOOLEAN]

VARIABLES
  capacity, limit, pc, anchor, out, over, reach, consumed, result,
  step,         (* Where the parser is in its main loop.                   *)
  ip,
  opt, last, cur,
  elected       (* The matches that are to be encoded.                     *)

encoderVars == <<capacity, limit, pc, anchor, out, over, reach, consumed, result>>
parserVars == <<step, ip, opt, last, cur, elected>>
allVars == <<src, level, finderVars, encoderVars, parserVars>>

Encoder == INSTANCE Lz4Encoder

n == Len(src)
TRAILING_LITERALS == 3

(* The literals of the table behind a match take no byte for their length. *)
ASSUME PriceAssumption == MASK > TRAILING_LITERALS

(* sufficient_len: a longer match is taken without looking further.        *)
Sufficient ==
  IF level.targetLength >= OPT_NUM THEN OPT_NUM - 1 ELSE level.targetLength

LiteralsPrice(len) == len + ExtensionSize(len)

(* Mutant: matches of all lengths are cheap.                               *)
SequencePriceOfLiterals(ll, len) == 1 + 2 + LiteralsPrice(ll)

SequencePrice(ll, len) == 1 + 2 + LiteralsPrice(ll) + ExtensionSize(len - MINMATCH)

Literal(ll, price) == [mlen |-> 1, off |-> 0, litlen |-> ll, price |-> price]
Match(ll, m, len, price) == [mlen |-> len, off |-> m.offset, litlen |-> ll, price |-> price]

ParserInit ==
  /\ Encoder!Init /\ FinderInit /\ level \in Levels
  /\ step = "main" /\ ip = 0 /\ opt = <<>> /\ last = 0 /\ cur = 0 /\ elected = <<>>

(* The next position that may start a match.                               *)
FindFirst ==
  /\ pc = "parse" /\ step = "main" /\ ip <= n - MFLIMIT
  /\ Find(ip, ip, MINMATCH - 1)
  /\ step' = "first"
  /\ UNCHANGED <<src, level, encoderVars, ip, opt, last, cur, elected>>

(* A position within the reach of the matches found so far.                *)
NotUseful ==
  /\ opt[cur + 1].price <= opt[cur].price
  /\ level.full => opt[cur + MINMATCH].price < opt[cur].price + 3

FindFurther ==
  /\ step = "further" /\ cur < last /\ ip + cur <= n - MFLIMIT /\ ~NotUseful
  /\ Find(ip + cur, ip + cur, IF level.full THEN MINMATCH - 1 ELSE last - cur)
  /\ step' = "improve"
  /\ UNCHANGED <<src, level, encoderVars, ip, opt, last, cur, elected>>

Search ==
  /\ step \in {"first", "improve"} /\ Look
  /\ UNCHANGED <<src, level, encoderVars, parserVars>>

(* Mutant: the position is not left.                                       *)
NoMatchInPlace ==
  /\ step = "first" /\ ~Searching /\ Nothing
  /\ step' = "main"
  /\ UNCHANGED <<src, level, finderVars, encoderVars, ip, opt, last, cur, elected>>

NoMatch ==
  /\ step = "first" /\ ~Searching /\ Nothing
  /\ step' = "main" /\ ip' = ip + 1
  /\ UNCHANGED <<src, level, finderVars, encoderVars, opt, last, cur, elected>>

EncodeAtOnce ==
  /\ step = "first" /\ ~Searching /\ ~Nothing /\ Found.len > Sufficient
  /\ step' = "encode" /\ elected' = <<[ip |-> ip, m |-> Found]>>
  /\ ip' = ip + Found.len
  /\ UNCHANGED <<src, level, finderVars, encoderVars, opt, last, cur>>

(* The prices up to the end of the first match, and of the literals that   *)
(* follow it.                                                              *)
Trailing(price, k) == Literal(k, price + LiteralsPrice(k))

SetPrices ==
  /\ step = "first" /\ ~Searching /\ ~Nothing /\ Found.len <= Sufficient
  /\ LET ll    == ip - anchor
         len   == Found.len
         price == SequencePrice(ll, len)
     IN  /\ opt' = [p \in 0 .. len + TRAILING_LITERALS |->
                     IF p < MINMATCH THEN Literal(ll + p, LiteralsPrice(ll + p))
                     ELSE IF p <= len THEN Match(ll, Found, p, SequencePrice(ll, p))
                     ELSE Trailing(price, p - len)]
         /\ last' = len
  /\ cur' = 1 /\ step' = "further"
  /\ UNCHANGED <<src, level, finderVars, encoderVars, ip, elected>>

Skip ==
  /\ step = "further" /\ cur < last /\ ip + cur <= n - MFLIMIT /\ NotUseful
  /\ cur' = cur + 1
  /\ UNCHANGED <<src, level, finderVars, encoderVars, step, ip, opt, last, elected>>

NoImprovement ==
  /\ step = "improve" /\ ~Searching /\ Nothing
  /\ step' = "further" /\ cur' = cur + 1
  /\ UNCHANGED <<src, level, finderVars, encoderVars, ip, opt, last, elected>>

(* What a position costs with more literals, or with a match, behind cur.  *)
WithLiterals(k) ==
  LET ll == opt[cur].litlen
  IN  Literal(ll + k, opt[cur].price - LiteralsPrice(ll) + LiteralsPrice(ll + k))

BeforeMatch(ll) == IF cur > ll THEN opt[cur - ll].price ELSE 0

WithMatch(len) ==
  IF opt[cur].mlen = 1
    THEN LET ll == opt[cur].litlen
         IN  Match(ll, Found, len, BeforeMatch(ll) + SequencePrice(ll, len))
    ELSE Match(0, Found, len, opt[cur].price + SequencePrice(0, len))

(* Mutant: however far behind cur the match ends.                          *)
TooFarByLength == Found.len > Sufficient

TooFar == Found.len > Sufficient \/ Found.len + cur >= OPT_NUM

Improve ==
  /\ step = "improve" /\ ~Searching /\ ~Nothing /\ ~TooFar
  /\ LET len == Found.len
         Improves(p) == p > last + TRAILING_LITERALS \/ WithMatch(p - cur).price <= opt[p].price
         end == IF cur + len > last /\ Improves(cur + len) THEN cur + len ELSE last
         Best(p) ==
           IF p \in cur + MINMATCH .. cur + len /\ Improves(p) THEN WithMatch(p - cur)
           ELSE IF p \in cur + 1 .. cur + MINMATCH - 1 /\ WithLiterals(p - cur).price < opt[p].price
             THEN WithLiterals(p - cur)
           ELSE opt[p]
     IN  /\ last' = end
         /\ opt' = [p \in 0 .. end + TRAILING_LITERALS |->
                     IF p <= end THEN Best(p) ELSE Trailing(Best(end).price, p - end)]
  /\ step' = "further" /\ cur' = cur + 1
  /\ UNCHANGED <<src, level, finderVars, encoderVars, ip, elected>>

(* The reverse traversal: the matches on the way to position p.            *)
WayTo(p) ==
  LET way[k \in 0 .. p] ==
        IF opt[k].mlen > k THEN <<>>
        ELSE IF opt[k].mlen = 1 THEN way[k - 1]
        ELSE Append(way[k - opt[k].mlen],
                    [ip |-> ip + k - opt[k].mlen,
                     m |-> [offset |-> opt[k].off, len |-> opt[k].mlen]])
  IN  way[p]

(* "goto encode"                                                           *)
TakeNow ==
  /\ step = "improve" /\ ~Searching /\ ~Nothing /\ TooFar
  /\ elected' = Append(WayTo(cur), [ip |-> ip + cur, m |-> Found])
  /\ ip' = ip + cur + Found.len /\ step' = "encode"
  /\ UNCHANGED <<src, level, finderVars, encoderVars, opt, last, cur>>

Elect ==
  /\ step = "further" /\ (cur >= last \/ ip + cur > n - MFLIMIT)
  /\ elected' = WayTo(last)
  /\ ip' = ip + last
  /\ step' = IF elected' = <<>> THEN "main" ELSE "encode"
  /\ UNCHANGED <<src, level, finderVars, encoderVars, opt, last, cur>>

Encode ==
  /\ pc = "parse" /\ step = "encode"
  /\ LET e == Head(elected) IN Encoder!EncodeSequence(e.ip, e.m) \/ Encoder!Overflow(e.ip, e.m)
  /\ elected' = Tail(elected)
  /\ step' = IF Len(elected) = 1 THEN "main" ELSE "encode"
  /\ UNCHANGED <<level, finderVars, ip, opt, last, cur>>

Finish ==
  /\ \/ pc = "overflow" /\ Encoder!ShortenSequence
     \/ /\ pc = "last" \/ (pc = "parse" /\ step = "main" /\ ip > n - MFLIMIT)
        /\ Encoder!LastLiterals
  /\ UNCHANGED <<level, finderVars, parserVars>>

Compress ==
  \/ FindFirst \/ FindFurther \/ Search
  \/ NoMatch \/ EncodeAtOnce \/ SetPrices
  \/ Skip \/ NoImprovement \/ Improve
  \/ TakeNow \/ Elect \/ Encode \/ Finish

-----------------------------------------------------------------------------
(* The table is read where it is written, and never behind its end         *)
(* ("assert(pos < LZ4_OPT_NUM)", lz4hc.c:1503; "last_match_pos <           *)
(* LZ4_OPT_NUM + TRAILING_LITERALS", lz4hc.c:1525).                        *)
TableFits ==
  step \in {"further", "improve"} =>
    /\ last < OPT_NUM
    /\ DOMAIN opt = 0 .. last + TRAILING_LITERALS
    /\ \A p \in DOMAIN opt :
         \/ opt[p].mlen = 1 \/ opt[p].mlen \in MINMATCH .. p

(* The elected way takes no more bytes than its price, although positions  *)
(* become cheaper after their price was used for others ("price in bytes", *)
(* lz4hc.c:1289).                                                          *)
Bytes(literals, len) ==
  1 + ExtensionSize(literals) + literals + 2 + ExtensionSize(len - MINMATCH)

BytesOf(way, from, end) ==
  LET starts(k) == IF k = 1 THEN from ELSE way[k - 1].ip + way[k - 1].m.len
      bytes[k \in 0 .. Len(way)] ==
        IF k = 0 THEN 0 ELSE bytes[k - 1] + Bytes(way[k].ip - starts(k), way[k].m.len)
      left == end - starts(Len(way) + 1)
  IN  bytes[Len(way)] + left + ExtensionSize(left)

WayWithinPrice ==
  [][Elect => BytesOf(elected', anchor, ip') <= opt[last].price]_allVars
==============================================================================
