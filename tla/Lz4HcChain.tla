------------------------------ MODULE Lz4HcChain ------------------------------
(***************************************************************************)
(* LZ4HC_compress_hashChain, the parser of the levels up to 9: which       *)
(* matches are elected.  It holds up to three matches, each longer than    *)
(* the one before it and beginning in it or shortly behind; it shortens or *)
(* drops them where they overlap, until the first one can be written.      *)
(*                                                                         *)
(* m1 begins at ip.  `second` and `third` are start2 with m2 and start3    *)
(* with m3; `skipped` is start0 with m0, a match that was given up for a   *)
(* later one, in case that leads too far.                                  *)
(***************************************************************************)
EXTENDS Lz4HcFinder

CONSTANTS
  Sources, Capacities   (* As in Lz4Encoder.                               *)

VARIABLES
  capacity, limit, pc, anchor, out, over, reach, consumed, result,
  step,         (* "main", the labels _Search2 and _Search3, the searches  *)
                (* "first", "second" and "third", and matches to be        *)
                (* encoded: "one" or "both".                               *)
  ip,
  m1, skipped, second

encoderVars == <<src, capacity, limit, pc, anchor, out, over, reach, consumed, result>>
chainVars == <<step, ip, m1, skipped, second>>

Encoder == INSTANCE Lz4Encoder

n == Len(src)
mflimit == n - MFLIMIT
OPTIMAL_ML == (MASK - 1) + MINMATCH

minLength == MFLIMIT + 1

NoneYet == [ip |-> 0, m |-> [offset |-> 0, len |-> 0]]

ChainInit == m1 = NoneYet.m /\ skipped = NoneYet /\ second = NoneYet

(* Mutant: it begins later and is as long as before.                       *)
FromAsLong(e, k) == [e EXCEPT !.ip = @ + k]

(* A match of which the first k bytes are left to the one before it.       *)
From(e, k) == [ip |-> e.ip + k, m |-> [e.m EXCEPT !.len = @ - k]]

(* Where m1 ends, and what the last search has found.                      *)
End1 == ip + m1.len
FoundMatch == [ip |-> search.start, m |-> Found]
third == FoundMatch

(* The main loop ends, or is not entered.                                  *)
AtEnd == n < minLength \/ ip > mflimit

FindFirst ==
  /\ pc = "parse" /\ step = "main" /\ ~AtEnd
  /\ Find(ip, ip, MINMATCH - 1)
  /\ step' = "first"
  /\ UNCHANGED <<ip, m1, skipped, second, encoderVars>>

Search ==
  /\ step \in {"first", "second", "third"} /\ Look
  /\ UNCHANGED <<chainVars, encoderVars>>

NoMatch ==
  /\ step = "first" /\ ~Searching /\ Nothing
  /\ step' = "main" /\ ip' = ip + 1
  /\ UNCHANGED <<m1, skipped, second, finderVars, encoderVars>>

FirstMatch ==
  /\ step = "first" /\ ~Searching /\ ~Nothing
  /\ m1' = Found /\ skipped' = FoundMatch
  /\ step' = "search2"
  /\ UNCHANGED <<ip, second, finderVars, encoderVars>>

(* _Search2: a longer match that begins in m1 or near its end.             *)
FindSecond ==
  /\ pc = "parse" /\ step = "search2" /\ End1 <= mflimit
  /\ Find(End1 - 2, ip, m1.len)
  /\ step' = "second"
  /\ UNCHANGED <<ip, m1, skipped, second, encoderVars>>

Encode(m) == Encoder!EncodeSequence(ip, m) \/ Encoder!Overflow(ip, m)

EncodeOne ==
  /\ pc = "parse"
  /\ \/ step = "one"
     \/ step = "search2" /\ End1 > mflimit
     \/ step = "second" /\ ~Searching /\ Nothing
  /\ Encode(m1)
  /\ ip' = End1 /\ step' = "main"
  /\ UNCHANGED <<m1, skipped, second, finderVars>>

(* The match that was given up first is taken again, unless the second one *)
(* begins too far behind.                                                  *)
Squeezed == skipped.ip < ip /\ FoundMatch.ip < ip + skipped.m.len

Restored == IF Squeezed THEN skipped ELSE [ip |-> ip, m |-> m1]

SecondMatch ==
  /\ step = "second" /\ ~Searching /\ ~Nothing
  /\ IF FoundMatch.ip - Restored.ip < 3
       THEN ip' = FoundMatch.ip /\ m1' = Found /\ step' = "search2" /\ UNCHANGED second
       ELSE ip' = Restored.ip /\ m1' = Restored.m /\ step' = "search3" /\ second' = FoundMatch
  /\ UNCHANGED <<skipped, finderVars, encoderVars>>

(* How long m1 is to be: what is left of the second match is a match still.*)
NewLength == Min({m1.len, OPTIMAL_ML, second.ip - ip + second.m.len - MINMATCH})

(* The second match without what m1 covers.                                *)
Corrected ==
  LET correction == NewLength - (second.ip - ip)
  IN  IF second.ip - ip < OPTIMAL_ML /\ correction > 0 THEN From(second, correction)
      ELSE second

(* _Search3: a longer match yet, that begins in the second one.            *)
FindThird ==
  /\ pc = "parse" /\ step = "search3"
  /\ second' = Corrected
  /\ LET end == Corrected.ip + Corrected.m.len
     IN  IF end <= mflimit
           THEN Find(end - 3, Corrected.ip, Corrected.m.len) /\ step' = "third"
           ELSE step' = "both" /\ UNCHANGED finderVars
  /\ UNCHANGED <<ip, m1, skipped, encoderVars>>

EncodeBoth ==
  /\ pc = "parse"
  /\ step = "both" \/ (step = "third" /\ ~Searching /\ Nothing)
  /\ Encode(IF second.ip < End1 THEN [m1 EXCEPT !.len = second.ip - ip] ELSE m1)
  /\ ip' = second.ip /\ m1' = second.m /\ step' = "one"
  /\ UNCHANGED <<skipped, second, finderVars>>

ThirdMatch == step = "third" /\ ~Searching /\ ~Nothing
NoRoomForSecond == third.ip < End1 + 3

(* The second match is dropped: m1 can be written, the third one is next.  *)
(* What is left of the second one is kept for _Search2.                    *)
DropSecond ==
  /\ pc = "parse" /\ ThirdMatch /\ NoRoomForSecond /\ third.ip >= End1
  /\ Encode(m1)
  /\ LET rest == IF second.ip < End1 THEN From(second, End1 - second.ip) ELSE second
     IN  skipped' = IF second.ip < End1 /\ rest.m.len < MINMATCH THEN third ELSE rest
  /\ ip' = third.ip /\ m1' = third.m /\ step' = "search2"
  /\ UNCHANGED <<second, finderVars>>

(* Or it is dropped before m1 is written.                                  *)
ReplaceSecond ==
  /\ ThirdMatch /\ NoRoomForSecond /\ third.ip < End1
  /\ second' = third /\ step' = "search3"
  /\ UNCHANGED <<ip, m1, skipped, finderVars, encoderVars>>

(* Three matches that ascend: m1 is written, the others move up.           *)
WriteFirst ==
  /\ pc = "parse" /\ ThirdMatch /\ ~NoRoomForSecond
  /\ LET overlaps == second.ip < End1
         near     == second.ip - ip < OPTIMAL_ML
         len      == IF ~overlaps THEN m1.len ELSE IF near THEN NewLength ELSE second.ip - ip
         next     == IF overlaps THEN Corrected ELSE second
     IN  /\ Encode([m1 EXCEPT !.len = len])
         /\ ip' = next.ip /\ m1' = next.m
  /\ second' = third /\ step' = "search3"
  /\ UNCHANGED <<skipped, finderVars>>

Finish ==
  /\ \/ pc = "overflow" /\ Encoder!ShortenSequence
     \/ /\ pc = "last" \/ (pc = "parse" /\ step = "main" /\ AtEnd)
        /\ Encoder!LastLiterals
  /\ UNCHANGED <<chainVars, finderVars>>

Compress ==
  \/ FindFirst \/ Search \/ NoMatch \/ FirstMatch
  \/ FindSecond \/ SecondMatch \/ EncodeOne
  \/ FindThird \/ EncodeBoth \/ DropSecond \/ ReplaceSecond \/ WriteFirst
  \/ Finish
==============================================================================
