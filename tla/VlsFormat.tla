------------------------------ MODULE VlsFormat ------------------------------
(***************************************************************************)
(* The .vls file of VxLite.hpp as bytes: what SaveToFile writes and what   *)
(* OpenFromFile makes of any bytes it finds, without ever looking at the   *)
(* state of the stream.                                                    *)
(***************************************************************************)
EXTENDS Integers, Sequences

CONSTANTS
  TextMode,    (* TRUE where a stream opened without std::ios::binary      *)
               (* writes "\n" as "\r\n": on the Windows of the build file. *)
  MaxValue,    (* Decoded numbers from here on are all alike: no memory    *)
               (* allocation of that size succeeds.  Below 2^31.           *)
  Junk         (* What an uninitialised byte holds.                        *)

ASSUME FormatAssumption ==
  /\ TextMode \in BOOLEAN
  /\ MaxValue \in Nat \ {0} /\ MaxValue <= 127 * 256 * 256 * 256
  /\ Junk \in 0 .. 255

LF == 10
CR == 13

(* The header: six little-endian numbers.                                  *)
FIELDS == 6
FIELD == 8

(* buf[i] = uint8_t(v >> (i*8)).                                           *)
Encode(v) ==
  LET shifted[i \in 0 .. FIELD] == IF i = 0 THEN v ELSE shifted[i - 1] \div 256
  IN  [i \in 1 .. FIELD |-> shifted[i - 1] % 256]

(* v <<= 8; v |= buf[7-i].                                                 *)
Decode(buf) ==
  LET acc[i \in 0 .. FIELD] ==
        IF i = 0 THEN 0
        ELSE LET v == acc[i - 1] * 256 + buf[FIELD + 1 - i]
             IN  IF v < MaxValue THEN v ELSE MaxValue
  IN  acc[FIELD]

WRITES == FIELDS + 2

(* The outfile.write() calls of SaveToFile, in their order.                *)
Writes(f) ==
  << Encode(f.xs), Encode(f.ys), Encode(f.zs), Encode(f.bpv),
     Encode(f.filterSize), Encode(f.spaceSize), f.filterData, f.spaceData >>

(* What a write puts on the disk.                                          *)
Written(bytes) ==
  LET out[i \in 0 .. Len(bytes)] ==
        IF i = 0 THEN <<>>
        ELSE IF bytes[i] = LF THEN out[i - 1] \o <<CR, LF>>
        ELSE Append(out[i - 1], bytes[i])
  IN  IF TextMode THEN out[Len(bytes)] ELSE bytes

-----------------------------------------------------------------------------
(* infile.read(buf, n) at position pos: at the end of the file the rest of *)
(* buf stays as it was.                                                    *)
ReadOver(bytes, pos, buf) ==
  [i \in 1 .. Len(buf) |-> IF pos + i <= Len(bytes) THEN bytes[pos + i] ELSE buf[i]]

Uninitialised(n) == [i \in 1 .. n |-> Junk]

(* `buf` after the k-th header field was read; one array for all fields.   *)
HeaderBuffer(bytes) ==
  LET buf[k \in 0 .. FIELDS] ==
        IF k = 0 THEN Uninitialised(FIELD)
        ELSE ReadOver(bytes, (k - 1) * FIELD, buf[k - 1])
  IN  buf

(* The six numbers of the header.                                          *)
Header(bytes) ==
  LET number(k) == Decode(HeaderBuffer(bytes)[k])
  IN  [xs |-> number(1), ys |-> number(2), zs |-> number(3), bpv |-> number(4),
       filterSize |-> number(5), spaceSize |-> number(6)]

(* new uint8_t[filterSize] and new uint8_t[spaceSize] succeed.             *)
Allocatable(h) == h.filterSize < MaxValue /\ h.spaceSize < MaxValue

(* Mutant: the voxel data is expected first.                               *)
FilterDataLast(bytes, h) ==
  ReadOver(bytes, FIELDS * FIELD + h.spaceSize, Uninitialised(h.filterSize))

(* Mutant: read with the size of the voxel data.                           *)
FilterDataOfSpaceSize(bytes, h) ==
  ReadOver(bytes, FIELDS * FIELD, Uninitialised(h.spaceSize))

FilterDataOf(bytes, h) ==
  ReadOver(bytes, FIELDS * FIELD, Uninitialised(h.filterSize))

SpaceDataOf(bytes, h) ==
  ReadOver(bytes, FIELDS * FIELD + h.filterSize, Uninitialised(h.spaceSize))
==============================================================================
