-------------------------------- MODULE VxLite --------------------------------
(***************************************************************************)
(* The life of a byte space, its context, a vls_file and the file on disk: *)
(* constructors and destructors, Compress and Decompress, SaveToFile and   *)
(* OpenFromFile, called in any order by a program that may crash and start *)
(* again.  Voxel data and filters are abstract: VoxelFilter shows that     *)
(* FilterSpace and UnfilterSpace with the same filters undo each other,    *)
(* and LZ4 is taken as a lossless code here.                               *)
(***************************************************************************)
EXTENDS VlsFormat, FiniteSets

CONSTANTS
  Images,      (* The images a program works on.                           *)
  DimsOf,      (* DimsOf[i]: the extents of image i, [xs, ys, zs, bpv].    *)
  Tables,      (* What the filter selection may choose.                    *)
  Code(_),     (* The LZ4 block for some voxel data, or for some filters.  *)
  Sector,      (* Of a file whose writing was cut short, whole sectors     *)
               (* are on the disk, or all that was written.                *)
  INT_MOD,     (* 2^32: `int` is signed and this wide.                     *)
  MAX_INPUT    (* LZ4_MAX_INPUT_SIZE.                                      *)

(* A pointer to an array: null, or by which family it was allocated, or    *)
(* left behind after the array was released.                               *)
Pointers == {"null", "new[]", "malloc", "dangling"}

(* Voxel data: an image, raw, filtered or unfiltered with some filters; or *)
(* bytes that mean nothing.                                                *)
Noise == [kind |-> "noise"]
Pixels == [kind : {"pixels"}, image : Images, by : {<<>>} \cup ({"+", "-"} \X Tables)]
Table == [kind : {"table"}, id : Tables]
TableOf(t) == [kind |-> "table", id |-> t]

VARIABLES
  space,       (* The sbs: dims, ptr, data.                                *)
  filters,     (* The array of the context: ptr, len, data.                *)
  file,        (* The vls_file, or NoFile.                                 *)
  disk,        (* The bytes on disk; `of`: the compressed state they are.  *)
  chunk,       (* SaveToFile: how many writes are done; 0: not running.    *)
  restored,    (* History: what the last Decompress gave.                  *)
  report,      (* History: how the last Compress ended, and what it said.  *)
  faults       (* History: how arrays were released wrongly.               *)

vars == <<space, filters, file, disk, chunk, restored, report, faults>>

None == [kind |-> "none"]
NoFile == None
Empty == [kind |-> "empty"]
Torn == [kind |-> "torn"]
Snapshot(s, f) == [kind |-> "snapshot", dims |-> s.dims, data |-> s.data, filters |-> f.data]

(* Products, cut off where nothing can be allocated.                       *)
Times(a, b) == IF a * b < MaxValue THEN a * b ELSE MaxValue
Rows(d) == Times(d.ys, d.zs)
Voxels(d) == Times(Times(Times(d.xs, d.ys), d.zs), d.bpv)

(* Conversion of a size_t to int.                                          *)
ToInt(n) ==
  LET r == n % INT_MOD IN IF r < INT_MOD \div 2 THEN r ELSE r - INT_MOD

(* What LZ4 makes of the first bytes of a space whose size wrapped around. *)
Partial == <<0>>
StartsWith(bytes, b) == Len(b) <= Len(bytes) /\ SubSeq(bytes, 1, Len(b)) = b

Extents == [xs : 1 .. MaxValue - 1, ys : 1 .. MaxValue - 1,
            zs : 1 .. MaxValue - 1, bpv : 1 .. MaxValue - 1]

ASSUME LimitsAssumption ==
  INT_MOD \in Nat \ {0} /\ MAX_INPUT \in Nat /\ Sector \in Nat \ {0}

(* An image has voxels, and they fit into memory.                          *)
ASSUME ImagesAssumption ==
  /\ DimsOf \in [Images -> Extents]
  /\ \A i \in Images : Voxels(DimsOf[i]) < MaxValue

(* LZ4 is lossless, and a block tells where it ends: none begins another.  *)
ASSUME CodeAssumption ==
  /\ \A x \in Pixels \cup Table :
       Code(x) \in Seq(0 .. 255) /\ Len(Code(x)) < MaxValue /\ Code(x) \notin {<<>>, Partial}
  /\ \A x, y \in Pixels : StartsWith(Code(x), Code(y)) => x = y
  /\ \A x, y \in Table : StartsWith(Code(x), Code(y)) => x = y

-----------------------------------------------------------------------------
(* What goes wrong when free() or delete[] meets a pointer.                *)
Releasing(ptr, family) ==
  CASE ptr \in {"null", family} -> {}
    [] ptr = "dangling" -> {"released twice"}
    [] OTHER -> {"released by the wrong family"}

(* sbs(_xs, ...) filled with an image; ctx(&space) with its filters unset. *)
Writer(i) ==
  [space |-> [dims |-> DimsOf[i], ptr |-> "new[]",
              data |-> [kind |-> "pixels", image |-> i, by |-> <<>>]],
   filters |-> [ptr |-> "new[]", len |-> Rows(DimsOf[i]), data |-> Noise]]

(* sbs(): no data, all extents -1 as uint64_t; (-1) * (-1) rows are 1.     *)
Reader ==
  [space |-> [dims |-> [xs |-> -1, ys |-> -1, zs |-> -1, bpv |-> -1],
              ptr |-> "null", data |-> Noise],
   filters |-> [ptr |-> "new[]", len |-> 1, data |-> Noise]]

Programs == {Reader} \cup {Writer(i) : i \in Images}

Init ==
  /\ \E p \in Programs : space = p.space /\ filters = p.filters
  /\ file = NoFile
  /\ disk = [bytes |-> <<>>, of |-> None]
  /\ chunk = 0
  /\ restored = "nothing" /\ report = None /\ faults = {}

(* What is left of a file whose writing was cut short.                     *)
Prefixes(bytes) ==
  {bytes} \cup {SubSeq(bytes, 1, k * Sector) : k \in 0 .. Len(bytes) \div Sector}

(* The process ends, anywhere, and one is started.                         *)
Crash ==
  /\ \E p \in Programs : space' = p.space /\ filters' = p.filters
  /\ file' = NoFile
  /\ IF chunk = 0 THEN disk' = disk
     ELSE \E b \in Prefixes(disk.bytes) : disk' = [bytes |-> b, of |-> Torn]
  /\ chunk' = 0
  /\ restored' = "nothing" /\ report' = None /\ faults' = {}

(* ~ctx() and ~sbs(), then another space and another context.              *)
Destroy ==
  /\ chunk = 0
  /\ faults' = faults \cup Releasing(space.ptr, "new[]") \cup Releasing(filters.ptr, "new[]")
  /\ \E p \in Programs : space' = p.space /\ filters' = p.filters
  /\ UNCHANGED <<file, disk, chunk, restored, report>>

(* new vls_file({0, 0, 0, 0, 0, 0, nullptr, nullptr})                      *)
NewFile ==
  /\ chunk = 0 /\ file = NoFile
  /\ file' = [kind |-> "file", xs |-> 0, ys |-> 0, zs |-> 0, bpv |-> 0,
              filterSize |-> 0, spaceSize |-> 0, filterData |-> <<>>, spaceData |-> <<>>,
              filterPtr |-> "null", spacePtr |-> "null", of |-> Empty]
  /\ UNCHANGED <<space, filters, disk, chunk, restored, report, faults>>

(* ~vls_file()                                                             *)
DeleteFile ==
  /\ chunk = 0 /\ file # NoFile
  /\ faults' = faults \cup Releasing(file.filterPtr, "new[]")
                       \cup Releasing(file.spacePtr, "new[]")
  /\ file' = NoFile
  /\ UNCHANGED <<space, filters, disk, chunk, restored, report>>

-----------------------------------------------------------------------------
(* What the caller does between the calls that are modelled here.          *)
HasPixels == space.data \in Pixels
HasTable == filters.data \in Table

(* The program writes an image into the space, as test.cpp does.           *)
Fill(i) ==
  /\ chunk = 0 /\ space.ptr # "null" /\ space.dims = DimsOf[i]
  /\ space' = [space EXCEPT !.data = [kind |-> "pixels", image |-> i, by |-> <<>>]]
  /\ UNCHANGED <<filters, file, disk, chunk, restored, report, faults>>

(* "Destroy the original data"                                             *)
Scribble ==
  /\ chunk = 0 /\ space.ptr # "null"
  /\ space' = [space EXCEPT !.data = Noise]
  /\ UNCHANGED <<filters, file, disk, chunk, restored, report, faults>>

(* OptimizeFilters_old or OptimizeFilters, whatever they choose.           *)
Optimize(t) ==
  /\ chunk = 0 /\ HasPixels
  /\ filters' = [filters EXCEPT !.data = TableOf(t)]
  /\ UNCHANGED <<space, file, disk, chunk, restored, report, faults>>

(* FilterSpace ("+") or UnfilterSpace ("-"): with the same filters one     *)
(* undoes the other.  Bound: data is filtered once at most.                *)
Opposite(sign) == IF sign = "+" THEN "-" ELSE "+"

Transform(sign) ==
  /\ chunk = 0 /\ HasPixels /\ HasTable
  /\ LET t == filters.data.id
         undone == <<Opposite(sign), t>>
     IN  \/ /\ space.data.by = <<>>
            /\ space' = [space EXCEPT !.data.by = <<sign, t>>]
         \/ /\ space.data.by = undone
            /\ space' = [space EXCEPT !.data.by = <<>>]
         \/ /\ space.data.by \in ({Opposite(sign)} \X Tables) \ {undone}
            /\ space' = [space EXCEPT !.data = Noise]
  /\ UNCHANGED <<filters, file, disk, chunk, restored, report, faults>>

-----------------------------------------------------------------------------
(* LZ4_compress_HC() of the n bytes of x into a buffer of                  *)
(* LZ4_compressBound(n) bytes, n converted to int: nothing when n is then  *)
(* negative or too large, the first ToInt(n) bytes when it wrapped around. *)
Compressed(x, n) ==
  IF ToInt(n) \notin 0 .. MAX_INPUT THEN <<>>
  ELSE IF ToInt(n) < n THEN Partial
  ELSE Code(x)

(* realloc(ptr, size): an array of no bytes is released.                   *)
Reallocated(bytes) == IF bytes = <<>> THEN "null" ELSE "malloc"

(* Mutant: a failure is recognised, and the function returns too early.    *)
CompressFailedOnZero(size) == size <= 0

CompressFailed(size) == size < 0

Compress ==
  /\ chunk = 0 /\ file # NoFile /\ HasPixels /\ HasTable
  /\ LET spaceData == Compressed(space.data, Voxels(space.dims))
         filterData == Compressed(filters.data, Rows(space.dims))
         complete == spaceData = Code(space.data) /\ filterData = Code(filters.data)
     IN  /\ faults' = faults \cup Releasing(file.spacePtr, "malloc")
                              \cup Releasing(file.filterPtr, "malloc")
         /\ report' = [kind |-> "report", said |-> CompressFailed(Len(spaceData)),
                       complete |-> complete]
         /\ IF CompressFailed(Len(spaceData))
              THEN file' = [file EXCEPT
                     !.spacePtr = "malloc", !.spaceData = <<>>,
                     !.filterPtr = IF @ = "null" THEN "null" ELSE "dangling"]
              ELSE file' = [kind |-> "file",
                     xs |-> space.dims.xs, ys |-> space.dims.ys,
                     zs |-> space.dims.zs, bpv |-> space.dims.bpv,
                     filterSize |-> Len(filterData), spaceSize |-> Len(spaceData),
                     filterData |-> filterData, spaceData |-> spaceData,
                     filterPtr |-> Reallocated(filterData),
                     spacePtr |-> Reallocated(spaceData),
                     of |-> IF complete THEN Snapshot(space, filters) ELSE Empty]
  /\ UNCHANGED <<space, filters, disk, chunk, restored>>

(* LZ4_decompress_fast() into an array of n bytes: reads as far as it has  *)
(* to, whatever the size of the block.                                     *)
Decompressed(bytes, n, candidates) ==
  IF \E x \in candidates : StartsWith(bytes, Code(x)) /\ n = ToInt(n)
    THEN CHOOSE x \in candidates : StartsWith(bytes, Code(x))
    ELSE Noise

(* Mutant: the array gets a line for every line of the space as it was.    *)
LinesOfOldSpace(d) == Rows(space.dims)

LinesOf(d) == Rows(d)

PixelsOf(n) == {p \in Pixels : Voxels(DimsOf[p.image]) = n}

Decompress ==
  /\ chunk = 0 /\ file # NoFile
  /\ file.filterPtr \notin {"null", "dangling"} /\ file.spacePtr # "null"
  /\ LET d == [xs |-> file.xs, ys |-> file.ys, zs |-> file.zs, bpv |-> file.bpv]
     IN  /\ Voxels(d) < MaxValue /\ Rows(d) < MaxValue
         /\ space' = [dims |-> d, ptr |-> "new[]",
              data |-> Decompressed(file.spaceData, Voxels(d), PixelsOf(Voxels(d)))]
         /\ filters' = [ptr |-> "new[]", len |-> LinesOf(d),
              data |-> Decompressed(file.filterData, Rows(d), Table)]
  /\ faults' = faults \cup Releasing(space.ptr, "new[]") \cup Releasing(filters.ptr, "new[]")
  /\ restored' = IF file.of.kind # "snapshot" THEN "nothing"
                 ELSE IF file.of = Snapshot(space', filters') THEN "what was compressed"
                 ELSE "something else"
  /\ UNCHANGED <<file, disk, chunk, report>>

-----------------------------------------------------------------------------
(* SaveToFile: the file is truncated when it is opened, then written piece *)
(* by piece, then closed.  A file that cannot be opened is left as it is.  *)
StartSave ==
  /\ chunk = 0 /\ file # NoFile
  /\ chunk' = 1
  /\ disk' = [bytes |-> Written(Writes(file)[1]), of |-> Torn]
  /\ UNCHANGED <<space, filters, file, restored, report, faults>>

SaveWrite ==
  /\ chunk \in 1 .. WRITES - 1
  /\ chunk' = chunk + 1
  /\ disk' = [disk EXCEPT !.bytes = @ \o Written(Writes(file)[chunk + 1])]
  /\ UNCHANGED <<space, filters, file, restored, report, faults>>

Close ==
  /\ chunk = WRITES
  /\ chunk' = 0
  /\ disk' = [disk EXCEPT !.of = file.of]
  /\ UNCHANGED <<space, filters, file, restored, report, faults>>

(* The device is full: that and all later writes fail, and SaveToFile does *)
(* not notice.                                                             *)
WriteFails ==
  /\ chunk > 0
  /\ chunk' = 0
  /\ \E b \in Prefixes(disk.bytes) : disk' = [bytes |-> b, of |-> Torn]
  /\ UNCHANGED <<space, filters, file, restored, report, faults>>

(* OpenFromFile: nullptr when there is no file.                            *)
Open ==
  /\ chunk = 0 /\ file = NoFile /\ disk.of # None
  /\ LET h == Header(disk.bytes)
     IN  /\ Allocatable(h)
         /\ file' = [kind |-> "file",
                xs |-> h.xs, ys |-> h.ys, zs |-> h.zs, bpv |-> h.bpv,
                filterSize |-> h.filterSize, spaceSize |-> h.spaceSize,
                filterData |-> FilterDataOf(disk.bytes, h),
                spaceData |-> SpaceDataOf(disk.bytes, h),
                filterPtr |-> "new[]", spacePtr |-> "new[]", of |-> disk.of]
  /\ UNCHANGED <<space, filters, disk, chunk, restored, report, faults>>

Next ==
  \/ Crash \/ Destroy \/ NewFile \/ DeleteFile
  \/ \E i \in Images : Fill(i)
  \/ Scribble
  \/ \E t \in Tables : Optimize(t)
  \/ \E sign \in {"+", "-"} : Transform(sign)
  \/ Compress \/ Decompress
  \/ StartSave \/ SaveWrite \/ Close \/ WriteFails
  \/ Open

Spec == Init /\ [][Next]_vars
-----------------------------------------------------------------------------
Snapshots ==
  {sn \in [kind : {"snapshot"}, dims : Extents, data : Pixels, filters : Table] :
     Voxels(sn.dims) = Voxels(DimsOf[sn.data.image])}

TypeOK ==
  /\ space.ptr \in Pointers /\ space.data \in Pixels \cup {Noise}
  /\ filters.ptr \in Pointers /\ filters.data \in Table \cup {Noise}
  /\ file # NoFile =>
       /\ file.filterPtr \in Pointers /\ file.spacePtr \in Pointers
       /\ Len(file.filterData) = file.filterSize /\ Len(file.spaceData) = file.spaceSize
       /\ file.of \in Snapshots \cup {Empty, Torn}
  /\ disk.of \in Snapshots \cup {None, Empty, Torn}
  /\ chunk \in 0 .. WRITES
  /\ restored \in {"nothing", "what was compressed", "something else"}

(* Decompress gives back the extents, the voxel data and the filters that  *)
(* Compress saw, in another process and after any crashes, if the file was *)
(* written to the end ("Verifying data...", test.cpp:127).                 *)
LoadedIsCompressed == restored # "something else"

(* No array is released a second time, whatever sequence of Compress,      *)
(* Decompress and delete a program goes through.                           *)
ReleasedOnce == "released twice" \notin faults

(* The context's array has an entry for every line of the space it filters *)
(* next, also after Decompress has given the space other extents.          *)
FiltersFitSpace == space.ptr # "null" => filters.len = Rows(space.dims)

(* What malloc allocated is not released by delete[], nor the reverse.     *)
FamiliesMatch == "released by the wrong family" \notin faults

(* Compress says "LZ4 compression error!" whenever the file does not hold  *)
(* the space.                                                              *)
FailureReported == report.kind = "report" => report.said \/ report.complete
==============================================================================
