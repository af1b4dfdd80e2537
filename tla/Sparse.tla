------------------------------- MODULE Sparse -------------------------------
(***************************************************************************)
(* qfirehose: how a sparse image is cut into program commands.             *)
(* fh_process_sparse_program walks the chunks of the image and collects    *)
(* runs of data chunks (CAC1 raw, CAC2 fill) and of holes (CAC3); the loop *)
(* of fh_process_program then computes, for each data run, the sector it   *)
(* starts at and the offset in the file it is read from.                   *)
(***************************************************************************)
EXTENDS Integers, Sequences

CONSTANTS
  SECTOR_SIZE_IN_BYTES,   \* in units of four bytes, the data of a fill chunk
  BlockSectors,           \* sectors of a block of the image
  FileHeader,             \* file_hdr_sz
  ChunkHeader             \* sizeof(chunk_header_t)

ASSUME SparseAssumption ==
  /\ SECTOR_SIZE_IN_BYTES \in Nat \ {0} /\ BlockSectors \in Nat \ {0}
  /\ FileHeader \in Nat /\ ChunkHeader \in Nat \ {0}

SparseChunk == [type : {"raw", "fill", "hole"}, chunk_sz : Nat \ {0}]

IsData(t) == t \in {"raw", "fill"}

\* total_sz - 0xC: what follows the header of a chunk.
DataOf(c) ==
  CASE c.type = "raw" -> c.chunk_sz * BlockSectors * SECTOR_SIZE_IN_BYTES
    [] c.type = "fill" -> 1
    [] c.type = "hole" -> 0

\* total_sz, total_chunk_count and total_chunk_sz of a run.
Zero == [total_sz |-> 0, count |-> 0, chunk_sz |-> 0]
Add(a, c) == [total_sz |-> a.total_sz + DataOf(c), count |-> a.count + 1,
              chunk_sz |-> a.chunk_sz + c.chunk_sz]

\* SparseImgData with chunk_type_Last_time and the totals of the open run.
Blank == [last |-> "none", acc |-> Zero, data |-> <<>>, cac3 |-> <<>>]

\* A change of kind closes the run before it.
AfterData(s, c) ==
  LET ends == s.last = "hole"
  IN  [s EXCEPT !.cac3 = IF ends THEN Append(@, s.acc) ELSE @,
                !.acc = Add(IF ends THEN Zero ELSE @, c)]

AfterHole(s, c) ==
  LET ends == IsData(s.last)
  IN  [s EXCEPT !.data = IF ends THEN Append(@, s.acc) ELSE @,
                !.acc = Add(IF ends THEN Zero ELSE @, c)]

\* Data at the very end of the image closes its own run.
CloseLast(s) == IF IsData(s.last) THEN [s EXCEPT !.data = Append(@, s.acc)] ELSE s

\* The loop over the chunks.
Scan(image) ==
  LET after[m \in 0 .. Len(image)] ==
        IF m = 0 THEN Blank
        ELSE LET c == image[m]
             IN  [(IF IsData(c.type) THEN AfterData(after[m - 1], c)
                   ELSE AfterHole(after[m - 1], c)) EXCEPT !.last = c.type]
  IN  CloseLast(after[Len(image)])

\* num_partition_sectors of a run.
Sectors(size) == (size + SECTOR_SIZE_IN_BYTES - 1) \div SECTOR_SIZE_IN_BYTES

\* Mutant of NextRun: the holes before a run are not counted.
NextRunDense(prev, data, hole) ==
  [start |-> prev.start + Sectors(prev.size),
   offset |-> prev.offset + data.total_sz + data.count * ChunkHeader
                + hole.count * ChunkHeader]

\* Where a run goes and where it is read from, after the run prev with its
\* totals data and the hole behind it.
NextRun(prev, data, hole) ==
  [start |-> prev.start + Sectors(prev.size) + hole.chunk_sz * 8,
   offset |-> prev.offset + data.total_sz + data.count * ChunkHeader
                + hole.count * ChunkHeader]

\* The program commands of an image: start_sector relative to that of the
\* table, file_sector_offset and UNSPARSE_FILE_SIZE.  An entry of
\* chunk_polymerization_cac3 that was never filled is zero (memset).
Runs(image) ==
  LET s == Scan(image)
      Cac3(i) == IF i \in DOMAIN s.cac3 THEN s.cac3[i] ELSE Zero
      run[i \in 1 .. Len(s.data)] ==
        LET at == IF i = 1 THEN [start |-> 0, offset |-> FileHeader]
                  ELSE NextRun(run[i - 1], s.data[i - 1], Cac3(i - 1))
        IN  [start |-> at.start, offset |-> at.offset,
             size |-> s.data[i].total_sz]
  IN  run

-----------------------------------------------------------------------------
(* What the image means: its chunks one after the other.                   *)

SumTo(k, f) == LET sum[j \in 0 .. k] == IF j = 0 THEN 0 ELSE sum[j - 1] + f[j]
               IN  sum[k]

\* Where a chunk belongs, and where the file has it.
Place(image, k) ==
  SumTo(k - 1, [j \in 1 .. k - 1 |-> image[j].chunk_sz * BlockSectors])
Offset(image, k) ==
  FileHeader + SumTo(k - 1, [j \in 1 .. k - 1 |-> ChunkHeader + DataOf(image[j])])

\* The first chunks of the runs of data.
RunHeads(image) ==
  {k \in 1 .. Len(image) : /\ IsData(image[k].type)
                           /\ k = 1 \/ ~IsData(image[k - 1].type)}

\* The pieces of the file that a written image consists of.
Pieces(image) ==
  {[start |-> Place(image, k), offset |-> Offset(image, k)] : k \in RunHeads(image)}
=============================================================================
