---------------------------- MODULE MCQfirehose ----------------------------
(* Instances of Qfirehose for TLC: SBL (partition 0) and two partitions, a  *)
(* programmer of three pieces.                                              *)
EXTENDS Qfirehose

CONSTANTS id13, idOther

Cmd(t, p, size) == [Command(t) EXCEPT !.part = p, !.size = size]
Empty(c) == [c EXCEPT !.empty = TRUE]
Sparse(p, image) == [Command("program") EXCEPT !.part = p, !.image = image]
ImageChunk(t, n) == [type |-> t, chunk_sz |-> n]

Nands(zip) ==
  [nand |-> TRUE, eraseall |-> FALSE, zip |-> zip,
   table |-> <<Cmd("erase", 0, 0), Cmd("program", 0, 10),
               Cmd("erase", 1, 0), Cmd("program", 1, 16),
               Empty(Cmd("erase", 2, 0)), Cmd("program", 2, 19)>>]

Emmc(all, zip, image) ==
  [nand |-> FALSE, eraseall |-> all, zip |-> zip,
   table |-> <<Cmd("erase", 0, 0), Cmd("vendor", 0, 0), Cmd("program", 0, 19),
               Cmd("erase", 1, 0), Sparse(1, image), Cmd("patch", 1, 0)>>]

Raw(n) == ImageChunk("raw", n)
Hole(n) == ImageChunk("hole", n)

Fill(n) == ImageChunk("fill", n)

\* A NAND module, and eMMC modules: sparse images that begin with data, and
\* one that Handled excludes.
MCJobs == {Nands(TRUE),
           Emmc(TRUE, FALSE, <<Raw(1), Hole(2), Raw(1), Hole(1)>>),
           Emmc(FALSE, FALSE, <<Raw(1), Raw(1), Hole(1), Hole(2), Raw(1)>>),
           Emmc(FALSE, FALSE, <<Hole(1), Fill(1), Raw(1)>>)}

MCPartition == 0 .. 2
MCLimits == {8, 16}
MCKnownIds == {id13}
MCOtherIds == {idOther}
MCFileSizes == {0, 2, 3, 4}

\* The instance meets the hypotheses of the theorems about the flash.
ASSUME FlashHypotheses == ProgrammedOnce /\ NandHandled /\ BlockSectors = 8
=============================================================================
