----------------------------- MODULE SplitChunks -----------------------------
(***************************************************************************)
(* common.SplitChunks: the contiguous chunks into which every driver cuts  *)
(* the units of a source, one per worker.                                  *)
(***************************************************************************)
EXTENDS Integers

NumChunks(total, workers) ==
    IF total = 0 \/ workers < 1 THEN 1
    ELSE IF workers > total THEN total ELSE workers

Chunks(total, workers) == 0..(NumChunks(total, workers) - 1)

Base(total, workers) == total \div NumChunks(total, workers)

ChunkStart(total, workers, c) == c * Base(total, workers)

\* The last chunk absorbs the remainder.
ChunkEnd(total, workers, c) ==
    IF c = NumChunks(total, workers) - 1
    THEN total
    ELSE ChunkStart(total, workers, c) + Base(total, workers)

ChunkRows(total, workers, c) ==
    ChunkStart(total, workers, c)..(ChunkEnd(total, workers, c) - 1)

=============================================================================
