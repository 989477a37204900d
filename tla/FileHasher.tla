----------------------------- MODULE FileHasher -----------------------------
(* FileHasher::HashFiles: n files are divided into chunks of equal size,    *)
(* one per thread; a thread hashes the indices from ChunkStart up to, not   *)
(* including, ChunkEnd.                                                     *)
EXTENDS Integers

MutChunkSize(n, threads) == IF n < threads THEN 1 ELSE n \div threads

ChunkSize(n, threads) == (n + threads - 1) \div threads

ChunkStart(t, n, threads) == t * ChunkSize(n, threads)

ChunkEnd(t, n, threads) ==
  LET end == ChunkStart(t, n, threads) + ChunkSize(n, threads)
  IN  IF end < n THEN end ELSE n

(* The loop stops at the first chunk that would start beyond the files; a  *)
(* chunk has a file or more, so none but the first n can start before.     *)
Chunks(n, threads) == {t \in 0 .. n : t < threads /\ ChunkStart(t, n, threads) < n}

Chunk(t, n, threads) == ChunkStart(t, n, threads) .. ChunkEnd(t, n, threads) - 1
=============================================================================
