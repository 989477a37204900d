------------------------- MODULE FileHasher_proofs -------------------------
(* The chunks partition the files, for any number of files and threads.     *)
EXTENDS FileHasher, TLAPS

LEMMA Division ==
  ASSUME NEW a \in Nat, NEW b \in Nat, b > 0
  PROVE  /\ a \div b \in Nat
         /\ (a \div b) * b <= a
         /\ a < (a \div b) * b + b
  BY SMTT(30)

LEMMA ChunkSizeEnough ==
  ASSUME NEW n \in Nat, NEW threads \in Nat, n > 0, threads > 0
  PROVE  /\ ChunkSize(n, threads) \in Nat
         /\ ChunkSize(n, threads) > 0
         /\ ChunkSize(n, threads) * threads >= n
  <1> DEFINE c == ChunkSize(n, threads)
  <1>1. c \in Nat /\ c * threads <= n + threads - 1 /\ n + threads - 1 < c * threads + threads
    BY Division, n + threads - 1 \in Nat DEF ChunkSize
  <1> HIDE DEF c
  <1>2. c * threads \in Nat /\ c * threads >= n
    BY <1>1, SMTT(30)
  <1>3. c # 0
    BY <1>2
  <1> QED BY <1>1, <1>2, <1>3 DEF c

LEMMA ChunkIsInterval ==
  ASSUME NEW n \in Nat, NEW threads \in Nat, n > 0, threads > 0,
         NEW t \in Chunks(n, threads), NEW i \in 0 .. n - 1
  PROVE  i \in Chunk(t, n, threads)
           <=> /\ t * ChunkSize(n, threads) <= i
               /\ i < t * ChunkSize(n, threads) + ChunkSize(n, threads)
  <1> DEFINE c == ChunkSize(n, threads)
  <1>1. c \in Nat BY ChunkSizeEnough
  <1>2. t \in Nat BY DEF Chunks
  <1> HIDE DEF c
  <1>3. t * c \in Nat BY <1>1, <1>2
  <1> QED BY <1>1, <1>3 DEF Chunk, ChunkStart, ChunkEnd, c

(* HashFiles hashes every file exactly once: each index is in the chunk of  *)
(* one thread and of no other (FileHasher.cpp, HashFiles).                  *)
THEOREM ChunksPartition ==
  ASSUME NEW n \in Nat, NEW threads \in Nat, threads > 0, NEW i \in 0 .. n - 1
  PROVE  /\ \E t \in Chunks(n, threads) : i \in Chunk(t, n, threads)
         /\ \A t, u \in Chunks(n, threads) :
              i \in Chunk(t, n, threads) /\ i \in Chunk(u, n, threads) => t = u
  <1> DEFINE c == ChunkSize(n, threads)
  <1>1. n > 0 OBVIOUS
  <1>2. c \in Nat /\ c > 0 /\ c * threads >= n BY <1>1, ChunkSizeEnough
  <1>3. \E t \in Chunks(n, threads) : i \in Chunk(t, n, threads)
    <2> DEFINE t == i \div c
    <2>1. t \in Nat /\ t * c <= i /\ i < t * c + c
      BY <1>2, Division
    <2> HIDE DEF t, c
    <2>2. t < threads
      BY <1>2, <2>1, SMTT(30)
    <2>3. t <= n
      BY <1>2, <2>1, SMTT(30)
    <2>4. t * c < n
      BY <1>2, <2>1
    <2>5. t \in Chunks(n, threads)
      BY <2>1, <2>2, <2>3, <2>4 DEF Chunks, ChunkStart, c
    <2> QED BY <1>1, <2>1, <2>5, ChunkIsInterval DEF c
  <1>4. ASSUME NEW t \in Chunks(n, threads), NEW u \in Chunks(n, threads),
               i \in Chunk(t, n, threads), i \in Chunk(u, n, threads)
        PROVE  t = u
    <2>1. t \in Nat /\ u \in Nat BY DEF Chunks
    <2>2. t * c <= i /\ i < t * c + c /\ u * c <= i /\ i < u * c + c
      BY <1>1, <1>4, ChunkIsInterval
    <2> HIDE DEF c
    <2> QED BY <1>2, <2>1, <2>2, SMTT(60)
  <1> QED BY <1>3, <1>4
=============================================================================
