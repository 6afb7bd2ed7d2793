-------------------------- MODULE SplitChunksProofs --------------------------
(***************************************************************************)
(* The chunks SplitChunks hands to the workers partition the units of the  *)
(* source, for every number of units and of workers: no row is loaded by   *)
(* two workers and none is left out.                                       *)
(***************************************************************************)
EXTENDS SplitChunks, TLAPS

\* How many chunks there are, and how many units the first ones have.
LEMMA ChunkSizes ==
    ASSUME NEW total \in Nat, NEW workers \in Int
    PROVE  /\ NumChunks(total, workers) \in Nat \ {0}
           /\ Base(total, workers) \in Nat
           /\ NumChunks(total, workers) * Base(total, workers) <= total
           /\ total < NumChunks(total, workers) * Base(total, workers) + NumChunks(total, workers)
           /\ total > 0 => Base(total, workers) > 0
<1> DEFINE n == NumChunks(total, workers)
           b == Base(total, workers)
<1>1. n \in Nat \ {0} /\ (total > 0 => n <= total)
  BY DEF NumChunks
<1>2. b \in Int /\ total = n * b + (total % n) /\ (total % n) \in 0..(n - 1)
  <2> HIDE DEF n
  <2>1. b = total \div n
    BY DEF Base, n
  <2> QED
    BY <1>1, <2>1
<1>3. b >= 0 /\ (total > 0 => b > 0)
  <2> HIDE DEF n, b
  <2>1. b < 0 => n * b <= -n
    BY <1>1, <1>2
  <2>2. b = 0 => n * b = 0
    BY <1>1
  <2> QED
    BY <1>1, <1>2, <2>1, <2>2
<1> HIDE DEF n, b
<1>4. n \in Nat \ {0} /\ b \in Nat /\ n * b <= total /\ total < n * b + n
  BY <1>1, <1>2, <1>3
<1> QED
  BY <1>3, <1>4 DEF n, b

\* A product of natural numbers grows with its first factor.
LEMMA ProductGrows ==
    ASSUME NEW i \in Int, NEW j \in Int, NEW b \in Nat, i <= j
    PROVE  i * b <= j * b /\ i * b \in Int /\ j * b \in Int
<1>1. (j - i) \in Nat /\ (j - i) * b >= 0
  OBVIOUS
<1>2. (j - i) * b = j * b - i * b
  OBVIOUS
<1> QED
  BY <1>1, <1>2

\* Every chunk lies within the units of the source.
THEOREM ChunksInside ==
    ASSUME NEW total \in Nat, NEW workers \in Int, NEW c \in Chunks(total, workers)
    PROVE  ChunkRows(total, workers, c) \subseteq 0..(total - 1)
<1> DEFINE n == NumChunks(total, workers)
           b == Base(total, workers)
<1>1. n \in Nat \ {0} /\ b \in Nat /\ n * b <= total /\ c \in 0..(n - 1)
  BY ChunkSizes DEF Chunks
<1> HIDE DEF n, b
<1>2. 0 <= c * b /\ c * b \in Int
  BY <1>1, ProductGrows, 0 * b = 0
<1>3. c * b + b <= total
  <2>1. (c + 1) * b <= n * b /\ (c + 1) * b = c * b + b
    BY <1>1, ProductGrows
  <2> QED
    BY <1>1, <1>2, <2>1
<1>4. ChunkStart(total, workers, c) = c * b /\ ChunkEnd(total, workers, c) \in {total, c * b + b}
  BY DEF ChunkStart, ChunkEnd, b
<1> QED
  BY <1>1, <1>2, <1>3, <1>4 DEF ChunkRows

\* No unit is in two chunks.
THEOREM ChunksDisjoint ==
    ASSUME NEW total \in Nat, NEW workers \in Int,
           NEW c \in Chunks(total, workers), NEW d \in Chunks(total, workers), c < d
    PROVE  ChunkRows(total, workers, c) \cap ChunkRows(total, workers, d) = {}
<1> DEFINE n == NumChunks(total, workers)
           b == Base(total, workers)
<1>1. n \in Nat \ {0} /\ b \in Nat /\ c \in 0..(n - 1) /\ d \in 0..(n - 1) /\ c # n - 1
  BY ChunkSizes DEF Chunks
<1>2. ChunkStart(total, workers, d) = d * b /\ ChunkEnd(total, workers, c) = c * b + b
      /\ ChunkStart(total, workers, c) = c * b
  BY <1>1 DEF ChunkStart, ChunkEnd
<1> HIDE DEF n, b
<1>3. c * b + b <= d * b /\ c * b \in Int /\ d * b \in Int
  <2>1. (c + 1) * b <= d * b /\ (c + 1) * b = c * b + b
    BY <1>1, ProductGrows
  <2> QED
    BY <1>1, <2>1
<1>4. ChunkEnd(total, workers, d) \in Int
  <2>1. ChunkEnd(total, workers, d) = total \/ ChunkEnd(total, workers, d) = d * b + b
    BY <1>2 DEF ChunkEnd, b
  <2> QED
    BY <1>1, <1>3, <2>1
<1> QED
  BY <1>1, <1>2, <1>3, <1>4 DEF ChunkRows

\* Every unit is in a chunk.
THEOREM ChunksCover ==
    ASSUME NEW total \in Nat, NEW workers \in Int, NEW r \in 0..(total - 1)
    PROVE  \E c \in Chunks(total, workers) : r \in ChunkRows(total, workers, c)
<1> DEFINE n == NumChunks(total, workers)
           b == Base(total, workers)
           q == r \div b
<1>1. n \in Nat \ {0} /\ b \in Nat \ {0} /\ n * b <= total
  <2>1. total > 0 /\ r \in Int
    OBVIOUS
  <2> QED
    BY <2>1, ChunkSizes DEF n, b
<1>2. q \in Nat /\ r = b * q + (r % b) /\ (r % b) \in 0..(b - 1)
  <2> HIDE DEF b
  <2>1. q \in Int /\ r = b * q + (r % b) /\ (r % b) \in 0..(b - 1)
    BY <1>1
  <2>2. q < 0 => b * q <= -b
    BY <1>1, <2>1
  <2> QED
    BY <1>1, <2>1, <2>2
<1> HIDE DEF n, b, q
<1>3. CASE q <= n - 1
  <2>1. q * b <= r /\ r < q * b + b
    BY <1>1, <1>2
  <2>2. q \in Chunks(total, workers)
    BY <1>1, <1>2, <1>3 DEF Chunks, n
  <2>3. r \in ChunkRows(total, workers, q)
    BY <1>1, <1>2, <2>1 DEF ChunkRows, ChunkStart, ChunkEnd, n, b
  <2> QED
    BY <2>2, <2>3
<1>4. CASE q > n - 1
  <2>1. (n - 1) * b <= q * b
    BY <1>1, <1>2, <1>4, ProductGrows
  <2>2. (n - 1) * b <= r
    BY <1>1, <1>2, <2>1
  <2>3. n - 1 \in Chunks(total, workers)
    BY <1>1 DEF Chunks, n
  <2>4. r \in ChunkRows(total, workers, n - 1)
    BY <1>1, <2>2 DEF ChunkRows, ChunkStart, ChunkEnd, n, b
  <2> QED
    BY <2>3, <2>4
<1> QED
  BY <1>1, <1>2, <1>3, <1>4

=============================================================================
