--------------------------- MODULE LogRingProofs ---------------------------
(***************************************************************************)
(* The safety of the log ring for every ring of whole blocks, any number   *)
(* of actors and writes of any length, I/O errors and user faults included.*)
(***************************************************************************)
EXTENDS LogRing, TLAPS

-----------------------------------------------------------------------------
(* Division with remainder, from which circular positions are reasoned about. *)

LEMMA DivMod ==
    ASSUME NEW x \in Nat, NEW n \in Nat \ {0}
    PROVE  /\ x = n * (x \div n) + (x % n)
           /\ x % n \in 0 .. n - 1
           /\ x \div n \in Nat
OBVIOUS

LEMMA MulStep ==
    ASSUME NEW b \in Nat, NEW p \in Nat, NEW q \in Nat, p < q
    PROVE  b * p + b <= b * q
OBVIOUS

(* Quotient and remainder are unique. *)
LEMMA DivUnique ==
    ASSUME NEW n \in Nat \ {0}, NEW a \in Nat, NEW b \in Nat,
           NEW r \in 0 .. n - 1, NEW s \in 0 .. n - 1,
           n * a + r = n * b + s
    PROVE  a = b /\ r = s
<1>1. ~(a < b)
  <2> SUFFICES ASSUME a < b PROVE FALSE
    OBVIOUS
  <2>1. n * a + n <= n * b
    BY MulStep
  <2>2. n * a \in Nat /\ n * b \in Nat
    OBVIOUS
  <2> QED
    BY <2>1, <2>2
<1>2. ~(b < a)
  <2> SUFFICES ASSUME b < a PROVE FALSE
    OBVIOUS
  <2>1. n * b + n <= n * a
    BY MulStep
  <2>2. n * a \in Nat /\ n * b \in Nat
    OBVIOUS
  <2> QED
    BY <2>1, <2>2
<1>3. a = b
  BY <1>1, <1>2
<1> QED
  BY <1>3

(* Within a ring's turn positions grow with offsets. *)
LEMMA ModAdd ==
    ASSUME NEW x \in Nat, NEW n \in Nat \ {0}, NEW d \in Nat, (x % n) + d < n
    PROVE  (x + d) % n = (x % n) + d
<1> DEFINE a == x \div n
           r == x % n
           b == (x + d) \div n
           s == (x + d) % n
<1>1. x = n * a + r /\ r \in 0 .. n - 1 /\ a \in Nat
  BY DivMod DEF a, r
<1>2. x + d = n * b + s /\ s \in 0 .. n - 1 /\ b \in Nat
  <2> DEFINE y == x + d
  <2>1. y \in Nat
    OBVIOUS
  <2> HIDE DEF y
  <2>2. y = n * (y \div n) + (y % n) /\ y % n \in 0 .. n - 1 /\ y \div n \in Nat
    BY <2>1, DivMod
  <2> QED
    BY <2>2 DEF y
<1>3. r + d < n
  BY DEF r
<1>4. SUFFICES s = r + d
  BY DEF r, s
<1> HIDE DEF a, b, r, s
<1>5. n * a \in Nat /\ n * b \in Nat
  BY <1>1, <1>2
<1>6. n * a + (r + d) = n * b + s
  BY <1>1, <1>2, <1>5
<1>7. r + d \in 0 .. n - 1
  BY <1>1, <1>3
<1> QED
  BY <1>1, <1>2, <1>6, <1>7, DivUnique

(* Offsets less than a turn apart have different positions. *)
LEMMA ModApart ==
    ASSUME NEW x \in Nat, NEW y \in Nat, NEW n \in Nat \ {0}, x < y, y < x + n
    PROVE  x % n # y % n
<1> SUFFICES ASSUME x % n = y % n PROVE FALSE
  OBVIOUS
<1> DEFINE a == x \div n
           b == y \div n
           r == x % n
<1>1. x = n * a + r /\ y = n * b + r /\ a \in Nat /\ b \in Nat /\ r \in 0 .. n - 1
  <2>1. x = n * a + r /\ a \in Nat /\ r \in 0 .. n - 1
    BY DivMod
  <2>2. y = n * b + (y % n) /\ b \in Nat
    BY DivMod
  <2> QED
    BY <2>1, <2>2
<1> HIDE DEF a, b, r
<1>2. n * a \in Nat /\ n * b \in Nat
  BY <1>1
<1>3. n * a < n * b
  BY <1>1, <1>2
<1>4. a < b
  <2>1. CASE b < a
    <3>1. n * b + n <= n * a
      BY <1>1, <2>1, MulStep
    <3> QED
      BY <3>1, <1>2, <1>3
  <2>2. CASE b = a
    BY <2>2, <1>2, <1>3
  <2> QED
    BY <2>1, <2>2, <1>1
<1>5. n * a + n <= n * b
  BY <1>1, <1>4, MulStep
<1> QED
  BY <1>1, <1>2, <1>5

-----------------------------------------------------------------------------
(* What the helpers of the ring do. *)

LEMMA Sizes == N \in Nat \ {0} /\ B \in Nat \ {0}
BY RingAssumption

LEMMA AtRange ==
    ASSUME NEW x \in Nat
    PROVE  At(x) \in Positions /\ At(x) \in Nat
<1>1. x % N \in 0 .. N - 1
  BY Sizes, DivMod
<1> QED
  BY <1>1, Sizes DEF At, Positions

LEMMA AtAdd ==
    ASSUME NEW x \in Nat, NEW d \in Nat, At(x) + d < N
    PROVE  At(x + d) = At(x) + d
<1>1. (x % N) + d < N
  BY DEF At
<1>2. (x + d) % N = (x % N) + d
  BY <1>1, Sizes, ModAdd
<1> QED
  BY <1>2 DEF At

LEMMA AtApart ==
    ASSUME NEW x \in Nat, NEW y \in Nat, x < y, y < x + N
    PROVE  At(x) # At(y)
<1>1. x % N # y % N
  BY Sizes, ModApart
<1> QED
  BY <1>1 DEF At

(* A transfer limited by InBlock stays in its block, hence in the ring. *)
LEMMA InBlockFits ==
    ASSUME NEW x \in Nat, NEW n \in Nat
    PROVE  /\ InBlock(x, n) \in 0 .. n
           /\ At(x) + InBlock(x, n) <= N
           /\ n > 0 => InBlock(x, n) > 0
<1> DEFINE q == At(x) \div B
           r == At(x) % B
<1>1. At(x) \in Nat /\ At(x) < N /\ N \in Nat /\ B \in Nat \ {0}
  BY AtRange, Sizes DEF Positions
<1>2. PICK k \in 1 .. N : N = B * k
  BY RingAssumption
<1>3. At(x) = B * q + r /\ r \in 0 .. B - 1 /\ q \in Nat
  BY <1>1, DivMod
<1> HIDE DEF q
<1>4. q < k
  <2> SUFFICES ASSUME ~(q < k) PROVE FALSE
    OBVIOUS
  <2>1. B * k <= B * q
    <3>1. CASE k = q
      BY <3>1, <1>1, <1>2, <1>3
    <3>2. CASE k < q
      <4>1. B * k + B <= B * q
        BY <3>2, <1>1, <1>2, <1>3, MulStep
      <4> QED
        BY <4>1, <1>1, <1>2, <1>3
    <3> QED
      BY <3>1, <3>2, <1>2, <1>3
  <2>2. B * q \in Nat
    BY <1>1, <1>3
  <2> QED
    BY <2>1, <2>2, <1>1, <1>2, <1>3
<1>5. B * q + B <= N
  BY <1>1, <1>2, <1>3, <1>4, MulStep
<1>6. B * q \in Nat
  BY <1>1, <1>3
<1> HIDE DEF r
<1>7. At(x) + (B - r) <= N /\ B - r > 0 /\ B - r \in Nat
  BY <1>1, <1>3, <1>5, <1>6
<1> QED
  BY <1>1, <1>7 DEF InBlock, r

(* After a transfer the new bytes are in place, and those of the turn      *)
(* before it are as they were.                                             *)
LEMMA StoredRight ==
    ASSUME NEW x \in Nat, NEW m \in Nat, NEW z \in Nat, At(x) + m + z <= N,
           disk \in [Positions -> Int]
    PROVE  /\ Stored(x, m, z) \in [Positions -> Int]
           /\ \A y \in Nat : x <= y /\ y < x + m => Stored(x, m, z)[At(y)] = y
           /\ \A y \in Nat : y < x /\ y >= x + m + z - N => Stored(x, m, z)[At(y)] = disk[At(y)]
<1>0. N \in Nat \ {0} /\ At(x) \in Nat
  BY Sizes, AtRange
<1>1. Stored(x, m, z) \in [Positions -> Int]
  BY <1>0 DEF Stored, Junk, Positions
<1>2. ASSUME NEW y \in Nat, x <= y, y < x + m
      PROVE  Stored(x, m, z)[At(y)] = y
  <2>1. PICK d \in Nat : y = x + d /\ d < m
    <3>1. y - x \in Nat /\ y = x + (y - x) /\ y - x < m
      BY <1>2
    <3> QED
      BY <3>1
  <2>2. At(y) = At(x) + d
    BY <2>1, <1>0, AtAdd
  <2>3. At(y) \in Positions
    BY AtRange
  <2> QED
    BY <1>0, <2>1, <2>2, <2>3 DEF Stored
<1>3. ASSUME NEW y \in Nat, y < x, y >= x + m + z - N
      PROVE  Stored(x, m, z)[At(y)] = disk[At(y)]
  <2>1. At(y) \in Positions /\ At(y) \in Nat
    BY AtRange
  <2>2. ~(At(y) >= At(x) /\ At(y) < At(x) + m + z)
    <3> SUFFICES ASSUME At(y) >= At(x), At(y) < At(x) + m + z PROVE FALSE
      OBVIOUS
    <3>1. PICK d \in Nat : At(y) = At(x) + d /\ d < m + z
      <4>1. At(y) - At(x) \in Nat /\ At(y) = At(x) + (At(y) - At(x)) /\ At(y) - At(x) < m + z
        BY <1>0, <2>1
      <4> QED
        BY <4>1
    <3>2. At(x + d) = At(x) + d
      BY <3>1, <1>0, AtAdd
    <3>3. y < x + d /\ x + d < y + N /\ x + d \in Nat
      BY <3>1, <1>0, <1>3
    <3>4. At(y) # At(x + d)
      BY <3>3, <1>0, AtApart
    <3> QED
      BY <3>1, <3>2, <3>4
  <2> QED
    BY <1>0, <2>1, <2>2 DEF Stored
<1> QED
  BY <1>1, <1>2, <1>3

(* A read starts in the window, and ends before the end of the log, of the *)
(* ring and of the block.                                                  *)
LEMMA ReadLenRight ==
    ASSUME TypeOK, WindowIsLastN, NEW f \in Files, NEW n \in Nat,
           ReadFrom(f) < circular_buffer_end
    PROVE  /\ ReadFrom(f) \in Nat /\ ReadFrom(f) >= circular_buffer_start
           /\ ReadLen(f, n) \in 0 .. n
           /\ ReadFrom(f) + ReadLen(f, n) <= circular_buffer_end
           /\ At(ReadFrom(f)) + ReadLen(f, n) <= N
           /\ n > 0 => ReadLen(f, n) > 0
<1> DEFINE x == ReadFrom(f)
           u == IF x + n > circular_buffer_end THEN circular_buffer_end - x ELSE n
           v == IF At(x + u) < At(x) THEN N - At(x) ELSE u
<1>1. x \in Nat /\ x >= circular_buffer_start /\ circular_buffer_end \in Nat
  BY DEF TypeOK, ReadFrom
<1>2. ReadLen(f, n) = InBlock(x, v)
  BY DEF ReadLen
<1>3. x < circular_buffer_end
  OBVIOUS
<1> HIDE DEF x
<1>4. u \in 0 .. n /\ x + u <= circular_buffer_end /\ (n > 0 => u > 0)
  BY <1>1, <1>3
<1> HIDE DEF u
<1>5. At(x) \in Nat /\ At(x) < N /\ N \in Nat
  BY <1>1, AtRange, Sizes DEF Positions
<1>6. v \in 0 .. u /\ (n > 0 => v > 0)
  <2>1. CASE At(x + u) < At(x)
    <3>1. ~(At(x) + u < N)
      <4> SUFFICES ASSUME At(x) + u < N PROVE FALSE
        OBVIOUS
      <4>1. At(x + u) = At(x) + u
        BY <1>1, <1>4, AtAdd
      <4> QED
        BY <4>1, <2>1, <1>4, <1>5
    <3>2. v = N - At(x)
      BY <2>1
    <3> QED
      BY <3>1, <3>2, <1>4, <1>5
  <2>2. CASE ~(At(x + u) < At(x))
    BY <2>2, <1>4
  <2> QED
    BY <2>1, <2>2
<1> HIDE DEF v
<1>7. /\ InBlock(x, v) \in 0 .. v
      /\ At(x) + InBlock(x, v) <= N
      /\ v > 0 => InBlock(x, v) > 0
  <2>1. v \in Nat
    BY <1>4, <1>6
  <2> QED
    BY <2>1, <1>1, InBlockFits
<1>8. /\ InBlock(x, v) \in 0 .. n
      /\ x + InBlock(x, v) <= circular_buffer_end
      /\ n > 0 => InBlock(x, v) > 0
  BY <1>1, <1>4, <1>6, <1>7
<1> QED
  BY <1>1, <1>2, <1>7, <1>8 DEF x

(* The two ways of advancing start keep the window the last N bytes. *)
LEMMA AdvanceRight ==
    ASSUME TypeOK, WindowIsLastN, NEW n \in Nat, Advance(n)
    PROVE  /\ circular_buffer_start' \in Nat
           /\ circular_buffer_end' = circular_buffer_end + n
           /\ circular_buffer_end' \in Nat
           /\ WindowIsLastN'
BY Sizes DEF TypeOK, WindowIsLastN, Advance

-----------------------------------------------------------------------------
(***************************************************************************)
(* The inductive invariant.  While a write is in progress the device is    *)
(* right up to what has been copied: the frontier takes the place of the   *)
(* end, and only the turn before the farthest byte ever written counts.    *)
(***************************************************************************)
Frontier == circular_buffer_end + copied

RingRight ==
    \A x \in Nat : x < Frontier /\ x >= Longest(Frontier) - N => disk[At(x)] \in {x, Gone}

NoWriteWhenFree == mutex = Free => len = 0 /\ copied = 0

IInv == TypeOK /\ WindowIsLastN /\ NoWriteWhenFree /\ RingRight /\ ReadsAreConsecutive

LEMMA InitIInv == Init => IInv
<1> SUFFICES ASSUME Init PROVE IInv
  OBVIOUS
<1>1. TypeOK
  BY Sizes DEF Init, TypeOK, Positions, Junk
<1>2. WindowIsLastN
  BY Sizes DEF Init, WindowIsLastN
<1>3. NoWriteWhenFree
  BY DEF Init, NoWriteWhenFree
<1>4. RingRight
  BY DEF Init, RingRight, Frontier
<1>5. ReadsAreConsecutive
  BY DEF Init, ReadsAreConsecutive
<1> QED
  BY <1>1, <1>2, <1>3, <1>4, <1>5 DEF IInv

(* Storing m bytes at the frontier and clearing z more keeps the ring right *)
(* behind the new frontier.                                                 *)
LEMMA StoreAtFrontier ==
    ASSUME IInv, NEW m \in Nat, NEW z \in Nat, At(Frontier) + m + z <= N,
           disk' = Stored(Frontier, m, z),
           NEW R \in Nat, R >= reach, R >= Frontier + m + z
    PROVE  /\ disk' \in [Positions -> Int]
           /\ \A x \in Nat : x < Frontier + m /\ x >= R - N => disk'[At(x)] \in {x, Gone}
<1>1. Frontier \in Nat /\ disk \in [Positions -> Int] /\ reach \in Nat /\ N \in Nat
  BY Sizes DEF IInv, TypeOK, Frontier
<1>2. /\ disk' \in [Positions -> Int]
      /\ \A y \in Nat : Frontier <= y /\ y < Frontier + m => disk'[At(y)] = y
      /\ \A y \in Nat : y < Frontier /\ y >= Frontier + m + z - N => disk'[At(y)] = disk[At(y)]
  BY <1>1, StoredRight
<1>3. ASSUME NEW x \in Nat, x < Frontier + m, x >= R - N
      PROVE  disk'[At(x)] \in {x, Gone}
  <2>1. CASE Frontier <= x
    BY <1>2, <1>3, <2>1
  <2>2. CASE x < Frontier
    <3>1. x >= Frontier + m + z - N
      BY <1>1, <1>3
    <3>2. x >= Longest(Frontier) - N
      BY <1>1, <1>3, <3>1 DEF Longest
    <3>3. disk[At(x)] \in {x, Gone}
      BY <2>2, <3>2 DEF IInv, RingRight
    <3> QED
      BY <1>2, <2>2, <3>1, <3>3
  <2> QED
    BY <1>1, <1>3, <2>1, <2>2
<1> QED
  BY <1>2, <1>3

(* Reads that have been answered stay right as the damage can only grow. *)
LEMMA ReadsKept ==
    ASSUME TypeOK, ReadsAreConsecutive, got' = got, reach' \in Nat, reach' >= reach
    PROVE  ReadsAreConsecutive'
<1> SUFFICES ASSUME NEW f \in Files, NEW i \in DOMAIN got[f].bytes
             PROVE  \/ got[f].bytes[i] \in {got[f].from + (i - 1), Gone}
                    \/ got[f].from + (i - 1) < reach' - N
  BY DEF ReadsAreConsecutive
<1>1. \/ got[f].bytes[i] \in {got[f].from + (i - 1), Gone}
      \/ got[f].from + (i - 1) < reach - N
  BY DEF ReadsAreConsecutive
<1>2. got[f].from \in Nat /\ i \in Nat /\ reach \in Nat /\ N \in Nat
  BY Sizes DEF TypeOK
<1> QED
  BY <1>1, <1>2

(* An action that moves no byte and no index but only, perhaps, locals. *)
LEMMA RingKept ==
    ASSUME RingRight, TypeOK, reach' \in Nat, Frontier' \in Nat, disk' = disk,
           Frontier' <= Frontier, Longest(Frontier)' >= Longest(Frontier)
    PROVE  RingRight'
<1>1. Longest(Frontier)' \in Int /\ Longest(Frontier) \in Int /\ Frontier \in Nat /\ N \in Nat
  BY Sizes DEF Longest, Frontier, TypeOK
<1> SUFFICES ASSUME NEW x \in Nat, x < Frontier', x >= Longest(Frontier)' - N
             PROVE  disk[At(x)] \in {x, Gone}
  BY DEF RingRight, At
<1>2. x < Frontier /\ x >= Longest(Frontier) - N
  BY <1>1
<1> QED
  BY <1>2 DEF RingRight

LEMMA BeginIInv ==
    ASSUME IInv, NEW a \in Workers \cup Files, NEW n \in 0 .. MaxLen,
           internal_write_begin(a, n) \/ logfilefs_write_begin(a, n)
    PROVE  IInv'
<1> USE DEF IInv
<1>0. /\ mutex = Free /\ mutex' = a /\ len' = n /\ copied' = 0
      /\ UNCHANGED <<circular_buffer_start, circular_buffer_end, disk, mounted, off, got, reach>>
  BY DEF internal_write_begin, logfilefs_write_begin
<1>1. TypeOK'
  BY <1>0, LenAssumption DEF TypeOK
<1>2. WindowIsLastN'
  BY <1>0 DEF WindowIsLastN
<1>3. NoWriteWhenFree'
  BY <1>0, ActorsAssumption DEF NoWriteWhenFree
<1>4. RingRight'
  <2>1. copied = 0
    BY <1>0 DEF NoWriteWhenFree
  <2>2. Frontier' = Frontier /\ Frontier \in Nat /\ reach' = reach
    BY <1>0, <2>1 DEF Frontier, TypeOK
  <2>3. Longest(Frontier)' = Longest(Frontier) /\ Longest(Frontier) \in Int
    BY <2>2 DEF Longest, TypeOK
  <2> QED
    BY <1>0, <2>2, <2>3, RingKept DEF TypeOK
<1>5. ReadsAreConsecutive'
  BY <1>0, ReadsKept DEF TypeOK
<1> QED
  BY <1>1, <1>2, <1>3, <1>4, <1>5

LEMMA ChunkIInv ==
    ASSUME IInv, NEW a \in Workers \cup Files, write_chunk(a)
    PROVE  IInv'
<1> USE DEF IInv
<1> DEFINE delta == InBlock(Frontier, len - copied)
<1>0. /\ mutex = a /\ copied # len
      /\ disk' = Stored(Frontier, delta, 0)
      /\ copied' = copied + delta
      /\ UNCHANGED <<circular_buffer_start, circular_buffer_end, mounted, mutex, len,
                     off, got, reach>>
  BY DEF write_chunk, Frontier
<1>1. Frontier \in Nat /\ len - copied \in Nat /\ reach \in Nat /\ N \in Nat /\ len \in Nat
      /\ copied \in Nat /\ circular_buffer_end \in Nat
  BY Sizes DEF TypeOK, Frontier
<1>2. delta \in 0 .. len - copied /\ At(Frontier) + delta <= N
  BY <1>1, InBlockFits
<1> HIDE DEF delta
<1>3. delta \in Nat /\ delta <= len - copied /\ At(Frontier) + delta + 0 <= N
  BY <1>1, <1>2, AtRange
<1>4. Frontier' = Frontier + delta
  BY <1>0, <1>1, <1>3 DEF Frontier
<1>5. /\ disk' \in [Positions -> Int]
      /\ \A x \in Nat : x < Frontier + delta /\ x >= Longest(Frontier + delta) - N
             => disk'[At(x)] \in {x, Gone}
  <2>1. /\ Longest(Frontier + delta) \in Nat
        /\ Longest(Frontier + delta) >= reach
        /\ Longest(Frontier + delta) >= Frontier + delta + 0
    BY <1>1, <1>3 DEF Longest
  <2> QED
    BY <1>0, <1>3, <2>1, StoreAtFrontier
<1>6. TypeOK'
  BY <1>0, <1>1, <1>3, <1>5 DEF TypeOK
<1>7. WindowIsLastN'
  BY <1>0 DEF WindowIsLastN
<1>8. NoWriteWhenFree'
  BY <1>0, ActorsAssumption DEF NoWriteWhenFree
<1>9. RingRight'
  BY <1>0, <1>4, <1>5 DEF RingRight, Longest, At
<1>10. ReadsAreConsecutive'
  BY <1>0, <1>1, ReadsKept
<1> QED
  BY <1>6, <1>7, <1>8, <1>9, <1>10

(* Both commits and the short write: the indices advance over the copied   *)
(* bytes, so that the frontier stays.                                      *)
LEMMA CommitIInv ==
    ASSUME IInv, Advance(copied), Unlock, off' \in [Files -> Nat],
           UNCHANGED <<disk, mounted, got, reach>>
    PROVE  IInv'
<1> USE DEF IInv
<1>0. copied \in Nat /\ circular_buffer_end \in Nat /\ reach \in Nat /\ N \in Nat
  BY Sizes DEF TypeOK
<1>1. /\ circular_buffer_start' \in Nat
      /\ circular_buffer_end' = circular_buffer_end + copied
      /\ circular_buffer_end' \in Nat
      /\ WindowIsLastN'
  BY <1>0, AdvanceRight
<1>2. TypeOK'
  BY <1>1 DEF TypeOK, Unlock
<1>3. NoWriteWhenFree'
  BY DEF NoWriteWhenFree, Unlock
<1>4. RingRight'
  <2>1. Frontier' = Frontier /\ Frontier \in Nat /\ reach' = reach
    BY <1>0, <1>1 DEF Frontier, Unlock
  <2>2. Longest(Frontier)' = Longest(Frontier) /\ Longest(Frontier) \in Int
    BY <2>1, <1>0 DEF Longest
  <2> QED
    BY <1>0, <2>1, <2>2, RingKept
<1>5. ReadsAreConsecutive'
  BY <1>0, ReadsKept
<1> QED
  BY <1>1, <1>2, <1>3, <1>4, <1>5

LEMMA AbortIInv ==
    ASSUME IInv, NEW w \in Workers, internal_write_abort(w)
    PROVE  IInv'
<1> USE DEF IInv
<1>0. /\ reach' = Longest(Frontier) /\ mutex' = Free /\ len' = 0 /\ copied' = 0
      /\ UNCHANGED <<circular_buffer_start, circular_buffer_end, disk, mounted, off, got>>
  BY DEF internal_write_abort, Unlock, Frontier
<1>1. /\ copied \in Nat /\ circular_buffer_end \in Nat /\ reach \in Nat /\ Frontier \in Nat
      /\ N \in Nat
  BY Sizes DEF TypeOK, Frontier
<1>2. reach' \in Nat /\ reach' >= reach /\ reach' >= Frontier
  BY <1>0, <1>1 DEF Longest
<1>3. TypeOK'
  BY <1>0, <1>2 DEF TypeOK
<1>4. WindowIsLastN'
  BY <1>0 DEF WindowIsLastN
<1>5. NoWriteWhenFree'
  BY <1>0 DEF NoWriteWhenFree
<1>6. RingRight'
  <2>1. Frontier' = circular_buffer_end /\ Frontier' <= Frontier /\ Frontier' \in Nat
    BY <1>0, <1>1 DEF Frontier
  <2>2. Longest(Frontier)' >= Longest(Frontier)
    BY <1>0, <1>1, <1>2, <2>1 DEF Longest
  <2> QED
    BY <1>0, <1>2, <2>1, <2>2, RingKept
<1>7. ReadsAreConsecutive'
  BY <1>0, <1>2, ReadsKept
<1> QED
  BY <1>3, <1>4, <1>5, <1>6, <1>7

LEMMA FaultIInv ==
    ASSUME IInv, NEW f \in Files, NEW m \in 0 .. MaxLen, logfilefs_write_fault(f, m)
    PROVE  IInv'
<1> USE DEF IInv
<1> DEFINE delta == InBlock(Frontier, len - copied)
<1>0. /\ m < delta
      /\ disk' = Stored(Frontier, m, delta - m)
      /\ reach' = Longest(Frontier + delta)
      /\ Advance(copied + m)
      /\ off' = [off EXCEPT ![f] = circular_buffer_end']
      /\ mutex' = Free /\ len' = 0 /\ copied' = 0
      /\ UNCHANGED <<mounted, got>>
  BY DEF logfilefs_write_fault, Frontier, Unlock
<1>1. /\ Frontier \in Nat /\ len - copied \in Nat /\ reach \in Nat /\ N \in Nat
      /\ copied \in Nat /\ circular_buffer_end \in Nat /\ m \in Nat
  BY Sizes, LenAssumption DEF TypeOK, Frontier
<1>2. delta \in 0 .. len - copied /\ At(Frontier) + delta <= N
  BY <1>1, InBlockFits
<1> HIDE DEF delta
<1>3. /\ delta \in Nat /\ delta - m \in Nat
      /\ At(Frontier) + m + (delta - m) <= N
  BY <1>0, <1>1, <1>2, AtRange
<1>4. reach' \in Nat /\ reach' >= reach /\ reach' >= Frontier + m + (delta - m)
  BY <1>0, <1>1, <1>3 DEF Longest
<1>5. /\ disk' \in [Positions -> Int]
      /\ \A x \in Nat : x < Frontier + m /\ x >= reach' - N => disk'[At(x)] \in {x, Gone}
  BY <1>0, <1>1, <1>3, <1>4, StoreAtFrontier
<1>6. /\ circular_buffer_start' \in Nat
      /\ circular_buffer_end' = circular_buffer_end + (copied + m)
      /\ circular_buffer_end' \in Nat
      /\ WindowIsLastN'
  BY <1>0, <1>1, AdvanceRight
<1>7. TypeOK'
  BY <1>0, <1>4, <1>5, <1>6 DEF TypeOK
<1>8. NoWriteWhenFree'
  BY <1>0 DEF NoWriteWhenFree
<1>9. RingRight'
  <2>1. Frontier' = Frontier + m
    BY <1>0, <1>1, <1>6 DEF Frontier
  <2>2. Longest(Frontier)' = reach'
    BY <2>1, <1>1, <1>3, <1>4 DEF Longest
  <2> QED
    BY <2>1, <2>2, <1>5 DEF RingRight, At
<1>10. ReadsAreConsecutive'
  BY <1>0, <1>4, ReadsKept
<1> QED
  BY <1>6, <1>7, <1>8, <1>9, <1>10

(* An action of a reader leaves the ring and the indices alone. *)
LEMMA ReadIInv ==
    ASSUME IInv, off' \in [Files -> Nat], got' \in [Files -> [from : Nat, bytes : Seq(Int)]],
           ReadsAreConsecutive',
           UNCHANGED <<circular_buffer_start, circular_buffer_end, disk, mounted, mutex,
                       len, copied, reach>>
    PROVE  IInv'
<1> USE DEF IInv
<1>1. TypeOK'
  BY DEF TypeOK
<1>2. WindowIsLastN' /\ NoWriteWhenFree'
  BY DEF WindowIsLastN, NoWriteWhenFree
<1>3. RingRight'
  BY DEF RingRight, Frontier, Longest, At
<1> QED
  BY <1>1, <1>2, <1>3

LEMMA ReadBytesIInv ==
    ASSUME IInv, NEW f \in Files, NEW n \in 0 .. MaxLen, NEW u \in 0 .. MaxLen,
           read_bytes(f, n, u)
    PROVE  IInv'
<1> USE DEF IInv
<1> DEFINE x == ReadFrom(f)
           m == ReadLen(f, n) - u
           bytes == [i \in 1 .. m |-> disk[At(x) + (i - 1)]]
<1>0. /\ mutex = Free /\ x < circular_buffer_end /\ u <= ReadLen(f, n)
      /\ got' = [got EXCEPT ![f] = [from |-> x, bytes |-> bytes]]
      /\ off' = [off EXCEPT ![f] = x + m]
      /\ UNCHANGED <<circular_buffer_start, circular_buffer_end, disk, mounted, mutex,
                     len, copied, reach>>
  BY DEF read_bytes
<1>1. n \in Nat /\ u \in Nat /\ reach \in Nat /\ N \in Nat /\ circular_buffer_end \in Nat
      /\ copied = 0
  BY <1>0, Sizes, LenAssumption DEF TypeOK, NoWriteWhenFree
<1>2. /\ x \in Nat /\ x >= circular_buffer_start
      /\ ReadLen(f, n) \in 0 .. n
      /\ x + ReadLen(f, n) <= circular_buffer_end
      /\ At(x) + ReadLen(f, n) <= N
  BY <1>0, <1>1, ReadLenRight
<1> HIDE DEF x
<1>3. /\ m \in Nat /\ x + m <= circular_buffer_end /\ At(x) + m <= N
      /\ At(x) \in Nat
  <2>1. At(x) \in Nat
    BY <1>2, AtRange
  <2>2. u <= ReadLen(f, n)
    BY <1>0
  <2> QED
    BY <1>1, <1>2, <2>1, <2>2
<1> HIDE DEF m
<1>4. ASSUME NEW i \in 1 .. m
      PROVE  /\ At(x) + (i - 1) \in Positions
             /\ disk[At(x) + (i - 1)] \in {x + (i - 1), Gone} \/ x + (i - 1) < reach - N
  <2>1. i - 1 \in Nat /\ At(x) + (i - 1) < N /\ x + (i - 1) \in Nat
        /\ x + (i - 1) < circular_buffer_end
    BY <1>1, <1>2, <1>3
  <2>2. At(x + (i - 1)) = At(x) + (i - 1)
    BY <1>2, <2>1, AtAdd
  <2>3. ASSUME ~(x + (i - 1) < reach - N)
        PROVE  disk[At(x + (i - 1))] \in {x + (i - 1), Gone}
    <3>1. Frontier = circular_buffer_end
      BY <1>1 DEF Frontier
    <3>2. x + (i - 1) >= circular_buffer_end - N
      BY <1>1, <1>2, <2>1 DEF WindowIsLastN
    <3>3. x + (i - 1) >= Longest(Frontier) - N
      BY <1>1, <2>1, <2>3, <3>1, <3>2 DEF Longest
    <3> QED
      BY <2>1, <3>1, <3>3 DEF RingRight
  <2> QED
    BY <1>1, <1>3, <2>1, <2>2, <2>3 DEF Positions
<1>5. bytes \in Seq(Int) /\ DOMAIN bytes = 1 .. m
  <2>1. ASSUME NEW i \in 1 .. m PROVE disk[At(x) + (i - 1)] \in Int
    BY <1>4 DEF TypeOK
  <2> QED
    BY <2>1, <1>3
<1>6. got' \in [Files -> [from : Nat, bytes : Seq(Int)]]
  BY <1>0, <1>2, <1>5 DEF TypeOK
<1>7. off' \in [Files -> Nat]
  BY <1>0, <1>2, <1>3 DEF TypeOK
<1>8. ReadsAreConsecutive'
  <2> SUFFICES ASSUME NEW g \in Files, NEW i \in DOMAIN got'[g].bytes
               PROVE  \/ got'[g].bytes[i] \in {got'[g].from + (i - 1), Gone}
                      \/ got'[g].from + (i - 1) < reach - N
    BY <1>0 DEF ReadsAreConsecutive
  <2>1. CASE g = f
    <3>1. got'[g] = [from |-> x, bytes |-> bytes]
      BY <1>0, <2>1 DEF TypeOK
    <3>2. i \in 1 .. m /\ got'[g].from = x /\ got'[g].bytes[i] = disk[At(x) + (i - 1)]
      BY <3>1, <1>5
    <3> QED
      BY <3>2, <1>4
  <2>2. CASE g # f
    BY <1>0, <2>2 DEF TypeOK, ReadsAreConsecutive
  <2> QED
    BY <2>1, <2>2
<1> QED
  BY <1>0, <1>6, <1>7, <1>8, ReadIInv

LEMMA ReadNothingIInv ==
    ASSUME IInv, NEW f \in Files, read_nothing(f)
    PROVE  IInv'
<1> USE DEF IInv
<1>0. /\ got' = [got EXCEPT ![f] = [from |-> ReadFrom(f), bytes |-> <<>>]]
      /\ off' = [off EXCEPT ![f] = ReadFrom(f)]
      /\ UNCHANGED <<circular_buffer_start, circular_buffer_end, disk, mounted, mutex,
                     len, copied, reach>>
  BY DEF read_nothing
<1>1. ReadFrom(f) \in Nat
  BY DEF ReadFrom, TypeOK
<1>2. off' \in [Files -> Nat] /\ got' \in [Files -> [from : Nat, bytes : Seq(Int)]]
  BY <1>0, <1>1 DEF TypeOK
<1>3. ReadsAreConsecutive'
  <2> SUFFICES ASSUME NEW g \in Files, NEW i \in DOMAIN got'[g].bytes
               PROVE  \/ got'[g].bytes[i] \in {got'[g].from + (i - 1), Gone}
                      \/ got'[g].from + (i - 1) < reach - N
    BY <1>0 DEF ReadsAreConsecutive
  <2>1. g # f
    BY <1>0 DEF TypeOK
  <2> QED
    BY <1>0, <2>1 DEF TypeOK, ReadsAreConsecutive
<1> QED
  BY <1>0, <1>2, <1>3, ReadIInv

(* A reclaimed block takes no byte to another's place. *)
LEMMA ReclaimIInv ==
    ASSUME IInv, NEW b \in Blocks, reclaim(b)
    PROVE  IInv'
<1> USE DEF IInv
<1>0. /\ disk' = [p \in Positions |-> IF p \div B = b THEN Gone ELSE disk[p]]
      /\ UNCHANGED <<circular_buffer_start, circular_buffer_end, mounted, mutex, len, copied,
                     off, got, reach>>
  BY DEF reclaim
<1>1. \A p \in Positions : disk'[p] = disk[p] \/ disk'[p] = Gone
  BY <1>0
<1>2. disk' \in [Positions -> Int]
  <2>1. \A p \in Positions : disk[p] \in Int
    BY DEF TypeOK
  <2> QED
    BY <1>0, <2>1 DEF Gone
<1>3. TypeOK'
  BY <1>0, <1>2 DEF TypeOK
<1>4. WindowIsLastN' /\ NoWriteWhenFree'
  BY <1>0 DEF WindowIsLastN, NoWriteWhenFree
<1>5. RingRight'
  <2>1. Frontier' = Frontier /\ Longest(Frontier)' = Longest(Frontier)
    BY <1>0 DEF Frontier, Longest
  <2> SUFFICES ASSUME NEW x \in Nat, x < Frontier, x >= Longest(Frontier) - N
               PROVE  disk'[At(x)] \in {x, Gone}
    BY <2>1 DEF RingRight, At
  <2>2. disk[At(x)] \in {x, Gone} /\ At(x) \in Positions
    BY AtRange DEF RingRight
  <2> QED
    BY <2>2, <1>1
<1>6. ReadsAreConsecutive'
  BY <1>0 DEF ReadsAreConsecutive
<1> QED
  BY <1>3, <1>4, <1>5, <1>6

-----------------------------------------------------------------------------
LEMMA NextIInv == IInv /\ [Next]_vars => IInv'
<1> SUFFICES ASSUME IInv, [Next]_vars PROVE IInv'
  OBVIOUS
<1>1. CASE \E w \in Workers, n \in 0 .. MaxLen : internal_write_begin(w, n)
  BY <1>1, BeginIInv
<1>2. CASE \E f \in Files, n \in 0 .. MaxLen : logfilefs_write_begin(f, n)
  BY <1>2, BeginIInv
<1>3. CASE \E a \in Workers \cup Files : write_chunk(a)
  BY <1>3, ChunkIInv
<1>4. ASSUME NEW w \in Workers, internal_write_commit(w)
      PROVE  IInv'
  BY <1>4, CommitIInv DEF internal_write_commit, IInv, TypeOK
<1>5. CASE \E w \in Workers : internal_write_abort(w)
  BY <1>5, AbortIInv
<1>6. ASSUME NEW f \in Files, logfilefs_write_commit(f) \/ logfilefs_write_short(f)
      PROVE  IInv'
  <2>1. /\ Advance(copied) /\ Unlock /\ off' = [off EXCEPT ![f] = circular_buffer_end']
        /\ UNCHANGED <<disk, mounted, got, reach>>
    BY <1>6 DEF logfilefs_write_commit, logfilefs_write_short
  <2>2. circular_buffer_end' \in Nat
    BY <2>1, AdvanceRight DEF IInv, TypeOK
  <2>3. off' \in [Files -> Nat]
    BY <2>1, <2>2 DEF IInv, TypeOK
  <2> QED
    BY <2>1, <2>3, CommitIInv
<1>7. CASE \E f \in Files, m \in 0 .. MaxLen : logfilefs_write_fault(f, m)
  BY <1>7, FaultIInv
<1>8. CASE \E f \in Files, n \in 0 .. MaxLen, u \in 0 .. MaxLen : read_bytes(f, n, u)
  BY <1>8, ReadBytesIInv
<1>9. CASE \E f \in Files : read_nothing(f)
  BY <1>9, ReadNothingIInv
<1>10. CASE \E b \in Blocks : reclaim(b)
  BY <1>10, ReclaimIInv
<1>11. CASE UNCHANGED vars \/ \E w \in Workers : internal_write_unmounted(w)
  <2>1. UNCHANGED vars
    BY <1>11 DEF internal_write_unmounted
  <2> QED
    BY <2>1 DEF vars, IInv, TypeOK, WindowIsLastN, NoWriteWhenFree, RingRight, Frontier,
                Longest, At, ReadsAreConsecutive
<1> QED
  BY <1>1, <1>2, <1>3, <1>4, <1>5, <1>6, <1>7, <1>8, <1>9, <1>10, <1>11 DEF Next

(* IInv holds in every state of the ring: it is inductive. *)
THEOREM SpecIInv == Spec => []IInv
BY InitIInv, NextIInv, PTL DEF Spec

(***************************************************************************)
(* The log's variables keep their types, in particular no write copies     *)
(* more than its payload (copied <= len in both loops of file.c).          *)
(***************************************************************************)
THEOREM TypeCorrect == Spec => []TypeOK
<1>1. IInv => TypeOK
  BY DEF IInv
<1> QED
  BY <1>1, SpecIInv, PTL

(***************************************************************************)
(* start is always end - N, or 0 before the ring is full: the two cases in *)
(* which file.c moves it agree.                                            *)
(***************************************************************************)
THEOREM WindowCorrect == Spec => []WindowIsLastN
<1>1. IInv => WindowIsLastN
  BY DEF IInv
<1> QED
  BY <1>1, SpecIInv, PTL

(***************************************************************************)
(* Between writes every readable byte is the one logged at its offset,     *)
(* except for the oldest ones a failed write has run over and those whose  *)
(* block the kernel has reclaimed since (file.c:189 leaves it clean).      *)
(***************************************************************************)
THEOREM DamageIsConfined == Spec => []DamageConfined
<1>1. IInv => DamageConfined
  <2> SUFFICES ASSUME IInv, mutex = Free,
                      NEW x \in circular_buffer_start .. circular_buffer_end - 1,
                      x >= reach - N
               PROVE  disk[At(x)] \in {x, Gone}
    BY DEF DamageConfined
  <2>1. /\ circular_buffer_start \in Nat /\ circular_buffer_end \in Nat /\ reach \in Nat
        /\ N \in Nat /\ copied = 0
    BY Sizes DEF IInv, TypeOK, NoWriteWhenFree
  <2>2. x \in Nat /\ x < Frontier /\ x >= circular_buffer_end - N /\ Frontier = circular_buffer_end
    BY <2>1 DEF IInv, WindowIsLastN, Frontier
  <2>3. x >= Longest(Frontier) - N
    BY <2>1, <2>2 DEF Longest
  <2> QED
    BY <2>2, <2>3 DEF IInv, RingRight
<1> QED
  BY <1>1, SpecIInv, PTL

(***************************************************************************)
(* What onefilefs_read has returned are consecutive bytes of the log, with *)
(* the same exceptions.                                                    *)
(***************************************************************************)
THEOREM ReadsCorrect == Spec => []ReadsAreConsecutive
<1>1. IInv => ReadsAreConsecutive
  BY DEF IInv
<1> QED
  BY <1>1, SpecIInv, PTL

(***************************************************************************)
(* onefilefs_read does not report the end of the file before the end of    *)
(* the log.                                                                *)
(***************************************************************************)
THEOREM NoFalseEndOfFile == Spec => []NoFalseEnd
<1>1. IInv => NoFalseEnd
  <2> SUFFICES ASSUME IInv, NEW f \in Files, NEW n \in 1 .. MaxLen,
                      ReadFrom(f) < circular_buffer_end
               PROVE  ReadLen(f, n) \in 1 .. n
    BY DEF NoFalseEnd
  <2>1. n \in Nat /\ n > 0
    BY LenAssumption
  <2>2. ReadLen(f, n) \in 0 .. n /\ ReadLen(f, n) > 0
    BY <2>1, ReadLenRight DEF IInv
  <2> QED
    BY <2>1, <2>2
<1> QED
  BY <1>1, SpecIInv, PTL
=============================================================================
