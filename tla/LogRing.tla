------------------------------ MODULE LogRing ------------------------------
(***************************************************************************)
(* lib/logfs/file.c: the log file, a ring of N bytes on the device.        *)
(* Deferred log work appends to it (internal_logfilefs_write), processes   *)
(* read it and, in debug use, write it through open files                  *)
(* (onefilefs_read, logfilefs_write).  All three run under log_file_mutex. *)
(*                                                                         *)
(* A byte of the log has a logical offset that grows for ever; offset x is *)
(* stored at position x % N.  The model keeps for every position the       *)
(* offset of the byte that was put there, so "the right byte" is           *)
(* disk[x % N] = x, whatever was logged.                                   *)
(*                                                                         *)
(* All of it goes through the buffer cache and no write marks its buffer   *)
(* dirty: nothing is ever written back, and the kernel may reclaim a block *)
(* at any time that no write or read holds it.                             *)
(***************************************************************************)
EXTENDS Integers, Sequences, FiniteSets

CONSTANTS Workers,     \* deferred log work
          Files,       \* open files of user processes
          Free,        \* nobody holds the mutex
          N,           \* file_size
          B,           \* DEFAULT_BLOCK_SIZE
          MaxLen,      \* longest payload or user buffer considered
          MaxEnd       \* bound on circular_buffer_end in TLC's runs

ASSUME ActorsAssumption == Free \notin Workers \cup Files
ASSUME RingAssumption ==
    /\ N \in Nat \ {0} /\ B \in Nat \ {0}
    /\ \E k \in 1 .. N : N = B * k          \* as logfilemakefs lays the file out
ASSUME LenAssumption == MaxLen \in Nat /\ MaxEnd \in Nat

VARIABLES circular_buffer_start, circular_buffer_end,
          disk,        \* position -> logical offset of the byte that sb_bread
                       \* finds there, Junk, or Gone: a reclaimed block
          mounted,
          mutex,       \* holder of log_file_mutex
          len, copied, \* locals of the write in progress
          off,         \* [file -> its position]
          got,         \* [file -> the bytes its last read returned]
          reach        \* history: end of the longest write that was given up

vars == <<circular_buffer_start, circular_buffer_end, disk, mounted, mutex, len, copied,
          off, got, reach>>

Positions == 0 .. N - 1
Junk == -1
Gone == -2         \* Junk as well: what the device holds, marked as history
Blocks == 0 .. (N \div B) - 1
At(x) == x % N     \* circular_buffer_pos of the byte at offset x

\* The remainder of the payload is not considered, or the block is not.
InBlock_fills_block(x, n) == B - (At(x) % B)
InBlock_ignores_block(x, n) == n

(* The part of a transfer of n bytes at offset x that its block can take. *)
InBlock(x, n) == LET room == B - (At(x) % B) IN IF n > room THEN room ELSE n

(* The device after m bytes at offset x have been copied and the z bytes   *)
(* behind them cleared.                                                    *)
Stored(x, m, z) ==
    [p \in Positions |->
        IF p >= At(x) /\ p < At(x) + m THEN x + (p - At(x))
        ELSE IF p >= At(x) + m /\ p < At(x) + m + z THEN Junk
        ELSE disk[p]]

Longest(x) == IF x > reach THEN x ELSE reach

(* A freshly made file system, mounted or not. *)
Init ==
    /\ circular_buffer_start = 0 /\ circular_buffer_end = 0
    /\ disk = [p \in Positions |-> Junk]
    /\ mounted \in BOOLEAN
    /\ mutex = Free /\ len = 0 /\ copied = 0
    /\ off = [f \in Files |-> 0]
    /\ got = [f \in Files |-> [from |-> 0, bytes |-> <<>>]]
    /\ reach = 0

(* mutex_unlock; the locals die. *)
Unlock == mutex' = Free /\ len' = 0 /\ copied' = 0

-----------------------------------------------------------------------------
(***************************************************************************)
(* The beginning of both writes.  internal_logfilefs_write ignores an      *)
(* empty payload and, with the mutex held, an unmounted file system.       *)
(***************************************************************************)
internal_write_begin(w, n) ==
    /\ mutex = Free /\ n > 0 /\ mounted
    /\ circular_buffer_end + n <= MaxEnd
    /\ mutex' = w /\ len' = n /\ copied' = 0
    /\ UNCHANGED <<circular_buffer_start, circular_buffer_end, disk, mounted, off, got, reach>>

internal_write_unmounted(w) == mutex = Free /\ ~mounted /\ UNCHANGED vars

logfilefs_write_begin(f, n) ==
    /\ mutex = Free /\ mounted       \* the file is open
    /\ circular_buffer_end + n <= MaxEnd
    /\ mutex' = f /\ len' = n /\ copied' = 0
    /\ UNCHANGED <<circular_buffer_start, circular_buffer_end, disk, mounted, off, got, reach>>

(* One turn of the loop: as much as fits in the block. *)
write_chunk(a) ==
    LET x == circular_buffer_end + copied
        delta == InBlock(x, len - copied)
    IN  /\ mutex = a /\ copied # len
        /\ disk' = Stored(x, delta, 0)
        /\ copied' = copied + delta
        /\ UNCHANGED <<circular_buffer_start, circular_buffer_end, mounted, mutex, len,
                       off, got, reach>>

\* The first case of the window is forgotten: start jumps once the ring is full.
Advance_from_empty(n) ==
    /\ circular_buffer_start' =
           IF circular_buffer_end + n >= N
           THEN circular_buffer_start + (circular_buffer_end + n - N)
           ELSE circular_buffer_start
    /\ circular_buffer_end' = circular_buffer_end + n

(***************************************************************************)
(* The indices advance over what was copied, and the oldest bytes leave.   *)
(***************************************************************************)
Advance(n) ==
    /\ circular_buffer_start' =
           IF circular_buffer_end >= N THEN circular_buffer_start + n
           ELSE IF circular_buffer_end + n >= N
                THEN circular_buffer_start + (circular_buffer_end + n - N)
                ELSE circular_buffer_start
    /\ circular_buffer_end' = circular_buffer_end + n

internal_write_commit(w) ==
    /\ w \in Workers /\ mutex = w /\ copied = len
    /\ Advance(copied)
    /\ Unlock
    /\ UNCHANGED <<disk, mounted, off, got, reach>>

(* The user's file position ends up at the end of the log. *)
logfilefs_write_commit(f) ==
    /\ f \in Files /\ mutex = f /\ copied = len
    /\ Advance(copied)
    /\ off' = [off EXCEPT ![f] = circular_buffer_end']
    /\ Unlock
    /\ UNCHANGED <<disk, mounted, got, reach>>

(***************************************************************************)
(* sb_bread fails.  The deferred write gives up and keeps the indices,     *)
(* though it may have overwritten some blocks; the user's write settles    *)
(* for what it has copied.                                                 *)
(***************************************************************************)
internal_write_abort(w) ==
    /\ w \in Workers /\ mutex = w /\ copied # len
    /\ reach' = Longest(circular_buffer_end + copied)
    /\ Unlock
    /\ UNCHANGED <<circular_buffer_start, circular_buffer_end, disk, mounted, off, got>>

logfilefs_write_short(f) ==
    /\ f \in Files /\ mutex = f /\ copied # len
    /\ Advance(copied)
    /\ off' = [off EXCEPT ![f] = circular_buffer_end']
    /\ Unlock
    /\ UNCHANGED <<disk, mounted, got, reach>>

(***************************************************************************)
(* copy_from_user copies m bytes of the chunk and clears the rest of it;   *)
(* the write settles for the m bytes.                                      *)
(***************************************************************************)
logfilefs_write_fault(f, m) ==
    LET x == circular_buffer_end + copied
        delta == InBlock(x, len - copied)
    IN  /\ f \in Files /\ mutex = f /\ copied # len /\ m < delta
        /\ disk' = Stored(x, m, delta - m)
        /\ reach' = Longest(x + delta)
        /\ Advance(copied + m)
        /\ off' = [off EXCEPT ![f] = circular_buffer_end']
        /\ Unlock
        /\ UNCHANGED <<mounted, got>>

(* A clean block leaves the buffer cache; the next sb_bread finds what the *)
(* device holds.                                                           *)
reclaim(b) ==
    /\ disk' = [p \in Positions |-> IF p \div B = b THEN Gone ELSE disk[p]]
    /\ UNCHANGED <<circular_buffer_start, circular_buffer_end, mounted, mutex, len, copied,
                   off, got, reach>>

-----------------------------------------------------------------------------
(***************************************************************************)
(* onefilefs_read of n bytes: from the file's position, or the oldest byte *)
(* left, at most to the end of the log, of the ring and of the block.      *)
(***************************************************************************)
\* A position that the writers have overtaken is used as it is.
ReadFrom_overtaken(f) == off[f]

ReadFrom(f) == IF off[f] < circular_buffer_start THEN circular_buffer_start ELSE off[f]

\* At the end of the ring the part behind the wrap is taken for the part before.
ReadLen_behind_wrap(f, n) ==
    LET x == ReadFrom(f)
        upToEnd == IF x + n > circular_buffer_end THEN circular_buffer_end - x ELSE n
        upToRing == IF At(x + upToEnd) < At(x) THEN At(x + upToEnd) ELSE upToEnd
    IN  InBlock(x, upToRing)

ReadLen(f, n) ==
    LET x == ReadFrom(f)
        upToEnd == IF x + n > circular_buffer_end THEN circular_buffer_end - x ELSE n
        upToRing == IF At(x + upToEnd) < At(x) THEN N - At(x) ELSE upToEnd
    IN  InBlock(x, upToRing)

(* copy_to_user may leave some bytes uncopied. *)
read_bytes(f, n, uncopied) ==
    LET x == ReadFrom(f)
        m == ReadLen(f, n) - uncopied
    IN  /\ mutex = Free /\ mounted
        /\ x < circular_buffer_end /\ uncopied <= ReadLen(f, n)
        /\ got' = [got EXCEPT ![f] =
                      [from |-> x, bytes |-> [i \in 1 .. m |-> disk[At(x) + (i - 1)]]]]
        /\ off' = [off EXCEPT ![f] = x + m]
        /\ UNCHANGED <<circular_buffer_start, circular_buffer_end, disk, mounted, mutex,
                       len, copied, reach>>

(* At the end of the log, or when sb_bread fails.  The position catches up *)
(* with the oldest byte in either case.                                    *)
read_nothing(f) ==
    /\ mutex = Free /\ mounted
    /\ got' = [got EXCEPT ![f] = [from |-> ReadFrom(f), bytes |-> <<>>]]
    /\ off' = [off EXCEPT ![f] = ReadFrom(f)]
    /\ UNCHANGED <<circular_buffer_start, circular_buffer_end, disk, mounted, mutex,
                   len, copied, reach>>

Next ==
    \/ \E w \in Workers, n \in 0 .. MaxLen : internal_write_begin(w, n)
    \/ \E f \in Files, n \in 0 .. MaxLen : logfilefs_write_begin(f, n)
    \/ \E a \in Workers \cup Files : write_chunk(a)
    \/ \E w \in Workers : internal_write_unmounted(w)
    \/ \E w \in Workers : internal_write_commit(w) \/ internal_write_abort(w)
    \/ \E f \in Files : logfilefs_write_commit(f) \/ logfilefs_write_short(f)
    \/ \E f \in Files, m \in 0 .. MaxLen : logfilefs_write_fault(f, m)
    \/ \E f \in Files, n \in 0 .. MaxLen, u \in 0 .. MaxLen : read_bytes(f, n, u)
    \/ \E f \in Files : read_nothing(f)
    \/ \E b \in Blocks : reclaim(b)

Spec == Init /\ [][Next]_vars

-----------------------------------------------------------------------------
TypeOK ==
    /\ circular_buffer_start \in Nat /\ circular_buffer_end \in Nat
    /\ disk \in [Positions -> Int]
    /\ mounted \in BOOLEAN
    /\ mutex \in Workers \cup Files \cup {Free}
    /\ len \in Nat /\ copied \in 0 .. len
    /\ off \in [Files -> Nat]
    /\ got \in [Files -> [from : Nat, bytes : Seq(Int)]]
    /\ reach \in Nat

(***************************************************************************)
(* The readable window is the last N bytes of the log, or all of it while  *)
(* it is shorter (the two ways start is advanced in both writes).          *)
(***************************************************************************)
WindowIsLastN ==
    circular_buffer_start = IF circular_buffer_end > N THEN circular_buffer_end - N ELSE 0

(***************************************************************************)
(* Between writes, every readable offset holds its own byte as long as its *)
(* block stays in the cache, but for the oldest ones that a write which    *)
(* was given up has overwritten: none once the log has grown as far as     *)
(* that write reached (file.c:184, :189).                                  *)
(***************************************************************************)
DamageConfined ==
    mutex = Free =>
        \A x \in circular_buffer_start .. circular_buffer_end - 1 :
            x >= reach - N => disk[At(x)] \in {x, Gone}

(***************************************************************************)
(* A read returns consecutive bytes of the log from where it started, each *)
(* its own unless its block had been reclaimed, with the same exception    *)
(* (onefilefs_read's three limits and the writes around).                  *)
(***************************************************************************)
ReadsAreConsecutive ==
    \A f \in Files : \A i \in DOMAIN got[f].bytes :
        LET x == got[f].from + (i - 1)
        IN  got[f].bytes[i] \in {x, Gone} \/ x < reach - N

(***************************************************************************)
(* A read that asks for something before the end of the log is never cut   *)
(* down to nothing, which its caller would take for the end of the file.   *)
(***************************************************************************)
NoFalseEnd ==
    \A f \in Files, n \in 1 .. MaxLen :
        ReadFrom(f) < circular_buffer_end => ReadLen(f, n) \in 1 .. n
=============================================================================
