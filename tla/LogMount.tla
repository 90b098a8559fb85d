------------------------------ MODULE LogMount ------------------------------
(***************************************************************************)
(* lib/logfs/logfilefs_src.c: how the log file system is mounted and       *)
(* unmounted, and what that means for the writers of file.c, which take    *)
(* the superblock and the indices from globals.  The file system is        *)
(* written for one mount at a time and keeps its state in mounted,         *)
(* singleton_sb, circular_buffer_start and circular_buffer_end.            *)
(*                                                                         *)
(* fill_super and kill_sb change the globals under sb_lock or under no     *)
(* lock; the writers use them under log_file_mutex.  The kernel calls      *)
(* kill_sb for an unmount and also for a superblock that fill_super has    *)
(* refused.                                                                *)
(*                                                                         *)
(* Lengths and indices count blocks here; bytes are LogRing's subject.  No *)
(* buffer is ever marked dirty: what kill_sb stores in block 1 lives in    *)
(* the buffer cache, and the device itself keeps what logfilemakefs wrote. *)
(* A device's superblock is none, new, mounted, dying or lost.             *)
(*                                                                         *)
(* A mounter's program counter:                                            *)
(*   idle      not in mount(2) or umount(2)                                *)
(*   check, inode, publish            in fill_super                        *)
(*   lock, clear, unlock, free        in kill_sb                           *)
(*   dead      stopped by a fault of its own                               *)
(***************************************************************************)
EXTENDS Naturals, FiniteSets

CONSTANTS Devices, Null,
          Foreign,     \* devices that may hold no log file system
          Faults,      \* [device -> the reads of it that may fail]
          Mounters,    \* tasks in mount(2) or umount(2)
          Writers,     \* deferred log work
          Users,       \* processes with the log file open for writing
          Free, Unset,
          N,           \* file_size
          MaxLen       \* longest record

ASSUME MountActorsAssumption ==
    /\ Null \notin Devices /\ Unset \notin Devices \cup {Null}
    /\ Free \notin Mounters \cup Writers \cup Users /\ Writers \cap Users = {}
    /\ Foreign \subseteq Devices
    /\ Faults \in [Devices -> SUBSET {"super", "inode", "memory", "data"}]
ASSUME MountRingAssumption == N \in Nat \ {0} /\ MaxLen \in Nat

VARIABLES mounted, singleton_sb,
          sb_lock,         \* its holder
          indices,         \* <<circular_buffer_start, circular_buffer_end>>
          buffer,          \* [device -> the indices in its cached block 1]
          foreign,         \* devices that hold no log file system
          superblock,      \* [device -> what the kernel has of its superblock]
          mpc, mdev,       \* [mounter -> where it is, the device it works on]
          opened,          \* devices whose log file is open
          mutex,           \* holder of log_file_mutex
          left, copied,    \* blocks of the record to write, written
          target,          \* the superblock that the current sb_bread was given
          crashed,         \* tasks that followed a bad superblock pointer
          own              \* history: [device -> how far its own log has got], or
                           \* Unset: two devices at a time, an unmount under a
                           \* write, or a block 1 that could not be read

globals == <<mounted, singleton_sb, sb_lock, indices>>
mountVars == <<mpc, mdev, superblock, buffer, foreign>>
writeVars == <<mutex, left, copied, target, crashed>>
fsVars == <<globals, mountVars, opened, writeVars, own>>

Fresh == <<0, 0>>     \* as logfilemakefs leaves block 1

(* Nothing is mounted; no device's block 1 differs from what is cached. *)
FsInit ==
    /\ mounted = FALSE /\ singleton_sb = Null /\ sb_lock = Free
    /\ indices = Fresh
    /\ buffer = [d \in Devices |-> Fresh]
    /\ foreign \in SUBSET Foreign
    /\ superblock = [d \in Devices |-> "none"]
    /\ mpc = [m \in Mounters |-> "idle"] /\ mdev = [m \in Mounters |-> Null]
    /\ opened = {}
    /\ mutex = Free /\ left = 0 /\ copied = 0 /\ target = Unset /\ crashed = {}
    /\ own = [d \in Devices |-> Fresh]

Goto(m, l) == mpc' = [mpc EXCEPT ![m] = l]
Return(m) == Goto(m, "idle") /\ mdev' = [mdev EXCEPT ![m] = Null]
Becomes(m, s) == superblock' = [superblock EXCEPT ![mdev[m]] = s]

-----------------------------------------------------------------------------
(***************************************************************************)
(* singlefilefs_mount, by mount_bdev: a device whose superblock exists     *)
(* already is shared and none of this code runs; else fill_super runs.     *)
(***************************************************************************)
mount(m, d) ==
    /\ mpc[m] = "idle" /\ superblock[d] = "none"
    /\ Goto(m, "check") /\ mdev' = [mdev EXCEPT ![m] = d]
    /\ superblock' = [superblock EXCEPT ![d] = "new"]
    /\ own' = IF \A e \in Devices : superblock[e] = "none" THEN own ELSE Unset
    /\ UNCHANGED <<globals, buffer, foreign, opened, writeVars>>

(* fill_super fails: deactivate_locked_super calls kill_sb. *)
Refuse(m) == Goto(m, "lock") /\ Becomes(m, "dying")

fill_busy(m) ==
    /\ mpc[m] = "check" /\ mounted
    /\ Refuse(m)
    /\ UNCHANGED <<globals, mdev, buffer, foreign, opened, writeVars, own>>

(* The test behind the first sb_bread is of sb, not of bh. *)
fill_super_unreadable(m) ==
    /\ mpc[m] = "check" /\ ~mounted /\ "super" \in Faults[mdev[m]]
    /\ Goto(m, "dead") /\ crashed' = crashed \cup {m}
    /\ UNCHANGED <<globals, mdev, superblock, buffer, foreign, opened, mutex, left, copied, target, own>>

fill_foreign(m) ==
    /\ mpc[m] = "check" /\ ~mounted /\ mdev[m] \in foreign
    /\ Refuse(m)
    /\ UNCHANGED <<globals, mdev, buffer, foreign, opened, writeVars, own>>

fill_magic(m) ==
    /\ mpc[m] = "check" /\ ~mounted /\ mdev[m] \notin foreign
    /\ Goto(m, "inode")
    /\ UNCHANGED <<globals, mdev, superblock, buffer, foreign, opened, writeVars, own>>

fill_inode_unreadable(m) ==
    /\ mpc[m] = "inode" /\ "inode" \in Faults[mdev[m]]
    /\ Refuse(m)
    /\ own' = Unset
    /\ UNCHANGED <<globals, mdev, buffer, foreign, opened, writeVars>>

(* The globals take the device's indices, under no lock. *)
fill_indices(m) ==
    /\ mpc[m] = "inode"
    /\ indices' = buffer[mdev[m]]
    /\ Goto(m, "publish")
    /\ UNCHANGED <<mounted, singleton_sb, sb_lock, mdev, superblock, buffer, foreign, opened,
                   writeVars, own>>

(* No root inode or no root dentry. *)
fill_nomem(m) ==
    /\ mpc[m] = "publish" /\ "memory" \in Faults[mdev[m]]
    /\ Refuse(m)
    /\ UNCHANGED <<globals, mdev, buffer, foreign, opened, writeVars, own>>

fill_publish(m) ==
    /\ mpc[m] = "publish" /\ sb_lock = Free
    /\ singleton_sb' = mdev[m] /\ mounted' = TRUE
    /\ Return(m) /\ Becomes(m, "mounted")
    /\ UNCHANGED <<sb_lock, indices, buffer, foreign, opened, writeVars, own>>

-----------------------------------------------------------------------------
(* umount(2) of a file system none of whose files is open. *)
umount(m, d) ==
    /\ mpc[m] = "idle" /\ superblock[d] = "mounted" /\ d \notin opened
    /\ Goto(m, "lock") /\ mdev' = [mdev EXCEPT ![m] = d]
    /\ superblock' = [superblock EXCEPT ![d] = "dying"]
    /\ own' = IF mutex = Free THEN own ELSE Unset
    /\ UNCHANGED <<globals, buffer, foreign, opened, writeVars>>

(***************************************************************************)
(* singlefilefs_kill_superblock.                                           *)
(***************************************************************************)
(* Block 1 cannot be read: it returns with sb_lock held and the globals as *)
(* they are.  The kernel drops the superblock, which kill_block_super has  *)
(* not shut down: the device can not be mounted again.                     *)
kill_unreadable(m) ==
    /\ mpc[m] = "lock" /\ sb_lock = Free /\ "inode" \in Faults[mdev[m]]
    /\ sb_lock' = m
    /\ Return(m) /\ Becomes(m, "lost")
    /\ own' = Unset
    /\ UNCHANGED <<mounted, singleton_sb, indices, buffer, foreign, opened, writeVars>>

\* Only one of the two indices is stored.
kill_store_end_only(m) ==
    /\ mpc[m] = "lock" /\ sb_lock = Free
    /\ sb_lock' = m
    /\ buffer' = [buffer EXCEPT ![mdev[m]] = <<@[1], indices[2]>>]
    /\ Goto(m, "clear")
    /\ UNCHANGED <<mounted, singleton_sb, indices, mdev, superblock, foreign, opened, writeVars, own>>

kill_store(m) ==
    /\ mpc[m] = "lock" /\ sb_lock = Free
    /\ sb_lock' = m
    /\ buffer' = [buffer EXCEPT ![mdev[m]] = indices]
    /\ Goto(m, "clear")
    /\ UNCHANGED <<mounted, singleton_sb, indices, mdev, superblock, foreign, opened, writeVars, own>>

\* singleton_sb is left to the next mount.
kill_clear_not(m) ==
    /\ mpc[m] = "clear"
    /\ Goto(m, "unlock")
    /\ UNCHANGED <<globals, mdev, superblock, buffer, foreign, opened, writeVars, own>>

kill_clear(m) ==
    /\ mpc[m] = "clear"
    /\ singleton_sb' = Null
    /\ Goto(m, "unlock")
    /\ UNCHANGED <<mounted, sb_lock, indices, mdev, superblock, buffer, foreign, opened, writeVars, own>>

\* The lock is kept on the way out.
kill_unlock_not(m) ==
    /\ mpc[m] = "unlock"
    /\ mounted' = FALSE
    /\ Goto(m, "free")
    /\ UNCHANGED <<singleton_sb, sb_lock, indices, mdev, superblock, buffer, foreign, opened,
                   writeVars, own>>

kill_unlock(m) ==
    /\ mpc[m] = "unlock"
    /\ mounted' = FALSE /\ sb_lock' = Free
    /\ Goto(m, "free")
    /\ UNCHANGED <<singleton_sb, indices, mdev, superblock, buffer, foreign, opened, writeVars, own>>

(* kill_block_super. *)
kill_free(m) ==
    /\ mpc[m] = "free"
    /\ Return(m) /\ Becomes(m, "none")
    /\ UNCHANGED <<globals, buffer, foreign, opened, writeVars, own>>

(* The cached block 1 of an unmounted device goes, at the latest when the  *)
(* last user of the device closes it: the device has the old one.  While   *)
(* it has a superblock, that comes to the same as before or after.         *)
evict(d) ==
    /\ superblock[d] = "none" /\ buffer[d] # Fresh
    /\ buffer' = [buffer EXCEPT ![d] = Fresh]
    /\ own' = IF own = Unset THEN own ELSE [own EXCEPT ![d] = Fresh]
    /\ UNCHANGED <<globals, mpc, mdev, superblock, foreign, opened, writeVars>>

-----------------------------------------------------------------------------
(* The log file is opened and closed: an open file keeps its superblock.   *)
open_log(d) ==
    /\ superblock[d] = "mounted" /\ d \notin opened
    /\ opened' = opened \cup {d}
    /\ UNCHANGED <<globals, mountVars, writeVars, own>>

close_log(d) ==
    /\ d \in opened /\ (mutex \in Users => mutex \in crashed)
    /\ opened' = opened \ {d}
    /\ UNCHANGED <<globals, mountVars, writeVars, own>>

(***************************************************************************)
(* internal_logfilefs_write tests mounted with the mutex held, but without *)
(* sb_lock; logfilefs_write relies on its open file.  Both then pass       *)
(* singleton_sb to sb_bread for every block.                               *)
(***************************************************************************)
write_begin(w, n) ==
    /\ mutex = Free /\ w \notin crashed
    /\ mutex' = w /\ left' = n /\ copied' = 0
    /\ own' = IF \A d \in Devices : superblock[d] # "dying" THEN own ELSE Unset
    /\ UNCHANGED <<globals, mountVars, opened, target, crashed>>

internal_write_begin(w, n) == w \in Writers /\ mounted /\ n > 0 /\ write_begin(w, n)

(* No log is mounted: the record is dropped. *)
internal_write_unmounted(w) ==
    /\ w \in Writers /\ mutex = Free /\ ~mounted
    /\ UNCHANGED fsVars

logfilefs_write_begin(u, n) == u \in Users /\ opened # {} /\ n > 0 /\ write_begin(u, n)

write_load(a) ==
    /\ mutex = a /\ left > 0 /\ target = Unset
    /\ target' = singleton_sb
    /\ UNCHANGED <<globals, mountVars, opened, mutex, left, copied, crashed, own>>

(* A null pointer, or one to a superblock that the kernel has freed.       *)
BadTarget == target = Null \/ (target \in Devices /\ superblock[target] \in {"none", "lost"})

(* sb_bread follows the bad pointer and its task dies, mutex in hand ...   *)
write_crash(a) ==
    /\ mutex = a /\ a \notin crashed /\ BadTarget
    /\ crashed' = crashed \cup {a}
    /\ UNCHANGED <<globals, mountVars, opened, mutex, left, copied, target, own>>

\* The length that is left in the block is taken for 0: the loop gets no further.
write_chunk_of_nothing(a) ==
    /\ mutex = a /\ a \notin crashed /\ target \in Devices
    /\ target' = Unset
    /\ UNCHANGED <<globals, mountVars, opened, mutex, left, copied, crashed, own>>

(* ... or freed memory still holds the old superblock, and it goes well.   *)
write_chunk(a) ==
    /\ mutex = a /\ a \notin crashed /\ target \in Devices
    /\ left' = left - 1 /\ copied' = copied + 1 /\ target' = Unset
    /\ UNCHANGED <<globals, mountVars, opened, mutex, crashed, own>>

Unlock == mutex' = Free /\ left' = 0 /\ copied' = 0 /\ target' = Unset

(* file.c's window, see LogRing's Advance. *)
Advance(n) ==
    LET start == indices[1]
        end == indices[2]
    IN  /\ indices' = << IF end >= N THEN start + n
                         ELSE IF end + n >= N THEN start + (end + n - N) ELSE start,
                         end + n >>
        /\ own' = IF Unset = own \/ singleton_sb = Null THEN own
                  ELSE [own EXCEPT ![singleton_sb] = indices']

write_commit(a) ==
    /\ mutex = a /\ left = 0
    /\ Advance(copied)
    /\ Unlock
    /\ UNCHANGED <<mounted, singleton_sb, sb_lock, mountVars, opened, crashed>>

Unreadable == target \in Devices /\ "data" \in Faults[target]

internal_write_abort(w) ==
    /\ w \in Writers /\ mutex = w /\ w \notin crashed /\ Unreadable
    /\ Unlock
    /\ UNCHANGED <<globals, mountVars, opened, crashed, own>>

logfilefs_write_short(u) ==
    /\ u \in Users /\ mutex = u /\ u \notin crashed /\ Unreadable
    /\ Advance(copied)
    /\ Unlock
    /\ UNCHANGED <<mounted, singleton_sb, sb_lock, mountVars, opened, crashed>>

-----------------------------------------------------------------------------
(* What a mounter does next, apart from taking sb_lock. *)
Mounting(m) ==
    \/ fill_busy(m) \/ fill_super_unreadable(m) \/ fill_foreign(m) \/ fill_magic(m)
    \/ fill_inode_unreadable(m) \/ fill_indices(m) \/ fill_nomem(m)
    \/ kill_clear(m) \/ kill_unlock(m) \/ kill_free(m)

(* What it does with sb_lock just taken, in fill_super and in kill_sb. *)
Locking(m) == fill_publish(m) \/ kill_unreadable(m) \/ kill_store(m)

(* What the holder of log_file_mutex does until it gives it back. *)
Writing(a) == write_load(a) \/ write_crash(a) \/ write_chunk(a)

FsTypeOK ==
    /\ mounted \in BOOLEAN /\ singleton_sb \in Devices \cup {Null}
    /\ sb_lock \in Mounters \cup {Free}
    /\ indices \in Nat \X Nat /\ buffer \in [Devices -> Nat \X Nat]
    /\ foreign \subseteq Devices
    /\ superblock \in [Devices -> {"none", "new", "mounted", "dying", "lost"}]
    /\ mpc \in [Mounters -> {"idle", "check", "inode", "publish", "lock", "clear",
                              "unlock", "free", "dead"}]
    /\ mdev \in [Mounters -> Devices \cup {Null}]
    /\ opened \subseteq Devices
    /\ mutex \in Writers \cup Users \cup {Free}
    /\ left \in Nat /\ copied \in Nat /\ target \in Devices \cup {Null, Unset}
    /\ crashed \subseteq Mounters \cup Writers \cup Users
    /\ own = Unset \/ own \in [Devices -> Nat \X Nat]
=============================================================================
