---------------------------- MODULE LoggerProofs ----------------------------
(***************************************************************************)
(* Theorems about Logger and the LogMount below it, for any devices with   *)
(* any faults, any mounters and users and finitely many writers.           *)
(*                                                                         *)
(* FsInv is the invariant of the file system's life cycle, LogInv the part *)
(* of it that says where each device's log is while own is defined, and    *)
(* WorkInv that of the deferred work.                                      *)
(***************************************************************************)
EXTENDS Logger, FiniteSetTheorems, TLAPS

Filling == {"check", "inode", "publish", "dead"}
Killing == {"lock", "clear", "unlock", "free"}

(* A mounter has a device of its own, whose superblock is as far as it is. *)
Working ==
    \A m \in Mounters : mpc[m] # "idle" =>
        /\ mdev[m] \in Devices
        /\ mpc[m] \in Filling => superblock[mdev[m]] = "new"
        /\ mpc[m] \in Killing => superblock[mdev[m]] = "dying"
        /\ \A n \in Mounters \ {m} : mpc[n] # "idle" => mdev[n] # mdev[m]

(* singleton_sb has been cleared, and only other mounters set it again. *)
Cleared == \A m \in Mounters : mpc[m] \in {"unlock", "free"} => singleton_sb # mdev[m]

(* Blocks are being written only under the mutex and while some are left. *)
InWrite == (mutex = Free => target = Unset) /\ (target # Unset => left > 0)

OpenMounted == \A d \in opened : superblock[d] = "mounted"

MountedAreLogs ==
    /\ \A m \in Mounters : mpc[m] \in {"inode", "publish"} => mdev[m] \notin foreign
    /\ \A d \in Devices : superblock[d] = "mounted" => d \notin foreign

-----------------------------------------------------------------------------
(* One device at a time has a superblock. *)
Alone ==
    \A d, e \in Devices : superblock[d] # "none" /\ superblock[e] # "none" => d = e

(* mounted is true from the end of fill_super to the end of kill_sb. *)
MountedInTime ==
    mounted => \/ \E d \in Devices : superblock[d] = "mounted"
               \/ \E m \in Mounters : mpc[m] \in {"lock", "clear", "unlock"}

GlobalsOfMounted ==
    \A d \in Devices :
        superblock[d] = "mounted" => mounted /\ singleton_sb = d /\ indices = own[d]

(* The log's own indices are in the cached block 1 before fill_super has   *)
(* read it and after kill_sb has stored it, and in the globals in between. *)
IndicesKept ==
    /\ \A d \in Devices \ foreign :
           superblock[d] \in {"none", "new"} => buffer[d] = own[d]
    /\ \A m \in Mounters :
           /\ mpc[m] = "publish" => indices = own[mdev[m]]
           /\ mdev[m] \notin foreign =>
                  /\ mpc[m] = "lock" => indices = own[mdev[m]]
                  /\ mpc[m] \in {"clear", "unlock", "free"} => buffer[mdev[m]] = own[mdev[m]]

WritesMounted ==
    mutex # Free =>
        /\ \E d \in Devices : superblock[d] = "mounted"
        /\ target # Unset => target \in Devices /\ superblock[target] = "mounted"

LogParts ==
    /\ Alone /\ MountedInTime /\ GlobalsOfMounted /\ IndicesKept /\ WritesMounted
    /\ crashed \subseteq Mounters

LogInv == own # Unset => LogParts

FsInv ==
    /\ FsTypeOK /\ Working /\ Cleared /\ NoDanglingSuperblock /\ InWrite
    /\ OpenMounted /\ MountedAreLogs /\ LogInv

-----------------------------------------------------------------------------
(* The memory of a record at each stage of its work. *)
MemoryAt(s) ==
    CASE s = "none" -> {}
      [] s = "queued" -> {"work", "fullpathname"}
      [] s = "dump" -> {"work", "fullpathname", "log", "content"}
      [] s = "done" -> {"work", "fullpathname", "content"}
      [] s = "leaving" -> {"content"}

WorkTypeOK ==
    /\ loaded \in BOOLEAN /\ holds \in Nat
    /\ stage \in [Writers -> {"none", "queued", "dump", "done", "leaving"}]
    /\ memory \in [Writers -> SUBSET {"work", "fullpathname", "log", "content", "tfm"}]

WorkInv ==
    /\ WorkTypeOK
    /\ holds = Cardinality(InFlight)
    /\ ~loaded => InFlight = {}
    /\ mutex \in Writers => stage[mutex] = "dump"
    /\ \A w \in Writers : memory[w] \subseteq MemoryAt(stage[w])

IInv == FsInv /\ WorkInv

-----------------------------------------------------------------------------
(* Every step of the file system keeps FsInv, one lemma per action. *)

(* A new superblock: if another device has one, own is Unset from here on. *)
LEMMA MountKeeps ==
    ASSUME FsInv, NEW m \in Mounters, NEW d \in Devices, mount(m, d)
    PROVE  FsInv'
<1>1. FsTypeOK'
  BY DEF FsInv, mount, Goto, FsTypeOK, globals, writeVars
<1>2. Working'
  BY DEF FsInv, mount, Goto, Working, FsTypeOK, Filling, Killing
<1>3. Cleared'
  BY DEF FsInv, mount, Goto, Cleared, globals
<1>4. NoDanglingSuperblock'
  BY DEF FsInv, mount, Goto, NoDanglingSuperblock, globals
<1>5. OpenMounted'
  BY DEF FsInv, mount, Goto, OpenMounted
<1>6. MountedAreLogs'
  BY DEF FsInv, mount, Goto, MountedAreLogs
<1>7. InWrite'
  BY DEF FsInv, mount, Goto, InWrite, writeVars
<1>8. LogInv'
  <2> SUFFICES ASSUME own' # Unset PROVE LogParts'
    BY DEF LogInv
  <2>1. Alone'
    BY DEF FsInv, mount, Goto, LogInv, LogParts, Alone
  <2>2. MountedInTime'
    BY DEF FsInv, mount, Goto, LogInv, LogParts, MountedInTime, globals
  <2>3. GlobalsOfMounted'
    BY DEF FsInv, mount, Goto, LogInv, LogParts, GlobalsOfMounted
  <2>4. IndicesKept'
    BY DEF FsInv, mount, Goto, LogInv, LogParts, IndicesKept, globals
  <2>5. WritesMounted'
    BY DEF FsInv, mount, Goto, LogInv, LogParts, WritesMounted, writeVars
  <2>6. (crashed \subseteq Mounters)'
    BY DEF FsInv, mount, Goto, LogInv, LogParts, writeVars
  <2> QED
    BY <2>1, <2>2, <2>3, <2>4, <2>5, <2>6 DEF LogParts
<1> QED
  BY <1>1, <1>2, <1>3, <1>4, <1>5, <1>6, <1>7, <1>8 DEF FsInv

(* A refused mount while another device is mounted: own is Unset already. *)
LEMMA FillBusyKeeps ==
    ASSUME FsInv, NEW m \in Mounters, fill_busy(m)
    PROVE  FsInv'
<1>1. FsTypeOK'
  BY DEF FsInv, fill_busy, Refuse, Becomes, Goto, FsTypeOK, Working, globals,
     writeVars
<1>2. Working'
  BY DEF FsInv, fill_busy, Refuse, Becomes, Goto, Working, FsTypeOK, Filling
<1>3. Cleared'
  BY DEF FsInv, fill_busy, Refuse, Becomes, Goto, Cleared, globals
<1>4. NoDanglingSuperblock'
  BY DEF FsInv, fill_busy, Refuse, Becomes, Goto, NoDanglingSuperblock, globals
<1>5. OpenMounted'
  BY DEF FsInv, fill_busy, Refuse, Becomes, Goto, OpenMounted, Working, Filling
<1>6. MountedAreLogs'
  BY DEF FsInv, fill_busy, Refuse, Becomes, Goto, MountedAreLogs
<1>7. InWrite'
  BY DEF FsInv, fill_busy, Refuse, Becomes, Goto, InWrite, writeVars
<1>8. LogInv'
  <2> SUFFICES ASSUME own' # Unset PROVE LogParts'
    BY DEF LogInv
  <2>1. Alone'
    BY DEF FsInv, fill_busy, Refuse, Becomes, Goto, LogInv, LogParts, Alone,
       Working, Filling
  <2>2. MountedInTime'
    BY DEF FsInv, fill_busy, Refuse, Becomes, Goto, LogInv, LogParts,
       MountedInTime, Working, Filling
  <2>3. GlobalsOfMounted'
    BY DEF FsInv, fill_busy, Refuse, Becomes, Goto, LogInv, LogParts,
       GlobalsOfMounted, globals
  <2>4. IndicesKept'
    BY DEF FsInv, fill_busy, Refuse, Becomes, Goto, LogInv, LogParts,
       IndicesKept, Working, Filling, Killing, Alone, MountedInTime
  <2>5. WritesMounted'
    BY DEF FsInv, fill_busy, Refuse, Becomes, Goto, LogInv, LogParts,
       WritesMounted, Working, Filling, writeVars
  <2>6. (crashed \subseteq Mounters)'
    BY DEF FsInv, fill_busy, Refuse, Becomes, Goto, LogInv, LogParts, writeVars
  <2> QED
    BY <2>1, <2>2, <2>3, <2>4, <2>5, <2>6 DEF LogParts
<1> QED
  BY <1>1, <1>2, <1>3, <1>4, <1>5, <1>6, <1>7, <1>8 DEF FsInv

(* The task dies with its superblock left new. *)
LEMMA FillSuperUnreadableKeeps ==
    ASSUME FsInv, NEW m \in Mounters, fill_super_unreadable(m)
    PROVE  FsInv'
<1>1. FsTypeOK'
  BY DEF FsInv, fill_super_unreadable, Goto, FsTypeOK, globals
<1>2. Working'
  BY DEF FsInv, fill_super_unreadable, Goto, Working, Filling, Killing
<1>3. Cleared'
  BY DEF FsInv, fill_super_unreadable, Goto, Cleared, globals
<1>4. MountedAreLogs'
  BY DEF FsInv, fill_super_unreadable, Goto, MountedAreLogs
<1>5. (NoDanglingSuperblock /\ InWrite /\ OpenMounted)'
  BY DEF FsInv, fill_super_unreadable, Goto, NoDanglingSuperblock, InWrite,
     OpenMounted, globals
<1>6. LogInv'
  <2> SUFFICES ASSUME own' # Unset PROVE LogParts'
    BY DEF LogInv
  <2>1. MountedInTime'
    BY DEF FsInv, fill_super_unreadable, Goto, LogInv, LogParts, MountedInTime,
       globals
  <2>2. IndicesKept'
    BY DEF FsInv, fill_super_unreadable, Goto, LogInv, LogParts, IndicesKept,
       globals
  <2>3. (crashed \subseteq Mounters)'
    BY DEF FsInv, fill_super_unreadable, Goto, LogInv, LogParts
  <2>4. (Alone /\ GlobalsOfMounted /\ WritesMounted)'
    BY DEF FsInv, fill_super_unreadable, Goto, LogInv, LogParts, Alone,
       GlobalsOfMounted, WritesMounted
  <2> QED
    BY <2>1, <2>2, <2>3, <2>4 DEF LogParts
<1> QED
  BY <1>1, <1>2, <1>3, <1>4, <1>5, <1>6 DEF FsInv

(* A refused device that holds no log: its block 1 is of no account. *)
LEMMA FillForeignKeeps ==
    ASSUME FsInv, NEW m \in Mounters, fill_foreign(m)
    PROVE  FsInv'
<1>1. FsTypeOK'
  BY MountActorsAssumption DEF FsInv, fill_foreign, Refuse, Becomes, Goto,
     FsTypeOK, globals, writeVars
<1>2. Working'
  BY DEF FsInv, fill_foreign, Refuse, Becomes, Goto, Working, FsTypeOK, Filling
<1>3. Cleared'
  BY DEF FsInv, fill_foreign, Refuse, Becomes, Goto, Cleared, globals
<1>4. NoDanglingSuperblock'
  BY DEF FsInv, fill_foreign, Refuse, Becomes, Goto, NoDanglingSuperblock,
     globals
<1>5. OpenMounted'
  <2>1. superblock[mdev[m]] # "mounted"
    BY DEF FsInv, fill_foreign, MountedAreLogs, Working, Filling
  <2> QED
    BY <2>1 DEF FsInv, FsTypeOK, fill_foreign, Refuse, Becomes, OpenMounted
<1>6. MountedAreLogs'
  <2>1. foreign' = foreign /\ mdev' = mdev
    BY DEF fill_foreign
  <2>2. \A n \in Mounters : mpc'[n] \in {"inode", "publish"} => mpc[n] \in {"inode", "publish"}
    BY DEF FsInv, FsTypeOK, fill_foreign, Refuse, Goto
  <2>3. \A d \in Devices : superblock'[d] = "mounted" => superblock[d] = "mounted"
    BY DEF FsInv, FsTypeOK, fill_foreign, Refuse, Becomes
  <2> QED
    BY <2>1, <2>2, <2>3 DEF FsInv, MountedAreLogs
<1>7. InWrite'
  BY DEF FsInv, fill_foreign, Refuse, Becomes, Goto, InWrite, writeVars
<1>8. LogInv'
  <2> SUFFICES ASSUME own' # Unset PROVE LogParts'
    BY DEF LogInv
  <2>1. Alone'
    BY DEF FsInv, fill_foreign, Refuse, Becomes, Goto, LogInv, LogParts, Alone,
       Working, Filling
  <2>2. MountedInTime'
    BY DEF FsInv, fill_foreign, Refuse, Becomes, Goto, LogInv, LogParts,
       MountedInTime, globals
  <2>3. GlobalsOfMounted'
    BY DEF FsInv, fill_foreign, Refuse, Becomes, Goto, LogInv, LogParts,
       GlobalsOfMounted
  <2>4. IndicesKept'
    BY DEF FsInv, fill_foreign, Refuse, Becomes, Goto, LogInv, LogParts,
       IndicesKept, globals
  <2>5. WritesMounted'
    BY DEF FsInv, fill_foreign, Refuse, Becomes, Goto, LogInv, LogParts,
       WritesMounted, GlobalsOfMounted, writeVars
  <2>6. (crashed \subseteq Mounters)'
    BY DEF FsInv, fill_foreign, Refuse, Becomes, Goto, LogInv, LogParts,
       writeVars
  <2> QED
    BY <2>1, <2>2, <2>3, <2>4, <2>5, <2>6 DEF LogParts
<1> QED
  BY <1>1, <1>2, <1>3, <1>4, <1>5, <1>6, <1>7, <1>8 DEF FsInv

(* From here the device is known to hold a log. *)
LEMMA FillMagicKeeps ==
    ASSUME FsInv, NEW m \in Mounters, fill_magic(m)
    PROVE  FsInv'
<1>1. FsTypeOK'
  BY DEF FsInv, fill_magic, Goto, FsTypeOK, globals, writeVars
<1>2. Working'
  BY DEF FsInv, fill_magic, Goto, Working, Filling, Killing
<1>3. Cleared'
  BY DEF FsInv, fill_magic, Goto, Cleared, globals
<1>4. MountedAreLogs'
  BY DEF FsInv, fill_magic, Goto, MountedAreLogs
<1>5. (NoDanglingSuperblock /\ InWrite /\ OpenMounted)'
  BY DEF FsInv, fill_magic, Goto, NoDanglingSuperblock, InWrite, OpenMounted,
     globals, writeVars
<1>6. LogInv'
  <2> SUFFICES ASSUME own' # Unset PROVE LogParts'
    BY DEF LogInv
  <2>1. MountedInTime'
    BY DEF FsInv, fill_magic, Goto, LogInv, LogParts, MountedInTime, globals
  <2>2. IndicesKept'
    BY DEF FsInv, fill_magic, Goto, LogInv, LogParts, IndicesKept, globals
  <2>3. (Alone /\ GlobalsOfMounted /\ WritesMounted /\ crashed \subseteq
        Mounters)'
    BY DEF FsInv, fill_magic, Goto, LogInv, LogParts, Alone, GlobalsOfMounted,
       WritesMounted, writeVars
  <2> QED
    BY <2>1, <2>2, <2>3 DEF LogParts
<1> QED
  BY <1>1, <1>2, <1>3, <1>4, <1>5, <1>6 DEF FsInv

(* Block 1 could not be read: own is Unset from here on. *)
LEMMA FillInodeUnreadableKeeps ==
    ASSUME FsInv, NEW m \in Mounters, fill_inode_unreadable(m)
    PROVE  FsInv'
<1>1. FsTypeOK'
  BY DEF FsInv, fill_inode_unreadable, Refuse, Becomes, Goto, FsTypeOK,
     Working, globals, writeVars
<1>2. Working'
  BY DEF FsInv, fill_inode_unreadable, Refuse, Becomes, Goto, Working,
     FsTypeOK, Filling
<1>3. Cleared'
  BY DEF FsInv, fill_inode_unreadable, Refuse, Becomes, Goto, Cleared, globals
<1>4. NoDanglingSuperblock'
  BY DEF FsInv, fill_inode_unreadable, Refuse, Becomes, Goto,
     NoDanglingSuperblock, globals
<1>5. OpenMounted'
  BY DEF FsInv, fill_inode_unreadable, Refuse, Becomes, Goto, OpenMounted,
     Working, Filling
<1>6. MountedAreLogs'
  BY DEF FsInv, fill_inode_unreadable, Refuse, Becomes, Goto, MountedAreLogs
<1>7. InWrite'
  BY DEF FsInv, fill_inode_unreadable, Refuse, Becomes, Goto, InWrite,
     writeVars
<1>8. LogInv'
  BY DEF FsInv, fill_inode_unreadable, Refuse, Becomes, Goto, LogInv
<1> QED
  BY <1>1, <1>2, <1>3, <1>4, <1>5, <1>6, <1>7, <1>8 DEF FsInv

(* The globals take the indices that IndicesKept finds in block 1. *)
LEMMA FillIndicesKeeps ==
    ASSUME FsInv, NEW m \in Mounters, fill_indices(m)
    PROVE  FsInv'
<1>1. FsTypeOK'
  BY DEF FsInv, fill_indices, Goto, FsTypeOK, Working, writeVars
<1>2. Working'
  BY DEF FsInv, fill_indices, Goto, Working, Filling, Killing
<1>3. Cleared'
  BY DEF FsInv, fill_indices, Goto, Cleared
<1>4. MountedAreLogs'
  BY DEF FsInv, fill_indices, Goto, MountedAreLogs
<1>5. (NoDanglingSuperblock /\ InWrite /\ OpenMounted)'
  BY DEF FsInv, fill_indices, Goto, NoDanglingSuperblock, InWrite, OpenMounted,
     writeVars
<1>6. LogInv'
  <2> SUFFICES ASSUME own' # Unset PROVE LogParts'
    BY DEF LogInv
  <2>1. MountedInTime'
    BY DEF FsInv, fill_indices, Goto, LogInv, LogParts, MountedInTime
  <2>2. GlobalsOfMounted'
    BY DEF FsInv, fill_indices, Goto, LogInv, LogParts, GlobalsOfMounted,
       Working, Filling, Alone
  <2>3. IndicesKept'
    BY DEF FsInv, fill_indices, Goto, LogInv, LogParts, IndicesKept, Working,
       Filling, Killing, MountedAreLogs, Alone
  <2>4. (Alone /\ WritesMounted /\ crashed \subseteq Mounters)'
    BY DEF FsInv, fill_indices, Goto, LogInv, LogParts, Alone, WritesMounted,
       writeVars
  <2> QED
    BY <2>1, <2>2, <2>3, <2>4 DEF LogParts
<1> QED
  BY <1>1, <1>2, <1>3, <1>4, <1>5, <1>6 DEF FsInv

(* A refused mount that has taken its indices: kill_sb stores them back. *)
LEMMA FillNomemKeeps ==
    ASSUME FsInv, NEW m \in Mounters, fill_nomem(m)
    PROVE  FsInv'
<1>1. FsTypeOK'
  BY DEF FsInv, fill_nomem, Refuse, Becomes, Goto, FsTypeOK, Working, globals,
     writeVars
<1>2. Working'
  BY DEF FsInv, fill_nomem, Refuse, Becomes, Goto, Working, FsTypeOK, Filling
<1>3. Cleared'
  BY DEF FsInv, fill_nomem, Refuse, Becomes, Goto, Cleared, globals
<1>4. NoDanglingSuperblock'
  BY DEF FsInv, fill_nomem, Refuse, Becomes, Goto, NoDanglingSuperblock,
     globals
<1>5. OpenMounted'
  BY DEF FsInv, fill_nomem, Refuse, Becomes, Goto, OpenMounted, Working,
     Filling
<1>6. MountedAreLogs'
  BY DEF FsInv, fill_nomem, Refuse, Becomes, Goto, MountedAreLogs
<1>7. InWrite'
  BY DEF FsInv, fill_nomem, Refuse, Becomes, Goto, InWrite, writeVars
<1>8. LogInv'
  <2> SUFFICES ASSUME own' # Unset PROVE LogParts'
    BY DEF LogInv
  <2>1. Alone'
    BY DEF FsInv, fill_nomem, Refuse, Becomes, Goto, LogInv, LogParts, Alone,
       Working, Filling
  <2>2. MountedInTime'
    BY DEF FsInv, fill_nomem, Refuse, Becomes, Goto, LogInv, LogParts,
       MountedInTime, Working, Filling, globals
  <2>3. GlobalsOfMounted'
    BY DEF FsInv, fill_nomem, Refuse, Becomes, Goto, LogInv, LogParts,
       GlobalsOfMounted, globals
  <2>4. IndicesKept'
    BY DEF FsInv, fill_nomem, Refuse, Becomes, Goto, LogInv, LogParts,
       IndicesKept, globals
  <2>5. WritesMounted'
    BY DEF FsInv, fill_nomem, Refuse, Becomes, Goto, LogInv, LogParts,
       WritesMounted, Working, Filling, writeVars
  <2>6. (crashed \subseteq Mounters)'
    BY DEF FsInv, fill_nomem, Refuse, Becomes, Goto, LogInv, LogParts,
       writeVars
  <2> QED
    BY <2>1, <2>2, <2>3, <2>4, <2>5, <2>6 DEF LogParts
<1> QED
  BY <1>1, <1>2, <1>3, <1>4, <1>5, <1>6, <1>7, <1>8 DEF FsInv

(* The globals become those of the mounted device. *)
LEMMA FillPublishKeeps ==
    ASSUME FsInv, NEW m \in Mounters, fill_publish(m)
    PROVE  FsInv'
<1>1. FsTypeOK'
  BY DEF FsInv, fill_publish, Return, Becomes, Goto, FsTypeOK, Working,
     writeVars
<1>2. Working'
  BY DEF FsInv, fill_publish, Return, Becomes, Goto, Working, FsTypeOK
<1>3. Cleared'
  BY DEF FsInv, fill_publish, Return, Becomes, Goto, Cleared, Working
<1>4. NoDanglingSuperblock'
  BY DEF FsInv, fill_publish, Return, Becomes, Goto, NoDanglingSuperblock,
     Working, Filling
<1>5. OpenMounted'
  BY DEF FsInv, fill_publish, Return, Becomes, Goto, OpenMounted
<1>6. MountedAreLogs'
  <2>1. foreign' = foreign /\ mpc[m] = "publish" /\ mdev[m] \notin foreign
    BY DEF FsInv, MountedAreLogs, fill_publish
  <2>2. \A n \in Mounters : mpc'[n] \in {"inode", "publish"} =>
            mpc[n] \in {"inode", "publish"} /\ mdev'[n] = mdev[n]
    BY DEF FsInv, FsTypeOK, fill_publish, Return, Goto
  <2>3. \A d \in Devices : superblock'[d] = "mounted" => superblock[d] = "mounted" \/ d = mdev[m]
    BY DEF FsInv, FsTypeOK, fill_publish, Becomes
  <2> QED
    BY <2>1, <2>2, <2>3 DEF FsInv, MountedAreLogs
<1>7. InWrite'
  BY DEF FsInv, fill_publish, Return, Becomes, Goto, InWrite, writeVars
<1>8. LogInv'
  <2> SUFFICES ASSUME own' # Unset PROVE LogParts'
    BY DEF LogInv
  <2>1. Alone'
    BY DEF FsInv, fill_publish, Return, Becomes, Goto, LogInv, LogParts, Alone,
       Working, Filling
  <2>2. MountedInTime'
    BY DEF FsInv, fill_publish, Return, Becomes, Goto, LogInv, LogParts,
       MountedInTime, FsTypeOK, Working
  <2>3. GlobalsOfMounted'
    BY DEF FsInv, fill_publish, Return, Becomes, Goto, LogInv, LogParts,
       GlobalsOfMounted, Working, Filling, Alone, IndicesKept
  <2>4. IndicesKept'
    BY DEF FsInv, fill_publish, Return, Becomes, Goto, LogInv, LogParts,
       IndicesKept, FsTypeOK
  <2>5. WritesMounted'
    BY DEF FsInv, fill_publish, Return, Becomes, Goto, LogInv, LogParts,
       WritesMounted, writeVars
  <2>6. (crashed \subseteq Mounters)'
    BY DEF FsInv, fill_publish, Return, Becomes, Goto, LogInv, LogParts,
       writeVars
  <2> QED
    BY <2>1, <2>2, <2>3, <2>4, <2>5, <2>6 DEF LogParts
<1> QED
  BY <1>1, <1>2, <1>3, <1>4, <1>5, <1>6, <1>7, <1>8 DEF FsInv

(* The indices stay in the globals until kill_sb stores them. *)
LEMMA UmountKeeps ==
    ASSUME FsInv, NEW m \in Mounters, NEW d \in Devices, umount(m, d)
    PROVE  FsInv'
<1>1. FsTypeOK'
  BY DEF FsInv, umount, Goto, FsTypeOK, globals, writeVars
<1>2. Working'
  BY DEF FsInv, umount, Goto, Working, FsTypeOK, Filling, Killing
<1>3. Cleared'
  BY DEF FsInv, umount, Goto, Cleared, globals
<1>4. NoDanglingSuperblock'
  BY DEF FsInv, umount, Goto, NoDanglingSuperblock, globals
<1>5. OpenMounted'
  BY DEF FsInv, umount, Goto, OpenMounted
<1>6. MountedAreLogs'
  BY DEF FsInv, umount, Goto, MountedAreLogs
<1>7. InWrite'
  BY DEF FsInv, umount, Goto, InWrite, writeVars
<1>8. LogInv'
  <2> SUFFICES ASSUME own' # Unset PROVE LogParts'
    BY DEF LogInv
  <2>1. Alone'
    BY DEF FsInv, umount, Goto, LogInv, LogParts, Alone
  <2>2. MountedInTime'
    BY DEF FsInv, umount, Goto, LogInv, LogParts, MountedInTime, FsTypeOK
  <2>3. GlobalsOfMounted'
    BY DEF FsInv, umount, Goto, LogInv, LogParts, GlobalsOfMounted, globals
  <2>4. IndicesKept'
    BY DEF FsInv, umount, Goto, LogInv, LogParts, IndicesKept, FsTypeOK,
       GlobalsOfMounted, globals
  <2>5. WritesMounted'
    BY DEF FsInv, umount, Goto, LogInv, LogParts, WritesMounted, writeVars
  <2>6. (crashed \subseteq Mounters)'
    BY DEF FsInv, umount, Goto, LogInv, LogParts, writeVars
  <2> QED
    BY <2>1, <2>2, <2>3, <2>4, <2>5, <2>6 DEF LogParts
<1> QED
  BY <1>1, <1>2, <1>3, <1>4, <1>5, <1>6, <1>7, <1>8 DEF FsInv

(* kill_sb gives up: own is Unset from here on. *)
LEMMA KillUnreadableKeeps ==
    ASSUME FsInv, NEW m \in Mounters, kill_unreadable(m)
    PROVE  FsInv'
<1>1. FsTypeOK'
  BY DEF FsInv, kill_unreadable, Return, Becomes, Goto, FsTypeOK, Working,
     writeVars
<1>2. Working'
  BY DEF FsInv, kill_unreadable, Return, Becomes, Goto, Working, FsTypeOK
<1>3. Cleared'
  BY DEF FsInv, kill_unreadable, Return, Becomes, Goto, Cleared
<1>4. NoDanglingSuperblock'
  BY DEF FsInv, kill_unreadable, Return, Becomes, Goto, NoDanglingSuperblock
<1>5. OpenMounted'
  BY DEF FsInv, kill_unreadable, Return, Becomes, Goto, OpenMounted, Working,
     Killing
<1>6. MountedAreLogs'
  BY DEF FsInv, kill_unreadable, Return, Becomes, Goto, MountedAreLogs
<1>7. InWrite'
  BY DEF FsInv, kill_unreadable, Return, Becomes, Goto, InWrite, writeVars
<1>8. LogInv'
  BY DEF FsInv, kill_unreadable, Return, Becomes, Goto, LogInv
<1> QED
  BY <1>1, <1>2, <1>3, <1>4, <1>5, <1>6, <1>7, <1>8 DEF FsInv

(* Block 1 takes the indices from the globals. *)
LEMMA KillStoreKeeps ==
    ASSUME FsInv, NEW m \in Mounters, kill_store(m)
    PROVE  FsInv'
<1>1. FsTypeOK'
  BY DEF FsInv, kill_store, Goto, FsTypeOK, Working, writeVars
<1>2. Working'
  BY DEF FsInv, kill_store, Goto, Working, Filling, Killing
<1>3. Cleared'
  BY DEF FsInv, kill_store, Goto, Cleared
<1>4. MountedAreLogs'
  BY DEF FsInv, kill_store, Goto, MountedAreLogs
<1>5. (NoDanglingSuperblock /\ InWrite /\ OpenMounted)'
  BY DEF FsInv, kill_store, Goto, NoDanglingSuperblock, InWrite, OpenMounted,
     writeVars
<1>6. LogInv'
  <2> SUFFICES ASSUME own' # Unset PROVE LogParts'
    BY DEF LogInv
  <2>1. MountedInTime'
    BY DEF FsInv, kill_store, Goto, LogInv, LogParts, MountedInTime
  <2>2. IndicesKept'
    BY DEF FsInv, kill_store, Goto, LogInv, LogParts, IndicesKept, FsTypeOK,
       Working
  <2>3. (Alone /\ GlobalsOfMounted /\ WritesMounted /\ crashed \subseteq
        Mounters)'
    BY DEF FsInv, kill_store, Goto, LogInv, LogParts, Alone, GlobalsOfMounted,
       WritesMounted, writeVars
  <2> QED
    BY <2>1, <2>2, <2>3 DEF LogParts
<1> QED
  BY <1>1, <1>2, <1>3, <1>4, <1>5, <1>6 DEF FsInv

(* singleton_sb lets go of the superblock before it is freed. *)
LEMMA KillClearKeeps ==
    ASSUME FsInv, NEW m \in Mounters, kill_clear(m)
    PROVE  FsInv'
<1>1. FsTypeOK'
  BY DEF FsInv, kill_clear, Goto, FsTypeOK, writeVars
<1>2. Working'
  BY DEF FsInv, kill_clear, Goto, Working, Filling, Killing
<1>3. Cleared'
  BY MountActorsAssumption DEF FsInv, kill_clear, Goto, Cleared, Working
<1>4. NoDanglingSuperblock'
  BY DEF FsInv, kill_clear, Goto, NoDanglingSuperblock
<1>5. MountedAreLogs'
  BY DEF FsInv, kill_clear, Goto, MountedAreLogs
<1>6. (InWrite /\ OpenMounted)'
  BY DEF FsInv, kill_clear, Goto, InWrite, OpenMounted, writeVars
<1>7. LogInv'
  <2> SUFFICES ASSUME own' # Unset PROVE LogParts'
    BY DEF LogInv
  <2>1. MountedInTime'
    BY DEF FsInv, kill_clear, Goto, LogInv, LogParts, MountedInTime
  <2>2. GlobalsOfMounted'
    BY DEF FsInv, kill_clear, Goto, LogInv, LogParts, GlobalsOfMounted,
       Working, Killing, Alone
  <2>3. IndicesKept'
    BY DEF FsInv, kill_clear, Goto, LogInv, LogParts, IndicesKept
  <2>4. (Alone /\ WritesMounted /\ crashed \subseteq Mounters)'
    BY DEF FsInv, kill_clear, Goto, LogInv, LogParts, Alone, WritesMounted,
       writeVars
  <2> QED
    BY <2>1, <2>2, <2>3, <2>4 DEF LogParts
<1> QED
  BY <1>1, <1>2, <1>3, <1>4, <1>5, <1>6, <1>7 DEF FsInv

(* mounted is cleared when nothing is mounted, as long as own is defined. *)
LEMMA KillUnlockKeeps ==
    ASSUME FsInv, NEW m \in Mounters, kill_unlock(m)
    PROVE  FsInv'
<1>1. FsTypeOK'
  BY DEF FsInv, kill_unlock, Goto, FsTypeOK, writeVars
<1>2. Working'
  BY DEF FsInv, kill_unlock, Goto, Working, Filling, Killing
<1>3. Cleared'
  BY DEF FsInv, kill_unlock, Goto, Cleared
<1>4. MountedAreLogs'
  BY DEF FsInv, kill_unlock, Goto, MountedAreLogs
<1>5. (NoDanglingSuperblock /\ InWrite /\ OpenMounted)'
  BY DEF FsInv, kill_unlock, Goto, NoDanglingSuperblock, InWrite, OpenMounted,
     writeVars
<1>6. LogInv'
  <2> SUFFICES ASSUME own' # Unset PROVE LogParts'
    BY DEF LogInv
  <2>1. MountedInTime'
    BY DEF FsInv, kill_unlock, Goto, LogInv, LogParts, MountedInTime
  <2>2. GlobalsOfMounted'
    BY DEF FsInv, kill_unlock, Goto, LogInv, LogParts, GlobalsOfMounted,
       Working, Killing, Alone
  <2>3. IndicesKept'
    BY DEF FsInv, kill_unlock, Goto, LogInv, LogParts, IndicesKept
  <2>4. (Alone /\ WritesMounted /\ crashed \subseteq Mounters)'
    BY DEF FsInv, kill_unlock, Goto, LogInv, LogParts, Alone, WritesMounted,
       writeVars
  <2> QED
    BY <2>1, <2>2, <2>3, <2>4 DEF LogParts
<1> QED
  BY <1>1, <1>2, <1>3, <1>4, <1>5, <1>6 DEF FsInv

(* The superblock is freed: by Cleared, singleton_sb is not it. *)
LEMMA KillFreeKeeps ==
    ASSUME FsInv, NEW m \in Mounters, kill_free(m)
    PROVE  FsInv'
<1>1. FsTypeOK'
  BY DEF FsInv, kill_free, Return, Becomes, Goto, FsTypeOK, Working, globals,
     writeVars
<1>2. Working'
  BY DEF FsInv, kill_free, Return, Becomes, Goto, Working, FsTypeOK
<1>3. Cleared'
  BY DEF FsInv, kill_free, Return, Becomes, Goto, Cleared, FsTypeOK, globals
<1>4. NoDanglingSuperblock'
  BY DEF FsInv, kill_free, Return, Becomes, Goto, NoDanglingSuperblock,
     Cleared, globals
<1>5. OpenMounted'
  BY DEF FsInv, kill_free, Return, Becomes, Goto, OpenMounted, Working, Killing
<1>6. MountedAreLogs'
  BY DEF FsInv, kill_free, Return, Becomes, Goto, MountedAreLogs
<1>7. InWrite'
  BY DEF FsInv, kill_free, Return, Becomes, Goto, InWrite, writeVars
<1>8. LogInv'
  <2> SUFFICES ASSUME own' # Unset PROVE LogParts'
    BY DEF LogInv
  <2>1. Alone'
    BY DEF FsInv, kill_free, Return, Becomes, Goto, LogInv, LogParts, Alone
  <2>2. MountedInTime'
    BY DEF FsInv, kill_free, Return, Becomes, Goto, LogInv, LogParts,
       MountedInTime, Cleared, GlobalsOfMounted, globals
  <2>3. GlobalsOfMounted'
    BY DEF FsInv, kill_free, Return, Becomes, Goto, LogInv, LogParts,
       GlobalsOfMounted, globals
  <2>4. IndicesKept'
    BY DEF FsInv, kill_free, Return, Becomes, Goto, LogInv, LogParts,
       IndicesKept, FsTypeOK, globals
  <2>5. WritesMounted'
    BY DEF FsInv, kill_free, Return, Becomes, Goto, LogInv, LogParts,
       WritesMounted, Cleared, GlobalsOfMounted, writeVars
  <2>6. (crashed \subseteq Mounters)'
    BY DEF FsInv, kill_free, Return, Becomes, Goto, LogInv, LogParts, writeVars
  <2> QED
    BY <2>1, <2>2, <2>3, <2>4, <2>5, <2>6 DEF LogParts
<1> QED
  BY <1>1, <1>2, <1>3, <1>4, <1>5, <1>6, <1>7, <1>8 DEF FsInv

(* The cached block 1 is dropped, and the device's own log with it. *)
LEMMA EvictKeeps ==
    ASSUME FsInv, NEW d \in Devices, evict(d)
    PROVE  FsInv'
<1>1. FsTypeOK'
  BY DEF FsInv, evict, Fresh, FsTypeOK, globals, writeVars
<1>2. (Working /\ Cleared /\ NoDanglingSuperblock /\ InWrite /\ OpenMounted /\
      MountedAreLogs)'
  BY DEF FsInv, evict, Working, Cleared, NoDanglingSuperblock, InWrite,
     OpenMounted, MountedAreLogs, globals, writeVars
<1>3. LogInv'
  <2> SUFFICES ASSUME own' # Unset PROVE LogParts'
    BY DEF LogInv
  <2>1. GlobalsOfMounted'
    BY DEF FsInv, evict, LogInv, LogParts, GlobalsOfMounted, globals
  <2>2. IndicesKept'
    BY DEF FsInv, evict, LogInv, LogParts, IndicesKept, FsTypeOK, Working,
       Filling, Killing, globals
  <2>3. (Alone /\ MountedInTime /\ WritesMounted /\ crashed \subseteq
        Mounters)'
    BY DEF FsInv, evict, LogInv, LogParts, Alone, MountedInTime, WritesMounted,
       globals, writeVars
  <2> QED
    BY <2>1, <2>2, <2>3 DEF LogParts
<1> QED
  BY <1>1, <1>2, <1>3 DEF FsInv

(* Only the file of a mounted device is opened. *)
LEMMA OpenKeeps ==
    ASSUME FsInv, NEW d \in Devices, open_log(d)
    PROVE  FsInv'
<1>1. FsTypeOK'
  BY DEF FsInv, open_log, FsTypeOK, globals, mountVars, writeVars
<1>2. OpenMounted'
  BY DEF FsInv, open_log, OpenMounted, mountVars
<1>3. (Working /\ Cleared /\ NoDanglingSuperblock /\ InWrite /\
      MountedAreLogs)'
  BY DEF FsInv, open_log, Working, Cleared, NoDanglingSuperblock, InWrite,
     MountedAreLogs, globals, mountVars, writeVars
<1>4. LogInv'
  BY DEF FsInv, open_log, LogInv, LogParts, Alone, MountedInTime,
     GlobalsOfMounted, IndicesKept, WritesMounted, globals, mountVars,
     writeVars
<1> QED
  BY <1>1, <1>2, <1>3, <1>4 DEF FsInv

(* A closed file leaves everything else alone. *)
LEMMA CloseKeeps ==
    ASSUME FsInv, NEW d \in Devices, close_log(d)
    PROVE  FsInv'
<1>1. FsTypeOK'
  BY DEF FsInv, close_log, FsTypeOK, globals, mountVars, writeVars
<1>2. OpenMounted'
  BY DEF FsInv, close_log, OpenMounted, mountVars
<1>3. (Working /\ Cleared /\ NoDanglingSuperblock /\ InWrite /\
      MountedAreLogs)'
  BY DEF FsInv, close_log, Working, Cleared, NoDanglingSuperblock, InWrite,
     MountedAreLogs, globals, mountVars, writeVars
<1>4. LogInv'
  BY DEF FsInv, close_log, LogInv, LogParts, Alone, MountedInTime,
     GlobalsOfMounted, IndicesKept, WritesMounted, globals, mountVars,
     writeVars
<1> QED
  BY <1>1, <1>2, <1>3, <1>4 DEF FsInv

(* By MountedInTime, a writer that has seen mounted has a mounted device,
   or one that is dying, which makes own Unset. *)
LEMMA InternalWriteBeginKeeps ==
    ASSUME FsInv, NEW w \in Writers, NEW n \in Nat, internal_write_begin(w, n)
    PROVE  FsInv'
<1>1. FsTypeOK'
  BY DEF FsInv, internal_write_begin, write_begin, FsTypeOK, globals, mountVars
<1>2. InWrite'
  BY DEF FsInv, internal_write_begin, write_begin, InWrite
<1>3. (Working /\ Cleared /\ NoDanglingSuperblock /\ OpenMounted /\
      MountedAreLogs)'
  BY DEF FsInv, internal_write_begin, write_begin, Working, Cleared,
     NoDanglingSuperblock, OpenMounted, MountedAreLogs, globals, mountVars
<1>4. LogInv'
  <2> SUFFICES ASSUME own' # Unset PROVE LogParts'
    BY DEF LogInv
  <2>1. GlobalsOfMounted'
    BY DEF FsInv, internal_write_begin, write_begin, LogInv, LogParts,
       GlobalsOfMounted, globals, mountVars
  <2>2. IndicesKept'
    BY DEF FsInv, internal_write_begin, write_begin, LogInv, LogParts,
       IndicesKept, globals, mountVars
  <2>3. WritesMounted'
    BY DEF FsInv, internal_write_begin, write_begin, LogInv, LogParts,
       WritesMounted, Working, Killing, InWrite, MountedInTime, mountVars
  <2>4. (Alone /\ MountedInTime /\ crashed \subseteq Mounters)'
    BY DEF FsInv, internal_write_begin, write_begin, LogInv, LogParts, Alone,
       MountedInTime, mountVars
  <2> QED
    BY <2>1, <2>2, <2>3, <2>4 DEF LogParts
<1> QED
  BY <1>1, <1>2, <1>3, <1>4 DEF FsInv

(* By OpenMounted, a user's open file has a mounted device. *)
LEMMA UserWriteBeginKeeps ==
    ASSUME FsInv, NEW u \in Users, NEW n \in Nat, logfilefs_write_begin(u, n)
    PROVE  FsInv'
<1>1. FsTypeOK'
  BY DEF FsInv, logfilefs_write_begin, write_begin, FsTypeOK, globals,
     mountVars
<1>2. InWrite'
  BY DEF FsInv, logfilefs_write_begin, write_begin, InWrite
<1>3. (Working /\ Cleared /\ NoDanglingSuperblock /\ OpenMounted /\
      MountedAreLogs)'
  BY DEF FsInv, logfilefs_write_begin, write_begin, Working, Cleared,
     NoDanglingSuperblock, OpenMounted, MountedAreLogs, globals, mountVars
<1>4. LogInv'
  <2> SUFFICES ASSUME own' # Unset PROVE LogParts'
    BY DEF LogInv
  <2>1. GlobalsOfMounted'
    BY DEF FsInv, logfilefs_write_begin, write_begin, LogInv, LogParts,
       GlobalsOfMounted, globals, mountVars
  <2>2. IndicesKept'
    BY DEF FsInv, logfilefs_write_begin, write_begin, LogInv, LogParts,
       IndicesKept, globals, mountVars
  <2>3. WritesMounted'
    BY DEF FsInv, logfilefs_write_begin, write_begin, LogInv, LogParts,
       WritesMounted, FsTypeOK, InWrite, OpenMounted, mountVars
  <2>4. (Alone /\ MountedInTime /\ crashed \subseteq Mounters)'
    BY DEF FsInv, logfilefs_write_begin, write_begin, LogInv, LogParts, Alone,
       MountedInTime, globals, mountVars
  <2> QED
    BY <2>1, <2>2, <2>3, <2>4 DEF LogParts
<1> QED
  BY <1>1, <1>2, <1>3, <1>4 DEF FsInv

(* By GlobalsOfMounted, the pointer that is loaded is the mounted device's. *)
LEMMA WriteLoadKeeps ==
    ASSUME FsInv, NEW a \in Writers \cup Users, write_load(a)
    PROVE  FsInv'
<1>1. FsTypeOK'
  BY DEF FsInv, write_load, FsTypeOK, globals, mountVars
<1>2. InWrite'
  BY MountActorsAssumption DEF FsInv, write_load, InWrite
<1>3. (Working /\ Cleared /\ NoDanglingSuperblock /\ OpenMounted /\
      MountedAreLogs)'
  BY DEF FsInv, write_load, Working, Cleared, NoDanglingSuperblock,
     OpenMounted, MountedAreLogs, globals, mountVars
<1>4. LogInv'
  <2> SUFFICES ASSUME own' # Unset PROVE LogParts'
    BY DEF LogInv
  <2>1. WritesMounted'
    BY DEF FsInv, write_load, LogInv, LogParts, WritesMounted,
       GlobalsOfMounted, mountVars
  <2>2. (Alone /\ MountedInTime /\ GlobalsOfMounted /\ IndicesKept /\
        crashed \subseteq Mounters)'
    BY DEF FsInv, write_load, LogInv, LogParts, Alone, MountedInTime,
       GlobalsOfMounted, IndicesKept, globals, mountVars
  <2> QED
    BY <2>1, <2>2 DEF LogParts
<1> QED
  BY <1>1, <1>2, <1>3, <1>4 DEF FsInv

(* By WritesMounted, no writer crashes while own is defined. *)
LEMMA WriteCrashKeeps ==
    ASSUME FsInv, NEW a \in Writers \cup Users, write_crash(a)
    PROVE  FsInv'
<1>1. FsTypeOK'
  BY DEF FsInv, write_crash, BadTarget, FsTypeOK, globals, mountVars
<1>2. (Working /\ Cleared /\ NoDanglingSuperblock /\ InWrite /\ OpenMounted /\
      MountedAreLogs)'
  BY DEF FsInv, write_crash, BadTarget, Working, Cleared, NoDanglingSuperblock,
     InWrite, OpenMounted, MountedAreLogs, globals, mountVars
<1>3. LogInv'
  <2> SUFFICES ASSUME own' # Unset PROVE LogParts'
    BY DEF LogInv
  <2>1. (crashed \subseteq Mounters)'
    BY MountActorsAssumption DEF FsInv, write_crash, BadTarget, LogInv,
       LogParts, WritesMounted
  <2>2. (Alone /\ MountedInTime /\ GlobalsOfMounted /\ IndicesKept /\
        WritesMounted)'
    BY DEF FsInv, write_crash, BadTarget, LogInv, LogParts, Alone,
       MountedInTime, GlobalsOfMounted, IndicesKept, WritesMounted, globals,
       mountVars
  <2> QED
    BY <2>1, <2>2 DEF LogParts
<1> QED
  BY <1>1, <1>2, <1>3 DEF FsInv

(* By InWrite, there is a block left to write. *)
LEMMA WriteChunkKeeps ==
    ASSUME FsInv, NEW a \in Writers \cup Users, write_chunk(a)
    PROVE  FsInv'
<1>1. FsTypeOK'
  BY MountActorsAssumption DEF FsInv, write_chunk, FsTypeOK, InWrite, globals,
     mountVars
<1>2. InWrite'
  BY DEF FsInv, write_chunk, InWrite
<1>3. (Working /\ Cleared /\ NoDanglingSuperblock /\ OpenMounted /\
      MountedAreLogs)'
  BY DEF FsInv, write_chunk, Working, Cleared, NoDanglingSuperblock,
     OpenMounted, MountedAreLogs, globals, mountVars
<1>4. LogInv'
  <2> SUFFICES ASSUME own' # Unset PROVE LogParts'
    BY DEF LogInv
  <2>1. WritesMounted'
    BY DEF FsInv, write_chunk, LogInv, LogParts, WritesMounted, mountVars
  <2>2. (Alone /\ MountedInTime /\ GlobalsOfMounted /\ IndicesKept /\
        crashed \subseteq Mounters)'
    BY DEF FsInv, write_chunk, LogInv, LogParts, Alone, MountedInTime,
       GlobalsOfMounted, IndicesKept, globals, mountVars
  <2> QED
    BY <2>1, <2>2 DEF LogParts
<1> QED
  BY <1>1, <1>2, <1>3, <1>4 DEF FsInv

(* The indices and the mounted device's own log advance together. *)
LEMMA WriteCommitKeeps ==
    ASSUME FsInv, NEW a \in Writers \cup Users, write_commit(a)
    PROVE  FsInv'
<1>1. FsTypeOK'
  BY MountRingAssumption DEF FsInv, write_commit, Advance, Unlock, FsTypeOK,
     mountVars
<1>2. InWrite'
  BY DEF FsInv, write_commit, Advance, Unlock, InWrite
<1>3. (Working /\ Cleared /\ NoDanglingSuperblock /\ OpenMounted /\
      MountedAreLogs)'
  BY DEF FsInv, write_commit, Advance, Unlock, Working, Cleared,
     NoDanglingSuperblock, OpenMounted, MountedAreLogs, mountVars
<1>4. LogInv'
  <2> SUFFICES ASSUME own' # Unset PROVE LogParts'
    BY DEF LogInv
  <2>1. GlobalsOfMounted'
    BY MountActorsAssumption DEF FsInv, write_commit, Advance, Unlock, LogInv,
       LogParts, GlobalsOfMounted, FsTypeOK, mountVars
  <2>2. IndicesKept'
    BY MountActorsAssumption DEF FsInv, write_commit, Advance, Unlock, LogInv,
       LogParts, IndicesKept, Working, Filling, Killing, Alone,
       GlobalsOfMounted, WritesMounted, mountVars
  <2>3. WritesMounted'
    BY DEF FsInv, write_commit, Advance, Unlock, LogInv, LogParts,
       WritesMounted
  <2>4. (Alone /\ MountedInTime /\ crashed \subseteq Mounters)'
    BY DEF FsInv, write_commit, Advance, Unlock, LogInv, LogParts, Alone,
       MountedInTime, mountVars
  <2> QED
    BY <2>1, <2>2, <2>3, <2>4 DEF LogParts
<1> QED
  BY <1>1, <1>2, <1>3, <1>4 DEF FsInv

(* A record that is given up leaves the indices alone. *)
LEMMA WriteAbortKeeps ==
    ASSUME FsInv, NEW w \in Writers, internal_write_abort(w)
    PROVE  FsInv'
<1>1. FsTypeOK'
  BY DEF FsInv, internal_write_abort, Unlock, FsTypeOK, globals, mountVars
<1>2. InWrite'
  BY DEF FsInv, internal_write_abort, Unlock, InWrite
<1>3. (Working /\ Cleared /\ NoDanglingSuperblock /\ OpenMounted /\
      MountedAreLogs)'
  BY DEF FsInv, internal_write_abort, Unlock, Working, Cleared,
     NoDanglingSuperblock, OpenMounted, MountedAreLogs, globals, mountVars
<1>4. LogInv'
  <2> SUFFICES ASSUME own' # Unset PROVE LogParts'
    BY DEF LogInv
  <2>1. WritesMounted'
    BY DEF FsInv, internal_write_abort, Unlock, LogInv, LogParts, WritesMounted
  <2>2. (Alone /\ MountedInTime /\ GlobalsOfMounted /\ IndicesKept /\
        crashed \subseteq Mounters)'
    BY DEF FsInv, internal_write_abort, Unlock, LogInv, LogParts, Alone,
       MountedInTime, GlobalsOfMounted, IndicesKept, globals, mountVars
  <2> QED
    BY <2>1, <2>2 DEF LogParts
<1> QED
  BY <1>1, <1>2, <1>3, <1>4 DEF FsInv

(* A short write advances both by what has been written. *)
LEMMA WriteShortKeeps ==
    ASSUME FsInv, NEW u \in Users, logfilefs_write_short(u)
    PROVE  FsInv'
<1>1. FsTypeOK'
  BY MountRingAssumption DEF FsInv, logfilefs_write_short, Advance, Unlock,
     FsTypeOK, mountVars
<1>2. InWrite'
  BY DEF FsInv, logfilefs_write_short, Advance, Unlock, InWrite
<1>3. (Working /\ Cleared /\ NoDanglingSuperblock /\ OpenMounted /\
      MountedAreLogs)'
  BY DEF FsInv, logfilefs_write_short, Advance, Unlock, Working, Cleared,
     NoDanglingSuperblock, OpenMounted, MountedAreLogs, mountVars
<1>4. LogInv'
  <2> SUFFICES ASSUME own' # Unset PROVE LogParts'
    BY DEF LogInv
  <2>1. GlobalsOfMounted'
    BY MountActorsAssumption DEF FsInv, logfilefs_write_short, Advance, Unlock,
       LogInv, LogParts, GlobalsOfMounted, FsTypeOK, mountVars
  <2>2. IndicesKept'
    BY MountActorsAssumption DEF FsInv, logfilefs_write_short, Advance, Unlock,
       LogInv, LogParts, IndicesKept, Working, Filling, Killing, Alone,
       GlobalsOfMounted, WritesMounted, mountVars
  <2>3. WritesMounted'
    BY DEF FsInv, logfilefs_write_short, Advance, Unlock, LogInv, LogParts,
       WritesMounted
  <2>4. (Alone /\ MountedInTime /\ crashed \subseteq Mounters)'
    BY DEF FsInv, logfilefs_write_short, Advance, Unlock, LogInv, LogParts,
       Alone, MountedInTime, mountVars
  <2> QED
    BY <2>1, <2>2, <2>3, <2>4 DEF LogParts
<1> QED
  BY <1>1, <1>2, <1>3, <1>4 DEF FsInv

-----------------------------------------------------------------------------
(* The initial state, and the steps that leave the file system alone. *)

(* Nothing is mounted and nothing written. *)
LEMMA FsInitially == FsInit => FsInv
<1> SUFFICES ASSUME FsInit PROVE FsInv
  OBVIOUS
<1>1. FsTypeOK
  BY MountActorsAssumption DEF FsInit, FsTypeOK, Fresh
<1>2. Working /\ Cleared /\ NoDanglingSuperblock /\ InWrite /\ OpenMounted /\ MountedAreLogs
  BY DEF FsInit, Working, Cleared, NoDanglingSuperblock, InWrite, OpenMounted, MountedAreLogs
<1>3. LogParts
  BY DEF FsInit, LogParts, Alone, MountedInTime, GlobalsOfMounted, IndicesKept, WritesMounted
<1> QED
  BY <1>1, <1>2, <1>3 DEF FsInv, LogInv

LEMMA FsUnchanged == FsInv /\ UNCHANGED fsVars => FsInv'
BY DEF FsInv, fsVars, globals, mountVars, writeVars, FsTypeOK, Working, Cleared,
       NoDanglingSuperblock, InWrite, OpenMounted, MountedAreLogs, LogInv, LogParts, Alone,
       MountedInTime, GlobalsOfMounted, IndicesKept, WritesMounted

-----------------------------------------------------------------------------
(* The steps of the composition, as far as the file system goes. *)

(* The steps of a mounter. *)
LEMMA MountingKeeps ==
    ASSUME FsInv, NEW m \in Mounters, Mounting(m) \/ Locking(m)
    PROVE  FsInv'
BY FillBusyKeeps, FillSuperUnreadableKeeps, FillForeignKeeps, FillMagicKeeps,
   FillInodeUnreadableKeeps, FillIndicesKeeps, FillNomemKeeps, FillPublishKeeps,
   KillUnreadableKeeps, KillStoreKeeps, KillClearKeeps, KillUnlockKeeps, KillFreeKeeps
   DEF Mounting, Locking

(* The steps of the holder of log_file_mutex. *)
LEMMA WritingKeeps ==
    ASSUME FsInv, NEW a \in Writers \cup Users, Writing(a)
    PROVE  FsInv'
BY WriteLoadKeeps, WriteCrashKeeps, WriteChunkKeeps DEF Writing

(* do_log_work leaves by one of its ways. *)
LEMMA WaysOut ==
    ASSUME NEW w \in Writers, do_log_work(w)
    PROVE  \/ WayOut(w, "done", {}, {})
           \/ WayOut(w, "done", {"log"}, {"log"})
           \/ WayOut(w, "done", {"log", "content"}, {"content", "log"})
           \/ WayOut(w, "done", {"log", "content", "tfm"}, {"tfm", "content", "log"})
           \/ WayOut(w, "dump", {"log", "content"}, {})
           \/ WayOut(w, "dump", {"log", "content", "tfm"}, {"tfm", "content"})
BY DEF do_log_work, work_no_log, work_no_content, work_unreadable, work_no_tfm, work_init_fails,
       work_update_fails, work_final_fails, work_hashed

(* Every step of the composition keeps FsInv. *)
LEMMA FsKept == FsInv /\ [Next]_vars => FsInv'
<1> SUFFICES ASSUME FsInv, [Next]_vars PROVE FsInv'
  OBVIOUS
<1>1. CASE UNCHANGED fsVars
  BY <1>1, FsUnchanged
<1>2. CASE UNCHANGED vars
  BY <1>2, FsUnchanged DEF vars
<1>3. CASE \E d \in Devices, m \in Mounters : mount(m, d) \/ umount(m, d)
  BY <1>3, MountKeeps, UmountKeeps
<1>4. CASE \E d \in Devices : evict(d) \/ open_log(d) \/ close_log(d)
  BY <1>4, EvictKeeps, OpenKeeps, CloseKeeps
<1>5. CASE \E u \in Users, n \in 1 .. MaxLen : logfilefs_write_begin(u, n)
  BY <1>5, UserWriteBeginKeeps, MountRingAssumption
<1>6. CASE \E m \in Mounters : MountStep(m) \/ MountLock(m)
  BY <1>6, MountingKeeps DEF MountStep, MountLock
<1>7. CASE \E a \in Writers \cup Users : WriteStep(a)
  BY <1>7, WritingKeeps DEF WriteStep
<1>8. CASE \E w \in Writers : dump_begin(w)
  BY <1>8, InternalWriteBeginKeeps, MountRingAssumption DEF dump_begin
<1>9. CASE \E w \in Writers : dump_end(w)
  BY <1>9, WriteCommitKeeps, WriteAbortKeeps, FsUnchanged
     DEF dump_end, internal_write_unmounted
<1>10. CASE \E u \in Users : UserEnd(u)
  BY <1>10, WriteCommitKeeps, WriteShortKeeps DEF UserEnd
<1>11. Arrivals => <1>1!1 \/ <1>2!1 \/ <1>3!1 \/ <1>4!1 \/ <1>5!1
  BY DEF Arrivals, log_append, log_append_no_work, log_append_no_path, log_append_no_name,
         NoRecord, klrm_exit
<1>12. (\E w \in Writers : WorkStep(w) \/ dump_begin(w)) => <1>1!1 \/ <1>7!1 \/ <1>8!1 \/ <1>9!1
  BY WaysOut DEF WorkStep, WayOut, free_input, work_return
<1>13. (\E u \in Users : UserStep(u)) => <1>7!1 \/ <1>10!1
  BY DEF UserStep
<1> QED
  BY <1>1, <1>2, <1>3, <1>4, <1>5, <1>6, <1>7, <1>8, <1>9, <1>10, <1>11, <1>12, <1>13 DEF Next

-----------------------------------------------------------------------------
(* The deferred work. *)

(* Work in flight can be counted: there are finitely many writers. *)
LEMMA InFlightCount ==
    IsFiniteSet(InFlight) /\ Cardinality(InFlight) \in Nat
<1>1. InFlight \subseteq Writers
  BY DEF InFlight
<1> QED
  BY <1>1, WritersAssumption, FS_Subset, FS_CardinalityType

(* No work is scheduled at first. *)
LEMMA WorkInitially == Init => WorkInv
<1> SUFFICES ASSUME Init PROVE WorkInv
  OBVIOUS
<1>1. InFlight = {}
  BY DEF Init, InFlight
<1>2. Cardinality(InFlight) = 0
  BY <1>1, FS_EmptySet
<1> QED
  BY <1>1, <1>2, MountActorsAssumption
     DEF Init, FsInit, WorkInv, WorkTypeOK, MemoryAt

(* Steps of the file system: work that writes stays at its stage. *)
LEMMA WorkLeftAlone ==
    ASSUME WorkInv, UNCHANGED logVars, mutex' = mutex \/ mutex' \notin Writers
    PROVE  WorkInv'
<1>1. InFlight' = InFlight
  BY DEF InFlight, logVars
<1> QED
  BY <1>1 DEF WorkInv, WorkTypeOK, logVars

(* A step of w's work that neither takes nor gives back the module. *)
LEMMA WorkMoves ==
    ASSUME WorkInv, NEW w \in Writers,
           NEW from \in {"queued", "dump", "done", "leaving", "none"},
           NEW to \in {"queued", "dump", "done", "leaving", "none"},
           Moves(w, from, to),
           (from \in {"queued", "dump", "done"}) <=> (to \in {"queued", "dump", "done"}),
           UNCHANGED <<loaded, holds>>,
           mutex' = mutex \/ mutex' \notin Writers,
           mutex' = w => to = "dump",
           NEW bufs \in SUBSET MemoryAt(to),
           memory' = [memory EXCEPT ![w] = bufs]
    PROVE  WorkInv'
<1>1. InFlight' = InFlight
  BY DEF InFlight, Moves, WorkInv, WorkTypeOK
<1>2. MemoryAt(to) \subseteq {"work", "fullpathname", "log", "content"}
  BY DEF MemoryAt
<1>3. WorkTypeOK'
  BY <1>2 DEF WorkInv, WorkTypeOK, Moves
<1>4. (mutex \in Writers => stage[mutex] = "dump")'
  BY DEF WorkInv, WorkTypeOK, Moves
<1>5. \A v \in Writers : (memory[v] \subseteq MemoryAt(stage[v]))'
  BY DEF WorkInv, WorkTypeOK, Moves
<1> QED
  BY <1>1, <1>3, <1>4, <1>5 DEF WorkInv

(* Every step keeps WorkInv: the references are counted by the work in flight. *)
LEMMA WorkKept == FsInv /\ WorkInv /\ [Next]_vars => WorkInv'
<1> SUFFICES ASSUME FsInv, WorkInv, [Next]_vars PROVE WorkInv'
  OBVIOUS
<1>1. CASE UNCHANGED vars
  BY <1>1, WorkLeftAlone DEF vars, fsVars, writeVars
<1>2. CASE \E w \in Writers : log_append(w)
  <2> PICK w \in Writers : log_append(w)
    BY <1>2
  <2>1. InFlight' = InFlight \cup {w} /\ w \notin InFlight
    BY DEF log_append, Moves, InFlight, WorkInv, WorkTypeOK
  <2>2. holds' = Cardinality(InFlight')
    BY <2>1, InFlightCount, FS_AddElement DEF log_append, WorkInv
  <2>3. WorkTypeOK'
    BY DEF log_append, Moves, AllocatesAndFrees, WorkInv, WorkTypeOK
  <2>4. mutex' = mutex /\ mutex # w
    BY DEF log_append, Moves, WorkInv, fsVars, writeVars
  <2>5. \A v \in Writers : (memory[v] \subseteq MemoryAt(stage[v]))'
    <3>1. memory[w] = {}
      BY DEF log_append, Moves, WorkInv, MemoryAt
    <3>2. memory'[w] = {"work", "fullpathname"} /\ stage'[w] = "queued"
      BY <3>1 DEF log_append, Moves, AllocatesAndFrees, WorkInv, WorkTypeOK
    <3> QED
      BY <3>2 DEF log_append, Moves, AllocatesAndFrees, WorkInv, WorkTypeOK, MemoryAt
  <2> QED
    BY <2>2, <2>3, <2>4, <2>5 DEF log_append, Moves, WorkInv, WorkTypeOK
<1>3. ASSUME NEW w \in Writers, NEW got \in SUBSET {"work", "fullpathname"}, NoRecord(w, got, 1, got)
      PROVE  WorkInv'
  <2>1. memory[w] = {}
    BY <1>3 DEF NoRecord, WorkInv, MemoryAt
  <2>2. memory' = memory
    BY <1>3, <2>1 DEF NoRecord, AllocatesAndFrees, WorkInv, WorkTypeOK
  <2>3. holds' = holds
    BY <1>3 DEF NoRecord, WorkInv, WorkTypeOK
  <2>4. UNCHANGED logVars /\ mutex' = mutex
    BY <1>3, <2>2, <2>3 DEF NoRecord, logVars, fsVars, writeVars
  <2> QED
    BY <2>4, WorkLeftAlone
<1>4. ASSUME NEW w \in Writers, do_log_work(w)
      PROVE  WorkInv'
  <2>1. PICK to \in {"done", "dump"},
             got \in SUBSET {"log", "content", "tfm"}, bufs \in SUBSET {"log", "content", "tfm"} :
             /\ WayOut(w, to, got, bufs)
             /\ {"work", "fullpathname"} \cup (got \ bufs) \subseteq MemoryAt(to)
    <3>1. CASE \/ WayOut(w, "done", {}, {})
               \/ WayOut(w, "done", {"log"}, {"log"})
               \/ WayOut(w, "done", {"log", "content"}, {"content", "log"})
               \/ WayOut(w, "done", {"log", "content", "tfm"}, {"tfm", "content", "log"})
      BY <3>1 DEF MemoryAt
    <3>2. CASE WayOut(w, "dump", {"log", "content"}, {})
      BY <3>2 DEF MemoryAt
    <3>3. CASE WayOut(w, "dump", {"log", "content", "tfm"}, {"tfm", "content"})
      BY <3>3 DEF MemoryAt
    <3> QED
      BY <1>4, <3>1, <3>2, <3>3, WaysOut
  <2>2. memory[w] \subseteq {"work", "fullpathname"}
    BY <2>1 DEF WayOut, Moves, WorkInv, MemoryAt
  <2>3. (memory[w] \cup got) \ bufs \in SUBSET MemoryAt(to)
    BY <2>1, <2>2
  <2>4. memory' = [memory EXCEPT ![w] = (memory[w] \cup got) \ bufs]
    BY <2>1 DEF WayOut, AllocatesAndFrees
  <2>5. /\ Moves(w, "queued", to) /\ UNCHANGED <<loaded, holds>>
        /\ mutex' = mutex /\ stage[w] = "queued"
    BY <2>1 DEF WayOut, Moves, fsVars, writeVars
  <2>6. mutex' # w
    BY <2>5 DEF WorkInv
  <2> QED
    BY <2>3, <2>4, <2>5, <2>6, WorkMoves
<1>5. CASE \E w \in Writers : dump_begin(w)
  <2> PICK w \in Writers : dump_begin(w)
    BY <1>5
  <2>1. InFlight' = InFlight
    BY DEF dump_begin, logVars, InFlight
  <2> QED
    BY <2>1 DEF dump_begin, internal_write_begin, write_begin, logVars, WorkInv, WorkTypeOK
<1>6. CASE \E w \in Writers : dump_end(w)
  <2> PICK w \in Writers : dump_end(w)
    BY <1>6
  <2>1. memory[w] \subseteq {"work", "fullpathname", "log", "content"}
    BY DEF dump_end, Moves, WorkInv, MemoryAt
  <2>2. PICK bufs \in SUBSET MemoryAt("done") : memory' = [memory EXCEPT ![w] = bufs]
    BY <2>1 DEF dump_end, Frees, WorkInv, WorkTypeOK, MemoryAt
  <2>3. mutex' = Free
    BY DEF dump_end, write_commit, internal_write_abort, internal_write_unmounted, Unlock,
           fsVars, writeVars
  <2> QED
    BY <2>2, <2>3, WorkMoves, MountActorsAssumption DEF dump_end, Moves
<1>7. CASE \E w \in Writers : free_input(w)
  <2> PICK w \in Writers : free_input(w)
    BY <1>7
  <2>1. InFlight' = InFlight \ {w} /\ w \in InFlight
    BY DEF free_input, Moves, InFlight, WorkInv, WorkTypeOK
  <2>2. Cardinality(InFlight') = Cardinality(InFlight) - 1
    BY <2>1, InFlightCount, FS_RemoveElement
  <2>3. IsFiniteSet(InFlight') /\ Cardinality(InFlight') \in Nat
    BY <2>1, InFlightCount, FS_Subset, FS_CardinalityType
  <2>4. holds' = Cardinality(InFlight') /\ holds' \in Nat
    BY <2>2, <2>3 DEF free_input, WorkInv
  <2>5. WorkTypeOK'
    BY <2>4 DEF free_input, Moves, Frees, WorkInv, WorkTypeOK
  <2>6. mutex' = mutex /\ mutex # w
    BY DEF free_input, Moves, WorkInv, fsVars, writeVars
  <2>7. \A v \in Writers : (memory[v] \subseteq MemoryAt(stage[v]))'
    <3>1. memory[w] \subseteq {"work", "fullpathname", "content"}
      BY DEF free_input, Moves, WorkInv, MemoryAt
    <3>2. memory'[w] \subseteq {"content"} /\ stage'[w] = "leaving"
      BY <3>1 DEF free_input, Moves, Frees, WorkInv, WorkTypeOK
    <3> QED
      BY <3>2 DEF free_input, Moves, Frees, WorkInv, WorkTypeOK, MemoryAt
  <2> QED
    BY <2>1, <2>4, <2>5, <2>6, <2>7 DEF free_input, Moves, WorkInv, WorkTypeOK
<1>8. CASE \E w \in Writers : work_return(w)
  <2> PICK w \in Writers : work_return(w)
    BY <1>8
  <2> QED
    BY WorkMoves DEF work_return, Moves, WorkInv, fsVars, writeVars
<1>9. CASE klrm_exit
  <2>1. InFlight = {} /\ InFlight' = {}
    BY <1>9, InFlightCount, FS_EmptySet DEF klrm_exit, WorkInv, InFlight
  <2> QED
    BY <1>9, <2>1 DEF klrm_exit, WorkInv, WorkTypeOK, fsVars, writeVars
<1>10. CASE UNCHANGED logVars /\ \E d \in Devices :
                \/ \E m \in Mounters : mount(m, d) \/ umount(m, d)
                \/ evict(d) \/ open_log(d) \/ close_log(d)
  BY <1>10, WorkLeftAlone DEF mount, umount, evict, open_log, close_log, writeVars
<1>11. CASE UNCHANGED logVars /\ \E u \in Users, n \in 1 .. MaxLen : logfilefs_write_begin(u, n)
  BY <1>11, WorkLeftAlone, MountActorsAssumption DEF logfilefs_write_begin, write_begin
<1>12. CASE \E m \in Mounters : MountStep(m) \/ MountLock(m)
  <2>1. UNCHANGED <<logVars, mutex>>
    BY <1>12 DEF MountStep, MountLock, Mounting, Locking, fill_busy, fill_super_unreadable,
                 fill_foreign, fill_magic, fill_inode_unreadable, fill_indices, fill_nomem,
                 fill_publish, kill_unreadable, kill_store, kill_clear, kill_unlock, kill_free,
                 writeVars
  <2> QED
    BY <2>1, WorkLeftAlone
<1>13. CASE \E a \in Writers \cup Users : WriteStep(a)
  BY <1>13, WorkLeftAlone DEF WriteStep, Writing, write_load, write_crash, write_chunk
<1>14. CASE \E u \in Users : UserEnd(u)
  BY <1>14, WorkLeftAlone, MountActorsAssumption
     DEF UserEnd, write_commit, logfilefs_write_short, Unlock
<1>15. CASE \E w \in Writers :
                 log_append_no_work(w) \/ log_append_no_path(w) \/ log_append_no_name(w)
  BY <1>3, <1>15 DEF log_append_no_work, log_append_no_path, log_append_no_name
<1>16. Arrivals => <1>2!1 \/ <1>9!1 \/ <1>10!1 \/ <1>11!1 \/ <1>15!1
  BY DEF Arrivals
<1>17. (\E w \in Writers : WorkStep(w) \/ dump_begin(w)) =>
           \/ \E w \in Writers : do_log_work(w)
           \/ <1>5!1 \/ <1>6!1 \/ <1>7!1 \/ <1>8!1 \/ <1>13!1
  BY DEF WorkStep
<1>18. (\E u \in Users : UserStep(u)) => <1>13!1 \/ <1>14!1
  BY DEF UserStep
<1> QED
  BY <1>1, <1>2, <1>3, <1>4, <1>5, <1>6, <1>7, <1>8, <1>9, <1>10, <1>11, <1>12, <1>13,
     <1>14, <1>15, <1>16, <1>17, <1>18 DEF Next

-----------------------------------------------------------------------------
(* The inductive invariant. *)
LEMMA Invariant == Spec => []IInv
<1>1. Init => IInv
  BY FsInitially, WorkInitially DEF Init, IInv
<1>2. IInv /\ [Next]_vars => IInv'
  BY FsKept, WorkKept DEF IInv
<1> QED
  BY <1>1, <1>2, PTL DEF Spec

(* The globals, the superblocks, the mounters, the writers and the work    *)
(* keep their types: no module reference is given back twice (module_put   *)
(* in logger.c) and no block is written beyond the record (file.c).        *)
THEOREM TypeCorrect == Spec => []TypeOK
<1>1. IInv => TypeOK
  BY DEF IInv, FsInv, WorkInv, WorkTypeOK, TypeOK
<1> QED
  BY <1>1, Invariant, PTL

(* singleton_sb never points to a freed superblock, whatever mounts and    *)
(* unmounts run at the same time, unless block 1 could not be read in a    *)
(* kill_sb (fill_super and kill_sb).                                       *)
THEOREM SuperblockValid == Spec => []NoDanglingSuperblock
<1>1. IInv => NoDanglingSuperblock
  BY DEF IInv, FsInv
<1> QED
  BY <1>1, Invariant, PTL

(* The mounted log goes on where it stopped, and no writer follows a bad   *)
(* pointer, while no device is mounted beside another, none is unmounted   *)
(* under a write and block 1 can be read (fill_super, kill_sb, file.c).    *)
THEOREM LogIntact == Spec => []MountedLogIntact
<1>1. IInv => MountedLogIntact
  BY DEF IInv, FsInv, LogInv, LogParts, GlobalsOfMounted, MountedLogIntact
<1> QED
  BY <1>1, Invariant, PTL

(* Scheduled work keeps the module in the kernel until it gives its        *)
(* reference back itself (log_append and do_log_work).                     *)
THEOREM ModulePinned == Spec => []WorkPinsModule
<1>1. IInv => WorkPinsModule
  BY DEF IInv, WorkInv, WorkPinsModule, InFlight
<1> QED
  BY <1>1, Invariant, PTL

(* log_append and do_log_work lose nothing but the content buffer of an    *)
(* executable that could not be read, on each of their ways out.           *)
THEOREM WorkFreesMemory == Spec => []OnlyContentLost
<1>1. IInv => OnlyContentLost
  BY DEF IInv, WorkInv, OnlyContentLost, MemoryAt
<1> QED
  BY <1>1, Invariant, PTL
=============================================================================
