------------------------------- MODULE Logger -------------------------------
(***************************************************************************)
(* logger/logger.c over the mounted log file system (LogMount): log_append *)
(* schedules work that writes one record, and holds the module for it.     *)
(*                                                                         *)
(* The work of writer w: none, queued, dump (about to write, or writing    *)
(* while it has log_file_mutex), done (at FREE_INPUT), leaving (still in   *)
(* do_log_work, behind module_put).  log_append, and do_log_work before    *)
(* the write, touch nothing but memory of their own and are one step for   *)
(* each way out of them, with what is allocated and freed on that way.     *)
(***************************************************************************)
EXTENDS LogMount

CONSTANT MaxEnd      \* bound on circular_buffer_end

ASSUME LoggerBoundAssumption == MaxEnd \in Nat
ASSUME WritersAssumption == IsFiniteSet(Writers)

VARIABLES loaded,        \* the module is in the kernel
          stage,         \* [writer -> stage of its work]
          holds,         \* module references taken by try_module_get
          memory         \* [writer -> what its work has allocated and not freed]

logVars == <<loaded, stage, holds, memory>>
vars == <<fsVars, logVars>>

Init ==
    /\ FsInit
    /\ loaded = TRUE
    /\ stage = [w \in Writers |-> "none"]
    /\ holds = 0 /\ memory = [w \in Writers |-> {}]

InFlight == {w \in Writers : stage[w] \in {"queued", "dump", "done"}}

(* MaxEnd, kept where records arrive: no write in progress waits for it. *)
Room ==
    \A e \in {indices[2]} \cup {buffer[d][2] : d \in Devices} :
        e + MaxLen * (Cardinality(InFlight \cup ({mutex} \ {Free})) + 1) <= MaxEnd

Frees(w, bufs) == memory' = [memory EXCEPT ![w] = @ \ bufs]
AllocatesAndFrees(w, got, bufs) == memory' = [memory EXCEPT ![w] = (@ \cup got) \ bufs]
Moves(w, from, to) == stage[w] = from /\ stage' = [stage EXCEPT ![w] = to]

-----------------------------------------------------------------------------
\* The module is let go before the work is scheduled.
log_append_lets_go(w) ==
    /\ loaded /\ Room
    /\ Moves(w, "none", "queued")
    /\ AllocatesAndFrees(w, {"work", "fullpathname"}, {})
    /\ UNCHANGED <<fsVars, loaded, holds>>

(* dev_write ends with a record of its process, which has the device open: *)
(* a work item and a buffer for the path of the executable.                *)
log_append(w) ==
    /\ loaded /\ Room
    /\ Moves(w, "none", "queued")
    /\ holds' = holds + 1
    /\ AllocatesAndFrees(w, {"work", "fullpathname"}, {})
    /\ UNCHANGED <<fsVars, loaded>>

(* A way out of log_append that schedules nothing, behind try_module_get.  *)
NoRecord(w, got, puts, bufs) ==
    /\ loaded /\ stage[w] = "none"
    /\ holds' = (holds + 1) - puts
    /\ AllocatesAndFrees(w, got, bufs)
    /\ UNCHANGED <<fsVars, loaded, stage>>

log_append_no_work(w) == NoRecord(w, {}, 1, {})
log_append_no_path(w) == NoRecord(w, {"work"}, 1, {"work"})

\* The module is given back twice.
log_append_no_name_puts_twice(w) ==
    NoRecord(w, {"work", "fullpathname"}, 2, {"work", "fullpathname"})

(* d_path: the name of the executable is too long for the buffer.          *)
log_append_no_name(w) == NoRecord(w, {"work", "fullpathname"}, 1, {"work", "fullpathname"})

(***************************************************************************)
(* do_log_work up to the write or to FREE_INPUT.                           *)
(***************************************************************************)
WayOut(w, to, got, bufs) ==
    /\ Moves(w, "queued", to)
    /\ AllocatesAndFrees(w, got, bufs)
    /\ UNCHANGED <<fsVars, loaded, holds>>

work_no_log(w) == WayOut(w, "done", {}, {})
work_no_content(w) == WayOut(w, "done", {"log"}, {"log"})

(* The executable cannot be read: the record says so, and the content      *)
(* buffer is never freed.                                                  *)
work_unreadable(w) == WayOut(w, "dump", {"log", "content"}, {})

\* The log buffer of a record that cannot be hashed is not freed.
work_no_tfm_keeps_log(w) == WayOut(w, "done", {"log", "content"}, {"content"})

(* No transform for the hash. *)
work_no_tfm(w) == WayOut(w, "done", {"log", "content"}, {"content", "log"})

(* crypto_shash_init, _update or _final fails.                             *)
work_init_fails(w) == WayOut(w, "done", {"log", "content", "tfm"}, {"tfm", "content", "log"})
work_update_fails(w) == WayOut(w, "done", {"log", "content", "tfm"}, {"tfm", "content", "log"})
work_final_fails(w) == WayOut(w, "done", {"log", "content", "tfm"}, {"tfm", "content", "log"})

work_hashed(w) == WayOut(w, "dump", {"log", "content", "tfm"}, {"tfm", "content"})

do_log_work(w) ==
    \/ work_no_log(w) \/ work_no_content(w) \/ work_unreadable(w) \/ work_no_tfm(w)
    \/ work_init_fails(w) \/ work_update_fails(w) \/ work_final_fails(w)
    \/ work_hashed(w)

dump_begin(w) ==
    /\ stage[w] = "dump"
    /\ \E n \in 1 .. MaxLen : internal_write_begin(w, n)
    /\ UNCHANGED logVars

(* internal_logfilefs_write returns; its record is freed. *)
dump_end(w) ==
    /\ Moves(w, "dump", "done")
    /\ write_commit(w) \/ internal_write_abort(w) \/ internal_write_unmounted(w)
    /\ Frees(w, {"log"})
    /\ UNCHANGED <<loaded, holds>>

free_input(w) ==
    /\ Moves(w, "done", "leaving")
    /\ Frees(w, {"work", "fullpathname"}) /\ holds' = holds - 1
    /\ UNCHANGED <<fsVars, loaded>>

(* What it has not freed is lost. *)
work_return(w) ==
    /\ Moves(w, "leaving", "none")
    /\ memory' = [memory EXCEPT ![w] = {}]
    /\ UNCHANGED <<fsVars, loaded, holds>>

(* rmmod, when nobody refers to the module: try_module_get's holders and   *)
(* superblocks of the file system; mounts and dev_writes are not under way.*)
klrm_exit ==
    /\ loaded /\ holds = 0
    /\ \A d \in Devices : superblock[d] \in {"none", "lost"}
    /\ \A m \in Mounters : mpc[m] = "idle"
    /\ loaded' = FALSE
    /\ UNCHANGED <<fsVars, stage, holds, memory>>

-----------------------------------------------------------------------------
MountStep(m) == Mounting(m) /\ UNCHANGED logVars
MountLock(m) == Locking(m) /\ UNCHANGED logVars

WriteStep(a) == Writing(a) /\ UNCHANGED logVars
UserEnd(u) == u \in Users /\ (write_commit(u) \/ logfilefs_write_short(u)) /\ UNCHANGED logVars
UserStep(u) == WriteStep(u) \/ UserEnd(u)

(* The work proceeds, apart from taking log_file_mutex. *)
WorkStep(w) ==
    \/ do_log_work(w)
    \/ WriteStep(w) \/ dump_end(w)
    \/ free_input(w) \/ work_return(w)

Arrivals ==
    \/ \E w \in Writers :
           log_append(w) \/ log_append_no_work(w) \/ log_append_no_path(w) \/ log_append_no_name(w)
    \/ \E d \in Devices :
           /\ \/ loaded /\ \E m \in Mounters : mount(m, d) \/ umount(m, d)
              \/ evict(d) \/ open_log(d) \/ close_log(d)
              \/ Room /\ \E u \in Users, n \in 1 .. MaxLen : logfilefs_write_begin(u, n)
           /\ UNCHANGED logVars
    \/ klrm_exit

Next ==
    \/ Arrivals
    \/ \E m \in Mounters : MountStep(m) \/ MountLock(m)
    \/ \E w \in Writers : WorkStep(w) \/ dump_begin(w)
    \/ \E u \in Users : UserStep(u)

Spec == Init /\ [][Next]_vars

(* Tasks in the kernel run and queued work is executed; spinlocks (in a    *)
(* queue) and mutexes (with a handoff) serve who waits.                    *)
FairSpec ==
    /\ Spec
    /\ \A m \in Mounters : WF_vars(MountStep(m)) /\ SF_vars(MountLock(m))
    /\ \A w \in Writers : SF_vars(WorkStep(w)) /\ SF_vars(dump_begin(w))
    /\ \A u \in Users : WF_vars(UserStep(u))

-----------------------------------------------------------------------------
TypeOK ==
    /\ FsTypeOK
    /\ loaded \in BOOLEAN
    /\ stage \in [Writers -> {"none", "queued", "dump", "done", "leaving"}]
    /\ holds \in Nat
    /\ memory \in [Writers -> SUBSET {"work", "fullpathname", "log", "content", "tfm"}]

(***************************************************************************)
(* singleton_sb never points to a superblock that the kernel has freed,    *)
(* whatever mounts and unmounts there are at the same time, unless block 1 *)
(* could not be read in a kill_sb (fill_super and kill_sb).                *)
(***************************************************************************)
NoDanglingSuperblock == singleton_sb # Null => superblock[singleton_sb] # "none"

(***************************************************************************)
(* As long as no device is mounted beside another, none is unmounted under *)
(* a write and block 1 can be read, the mounted log is the one the writers *)
(* write to, it goes on where that device's log has got to since its       *)
(* blocks entered the buffer cache, through unmounts, remounts and refused *)
(* devices, and no writer follows a bad pointer.                           *)
(***************************************************************************)
MountedLogIntact ==
    own # Unset =>
        /\ \A d \in Devices :
               superblock[d] = "mounted" => mounted /\ singleton_sb = d /\ indices = own[d]
        /\ crashed \subseteq Mounters

(***************************************************************************)
(* No work is left to run in a module that is gone, until it gives its     *)
(* reference back itself (log_append's try_module_get).                    *)
(***************************************************************************)
WorkPinsModule == ~loaded => InFlight = {} /\ mutex \notin Writers

(***************************************************************************)
(* Each way out of log_append and of do_log_work frees what has been       *)
(* allocated for the record on that way, but for the content buffer of an  *)
(* executable that could not be read (the kfrees of logger.c before each   *)
(* return, before FREE_INPUT and behind DO_DUMP).                          *)
(***************************************************************************)
OnlyContentLost ==
    \A w \in Writers :
        /\ stage[w] = "none" => memory[w] = {}
        /\ stage[w] = "leaving" => memory[w] \subseteq {"content"}

(***************************************************************************)
(* Every mount and unmount returns, unless a kill_sb could not read block  *)
(* 1 and has left sb_lock behind, or the task has died in fill_super.      *)
(***************************************************************************)
MountsReturn ==
    \A m \in Mounters :
        (mpc[m] # "idle")
            ~> (mpc[m] \in {"idle", "dead"} \/ \E d \in Devices : superblock[d] = "lost")

(***************************************************************************)
(* Every scheduled record's work ends, unless a writer has died with       *)
(* log_file_mutex.                                                         *)
(***************************************************************************)
WorkEnds ==
    \A w \in Writers : (stage[w] # "none") ~> (stage[w] = "none" \/ mutex \in crashed)

(***************************************************************************)
(* A mounted file system is the one the module knows of: the refusal of a  *)
(* second one ("FS already mounted", -EBUSY) leaves it alone.              *)
(***************************************************************************)
RefusalHarmless ==
    \A d \in Devices : superblock[d] = "mounted" => mounted /\ singleton_sb = d
=============================================================================
