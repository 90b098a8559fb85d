------------------------------ MODULE Monitor ------------------------------
(***************************************************************************)
(* The reference monitor's two halves together: the ioctl handlers of      *)
(* api/ioctl.c (module Ioctl, which this one extends) and the path store   *)
(* they call (module PathStore, here Store), run by the same threads.      *)
(*                                                                         *)
(* A handler that has checked the password calls path_store_add, _rm or    *)
(* _check with the text of its request, still holding rec_sem for reading; *)
(* it goes on to state_machine_rec_exit when that call has returned.  So a *)
(* thread waits for store_lock with a hold on rec_sem, and what blocks the *)
(* one lock blocks, through the writers that queue for the other, every    *)
(* later call of any kind.                                                 *)
(***************************************************************************)
EXTENDS Ioctl

CONSTANTS
    Asked,                            \* [thread -> the requests it may make]
    Nobody, Entries, Root, Calls, Residue, ARGS_SIZE,         \* PathStore
    ULLONG_MAX, MutationBound

VARIABLES
    allocations, parent, dir_name, children, children_num, explicited,
    argIdxs, nonce, work, writer, readers,
    store_pc,           \* where a thread is inside the path store
    call, j, deepness, curr, tmp, ret,
    module              \* live, going (in klrm_exit) or gone

Store == INSTANCE PathStore WITH Clients <- Threads, pc <- store_pc

apiVars == vars
storeVars == <<allocations, parent, dir_name, children, children_num, explicited, argIdxs,
               nonce, work, writer, readers, store_pc, call, j, deepness, curr, tmp, ret>>
allVars == <<apiVars, storeVars, module>>

ASSUME AskedAssumption == \A t \in Threads : Asked[t] \subseteq Requests

MonitorInit == Init /\ Store!Init /\ module = "live"

(* The operation of the store that a request asks for. *)
StoreOp(r) ==
    [ADD_PATH |-> "add", RM_PATH |-> "rm", CHK_PATH |-> "check"][r.op]

InStore(t) == store_pc[t] # "idle"

-----------------------------------------------------------------------------
(* MutationBound, kept where calls begin: no call in progress waits for it. *)
Mutates(r) == r.op \in {"ADD_PATH", "RM_PATH"} /\ r.good
MayMutate(r) ==
    Mutates(r) => nonce + Cardinality({u \in InCall : Mutates(req[u])}) < MutationBound

ioctl(t, r) ==
    /\ module = "live" /\ MayMutate(r)
    /\ dev_ioctl(t, r)
    /\ UNCHANGED <<storeVars, module>>

(* dev_ioctl itself answers: nothing copied, or no such operation. *)
ioctl_refused(t) ==
    /\ module = "live"
    /\ dev_ioctl_refused(t) \/ dev_ioctl_unknown(t)
    /\ UNCHANGED <<storeVars, module>>

(* The steps of a call that do not touch the store. *)
OutsideStore(t) ==
    /\ \/ klrm_path_enter(t) \/ klrm_path_busy(t) \/ klrm_path_on(t)
       \/ klrm_path_denied(t)
       \/ klrm_toggle_refused(t) \/ klrm_toggle_authorised(t)
       \/ klrm_toggle_down(t) \/ klrm_toggle_assign(t) \/ klrm_toggle_up(t)
    /\ UNCHANGED <<storeVars, module>>

(* klrm_path_add, klrm_path_rm, klrm_path_check: the password is right and *)
(* the store is called.                                                    *)
klrm_path_call(t, x) ==
    /\ klrm_path_authorised(t)
    /\ x.op = StoreOp(req[t]) /\ Store!Call(t, x)
    /\ UNCHANGED module

(* The call runs, apart from taking store_lock. *)
klrm_path_run(t) == Store!Proceed(t) /\ UNCHANGED <<apiVars, module>>

klrm_path_lock(t) == Store!lock_store(t) /\ UNCHANGED <<apiVars, module>>

\* The handler does not wait for the call's end: it leaves the state machine before.
klrm_path_return_early(t) == klrm_path_done(t) /\ UNCHANGED <<storeVars, module>>

(* The call has returned: the handler leaves the state machine. *)
klrm_path_return(t) ==
    /\ ~InStore(t)
    /\ klrm_path_done(t)
    /\ UNCHANGED <<storeVars, module>>

refresh_nonces == Store!refresh_nonces /\ UNCHANGED <<apiVars, module>>

(***************************************************************************)
(* rmmod: an open device file and scheduled work refer to the module.  Its *)
(* exit begins with cleanup_path_store, which takes store_lock and frees   *)
(* every entry; the input buffers that were lost stay.                     *)
(***************************************************************************)
klrm_exit ==
    /\ module = "live" /\ work = 0 /\ InCall = {}
    /\ module' = "going"
    /\ UNCHANGED <<apiVars, storeVars>>

cleanup_path_store ==
    /\ module = "going" /\ writer = Nobody /\ readers = {}
    /\ module' = "gone"
    /\ allocations' = {}
    /\ UNCHANGED <<apiVars, parent, dir_name, children, children_num, explicited, argIdxs,
                   nonce, work, writer, readers, store_pc, call, j, deepness, curr, tmp, ret>>

(* The steps of a call in progress, apart from taking store_lock. *)
MonitorProceed(t) ==
    \/ OutsideStore(t)
    \/ \E x \in Calls : klrm_path_call(t, x)
    \/ klrm_path_run(t) \/ klrm_path_return(t)

MonitorNext ==
    \/ \E t \in Threads : \E r \in Asked[t] : ioctl(t, r)
    \/ \E t \in Threads : ioctl_refused(t)
    \/ \E t \in Threads : MonitorProceed(t) \/ klrm_path_lock(t)
    \/ refresh_nonces \/ klrm_exit \/ cleanup_path_store

MonitorSpec == MonitorInit /\ [][MonitorNext]_allVars

(* As in the two parts: threads inside the module run, the queued rwlock   *)
(* serves its waiters, scheduled work is executed.                         *)
MonitorFairSpec ==
    /\ MonitorSpec
    /\ \A t \in Threads : WF_allVars(MonitorProceed(t)) /\ SF_allVars(klrm_path_lock(t))
    /\ WF_allVars(refresh_nonces) /\ SF_allVars(cleanup_path_store)

-----------------------------------------------------------------------------
(***************************************************************************)
(* What is protected changes only while reconfiguration is on, and only    *)
(* under a request with the right password: recMachine "off" returns after *)
(* the last path_store_add or path_store_rm has, and none begins behind it *)
(* (the span of rec_sem's read hold in klrm_path_add and klrm_path_rm).    *)
(***************************************************************************)
ProtectionChangesOnlyWhileOn ==
    [][(Store!Protected' # Store!Protected /\ module' # "gone") =>
           /\ rec = "ON" /\ rec' = "ON"
           /\ \E t \in Threads : InStore(t) /\ req[t].good /\ pc[t] = "store"]_allVars

(* store_lock has been left behind by a call that has returned. *)
Abandoned == writer # Nobody /\ store_pc[writer] \notin Store!Critical

(***************************************************************************)
(* Every ioctl call returns, unless a call before or beside it has left    *)
(* something locked: a read hold of rec_sem (a wrong password) or          *)
(* store_lock (an add that does not resolve or meets an empty token, or    *)
(* the last nonce).  Nothing else makes the two locks wait for each other. *)
(***************************************************************************)
CallsReturn ==
    \A t \in Threads : (pc[t] # "idle") ~> (pc[t] = "idle" \/ Abandoned \/ leakedHolds > 0)

(***************************************************************************)
(* The module's exit ends, unless a call before it has left store_lock     *)
(* behind (cleanup_path_store takes the lock like any writer).             *)
(***************************************************************************)
ExitEnds == (module = "going") ~> (module = "gone" \/ Abandoned)
=============================================================================
