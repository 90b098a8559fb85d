------------------------------- MODULE Ioctl -------------------------------
(***************************************************************************)
(* api/api.c and api/ioctl.c: dev_ioctl and the five handlers it           *)
(* dispatches to, run by any number of threads at once over the state      *)
(* machine.  What path_store_add, path_store_rm and path_store_check do is *)
(* module PathStore's subject; here each is the span "store" of a call.    *)
(*                                                                         *)
(* A thread's program counter:                                             *)
(*   idle      outside the module                                          *)
(*   down_read blocked in state_machine_enter_rec_on                       *)
(*   test_rec  holds rec_sem for reading, about to test rec                *)
(*   auth      holds it, about to check the password                       *)
(*   store     holds it, inside the path store                             *)
(*   ctl_auth  in klrm_set or klrm_rec, about to check the password        *)
(*   down_write, assign, up_write   in the set_machine function it called  *)
(***************************************************************************)
EXTENDS StateMachine, FiniteSets

CONSTANT MaxLeaks   \* bound on each kind of leak, so that TLC's runs are finite

ASSUME MaxLeaksAssumption == MaxLeaks \in Nat
ASSUME ThreadsAssumption == IsFiniteSet(Threads)

VARIABLES pc, req,
          inputs,        \* klrm_input buffers allocated from input_cache
          leakedHolds,   \* history: read holds that no running call will release
          leakedInputs   \* history: buffers that no running call will free

vars == <<rec, set, rec_sem, set_sem, pc, req, inputs, leakedHolds, leakedInputs>>
leakVars == <<leakedHolds, leakedInputs>>

StoreOps == {"ADD_PATH", "RM_PATH", "CHK_PATH"}
ToggleOps == {"MACHINE_SET", "MACHINE_REC"}
Requests == [op : StoreOps, good : BOOLEAN, arg : {"path"}]
              \cup [op : ToggleOps, good : BOOLEAN, arg : {"on", "off", "other"}]

PCs == {"idle", "down_read", "test_rec", "auth", "store",
        "ctl_auth", "down_write", "assign", "up_write"}

Holders == {t \in Threads : pc[t] \in {"test_rec", "auth", "store"}}
InCall == {t \in Threads : pc[t] # "idle"}

Goto(t, l) == pc' = [pc EXCEPT ![t] = l]
Target(t) == IF req[t].arg = "on" THEN "ON" ELSE "OFF"

(* Every handler returns through dev_ioctl, which frees the buffer and the *)
(* request in it.                                                          *)
NoRequest == [op |-> "CHK_PATH", good |-> TRUE, arg |-> "path"]
Return(t) ==
    /\ Goto(t, "idle")
    /\ inputs' = inputs - 1 /\ req' = [req EXCEPT ![t] = NoRequest]

Init ==
    /\ setup_state_machine
    /\ pc = [t \in Threads |-> "idle"]
    /\ req = [t \in Threads |-> NoRequest]
    /\ inputs = 0 /\ leakedHolds = 0 /\ leakedInputs = 0

(* Wrong passwords whose calls may still leak; keeps leakedHolds <= MaxLeaks. *)
MayLeakHold(t, r) ==
    (r.op \in StoreOps /\ ~r.good) =>
        leakedHolds + Cardinality({u \in InCall : req[u].op \in StoreOps /\ ~req[u].good})
            < MaxLeaks

(***************************************************************************)
(* dev_ioctl: copy the request in and dispatch on the operation code.  The *)
(* store handlers begin with down_read on rec_sem, the two others with     *)
(* the password.                                                           *)
(***************************************************************************)
dev_ioctl(t, r) ==
    /\ pc[t] = "idle" /\ MayLeakHold(t, r)
    /\ req' = [req EXCEPT ![t] = r]
    /\ inputs' = inputs + 1
    /\ \/ /\ r.op \in StoreOps
          /\ Goto(t, "down_read")
          /\ rec_sem' = Join(rec_sem, t, "R")
          /\ UNCHANGED <<rec, set, set_sem>>
       \/ /\ r.op \in ToggleOps
          /\ Goto(t, "ctl_auth")
          /\ UNCHANGED smVars
    /\ UNCHANGED leakVars

(* No buffer, a wrong size or a fault while copying: nothing stays behind. *)
dev_ioctl_refused(t) == pc[t] = "idle" /\ UNCHANGED vars

(* The default case of the dispatch returns without freeing the buffer. *)
dev_ioctl_unknown(t) ==
    /\ pc[t] = "idle" /\ leakedInputs < MaxLeaks
    /\ inputs' = inputs + 1
    /\ leakedInputs' = leakedInputs + 1
    /\ UNCHANGED <<rec, set, rec_sem, set_sem, pc, req, leakedHolds>>

(* klrm_path_add, klrm_path_rm and klrm_path_check have the same control. *)
klrm_path_enter(t) ==
    /\ pc[t] = "down_read"
    /\ enter_rec_on_down(t)
    /\ Goto(t, "test_rec")
    /\ UNCHANGED <<req, inputs, leakedHolds, leakedInputs>>

\* The handler exits the state machine although enter_rec_on has already.
klrm_path_busy_exits_too(t) ==
    /\ pc[t] = "test_rec" /\ rec # "ON"
    /\ rec_sem' = up_read(up_read(rec_sem))
    /\ Return(t)
    /\ UNCHANGED <<rec, set, set_sem, leakedHolds, leakedInputs>>

klrm_path_busy(t) ==
    /\ pc[t] = "test_rec"
    /\ enter_rec_on_no(t)
    /\ Return(t)
    /\ UNCHANGED <<leakedHolds, leakedInputs>>

\* The test of rec is dropped: a handler goes on whatever rec says.
klrm_path_on_untested(t) ==
    /\ pc[t] = "test_rec"
    /\ UNCHANGED smVars
    /\ Goto(t, "auth")
    /\ UNCHANGED <<req, inputs, leakedHolds, leakedInputs>>

klrm_path_on(t) ==
    /\ pc[t] = "test_rec"
    /\ enter_rec_on_yes(t)
    /\ Goto(t, "auth")
    /\ UNCHANGED <<req, inputs, leakedHolds, leakedInputs>>

klrm_path_authorised(t) ==
    /\ pc[t] = "auth" /\ req[t].good
    /\ Goto(t, "store")
    /\ UNCHANGED <<rec, set, rec_sem, set_sem, req, inputs, leakedHolds, leakedInputs>>

(* -EACCES: the handler returns without state_machine_rec_exit. *)
klrm_path_denied(t) ==
    /\ pc[t] = "auth" /\ ~req[t].good
    /\ Return(t)
    /\ leakedHolds' = leakedHolds + 1
    /\ UNCHANGED <<rec, set, rec_sem, set_sem, leakedInputs>>

\* The read hold is forgotten on the way out of a completed operation too.
klrm_path_done_keeps_hold(t) ==
    /\ pc[t] = "store"
    /\ Return(t)
    /\ UNCHANGED <<rec, set, rec_sem, set_sem, leakedHolds, leakedInputs>>

klrm_path_done(t) ==
    /\ pc[t] = "store"
    /\ state_machine_rec_exit(t)
    /\ Return(t)
    /\ UNCHANGED <<leakedHolds, leakedInputs>>

(* klrm_set and klrm_rec. *)
klrm_toggle_refused(t) ==
    /\ pc[t] = "ctl_auth"
    /\ ~req[t].good \/ req[t].arg = "other"
    /\ Return(t)
    /\ UNCHANGED <<rec, set, rec_sem, set_sem, leakedHolds, leakedInputs>>

klrm_toggle_authorised(t) ==
    /\ pc[t] = "ctl_auth" /\ req[t].good /\ req[t].arg # "other"
    /\ Goto(t, "down_write")
    /\ \/ req[t].op = "MACHINE_REC" /\ rec_sem' = Join(rec_sem, t, "W") /\ UNCHANGED set_sem
       \/ req[t].op = "MACHINE_SET" /\ set_sem' = Join(set_sem, t, "W") /\ UNCHANGED rec_sem
    /\ UNCHANGED <<rec, set, req, inputs, leakedHolds, leakedInputs>>

klrm_toggle_down(t) ==
    /\ pc[t] = "down_write"
    /\ down_write_toggle(t, req[t].op)
    /\ Goto(t, "assign")
    /\ UNCHANGED <<req, inputs, leakedHolds, leakedInputs>>

klrm_toggle_assign(t) ==
    /\ pc[t] = "assign"
    /\ assign_toggle(req[t].op, Target(t))
    /\ Goto(t, "up_write")
    /\ UNCHANGED <<req, inputs, leakedHolds, leakedInputs>>

klrm_toggle_up(t) ==
    /\ pc[t] = "up_write"
    /\ up_write_toggle(req[t].op)
    /\ Return(t)
    /\ UNCHANGED <<leakedHolds, leakedInputs>>

(* The steps of a call in progress. *)
Proceed(t) ==
    \/ klrm_path_enter(t) \/ klrm_path_busy(t) \/ klrm_path_on(t)
    \/ klrm_path_authorised(t) \/ klrm_path_denied(t) \/ klrm_path_done(t)
    \/ klrm_toggle_refused(t) \/ klrm_toggle_authorised(t)
    \/ klrm_toggle_down(t) \/ klrm_toggle_assign(t) \/ klrm_toggle_up(t)

Next ==
    \/ \E t \in Threads, r \in Requests : dev_ioctl(t, r)
    \/ \E t \in Threads : dev_ioctl_refused(t) \/ dev_ioctl_unknown(t)
    \/ \E t \in Threads : Proceed(t)

Spec == Init /\ [][Next]_vars

(* A thread inside the module is scheduled; nobody has to make a call. *)
FairSpec == Spec /\ \A t \in Threads : WF_vars(Proceed(t))

-----------------------------------------------------------------------------
TypeOK ==
    /\ StateMachineTypeOK
    /\ pc \in [Threads -> PCs]
    /\ req \in [Threads -> Requests]
    /\ inputs \in Nat /\ leakedHolds \in Nat /\ leakedInputs \in Nat

(***************************************************************************)
(* The path store is entered and used only while reconfiguration is ON:    *)
(* set_machine_rec_off waits for every handler that has tested rec, and    *)
(* rec cannot change between a handler's test and its exit                 *)
(* (state_machine_enter_rec_on keeps the read hold).                       *)
(***************************************************************************)
ReconfiguredOnlyWhileOn ==
    \A t \in Threads : pc[t] \in {"auth", "store"} => rec = "ON"

(***************************************************************************)
(* The read holds of rec_sem are those of the handlers between their       *)
(* down_read and their exit plus one for every store call answered         *)
(* -EACCES; the input buffers are those of the running calls plus one for  *)
(* every call with an unknown operation code.                              *)
(***************************************************************************)
ResourcesAccounted ==
    /\ rec_sem.readers = Cardinality(Holders) + leakedHolds
    /\ inputs = Cardinality(InCall) + leakedInputs

(***************************************************************************)
(* recMachine "sets the machine on/off state" (include/api/api.h): a call  *)
(* of klrm_rec with the right password and "on" or "off" gets to assign    *)
(* rec.                                                                    *)
(***************************************************************************)
RecRequestsTakeEffect ==
    \A t \in Threads :
        (pc[t] = "down_write" /\ req[t].op = "MACHINE_REC") ~> (pc[t] = "assign")
=============================================================================
