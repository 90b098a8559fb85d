---------------------------- MODULE StateMachine ----------------------------
(***************************************************************************)
(* state_machine/state_machine.c: the toggles rec (may the monitor be      *)
(* reconfigured?) and set (is the monitor on?), each behind a read-write   *)
(* semaphore of the kernel.                                                *)
(*                                                                         *)
(* A semaphore is a count of read holds, its writer and the FIFO queue of  *)
(* the threads blocked in down_read or down_write.  A read hold is only    *)
(* counted, as in the kernel: nothing ties it to the thread that took it.  *)
(* Every C function is given here as the steps it takes on these           *)
(* variables; module Ioctl runs them in the order of its handlers.         *)
(***************************************************************************)
EXTENDS Naturals, Sequences

CONSTANTS Threads,   \* threads that enter the module through its device
          NoThread   \* the writer of a semaphore nobody holds for writing

ASSUME NoThreadAssumption == NoThread \notin Threads

VARIABLES rec, set,          \* TOGGLE: "ON" or "OFF"
          rec_sem, set_sem   \* struct rw_semaphore

smVars == <<rec, set, rec_sem, set_sem>>

Toggle == {"ON", "OFF"}
Waiter == Threads \X {"R", "W"}
Semaphore == [readers : Nat, writer : Threads \cup {NoThread}, queue : Seq(Waiter)]

(***************************************************************************)
(* The kernel's rw_semaphore: a caller joins the queue, and is granted the *)
(* semaphore when it is at the head and no incompatible hold is left.      *)
(***************************************************************************)
init_rwsem == [readers |-> 0, writer |-> NoThread, queue |-> <<>>]

Join(sem, t, mode) == [sem EXCEPT !.queue = Append(@, <<t, mode>>)]

AtHead(sem, t, mode) == sem.queue # <<>> /\ Head(sem.queue) = <<t, mode>>

ReadGrantable(sem, t) == AtHead(sem, t, "R") /\ sem.writer = NoThread

\* A writer that overlooks the read holds.
WriteGrantable_ignores_readers(sem, t) == AtHead(sem, t, "W") /\ sem.writer = NoThread

WriteGrantable(sem, t) ==
    AtHead(sem, t, "W") /\ sem.writer = NoThread /\ sem.readers = 0

ReadGranted(sem) ==
    [readers |-> sem.readers + 1, writer |-> sem.writer, queue |-> Tail(sem.queue)]

WriteGranted(sem, t) ==
    [readers |-> sem.readers, writer |-> t, queue |-> Tail(sem.queue)]

up_read(sem) == [sem EXCEPT !.readers = @ - 1]

up_write(sem) == [sem EXCEPT !.writer = NoThread]

(***************************************************************************)
(* setup_state_machine.  The toggles are zero-initialised globals and ON   *)
(* is the first enumerator.                                                *)
(***************************************************************************)
setup_state_machine ==
    /\ rec = "ON" /\ set = "ON"
    /\ rec_sem = init_rwsem /\ set_sem = init_rwsem

(***************************************************************************)
(* state_machine_enter_rec_on: down_read, then test rec under the hold and *)
(* keep the hold only if reconfiguration is on.                            *)
(***************************************************************************)
enter_rec_on_down(t) ==
    /\ ReadGrantable(rec_sem, t)
    /\ rec_sem' = ReadGranted(rec_sem)
    /\ UNCHANGED <<rec, set, set_sem>>

enter_rec_on_yes(t) == rec = "ON" /\ UNCHANGED smVars

enter_rec_on_no(t) ==
    /\ rec # "ON"
    /\ rec_sem' = up_read(rec_sem)
    /\ UNCHANGED <<rec, set, set_sem>>

state_machine_rec_exit(t) ==
    /\ rec_sem' = up_read(rec_sem)
    /\ UNCHANGED <<rec, set, set_sem>>

(***************************************************************************)
(* set_machine_rec_on/off and set_machine_on/off: down_write, assign,      *)
(* up_write.  op names the toggle, v its new value.                        *)
(***************************************************************************)
down_write_toggle(t, op) ==
    \/ /\ op = "MACHINE_REC" /\ WriteGrantable(rec_sem, t)
       /\ rec_sem' = WriteGranted(rec_sem, t)
       /\ UNCHANGED <<rec, set, set_sem>>
    \/ /\ op = "MACHINE_SET" /\ WriteGrantable(set_sem, t)
       /\ set_sem' = WriteGranted(set_sem, t)
       /\ UNCHANGED <<rec, set, rec_sem>>

assign_toggle(op, v) ==
    \/ op = "MACHINE_REC" /\ rec' = v /\ UNCHANGED <<set, rec_sem, set_sem>>
    \/ op = "MACHINE_SET" /\ set' = v /\ UNCHANGED <<rec, rec_sem, set_sem>>

up_write_toggle(op) ==
    \/ op = "MACHINE_REC" /\ rec_sem' = up_write(rec_sem) /\ UNCHANGED <<rec, set, set_sem>>
    \/ op = "MACHINE_SET" /\ set_sem' = up_write(set_sem) /\ UNCHANGED <<rec, set, rec_sem>>

StateMachineTypeOK ==
    /\ rec \in Toggle /\ set \in Toggle
    /\ rec_sem \in Semaphore /\ set_sem \in Semaphore
=============================================================================
