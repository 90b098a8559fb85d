---------------------------- MODULE IoctlProofs ----------------------------
(***************************************************************************)
(* The safety of the ioctl handlers over the state machine, for any finite *)
(* number of threads.                                                      *)
(***************************************************************************)
EXTENDS Ioctl, FiniteSetTheorems, TLAPS

-----------------------------------------------------------------------------
(* Counting threads. *)

LEMMA CountNat ==
    ASSUME NEW S \in SUBSET Threads
    PROVE  IsFiniteSet(S) /\ Cardinality(S) \in Nat
BY ThreadsAssumption, FS_Subset, FS_CardinalityType

LEMMA CountAdd ==
    ASSUME NEW S \in SUBSET Threads, NEW t \in Threads, t \notin S
    PROVE  Cardinality(S \cup {t}) = Cardinality(S) + 1
BY CountNat, FS_AddElement

LEMMA CountRemove ==
    ASSUME NEW S \in SUBSET Threads, NEW t \in S
    PROVE  Cardinality(S \ {t}) = Cardinality(S) - 1 /\ Cardinality(S) \in Nat \ {0}
<1>1. IsFiniteSet(S) /\ Cardinality(S) \in Nat
  BY CountNat
<1>2. Cardinality(S \ {t}) = Cardinality(S) - 1
  BY <1>1, FS_RemoveElement
<1>3. S \ {t} \in SUBSET Threads
  OBVIOUS
<1>4. Cardinality(S \ {t}) \in Nat
  BY <1>3, CountNat
<1> QED
  BY <1>1, <1>2, <1>4

(* A read hold: the places of a handler that has one. *)
HoldPCs == {"test_rec", "auth", "store"}

LEMMA Counts ==
    ASSUME pc \in [Threads -> PCs]
    PROVE  /\ Holders \in SUBSET Threads /\ Cardinality(Holders) \in Nat
           /\ InCall \in SUBSET Threads /\ Cardinality(InCall) \in Nat
<1>1. Holders \in SUBSET Threads /\ InCall \in SUBSET Threads
  BY DEF Holders, InCall
<1> QED
  BY <1>1, CountNat

(* How a step of t from pc[t] to l changes the two counts. *)
LEMMA GotoHolders ==
    ASSUME pc \in [Threads -> PCs], NEW t \in Threads, NEW l \in PCs, Goto(t, l)
    PROVE  Cardinality(Holders)' =
               Cardinality(Holders)
               + (IF l \in HoldPCs /\ pc[t] \notin HoldPCs THEN 1
                  ELSE IF l \notin HoldPCs /\ pc[t] \in HoldPCs THEN -1 ELSE 0)
<1>1. Holders \in SUBSET Threads /\ Cardinality(Holders) \in Nat
  BY Counts
<1>2. Cardinality(Holders)' = Cardinality(Holders')
  OBVIOUS
<1>3. CASE l \in HoldPCs /\ pc[t] \notin HoldPCs
  <2>1. Holders' = Holders \cup {t} /\ t \notin Holders
    BY <1>3 DEF Goto, Holders, HoldPCs
  <2> QED
    BY <1>1, <1>3, <2>1, CountAdd
<1>4. CASE l \notin HoldPCs /\ pc[t] \in HoldPCs
  <2>1. Holders' = Holders \ {t} /\ t \in Holders
    BY <1>4 DEF Goto, Holders, HoldPCs
  <2> QED
    BY <1>1, <1>4, <2>1, CountRemove
<1>5. CASE (l \in HoldPCs) <=> (pc[t] \in HoldPCs)
  <2>1. Holders' = Holders
    BY <1>5 DEF Goto, Holders, HoldPCs
  <2> QED
    BY <1>1, <1>5, <2>1
<1> QED
  BY <1>3, <1>4, <1>5

LEMMA GotoInCall ==
    ASSUME pc \in [Threads -> PCs], NEW t \in Threads, NEW l \in PCs, Goto(t, l)
    PROVE  Cardinality(InCall)' =
               Cardinality(InCall)
               + (IF l # "idle" /\ pc[t] = "idle" THEN 1
                  ELSE IF l = "idle" /\ pc[t] # "idle" THEN -1 ELSE 0)
<1>1. InCall \in SUBSET Threads /\ Cardinality(InCall) \in Nat
  BY Counts
<1>3. CASE l # "idle" /\ pc[t] = "idle"
  <2>1. InCall' = InCall \cup {t} /\ t \notin InCall
    BY <1>3 DEF Goto, InCall
  <2> QED
    BY <1>1, <1>3, <2>1, CountAdd
<1>4. CASE l = "idle" /\ pc[t] # "idle"
  <2>1. InCall' = InCall \ {t} /\ t \in InCall
    BY <1>4 DEF Goto, InCall
  <2> QED
    BY <1>1, <1>4, <2>1, CountRemove
<1>5. CASE (l # "idle") <=> (pc[t] # "idle")
  <2>1. InCall' = InCall
    BY <1>5 DEF Goto, InCall
  <2> QED
    BY <1>1, <1>5, <2>1
<1> QED
  BY <1>3, <1>4, <1>5

-----------------------------------------------------------------------------
(* The operations of a semaphore keep its type. *)

LEMMA SemaphoreOps ==
    ASSUME NEW sem \in Semaphore, NEW t \in Threads
    PROVE  /\ \A mode \in {"R", "W"} :
                 /\ Join(sem, t, mode) \in Semaphore
                 /\ Join(sem, t, mode).readers = sem.readers
                 /\ Join(sem, t, mode).writer = sem.writer
           /\ sem.queue # <<>> =>
                 /\ ReadGranted(sem) \in Semaphore
                 /\ ReadGranted(sem).readers = sem.readers + 1
                 /\ ReadGranted(sem).writer = sem.writer
                 /\ WriteGranted(sem, t) \in Semaphore
                 /\ WriteGranted(sem, t).readers = sem.readers
                 /\ WriteGranted(sem, t).writer = t
           /\ up_write(sem) \in Semaphore
           /\ up_write(sem).readers = sem.readers
           /\ up_write(sem).writer = NoThread
           /\ sem.readers > 0 => up_read(sem) \in Semaphore
           /\ up_read(sem).readers = sem.readers - 1
           /\ up_read(sem).writer = sem.writer
<1>1. /\ sem.readers \in Nat /\ sem.writer \in Threads \cup {NoThread}
      /\ sem.queue \in Seq(Waiter)
      /\ sem = [readers |-> sem.readers, writer |-> sem.writer, queue |-> sem.queue]
  BY DEF Semaphore
<1>2. ASSUME NEW mode \in {"R", "W"}
      PROVE  /\ Join(sem, t, mode) \in Semaphore
             /\ Join(sem, t, mode).readers = sem.readers
             /\ Join(sem, t, mode).writer = sem.writer
  <2>1. Append(sem.queue, <<t, mode>>) \in Seq(Waiter)
    BY <1>1 DEF Waiter
  <2> QED
    BY <1>1, <2>1 DEF Join, Semaphore
<1>3. ASSUME sem.queue # <<>>
      PROVE  /\ ReadGranted(sem) \in Semaphore
             /\ ReadGranted(sem).readers = sem.readers + 1
             /\ ReadGranted(sem).writer = sem.writer
             /\ WriteGranted(sem, t) \in Semaphore
             /\ WriteGranted(sem, t).readers = sem.readers
             /\ WriteGranted(sem, t).writer = t
  <2>1. Tail(sem.queue) \in Seq(Waiter)
    BY <1>1, <1>3
  <2> QED
    BY <1>1, <2>1 DEF ReadGranted, WriteGranted, Semaphore
<1>4. /\ up_write(sem) \in Semaphore
      /\ up_write(sem).readers = sem.readers
      /\ up_write(sem).writer = NoThread
      /\ sem.readers > 0 => up_read(sem) \in Semaphore
      /\ up_read(sem).readers = sem.readers - 1
      /\ up_read(sem).writer = sem.writer
  BY <1>1 DEF up_read, up_write, Semaphore
<1> QED
  BY <1>2, <1>3, <1>4

-----------------------------------------------------------------------------
(***************************************************************************)
(* The inductive invariant: a thread between down_write and up_write on    *)
(* rec_sem is its writer, a semaphore with a writer has no read holds, and *)
(* the read holds are the handlers' and the leaked ones.  So whoever       *)
(* assigns rec knows that no handler is between its test of rec and its    *)
(* exit.                                                                   *)
(***************************************************************************)
RecOwned ==
    /\ \A t \in Threads :
           (pc[t] \in {"assign", "up_write"} /\ req[t].op = "MACHINE_REC") => rec_sem.writer = t
    /\ rec_sem.writer # NoThread => rec_sem.readers = 0

IInv == TypeOK /\ RecOwned /\ ResourcesAccounted /\ ReconfiguredOnlyWhileOn

(* What an idle thread's request stands at is a request. *)
LEMMA NoRequestType == NoRequest \in Requests
BY DEF NoRequest, Requests, StoreOps

(* The handlers start in the invariant. *)
LEMMA InitIInv == Init => IInv
<1> SUFFICES ASSUME Init PROVE IInv
  OBVIOUS
<1>0. /\ rec = "ON" /\ set = "ON" /\ rec_sem = init_rwsem /\ set_sem = init_rwsem
      /\ pc = [t \in Threads |-> "idle"]
      /\ inputs = 0 /\ leakedHolds = 0 /\ leakedInputs = 0
      /\ req = [t \in Threads |-> NoRequest]
  BY DEF Init, setup_state_machine
<1>1. TypeOK
  <2>1. init_rwsem \in Semaphore
    BY DEF init_rwsem, Semaphore
  <2>3. req \in [Threads -> Requests]
    BY <1>0, NoRequestType
  <2> QED
    BY <1>0, <2>1, <2>3 DEF TypeOK, StateMachineTypeOK, Toggle, PCs
<1>2. RecOwned
  BY <1>0 DEF RecOwned, init_rwsem
<1>3. ResourcesAccounted
  <2>1. Holders = {} /\ InCall = {}
    BY <1>0 DEF Holders, InCall
  <2> QED
    BY <1>0, <2>1, FS_EmptySet DEF ResourcesAccounted, init_rwsem
<1>4. ReconfiguredOnlyWhileOn
  BY <1>0 DEF ReconfiguredOnlyWhileOn
<1> QED
  BY <1>1, <1>2, <1>3, <1>4 DEF IInv

(* The facts every step's proof starts from. *)
LEMMA Basics ==
    ASSUME IInv
    PROVE  /\ pc \in [Threads -> PCs] /\ req \in [Threads -> Requests]
           /\ rec \in Toggle /\ set \in Toggle
           /\ rec_sem \in Semaphore /\ set_sem \in Semaphore
           /\ rec_sem.readers \in Nat
           /\ inputs \in Nat /\ leakedHolds \in Nat /\ leakedInputs \in Nat
           /\ Cardinality(Holders) \in Nat /\ Cardinality(InCall) \in Nat
           /\ rec_sem.readers = Cardinality(Holders) + leakedHolds
           /\ inputs = Cardinality(InCall) + leakedInputs
BY Counts DEF IInv, TypeOK, StateMachineTypeOK, ResourcesAccounted, Semaphore

(* A handler that has a hold is counted, so it has one to give back. *)
LEMMA HolderCounted ==
    ASSUME IInv, NEW t \in Threads, pc[t] \in HoldPCs
    PROVE  rec_sem.readers > 0 /\ rec_sem.writer = NoThread
<1>1. Holders \in SUBSET Threads /\ t \in Holders
  BY DEF Holders, HoldPCs
<1>2. Cardinality(Holders) \in Nat \ {0}
  BY <1>1, CountRemove
<1> QED
  BY <1>2, Basics DEF IInv, RecOwned

(* dev_ioctl and its default case. *)
LEMMA CallIInv ==
    ASSUME IInv, NEW t \in Threads, NEW r \in Requests, dev_ioctl(t, r)
    PROVE  IInv'
<1>0. /\ pc[t] = "idle" /\ req' = [req EXCEPT ![t] = r] /\ inputs' = inputs + 1
      /\ UNCHANGED <<rec, set, set_sem, leakedHolds, leakedInputs>>
      /\ rec_sem' = rec_sem \/ rec_sem' = Join(rec_sem, t, "R")
      /\ Goto(t, "down_read") \/ Goto(t, "ctl_auth")
  BY DEF dev_ioctl, leakVars, smVars
<1>1. /\ rec_sem' \in Semaphore /\ rec_sem'.readers = rec_sem.readers
      /\ rec_sem'.writer = rec_sem.writer
  BY <1>0, Basics, SemaphoreOps
<1>2. PICK m \in {"down_read", "ctl_auth"} : Goto(t, m)
  BY <1>0
<1>3. pc' = [pc EXCEPT ![t] = m]
  BY <1>2 DEF Goto
<1>4. TypeOK'
  BY <1>0, <1>1, <1>3, Basics DEF TypeOK, StateMachineTypeOK, PCs
<1>5. RecOwned'
  BY <1>0, <1>1, <1>3, Basics DEF IInv, RecOwned
<1>6. ResourcesAccounted'
  <2>1. Cardinality(Holders)' = Cardinality(Holders)
    BY <1>0, <1>2, Basics, GotoHolders DEF HoldPCs, PCs
  <2>2. Cardinality(InCall)' = Cardinality(InCall) + 1
    BY <1>0, <1>2, Basics, GotoInCall DEF PCs
  <2> QED
    BY <1>0, <1>1, <2>1, <2>2, Basics DEF ResourcesAccounted
<1>7. ReconfiguredOnlyWhileOn'
  BY <1>0, <1>3, Basics DEF IInv, ReconfiguredOnlyWhileOn
<1> QED
  BY <1>4, <1>5, <1>6, <1>7 DEF IInv

LEMMA UnknownIInv ==
    ASSUME IInv, NEW t \in Threads, dev_ioctl_unknown(t)
    PROVE  IInv'
<1>0. /\ inputs' = inputs + 1 /\ leakedInputs' = leakedInputs + 1
      /\ UNCHANGED <<rec, set, rec_sem, set_sem, pc, req, leakedHolds>>
  BY DEF dev_ioctl_unknown
<1>1. TypeOK' /\ RecOwned' /\ ReconfiguredOnlyWhileOn'
  BY <1>0 DEF IInv, TypeOK, StateMachineTypeOK, RecOwned, ReconfiguredOnlyWhileOn
<1>2. ResourcesAccounted'
  BY <1>0, Basics DEF ResourcesAccounted, Holders, InCall
<1> QED
  BY <1>1, <1>2 DEF IInv

(* state_machine_enter_rec_on: down_read is granted. *)
LEMMA EnterIInv ==
    ASSUME IInv, NEW t \in Threads, klrm_path_enter(t)
    PROVE  IInv'
<1>0. /\ pc[t] = "down_read" /\ Goto(t, "test_rec") /\ ReadGrantable(rec_sem, t)
      /\ rec_sem' = ReadGranted(rec_sem)
      /\ UNCHANGED <<rec, set, set_sem, req, inputs, leakedHolds, leakedInputs>>
  BY DEF klrm_path_enter, enter_rec_on_down
<1>1. /\ rec_sem' \in Semaphore /\ rec_sem'.readers = rec_sem.readers + 1
      /\ rec_sem'.writer = rec_sem.writer /\ rec_sem.writer = NoThread
  BY <1>0, Basics, SemaphoreOps DEF ReadGrantable, AtHead
<1>3. pc' = [pc EXCEPT ![t] = "test_rec"]
  BY <1>0 DEF Goto
<1>4. TypeOK'
  BY <1>0, <1>1, <1>3, Basics DEF TypeOK, StateMachineTypeOK, PCs
<1>5. RecOwned'
  BY <1>0, <1>1, <1>3, Basics DEF IInv, RecOwned
<1>6. ResourcesAccounted'
  <2>1. Cardinality(Holders)' = Cardinality(Holders) + 1
    BY <1>0, Basics, GotoHolders DEF HoldPCs, PCs
  <2>2. Cardinality(InCall)' = Cardinality(InCall)
    BY <1>0, Basics, GotoInCall DEF PCs
  <2> QED
    BY <1>0, <1>1, <2>1, <2>2, Basics DEF ResourcesAccounted
<1>7. ReconfiguredOnlyWhileOn'
  BY <1>0, <1>3, Basics DEF IInv, ReconfiguredOnlyWhileOn
<1> QED
  BY <1>4, <1>5, <1>6, <1>7 DEF IInv

(* The handlers that give their hold back and return: -EBUSY and success. *)
LEMMA ExitIInv ==
    ASSUME IInv, NEW t \in Threads, klrm_path_busy(t) \/ klrm_path_done(t)
    PROVE  IInv'
<1>0. /\ pc[t] \in HoldPCs /\ Goto(t, "idle")
      /\ rec_sem' = up_read(rec_sem) /\ inputs' = inputs - 1
      /\ req' = [req EXCEPT ![t] = NoRequest]
      /\ UNCHANGED <<rec, set, set_sem, leakedHolds, leakedInputs>>
  BY DEF klrm_path_busy, klrm_path_done, enter_rec_on_no, state_machine_rec_exit, Return,
         HoldPCs
<1>1. /\ rec_sem' \in Semaphore /\ rec_sem'.readers = rec_sem.readers - 1
      /\ rec_sem'.writer = rec_sem.writer /\ rec_sem.writer = NoThread
  BY <1>0, Basics, SemaphoreOps, HolderCounted
<1>2. pc[t] # "idle"
  BY <1>0 DEF HoldPCs
<1>3. pc' = [pc EXCEPT ![t] = "idle"]
  BY <1>0 DEF Goto
<1>4. ResourcesAccounted' /\ inputs' \in Nat
  <2>1. Cardinality(Holders)' = Cardinality(Holders) - 1
    BY <1>0, Basics, GotoHolders DEF HoldPCs, PCs
  <2>2. Cardinality(InCall)' = Cardinality(InCall) - 1
    BY <1>0, <1>2, Basics, GotoInCall DEF PCs
  <2>3. Cardinality(InCall)' \in Nat
    <3>1. pc' \in [Threads -> PCs]
      BY <1>3, Basics DEF PCs
    <3>2. InCall' \in SUBSET Threads
      BY DEF InCall
    <3> QED
      BY <3>2, CountNat
  <2> QED
    BY <1>0, <1>1, <2>1, <2>2, <2>3, Basics DEF ResourcesAccounted
<1>5. TypeOK'
  BY <1>0, <1>1, <1>3, <1>4, Basics, NoRequestType DEF TypeOK, StateMachineTypeOK, PCs
<1>6. RecOwned'
  BY <1>0, <1>1, <1>3, Basics DEF IInv, RecOwned
<1>7. ReconfiguredOnlyWhileOn'
  BY <1>0, <1>3, Basics DEF IInv, ReconfiguredOnlyWhileOn
<1> QED
  BY <1>4, <1>5, <1>6, <1>7 DEF IInv

(* The test of rec succeeds; the password is right. *)
LEMMA GoOnIInv ==
    ASSUME IInv, NEW t \in Threads, klrm_path_on(t) \/ klrm_path_authorised(t)
    PROVE  IInv'
<1>0. /\ pc[t] \in HoldPCs
      /\ Goto(t, "auth") \/ Goto(t, "store")
      /\ pc[t] = "test_rec" => rec = "ON"
      /\ pc[t] \in {"test_rec", "auth"}
      /\ UNCHANGED <<rec, set, rec_sem, set_sem, req, inputs, leakedHolds, leakedInputs>>
  BY DEF klrm_path_on, klrm_path_authorised, enter_rec_on_yes, smVars, HoldPCs
<1>1. PICK m \in {"auth", "store"} : Goto(t, m)
  BY <1>0
<1>2. pc' = [pc EXCEPT ![t] = m]
  BY <1>1 DEF Goto
<1>3. TypeOK'
  BY <1>0, <1>2, Basics DEF TypeOK, StateMachineTypeOK, PCs
<1>4. RecOwned'
  BY <1>0, <1>2, Basics DEF IInv, RecOwned
<1>5. ResourcesAccounted'
  <2>1. Cardinality(Holders)' = Cardinality(Holders)
    BY <1>0, <1>1, Basics, GotoHolders DEF HoldPCs, PCs
  <2>2. Cardinality(InCall)' = Cardinality(InCall)
    BY <1>0, <1>1, Basics, GotoInCall DEF HoldPCs, PCs
  <2> QED
    BY <1>0, <2>1, <2>2, Basics DEF ResourcesAccounted
<1>6. ReconfiguredOnlyWhileOn'
  BY <1>0, <1>2, Basics DEF IInv, ReconfiguredOnlyWhileOn
<1> QED
  BY <1>3, <1>4, <1>5, <1>6 DEF IInv

(* Returns that touch no semaphore: -EACCES with the hold kept, and the    *)
(* refusals of klrm_set and klrm_rec.                                      *)
LEMMA RefuseIInv ==
    ASSUME IInv, NEW t \in Threads, klrm_path_denied(t) \/ klrm_toggle_refused(t)
    PROVE  IInv'
<1>0. /\ pc[t] # "idle" /\ Goto(t, "idle") /\ inputs' = inputs - 1
      /\ \/ pc[t] = "auth" /\ leakedHolds' = leakedHolds + 1
         \/ pc[t] = "ctl_auth" /\ leakedHolds' = leakedHolds
      /\ req' = [req EXCEPT ![t] = NoRequest]
      /\ UNCHANGED <<rec, set, rec_sem, set_sem, leakedInputs>>
  BY DEF klrm_path_denied, klrm_toggle_refused, Return
<1>1. pc' = [pc EXCEPT ![t] = "idle"]
  BY <1>0 DEF Goto
<1>2. ResourcesAccounted' /\ inputs' \in Nat
  <2>1. \/ pc[t] = "auth" /\ Cardinality(Holders)' = Cardinality(Holders) - 1
        \/ pc[t] = "ctl_auth" /\ Cardinality(Holders)' = Cardinality(Holders)
    BY <1>0, Basics, GotoHolders DEF HoldPCs, PCs
  <2>2. Cardinality(InCall)' = Cardinality(InCall) - 1
    BY <1>0, Basics, GotoInCall DEF PCs
  <2>3. Cardinality(InCall)' \in Nat
    <3>1. InCall' \in SUBSET Threads
      BY DEF InCall
    <3> QED
      BY <3>1, CountNat
  <2> QED
    BY <1>0, <2>1, <2>2, <2>3, Basics DEF ResourcesAccounted
<1>3. TypeOK'
  BY <1>0, <1>1, <1>2, Basics, NoRequestType DEF TypeOK, StateMachineTypeOK, PCs
<1>4. RecOwned'
  BY <1>0, <1>1, Basics DEF IInv, RecOwned
<1>5. ReconfiguredOnlyWhileOn'
  BY <1>0, <1>1, Basics DEF IInv, ReconfiguredOnlyWhileOn
<1> QED
  BY <1>2, <1>3, <1>4, <1>5 DEF IInv

(* A toggle call joins the queue of its semaphore. *)
LEMMA QueueIInv ==
    ASSUME IInv, NEW t \in Threads, klrm_toggle_authorised(t)
    PROVE  IInv'
<1>0. /\ pc[t] = "ctl_auth" /\ Goto(t, "down_write")
      /\ rec_sem' = rec_sem \/ rec_sem' = Join(rec_sem, t, "W")
      /\ set_sem' = set_sem \/ set_sem' = Join(set_sem, t, "W")
      /\ UNCHANGED <<rec, set, req, inputs, leakedHolds, leakedInputs>>
  BY DEF klrm_toggle_authorised
<1>1. /\ rec_sem' \in Semaphore /\ rec_sem'.readers = rec_sem.readers
      /\ rec_sem'.writer = rec_sem.writer /\ set_sem' \in Semaphore
  <2>1. /\ Join(rec_sem, t, "W") \in Semaphore
        /\ Join(rec_sem, t, "W").readers = rec_sem.readers
        /\ Join(rec_sem, t, "W").writer = rec_sem.writer
    BY Basics, SemaphoreOps
  <2>2. Join(set_sem, t, "W") \in Semaphore
    BY Basics, SemaphoreOps
  <2> QED
    BY <1>0, <2>1, <2>2, Basics
<1>2. pc' = [pc EXCEPT ![t] = "down_write"]
  BY <1>0 DEF Goto
<1>3. TypeOK'
  BY <1>0, <1>1, <1>2, Basics DEF TypeOK, StateMachineTypeOK, PCs
<1>4. RecOwned'
  BY <1>0, <1>1, <1>2, Basics DEF IInv, RecOwned
<1>5. ResourcesAccounted'
  <2>1. Cardinality(Holders)' = Cardinality(Holders)
    BY <1>0, Basics, GotoHolders DEF HoldPCs, PCs
  <2>2. Cardinality(InCall)' = Cardinality(InCall)
    BY <1>0, Basics, GotoInCall DEF PCs
  <2> QED
    BY <1>0, <1>1, <2>1, <2>2, Basics DEF ResourcesAccounted
<1>6. ReconfiguredOnlyWhileOn'
  BY <1>0, <1>2, Basics DEF IInv, ReconfiguredOnlyWhileOn
<1> QED
  BY <1>3, <1>4, <1>5, <1>6 DEF IInv

(* down_write is granted: only when nobody holds the semaphore. *)
LEMMA DownIInv ==
    ASSUME IInv, NEW t \in Threads, klrm_toggle_down(t)
    PROVE  IInv'
<1>0. /\ pc[t] = "down_write" /\ Goto(t, "assign")
      /\ \/ /\ req[t].op = "MACHINE_REC" /\ WriteGrantable(rec_sem, t)
            /\ rec_sem' = WriteGranted(rec_sem, t) /\ set_sem' = set_sem
         \/ /\ req[t].op = "MACHINE_SET" /\ WriteGrantable(set_sem, t)
            /\ set_sem' = WriteGranted(set_sem, t) /\ rec_sem' = rec_sem
      /\ UNCHANGED <<rec, set, req, inputs, leakedHolds, leakedInputs>>
  BY DEF klrm_toggle_down, down_write_toggle
<1>1. /\ rec_sem' \in Semaphore /\ set_sem' \in Semaphore
      /\ rec_sem'.readers = rec_sem.readers
      /\ \/ /\ req[t].op = "MACHINE_REC" /\ rec_sem'.writer = t
            /\ rec_sem.writer = NoThread /\ rec_sem.readers = 0
         \/ req[t].op = "MACHINE_SET" /\ rec_sem' = rec_sem
  <2>1. CASE req[t].op = "MACHINE_REC"
    <3>1. /\ rec_sem' = WriteGranted(rec_sem, t) /\ set_sem' = set_sem
          /\ rec_sem.queue # <<>> /\ rec_sem.writer = NoThread /\ rec_sem.readers = 0
      BY <1>0, <2>1 DEF WriteGrantable, AtHead
    <3>2. /\ WriteGranted(rec_sem, t) \in Semaphore
          /\ WriteGranted(rec_sem, t).readers = rec_sem.readers
          /\ WriteGranted(rec_sem, t).writer = t
      BY <3>1, Basics, SemaphoreOps
    <3> QED
      BY <2>1, <3>1, <3>2, Basics
  <2>2. CASE req[t].op = "MACHINE_SET"
    <3>1. set_sem' = WriteGranted(set_sem, t) /\ rec_sem' = rec_sem /\ set_sem.queue # <<>>
      BY <1>0, <2>2 DEF WriteGrantable, AtHead
    <3>2. WriteGranted(set_sem, t) \in Semaphore
      BY <3>1, Basics, SemaphoreOps
    <3> QED
      BY <2>2, <3>1, <3>2, Basics
  <2> QED
    BY <1>0, <2>1, <2>2
<1>2. pc' = [pc EXCEPT ![t] = "assign"]
  BY <1>0 DEF Goto
<1>3. TypeOK'
  BY <1>0, <1>1, <1>2, Basics DEF TypeOK, StateMachineTypeOK, PCs
<1>4. RecOwned'
  BY <1>0, <1>1, <1>2, Basics, NoThreadAssumption DEF IInv, RecOwned
<1>5. ResourcesAccounted'
  <2>1. Cardinality(Holders)' = Cardinality(Holders)
    BY <1>0, Basics, GotoHolders DEF HoldPCs, PCs
  <2>2. Cardinality(InCall)' = Cardinality(InCall)
    BY <1>0, Basics, GotoInCall DEF PCs
  <2> QED
    BY <1>0, <1>1, <2>1, <2>2, Basics DEF ResourcesAccounted
<1>6. ReconfiguredOnlyWhileOn'
  BY <1>0, <1>2, Basics DEF IInv, ReconfiguredOnlyWhileOn
<1> QED
  BY <1>3, <1>4, <1>5, <1>6 DEF IInv

(* The assignment of a toggle: of rec, only while no handler has a hold. *)
LEMMA AssignIInv ==
    ASSUME IInv, NEW t \in Threads, klrm_toggle_assign(t)
    PROVE  IInv'
<1>0. /\ pc[t] = "assign" /\ Goto(t, "up_write")
      /\ \/ req[t].op = "MACHINE_REC" /\ rec' = Target(t) /\ set' = set
         \/ req[t].op = "MACHINE_SET" /\ set' = Target(t) /\ rec' = rec
      /\ UNCHANGED <<rec_sem, set_sem, req, inputs, leakedHolds, leakedInputs>>
  BY DEF klrm_toggle_assign, assign_toggle
<1>1. rec' \in Toggle /\ set' \in Toggle
  BY <1>0, Basics DEF Target, Toggle
<1>2. pc' = [pc EXCEPT ![t] = "up_write"]
  BY <1>0 DEF Goto
<1>3. TypeOK'
  BY <1>0, <1>1, <1>2, Basics DEF TypeOK, StateMachineTypeOK, PCs
<1>4. RecOwned'
  BY <1>0, <1>2, Basics DEF IInv, RecOwned
<1>5. ResourcesAccounted'
  <2>1. Cardinality(Holders)' = Cardinality(Holders)
    BY <1>0, Basics, GotoHolders DEF HoldPCs, PCs
  <2>2. Cardinality(InCall)' = Cardinality(InCall)
    BY <1>0, Basics, GotoInCall DEF PCs
  <2> QED
    BY <1>0, <2>1, <2>2, Basics DEF ResourcesAccounted
<1>6. ReconfiguredOnlyWhileOn'
  <2>1. CASE req[t].op = "MACHINE_SET"
    BY <1>0, <1>2, <2>1, Basics DEF IInv, ReconfiguredOnlyWhileOn
  <2>2. CASE req[t].op = "MACHINE_REC"
    <3>1. rec_sem.writer = t
      BY <1>0, <2>2 DEF IInv, RecOwned
    <3>2. \A u \in Threads : pc[u] \notin HoldPCs
      BY <3>1, HolderCounted, NoThreadAssumption
    <3> QED
      BY <1>0, <1>2, <3>2, Basics DEF ReconfiguredOnlyWhileOn, HoldPCs
  <2> QED
    BY <1>0, <2>1, <2>2
<1> QED
  BY <1>3, <1>4, <1>5, <1>6 DEF IInv

(* up_write and the return of a toggle call. *)
LEMMA UpIInv ==
    ASSUME IInv, NEW t \in Threads, klrm_toggle_up(t)
    PROVE  IInv'
<1>0. /\ pc[t] = "up_write" /\ Goto(t, "idle") /\ inputs' = inputs - 1
      /\ \/ req[t].op = "MACHINE_REC" /\ rec_sem' = up_write(rec_sem) /\ set_sem' = set_sem
         \/ req[t].op = "MACHINE_SET" /\ set_sem' = up_write(set_sem) /\ rec_sem' = rec_sem
      /\ req' = [req EXCEPT ![t] = NoRequest]
      /\ UNCHANGED <<rec, set, leakedHolds, leakedInputs>>
  BY DEF klrm_toggle_up, up_write_toggle, Return
<1>1. /\ rec_sem' \in Semaphore /\ set_sem' \in Semaphore
      /\ rec_sem'.readers = rec_sem.readers
      /\ \/ req[t].op = "MACHINE_REC" /\ rec_sem'.writer = NoThread /\ rec_sem.writer = t
         \/ req[t].op = "MACHINE_SET" /\ rec_sem' = rec_sem
  <2>1. /\ up_write(rec_sem) \in Semaphore
        /\ up_write(rec_sem).readers = rec_sem.readers
        /\ up_write(rec_sem).writer = NoThread
    BY Basics, SemaphoreOps
  <2>2. up_write(set_sem) \in Semaphore
    BY Basics, SemaphoreOps
  <2>3. req[t].op = "MACHINE_REC" => rec_sem.writer = t
    BY <1>0 DEF IInv, RecOwned
  <2> QED
    BY <1>0, <2>1, <2>2, <2>3, Basics
<1>2. pc' = [pc EXCEPT ![t] = "idle"]
  BY <1>0 DEF Goto
<1>3. ResourcesAccounted' /\ inputs' \in Nat
  <2>1. Cardinality(Holders)' = Cardinality(Holders)
    BY <1>0, Basics, GotoHolders DEF HoldPCs, PCs
  <2>2. Cardinality(InCall)' = Cardinality(InCall) - 1
    BY <1>0, Basics, GotoInCall DEF PCs
  <2>3. Cardinality(InCall)' \in Nat
    <3>1. InCall' \in SUBSET Threads
      BY DEF InCall
    <3> QED
      BY <3>1, CountNat
  <2> QED
    BY <1>0, <1>1, <2>1, <2>2, <2>3, Basics DEF ResourcesAccounted
<1>4. TypeOK'
  BY <1>0, <1>1, <1>2, <1>3, Basics, NoRequestType DEF TypeOK, StateMachineTypeOK, PCs
<1>5. RecOwned'
  BY <1>0, <1>1, <1>2, Basics DEF IInv, RecOwned
<1>6. ReconfiguredOnlyWhileOn'
  BY <1>0, <1>2, Basics DEF IInv, ReconfiguredOnlyWhileOn
<1> QED
  BY <1>3, <1>4, <1>5, <1>6 DEF IInv

-----------------------------------------------------------------------------
LEMMA NextIInv == IInv /\ [Next]_vars => IInv'
<1> SUFFICES ASSUME IInv, [Next]_vars PROVE IInv'
  OBVIOUS
<1>1. CASE \E t \in Threads, r \in Requests : dev_ioctl(t, r)
  BY <1>1, CallIInv
<1>2. CASE \E t \in Threads : dev_ioctl_unknown(t)
  BY <1>2, UnknownIInv
<1>3. CASE \E t \in Threads : Proceed(t)
  BY <1>3, EnterIInv, ExitIInv, GoOnIInv, RefuseIInv, QueueIInv, DownIInv, AssignIInv, UpIInv
     DEF Proceed
<1>4. CASE UNCHANGED vars \/ \E t \in Threads : dev_ioctl_refused(t)
  BY <1>4 DEF dev_ioctl_refused, vars, IInv, TypeOK, StateMachineTypeOK, RecOwned, ResourcesAccounted,
              ReconfiguredOnlyWhileOn, Holders, InCall
<1> QED
  BY <1>1, <1>2, <1>3, <1>4 DEF Next

(* IInv holds in every state of the handlers: it is inductive. *)
THEOREM SpecIInv == Spec => []IInv
BY InitIInv, NextIInv, PTL DEF Spec

(***************************************************************************)
(* The variables keep their types: no handler gives back a read hold or    *)
(* frees an input buffer that is not there.                                *)
(***************************************************************************)
THEOREM TypeCorrect == Spec => []TypeOK
<1>1. IInv => TypeOK
  BY DEF IInv
<1> QED
  BY <1>1, SpecIInv, PTL

(***************************************************************************)
(* set_machine_rec_off cannot overtake a handler that has found rec ON:    *)
(* the path store is only used while reconfiguration is ON.                *)
(***************************************************************************)
THEOREM StoreOnlyWhileOn == Spec => []ReconfiguredOnlyWhileOn
<1>1. IInv => ReconfiguredOnlyWhileOn
  BY DEF IInv
<1> QED
  BY <1>1, SpecIInv, PTL

(***************************************************************************)
(* Every read hold of rec_sem belongs to a running handler or to a call    *)
(* answered -EACCES, every input buffer to a running call or to one with   *)
(* an unknown operation.                                                   *)
(***************************************************************************)
THEOREM HoldsAccounted == Spec => []ResourcesAccounted
<1>1. IInv => ResourcesAccounted
  BY DEF IInv
<1> QED
  BY <1>1, SpecIInv, PTL
=============================================================================
