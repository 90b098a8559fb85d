---------------------------- MODULE MonitorProofs ----------------------------
(***************************************************************************)
(* The two halves of the monitor together, for any number of threads and   *)
(* any calls of them.  Every step is one of the handlers or leaves them    *)
(* alone, so what IoctlProofs shows of them holds here; and only a thread  *)
(* whose handler is in the path store changes what is protected.           *)
(***************************************************************************)
EXTENDS Monitor, IoctlProofs

-----------------------------------------------------------------------------
(* The steps of a handler before, after and without the path store. *)
LEMMA StepOfHandler ==
    ASSUME \/ \E t \in Threads : \E r \in Asked[t] : ioctl(t, r)
           \/ \E t \in Threads : ioctl_refused(t) \/ OutsideStore(t) \/ klrm_path_return(t)
           \/ \E t \in Threads : \E x \in Calls : klrm_path_call(t, x)
    PROVE  Next
BY AskedAssumption DEF ioctl, ioctl_refused, OutsideStore, klrm_path_return, klrm_path_call,
                       Next, Proceed

(* The handlers do nothing while one of their calls is in the path store.  *)
LEMMA RestOfHandlers ==
    ASSUME \/ \E t \in Threads : klrm_path_run(t) \/ klrm_path_lock(t)
           \/ refresh_nonces \/ klrm_exit \/ cleanup_path_store \/ UNCHANGED allVars
    PROVE  UNCHANGED vars
BY DEF klrm_path_run, klrm_path_lock, refresh_nonces, klrm_exit, cleanup_path_store, allVars,
       apiVars

(* A step of the monitor is a step of the handlers alone, or leaves them   *)
(* as they are.                                                            *)
LEMMA EveryStepOfHandlers == [MonitorNext]_allVars => [Next]_vars
BY StepOfHandler, RestOfHandlers DEF MonitorNext, MonitorProceed

(* So the handlers' inductive invariant holds of the whole. *)
LEMMA HandlersInvariant == MonitorSpec => []IInv
<1>1. MonitorInit => IInv
  BY InitIInv DEF MonitorInit
<1>2. IInv /\ [MonitorNext]_allVars => IInv'
  BY EveryStepOfHandlers, NextIInv
<1> QED
  BY <1>1, <1>2, PTL DEF MonitorSpec

(***************************************************************************)
(* What TypeCorrect, StoreOnlyWhileOn and HoldsAccounted say of the        *)
(* handlers alone holds with the store and the module's exit behind them.  *)
(***************************************************************************)
THEOREM HandlersSafe ==
    MonitorSpec => [](TypeOK /\ ReconfiguredOnlyWhileOn /\ ResourcesAccounted)
<1>1. IInv => TypeOK /\ ReconfiguredOnlyWhileOn /\ ResourcesAccounted
  BY DEF IInv
<1> QED
  BY <1>1, HandlersInvariant, PTL

-----------------------------------------------------------------------------
(***************************************************************************)
(* The second invariant: a thread that is inside the path store is there   *)
(* for its handler, which has checked the password and not yet left the    *)
(* state machine.                                                          *)
(***************************************************************************)
OnBehalfOfHandler ==
    /\ store_pc \in [Threads -> Store!PCs]
    /\ \A t \in Threads : InStore(t) => pc[t] = "store"
    /\ \A t \in Threads : pc[t] = "store" => req[t].good

(* What IoctlProofs says of the types, in the monitor's words. *)
LEMMA HandlersTypes ==
    ASSUME IInv
    PROVE  /\ pc \in [Threads -> PCs] /\ req \in [Threads -> Requests]
           /\ \A t \in Threads : pc[t] = "store" => rec = "ON"
BY DEF IInv, TypeOK, ReconfiguredOnlyWhileOn

(* A step of the store moves only its thread, which is in a call. *)
LEMMA StoreMoves ==
    ASSUME store_pc \in [Threads -> Store!PCs], NEW t \in Threads,
           Store!Proceed(t) \/ Store!lock_store(t)
    PROVE  /\ store_pc[t] # "idle"
           /\ \E l \in Store!PCs : store_pc' = [store_pc EXCEPT ![t] = l]
<1>1. CASE Store!lock_store(t)
  BY <1>1 DEF Store!lock_store, Store!AtLock, Store!Stored, Store!Goto, Store!PCs
<1>2. CASE Store!check_inode_hit(t) \/ Store!check_inode_miss(t)
  BY <1>2 DEF Store!check_inode_hit, Store!check_inode_miss, Store!Return, Store!Goto,
              Store!PCs
<1>3. CASE Store!process_path_store(t) \/ Store!process_path_refuse(t)
             \/ Store!process_path_dots(t)
  BY <1>3 DEF Store!process_path_store, Store!process_path_refuse, Store!process_path_dots,
              Store!Stored, Store!Return, Store!Goto, Store!PCs
<1>4. CASE Store!search_child(t) \/ Store!check_result(t)
  BY <1>4 DEF Store!search_child, Store!check_result, Store!Searched, Store!Return,
              Store!Goto, Store!PCs
<1>5. CASE \/ Store!add_empty_token(t) \/ Store!add_missing(t)
           \/ Store!add_create(t) \/ Store!add_mark(t)
  BY <1>5 DEF Store!add_empty_token, Store!add_missing, Store!add_create, Store!add_mark,
              Store!Searched, Store!Return, Store!Goto, Store!PCs
<1>6. CASE \/ Store!rm_absent(t) \/ Store!rm_unmark(t)
           \/ Store!rm_free(t) \/ Store!rm_done(t)
  BY <1>6 DEF Store!rm_absent, Store!rm_unmark, Store!rm_free, Store!rm_done,
              Store!Searched, Store!Return, Store!Goto, Store!PCs
<1> QED
  BY <1>1, <1>2, <1>3, <1>4, <1>5, <1>6 DEF Store!Proceed

(* Nobody is in the path store before the first call. *)
LEMMA BehalfStart == MonitorInit => OnBehalfOfHandler
BY DEF MonitorInit, Init, Store!Init, OnBehalfOfHandler, InStore, Store!PCs

(* A thread enters the store from klrm_path only, with a password found    *)
(* right, and its handler waits there.                                     *)
LEMMA BehalfStep == IInv /\ OnBehalfOfHandler /\ [MonitorNext]_allVars => OnBehalfOfHandler'
<1> SUFFICES ASSUME IInv, OnBehalfOfHandler, [MonitorNext]_allVars
             PROVE  OnBehalfOfHandler'
  OBVIOUS
<1> USE HandlersTypes DEF OnBehalfOfHandler, InStore
<1>1. CASE \E t \in Threads : \E r \in Asked[t] : ioctl(t, r)
  BY <1>1 DEF ioctl, dev_ioctl, Goto, storeVars
<1>2. CASE \E t \in Threads : OutsideStore(t)
  <2>1. PICK t \in Threads : OutsideStore(t)
    BY <1>2
  <2>2. \/ \E l \in PCs \ {"store"} : Goto(t, l) /\ req' = req
        \/ Return(t)
    BY <2>1 DEF OutsideStore, klrm_path_enter, klrm_path_busy, klrm_path_on, klrm_path_denied,
                klrm_toggle_refused, klrm_toggle_authorised, klrm_toggle_down,
                klrm_toggle_assign, klrm_toggle_up, PCs
  <2>3. pc[t] # "store"
    BY <2>1 DEF OutsideStore, klrm_path_enter, klrm_path_busy, klrm_path_on, klrm_path_denied,
                klrm_toggle_refused, klrm_toggle_authorised, klrm_toggle_down,
                klrm_toggle_assign, klrm_toggle_up
  <2> QED
    BY <2>1, <2>2, <2>3 DEF OutsideStore, storeVars, Goto, Return
<1>3. CASE \E t \in Threads : \E x \in Calls : klrm_path_call(t, x)
  BY <1>3 DEF klrm_path_call, klrm_path_authorised, Goto, Store!Call, Store!Goto,
              Store!PCs
<1>4. CASE \E t \in Threads : klrm_path_return(t)
  BY <1>4 DEF klrm_path_return, klrm_path_done, Return, Goto, storeVars
<1>5. CASE \E t \in Threads : klrm_path_run(t) \/ klrm_path_lock(t)
  BY <1>5, StoreMoves DEF klrm_path_run, klrm_path_lock, apiVars, vars
<1>6. CASE \E t \in Threads : ioctl_refused(t)
  BY <1>6 DEF ioctl_refused, dev_ioctl_refused, dev_ioctl_unknown, vars, storeVars
<1>7. CASE refresh_nonces \/ klrm_exit \/ cleanup_path_store \/ UNCHANGED allVars
  BY <1>7 DEF refresh_nonces, Store!refresh_nonces, klrm_exit, cleanup_path_store, allVars,
              apiVars, vars, storeVars
<1> QED
  BY <1>1, <1>2, <1>3, <1>4, <1>5, <1>6, <1>7 DEF MonitorNext, MonitorProceed

-----------------------------------------------------------------------------
(* The set of protected paths is read off the tree alone. *)
LEMMA ProtectedOfTree ==
    ASSUME UNCHANGED <<allocations, parent, dir_name, explicited>>
    PROVE  UNCHANGED Store!Protected
BY DEF Store!Protected, Store!PathOf, Store!Tree, Store!Nodes

(* The set of protected paths changes by a thread in the store, on behalf  *)
(* of a handler that still holds rec.                                      *)
LEMMA ProtectionStep ==
    ASSUME IInv, OnBehalfOfHandler, [MonitorNext]_allVars,
           Store!Protected' # Store!Protected, module' # "gone"
    PROVE  /\ rec = "ON" /\ rec' = "ON"
           /\ \E t \in Threads : InStore(t) /\ req[t].good /\ pc[t] = "store"
<1>1. ~UNCHANGED <<allocations, parent, dir_name, explicited>>
  BY ProtectedOfTree
<1>2. PICK t \in Threads : klrm_path_run(t)
  BY <1>1 DEF MonitorNext, MonitorProceed, ioctl, ioctl_refused, OutsideStore, klrm_path_call,
              klrm_path_return, klrm_path_lock, Store!Call, Store!lock_store, Store!treeVars, refresh_nonces,
              Store!refresh_nonces, klrm_exit, cleanup_path_store, allVars, storeVars
<1>3. InStore(t)
  BY <1>2, StoreMoves DEF klrm_path_run, OnBehalfOfHandler, InStore
<1> QED
  BY <1>2, <1>3, HandlersTypes DEF klrm_path_run, OnBehalfOfHandler, apiVars,
                               vars

(***************************************************************************)
(* What is protected changes only while reconfiguration is on, and only    *)
(* under a request with the right password: the read hold of rec_sem spans *)
(* path_store_add and path_store_rm in klrm_path_add and klrm_path_rm.     *)
(***************************************************************************)
THEOREM ProtectionUnderHold == MonitorSpec => ProtectionChangesOnlyWhileOn
<1>1. MonitorInit => OnBehalfOfHandler
  BY BehalfStart
<1>2. IInv /\ OnBehalfOfHandler /\ [MonitorNext]_allVars => OnBehalfOfHandler'
  BY BehalfStep
<1>3. IInv /\ OnBehalfOfHandler /\ [MonitorNext]_allVars =>
        [(Store!Protected' # Store!Protected /\ module' # "gone") =>
           /\ rec = "ON" /\ rec' = "ON"
           /\ \E t \in Threads : InStore(t) /\ req[t].good /\ pc[t] = "store"]_allVars
  BY ProtectionStep
<1> QED
  BY <1>1, <1>2, <1>3, HandlersInvariant, PTL DEF MonitorSpec, ProtectionChangesOnlyWhileOn
=============================================================================
