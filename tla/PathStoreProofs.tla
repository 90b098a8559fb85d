--------------------------- MODULE PathStoreProofs ---------------------------
(***************************************************************************)
(* Theorems about PathStore, for any clients, calls, entries and texts.    *)
(*                                                                         *)
(* StoreInv is inductive.  Its parts need each other: that a writer alone  *)
(* touches the tree (Excludes) keeps the pointers of the others good, and  *)
(* that what a client points at hangs in the tree (Pointers) keeps the     *)
(* tree together when path_store_rm frees an entry.                        *)
(***************************************************************************)
EXTENDS PathStore, SublistProofs

(* What a client at each place is doing, and what its locals hold there.   *)
Places ==
    \A c \in Clients :
        /\ pc[c] \notin Critical => curr[c] = Root
        /\ pc[c] = "create" => call[c].op = "add"
        /\ pc[c] = "up" => call[c].op = "rm"
        /\ pc[c] = "up" => tmp[c] = <<>>

(* The lists of the tree have no repetition, which is what their length    *)
(* needs to be the number of the children.                                 *)
Hangs ==
    /\ \A e \in allocations : parent[e] \in Tree
    /\ \A n \in Tree :
           /\ Range(children[n]) = {e \in allocations : parent[e] = n}
           /\ IsInjective(children[n])
           /\ children_num[n] = Len(children[n])

StoreInv == TypeOK /\ StoreLockExcludes /\ Places /\ Hangs /\ NoUseAfterFree

-----------------------------------------------------------------------------
(* What process_path stores are numbers. *)
LEMMA StartsType ==
    ASSUME NEW p \in Seq(STRING)
    PROVE  Starts(p) \in Seq(Nat)
<1> DEFINE s == [q \in 1 .. Len(p) |-> q]
<1>1. Len(p) \in Nat
  OBVIOUS
<1>2. s \in Seq(Nat) /\ DOMAIN s = 1 .. Len(p)
  BY <1>1
<1>3. Slashes(p) \in SUBSET DOMAIN s
  BY <1>1, <1>2 DEF Slashes
<1> QED
  BY <1>2, <1>3, KeptType DEF Starts

(* A client's call, or no call, has a text. *)
LEMMA CallType ==
    ASSUME TypeOK, NEW c \in Clients
    PROVE  call[c].text \in Seq(STRING)
<1>1. call[c] \in Calls \/ call[c] = NoCall
  BY DEF TypeOK
<1>2. NoCall.text \in Seq(STRING)
  BY DEF NoCall
<1> QED
  BY <1>1, <1>2, CallsAssumption

(* list_del takes an entry of a list out, and nothing else. *)
LEMMA ListDel ==
    ASSUME NEW S, NEW s \in Seq(S), IsInjective(s), NEW e \in Range(s)
    PROVE  /\ list_del(s, e) \in Seq(S)
           /\ Len(s) # 0 /\ Len(list_del(s, e)) = Len(s) - 1
           /\ IsInjective(list_del(s, e)) /\ Range(list_del(s, e)) = Range(s) \ {e}
<1> DEFINE p == CHOOSE i \in DOMAIN s : s[i] = e
<1>1. p \in DOMAIN s /\ s[p] = e
  BY DEF Range
<1>2. DOMAIN s = 1 .. Len(s) /\ Len(s) \in Nat
  OBVIOUS
<1> HIDE DEF p
<1>3. list_del(s, e) = RemoveAt(s, p)
  BY DEF list_del, p
<1>4. Len(s) # 0
  BY <1>1, <1>2
<1>5. RemoveAt(s, p) \in Seq(S) /\ Len(RemoveAt(s, p)) = Len(s) - 1
  BY <1>1, <1>2, RemoveAtPlace
<1>6. IsInjective(RemoveAt(s, p)) /\ Range(RemoveAt(s, p)) = Range(s) \ {s[p]}
  BY <1>1, RemoveSet
<1> QED
  BY <1>1, <1>3, <1>4, <1>5, <1>6

(* A client between lock and unlock that does not check is the writer, and *)
(* the only client there.                                                  *)
LEMMA WriterAlone ==
    ASSUME StoreInv, NEW c \in Clients, pc[c] \in Critical, call[c].op # "check"
    PROVE  /\ writer = c /\ readers = {}
           /\ \A d \in Clients : pc[d] \in Critical => d = c
BY NobodyAssumption DEF StoreInv, StoreLockExcludes

(* Results of the three functions. *)
LEMMA ResultType ==
    ASSUME NEW c \in Clients
    PROVE  Result(c) \in Results
BY Zenon DEF Result, Results

(* A call that is refused returns one of the results. *)
LEMMA FailureType ==
    ASSUME NEW op
    PROVE  Failure(op) \in Results
BY DEF Failure, Results

-----------------------------------------------------------------------------
(* add_create, with what each variable becomes at every place: the new     *)
(* entry is not the one it is hung under.                                  *)
LEMMA AddCreate ==
    ASSUME StoreInv, NEW c \in Clients, add_create(c)
    PROVE  \E newChild \in Entries \ allocations, token \in Read(c) :
               /\ curr[c] \in Tree /\ newChild # curr[c] /\ newChild # Root
               /\ allocations' = allocations \cup {newChild}
               /\ dir_name' = [dir_name EXCEPT ![newChild] = token]
               /\ parent' = [parent EXCEPT ![newChild] = curr[c]]
               /\ children' = [n \in Nodes |-> IF n = newChild THEN <<>>
                                               ELSE IF n = curr[c]
                                                    THEN <<newChild>> \o children[curr[c]]
                                                    ELSE children[n]]
               /\ children_num' = [n \in Nodes |-> IF n = newChild THEN 0
                                                   ELSE IF n = curr[c]
                                                        THEN children_num[curr[c]] + 1
                                                        ELSE children_num[n]]
               /\ explicited' = [explicited EXCEPT ![newChild] = FALSE]
               /\ tmp' = [tmp EXCEPT ![c] = <<newChild>> \o children[curr[c]]]
<1> USE DEF StoreInv
<1>1. PICK newChild \in Entries \ allocations, token \in Read(c) :
          /\ allocations' = allocations \cup {newChild}
          /\ dir_name' = [dir_name EXCEPT ![newChild] = token]
          /\ parent' = [parent EXCEPT ![newChild] = curr[c]]
          /\ children' = [children EXCEPT ![newChild] = <<>>,
                                          ![curr[c]] = <<newChild>> \o @]
          /\ children_num' = [children_num EXCEPT ![newChild] = 0, ![curr[c]] = @ + 1]
          /\ explicited' = [explicited EXCEPT ![newChild] = FALSE]
          /\ tmp' = [tmp EXCEPT ![c] = <<newChild>> \o children[curr[c]]]
  BY DEF add_create
<1>2. curr[c] \in Tree
  BY DEF add_create, Critical, NoUseAfterFree
<1>3. newChild # curr[c] /\ newChild # Root /\ newChild \in Nodes /\ curr[c] \in Nodes
  BY <1>2, RootAssumption DEF Tree, Nodes, TypeOK
<1>4. children' = [n \in Nodes |-> IF n = newChild THEN <<>>
                                   ELSE IF n = curr[c] THEN <<newChild>> \o children[curr[c]]
                                                       ELSE children[n]]
  <2>1. DOMAIN children = Nodes
    BY DEF TypeOK
  <2> QED
    BY Zenon, <1>1, <1>3, <2>1
<1>5. children_num' = [n \in Nodes |-> IF n = newChild THEN 0
                                       ELSE IF n = curr[c] THEN children_num[curr[c]] + 1
                                                           ELSE children_num[n]]
  BY <1>1, <1>3 DEF TypeOK
<1> QED
  BY <1>1, <1>2, <1>3, <1>4, <1>5

(* Leaving the store is well-typed. *)
LEMMA ReturnType ==
    ASSUME TypeOK, NEW c \in Clients, NEW r \in Results, Return(c, r)
    PROVE  /\ pc' \in [Clients -> PCs] /\ ret' \in [Clients -> Results]
           /\ call' \in [Clients -> Calls \cup {NoCall}]
           /\ j' \in [Clients -> 0 .. ARGS_SIZE] /\ deepness' \in [Clients -> Nat]
           /\ curr' \in [Clients -> Nodes] /\ tmp' \in [Clients -> Seq(Entries)]
<1>1. /\ "idle" \in PCs /\ NoCall \in Calls \cup {NoCall}
      /\ 0 \in 0 .. ARGS_SIZE /\ 0 \in Nat /\ Root \in Nodes
      /\ <<>> \in Seq(Entries)
  BY ArgsSizeAssumption DEF PCs, Nodes
<1> QED
  BY <1>1 DEF TypeOK, Return, Goto

(* A step leaves every variable with a value of its type. *)
LEMMA TypeStep ==
    ASSUME StoreInv, [Next]_vars
    PROVE  TypeOK'
<1> USE DEF StoreInv
<1>1. ASSUME NEW c \in Clients, NEW x \in Calls, Call(c, x) PROVE TypeOK'
  BY <1>1 DEF Call, TypeOK, PCs, Results, Goto, treeVars, lockVars
<1>2. ASSUME NEW c \in Clients, lock_store(c) PROVE TypeOK'
  BY <1>2 DEF lock_store, TypeOK, PCs, Goto, treeVars, Nodes
<1>3. ASSUME NEW c \in Clients, check_inode_hit(c) PROVE TypeOK'
  BY <1>3, ReturnType DEF check_inode_hit, TypeOK, Results, treeVars, lockVars
<1>4. ASSUME NEW c \in Clients, check_inode_miss(c) PROVE TypeOK'
  BY <1>4 DEF check_inode_miss, TypeOK, PCs, Goto, treeVars, lockVars, localVars
<1>5. ASSUME NEW c \in Clients, process_path_store(c) PROVE TypeOK'
  <2>1. Starts(text(c)) \in Seq(Nat)
    BY CallType, StartsType DEF text
  <2>2. j[c] \in Nat /\ j[c] < Len(Starts(text(c))) /\ j[c] < ARGS_SIZE
    BY <1>5, ArgsSizeAssumption DEF process_path_store, TypeOK
  <2>3. Starts(text(c))[j[c] + 1] \in Nat /\ j[c] \in 0 .. ARGS_SIZE - 1
        /\ j[c] + 1 \in 0 .. ARGS_SIZE
    BY <2>1, <2>2, ArgsSizeAssumption
  <2> QED
    BY <1>5, <2>3 DEF process_path_store, TypeOK, treeVars, lockVars
<1>6. ASSUME NEW c \in Clients, process_path_refuse(c) PROVE TypeOK'
  BY <1>6, ReturnType, FailureType DEF process_path_refuse, TypeOK, treeVars, lockVars
<1>7. ASSUME NEW c \in Clients, process_path_dots(c) PROVE TypeOK'
  <2>1. CASE Return(c, Failure(call[c].op))
    BY <1>7, <2>1, ReturnType, FailureType DEF process_path_dots, TypeOK, treeVars, lockVars
  <2>2. CASE /\ deepness' = [deepness EXCEPT ![c] = @ + 1]
             /\ UNCHANGED <<pc, call, j, curr, tmp, ret>>
    BY <1>7, <2>2 DEF process_path_dots, TypeOK, treeVars, lockVars
  <2> QED
    BY <1>7, <2>1, <2>2 DEF process_path_dots
<1>8. ASSUME NEW c \in Clients, search_child(c) PROVE TypeOK'
  <2>1. tmp[c] \in Seq(Entries) /\ tmp[c] # <<>>
    BY <1>8 DEF search_child, TypeOK
  <2>2. Head(tmp[c]) \in Entries /\ Tail(tmp[c]) \in Seq(Entries)
    BY <2>1, HeadTail
  <2>3. Head(tmp[c]) \in Nodes /\ children[Head(tmp[c])] \in Seq(Entries)
        /\ <<>> \in Seq(Entries)
    BY <2>2 DEF TypeOK, Nodes
  <2>4. /\ curr' \in [Clients -> Nodes] /\ deepness' \in [Clients -> Nat]
        /\ tmp' \in [Clients -> Seq(Entries)]
    <3>1. CASE /\ curr' = [curr EXCEPT ![c] = Head(tmp[c])]
               /\ deepness' = [deepness EXCEPT ![c] = @ + 1]
               /\ tmp' = [tmp EXCEPT ![c] = IF deepness[c] + 1 = j[c] THEN <<>>
                                            ELSE children[Head(tmp[c])]]
      BY <2>3, <3>1 DEF TypeOK
    <3>2. CASE tmp' = [tmp EXCEPT ![c] = Tail(@)] /\ UNCHANGED <<curr, deepness>>
      BY <2>2, <3>2 DEF TypeOK
    <3> QED
      BY <1>8, <3>1, <3>2 DEF search_child
  <2> QED
    BY <1>8, <2>4 DEF search_child, TypeOK, treeVars, lockVars
<1>9. ASSUME NEW c \in Clients, add_empty_token(c) PROVE TypeOK'
  BY <1>9, ReturnType DEF add_empty_token, TypeOK, Results, treeVars, lockVars
<1>10. ASSUME NEW c \in Clients, add_missing(c) PROVE TypeOK'
  BY <1>10 DEF add_missing, TypeOK, PCs, Goto, treeVars, lockVars, localVars
<1>11. ASSUME NEW c \in Clients, add_create(c) PROVE TypeOK'
  <2>1. PICK newChild \in Entries \ allocations :
            /\ newChild \in Nodes /\ curr[c] \in Nodes
            /\ allocations' = allocations \cup {newChild}
            /\ parent' = [parent EXCEPT ![newChild] = curr[c]]
            /\ children' = [n \in Nodes |-> IF n = newChild THEN <<>>
                                            ELSE IF n = curr[c]
                                                 THEN <<newChild>> \o children[curr[c]]
                                                 ELSE children[n]]
            /\ children_num' = [n \in Nodes |-> IF n = newChild THEN 0
                                                ELSE IF n = curr[c]
                                                     THEN children_num[curr[c]] + 1
                                                     ELSE children_num[n]]
            /\ explicited' = [explicited EXCEPT ![newChild] = FALSE]
            /\ tmp' = [tmp EXCEPT ![c] = <<newChild>> \o children[curr[c]]]
    BY <1>11, AddCreate DEF Nodes, TypeOK
  <2>2. children[curr[c]] \in Seq(Entries) /\ <<>> \in Seq(Entries)
    BY <2>1 DEF TypeOK
  <2>3. <<newChild>> \o children[curr[c]] \in Seq(Entries)
    BY <2>2, Prepend
  <2>4. /\ children' \in [Nodes -> Seq(Entries)] /\ tmp' \in [Clients -> Seq(Entries)]
    BY <2>1, <2>2, <2>3 DEF TypeOK
  <2>5. /\ allocations' \subseteq Entries /\ parent' \in [Nodes -> Nodes]
        /\ children_num' \in [Nodes -> Nat] /\ explicited' \in [Nodes -> BOOLEAN]
    BY <2>1 DEF TypeOK
  <2> QED
    BY <1>11, <2>4, <2>5 DEF add_create, TypeOK, PCs, Goto, lockVars
<1>12. ASSUME NEW c \in Clients, add_mark(c) PROVE TypeOK'
  <2>1. "ok" \in Results
    BY DEF Results
  <2>2. /\ explicited' \in [Nodes -> BOOLEAN] /\ nonce' \in Nat /\ work' \in Nat
        /\ writer' \in Clients \cup {Nobody} /\ readers' \subseteq Clients
    BY <1>12 DEF add_mark, TypeOK, lockVars, write_unlock
  <2> QED
    BY <1>12, <2>1, <2>2, ReturnType DEF add_mark, TypeOK
<1>13. ASSUME NEW c \in Clients, rm_absent(c) PROVE TypeOK'
  BY <1>13, ReturnType DEF rm_absent, TypeOK, Results, treeVars, write_unlock
<1>14. ASSUME NEW c \in Clients, rm_unmark(c) PROVE TypeOK'
  BY <1>14 DEF rm_unmark, TypeOK, PCs, Goto, lockVars, localVars
<1>15. ASSUME NEW c \in Clients, rm_free(c) PROVE TypeOK'
  <2> DEFINE e == curr[c]
             p == parent[e]
  <2>1. e \in allocations /\ p \in Tree /\ Tree \subseteq Nodes /\ p \in Nodes /\ e \in Nodes
    BY <1>15 DEF rm_free, NoUseAfterFree, Critical, Hangs, Tree, TypeOK, Nodes
  <2>2. /\ children[p] \in Seq(Entries) /\ IsInjective(children[p]) /\ e \in Range(children[p])
        /\ children_num[p] = Len(children[p])
    BY <2>1 DEF Hangs, TypeOK
  <2>3. /\ list_del(children[p], e) \in Seq(Entries)
        /\ Len(children[p]) # 0 /\ Len(list_del(children[p], e)) = Len(children[p]) - 1
    BY <2>2, ListDel
  <2>4. children_num[p] - 1 \in Nat
    BY <2>1, <2>2, <2>3
  <2> HIDE DEF p
  <2>5. /\ children' = [children EXCEPT ![p] = list_del(@, e)]
        /\ children_num' = [children_num EXCEPT ![p] = @ - 1]
        /\ parent' = [parent EXCEPT ![e] = Root]
        /\ curr' = [curr EXCEPT ![c] = p]
        /\ allocations' = allocations \ {e}
    BY <1>15 DEF rm_free, p
  <2>6. /\ children' \in [Nodes -> Seq(Entries)] /\ children_num' \in [Nodes -> Nat]
        /\ parent' \in [Nodes -> Nodes] /\ curr' \in [Clients -> Nodes]
        /\ allocations' \subseteq Entries
    BY <2>1, <2>3, <2>4, <2>5 DEF TypeOK, Nodes
  <2> QED
    BY <1>15, <2>6 DEF rm_free, TypeOK, lockVars
<1>16. ASSUME NEW c \in Clients, rm_done(c) PROVE TypeOK'
  <2>1. "ok" \in Results
    BY DEF Results
  <2>2. /\ nonce' \in Nat /\ work' \in Nat
        /\ writer' \in Clients \cup {Nobody} /\ readers' \subseteq Clients
    BY <1>16 DEF rm_done, TypeOK, lockVars, write_unlock
  <2> QED
    BY <1>16, <2>1, <2>2, ReturnType DEF rm_done, TypeOK, treeVars
<1>17. ASSUME NEW c \in Clients, check_result(c) PROVE TypeOK'
  BY <1>17, ReturnType, ResultType DEF check_result, TypeOK, treeVars
<1>18. CASE refresh_nonces
  BY <1>18 DEF refresh_nonces, TypeOK, treeVars, lockVars, localVars
<1>19. CASE UNCHANGED vars
  BY <1>19 DEF TypeOK, vars, treeVars, lockVars, localVars
<1> QED
  BY <1>1, <1>2, <1>3, <1>4, <1>5, <1>6, <1>7, <1>8, <1>9, <1>10, <1>11, <1>12, <1>13,
     <1>14, <1>15, <1>16, <1>17, <1>18, <1>19 DEF Next, Proceed

-----------------------------------------------------------------------------
(* Only a client on its way out or at the lock moves the lock; the others  *)
(* keep their place, their call and their pointers.                        *)
LEMMA LockStep ==
    ASSUME StoreInv, [Next]_vars
    PROVE  StoreLockExcludes'
<1> USE DEF StoreInv, StoreLockExcludes, Critical, TypeOK
<1>1. ASSUME NEW c \in Clients, NEW x \in Calls, Call(c, x) PROVE StoreLockExcludes'
  BY <1>1 DEF Call, Goto, lockVars
<1>2. ASSUME NEW c \in Clients, lock_store(c) PROVE StoreLockExcludes'
  <2>1. CASE call[c].op # "check"
    BY <1>2, <2>1, NobodyAssumption DEF lock_store, Goto
  <2>2. CASE call[c].op = "check"
    BY <1>2, <2>2, NobodyAssumption DEF lock_store, Goto
  <2> QED
    BY <2>1, <2>2
<1>3. ASSUME NEW c \in Clients,
             \/ check_inode_hit(c) \/ check_inode_miss(c)
             \/ process_path_store(c) \/ process_path_refuse(c) \/ process_path_dots(c)
      PROVE  StoreLockExcludes'
  BY <1>3 DEF check_inode_hit, check_inode_miss, process_path_store, process_path_refuse,
              process_path_dots, Stored, Return, Goto, lockVars, localVars
<1>4. ASSUME NEW c \in Clients, search_child(c) PROVE StoreLockExcludes'
  BY <1>4 DEF search_child, lockVars
<1>5. ASSUME NEW c \in Clients, add_empty_token(c) PROVE StoreLockExcludes'
  BY <1>5 DEF add_empty_token, Return, Goto, lockVars
<1>6. ASSUME NEW c \in Clients, add_missing(c) \/ add_create(c) \/ rm_unmark(c) \/ rm_free(c)
      PROVE  StoreLockExcludes'
  BY <1>6 DEF add_missing, add_create, rm_unmark, rm_free, Searched, Goto, lockVars, localVars
<1>7. ASSUME NEW c \in Clients, add_mark(c) \/ rm_absent(c) \/ rm_done(c)
      PROVE  StoreLockExcludes'
  <2>1. /\ pc[c] \in Critical /\ call[c].op # "check"
        /\ pc' = [pc EXCEPT ![c] = "idle"] /\ call' = [call EXCEPT ![c] = NoCall]
        /\ readers' = readers
    BY <1>7 DEF add_mark, rm_absent, rm_done, Searched, Return, Goto, Places, lockVars,
                write_unlock
  <2>2. \A d \in Clients : d # c => pc[d] \notin Critical
    BY <2>1, WriterAlone
  <2> QED
    BY <2>1, <2>2
<1>8. ASSUME NEW c \in Clients, check_result(c) PROVE StoreLockExcludes'
  BY <1>8 DEF check_result, Searched, Return, Goto
<1>9. CASE refresh_nonces
  BY <1>9 DEF refresh_nonces, lockVars, localVars
<1>10. CASE UNCHANGED vars
  BY <1>10 DEF vars, lockVars, localVars
<1> QED
  BY <1>1, <1>2, <1>3, <1>4, <1>5, <1>6, <1>7, <1>8, <1>9, <1>10 DEF Next, Proceed

(* Every step leaves the threads at entries their place in the code allows. *)
LEMMA PlacesStep ==
    ASSUME StoreInv, [Next]_vars
    PROVE  Places'
<1> USE DEF StoreInv, Places, Critical, TypeOK
<1>1. ASSUME NEW c \in Clients, NEW x \in Calls, Call(c, x) PROVE Places'
  BY <1>1 DEF Call, Goto
<1>2. ASSUME NEW c \in Clients, lock_store(c) PROVE Places'
  BY <1>2 DEF lock_store, Goto, AtLock, Stored
<1>3. ASSUME NEW c \in Clients, NEW r, Return(c, r) PROVE Places'
  BY <1>3 DEF Return, Goto
<1>4. ASSUME NEW c \in Clients, check_inode_miss(c) \/ process_path_store(c) PROVE Places'
  BY <1>4 DEF check_inode_miss, process_path_store, Goto, localVars
<1>5. ASSUME NEW c \in Clients, process_path_dots(c) PROVE Places'
  BY <1>3, <1>5 DEF process_path_dots, Stored
<1>6. ASSUME NEW c \in Clients, search_child(c) PROVE Places'
  BY <1>6 DEF search_child
<1>7. ASSUME NEW c \in Clients, add_missing(c) \/ rm_unmark(c) PROVE Places'
  BY <1>7 DEF add_missing, rm_unmark, Searched, Goto, localVars
<1>8. ASSUME NEW c \in Clients, add_create(c) PROVE Places'
  BY <1>8 DEF add_create, Goto
<1>9. ASSUME NEW c \in Clients, rm_free(c) PROVE Places'
  BY <1>9 DEF rm_free
<1>10. CASE UNCHANGED <<pc, localVars>>
  BY <1>10 DEF localVars
<1>11. ASSUME NEW c \in Clients,
              \/ check_inode_hit(c) \/ process_path_refuse(c)
              \/ add_empty_token(c) \/ add_mark(c) \/ rm_absent(c) \/ rm_done(c)
              \/ check_result(c)
       PROVE  Places'
  BY <1>3, <1>11 DEF check_inode_hit, process_path_refuse, add_empty_token, add_mark,
                     rm_absent, rm_done, check_result
<1> QED
  BY <1>1, <1>2, <1>4, <1>5, <1>6, <1>7, <1>8, <1>9, <1>10, <1>11
  DEF Next, Proceed, refresh_nonces, vars

-----------------------------------------------------------------------------
(* The tree changes its shape in two places. *)
LEMMA ShapeStep ==
    ASSUME [Next]_vars,
           \A c \in Clients : ~add_create(c) /\ ~rm_free(c)
    PROVE  UNCHANGED <<allocations, parent, children, children_num>>
BY DEF Next, Proceed, vars, treeVars, Call, lock_store, check_inode_hit, check_inode_miss,
       process_path_store, process_path_refuse, process_path_dots, search_child,
       add_empty_token, add_missing, add_mark, rm_absent, rm_unmark, rm_done, check_result,
       refresh_nonces

(* rm_free, with what the tree becomes: the entry that is freed has no     *)
(* child, its parent loses exactly it.                                     *)
LEMMA RmFree ==
    ASSUME StoreInv, NEW c \in Clients, rm_free(c)
    PROVE  \E e \in allocations, p \in Tree :
               /\ e = curr[c] /\ p = parent[e] /\ p # e /\ e # Root /\ tmp[c] = <<>>
               /\ ~explicited[e] /\ children[e] = <<>>
               /\ \A d \in allocations : parent[d] # e
               /\ allocations' = allocations \ {e}
               /\ parent' = [parent EXCEPT ![e] = Root]
               /\ dir_name' = [dir_name EXCEPT ![e] = Empty]
               /\ children' = [children EXCEPT ![p] = list_del(children[p], e)]
               /\ children_num' = [children_num EXCEPT ![p] = @ - 1]
               /\ curr' = [curr EXCEPT ![c] = p]
<1> USE DEF StoreInv
<1> DEFINE e == curr[c]
           p == parent[e]
<1>1. e \in allocations /\ p \in Tree /\ e # Root /\ e \in Tree /\ e \in Nodes
  BY DEF rm_free, NoUseAfterFree, Critical, Hangs, Tree, TypeOK, Nodes
<1>2. children[e] = <<>>
  <2>1. children[e] \in Seq(Entries) /\ Len(children[e]) = 0
    BY <1>1 DEF rm_free, Hangs, TypeOK
  <2> QED
    BY <2>1, EmptySeq
<1>3. \A d \in allocations : parent[d] # e
  <2>1. Range(children[e]) = {}
    BY <1>2 DEF Range
  <2> QED
    BY <1>1, <2>1 DEF Hangs
<1>4. p # e
  BY <1>1, <1>3
<1>5. tmp[c] = <<>>
  BY DEF rm_free, Places
<1>6. /\ ~explicited[e]
      /\ allocations' = allocations \ {e}
      /\ parent' = [parent EXCEPT ![e] = Root]
      /\ dir_name' = [dir_name EXCEPT ![e] = Empty]
      /\ children' = [children EXCEPT ![p] = list_del(children[p], e)]
      /\ children_num' = [children_num EXCEPT ![p] = @ - 1]
      /\ curr' = [curr EXCEPT ![c] = p]
  BY DEF rm_free
<1> QED
  BY <1>1, <1>2, <1>3, <1>4, <1>5, <1>6

(* Every step leaves the hash lists and the child lists in agreement. *)
LEMMA HangsStep ==
    ASSUME StoreInv, [Next]_vars
    PROVE  Hangs'
<1> USE DEF StoreInv
<1>1. ASSUME NEW c \in Clients, add_create(c) PROVE Hangs'
  <2>1. PICK e \in Entries \ allocations :
            /\ curr[c] \in Tree /\ e # curr[c] /\ e # Root
            /\ allocations' = allocations \cup {e}
            /\ parent' = [parent EXCEPT ![e] = curr[c]]
            /\ children' = [n \in Nodes |-> IF n = e THEN <<>>
                                            ELSE IF n = curr[c]
                                                 THEN <<e>> \o children[curr[c]]
                                                 ELSE children[n]]
            /\ children_num' = [n \in Nodes |-> IF n = e THEN 0
                                                ELSE IF n = curr[c]
                                                     THEN children_num[curr[c]] + 1
                                                     ELSE children_num[n]]
    BY <1>1, AddCreate
  <2>2. e \notin Tree /\ Tree' = Tree \cup {e} /\ Tree \subseteq Nodes /\ e \in Nodes
    BY <2>1, RootAssumption DEF Tree, TypeOK, Nodes
  <2>3. \A d \in allocations : parent'[d] = parent[d] /\ parent[d] \in Tree
    BY <2>1, <2>2 DEF Hangs, TypeOK, Nodes
  <2>4. parent'[e] = curr[c]
    BY <2>1, <2>2 DEF TypeOK
  <2>5. ASSUME NEW n \in Tree, n # curr[c]
        PROVE  /\ Range(children'[n]) = {d \in allocations' : parent'[d] = n}
               /\ IsInjective(children'[n])
               /\ children_num'[n] = Len(children'[n])
    <3>1. children'[n] = children[n] /\ children_num'[n] = children_num[n]
      BY <2>1, <2>2, <2>5
    <3>2. {d \in allocations' : parent'[d] = n} = {d \in allocations : parent[d] = n}
      BY <2>1, <2>3, <2>4, <2>5
    <3> QED
      BY <3>1, <3>2 DEF Hangs
  <2>6. /\ Range(children'[curr[c]]) = {d \in allocations' : parent'[d] = curr[c]}
        /\ IsInjective(children'[curr[c]])
        /\ children_num'[curr[c]] = Len(children'[curr[c]])
    <3> DEFINE s == children[curr[c]]
    <3>1. /\ children'[curr[c]] = <<e>> \o s
          /\ children_num'[curr[c]] = children_num[curr[c]] + 1
      BY <2>1, <2>2
    <3>2. /\ s \in Seq(Entries) /\ IsInjective(s) /\ children_num[curr[c]] = Len(s)
          /\ Range(s) = {d \in allocations : parent[d] = curr[c]}
      BY <2>1, <2>2 DEF Hangs, TypeOK
    <3>3. e \in Entries /\ e \notin Range(s)
      BY <3>2
    <3>4. /\ Len(<<e>> \o s) = Len(s) + 1
          /\ IsInjective(<<e>> \o s) /\ Range(<<e>> \o s) = Range(s) \cup {e}
      BY <3>2, <3>3, Prepend, PrependSet
    <3>5. {d \in allocations' : parent'[d] = curr[c]}
              = {d \in allocations : parent[d] = curr[c]} \cup {e}
      BY <2>1, <2>3, <2>4
    <3> QED
      BY <3>1, <3>2, <3>4, <3>5
  <2>7. /\ Range(children'[e]) = {d \in allocations' : parent'[d] = e}
        /\ IsInjective(children'[e])
        /\ children_num'[e] = Len(children'[e])
    <3>1. children'[e] = <<>> /\ children_num'[e] = 0
      BY <2>1, <2>2
    <3>2. {d \in allocations' : parent'[d] = e} = {}
      BY <2>1, <2>2, <2>3, <2>4
    <3>3. Range(<<>>) = {} /\ IsInjective(<<>>) /\ Len(<<>>) = 0
      BY DEF Range, IsInjective
    <3> QED
      BY <3>1, <3>2, <3>3
  <2>8. \A d \in allocations' : parent'[d] \in Tree'
    BY <2>1, <2>2, <2>3, <2>4
  <2> QED
    BY <2>2, <2>5, <2>6, <2>7, <2>8 DEF Hangs
<1>2. ASSUME NEW c \in Clients, rm_free(c) PROVE Hangs'
  <2>1. PICK e \in allocations, p \in Tree :
            /\ p = parent[e] /\ p # e /\ e # Root
            /\ \A d \in allocations : parent[d] # e
            /\ allocations' = allocations \ {e}
            /\ parent' = [parent EXCEPT ![e] = Root]
            /\ children' = [children EXCEPT ![p] = list_del(children[p], e)]
            /\ children_num' = [children_num EXCEPT ![p] = @ - 1]
    BY <1>2, RmFree
  <2>2. Tree' = Tree \ {e} /\ Tree \subseteq Nodes
    BY <2>1 DEF Tree, TypeOK, Nodes
  <2>3. \A d \in allocations' : d \in allocations /\ parent'[d] = parent[d]
    BY <2>1, <2>2 DEF TypeOK, Nodes
  <2>4. ASSUME NEW n \in Tree', n # p
        PROVE  /\ Range(children'[n]) = {d \in allocations' : parent'[d] = n}
               /\ IsInjective(children'[n])
               /\ children_num'[n] = Len(children'[n])
    <3>1. children'[n] = children[n] /\ children_num'[n] = children_num[n] /\ n \in Tree
      BY <2>1, <2>2, <2>4 DEF TypeOK
    <3>2. {d \in allocations' : parent'[d] = n} = {d \in allocations : parent[d] = n}
      BY <2>1, <2>3, <2>4
    <3> QED
      BY <3>1, <3>2 DEF Hangs
  <2>5. /\ Range(children'[p]) = {d \in allocations' : parent'[d] = p}
        /\ IsInjective(children'[p])
        /\ children_num'[p] = Len(children'[p])
    <3> DEFINE s == children[p]
    <3>1. /\ children'[p] = list_del(s, e)
          /\ children_num'[p] = children_num[p] - 1
      BY <2>1, <2>2 DEF TypeOK
    <3>2. /\ s \in Seq(Entries) /\ IsInjective(s) /\ children_num[p] = Len(s)
          /\ Range(s) = {d \in allocations : parent[d] = p}
      BY <2>1, <2>2 DEF Hangs, TypeOK
    <3>3. e \in Range(s)
      BY <2>1, <3>2
    <3>4. /\ Len(list_del(s, e)) = Len(s) - 1
          /\ IsInjective(list_del(s, e)) /\ Range(list_del(s, e)) = Range(s) \ {e}
      BY <3>2, <3>3, ListDel
    <3>5. {d \in allocations' : parent'[d] = p} = {d \in allocations : parent[d] = p} \ {e}
      BY <2>1, <2>3
    <3> QED
      BY <3>1, <3>2, <3>4, <3>5
  <2>6. \A d \in allocations' : parent'[d] \in Tree'
    BY <2>1, <2>2, <2>3 DEF Hangs
  <2> QED
    BY <2>4, <2>5, <2>6 DEF Hangs
<1>3. CASE UNCHANGED <<allocations, parent, children, children_num>>
  BY <1>3 DEF Hangs, Tree
<1> QED
  BY <1>1, <1>2, <1>3, ShapeStep

-----------------------------------------------------------------------------
(* What client c may still follow. *)
PointersOf(c) ==
    pc[c] \in Critical =>
        /\ curr[c] \in Tree
        /\ Range(tmp[c]) \subseteq {e \in allocations : parent[e] = curr[c]}

(* A client that neither moves nor sees the tree move keeps its pointers. *)
LEMMA PointersKept ==
    ASSUME StoreInv, NEW c \in Clients,
           UNCHANGED <<allocations, parent>>,
           UNCHANGED <<curr[c], tmp[c]>>,
           pc'[c] \in Critical => pc[c] \in Critical
    PROVE  PointersOf(c)'
BY DEF StoreInv, NoUseAfterFree, PointersOf, Tree

(* A step of another client that leaves the tree alone. *)
LEMMA PointersOfOthers ==
    ASSUME StoreInv, NEW c \in Clients, NEW d \in Clients, d # c,
           Proceed(c) \/ lock_store(c) \/ \E x \in Calls : Call(c, x),
           ~add_create(c) /\ ~rm_free(c)
    PROVE  PointersOf(d)'
<1>1. /\ UNCHANGED <<allocations, parent>> /\ pc'[d] = pc[d] /\ curr'[d] = curr[d]
      /\ tmp'[d] = tmp[d]
  BY DEF StoreInv, TypeOK, Proceed, treeVars, localVars, Call, lock_store, check_inode_hit,
         check_inode_miss, process_path_store, process_path_refuse, process_path_dots,
         search_child, add_empty_token, add_missing, add_mark, rm_absent, rm_unmark, rm_done,
         check_result, Return, Goto
<1> QED
  BY <1>1, PointersKept

(* No step leaves a thread with an entry that another has freed. *)
LEMMA PointersStep ==
    ASSUME StoreInv, [Next]_vars
    PROVE  NoUseAfterFree'
<1> USE DEF StoreInv
<1>1. ASSUME NEW c \in Clients, add_create(c) PROVE NoUseAfterFree'
  <2>1. PICK e \in Entries \ allocations :
            /\ curr[c] \in Tree
            /\ allocations' = allocations \cup {e}
            /\ parent' = [parent EXCEPT ![e] = curr[c]]
            /\ tmp' = [tmp EXCEPT ![c] = <<e>> \o children[curr[c]]]
    BY <1>1, AddCreate
  <2>2. pc[c] \in Critical /\ call[c].op # "check" /\ UNCHANGED curr
        /\ pc' = [pc EXCEPT ![c] = "search"]
    BY <1>1 DEF add_create, Critical, Places, Goto
  <2>3. \A d \in Clients : d # c => pc[d] \notin Critical
    BY <2>2, WriterAlone
  <2>4. /\ children[curr[c]] \in Seq(Entries) /\ IsInjective(children[curr[c]])
        /\ Range(children[curr[c]]) = {d \in allocations : parent[d] = curr[c]}
    BY <2>1 DEF Hangs, TypeOK
  <2>5. Range(<<e>> \o children[curr[c]]) = Range(children[curr[c]]) \cup {e}
    BY <2>4, PrependSet
  <2>6. e \in Nodes /\ \A d \in allocations : d \in Nodes
    BY <2>1 DEF TypeOK, Nodes
  <2>7. Range(tmp'[c]) \subseteq {d \in allocations' : parent'[d] = curr'[c]}
    <3>1. tmp'[c] = <<e>> \o children[curr[c]] /\ curr'[c] = curr[c]
      BY <2>1, <2>2 DEF TypeOK
    <3>2. \A d \in allocations : d # e /\ parent'[d] = parent[d]
      BY <2>1, <2>6 DEF TypeOK
    <3>3. parent'[e] = curr[c]
      BY <2>1, <2>6 DEF TypeOK
    <3> QED
      BY <2>1, <2>4, <2>5, <3>1, <3>2, <3>3
  <2> QED
    BY <2>1, <2>2, <2>3, <2>7 DEF NoUseAfterFree, Tree, TypeOK
<1>2. ASSUME NEW c \in Clients, rm_free(c) PROVE NoUseAfterFree'
  <2>1. PICK e \in allocations, p \in Tree :
            /\ p # e /\ tmp[c] = <<>>
            /\ allocations' = allocations \ {e}
            /\ curr' = [curr EXCEPT ![c] = p]
    BY <1>2, RmFree
  <2>2. pc[c] \in Critical /\ call[c].op # "check" /\ UNCHANGED <<pc, tmp>>
    BY <1>2 DEF rm_free, Critical, Places
  <2>3. \A d \in Clients : d # c => pc[d] \notin Critical
    BY <2>2, WriterAlone
  <2>4. Range(<<>>) = {}
    BY DEF Range
  <2> QED
    BY <2>1, <2>2, <2>3, <2>4 DEF NoUseAfterFree, Tree, TypeOK
<1>3. ASSUME NEW c \in Clients,
             Proceed(c) \/ lock_store(c) \/ \E x \in Calls : Call(c, x),
             ~add_create(c) /\ ~rm_free(c)
      PROVE  NoUseAfterFree'
  <2>1. PointersOf(c)'
    <3>1. CASE pc'[c] \notin Critical
      BY <3>1 DEF PointersOf
    <3>2. CASE lock_store(c)
      <4>1. Range(children[Root]) = {e \in allocations : parent[e] = Root}
        BY DEF Hangs, Tree
      <4>2. curr[c] = Root
        BY <3>2 DEF lock_store, AtLock, Stored, Places, Critical
      <4>3. /\ UNCHANGED <<allocations, parent, curr>>
            /\ tmp'[c] = children[Root]
        BY <3>2 DEF lock_store, treeVars, TypeOK
      <4> QED
        BY <4>1, <4>2, <4>3 DEF PointersOf, Tree
    <3>3. CASE search_child(c)
      <4> DEFINE h == Head(tmp[c])
      <4>1. /\ pc[c] \in Critical /\ tmp[c] # <<>> /\ tmp[c] \in Seq(Entries)
            /\ UNCHANGED <<allocations, parent>>
        BY <3>3 DEF search_child, Critical, TypeOK, treeVars
      <4>2. h \in Range(tmp[c]) /\ Range(tmp[c]) = Range(Tail(tmp[c])) \cup {h}
        BY <4>1, HeadTail
      <4>3. /\ h \in allocations
            /\ Range(children[h]) = {e \in allocations : parent[e] = h}
        BY <4>1, <4>2 DEF NoUseAfterFree, Hangs, Tree
      <4>4. \/ curr'[c] = h /\ tmp'[c] \in {<<>>, children[h]}
            \/ curr'[c] = curr[c] /\ tmp'[c] = Tail(tmp[c])
        BY <3>3 DEF search_child, TypeOK
      <4>5. Range(<<>>) = {}
        BY DEF Range
      <4>6. CASE curr'[c] = h /\ tmp'[c] \in {<<>>, children[h]}
        BY <4>1, <4>3, <4>5, <4>6 DEF PointersOf, Tree
      <4>7. CASE curr'[c] = curr[c] /\ tmp'[c] = Tail(tmp[c])
        BY <4>1, <4>2, <4>7 DEF PointersOf, Tree, NoUseAfterFree
      <4> QED
        BY <4>4, <4>6, <4>7
    <3>4. CASE add_missing(c) \/ rm_unmark(c)
      BY <3>4, PointersKept
      DEF add_missing, rm_unmark, Searched, Critical, treeVars, localVars
    <3>5. \/ pc'[c] \notin Critical
          \/ lock_store(c) \/ search_child(c) \/ add_missing(c) \/ rm_unmark(c)
      BY <1>3 DEF Proceed, Call, check_inode_hit, check_inode_miss, process_path_store,
                  process_path_refuse, process_path_dots, Stored, add_empty_token, add_mark,
                  rm_absent, rm_done, check_result, Return, Goto, Critical, TypeOK
    <3> QED
      BY <3>1, <3>2, <3>3, <3>4, <3>5
  <2> QED
    BY <1>3, <2>1, PointersOfOthers DEF NoUseAfterFree, PointersOf
<1>4. CASE refresh_nonces \/ UNCHANGED vars
  BY <1>4 DEF refresh_nonces, vars, treeVars, localVars, NoUseAfterFree, Tree
<1> QED
  BY <1>1, <1>2, <1>3, <1>4 DEF Next

-----------------------------------------------------------------------------
(* StoreInv holds before the first call. *)
LEMMA StoreInvStart == Init => StoreInv
<1> SUFFICES ASSUME Init PROVE StoreInv
  OBVIOUS
<1>1. TypeOK
  <2>1. /\ "idle" \in PCs /\ "none" \in Results /\ Root \in Nodes
        /\ <<>> \in Seq(Entries) /\ 0 \in Nat /\ 0 \in 0 .. ARGS_SIZE
    BY ArgsSizeAssumption DEF PCs, Results, Nodes
  <2> QED
    BY <2>1 DEF Init, TypeOK
<1>2. Range(<<>>) = {} /\ IsInjective(<<>>) /\ Len(<<>>) = 0
  BY DEF Range, IsInjective
<1>3. Hangs
  BY <1>2 DEF Init, Hangs, Tree, Nodes
<1> QED
  BY <1>1, <1>3 DEF Init, StoreInv, StoreLockExcludes, Places, NoUseAfterFree, Critical

(* The entries, the lists and the lock of the path store always satisfy    *)
(* StoreInv (path_store.c).                                                *)
THEOREM StoreInvariant == Spec => []StoreInv
<1>1. StoreInv /\ [Next]_vars => StoreInv'
  BY TypeStep, LockStep, PlacesStep, HangsStep, PointersStep DEF StoreInv
<1> QED
  BY <1>1, StoreInvStart, PTL DEF Spec

(* Every variable keeps a value of its type; the counts of children never  *)
(* go below zero.                                                          *)
THEOREM StoreTypeCorrect == Spec => []TypeOK
BY StoreInvariant, PTL DEF StoreInv

(* Whatever the clients call, one that adds or removes is alone between    *)
(* write_lock and write_unlock.                                            *)
THEOREM StoreLockSafe == Spec => []StoreLockExcludes
BY StoreInvariant, PTL DEF StoreInv

(* No client follows a pointer to an entry path_store_rm has freed.        *)
THEOREM NoFreedEntryUsed == Spec => []NoUseAfterFree
BY StoreInvariant, PTL DEF StoreInv

(* Parents and lists of children agree, and children_num counts them.      *)
THEOREM TreeKept == Spec => []TreeOK
<1>1. StoreInv => TreeOK
  <2> SUFFICES ASSUME StoreInv PROVE TreeOK
    OBVIOUS
  <2>1. ASSUME NEW n \in Tree PROVE Len(children[n]) = Cardinality(Range(children[n]))
    <3>1. children[n] \in Seq(Entries) /\ IsInjective(children[n])
      BY DEF StoreInv, TypeOK, Hangs, Tree, Nodes
    <3> QED
      BY <3>1, InjectiveLength DEF IsInjective
  <2> QED
    BY <2>1 DEF StoreInv, Hangs, TreeOK
<1> QED
  BY <1>1, StoreInvariant, PTL

(* A call returns with the lock on the three ways LockGivenBack names, and *)
(* on no other.                                                            *)
THEOREM StoreLockGivenBack == Spec => LockGivenBack
<1>1. ASSUME StoreInv, [Next]_vars, NEW c \in Clients,
             pc[c] \in Critical, pc'[c] = "idle", writer' = c \/ c \in readers'
      PROVE  \/ call[c].op = "add" /\ (~call[c].resolved \/ ret'[c] = "fail")
             \/ work' > work
  <2>1. \/ add_empty_token(c) \/ add_mark(c) \/ rm_absent(c) \/ rm_done(c) \/ check_result(c)
    <3>1. ASSUME NEW d \in Clients,
                 Proceed(d) \/ lock_store(d) \/ \E x \in Calls : Call(d, x)
          PROVE  d = c
      BY <1>1, <3>1
      DEF StoreInv, TypeOK, Proceed, localVars, Call, lock_store, check_inode_hit,
          check_inode_miss, process_path_store, process_path_refuse, process_path_dots,
          search_child, add_empty_token, add_missing, add_create, add_mark, rm_absent,
          rm_unmark, rm_free, rm_done, check_result, Return, Goto, Critical
    <3>2. Proceed(c) \/ lock_store(c) \/ \E x \in Calls : Call(c, x)
      <4>1. CASE refresh_nonces \/ UNCHANGED vars
        BY <1>1, <4>1 DEF refresh_nonces, vars, Critical
      <4>2. CASE \E d \in Clients : Proceed(d) \/ lock_store(d) \/ \E x \in Calls : Call(d, x)
        BY <3>1, <4>2
      <4> QED
        BY <1>1, <4>1, <4>2 DEF Next
    <3>3. ~(lock_store(c) \/ \E x \in Calls : Call(c, x))
      BY <1>1 DEF lock_store, AtLock, Stored, Call, Critical, Goto, StoreInv, TypeOK
    <3>4. ~(add_missing(c) \/ add_create(c) \/ rm_unmark(c) \/ rm_free(c) \/ search_child(c))
      <4>1. pc[c] # "idle" /\ pc \in [Clients -> PCs]
        BY <1>1 DEF Critical, StoreInv, TypeOK
      <4> QED
        BY <1>1, <4>1 DEF search_child, add_missing, add_create, rm_unmark, rm_free, Goto
    <3>5. ~(check_inode_hit(c) \/ check_inode_miss(c) \/ process_path_dots(c))
          /\ ~(process_path_store(c) \/ process_path_refuse(c))
      <4>1. pc[c] # "oracle" /\ pc[c] # "process"
        BY <1>1 DEF Critical
      <4> QED
        BY <4>1 DEF check_inode_hit, check_inode_miss, process_path_store,
                    process_path_refuse, process_path_dots, Stored
    <3> QED
      BY <3>2, <3>3, <3>4, <3>5 DEF Proceed
  <2>2. CASE add_empty_token(c)
    BY <1>1, <2>2 DEF add_empty_token, Searched, Return, StoreInv, TypeOK
  <2>3. CASE check_result(c)
    <3>1. c \in readers /\ writer = Nobody
      BY <1>1, <2>3 DEF check_result, Searched, StoreInv, StoreLockExcludes
    <3> QED
      BY <1>1, <2>3, <3>1, NobodyAssumption DEF check_result
  <2>4. CASE add_mark(c) \/ rm_absent(c) \/ rm_done(c)
    <3>1. writer = c /\ readers = {}
      BY <1>1, <2>4, WriterAlone
      DEF add_mark, rm_absent, rm_done, Searched, StoreInv, Places
    <3>2. work \in Nat
      BY <1>1 DEF StoreInv, TypeOK
    <3> QED
      BY <1>1, <2>4, <3>1, <3>2, NobodyAssumption
      DEF add_mark, rm_absent, rm_done, Searched, write_unlock, lockVars
  <2> QED
    BY <2>1, <2>2, <2>3, <2>4
<1>2. StoreInv /\ [Next]_vars =>
          [\A c \in Clients :
              (pc[c] \in Critical /\ pc'[c] = "idle" /\ (writer' = c \/ c \in readers'))
                  => \/ call[c].op = "add" /\ (~call[c].resolved \/ ret'[c] = "fail")
                     \/ work' > work]_vars
  BY <1>1
<1> QED
  BY <1>2, StoreInvariant, PTL DEF LockGivenBack, Spec
=============================================================================
