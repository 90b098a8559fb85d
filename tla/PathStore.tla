----------------------------- MODULE PathStore -----------------------------
(***************************************************************************)
(* path_store/path_store.c: the tree of store_entry that holds the         *)
(* protected paths, and path_store_add, path_store_rm, path_store_check    *)
(* run by any number of clients at once (their caller, ioctl.c, only takes *)
(* rec_sem for reading).                                                   *)
(*                                                                         *)
(* store_lock protects the tree; argIdxs, the index of the path being      *)
(* processed, is one global array that process_path fills before the lock  *)
(* is taken and that every later comparison reads again.                   *)
(*                                                                         *)
(* The walks over the file system that add and rm make under the lock and  *)
(* the inode table they maintain are module InodeStore's subject: here     *)
(* they do nothing, and check_inode's answer is free.                      *)
(*                                                                         *)
(* A client's program counter:                                             *)
(*   idle     outside the store                                            *)
(*   oracle   in check, about to ask check_inode                           *)
(*   process  in process_path, or waiting for store_lock after it          *)
(*   search   in PATH_SEARCH_LOOP, or right after it                       *)
(*   create   add is about to fill a new entry                             *)
(*   up       rm is about to free curr or to stop                          *)
(***************************************************************************)
EXTENDS PathText, FiniteSets

CONSTANTS Clients, Nobody,
          Entries,         \* addresses dir_cache may hand out
          Root,
          Calls,           \* the calls clients may make, see CallsAssumption
          Residue,         \* what an index beyond the end of a text may find there
          ULLONG_MAX,
          MutationBound    \* bound on the calls that increment nonce

ASSUME NobodyAssumption == Nobody \notin Clients
ASSUME RootAssumption == Root \notin Entries
ASSUME UllongAssumption == ULLONG_MAX \in Nat /\ MutationBound \in Nat

Nodes == Entries \cup {Root}
Ops == {"add", "rm", "check"}
NoCall == [op |-> "none", text |-> <<>>, resolved |-> FALSE]

(* A call is its operation, the text in examinated and whether the oracle  *)
(* resolved it: then the text is canonical, else it is the caller's own.   *)
ASSUME CallsAssumption ==
    \A x \in Calls : x.op \in Ops /\ x.text \in Seq(STRING) /\ x.resolved \in BOOLEAN

VARIABLES allocations,     \* entries in use, Root apart
          parent, dir_name, children,
          children_num,    \* the low bits of the C field
          explicited,      \* EXPLICITED_PATH_MASK of the C field
          argIdxs, nonce,
          work,            \* scheduled refresh_nonces
          writer, readers, \* store_lock
          pc, call, j, deepness, curr,
          tmp,             \* the siblings list_for_each has still to visit
          ret

treeVars == <<allocations, parent, dir_name, children, children_num, explicited>>
lockVars == <<writer, readers>>
localVars == <<call, j, deepness, curr, tmp, ret>>
vars == <<treeVars, argIdxs, nonce, work, lockVars, pc, localVars>>

text(c) == call[c].text
Goto(c, l) == pc' = [pc EXCEPT ![c] = l]

(* Leave the store with r; the locals die. *)
Return(c, r) ==
    /\ Goto(c, "idle")
    /\ ret' = [ret EXCEPT ![c] = r]
    /\ j' = [j EXCEPT ![c] = 0]
    /\ deepness' = [deepness EXCEPT ![c] = 0]
    /\ curr' = [curr EXCEPT ![c] = Root]
    /\ tmp' = [tmp EXCEPT ![c] = <<>>]
    /\ call' = [call EXCEPT ![c] = NoCall]

(* process_path has stored its indices / has looked for dots as well: the  *)
(* client waits for store_lock.                                            *)
Stored(c) ==
    /\ pc[c] = "process" /\ Absolute(text(c))
    /\ j[c] = Len(Starts(text(c))) /\ ~Exceeds(text(c))

AtLock(c) == Stored(c) /\ deepness[c] = j[c]

(* The search loop is over. *)
Searched(c) == pc[c] = "search" /\ tmp[c] = <<>>

Failure(op) == IF op = "check" THEN "FULL_MATCH_LEAF" ELSE "fail"

(* What client c may read at examinated + argIdxs[deepness]. *)
Read(c) ==
    IF deepness[c] < ARGS_SIZE /\ argIdxs[deepness[c]] <= Len(text(c))
    THEN {TokenAt(text(c), argIdxs[deepness[c]])}
    ELSE Residue

(* setup_path_store. *)
Init ==
    /\ allocations = {}
    /\ parent = [e \in Nodes |-> Root]
    /\ dir_name = [e \in Nodes |-> Empty]
    /\ children = [e \in Nodes |-> <<>>]
    /\ children_num = [e \in Nodes |-> 0]
    /\ explicited = [e \in Nodes |-> FALSE]
    /\ argIdxs = [k \in 0 .. ARGS_SIZE - 1 |-> 0]
    /\ nonce = 0 /\ work = 0
    /\ writer = Nobody /\ readers = {}
    /\ pc = [c \in Clients |-> "idle"]
    /\ call = [c \in Clients |-> NoCall]
    /\ j = [c \in Clients |-> 0]
    /\ deepness = [c \in Clients |-> 0]
    /\ curr = [c \in Clients |-> Root]
    /\ tmp = [c \in Clients |-> <<>>]
    /\ ret = [c \in Clients |-> "none"]

(* Calls that may still increment nonce. *)
Mutators == {c \in Clients : pc[c] # "idle" /\ call[c].op # "check" /\ call[c].resolved}

-----------------------------------------------------------------------------
(***************************************************************************)
(* The entry of the three functions: pathname_oracle yields the text to    *)
(* examine, canonical if the file exists, else the caller's own.           *)
(***************************************************************************)
Call(c, x) ==
    /\ pc[c] = "idle"
    /\ (x.op # "check" /\ x.resolved) => nonce + Cardinality(Mutators) < MutationBound
    /\ call' = [call EXCEPT ![c] = x]
    /\ ret' = [ret EXCEPT ![c] = "none"]
    /\ Goto(c, IF x.op = "check" /\ x.resolved THEN "oracle" ELSE "process")
    /\ UNCHANGED <<treeVars, argIdxs, nonce, work, lockVars, j, deepness, curr, tmp>>

check_inode_hit(c) ==
    /\ pc[c] = "oracle"
    /\ Return(c, "MATCH_INODE")
    /\ UNCHANGED <<treeVars, argIdxs, nonce, work, lockVars>>

check_inode_miss(c) ==
    /\ pc[c] = "oracle"
    /\ Goto(c, "process")
    /\ UNCHANGED <<treeVars, argIdxs, nonce, work, lockVars, localVars>>

(***************************************************************************)
(* process_path, without store_lock.  First loop: one slash per step.      *)
(***************************************************************************)
process_path_store(c) ==
    /\ pc[c] = "process" /\ Absolute(text(c))
    /\ j[c] < Len(Starts(text(c))) /\ j[c] < ARGS_SIZE
    /\ argIdxs' = [argIdxs EXCEPT ![j[c]] = Starts(text(c))[j[c] + 1]]
    /\ j' = [j EXCEPT ![c] = @ + 1]
    /\ UNCHANGED <<treeVars, nonce, work, lockVars, pc, call, deepness, curr, tmp, ret>>

process_path_refuse(c) ==
    /\ pc[c] = "process"
    /\ ~Absolute(text(c)) \/ (j[c] = ARGS_SIZE /\ Exceeds(text(c)))
    /\ Return(c, Failure(call[c].op))
    /\ UNCHANGED <<treeVars, argIdxs, nonce, work, lockVars>>

(* Second loop: refuse "." and "..".  deepness stands for its counter i.   *)
process_path_dots(c) ==
    /\ Stored(c) /\ deepness[c] < j[c]
    /\ \E token \in Read(c) :
           \/ /\ token \in Dots
              /\ Return(c, Failure(call[c].op))
           \/ /\ token \notin Dots
              /\ deepness' = [deepness EXCEPT ![c] = @ + 1]
              /\ UNCHANGED <<pc, call, j, curr, tmp, ret>>
    /\ UNCHANGED <<treeVars, argIdxs, nonce, work, lockVars>>

-----------------------------------------------------------------------------
\* A writer that overlooks the readers.
lock_store_ignores_readers(c) ==
    /\ AtLock(c) /\ writer = Nobody
    /\ \/ call[c].op # "check" /\ writer' = c /\ UNCHANGED readers
       \/ call[c].op = "check" /\ readers' = readers \cup {c} /\ UNCHANGED writer
    /\ deepness' = [deepness EXCEPT ![c] = 0]
    /\ tmp' = [tmp EXCEPT ![c] = children[Root]]
    /\ Goto(c, "search")
    /\ UNCHANGED <<treeVars, argIdxs, nonce, work, call, j, curr, ret>>

(* write_lock in add and rm, read_lock in check; the search starts at root. *)
lock_store(c) ==
    /\ AtLock(c) /\ writer = Nobody
    /\ \/ call[c].op # "check" /\ readers = {} /\ writer' = c /\ UNCHANGED readers
       \/ call[c].op = "check" /\ readers' = readers \cup {c} /\ UNCHANGED writer
    /\ deepness' = [deepness EXCEPT ![c] = 0]
    /\ tmp' = [tmp EXCEPT ![c] = children[Root]]
    /\ Goto(c, "search")
    /\ UNCHANGED <<treeVars, argIdxs, nonce, work, call, j, curr, ret>>

(* An entry leaves the list of its siblings. *)
list_del(siblings, e) == RemoveAt(siblings, CHOOSE i \in DOMAIN siblings : siblings[i] = e)

write_unlock == writer' = Nobody /\ UNCHANGED readers

(***************************************************************************)
(* PATH_SEARCH_LOOP: compare one child with the token of this depth.  A    *)
(* match goes one level down, or ends the loop at the last token.          *)
(***************************************************************************)
search_child(c) ==
    /\ pc[c] = "search" /\ tmp[c] # <<>>
    /\ \E token \in Read(c) :
           \/ /\ dir_name[Head(tmp[c])] = token
              /\ curr' = [curr EXCEPT ![c] = Head(tmp[c])]
              /\ deepness' = [deepness EXCEPT ![c] = @ + 1]
              /\ tmp' = [tmp EXCEPT ![c] = IF deepness[c] + 1 = j[c] THEN <<>>
                                           ELSE children[Head(tmp[c])]]
           \/ /\ dir_name[Head(tmp[c])] # token
              /\ tmp' = [tmp EXCEPT ![c] = Tail(@)]
              /\ UNCHANGED <<curr, deepness>>
    /\ UNCHANGED <<treeVars, argIdxs, nonce, work, lockVars, pc, call, j, ret>>

-----------------------------------------------------------------------------
(***************************************************************************)
(* path_store_add after the search.  Short of the last token it makes the  *)
(* missing entry and searches the same list again; an empty token makes it *)
(* return with the lock held.                                              *)
(***************************************************************************)
add_empty_token(c) ==
    /\ Searched(c) /\ call[c].op = "add" /\ deepness[c] # j[c]
    /\ Empty \in Read(c)
    /\ Return(c, "fail")
    /\ UNCHANGED <<treeVars, argIdxs, nonce, work, lockVars>>

add_missing(c) ==
    /\ Searched(c) /\ call[c].op = "add" /\ deepness[c] # j[c]
    /\ Read(c) # {Empty}
    /\ Goto(c, "create")
    /\ UNCHANGED <<treeVars, argIdxs, nonce, work, lockVars, localVars>>

add_create(c) ==
    /\ pc[c] = "create"
    /\ \E newChild \in Entries \ allocations, token \in Read(c) :
           /\ allocations' = allocations \cup {newChild}
           /\ dir_name' = [dir_name EXCEPT ![newChild] = token]
           /\ parent' = [parent EXCEPT ![newChild] = curr[c]]
           /\ children' = [children EXCEPT ![newChild] = <<>>, ![curr[c]] = <<newChild>> \o @]
           /\ children_num' = [children_num EXCEPT ![newChild] = 0, ![curr[c]] = @ + 1]
           /\ explicited' = [explicited EXCEPT ![newChild] = FALSE]
           /\ tmp' = [tmp EXCEPT ![c] = <<newChild>> \o children[curr[c]]]
    /\ Goto(c, "search")
    /\ UNCHANGED <<argIdxs, nonce, work, lockVars, call, j, deepness, curr, ret>>

(***************************************************************************)
(* At the last token the entry becomes explicit.  A resolved path then     *)
(* takes a new nonce, and unlocks unless the nonce is used up: then        *)
(* refresh_nonces is scheduled and the lock stays.  An unresolved path     *)
(* never unlocks.                                                          *)
(***************************************************************************)
add_mark(c) ==
    /\ Searched(c) /\ call[c].op = "add" /\ deepness[c] = j[c]
    /\ explicited' = [explicited EXCEPT ![curr[c]] = TRUE]
    /\ \/ /\ call[c].resolved
          /\ nonce' = nonce + 1
          /\ \/ nonce' = ULLONG_MAX /\ work' = work + 1 /\ UNCHANGED lockVars
             \/ nonce' # ULLONG_MAX /\ write_unlock /\ UNCHANGED work
       \/ /\ ~call[c].resolved
          /\ UNCHANGED <<nonce, work, lockVars>>
    /\ Return(c, "ok")
    /\ UNCHANGED <<allocations, parent, dir_name, children, children_num, argIdxs>>

-----------------------------------------------------------------------------
\* An early return of path_store_rm that forgets the lock.
rm_absent_keeps_lock(c) ==
    /\ Searched(c) /\ call[c].op = "rm"
    /\ deepness[c] # j[c] \/ ~explicited[curr[c]]
    /\ Return(c, "fail")
    /\ UNCHANGED <<treeVars, argIdxs, nonce, work, lockVars>>

(* path_store_rm after the search. *)
rm_absent(c) ==
    /\ Searched(c) /\ call[c].op = "rm"
    /\ deepness[c] # j[c] \/ ~explicited[curr[c]]
    /\ write_unlock
    /\ Return(c, "fail")
    /\ UNCHANGED <<treeVars, argIdxs, nonce, work>>

\* The test of the mask is dropped: rm accepts an entry that was never added.
rm_unmark_any(c) ==
    /\ Searched(c) /\ call[c].op = "rm"
    /\ deepness[c] = j[c]
    /\ explicited' = [explicited EXCEPT ![curr[c]] = FALSE]
    /\ nonce' = IF call[c].resolved THEN nonce + 1 ELSE nonce
    /\ Goto(c, "up")
    /\ UNCHANGED <<allocations, parent, dir_name, children, children_num,
                   argIdxs, work, lockVars, localVars>>

rm_unmark(c) ==
    /\ Searched(c) /\ call[c].op = "rm"
    /\ deepness[c] = j[c] /\ explicited[curr[c]]
    /\ explicited' = [explicited EXCEPT ![curr[c]] = FALSE]
    /\ nonce' = IF call[c].resolved THEN nonce + 1 ELSE nonce
    /\ Goto(c, "up")
    /\ UNCHANGED <<allocations, parent, dir_name, children, children_num,
                   argIdxs, work, lockVars, localVars>>

\* The way up does not stop at the root.
rm_free_past_root(c) ==
    LET e == curr[c]
        p == parent[e]
    IN  /\ pc[c] = "up"
        /\ children_num[e] = 0 /\ ~explicited[e]
        /\ children_num' = [children_num EXCEPT ![p] = @ - 1]
        /\ children' = [children EXCEPT ![p] = IF e = Root THEN @ ELSE list_del(@, e)]
        /\ allocations' = allocations \ {e}
        /\ curr' = [curr EXCEPT ![c] = p]
        /\ UNCHANGED <<parent, dir_name, explicited, argIdxs, nonce, work, lockVars,
                       pc, call, j, deepness, tmp, ret>>

\* The parent is not told that it has one child less.
rm_free_uncounted(c) ==
    LET e == curr[c]
        p == parent[e]
    IN  /\ pc[c] = "up"
        /\ e # Root /\ children_num[e] = 0 /\ ~explicited[e]
        /\ children' = [children EXCEPT ![p] = list_del(@, e)]
        /\ allocations' = allocations \ {e}
        /\ curr' = [curr EXCEPT ![c] = p]
        /\ UNCHANGED <<parent, dir_name, children_num, explicited, argIdxs, nonce, work,
                       lockVars, pc, call, j, deepness, tmp, ret>>

rm_free(c) ==
    LET e == curr[c]
        p == parent[e]
    IN  /\ pc[c] = "up"
        /\ e # Root /\ children_num[e] = 0 /\ ~explicited[e]
        /\ children_num' = [children_num EXCEPT ![p] = @ - 1]
        /\ children' = [children EXCEPT ![p] = list_del(@, e)]
        /\ allocations' = allocations \ {e}
        /\ parent' = [parent EXCEPT ![e] = Root]         \* the freed object
        /\ dir_name' = [dir_name EXCEPT ![e] = Empty]    \* is poisoned
        /\ curr' = [curr EXCEPT ![c] = p]
        /\ UNCHANGED <<explicited, argIdxs, nonce, work, lockVars,
                       pc, call, j, deepness, tmp, ret>>

\* The way up ends after any number of levels.
rm_done_early(c) ==
    /\ pc[c] = "up"
    /\ \/ nonce = ULLONG_MAX /\ work' = work + 1 /\ UNCHANGED lockVars
       \/ nonce # ULLONG_MAX /\ write_unlock /\ UNCHANGED work
    /\ Return(c, "ok")
    /\ UNCHANGED <<treeVars, argIdxs, nonce>>

rm_done(c) ==
    /\ pc[c] = "up"
    /\ curr[c] = Root \/ children_num[curr[c]] # 0 \/ explicited[curr[c]]
    /\ \/ nonce = ULLONG_MAX /\ work' = work + 1 /\ UNCHANGED lockVars
       \/ nonce # ULLONG_MAX /\ write_unlock /\ UNCHANGED work
    /\ Return(c, "ok")
    /\ UNCHANGED <<treeVars, argIdxs, nonce>>

(* path_store_check after the search. *)
Result(c) ==
    LET leaf == children[curr[c]] = <<>>
        full == deepness[c] = j[c]
    IN  CASE curr[c] = Root /\ leaf -> "MATCH_ROOT"
          [] ~(curr[c] = Root /\ leaf) /\ full /\ leaf -> "FULL_MATCH_LEAF"
          [] full /\ ~leaf -> "FULL_MATCH_DIR"
          [] ~(curr[c] = Root /\ leaf) /\ ~full /\ leaf -> "SUB_MATCH_LEAF"
          [] ~full /\ ~leaf -> "SUB_MATCH_DIR"

\* The read lock is kept.
check_result_keeps_lock(c) ==
    /\ Searched(c) /\ call[c].op = "check"
    /\ Return(c, Result(c))
    /\ UNCHANGED <<treeVars, argIdxs, nonce, work, lockVars>>

check_result(c) ==
    /\ Searched(c) /\ call[c].op = "check"
    /\ readers' = readers \ {c} /\ UNCHANGED writer
    /\ Return(c, Result(c))
    /\ UNCHANGED <<treeVars, argIdxs, nonce, work>>

(* The work item: the stamps of the inode table and nonce start again. *)
refresh_nonces ==
    /\ work > 0
    /\ nonce' = 0
    /\ work' = work - 1
    /\ UNCHANGED <<treeVars, argIdxs, lockVars, pc, localVars>>

-----------------------------------------------------------------------------
(* Steps of a call in progress; taking store_lock is apart. *)
Proceed(c) ==
    \/ check_inode_hit(c) \/ check_inode_miss(c)
    \/ process_path_store(c) \/ process_path_refuse(c) \/ process_path_dots(c)
    \/ search_child(c)
    \/ add_empty_token(c) \/ add_missing(c) \/ add_create(c) \/ add_mark(c)
    \/ rm_absent(c) \/ rm_unmark(c) \/ rm_free(c) \/ rm_done(c)
    \/ check_result(c)

Next ==
    \/ \E c \in Clients, x \in Calls : Call(c, x)
    \/ \E c \in Clients : lock_store(c) \/ Proceed(c)
    \/ refresh_nonces

Spec == Init /\ [][Next]_vars

(* A client inside the store runs, a scheduled work item is executed, and  *)
(* the kernel's queued rwlock serves its waiters in order, so that one     *)
(* that could have the lock again and again gets it.                       *)
FairSpec ==
    /\ Spec
    /\ \A c \in Clients : WF_vars(Proceed(c)) /\ SF_vars(lock_store(c))
    /\ WF_vars(refresh_nonces)

-----------------------------------------------------------------------------
PCs == {"idle", "oracle", "process", "search", "create", "up"}
Critical == {"search", "create", "up"}
Tree == allocations \cup {Root}

Results == {"none", "ok", "fail", "MATCH_ROOT", "FULL_MATCH_LEAF", "FULL_MATCH_DIR",
            "SUB_MATCH_LEAF", "SUB_MATCH_DIR", "MATCH_INODE"}

TypeOK ==
    /\ allocations \subseteq Entries
    /\ parent \in [Nodes -> Nodes]
    /\ children \in [Nodes -> Seq(Entries)]
    /\ children_num \in [Nodes -> Nat]
    /\ explicited \in [Nodes -> BOOLEAN]
    /\ argIdxs \in [0 .. ARGS_SIZE - 1 -> Nat]
    /\ nonce \in Nat /\ work \in Nat
    /\ writer \in Clients \cup {Nobody} /\ readers \subseteq Clients
    /\ pc \in [Clients -> PCs]
    /\ call \in [Clients -> Calls \cup {NoCall}]
    /\ j \in [Clients -> 0 .. ARGS_SIZE] /\ deepness \in [Clients -> Nat]
    /\ curr \in [Clients -> Nodes]
    /\ tmp \in [Clients -> Seq(Entries)]
    /\ ret \in [Clients -> Results]

(***************************************************************************)
(* A client that adds or removes is alone in the tree: store_lock is held  *)
(* for writing by it, and nobody reads.                                    *)
(***************************************************************************)
StoreLockExcludes ==
    \A c \in Clients : pc[c] \in Critical =>
        IF call[c].op = "check" THEN c \in readers /\ writer = Nobody
                                ELSE c = writer /\ readers = {}

(***************************************************************************)
(* parent and children are inverse, every entry in use hangs in exactly    *)
(* one list, and the low bits of children_num count that list: what        *)
(* path_store_rm decides on when it frees.                                 *)
(***************************************************************************)
TreeOK ==
    /\ \A e \in allocations : parent[e] \in Tree
    /\ \A n \in Tree :
           /\ Range(children[n]) = {e \in allocations : parent[e] = n}
           /\ Len(children[n]) = Cardinality(Range(children[n]))
           /\ children_num[n] = Len(children[n])

(***************************************************************************)
(* No client follows a pointer to an entry that path_store_rm has freed.   *)
(***************************************************************************)
NoUseAfterFree ==
    \A c \in Clients : pc[c] \in Critical =>
        /\ curr[c] \in Tree
        /\ Range(tmp[c]) \subseteq {e \in allocations : parent[e] = curr[c]}

(***************************************************************************)
(* While the store is unlocked, every entry lies on the way to an explicit *)
(* one and siblings have different names: path_store_rm takes away all     *)
(* that path_store_add has made.  (Where the clients' texts agree on the   *)
(* indices of their tokens.)                                               *)
(***************************************************************************)
NothingLeftOver ==
    writer = Nobody =>
        /\ \A e \in allocations : children[e] = <<>> => explicited[e]
        /\ \A d, e \in allocations :
               (parent[d] = parent[e] /\ dir_name[d] = dir_name[e]) => d = e

(***************************************************************************)
(* A call that returns gives store_lock back on each of its ways out, but  *)
(* for three: an add that does not resolve, an add that meets an empty     *)
(* token, and the nonces used up, where the scheduled work is to unlock.   *)
(***************************************************************************)
LockGivenBack ==
    [][\A c \in Clients :
          (pc[c] \in Critical /\ pc'[c] = "idle" /\ (writer' = c \/ c \in readers'))
              => \/ call[c].op = "add" /\ (~call[c].resolved \/ ret'[c] = "fail")
                 \/ work' > work]_vars

(***************************************************************************)
(* The abstract state: the paths of the explicit entries, and the calls    *)
(* that have not taken effect.  A removal takes effect when the mask is    *)
(* cleared, before the entries are freed.                                  *)
(***************************************************************************)
PathOf ==
    LET path[e \in Nodes] == IF e = Root THEN <<>> ELSE Append(path[parent[e]], dir_name[e])
    IN  path

Protected == {PathOf[e] : e \in {n \in Tree : explicited[n]}}

Pending(c) ==
    IF pc[c] \in {"idle", "up"} THEN [op |-> "none", text |-> <<>>]
                                ELSE [op |-> call[c].op, text |-> text(c)]

Store == INSTANCE ProtectedPaths WITH
    Texts <- {x.text : x \in Calls},
    protected <- Protected,
    pending <- [c \in Clients |-> Pending(c)],
    result <- [c \in Clients |-> IF pc[c] = "up" THEN "ok" ELSE ret[c]]

(***************************************************************************)
(* Where the clients' texts agree on the indices of their tokens, each     *)
(* operation of the store takes effect at one instant on the set of        *)
(* protected paths and answers what that set says.                         *)
(***************************************************************************)
ImplementsProtectedPaths == Store!Spec

(***************************************************************************)
(* path_store_add "adds a path to protect to the store" (api.h): when it   *)
(* returns 0 the path it was called with is protected.                     *)
(***************************************************************************)
AddProtects ==
    [][\A c \in Clients :
          (pc[c] = "search" /\ pc'[c] = "idle" /\ call[c].op = "add" /\ ret'[c] = "ok")
              => Tokens(text(c)) \in Protected']_vars

(***************************************************************************)
(* "This will unlock the store" (path_store.c, of the work item that add   *)
(* and rm schedule when the nonces are used up).                           *)
(***************************************************************************)
RefreshUnlocks == (work > 0) ~> (writer = Nobody)
=============================================================================
