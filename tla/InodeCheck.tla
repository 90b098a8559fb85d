----------------------------- MODULE InodeCheck -----------------------------
(***************************************************************************)
(* check_inode as path_store_check calls it: without store_lock, one node  *)
(* after the other, while the walks of InodeStore add and free nodes of    *)
(* the same chain.                                                         *)
(*                                                                         *)
(* list_del and kmem_cache_free (SLAB_POISON) destroy the pointers of the  *)
(* node that a removal takes out: a check that stands on it goes astray,   *)
(* and nothing is claimed of it from there on.                             *)
(***************************************************************************)
EXTENDS InodeStore

CONSTANT Checked         \* inodes that are asked for

(* Where the check stands is told by num, which the nodes of a chain share *)
(* only if it is too narrow for an inode.                                  *)
ASSUME CheckedAssumption ==
    /\ Checked \subseteq Keys
    /\ \A k \in Checked : \A l \in Keys : l[1] = k[1] => l[2] < UINT_MOD

VARIABLES key,           \* the inode asked for, <<>> if no check runs
          tmp2,          \* num of the node it has reached, End at the list's head
          right          \* history: the answers that were right since it began

checkVars == <<key, tmp2, right>>
allVars == <<vars, checkVars>>

End == -1

(* The node behind the one at position i of chain c. *)
Behind(c, i) == IF i < Len(inodes[c]) THEN inodes[c][i + 1].num ELSE End
At(c, n) == CHOOSE i \in DOMAIN inodes[c] : inodes[c][i].num = n

CheckInit == Init /\ key = <<>> /\ tmp2 = End /\ right = {}

Idle == key' = <<>> /\ tmp2' = End /\ right' = {}

-----------------------------------------------------------------------------
check_begin(k) ==
    /\ key = <<>>
    /\ key' = k /\ right' = {check_inode(k)}
    /\ tmp2' = IF k[1] \in fs_stores THEN Behind(Chain(k), 0) ELSE End
    /\ UNCHANGED vars

check_next ==
    /\ key # <<>> /\ tmp2 \notin {key[2], End}
    /\ tmp2' = Behind(Chain(key), At(Chain(key), tmp2))
    /\ UNCHANGED <<vars, key, right>>

(* The node is found, or the list is at its end. *)
check_return == key # <<>> /\ tmp2 \in {key[2], End} /\ Idle /\ UNCHANGED vars

(* A step of the store under the check: the answer may change, and the     *)
(* node it stands on may be freed.                                         *)
Freed ==
    LET chain == inodes'[Chain(key)]
    IN  tmp2 # End /\ \A i \in DOMAIN chain : chain[i].num # tmp2

Meanwhile ==
    \/ key = <<>> /\ UNCHANGED checkVars
    \/ key # <<>> /\ Freed /\ Idle
    \/ /\ key # <<>> /\ ~Freed
       /\ UNCHANGED <<key, tmp2>>
       /\ right' = right \cup {check_inode(key)'}

CheckNext ==
    \/ Next /\ Meanwhile
    \/ \E k \in Checked : check_begin(k)
    \/ check_next \/ check_return

(* The fairness of InodeStore; nobody has to check. *)
CheckSpec ==
    /\ CheckInit /\ [][CheckNext]_allVars
    /\ SF_vars(store_iterate) /\ WF_vars(refresh_nonces)
    /\ \A k \in Writable : WF_vars(inode_lock_held(k)) /\ WF_vars(inode_unlock(k))

-----------------------------------------------------------------------------
(***************************************************************************)
(* A check that meets no freed node answers what was right at some time    *)
(* during its call, whatever nodes are added and freed around it           *)
(* (check_inode's traversal without store_lock).                           *)
(***************************************************************************)
CheckWasRight ==
    key # <<>> /\ tmp2 \in {key[2], End} => (tmp2 # End) \in right
=============================================================================
