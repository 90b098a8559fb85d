----------------------------- MODULE InodeStore -----------------------------
(***************************************************************************)
(* path_store/inode_store.c and path_store/store_iterate.c: the table of   *)
(* the inodes below the protected paths, and the walks over the cached     *)
(* directory entries by which path_store_add and path_store_rm, with       *)
(* store_lock held for writing, keep it.  The tree of paths itself is      *)
(* module PathStore's subject: here a path is the dentry it resolves to,   *)
(* and marked the set of those that are explicit.                          *)
(*                                                                         *)
(* The file system is the environment: dentries enter the cache and leave  *)
(* it again, and others take the locks of its inodes exclusively           *)
(* (inode_lock).                                                           *)
(*                                                                         *)
(* The walk: idle (store_lock free), add, rm (in store_iterate_add or      *)
(* store_iterate_rm), locked (the nonces are used up and the lock stays).  *)
(***************************************************************************)
EXTENDS Integers, Sublists, SequencesExt, FiniteSetsExt

CONSTANTS Dentries, NoDentry,
          Inode,        \* [dentry -> <<device, inode number>>, <<>> if negative]
          d_subdirs,    \* [dentry -> the sequence of its children]
          Links,        \* [symbolic link -> the dentry it resolves to, or NoDentry]
          Volatile,     \* dentries that enter the cache and leave it
          Calls,        \* <<"add" or "rm", dentry>>
          Writable,     \* inodes that others lock exclusively
          Failing,      \* inodes whose allocation may fail
          Stale,        \* [inode -> what refCount may be in the memory of a new node]
          HASH_TABLE_SIZE,
          UINT_MOD, ULONG_MOD,   \* 2^w of the fields num and refCount
          ULLONG_MAX

(* store_iterate_rm frees the stack entry it has just pushed when the path *)
(* it starts from is a symbolic link: what follows is undefined, and such  *)
(* calls are left out.  The oracle never answers with a negative dentry.   *)
ASSUME CallsAssumption ==
    \A x \in Calls : /\ x[1] \in {"add", "rm"} /\ x[2] \in Dentries
                     /\ Inode[x[2]] # <<>>
                     /\ x[1] = "rm" => x[2] \notin DOMAIN Links
ASSUME FileSystemAssumption ==
    /\ NoDentry \notin Dentries /\ Volatile \subseteq Dentries
    /\ \A d \in Dentries : Inode[d] = <<>> \/ (Inode[d] = <<Inode[d][1], Inode[d][2]>>
                                                 /\ Inode[d][2] \in Nat)
    /\ d_subdirs \in [Dentries -> Seq(Dentries)]
    /\ \A d \in Volatile : Range(d_subdirs[d]) \subseteq Volatile
    /\ \A d \in DOMAIN Links : Links[d] \in Dentries \cup {NoDentry}
    /\ Writable \subseteq {Inode[d] : d \in Dentries} \ {<<>>}
ASSUME WidthAssumption ==
    /\ HASH_TABLE_SIZE \in Nat \ {0} /\ UINT_MOD \in Nat \ {0} /\ ULONG_MOD \in Nat \ {0}
    /\ \A d \in Dentries : Inode[d] # <<>> => Stale[Inode[d]] \subseteq 0 .. ULONG_MOD - 1
    /\ ULLONG_MAX \in Nat \ {0}

VARIABLES fs_stores,     \* devices that have a table
          inodes,        \* [<<device, bucket>> -> sequence of inode_ht]
          nonce,
          walk, dir,     \* the walk in progress and the dentry it is in
          todo,          \* what list_for_each has still to visit there
          stack,
          work,          \* refresh_nonces is scheduled
          marked,        \* dentries of the explicit entries of the path tree
          cached,        \* dentries in the cache
          loose,         \* volatile dentries that no call has left a reference to
          shared, excl,  \* the lock of each inode: readers; "none", "wait", "held"
          start,         \* history: where the walk began,
          found,         \* what has been cached ever since,
          failed,        \* and which inodes it could not allocate
          covers,        \* history: [dentry -> the inodes its adds have covered]
          robbed         \* history: inodes that lost a reference to an rm of a path
                         \* whose adds had not covered them

tableVars == <<fs_stores, inodes, nonce>>
historyVars == <<start, found, failed, covers, robbed>>
walkVars == <<walk, dir, todo, stack, work, marked, historyVars>>
cacheVars == <<cached, loose>>
lockVars == <<shared, excl>>
vars == <<tableVars, walkVars, cacheVars, lockVars>>

Keys == {Inode[d] : d \in Dentries} \ {<<>>}
Devices == {k[1] : k \in Keys}
Chain(k) == <<k[1], k[2] % HASH_TABLE_SIZE>>
Chains == Devices \X (0 .. HASH_TABLE_SIZE - 1)

(* What a walk reaches from d: the cached children, or a link's target. *)
Caches == {C \in SUBSET Dentries : Dentries \ Volatile \subseteq C}
Subdirs ==
    [d \in Dentries |-> [C \in Caches |->
        Kept(d_subdirs[d], {i \in DOMAIN d_subdirs[d] : d_subdirs[d][i] \in C})]]
Below(d) ==
    IF d \notin DOMAIN Links THEN Subdirs[d][cached]
    ELSE IF Links[d] = NoDentry THEN <<>> ELSE <<Links[d]>>

(* kern_path brings the target of a link into the cache, with the          *)
(* directories above it; its reference is never put.                       *)
Resolved(d) == IF d \in DOMAIN Links THEN {Links[d]} \ {NoDentry} ELSE {}
Parents(d) == {p \in Dentries : d \in Range(d_subdirs[p])}
PathTo ==
    [t \in Dentries |->
        LET upward == {S \in SUBSET Dentries : t \in S /\ \A e \in S : Parents(e) \subseteq S}
        IN  {x \in Dentries : \A S \in upward : x \in S}]

(* Its closure, with the dentries of C in the cache: what is in every set  *)
(* that holds d and what its members reach; the walks do not go below a    *)
(* negative dentry.                                                        *)
Entries(d, C) ==
    IF d \in DOMAIN Links THEN Resolved(d) ELSE Range(d_subdirs[d]) \cap C
Closed(S, C) == \A e \in S : Inode[e] # <<>> => Entries(e, C) \subseteq S
Covered(d, C) ==
    LET closed == {S \in SUBSET Dentries : d \in S /\ Closed(S, C)}
    IN  {x \in Dentries : \A S \in closed : x \in S}
Reachable ==
    [d \in Dentries |-> [C \in Caches |-> {Inode[e] : e \in Covered(d, C)} \ {<<>>}]]

-----------------------------------------------------------------------------
(* inode_store.c. *)

(* The places of k in its chain: num is compared with the whole number. *)
Found(k) ==
    IF k[1] \in fs_stores
    THEN {i \in DOMAIN inodes[Chain(k)] : inodes[Chain(k)][i].num = k[2]}
    ELSE {}

check_inode(k) == Found(k) # {}

First(k) == Min(Found(k))
Unseen(k) == inodes[Chain(k)][First(k)].stamp < nonce

Counted(node) ==
    [num |-> node.num, refCount |-> (node.refCount + 1) % ULONG_MOD, stamp |-> nonce]

\* A node that is counted moves to the front of its chain.
inode_count_to_front(k) ==
    inodes' = [inodes EXCEPT ![Chain(k)] =
                   <<Counted(@[First(k)])>> \o RemoveAt(@, First(k))]

(* insert_inode_ht for an inode that has a node: count it once per walk. *)
inode_count(k) ==
    inodes' = [inodes EXCEPT ![Chain(k)][First(k)] = Counted(@)]

(* ... for one that has none.  refCount is incremented, never initialised. *)
inode_allocate(k) ==
    \E r \in Stale[k] :
        inodes' = [inodes EXCEPT ![Chain(k)] =
                       <<[num |-> k[2] % UINT_MOD, refCount |-> (r + 1) % ULONG_MOD,
                          stamp |-> 0]>> \o @]

\* The node goes whatever its count.
rm_inode_ht_uncounted(k) == inodes' = [inodes EXCEPT ![Chain(k)] = RemoveAt(@, First(k))]

(* rm_inode_ht and inode_deallocate. *)
rm_inode_ht(k) ==
    LET node == inodes[Chain(k)][First(k)]
        r == (node.refCount + ULONG_MOD - 1) % ULONG_MOD
    IN  IF r = 0
        THEN inodes' = [inodes EXCEPT ![Chain(k)] = RemoveAt(@, First(k))]
        ELSE inodes' = [inodes EXCEPT ![Chain(k)][First(k)] =
                            [num |-> node.num, refCount |-> r, stamp |-> nonce]]

(* The inner loop of rm_inode_ht leaves the outer one's cursor inside the  *)
(* device's table: if the device is known and the inode is not, the outer  *)
(* loop goes round in that chain for ever.  (The stamps and pointers it    *)
(* then takes for device numbers are assumed not to match.)                *)
rm_spins(k) == k[1] \in fs_stores /\ Found(k) = {}

-----------------------------------------------------------------------------
(* setup_inode_store; part of the file system is cached. *)
Init ==
    /\ fs_stores = {} /\ inodes = [b \in Chains |-> <<>>] /\ nonce = 0
    /\ walk = "idle" /\ dir = NoDentry /\ todo = <<>> /\ stack = <<>> /\ work = FALSE
    /\ marked = {} /\ cached = Dentries \ Volatile /\ loose = Volatile
    /\ shared = [k \in Keys |-> 0] /\ excl = [k \in Keys |-> "none"]
    /\ start = NoDentry /\ found = Dentries \ Volatile /\ failed = {}
    /\ covers = [d \in Dentries |-> {}] /\ robbed = {}

(***************************************************************************)
(* path_store_add and path_store_rm up to the walk, and the path_get that  *)
(* it begins with: no path_put answers it.                                 *)
(***************************************************************************)
begin(op, d) ==
    /\ walk = "idle" /\ d \in cached
    /\ \/ op = "add" /\ marked' = marked \cup {d}
       \/ op = "rm" /\ d \in marked /\ marked' = marked \ {d}
    /\ nonce' = nonce + 1
    /\ walk' = op /\ dir' = NoDentry /\ todo' = <<d>> /\ stack' = <<>>
    /\ loose' = loose \ {d}
    /\ start' = d /\ found' = cached /\ failed' = {}
    /\ UNCHANGED <<fs_stores, inodes, work, cached, lockVars, covers, robbed>>

(* The next dentry of the round; inode_lock_shared has to wait behind      *)
(* those who want the lock exclusively.                                    *)
Meets(op) == walk = op /\ todo # <<>> /\ Inode[Head(todo)] # <<>>
Lockable(k) == excl[k] = "none"

Push(k) ==
    /\ stack' = <<Head(todo)>> \o stack
    /\ shared' = [shared EXCEPT ![k] = @ + 1]

Visited ==
    /\ todo' = Tail(todo)
    /\ UNCHANGED <<nonce, walk, dir, work, marked, start, found, covers, cacheVars, excl>>

visit_negative ==
    /\ walk \in {"add", "rm"} /\ todo # <<>> /\ Inode[Head(todo)] = <<>>
    /\ Visited
    /\ UNCHANGED <<fs_stores, inodes, stack, shared, failed, robbed>>

(***************************************************************************)
(* store_iterate_add meets a dentry: lock its inode, enter it in the table *)
(* and push it, unless it has been counted in this walk.  When a device's  *)
(* table or the node cannot be allocated the dentry is pushed all the      *)
(* same.                                                                   *)
(***************************************************************************)
add_again ==
    LET k == Inode[Head(todo)]
    IN  /\ Meets("add") /\ Lockable(k) /\ check_inode(k) /\ ~Unseen(k)
        /\ Visited
        /\ UNCHANGED <<fs_stores, inodes, stack, shared, failed, robbed>>

add_counted ==
    LET k == Inode[Head(todo)]
    IN  /\ Meets("add") /\ Lockable(k) /\ check_inode(k) /\ Unseen(k)
        /\ inode_count(k) /\ Push(k)
        /\ Visited
        /\ UNCHANGED <<fs_stores, failed, robbed>>

add_new ==
    LET k == Inode[Head(todo)]
    IN  /\ Meets("add") /\ Lockable(k) /\ ~check_inode(k)
        /\ fs_stores' = fs_stores \cup {k[1]}
        /\ inode_allocate(k) /\ Push(k)
        /\ Visited
        /\ UNCHANGED <<failed, robbed>>

add_failed ==
    LET k == Inode[Head(todo)]
    IN  /\ Meets("add") /\ Lockable(k) /\ ~check_inode(k) /\ k \in Failing
        /\ fs_stores' \in {fs_stores, fs_stores \cup {k[1]}}
        /\ Push(k)
        /\ failed' = failed \cup {k}
        /\ Visited
        /\ UNCHANGED <<inodes, robbed>>

(***************************************************************************)
(* store_iterate_rm meets a dentry.  It pushes the start, and below it     *)
(* only dentries that have children.                                       *)
(***************************************************************************)
rm_visit ==
    LET d == Head(todo)
        k == Inode[d]
    IN  /\ Meets("rm") /\ Lockable(k) /\ ~rm_spins(k)
        /\ \/ /\ check_inode(k) /\ Unseen(k) /\ rm_inode_ht(k)
              /\ robbed' = robbed \cup ({k} \ covers[start])
           \/ ~(check_inode(k) /\ Unseen(k)) /\ UNCHANGED <<inodes, robbed>>
        /\ IF (check_inode(k) => Unseen(k)) /\ (dir = NoDentry \/ Subdirs[d][cached] # <<>>)
           THEN Push(k) ELSE UNCHANGED <<stack, shared>>
        /\ Visited
        /\ UNCHANGED <<fs_stores, failed>>

-----------------------------------------------------------------------------
\* dir is unlocked at the end of its round and again as an entry of the stack.
Unlocked_twice == IF dir = NoDentry THEN shared ELSE [shared EXCEPT ![Inode[dir]] = @ - 2]

(* The end of a round: unlock dir, and go on with the top of the stack. *)
Unlocked == IF dir = NoDentry THEN shared ELSE [shared EXCEPT ![Inode[dir]] = @ - 1]

(* The next directory of the stack, or the target of a link on it.         *)
Descend ==
    /\ walk \in {"add", "rm"} /\ todo = <<>> /\ stack # <<>>
    /\ dir' = Head(stack) /\ stack' = Tail(stack)
    /\ todo' = Below(Head(stack))
    /\ cached' = cached \cup UNION {PathTo[t] : t \in Resolved(Head(stack))}
    /\ loose' = loose \ Resolved(Head(stack))
    /\ UNCHANGED <<tableVars, walk, work, marked, excl, historyVars>>

\* The lock of the directory that was walked through is kept.
replay_keeps_lock == Descend /\ shared' = shared

replay == Descend /\ shared' = Unlocked

(* The walk is over, and so is its caller: it unlocks the store unless the *)
(* nonces are used up.                                                     *)
finish ==
    /\ walk \in {"add", "rm"} /\ todo = <<>> /\ stack = <<>>
    /\ shared' = Unlocked
    /\ dir' = NoDentry
    /\ covers' = [covers EXCEPT ![start] =
                       IF walk = "add" THEN @ \cup (Reachable[start][found] \ failed) ELSE {}]
    /\ robbed' = {k \in robbed : \E d \in marked : k \in covers'[d]}
    /\ \/ nonce = ULLONG_MAX /\ walk' = "locked" /\ work' = TRUE
       \/ nonce # ULLONG_MAX /\ walk' = "idle" /\ UNCHANGED work
    /\ start' = NoDentry /\ found' = Dentries \ Volatile /\ failed' = {}
    /\ UNCHANGED <<tableVars, todo, stack, marked, cacheVars, excl>>

(* The work item; it leaves store_lock alone. *)
refresh_nonces ==
    /\ work
    /\ inodes' = [b \in Chains |->
                     [i \in DOMAIN inodes[b] |-> [inodes[b][i] EXCEPT !.stamp = 0]]]
    /\ nonce' = 0 /\ work' = FALSE
    /\ UNCHANGED <<fs_stores, walk, dir, todo, stack, marked, cacheVars, lockVars,
                   historyVars>>

-----------------------------------------------------------------------------
(* The file system: a dentry enters the cache, the kernel reclaims one     *)
(* that nobody refers to (a child, a walk's stack or the place it is at, a *)
(* reference left behind), and users of an inode take its lock exclusively. *)
lookup(d) ==
    /\ d \notin cached /\ Parents(d) \subseteq cached
    /\ cached' = cached \cup {d}
    /\ UNCHANGED <<tableVars, walkVars, loose, lockVars>>

reclaim(d) ==
    /\ d \in cached \cap loose /\ Range(d_subdirs[d]) \cap cached = {}
    /\ d # dir /\ d \notin Range(stack) /\ (todo # <<>> => d # Head(todo))
    /\ cached' = cached \ {d} /\ found' = found \ {d}
    /\ todo' = Kept(todo, {i \in DOMAIN todo : todo[i] # d})
    /\ UNCHANGED <<tableVars, walk, dir, stack, work, marked, loose, lockVars, start, failed,
                   covers, robbed>>

inode_lock_wait(k) ==
    /\ excl[k] = "none" /\ excl' = [excl EXCEPT ![k] = "wait"]
    /\ UNCHANGED <<tableVars, walkVars, cacheVars, shared>>

inode_lock_held(k) ==
    /\ excl[k] = "wait" /\ shared[k] = 0 /\ excl' = [excl EXCEPT ![k] = "held"]
    /\ UNCHANGED <<tableVars, walkVars, cacheVars, shared>>

inode_unlock(k) ==
    /\ excl[k] = "held" /\ excl' = [excl EXCEPT ![k] = "none"]
    /\ UNCHANGED <<tableVars, walkVars, cacheVars, shared>>

-----------------------------------------------------------------------------
store_iterate ==
    \/ visit_negative \/ add_again \/ add_counted \/ add_new \/ add_failed
    \/ rm_visit \/ replay \/ finish

Next ==
    \/ \E x \in Calls : begin(x[1], x[2])
    \/ store_iterate
    \/ refresh_nonces
    \/ \E d \in Volatile : lookup(d) \/ reclaim(d)
    \/ \E k \in Writable : inode_lock_wait(k) \/ inode_lock_held(k) \/ inode_unlock(k)

Spec == Init /\ [][Next]_vars

(* The walk runs, and gets a lock in its turn (rw_semaphore is fair);      *)
(* other users of an inode's lock get it and give it back.                 *)
FairSpec ==
    /\ Spec
    /\ SF_vars(store_iterate) /\ WF_vars(refresh_nonces)
    /\ \A k \in Writable : WF_vars(inode_lock_held(k)) /\ WF_vars(inode_unlock(k))

-----------------------------------------------------------------------------
Node == [num : 0 .. UINT_MOD - 1, refCount : 0 .. ULONG_MOD - 1, stamp : Nat]

TypeOK ==
    /\ fs_stores \subseteq Devices /\ nonce \in Nat
    /\ inodes \in [Chains -> Seq(Node)]
    /\ walk \in {"idle", "add", "rm", "locked"} /\ work \in BOOLEAN
    /\ dir \in Dentries \cup {NoDentry} /\ start \in Dentries \cup {NoDentry}
    /\ todo \in Seq(Dentries) /\ stack \in Seq(Dentries)
    /\ marked \subseteq Dentries /\ cached \in Caches /\ loose \subseteq Volatile
    /\ shared \in [Keys -> Nat] /\ excl \in [Keys -> {"none", "wait", "held"}]
    /\ found \in Caches /\ failed \subseteq Keys /\ robbed \subseteq Keys
    /\ covers \in [Dentries -> SUBSET Keys]

(***************************************************************************)
(* Every inode that an add of a protected path covered is in the table,    *)
(* while walks run as well as between them (check_inode takes no lock):    *)
(* the marks by nonce cut no walk short, whatever links and loops it meets *)
(* and whatever enters and leaves the cache under it (what was cached all  *)
(* along is covered), and the counts keep what paths share while one of    *)
(* them needs it.  Excepted are the inodes that an rm has robbed of        *)
(* another path's reference (ProtectedInodesKept says why), and those with *)
(* a number that num is too narrow for, which are never found again        *)
(* (inode_allocate) and whose nodes cost no other inode its place.         *)
(***************************************************************************)
CountedInodesKept ==
    \A d \in marked : \A k \in covers[d] \ robbed : k[2] < UINT_MOD => check_inode(k)

(***************************************************************************)
(* rmPath "removes a path to protect from the store" (api.h), one path:    *)
(* what an add of another one has covered stays in the table.  An rm takes *)
(* a reference from every inode it meets below its path, whether an add of *)
(* that path has counted it or not (rm_inode_ht).                          *)
(***************************************************************************)
ProtectedInodesKept ==
    \A d \in marked : \A k \in covers[d] : k[2] < UINT_MOD => check_inode(k)

(***************************************************************************)
(* A walk holds the lock of the directory it is in and one per entry of    *)
(* its stack, and never together with an exclusive holder; afterwards it   *)
(* holds none (inode_lock_shared and inode_unlock_shared of both walks).   *)
(***************************************************************************)
LocksMatchStack ==
    \A k \in Keys :
        /\ shared[k] = Cardinality({i \in DOMAIN stack : Inode[stack[i]] = k})
                         + (IF dir # NoDentry /\ Inode[dir] = k THEN 1 ELSE 0)
        /\ excl[k] = "held" => shared[k] = 0

(***************************************************************************)
(* Every walk ends, and its caller returns to the user of api.h's          *)
(* operations (store_iterate_add, store_iterate_rm).                       *)
(***************************************************************************)
WalksEnd == (walk \in {"add", "rm"}) ~> (walk \in {"idle", "locked"})

(***************************************************************************)
(* No loop of links that an inode number narrow enough for num breaks and  *)
(* no change of the cache keeps a walk going for ever: it ends, or it is   *)
(* an rm that has met an inode its path's adds have not entered, or one    *)
(* that it has itself freed under another name, and spins in rm_inode_ht.  *)
(***************************************************************************)
WalksEndOrSpin ==
    (walk \in {"add", "rm"}) ~>
        (walk \in {"idle", "locked"} \/ (Meets("rm") /\ rm_spins(Inode[Head(todo)])))

(* What the file system is assumed to be where CountedInodesKept is        *)
(* proved: the dentries of one inode lead to the same dentries (a directory *)
(* has one dentry, a file leads nowhere, hard links of a symbolic link     *)
(* resolve alike), ...                                                     *)
SameEntries ==
    \A x, y \in Dentries :
        Inode[x] = Inode[y] /\ Inode[x] # <<>> =>
            \A C \in SUBSET Dentries : Entries(x, C) = Entries(y, C)

(* ... and refCount is wide enough for what was in a node's memory and an  *)
(* increment in each of n walks.                                           *)
RefCountsFit(n) == \A k \in Keys : \A r \in Stale[k] : r + 1 + n < ULONG_MOD

(***************************************************************************)
(* rmPath "removes a path to protect from the store" (api.h): what is      *)
(* still in the table while no walk runs belongs to a protected path.      *)
(***************************************************************************)
NothingStale ==
    walk \in {"idle", "locked"} =>
        \A k \in Keys : check_inode(k) => \E d \in marked : k \in covers[d]
=============================================================================
