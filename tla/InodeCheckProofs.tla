-------------------------- MODULE InodeCheckProofs --------------------------
(***************************************************************************)
(* Theorems about InodeStore and InodeCheck, for any file system, calls,   *)
(* widths of the fields and inodes checked.                                *)
(*                                                                         *)
(* InodeInv is the invariant of the store and of the locks of its walks,   *)
(* CheckInv, on top of it, that of a check: what the nums of the chain     *)
(* before and behind the node it stands on say of the answer.              *)
(*                                                                         *)
(* KeptWithin, in the second half, is the invariant of the references:     *)
(* the nodes of an inode that no rm has robbed account for the marked      *)
(* paths that need it, the walk in progress included, and an add has met   *)
(* what its stack and its list do not still lead to.                       *)
(***************************************************************************)
EXTENDS InodeCheck, SublistProofs

(* Only a walk has a directory and a stack. *)
AtRest == walk \notin {"add", "rm"} => dir = NoDentry /\ stack = <<>>

(* What the walks have locked is not negative. *)
Positive ==
    /\ dir # NoDentry => Inode[dir] # <<>>
    /\ \A i \in DOMAIN stack : Inode[stack[i]] # <<>>

(* A device without a table has no nodes. *)
NoTable == \A b \in Chains : b[1] \notin fs_stores => inodes[b] = <<>>

InodeInv == TypeOK /\ AtRest /\ Positive /\ LocksMatchStack /\ NoTable

-----------------------------------------------------------------------------
(* The inode of a dentry has a device, a number and a chain of its device. *)
LEMMA KeyType ==
    ASSUME NEW k \in Keys
    PROVE  /\ k[1] \in Devices /\ k[2] \in Nat /\ Chain(k) \in Chains
           /\ Chain(k)[1] = k[1]
           /\ Stale[k] \subseteq 0 .. ULONG_MOD - 1
<1>1. PICK d \in Dentries : k = Inode[d] /\ Inode[d] # <<>>
  BY DEF Keys
<1>2. k[2] \in Nat /\ Stale[k] \subseteq 0 .. ULONG_MOD - 1
  BY <1>1, FileSystemAssumption, WidthAssumption
<1>3. k[1] \in Devices
  BY DEF Devices
<1>4. k[2] % HASH_TABLE_SIZE \in 0 .. HASH_TABLE_SIZE - 1
  BY <1>2, WidthAssumption
<1> QED
  BY <1>2, <1>3, <1>4 DEF Chain, Chains

(* What a positive dentry has is an inode of the file system. *)
LEMMA InodeIsKey ==
    ASSUME NEW d \in Dentries, Inode[d] # <<>>
    PROVE  Inode[d] \in Keys
BY DEF Keys

(* A node that is found is at a place of its chain, with the inode's number. *)
LEMMA FirstFound ==
    ASSUME TypeOK, NEW k \in Keys, check_inode(k)
    PROVE  /\ k[1] \in fs_stores
           /\ First(k) \in 1 .. Len(inodes[Chain(k)])
           /\ inodes[Chain(k)][First(k)].num = k[2]
<1>1. Chain(k) \in Chains
  BY KeyType
<1>2. inodes[Chain(k)] \in Seq(Node)
  BY <1>1 DEF TypeOK
<1>3. DOMAIN inodes[Chain(k)] = 1 .. Len(inodes[Chain(k)]) /\ Len(inodes[Chain(k)]) \in Nat
  BY <1>2
<1>4. /\ Found(k) # {} /\ k[1] \in fs_stores
      /\ Found(k) \in SUBSET (1 .. Len(inodes[Chain(k)]))
      /\ \A i \in Found(k) : inodes[Chain(k)][i].num = k[2]
  BY <1>3 DEF check_inode, Found
<1>5. IsFiniteSet(Found(k)) /\ Found(k) \in SUBSET Int
  <2>1. IsFiniteSet(1 .. Len(inodes[Chain(k)]))
    BY <1>3, FS_Interval
  <2>2. IsFiniteSet(Found(k))
    BY <1>4, <2>1, FS_Subset
  <2> QED
    BY <1>3, <1>4, <2>2
<1>6. First(k) \in Found(k)
  BY <1>4, <1>5, LeastOfSome DEF First
<1> QED
  BY <1>4, <1>6

-----------------------------------------------------------------------------
(* How a chain changes: no node comes or goes, one enters in front, one    *)
(* leaves.                                                                 *)
SameNums(old, new) ==
    Len(new) = Len(old) /\ \A i \in 1 .. Len(old) : new[i].num = old[i].num

Enters(old, new, num) ==
    /\ Len(new) = Len(old) + 1 /\ new[1].num = num
    /\ \A i \in 1 .. Len(old) : new[i + 1].num = old[i].num

Leaves(old, new) ==
    \E p \in 1 .. Len(old) :
        /\ Len(new) = Len(old) - 1
        /\ \A i \in 1 .. Len(old) - 1 :
               new[i].num = IF i < p THEN old[i].num ELSE old[i + 1].num

(* The table but for the chain of k. *)
Elsewhere(k) == \A b \in Chains : b # Chain(k) => inodes'[b] = inodes[b]

(* insert_inode_ht on an inode that is there counts, and moves no node. *)
LEMMA InodeCount ==
    ASSUME TypeOK, NEW k \in Keys, check_inode(k), inode_count(k)
    PROVE  /\ inodes' \in [Chains -> Seq(Node)] /\ Elsewhere(k)
           /\ SameNums(inodes[Chain(k)], inodes'[Chain(k)])
<1> DEFINE c == Chain(k)
           i == First(k)
           node == Counted(inodes[c][i])
<1>1. c \in Chains /\ inodes[c] \in Seq(Node)
  BY KeyType DEF TypeOK
<1>2. i \in 1 .. Len(inodes[c])
  BY FirstFound
<1>3. inodes[c][i] \in Node
  BY <1>1, <1>2
<1>4. node \in Node /\ node.num = inodes[c][i].num
  <2>1. inodes[c][i].refCount \in Nat /\ nonce \in Nat
    BY <1>3, WidthAssumption DEF Node, TypeOK
  <2> QED
    BY <1>3, <2>1, WidthAssumption DEF Node, Counted
<1>5. inodes' = [inodes EXCEPT ![c] = [inodes[c] EXCEPT ![i] = node]]
  BY DEF inode_count
<1> HIDE DEF c, i, node
<1>6. /\ [inodes[c] EXCEPT ![i] = node] \in Seq(Node)
      /\ Len([inodes[c] EXCEPT ![i] = node]) = Len(inodes[c])
      /\ \A n \in 1 .. Len(inodes[c]) :
             [inodes[c] EXCEPT ![i] = node][n] = IF n = i THEN node ELSE inodes[c][n]
  BY <1>1, <1>2, <1>4, ExceptSeq
<1>7. /\ inodes' \in [Chains -> Seq(Node)]
      /\ inodes'[c] = [inodes[c] EXCEPT ![i] = node]
      /\ \A b \in Chains : b # c => inodes'[b] = inodes[b]
  BY <1>1, <1>5, <1>6 DEF TypeOK
<1>8. SameNums(inodes[c], inodes'[c])
  BY <1>4, <1>6, <1>7 DEF SameNums
<1> QED
  BY <1>7, <1>8 DEF Elsewhere, c

(* insert_inode_ht on an inode that is not there puts one node in front. *)
LEMMA InodeAllocate ==
    ASSUME TypeOK, NEW k \in Keys, inode_allocate(k)
    PROVE  /\ inodes' \in [Chains -> Seq(Node)] /\ Elsewhere(k)
           /\ Enters(inodes[Chain(k)], inodes'[Chain(k)], k[2] % UINT_MOD)
<1> DEFINE c == Chain(k)
<1>1. /\ c \in Chains /\ inodes[c] \in Seq(Node) /\ k[2] \in Nat
      /\ Stale[k] \subseteq 0 .. ULONG_MOD - 1
  BY KeyType DEF TypeOK
<1>2. PICK r \in Stale[k] :
          inodes' = [inodes EXCEPT ![c] =
                         <<[num |-> k[2] % UINT_MOD, refCount |-> (r + 1) % ULONG_MOD,
                            stamp |-> 0]>> \o @]
  BY DEF inode_allocate
<1> DEFINE node == [num |-> k[2] % UINT_MOD, refCount |-> (r + 1) % ULONG_MOD, stamp |-> 0]
<1>3. node \in Node /\ node.num = k[2] % UINT_MOD
  BY <1>1, WidthAssumption DEF Node
<1>4. inodes' = [inodes EXCEPT ![c] = <<node>> \o inodes[c]]
  BY <1>2
<1> HIDE DEF c, node
<1>5. /\ <<node>> \o inodes[c] \in Seq(Node)
      /\ Len(<<node>> \o inodes[c]) = Len(inodes[c]) + 1
      /\ (<<node>> \o inodes[c])[1] = node
      /\ \A i \in 1 .. Len(inodes[c]) : (<<node>> \o inodes[c])[i + 1] = inodes[c][i]
  BY <1>1, <1>3, Prepend
<1>6. /\ inodes' \in [Chains -> Seq(Node)]
      /\ inodes'[c] = <<node>> \o inodes[c]
      /\ \A b \in Chains : b # c => inodes'[b] = inodes[b]
  BY <1>1, <1>4, <1>5 DEF TypeOK
<1>7. Enters(inodes[c], inodes'[c], k[2] % UINT_MOD)
  BY <1>3, <1>5, <1>6 DEF Enters
<1> QED
  BY <1>6, <1>7 DEF Elsewhere, c

(* rm_inode_ht uncounts the node it finds, or takes it out of its chain. *)
LEMMA InodeRemove ==
    ASSUME TypeOK, NEW k \in Keys, check_inode(k), rm_inode_ht(k)
    PROVE  /\ inodes' \in [Chains -> Seq(Node)] /\ Elsewhere(k)
           /\ \/ SameNums(inodes[Chain(k)], inodes'[Chain(k)])
              \/ Leaves(inodes[Chain(k)], inodes'[Chain(k)])
<1> DEFINE c == Chain(k)
           i == First(k)
           r == (inodes[c][i].refCount + ULONG_MOD - 1) % ULONG_MOD
           node == [num |-> inodes[c][i].num, refCount |-> r, stamp |-> nonce]
<1>1. c \in Chains /\ inodes[c] \in Seq(Node)
  BY KeyType DEF TypeOK
<1>2. i \in 1 .. Len(inodes[c])
  BY FirstFound
<1>3. inodes[c][i] \in Node
  BY <1>1, <1>2
<1>4. node \in Node /\ node.num = inodes[c][i].num
  <2>1. inodes[c][i].refCount \in Nat /\ nonce \in Nat
    BY <1>3, WidthAssumption DEF Node, TypeOK
  <2>2. r \in 0 .. ULONG_MOD - 1
    BY <2>1, WidthAssumption
  <2> QED
    BY <1>3, <2>1, <2>2 DEF Node
<1>5. inodes' = [inodes EXCEPT ![c] = IF r = 0 THEN RemoveAt(inodes[c], i)
                                      ELSE [inodes[c] EXCEPT ![i] = node]]
  BY DEF rm_inode_ht
<1> HIDE DEF c, i, r, node
<1>6. CASE r = 0
  <2>1. /\ RemoveAt(inodes[c], i) \in Seq(Node)
        /\ Len(RemoveAt(inodes[c], i)) = Len(inodes[c]) - 1
        /\ \A n \in 1 .. Len(inodes[c]) - 1 :
               RemoveAt(inodes[c], i)[n] = IF n < i THEN inodes[c][n] ELSE inodes[c][n + 1]
    BY <1>1, <1>2, RemoveAtPlace
  <2>2. /\ inodes' \in [Chains -> Seq(Node)]
        /\ inodes'[c] = RemoveAt(inodes[c], i)
        /\ \A b \in Chains : b # c => inodes'[b] = inodes[b]
    BY <1>1, <1>5, <1>6, <2>1 DEF TypeOK
  <2>3. Leaves(inodes[c], inodes'[c])
    BY <1>2, <2>1, <2>2 DEF Leaves
  <2> QED
    BY <2>2, <2>3 DEF Elsewhere, c
<1>7. CASE r # 0
  <2>1. /\ [inodes[c] EXCEPT ![i] = node] \in Seq(Node)
        /\ Len([inodes[c] EXCEPT ![i] = node]) = Len(inodes[c])
        /\ \A n \in 1 .. Len(inodes[c]) :
               [inodes[c] EXCEPT ![i] = node][n] = IF n = i THEN node ELSE inodes[c][n]
    BY <1>1, <1>2, <1>4, ExceptSeq
  <2>2. /\ inodes' \in [Chains -> Seq(Node)]
        /\ inodes'[c] = [inodes[c] EXCEPT ![i] = node]
        /\ \A b \in Chains : b # c => inodes'[b] = inodes[b]
    BY <1>1, <1>5, <1>7, <2>1 DEF TypeOK
  <2>3. SameNums(inodes[c], inodes'[c])
    BY <1>4, <2>1, <2>2 DEF SameNums
  <2> QED
    BY <2>2, <2>3 DEF Elsewhere, c
<1> QED
  BY <1>6, <1>7

(* What a step may do to the chain b. *)
ChainMoves(b) ==
    \/ SameNums(inodes[b], inodes'[b])
    \/ Leaves(inodes[b], inodes'[b])
    \/ \E k \in Keys : /\ Chain(k) = b /\ ~check_inode(k)
                       /\ Enters(inodes[b], inodes'[b], k[2] % UINT_MOD)

(* A chain that stays as it is has made one of the moves of a step. *)
LEMMA SameChain ==
    ASSUME NEW b, inodes'[b] = inodes[b]
    PROVE  ChainMoves(b)
BY DEF ChainMoves, SameNums

(* Every step keeps the types of the table, drops no device and moves each *)
(* chain by at most one node.                                              *)
LEMMA TableStep ==
    ASSUME InodeInv, [Next]_vars
    PROVE  /\ inodes' \in [Chains -> Seq(Node)]
           /\ fs_stores' \subseteq Devices /\ fs_stores \subseteq fs_stores'
           /\ NoTable'
           /\ \A b \in Chains : ChainMoves(b)
<1> USE DEF InodeInv
<1> DEFINE h == Head(todo)
<1>1. CASE UNCHANGED <<fs_stores, inodes>>
  BY <1>1, SameChain DEF TypeOK, NoTable
<1>2. ASSUME Meets("add") \/ Meets("rm") PROVE h \in Dentries /\ Inode[h] \in Keys
  <2>1. todo \in Seq(Dentries) /\ todo # <<>> /\ Inode[h] # <<>>
    BY <1>2 DEF Meets, TypeOK
  <2>2. h \in Dentries
    BY <2>1, HeadTail
  <2> QED
    BY <2>1, <2>2, InodeIsKey
<1> HIDE DEF h
<1>3. CASE add_counted
  <2> DEFINE k == Inode[h]
  <2>1. k \in Keys /\ check_inode(k) /\ inode_count(k) /\ UNCHANGED fs_stores
    BY <1>2, <1>3 DEF add_counted, h
  <2> HIDE DEF k
  <2>2. /\ inodes' \in [Chains -> Seq(Node)] /\ Elsewhere(k)
        /\ SameNums(inodes[Chain(k)], inodes'[Chain(k)])
    BY <2>1, InodeCount
  <2>3. \A b \in Chains : ChainMoves(b)
    BY <2>2, SameChain DEF Elsewhere, ChainMoves
  <2>4. k[1] \in fs_stores /\ Chain(k)[1] = k[1]
    BY <2>1, FirstFound, KeyType
  <2>5. NoTable'
    BY <2>1, <2>2, <2>4 DEF NoTable, Elsewhere
  <2> QED
    BY <2>1, <2>2, <2>3, <2>5 DEF TypeOK
<1>4. CASE add_new
  <2> DEFINE k == Inode[h]
  <2>1. /\ k \in Keys /\ ~check_inode(k) /\ inode_allocate(k)
        /\ fs_stores' = fs_stores \cup {k[1]}
    BY <1>2, <1>4 DEF add_new, h
  <2> HIDE DEF k
  <2>2. /\ inodes' \in [Chains -> Seq(Node)] /\ Elsewhere(k)
        /\ Enters(inodes[Chain(k)], inodes'[Chain(k)], k[2] % UINT_MOD)
    BY <2>1, InodeAllocate
  <2>3. \A b \in Chains : ChainMoves(b)
    BY <2>1, <2>2, SameChain DEF Elsewhere, ChainMoves
  <2>4. k[1] \in Devices /\ Chain(k)[1] = k[1]
    BY <2>1, KeyType
  <2>5. NoTable'
    BY <2>1, <2>2, <2>4 DEF NoTable, Elsewhere
  <2> QED
    BY <2>1, <2>2, <2>3, <2>4, <2>5 DEF TypeOK
<1>5. CASE add_failed
  <2>1. Inode[h] \in Keys /\ UNCHANGED inodes
        /\ fs_stores' \in {fs_stores, fs_stores \cup {Inode[h][1]}}
    BY <1>2, <1>5 DEF add_failed, h
  <2>2. Inode[h][1] \in Devices
    BY <2>1, KeyType
  <2> QED
    BY <2>1, <2>2, SameChain DEF TypeOK, NoTable
<1>6. CASE rm_visit
  <2> DEFINE k == Inode[h]
  <2>1. /\ k \in Keys /\ UNCHANGED fs_stores
        /\ (check_inode(k) /\ rm_inode_ht(k)) \/ UNCHANGED inodes
    BY <1>2, <1>6 DEF rm_visit, h
  <2> HIDE DEF k
  <2>2. CASE check_inode(k) /\ rm_inode_ht(k)
    <3>1. /\ inodes' \in [Chains -> Seq(Node)] /\ Elsewhere(k)
          /\ \/ SameNums(inodes[Chain(k)], inodes'[Chain(k)])
             \/ Leaves(inodes[Chain(k)], inodes'[Chain(k)])
      BY <2>1, <2>2, InodeRemove
    <3>2. \A b \in Chains : ChainMoves(b)
      BY <3>1, SameChain DEF Elsewhere, ChainMoves
    <3>3. k[1] \in fs_stores /\ Chain(k)[1] = k[1]
      BY <2>1, <2>2, FirstFound, KeyType
    <3>4. NoTable'
      BY <2>1, <3>1, <3>3 DEF NoTable, Elsewhere
    <3> QED
      BY <2>1, <3>1, <3>2, <3>4 DEF TypeOK
  <2> QED
    BY <1>1, <2>1, <2>2
<1>7. CASE refresh_nonces
  <2>1. ASSUME NEW b \in Chains
        PROVE  /\ inodes'[b] \in Seq(Node) /\ Len(inodes'[b]) = Len(inodes[b])
               /\ \A i \in 1 .. Len(inodes[b]) : inodes'[b][i].num = inodes[b][i].num
    <3>1. inodes[b] \in Seq(Node) /\ Len(inodes[b]) \in Nat
          /\ DOMAIN inodes[b] = 1 .. Len(inodes[b])
      BY DEF TypeOK
    <3>2. inodes'[b] = [i \in 1 .. Len(inodes[b]) |-> [inodes[b][i] EXCEPT !.stamp = 0]]
      BY <1>7, <3>1 DEF refresh_nonces
    <3>3. ASSUME NEW i \in 1 .. Len(inodes[b])
          PROVE  /\ [inodes[b][i] EXCEPT !.stamp = 0] \in Node
                 /\ [inodes[b][i] EXCEPT !.stamp = 0].num = inodes[b][i].num
      <4>1. inodes[b][i] \in Node
        BY <3>1
      <4> QED
        BY <4>1 DEF Node
    <3> QED
      BY <3>1, <3>2, <3>3
  <2>2. inodes' \in [Chains -> Seq(Node)]
    <3>1. inodes' = [b \in Chains |-> inodes'[b]]
      BY <1>7 DEF refresh_nonces
    <3> QED
      BY <2>1, <3>1
  <2>3. \A b \in Chains : ChainMoves(b)
    BY <2>1 DEF ChainMoves, SameNums
  <2>4. NoTable'
    <3>1. ASSUME NEW b \in Chains, b[1] \notin fs_stores' PROVE inodes'[b] = <<>>
      <4>1. inodes[b] = <<>>
        BY <1>7, <3>1 DEF refresh_nonces, NoTable
      <4> QED
        BY <2>1, <4>1, EmptySeq
    <3> QED
      BY <3>1 DEF NoTable
  <2> QED
    BY <1>7, <2>2, <2>3, <2>4 DEF refresh_nonces, TypeOK
<1> QED
  BY <1>1, <1>3, <1>4, <1>5, <1>6, <1>7
  DEF Next, store_iterate, begin, visit_negative, add_again, replay, Descend, finish, lookup,
      reclaim, inode_lock_wait, inode_lock_held, inode_unlock, vars, tableVars

-----------------------------------------------------------------------------
(* What list_for_each finds below a directory is a list of dentries, ...    *)
LEMMA SubdirsType ==
    ASSUME NEW d \in Dentries, NEW C \in Caches
    PROVE  /\ Subdirs[d][C] \in Seq(Dentries)
           /\ Range(Subdirs[d][C]) = Range(d_subdirs[d]) \cap C
<1> DEFINE s == d_subdirs[d]
           I == {i \in DOMAIN s : s[i] \in C}
<1>1. s \in Seq(Dentries)
  BY FileSystemAssumption
<1>2. Subdirs[d][C] = Kept(s, I)
  BY DEF Subdirs
<1>3. I \in SUBSET DOMAIN s /\ {s[i] : i \in I} = Range(s) \cap C
  BY DEF Range
<1> HIDE DEF s, I
<1>4. Kept(s, I) \in Seq(Dentries) /\ Range(Kept(s, I)) = {s[i] : i \in I}
  BY <1>1, <1>3, KeptType, KeptRange
<1> QED
  BY <1>2, <1>3, <1>4 DEF s

(* ... and so is what a walk reaches. *)
LEMMA BelowType ==
    ASSUME NEW d \in Dentries, cached \in Caches
    PROVE  Below(d) \in Seq(Dentries)
<1>1. Subdirs[d][cached] \in Seq(Dentries)
  BY SubdirsType
<1>2. d \in DOMAIN Links => Links[d] \in Dentries \cup {NoDentry}
  BY FileSystemAssumption
<1>3. <<>> \in Seq(Dentries) /\ \A e \in Dentries : <<e>> \in Seq(Dentries)
  OBVIOUS
<1> QED
  BY <1>1, <1>2, <1>3 DEF Below

(* The target of a link and the directories above it are dentries. *)
LEMMA ResolvedType ==
    ASSUME NEW d \in Dentries
    PROVE  Resolved(d) \subseteq Dentries /\ \A t \in Resolved(d) : PathTo[t] \subseteq Dentries
<1>1. Resolved(d) \subseteq Dentries
  BY FileSystemAssumption DEF Resolved
<1>2. \A t \in Dentries : PathTo[t] \subseteq Dentries
  BY DEF PathTo
<1> QED
  BY <1>1, <1>2

(* The ways a step moves the locks: not at all but for an exclusive holder *)
(* that finds none, a push, a round that ends and goes on with the top of  *)
(* the stack, the end of the walk.                                         *)
LockMoves ==
    \/ /\ UNCHANGED <<shared, stack, dir>>
       /\ \A k \in Keys : excl'[k] = "held" => excl[k] = "held" \/ shared[k] = 0
    \/ \E d \in Dentries :
           /\ Inode[d] # <<>> /\ excl[Inode[d]] = "none" /\ UNCHANGED <<dir, excl>>
           /\ stack' = <<d>> \o stack
           /\ shared' = [shared EXCEPT ![Inode[d]] = @ + 1]
    \/ /\ stack # <<>> /\ shared' = Unlocked /\ UNCHANGED excl
       /\ dir' = Head(stack) /\ stack' = Tail(stack)
    \/ /\ stack = <<>> /\ stack' = <<>> /\ shared' = Unlocked /\ UNCHANGED excl
       /\ dir' = NoDentry

(* Every step moves the locks with the stack and the directory of the      *)
(* walk: one inode at a time.                                              *)
LEMMA LockMove ==
    ASSUME InodeInv, [Next]_vars
    PROVE  LockMoves
<1> USE DEF InodeInv
<1> DEFINE h == Head(todo)
<1>1. ASSUME Meets("add") \/ Meets("rm") PROVE h \in Dentries /\ Inode[h] # <<>>
  <2>1. todo \in Seq(Dentries) /\ todo # <<>> /\ Inode[h] # <<>>
    BY <1>1 DEF Meets, TypeOK
  <2> QED
    BY <2>1, HeadTail
<1>2. ASSUME Meets("add") \/ Meets("rm"), Lockable(Inode[h]), Push(Inode[h]),
             UNCHANGED <<dir, excl>>
      PROVE  LockMoves
  BY <1>1, <1>2 DEF Push, Lockable, LockMoves
<1>3. CASE UNCHANGED <<shared, stack, dir, excl>>
  BY <1>3 DEF LockMoves
<1>4. CASE add_counted \/ add_new \/ add_failed
  BY <1>2, <1>4 DEF add_counted, add_new, add_failed, Visited
<1>5. CASE rm_visit
  <2>1. \/ Push(Inode[h])
        \/ UNCHANGED <<stack, shared>>
    BY <1>5 DEF rm_visit
  <2>2. Meets("rm") /\ Lockable(Inode[h]) /\ UNCHANGED <<dir, excl>>
    BY <1>5 DEF rm_visit, Visited
  <2> QED
    BY <1>2, <1>3, <2>1, <2>2
<1>6. CASE replay \/ finish
  BY <1>6 DEF replay, Descend, finish, LockMoves
<1>7. ASSUME NEW x \in Calls, begin(x[1], x[2]) PROVE LockMoves
  <2>1. dir = NoDentry /\ stack = <<>>
    BY <1>7 DEF begin, AtRest
  <2> QED
    BY <1>3, <1>7, <2>1 DEF begin, lockVars
<1>8. ASSUME NEW k \in Writable, inode_lock_wait(k) \/ inode_lock_held(k) \/ inode_unlock(k)
      PROVE  LockMoves
  <2>1. UNCHANGED <<shared, stack, dir>>
    BY <1>8 DEF inode_lock_wait, inode_lock_held, inode_unlock, walkVars
  <2>2. \A l \in Keys : excl'[l] = "held" => excl[l] = "held" \/ shared[l] = 0
    BY <1>8 DEF inode_lock_wait, inode_lock_held, inode_unlock, TypeOK
  <2> QED
    BY <2>1, <2>2 DEF LockMoves
<1> QED
  BY <1>3, <1>4, <1>5, <1>6, <1>7, <1>8
  DEF Next, store_iterate, visit_negative, add_again, Visited, refresh_nonces, lookup,
      reclaim, lockVars, vars, walkVars

(* The places of the inode k in the stack. *)
OnStack(k) == Cardinality(PlacesOf(stack, Inode, k))

(* LocksMatchStack with the stack counted as PlacesOf counts it. *)
LEMMA LocksMatch ==
    LocksMatchStack <=>
        \A k \in Keys :
            /\ shared[k] = OnStack(k) + (IF dir # NoDentry /\ Inode[dir] = k THEN 1 ELSE 0)
            /\ excl[k] = "held" => shared[k] = 0
BY DEF LocksMatchStack, OnStack, PlacesOf

(* Whatever the walk pushes, pops or enters, its locks stay those of its   *)
(* stack and its directory.                                                *)
LEMMA LocksStep ==
    ASSUME InodeInv, [Next]_vars
    PROVE  shared' \in [Keys -> Nat] /\ Positive' /\ LocksMatchStack'
           /\ dir' \in Dentries \cup {NoDentry} /\ stack' \in Seq(Dentries)
<1> USE DEF InodeInv
<1>1. /\ shared \in [Keys -> Nat] /\ stack \in Seq(Dentries) /\ DOMAIN stack = 1 .. Len(stack)
      /\ dir \in Dentries \cup {NoDentry} /\ Len(stack) \in Nat
  BY DEF TypeOK
<1>2. \A k \in Keys :
          /\ shared[k] = OnStack(k) + (IF dir # NoDentry /\ Inode[dir] = k THEN 1 ELSE 0)
          /\ excl[k] = "held" => shared[k] = 0
  BY LocksMatch
<1>3. LocksMatchStack' <=>
        \A k \in Keys :
            /\ shared'[k] = OnStack(k)' + (IF dir' # NoDentry /\ Inode[dir'] = k THEN 1 ELSE 0)
            /\ excl'[k] = "held" => shared'[k] = 0
  BY DEF LocksMatchStack, OnStack, PlacesOf
<1>4. CASE /\ UNCHANGED <<shared, stack, dir>>
           /\ \A k \in Keys : excl'[k] = "held" => excl[k] = "held" \/ shared[k] = 0
  <2>1. \A k \in Keys : OnStack(k)' = OnStack(k)
    BY <1>4 DEF OnStack, PlacesOf
  <2> QED
    BY <1>1, <1>2, <1>3, <1>4, <2>1 DEF Positive
<1>5. ASSUME NEW d \in Dentries,
             Inode[d] # <<>>, excl[Inode[d]] = "none", UNCHANGED <<dir, excl>>,
             stack' = <<d>> \o stack,
             shared' = [shared EXCEPT ![Inode[d]] = @ + 1]
      PROVE  shared' \in [Keys -> Nat] /\ Positive' /\ LocksMatchStack'
             /\ dir' \in Dentries \cup {NoDentry} /\ stack' \in Seq(Dentries)
  <2>1. Inode[d] \in Keys
    BY <1>5, InodeIsKey
  <2>2. /\ stack' \in Seq(Dentries) /\ Len(stack') = Len(stack) + 1 /\ stack'[1] = d
        /\ \A i \in 1 .. Len(stack) : stack'[i + 1] = stack[i]
    BY <1>1, <1>5, Prepend
  <2>3. ASSUME NEW k \in Keys
        PROVE  OnStack(k) \in Nat /\ OnStack(k)' = OnStack(k) + (IF Inode[d] = k THEN 1 ELSE 0)
    BY <1>1, <1>5, CountFront DEF OnStack
  <2>4. shared' \in [Keys -> Nat]
        /\ \A k \in Keys : shared'[k] = shared[k] + (IF Inode[d] = k THEN 1 ELSE 0)
    BY <1>1, <1>5, <2>1
  <2>5. Positive'
    <3>1. \A i \in DOMAIN stack' : i = 1 \/ (i - 1 \in DOMAIN stack /\ stack'[i] = stack[i - 1])
      <4> TAKE i \in DOMAIN stack'
      <4>1. i = 1 \/ (i - 1 \in 1 .. Len(stack) /\ (i - 1) + 1 = i)
        BY <1>1, <2>2
      <4> QED
        BY <1>1, <2>2, <4>1
    <3> QED
      BY <1>5, <2>2, <3>1 DEF Positive
  <2>6. ASSUME NEW k \in Keys
        PROVE  /\ shared'[k] = OnStack(k)' + (IF dir' # NoDentry /\ Inode[dir'] = k THEN 1 ELSE 0)
               /\ excl'[k] = "held" => shared'[k] = 0
    <3>1. shared'[k] = shared[k] + (IF Inode[d] = k THEN 1 ELSE 0)
      BY <2>4
    <3>2. OnStack(k) \in Nat /\ OnStack(k)' = OnStack(k) + (IF Inode[d] = k THEN 1 ELSE 0)
      BY <2>3
    <3>3. /\ shared[k] = OnStack(k) + (IF dir # NoDentry /\ Inode[dir] = k THEN 1 ELSE 0)
          /\ excl[k] = "held" => shared[k] = 0
      BY <1>2
    <3> QED
      BY <1>5, <3>1, <3>2, <3>3
  <2> QED
    BY <1>1, <1>3, <1>5, <2>2, <2>4, <2>5, <2>6
<1>6. /\ dir # NoDentry => Inode[dir] \in Keys
      /\ \A k \in Keys : Unlocked[k] = OnStack(k)
      /\ Unlocked \in [Keys -> Nat]
      /\ \A k \in Keys : OnStack(k) \in Nat /\ (excl[k] = "held" => Unlocked[k] = 0)
  <2>1. dir # NoDentry => Inode[dir] \in Keys
    BY <1>1, InodeIsKey DEF Positive
  <2>2. ASSUME NEW k \in Keys PROVE OnStack(k) \in Nat
    BY <1>1, CountType DEF OnStack
  <2>3. CASE dir = NoDentry
    BY <1>1, <1>2, <2>2, <2>3 DEF Unlocked
  <2>4. CASE dir # NoDentry
    <3>1. Unlocked = [shared EXCEPT ![Inode[dir]] = @ - 1]
      BY <2>4 DEF Unlocked
    <3>2. ASSUME NEW k \in Keys
          PROVE  Unlocked[k] = OnStack(k) /\ (excl[k] = "held" => Unlocked[k] = 0)
      BY <1>1, <1>2, <2>1, <2>2, <2>4, <3>1
    <3>3. Unlocked \in [Keys -> Nat]
      <4>1. Unlocked = [k \in Keys |-> Unlocked[k]]
        BY <1>1, <3>1
      <4> QED
        BY <2>2, <3>2, <4>1
    <3> QED
      BY <2>1, <2>2, <3>2, <3>3
  <2> QED
    BY <2>3, <2>4
<1>7. CASE /\ stack # <<>> /\ shared' = Unlocked /\ UNCHANGED excl
           /\ dir' = Head(stack) /\ stack' = Tail(stack)
  <2>1. stack = <<dir'>> \o stack' /\ dir' \in Dentries /\ stack' \in Seq(Dentries)
    BY <1>1, <1>7, FrontAndRest
  <2>2. ASSUME NEW k \in Keys
        PROVE  OnStack(k)' \in Nat /\ OnStack(k) = OnStack(k)' + (IF Inode[dir'] = k THEN 1 ELSE 0)
    BY <2>1, CountFront DEF OnStack
  <2>3. /\ Len(stack) = Len(stack') + 1 /\ stack[1] = dir' /\ Len(stack') \in Nat
        /\ \A i \in 1 .. Len(stack') : stack[i + 1] = stack'[i]
    BY <2>1, Prepend
  <2>4. Positive'
    <3>1. Inode[dir'] # <<>>
      BY <1>1, <2>3 DEF Positive
    <3>2. \A i \in DOMAIN stack' : i + 1 \in DOMAIN stack /\ stack[i + 1] = stack'[i]
      BY <1>1, <2>1, <2>3
    <3> QED
      BY <3>1, <3>2 DEF Positive
  <2>5. dir' # NoDentry
    BY <2>1, FileSystemAssumption
  <2> QED
    BY <1>3, <1>6, <1>7, <2>1, <2>2, <2>4, <2>5
<1>8. CASE /\ stack = <<>> /\ stack' = <<>> /\ shared' = Unlocked /\ UNCHANGED excl
           /\ dir' = NoDentry
  <2>1. \A k \in Keys : OnStack(k)' = OnStack(k)
    BY <1>8 DEF OnStack, PlacesOf
  <2> QED
    BY <1>1, <1>3, <1>6, <1>8, <2>1 DEF Positive
<1> QED
  BY <1>4, <1>5, <1>7, <1>8, LockMove DEF LockMoves

-----------------------------------------------------------------------------
(* What a walk can reach are inodes of the file system. *)
LEMMA ReachableType ==
    ASSUME NEW d \in Dentries, NEW C \in Caches
    PROVE  /\ Reachable[d][C] = {Inode[e] : e \in Covered(d, C)} \ {<<>>}
           /\ Reachable[d][C] \subseteq Keys
<1>1. Reachable[d][C] = {Inode[e] : e \in Covered(d, C)} \ {<<>>}
  BY DEF Reachable
<1>2. Covered(d, C) \subseteq Dentries
  BY DEF Covered
<1> QED
  BY <1>1, <1>2 DEF Keys

(* The variables of the walk that the two steps above do not speak of. *)
WalkType ==
    /\ nonce \in Nat
    /\ walk \in {"idle", "add", "rm", "locked"} /\ work \in BOOLEAN
    /\ start \in Dentries \cup {NoDentry}
    /\ todo \in Seq(Dentries)
    /\ marked \subseteq Dentries /\ cached \in Caches /\ loose \subseteq Volatile
    /\ excl \in [Keys -> {"none", "wait", "held"}]
    /\ found \in Caches /\ failed \subseteq Keys /\ robbed \subseteq Keys
    /\ covers \in [Dentries -> SUBSET Keys]

(* Every step keeps the types of the walk, and a walk that ends has left   *)
(* directory and stack.                                                    *)
LEMMA WalkStep ==
    ASSUME InodeInv, [Next]_vars
    PROVE  WalkType' /\ AtRest'
<1> USE DEF InodeInv
<1>1. ASSUME NEW x \in Calls, begin(x[1], x[2]) PROVE WalkType' /\ AtRest'
  <2>1. x[2] \in Dentries /\ x[1] \in {"add", "rm"} /\ <<x[2]>> \in Seq(Dentries)
    BY CallsAssumption
  <2> QED
    BY <1>1, <2>1 DEF begin, lockVars, WalkType, AtRest, TypeOK
<1>2. CASE \/ visit_negative \/ add_again \/ add_counted \/ add_new \/ add_failed
           \/ rm_visit
  <2>1. todo # <<>> /\ walk \in {"add", "rm"} /\ Visited
    BY <1>2 DEF visit_negative, add_again, add_counted, add_new, add_failed, rm_visit, Meets
  <2>2. Tail(todo) \in Seq(Dentries) /\ Head(todo) \in Dentries
    BY <2>1, HeadTail DEF TypeOK
  <2>3. failed' \subseteq Keys /\ robbed' \subseteq Keys
    <3>1. CASE UNCHANGED <<failed, robbed>>
      BY <3>1 DEF TypeOK
    <3>2. CASE add_failed
      <4>1. Inode[Head(todo)] \in Keys
        BY <2>2, <3>2, InodeIsKey DEF add_failed, Meets
      <4> QED
        BY <3>2, <4>1 DEF add_failed, TypeOK
    <3>3. CASE rm_visit
      <4>1. Inode[Head(todo)] \in Keys
        BY <2>2, <3>3, InodeIsKey DEF rm_visit, Meets
      <4> QED
        BY <3>3, <4>1 DEF rm_visit, TypeOK
    <3> QED
      BY <1>2, <3>1, <3>2, <3>3 DEF visit_negative, add_again, add_counted, add_new
  <2> QED
    BY <2>1, <2>2, <2>3 DEF Visited, cacheVars, WalkType, AtRest, TypeOK
<1>3. CASE replay
  <2>1. Head(stack) \in Dentries
    BY <1>3, FrontAndRest DEF replay, Descend, TypeOK
  <2>2. Below(Head(stack)) \in Seq(Dentries)
    BY <2>1, BelowType DEF TypeOK
  <2>3. cached' \in Caches /\ loose' \subseteq Volatile
    BY <1>3, <2>1, ResolvedType DEF replay, Descend, TypeOK, Caches
  <2> QED
    BY <1>3, <2>2, <2>3 DEF replay, Descend, tableVars, historyVars, WalkType, AtRest, TypeOK
<1>4. CASE finish
  <2>1. covers' \in [Dentries -> SUBSET Keys]
    <3>1. \A d \in Dentries : covers[d] \cup (Reachable[d][found] \ failed) \in SUBSET Keys
      BY ReachableType DEF TypeOK
    <3>2. covers' = [covers EXCEPT ![start] =
                         IF walk = "add" THEN @ \cup (Reachable[start][found] \ failed) ELSE {}]
      BY <1>4 DEF finish
    <3>3. {} \in SUBSET Keys /\ covers \in [Dentries -> SUBSET Keys]
      BY DEF TypeOK
    <3> QED
      BY <3>1, <3>2, <3>3
  <2>2. Dentries \ Volatile \in Caches
    BY DEF Caches
  <2> QED
    BY <1>4, <2>1, <2>2 DEF finish, tableVars, cacheVars, WalkType, AtRest, TypeOK
<1>5. CASE refresh_nonces
  BY <1>5 DEF refresh_nonces, cacheVars, lockVars, historyVars, WalkType, AtRest, TypeOK
<1>6. ASSUME NEW d \in Volatile, lookup(d) PROVE WalkType' /\ AtRest'
  <2>1. cached' \in Caches
    BY <1>6, FileSystemAssumption DEF lookup, TypeOK, Caches
  <2> QED
    BY <1>6, <2>1 DEF lookup, WalkType, AtRest, TypeOK, tableVars, walkVars, historyVars, lockVars
<1>7. ASSUME NEW d \in Volatile, reclaim(d) PROVE WalkType' /\ AtRest'
  <2>1. cached' \in Caches /\ found' \in Caches
    BY <1>7 DEF reclaim, TypeOK, Caches
  <2>2. todo' \in Seq(Dentries)
    <3> DEFINE I == {i \in DOMAIN todo : todo[i] # d}
    <3>1. I \in SUBSET DOMAIN todo /\ todo \in Seq(Dentries)
      BY DEF TypeOK
    <3>2. todo' = Kept(todo, I)
      BY <1>7 DEF reclaim
    <3> HIDE DEF I
    <3> QED
      BY <3>1, <3>2, KeptType
  <2> QED
    BY <1>7, <2>1, <2>2 DEF reclaim, WalkType, AtRest, TypeOK, tableVars, lockVars
<1>8. ASSUME NEW k \in Writable, inode_lock_wait(k) \/ inode_lock_held(k) \/ inode_unlock(k)
      PROVE  WalkType' /\ AtRest'
  BY <1>8 DEF inode_lock_wait, inode_lock_held, inode_unlock, WalkType, AtRest, TypeOK,
              tableVars, walkVars, historyVars, cacheVars
<1>9. CASE UNCHANGED vars
  BY <1>9 DEF vars, tableVars, walkVars, historyVars, cacheVars, lockVars, WalkType, AtRest,
              TypeOK
<1> QED
  BY <1>1, <1>2, <1>3, <1>4, <1>5, <1>6, <1>7, <1>8, <1>9 DEF Next, store_iterate

(* The invariant holds before the first call. *)
LEMMA InodeInvStart == Init => InodeInv
<1> SUFFICES ASSUME Init PROVE InodeInv
  OBVIOUS
<1>1. TypeOK
  <2>1. /\ <<>> \in Seq(Dentries) /\ <<>> \in Seq(Node)
        /\ Dentries \ Volatile \in Caches /\ {} \in SUBSET Keys
    BY DEF Caches
  <2> QED
    BY <2>1 DEF Init, TypeOK
<1>2. LocksMatchStack
  <2>1. ASSUME NEW k \in Keys PROVE OnStack(k) = 0
    <3>1. PlacesOf(stack, Inode, k) = {}
      BY DEF Init, PlacesOf
    <3> QED
      BY <3>1, FS_EmptySet DEF OnStack
  <2> QED
    BY <2>1, LocksMatch DEF Init
<1> QED
  BY <1>1, <1>2 DEF Init, InodeInv, AtRest, Positive, NoTable

(* The invariant is kept by every step of the store. *)
LEMMA InodeInvStep == InodeInv /\ [Next]_vars => InodeInv'
<1> SUFFICES ASSUME InodeInv, [Next]_vars PROVE InodeInv'
  OBVIOUS
<1>1. TypeOK'
  BY TableStep, LocksStep, WalkStep DEF WalkType, TypeOK
<1> QED
  BY <1>1, TableStep, LocksStep, WalkStep DEF InodeInv

(* The table, the walks and the locks of the inode store always satisfy    *)
(* InodeInv (inode_store.c, store_iterate.c).                              *)
THEOREM InodeInvariant == Spec => []InodeInv
BY InodeInvStart, InodeInvStep, PTL DEF Spec

(* A step of the composition is a step of the store, or leaves it alone. *)
LEMMA CheckImpliesStore == CheckSpec => Spec
<1>1. CheckInit => Init
  BY DEF CheckInit
<1>2. [CheckNext]_allVars => [Next]_vars
  BY DEF CheckNext, check_begin, check_next, check_return, allVars
<1> QED
  BY <1>1, <1>2, PTL DEF CheckSpec, Spec

(* The table and the walks keep their types, whatever is walked and        *)
(* checked.                                                                *)
THEOREM InodeTypeCorrect == CheckSpec => []TypeOK
BY InodeInvariant, CheckImpliesStore, PTL DEF InodeInv

(* A walk holds just the locks its directory and its stack call for, and   *)
(* none with an exclusive holder, whatever links and loops it meets.       *)
THEOREM LocksKept == CheckSpec => []LocksMatchStack
BY InodeInvariant, CheckImpliesStore, PTL DEF InodeInv

-----------------------------------------------------------------------------
(* The nums of a chain. *)
Distinct(ch) == \A i, m \in 1 .. Len(ch) : ch[i].num = ch[m].num => i = m
Has(ch, x) == \E i \in 1 .. Len(ch) : ch[i].num = x
Before(ch, x, y) == \E i, m \in 1 .. Len(ch) : i < m /\ ch[i].num = x /\ ch[m].num = y

(* Chains of devices that are checked have no num twice. *)
CheckedDistinct ==
    \A b \in Chains : (\E k \in Checked : k[1] = b[1]) => Distinct(inodes[b])

(* While the answer was never "absent" since the check began, the inode    *)
(* it asks for is behind the node it stands on.                            *)
OnTheWay ==
    key # <<>> =>
        LET chain == inodes[Chain(key)]
        IN  /\ key \in Checked
            /\ check_inode(key) \in right
            /\ tmp2 = End => FALSE \in right
            /\ tmp2 = key[2] => TRUE \in right
            /\ tmp2 # End => Has(chain, tmp2)
            /\ tmp2 \notin {End, key[2]} => FALSE \in right \/ Before(chain, tmp2, key[2])

CheckInv == InodeInv /\ CheckedDistinct /\ OnTheWay

-----------------------------------------------------------------------------
(* Counting keeps a chain distinct and in its order. *)
LEMMA SameKeeps ==
    ASSUME NEW old \in Seq(Node), NEW new \in Seq(Node), SameNums(old, new)
    PROVE  /\ Distinct(old) => Distinct(new)
           /\ \A x, y : Before(old, x, y) => Before(new, x, y)
<1>1. Len(old) = Len(new) /\ \A i \in 1 .. Len(old) : new[i].num = old[i].num
  BY DEF SameNums
<1> QED
  BY <1>1 DEF Distinct, Before

(* A node in front with a new num keeps the chain distinct, and the order  *)
(* behind it.                                                              *)
LEMMA EntersKeeps ==
    ASSUME NEW old \in Seq(Node), NEW new \in Seq(Node), NEW num, Enters(old, new, num)
    PROVE  /\ Distinct(old) /\ ~Has(old, num) => Distinct(new)
           /\ \A x, y : Before(old, x, y) => Before(new, x, y)
<1>1. /\ Len(old) \in Nat /\ Len(new) = Len(old) + 1 /\ new[1].num = num
      /\ \A i \in 1 .. Len(old) : new[i + 1].num = old[i].num
  BY DEF Enters
<1>2. \A i \in 1 .. Len(new) :
          \/ i = 1 /\ new[i].num = num
          \/ i > 1 /\ i - 1 \in 1 .. Len(old) /\ new[i].num = old[i - 1].num
  <2> TAKE i \in 1 .. Len(new)
  <2>1. i = 1 \/ (i > 1 /\ i - 1 \in 1 .. Len(old) /\ (i - 1) + 1 = i)
    BY <1>1
  <2> QED
    BY <1>1, <2>1
<1>3. ASSUME Distinct(old), ~Has(old, num) PROVE Distinct(new)
  <2> SUFFICES ASSUME NEW i \in 1 .. Len(new), NEW m \in 1 .. Len(new), new[i].num = new[m].num
               PROVE  i = m
    BY DEF Distinct
  <2>1. i \in Int /\ m \in Int
    BY <1>1
  <2> QED
    BY <1>2, <1>3, <2>1 DEF Distinct, Has
<1>4. ASSUME NEW x, NEW y, Before(old, x, y) PROVE Before(new, x, y)
  <2>1. PICK i \in 1 .. Len(old), m \in 1 .. Len(old) :
            i < m /\ old[i].num = x /\ old[m].num = y
    BY <1>4 DEF Before
  <2>2. /\ i + 1 \in 1 .. Len(new) /\ m + 1 \in 1 .. Len(new) /\ i + 1 < m + 1
        /\ new[i + 1].num = x /\ new[m + 1].num = y
    BY <1>1, <2>1
  <2> QED
    BY <2>2 DEF Before
<1> QED
  BY <1>3, <1>4

(* A node that leaves keeps the chain distinct, and the order of those     *)
(* that stay.                                                              *)
LEMMA LeavesKeeps ==
    ASSUME NEW old \in Seq(Node), NEW new \in Seq(Node), Leaves(old, new), Distinct(old)
    PROVE  /\ Distinct(new)
           /\ \A x, y : Before(old, x, y) /\ Has(new, x) /\ Has(new, y) => Before(new, x, y)
<1>1. PICK p \in 1 .. Len(old) :
          /\ Len(new) = Len(old) - 1
          /\ \A i \in 1 .. Len(old) - 1 :
                 new[i].num = IF i < p THEN old[i].num ELSE old[i + 1].num
  BY DEF Leaves
<1>2. Len(old) \in Nat /\ p \in Int /\ 1 <= p /\ p <= Len(old)
  BY <1>1
<1>3. \A i \in 1 .. Len(new) :
          \/ i < p /\ i \in 1 .. Len(old) /\ new[i].num = old[i].num
          \/ i >= p /\ i + 1 \in 1 .. Len(old) /\ new[i].num = old[i + 1].num
  BY <1>1, <1>2
<1>4. Distinct(new)
  <2> SUFFICES ASSUME NEW i \in 1 .. Len(new), NEW m \in 1 .. Len(new), new[i].num = new[m].num
               PROVE  i = m
    BY DEF Distinct
  <2>1. i \in Int /\ m \in Int
    BY <1>1, <1>2
  <2> QED
    BY <1>2, <1>3, <2>1 DEF Distinct
<1>5. ASSUME NEW x, NEW y, Before(old, x, y), Has(new, x), Has(new, y)
      PROVE  Before(new, x, y)
  <2>1. PICK i \in 1 .. Len(new), m \in 1 .. Len(new) : new[i].num = x /\ new[m].num = y
    BY <1>5 DEF Has
  <2>2. PICK a \in 1 .. Len(old), b \in 1 .. Len(old) :
            a < b /\ old[a].num = x /\ old[b].num = y
    BY <1>5 DEF Before
  <2>3. /\ (a = i /\ i < p) \/ (a = i + 1 /\ i >= p)
        /\ (b = m /\ m < p) \/ (b = m + 1 /\ m >= p)
    <3>1. \A n, l \in 1 .. Len(old) : old[n].num = old[l].num => n = l
      BY DEF Distinct
    <3> QED
      BY <1>3, <2>1, <2>2, <3>1
  <2>4. i < m
    <3>1. i \in Int /\ m \in Int
      BY <1>1, <1>2
    <3> QED
      BY <1>2, <2>2, <2>3, <3>1
  <2> QED
    BY <2>1, <2>4 DEF Before
<1> QED
  BY <1>4, <1>5

(* A chain keeps its nums apart, and those that stay their order. *)
LEMMA ChainKeeps ==
    ASSUME InodeInv, [Next]_vars, CheckedDistinct, NEW b \in Chains,
           \E k \in Checked : k[1] = b[1]
    PROVE  /\ Distinct(inodes'[b])
           /\ \A x, y : Before(inodes[b], x, y) /\ Has(inodes'[b], x) /\ Has(inodes'[b], y)
                            => Before(inodes'[b], x, y)
<1>1. inodes[b] \in Seq(Node) /\ inodes'[b] \in Seq(Node) /\ ChainMoves(b)
  BY TableStep DEF InodeInv, TypeOK
<1>2. Distinct(inodes[b])
  BY DEF CheckedDistinct
<1>3. CASE SameNums(inodes[b], inodes'[b])
  BY <1>1, <1>2, <1>3, SameKeeps
<1>4. CASE Leaves(inodes[b], inodes'[b])
  BY <1>1, <1>2, <1>4, LeavesKeeps
<1>5. ASSUME NEW k \in Keys, Chain(k) = b, ~check_inode(k),
             Enters(inodes[b], inodes'[b], k[2] % UINT_MOD)
      PROVE  /\ Distinct(inodes'[b])
             /\ \A x, y : Before(inodes[b], x, y) => Before(inodes'[b], x, y)
  <2>1. k[2] \in Nat /\ k[1] = b[1]
    BY <1>5, KeyType
  <2>2. k[2] < UINT_MOD
    BY <2>1, CheckedAssumption
  <2>3. k[2] % UINT_MOD = k[2]
    BY <2>1, <2>2, WidthAssumption
  <2>4. ~Has(inodes[b], k[2])
    <3>1. CASE k[1] \in fs_stores
      <4>1. DOMAIN inodes[b] = 1 .. Len(inodes[b])
        BY <1>1
      <4> QED
        BY <1>5, <3>1, <4>1 DEF check_inode, Found, Has
    <3>2. CASE k[1] \notin fs_stores
      <4>1. inodes[b] = <<>>
        BY <2>1, <3>2 DEF InodeInv, NoTable
      <4> QED
        BY <4>1 DEF Has
    <3> QED
      BY <3>1, <3>2
  <2>5. Enters(inodes[b], inodes'[b], k[2])
    BY <1>5, <2>3
  <2> QED
    BY <1>1, <1>2, <2>4, <2>5, EntersKeeps
<1> QED
  BY <1>1, <1>3, <1>4, <1>5 DEF ChainMoves

(* check_inode's answer is whether the chain has the inode's number. *)
LEMMA AnswerIsHas ==
    ASSUME InodeInv, NEW k \in Keys
    PROVE  /\ check_inode(k) <=> Has(inodes[Chain(k)], k[2])
           /\ check_inode(k) \in BOOLEAN
<1>1. /\ Chain(k) \in Chains /\ Chain(k)[1] = k[1]
      /\ inodes[Chain(k)] \in Seq(Node)
      /\ DOMAIN inodes[Chain(k)] = 1 .. Len(inodes[Chain(k)])
  BY KeyType DEF InodeInv, TypeOK
<1>2. CASE k[1] \in fs_stores
  BY <1>1, <1>2 DEF check_inode, Found, Has
<1>3. CASE k[1] \notin fs_stores
  <2>1. inodes[Chain(k)] = <<>>
    BY <1>1, <1>3 DEF InodeInv, NoTable
  <2>2. 1 .. Len(<<>>) = {}
    OBVIOUS
  <2> QED
    BY <1>3, <2>1, <2>2 DEF check_inode, Found, Has
<1> QED
  BY <1>2, <1>3

AnswersRight ==
    \A k \in Keys : /\ check_inode(k) <=> Has(inodes[Chain(k)], k[2])
                    /\ check_inode(k) \in BOOLEAN

(* What a check should answer is whether the chain has a node of that num. *)
LEMMA AnswersAreHas == InodeInv => AnswersRight
BY AnswerIsHas DEF AnswersRight

(* The nums of a chain are numbers, and End is none of them. *)
LEMMA NumType ==
    ASSUME InodeInv, NEW k \in Keys
    PROVE  /\ inodes[Chain(k)] \in Seq(Node) /\ Len(inodes[Chain(k)]) \in Nat
           /\ DOMAIN inodes[Chain(k)] = 1 .. Len(inodes[Chain(k)])
           /\ \A i \in 1 .. Len(inodes[Chain(k)]) : inodes[Chain(k)][i].num # End
           /\ k[2] # End
<1>1. Chain(k) \in Chains /\ k[2] \in Nat
  BY KeyType
<1>2. inodes[Chain(k)] \in Seq(Node)
  BY <1>1 DEF InodeInv, TypeOK
<1>3. \A node \in Node : node.num # End
  BY WidthAssumption DEF Node, End
<1> QED
  BY <1>1, <1>2, <1>3 DEF End

(* A check that begins stands at the head of the chain, with all of it     *)
(* before it.                                                              *)
LEMMA BeginStep ==
    ASSUME CheckInv, NEW k \in Checked, check_begin(k)
    PROVE  OnTheWay'
<1> DEFINE ch == inodes[Chain(k)]
<1>1. k \in Keys /\ InodeInv
  BY CheckedAssumption DEF CheckInv
<1>2. /\ ch \in Seq(Node) /\ Len(ch) \in Nat /\ k[2] # End
      /\ \A i \in 1 .. Len(ch) : ch[i].num # End
  BY <1>1, NumType
<1>3. /\ check_inode(k) <=> Has(ch, k[2])
      /\ check_inode(k) \in BOOLEAN
  BY <1>1, AnswerIsHas
<1>4. key' = k /\ right' = {check_inode(k)} /\ UNCHANGED vars
  BY DEF check_begin
<1>5. inodes'[Chain(key')] = ch /\ check_inode(key)' = check_inode(k)
  BY <1>4 DEF vars, tableVars, check_inode, Found, Chain
<1>6. tmp2' = IF Len(ch) > 0 THEN ch[1].num ELSE End
  <2>1. CASE k[1] \in fs_stores
    BY <1>2, <2>1 DEF check_begin, Behind
  <2>2. CASE k[1] \notin fs_stores
    <3>1. ch = <<>>
      BY <1>1, <2>2, KeyType DEF InodeInv, NoTable
    <3>2. ~(Len(ch) > 0)
      BY <3>1
    <3> QED
      BY <2>2, <3>2 DEF check_begin
  <2> QED
    BY <2>1, <2>2
<1> HIDE DEF ch
<1>7. CASE Len(ch) > 0
  <2>1. tmp2' = ch[1].num /\ 1 \in 1 .. Len(ch) /\ tmp2' # End
    BY <1>2, <1>6, <1>7
  <2>2. tmp2' = k[2] => check_inode(k) = TRUE
    BY <1>3, <2>1 DEF Has
  <2>3. tmp2' # k[2] /\ check_inode(k) # FALSE => Before(ch, tmp2', k[2])
    <3> SUFFICES ASSUME tmp2' # k[2], check_inode(k) # FALSE PROVE Before(ch, tmp2', k[2])
      OBVIOUS
    <3>1. PICK m \in 1 .. Len(ch) : ch[m].num = k[2]
      BY <1>3 DEF Has
    <3>2. 1 < m
      BY <1>2, <2>1, <3>1
    <3> QED
      BY <2>1, <3>1, <3>2 DEF Before
  <2>4. Has(ch, tmp2')
    BY <2>1 DEF Has
  <2> QED
    BY <1>3, <1>4, <1>5, <2>1, <2>2, <2>3, <2>4 DEF OnTheWay
<1>8. CASE ~(Len(ch) > 0)
  <2>1. tmp2' = End /\ check_inode(k) = FALSE
    BY <1>2, <1>3, <1>6, <1>8 DEF Has
  <2> QED
    BY <1>2, <1>4, <1>5, <2>1 DEF OnTheWay
<1> QED
  BY <1>7, <1>8

(* A check that goes on to the next node leaves behind no node of the      *)
(* inode it asks for.                                                      *)
LEMMA NextStep ==
    ASSUME CheckInv, check_next
    PROVE  OnTheWay'
<1> DEFINE ch == inodes[Chain(key)]
           i == At(Chain(key), tmp2)
<1>1. /\ key \in Checked /\ key \in Keys /\ InodeInv /\ key # <<>>
      /\ tmp2 # End /\ tmp2 # key[2] /\ Chain(key) \in Chains /\ Chain(key)[1] = key[1]
  BY CheckedAssumption, KeyType DEF CheckInv, OnTheWay, check_next
<1>2. /\ ch \in Seq(Node) /\ Len(ch) \in Nat /\ DOMAIN ch = 1 .. Len(ch) /\ key[2] # End
      /\ \A n \in 1 .. Len(ch) : ch[n].num # End
  BY <1>1, NumType
<1>3. /\ check_inode(key) <=> Has(ch, key[2])
      /\ check_inode(key) \in BOOLEAN /\ check_inode(key) \in right
  BY <1>1, AnswerIsHas DEF CheckInv, OnTheWay
<1>4. Distinct(ch) /\ Has(ch, tmp2)
      /\ (FALSE \in right \/ Before(ch, tmp2, key[2]))
  BY <1>1 DEF CheckInv, CheckedDistinct, OnTheWay
<1>5. i \in 1 .. Len(ch) /\ ch[i].num = tmp2
  BY <1>2, <1>4 DEF At, Has
<1>6. /\ tmp2' = IF i < Len(ch) THEN ch[i + 1].num ELSE End
      /\ UNCHANGED <<vars, key, right>>
  BY DEF check_next, Behind
<1>7. inodes'[Chain(key')] = ch /\ check_inode(key)' = check_inode(key)
  BY <1>6 DEF vars, tableVars, check_inode, Found, Chain
<1> HIDE DEF ch, i
<1>8. CASE i < Len(ch)
  <2>1. tmp2' = ch[i + 1].num /\ i + 1 \in 1 .. Len(ch) /\ tmp2' # End
    BY <1>2, <1>5, <1>6, <1>8
  <2>2. Has(ch, tmp2')
    BY <2>1 DEF Has
  <2>3. tmp2' = key[2] => check_inode(key) = TRUE
    BY <1>3, <2>1 DEF Has
  <2>4. tmp2' # key[2] /\ FALSE \notin right => Before(ch, tmp2', key[2])
    <3> SUFFICES ASSUME tmp2' # key[2], FALSE \notin right PROVE Before(ch, tmp2', key[2])
      OBVIOUS
    <3>1. PICK a \in 1 .. Len(ch), m \in 1 .. Len(ch) :
              a < m /\ ch[a].num = tmp2 /\ ch[m].num = key[2]
      BY <1>4 DEF Before
    <3>2. a = i
      BY <1>4, <1>5, <3>1 DEF Distinct
    <3>3. i + 1 < m
      BY <1>2, <1>5, <2>1, <3>1, <3>2
    <3> QED
      BY <2>1, <3>1, <3>3 DEF Before
  <2> QED
    BY <1>1, <1>3, <1>6, <1>7, <2>1, <2>2, <2>3, <2>4 DEF OnTheWay
<1>9. CASE ~(i < Len(ch))
  <2>1. tmp2' = End
    BY <1>6, <1>9
  <2>2. FALSE \in right
    <3> SUFFICES ASSUME Before(ch, tmp2, key[2]) PROVE FALSE
      BY <1>4
    <3>1. PICK a \in 1 .. Len(ch), m \in 1 .. Len(ch) :
              a < m /\ ch[a].num = tmp2 /\ ch[m].num = key[2]
      BY DEF Before
    <3>2. a = i
      BY <1>4, <1>5, <3>1 DEF Distinct
    <3> QED
      BY <1>2, <1>5, <1>9, <3>1, <3>2
  <2> QED
    BY <1>1, <1>2, <1>3, <1>6, <1>7, <2>1, <2>2 DEF OnTheWay
<1> QED
  BY <1>8, <1>9

(* While a check stands on a node that stays, what the store does before   *)
(* or behind it takes the answer nowhere wrong.                            *)
LEMMA MeanwhileStep ==
    ASSUME CheckInv, Next, Meanwhile
    PROVE  OnTheWay'
<1>1. CASE key' = <<>>
  BY <1>1 DEF OnTheWay
<1>2. CASE /\ key # <<>> /\ ~Freed
           /\ UNCHANGED <<key, tmp2>>
           /\ right' = right \cup {check_inode(key)'}
  <2> DEFINE ch == inodes[Chain(key)]
             new == inodes'[Chain(key)]
  <2>1. /\ key \in Checked /\ key \in Keys /\ InodeInv
        /\ Chain(key) \in Chains /\ Chain(key)[1] = key[1]
    BY <1>2, CheckedAssumption, KeyType DEF CheckInv, OnTheWay
  <2>2. InodeInv'
    BY <2>1, InodeInvStep
  <2>3. /\ new \in Seq(Node) /\ Len(new) \in Nat /\ DOMAIN new = 1 .. Len(new)
    BY <2>1, <2>2 DEF InodeInv, TypeOK
  <2>4. inodes'[Chain(key')] = new
    BY <1>2
  <2>5. /\ check_inode(key)' <=> Has(new, key[2])
        /\ check_inode(key)' \in BOOLEAN
    <3>1. key' = key /\ key' \in Keys
      BY <1>2, <2>1
    <3>2. AnswersRight'
      BY <2>2, AnswersAreHas, PTL
    <3> QED
      BY <2>1, <3>1, <3>2 DEF AnswersRight, check_inode, Found, Chain
  <2>6. tmp2 # End => Has(new, tmp2)
    BY <1>2, <2>3 DEF Freed, Has
  <2>7. Before(ch, tmp2, key[2]) /\ Has(new, tmp2) /\ Has(new, key[2])
            => Before(new, tmp2, key[2])
    BY <2>1, ChainKeeps DEF CheckInv
  <2>8. /\ tmp2 = End => FALSE \in right
        /\ tmp2 = key[2] => TRUE \in right
        /\ tmp2 \notin {End, key[2]} => FALSE \in right \/ Before(ch, tmp2, key[2])
    BY <1>2 DEF CheckInv, OnTheWay
  <2> HIDE DEF ch, new
  <2> QED
    BY <1>2, <2>1, <2>4, <2>5, <2>6, <2>7, <2>8 DEF OnTheWay
<1> QED
  BY <1>1, <1>2 DEF Meanwhile, Idle, checkVars, CheckInv, OnTheWay

(* CheckInv is kept by every step of the store and of the check. *)
LEMMA CheckInvStep == CheckInv /\ [CheckNext]_allVars => CheckInv'
<1> SUFFICES ASSUME CheckInv, [CheckNext]_allVars PROVE CheckInv'
  OBVIOUS
<1>1. [Next]_vars
  BY DEF CheckNext, check_begin, check_next, check_return, allVars
<1>2. InodeInv'
  BY <1>1, InodeInvStep DEF CheckInv
<1>3. CheckedDistinct'
  BY <1>1, ChainKeeps DEF CheckInv, CheckedDistinct
<1>4. OnTheWay'
  <2>1. CASE check_return
    BY <2>1 DEF check_return, Idle, OnTheWay
  <2>2. CASE UNCHANGED allVars
    BY <2>2 DEF allVars, vars, tableVars, checkVars, CheckInv, OnTheWay, Has, Before,
                check_inode, Found, Chain
  <2> QED
    BY <2>1, <2>2, BeginStep, NextStep, MeanwhileStep DEF CheckNext
<1> QED
  BY <1>2, <1>3, <1>4 DEF CheckInv

(* A check that meets no freed node answers what was right at some time    *)
(* during its call, however many nodes walks add and free around it.       *)
THEOREM CheckRight == CheckSpec => []CheckWasRight
<1>1. CheckInit => CheckInv
  <2> SUFFICES ASSUME CheckInit PROVE CheckInv
    OBVIOUS
  <2>1. InodeInv
    BY InodeInvStart DEF CheckInit
  <2>2. CheckedDistinct
    <3>1. \A b \in Chains : inodes[b] = <<>>
      BY DEF CheckInit, Init
    <3>2. Distinct(<<>>)
      BY DEF Distinct
    <3> QED
      BY <3>1, <3>2 DEF CheckedDistinct
  <2> QED
    BY <2>1, <2>2 DEF CheckInv, CheckInit, OnTheWay
<1>2. CheckInv => CheckWasRight
  <2> SUFFICES ASSUME CheckInv, key # <<>>, tmp2 \in {key[2], End}
               PROVE  (tmp2 # End) \in right
    BY DEF CheckWasRight
  <2>1. key \in Keys /\ InodeInv
    BY CheckedAssumption DEF CheckInv, OnTheWay
  <2>2. key[2] # End
    BY <2>1, NumType
  <2>3. (tmp2 = End => FALSE \in right) /\ (tmp2 = key[2] => TRUE \in right)
    BY DEF CheckInv, OnTheWay
  <2>4. CASE tmp2 = End
    <3>1. (tmp2 # End) = FALSE
      BY <2>4
    <3> QED
      BY <2>3, <2>4, <3>1
  <2>5. CASE tmp2 = key[2]
    <3>1. (tmp2 # End) = TRUE
      BY <2>2, <2>5
    <3> QED
      BY <2>3, <2>5, <3>1
  <2> QED
    BY <2>4, <2>5
<1> QED
  BY <1>1, <1>2, CheckInvStep, PTL DEF CheckSpec

-----------------------------------------------------------------------------
(* The nodes of a chain that carry num, and the references on them beyond  *)
(* one each.                                                               *)
NodesOf(s, num) == {i \in 1 .. Len(s) : s[i].num = num}
Spares(s, num) == {u \in NodesOf(s, num) \X (1 .. ULONG_MOD) : u[2] < s[u[1]].refCount}

(* The nodes of num account for n walks that counted it: one reference     *)
(* keeps a node, and rm_inode_ht frees the nodes one after the other.      *)
Accounts(s, num, n) == NodesOf(s, num) # {} /\ n <= Cardinality(Spares(s, num)) + 1

(* The first of them, which a walk finds, is older than the n-th walk.     *)
FirstOlder(s, num, n) ==
    \E i \in NodesOf(s, num) : s[i].stamp < n /\ \A j \in NodesOf(s, num) : i <= j

(* The references of a chain can be counted. *)
LEMMA SparesFinite ==
    ASSUME NEW s \in Seq(Node), NEW num
    PROVE  IsFiniteSet(Spares(s, num)) /\ Cardinality(Spares(s, num)) \in Nat
<1>1. Len(s) \in Nat /\ ULONG_MOD \in Nat
  BY WidthAssumption
<1>2. IsFiniteSet(1 .. Len(s)) /\ IsFiniteSet(1 .. ULONG_MOD)
  BY <1>1, FS_Interval
<1>3. IsFiniteSet((1 .. Len(s)) \X (1 .. ULONG_MOD))
  BY <1>2, FS_Product
<1>4. Spares(s, num) \in SUBSET ((1 .. Len(s)) \X (1 .. ULONG_MOD))
  BY DEF Spares, NodesOf
<1>5. IsFiniteSet(Spares(s, num))
  BY <1>3, <1>4, FS_Subset
<1> QED
  BY <1>5, FS_CardinalityType

(* A chain to which the nodes of num move with their counts, but for some  *)
(* that have no reference beyond one, has no fewer of these references.    *)
LEMMA SparesMoved ==
    ASSUME NEW s \in Seq(Node), NEW t \in Seq(Node), NEW num,
           NEW P \in SUBSET NodesOf(s, num), NEW f \in [P -> NodesOf(t, num)],
           \A i, j \in P : f[i] = f[j] => i = j,
           \A i \in P : t[f[i]].refCount = s[i].refCount,
           \A i \in NodesOf(s, num) \ P : s[i].refCount <= 1
    PROVE  Cardinality(Spares(s, num)) <= Cardinality(Spares(t, num))
<1> DEFINE A == Spares(s, num)
           B == Spares(t, num)
           g == [u \in A |-> <<f[u[1]], u[2]>>]
<1>1. ASSUME NEW u \in A
      PROVE  u[1] \in P /\ u = <<u[1], u[2]>> /\ g[u] \in B
  <2>1. /\ u = <<u[1], u[2]>> /\ u[1] \in NodesOf(s, num) /\ u[2] \in 1 .. ULONG_MOD
        /\ u[2] < s[u[1]].refCount
    BY DEF Spares
  <2>2. s[u[1]] \in Node
    BY <2>1 DEF NodesOf
  <2>3. s[u[1]].refCount \in Int /\ u[2] \in Int /\ u[2] >= 1
    BY <2>1, <2>2, WidthAssumption DEF Node
  <2>4. ~(s[u[1]].refCount <= 1)
    BY <2>1, <2>3
  <2>5. u[1] \in P
    BY <2>1, <2>4
  <2>6. /\ f[u[1]] \in NodesOf(t, num) /\ u[2] < t[f[u[1]]].refCount
        /\ g[u] = <<f[u[1]], u[2]>>
    BY <2>1, <2>5
  <2> QED
    BY <2>1, <2>5, <2>6 DEF Spares
<1>2. g \in Injection(A, B)
  <2>1. g \in [A -> B]
    BY <1>1
  <2>2. ASSUME NEW u \in A, NEW v \in A, g[u] = g[v] PROVE u = v
    <3>1. f[u[1]] = f[v[1]] /\ u[2] = v[2]
      BY <2>2
    <3> QED
      BY <1>1, <3>1
  <2> QED
    BY <2>1, <2>2 DEF Injection, IsInjective
<1> HIDE DEF A, B, g
<1>3. IsFiniteSet(B)
  BY SparesFinite DEF B
<1> QED
  BY <1>2, <1>3, FS_Injection DEF A, B

(* A chain whose nodes keep their nums and, those of num, their counts. *)
LEMMA AccountsSame ==
    ASSUME NEW s \in Seq(Node), NEW t \in Seq(Node), NEW num, Len(t) = Len(s),
           \A i \in 1 .. Len(s) : /\ t[i].num = s[i].num
                                  /\ s[i].num = num => t[i].refCount = s[i].refCount
    PROVE  /\ NodesOf(t, num) = NodesOf(s, num)
           /\ \A n : Accounts(t, num, n) <=> Accounts(s, num, n)
<1>1. NodesOf(t, num) = NodesOf(s, num)
  BY DEF NodesOf
<1>2. \A i \in NodesOf(s, num) : t[i].refCount = s[i].refCount
  BY DEF NodesOf
<1>3. Spares(t, num) = Spares(s, num)
  BY <1>1, <1>2 DEF Spares
<1> QED
  BY <1>1, <1>3 DEF Accounts

(* One reference more on a node of num is one more of the references       *)
(* beyond one each.                                                        *)
LEMMA AccountsOneMore ==
    ASSUME NEW s \in Seq(Node), NEW t \in Seq(Node), NEW num, Len(t) = Len(s),
           NEW j \in NodesOf(s, num),
           \A i \in 1 .. Len(s) : t[i].num = s[i].num /\ (i # j => t[i].refCount = s[i].refCount),
           s[j].refCount >= 1, t[j].refCount = s[j].refCount + 1
    PROVE  /\ NodesOf(t, num) = NodesOf(s, num)
           /\ \A n \in Int : Accounts(t, num, n + 1) <=> Accounts(s, num, n)
<1>1. NodesOf(t, num) = NodesOf(s, num)
  BY DEF NodesOf
<1> DEFINE c == s[j].refCount
           A == Spares(s, num)
<1>2. s[j] \in Node /\ t[j] \in Node /\ j \in 1 .. Len(s)
  BY DEF NodesOf
<1>3. c \in 1 .. ULONG_MOD /\ c \in Int /\ t[j].refCount = c + 1
  BY <1>2, WidthAssumption DEF Node
<1>4. <<j, c>> \notin A
  BY <1>3 DEF Spares
<1>5. Spares(t, num) = A \cup {<<j, c>>}
  <2>1. ASSUME NEW i \in NodesOf(s, num), NEW m \in 1 .. ULONG_MOD
        PROVE  m < t[i].refCount <=> m < s[i].refCount \/ (i = j /\ m = c)
    <3>1. m \in Int
      OBVIOUS
    <3>2. CASE i = j
      BY <1>3, <3>1, <3>2
    <3>3. CASE i # j
      BY <3>3 DEF NodesOf
    <3> QED
      BY <3>2, <3>3
  <2> HIDE DEF c
  <2>2. \A u : u \in Spares(t, num) <=>
                   u \in NodesOf(s, num) \X (1 .. ULONG_MOD) /\ u[2] < t[u[1]].refCount
    BY <1>1 DEF Spares
  <2>3. \A u : u \in A <=>
                   u \in NodesOf(s, num) \X (1 .. ULONG_MOD) /\ u[2] < s[u[1]].refCount
    BY DEF Spares
  <2>4. ASSUME NEW u \in NodesOf(s, num) \X (1 .. ULONG_MOD)
        PROVE  /\ u[2] < t[u[1]].refCount <=> u[2] < s[u[1]].refCount \/ u = <<j, c>>
    BY <2>1
  <2>5. <<j, c>> \in NodesOf(s, num) \X (1 .. ULONG_MOD)
    BY <1>3
  <2> HIDE DEF A
  <2> QED
    BY <2>2, <2>3, <2>4, <2>5
<1>6. Cardinality(A) \in Nat /\ Cardinality(Spares(t, num)) = Cardinality(A) + 1
  <2>1. IsFiniteSet(A) /\ Cardinality(A) \in Nat
    BY SparesFinite
  <2> HIDE DEF A, c
  <2> QED
    BY <1>4, <1>5, <2>1, FS_AddElement
<1>7. ASSUME NEW n \in Int PROVE Accounts(t, num, n + 1) <=> Accounts(s, num, n)
  BY <1>1, <1>6 DEF Accounts
<1> QED
  BY <1>1, <1>7

(* A node that enters in front takes nothing from what the nodes of num    *)
(* account for.                                                            *)
LEMMA AccountsFront ==
    ASSUME NEW s \in Seq(Node), NEW t \in Seq(Node), NEW num, Len(t) = Len(s) + 1,
           \A i \in 1 .. Len(s) : t[i + 1] = s[i]
    PROVE  \A n \in Int : Accounts(s, num, n) => Accounts(t, num, n)
<1> DEFINE P == NodesOf(s, num)
           f == [i \in P |-> i + 1]
<1>1. Len(s) \in Nat
  OBVIOUS
<1>2. ASSUME NEW i \in P
      PROVE  i \in Int /\ f[i] = i + 1 /\ i + 1 \in NodesOf(t, num) /\ t[i + 1] = s[i]
  <2>1. i \in 1 .. Len(s) /\ s[i].num = num
    BY DEF NodesOf
  <2>2. i + 1 \in 1 .. Len(t) /\ t[i + 1] = s[i]
    BY <1>1, <2>1
  <2> QED
    BY <2>1, <2>2 DEF NodesOf
<1>3. /\ f \in [P -> NodesOf(t, num)]
      /\ \A i, j \in P : f[i] = f[j] => i = j
      /\ \A i \in P : t[f[i]].refCount = s[i].refCount
      /\ P \in SUBSET NodesOf(s, num)
      /\ \A i \in NodesOf(s, num) \ P : s[i].refCount <= 1
  BY <1>2
<1> HIDE DEF f
<1>4. Cardinality(Spares(s, num)) <= Cardinality(Spares(t, num))
  BY <1>3, SparesMoved
<1>5. Cardinality(Spares(s, num)) \in Nat /\ Cardinality(Spares(t, num)) \in Nat
  BY SparesFinite
<1>6. P # {} => NodesOf(t, num) # {}
  BY <1>2
<1> QED
  BY <1>4, <1>5, <1>6 DEF Accounts

(* The chain t is s without its node at p. *)
Takes(s, t, p) ==
    /\ Len(t) = Len(s) - 1
    /\ \A i \in 1 .. Len(s) - 1 : t[i] = IF i < p THEN s[i] ELSE s[i + 1]

(* A node without which no reference beyond one of num's is lost. *)
Spent(node, num) == node.num # num \/ node.refCount = 1

(* What the nodes of num in s account for, those in t account for, unless  *)
(* there are none; then it was one walk at most.                           *)
LeftOver(s, t, num, n) ==
    /\ NodesOf(t, num) # {} => Accounts(t, num, n)
    /\ NodesOf(t, num) = {} => n <= 1

(* A node that is taken out was of another num, or had one reference: the  *)
(* nodes of num that are left account for as much, and if none is left     *)
(* there was no more than one walk to account for.                         *)
LEMMA AccountsTaken ==
    ASSUME NEW s \in Seq(Node), NEW t \in Seq(Node), NEW num, NEW p \in 1 .. Len(s),
           Takes(s, t, p),
           Spent(s[p], num)
    PROVE  \A n \in Int : Accounts(s, num, n) =>
               /\ LeftOver(s, t, num, n)
               /\ s[p].num # num => NodesOf(t, num) # {}
<1> USE DEF Takes
<1> DEFINE P == NodesOf(s, num) \ {p}
           f == [i \in P |-> IF i < p THEN i ELSE i - 1]
<1>1. Len(s) \in Nat /\ p \in Int
  OBVIOUS
<1>2. ASSUME NEW i \in P
      PROVE  i \in Int /\ i # p /\ f[i] \in NodesOf(t, num) /\ t[f[i]] = s[i]
  <2>1. i \in 1 .. Len(s) /\ s[i].num = num /\ i # p
    BY DEF NodesOf
  <2>2. CASE i < p
    <3>1. f[i] = i /\ i \in 1 .. Len(s) - 1
      BY <1>1, <2>1, <2>2
    <3>2. t[i] = s[i]
      BY <2>2, <3>1
    <3> QED
      BY <2>1, <3>1, <3>2 DEF NodesOf
  <2>3. CASE ~(i < p)
    <3>1. f[i] = i - 1 /\ i - 1 \in 1 .. Len(s) - 1 /\ ~(i - 1 < p) /\ (i - 1) + 1 = i
      BY <1>1, <2>1, <2>3
    <3>2. t[i - 1] = s[i]
      BY <3>1
    <3> QED
      BY <2>1, <3>1, <3>2 DEF NodesOf
  <2> QED
    BY <2>2, <2>3
<1>3. \A i, j \in P : f[i] = f[j] => i = j
  <2> SUFFICES ASSUME NEW i \in P, NEW j \in P, f[i] = f[j] PROVE i = j
    OBVIOUS
  <2>1. i \in Int /\ j \in Int /\ i # p /\ j # p
    BY <1>2
  <2>2. (IF i < p THEN i ELSE i - 1) = (IF j < p THEN j ELSE j - 1)
    OBVIOUS
  <2> HIDE DEF f, P
  <2>3. p \in Int
    OBVIOUS
  <2> QED
    BY <2>1, <2>2, <2>3
<1>4. /\ f \in [P -> NodesOf(t, num)]
      /\ \A i \in P : t[f[i]].refCount = s[i].refCount
      /\ P \in SUBSET NodesOf(s, num)
  <2>1. f = [i \in P |-> f[i]]
    OBVIOUS
  <2>2. P \in SUBSET NodesOf(s, num)
    OBVIOUS
  <2>3. \A i \in P : f[i] \in NodesOf(t, num) /\ t[f[i]] = s[i]
    BY <1>2
  <2> HIDE DEF f, P
  <2> QED
    BY <2>1, <2>2, <2>3
<1>5. \A i \in NodesOf(s, num) \ P : s[i].refCount <= 1
  BY DEF NodesOf, Spent
<1>6. Cardinality(Spares(s, num)) <= Cardinality(Spares(t, num))
  <2> HIDE DEF f, P
  <2> QED
    BY <1>3, <1>4, <1>5, SparesMoved
<1>7. Cardinality(Spares(s, num)) \in Nat /\ Cardinality(Spares(t, num)) \in Nat
  BY SparesFinite
<1> SUFFICES ASSUME NEW n \in Int, Accounts(s, num, n)
             PROVE  LeftOver(s, t, num, n) /\ (s[p].num # num => NodesOf(t, num) # {})
  OBVIOUS
<1>8. NodesOf(s, num) # {} /\ n <= Cardinality(Spares(s, num)) + 1
  BY DEF Accounts
<1>9. s[p].num # num => NodesOf(t, num) # {}
  <2> SUFFICES ASSUME s[p].num # num PROVE NodesOf(t, num) # {}
    OBVIOUS
  <2>1. PICK i \in NodesOf(s, num) : TRUE
    BY <1>8
  <2>2. i \in P
    BY DEF NodesOf
  <2> QED
    BY <1>2, <2>2
<1>10. NodesOf(t, num) = {} => n <= 1
  <2> SUFFICES ASSUME NodesOf(t, num) = {} PROVE n <= 1
    OBVIOUS
  <2>1. Spares(t, num) = {}
    BY DEF Spares
  <2>2. Cardinality(Spares(t, num)) = 0
    BY <2>1, FS_EmptySet
  <2> QED
    BY <1>6, <1>7, <1>8, <2>2
<1> QED
  BY <1>6, <1>7, <1>8, <1>9, <1>10 DEF Accounts, LeftOver

(* ... and the first that is left was the first before, unless it was      *)
(* taken out itself.                                                       *)
LEMMA FirstTaken ==
    ASSUME NEW s \in Seq(Node), NEW t \in Seq(Node), NEW num, NEW n, NEW p \in 1 .. Len(s),
           Takes(s, t, p),
           s[p].num # num, FirstOlder(t, num, n)
    PROVE  FirstOlder(s, num, n)
<1> USE DEF Takes
<1>1. Len(s) \in Nat /\ p \in Int
  OBVIOUS
<1>2. PICK i \in NodesOf(t, num) : t[i].stamp < n /\ \A j \in NodesOf(t, num) : i <= j
  BY DEF FirstOlder
<1>3. i \in 1 .. Len(s) - 1 /\ i \in Int /\ t[i].num = num
  BY <1>1 DEF NodesOf
<1> DEFINE m == IF i < p THEN i ELSE i + 1
<1>4. m \in 1 .. Len(s) /\ t[i] = s[m]
  BY <1>1, <1>3
<1>5. ASSUME NEW j \in NodesOf(s, num) PROVE m <= j
  <2>1. j \in 1 .. Len(s) /\ s[j].num = num /\ j # p /\ j \in Int
    BY DEF NodesOf
  <2>2. CASE j < p
    <3>1. j \in 1 .. Len(s) - 1
      BY <1>1, <2>1, <2>2
    <3>2. j \in NodesOf(t, num)
      BY <2>1, <2>2, <3>1 DEF NodesOf
    <3>3. i <= j
      BY <1>2, <3>2
    <3> QED
      BY <1>1, <1>3, <2>1, <2>2, <3>3
  <2>3. CASE ~(j < p)
    <3>1. j - 1 \in 1 .. Len(s) - 1 /\ ~(j - 1 < p) /\ (j - 1) + 1 = j
      BY <1>1, <2>1, <2>3
    <3>2. j - 1 \in NodesOf(t, num)
      BY <2>1, <3>1 DEF NodesOf
    <3>3. i <= j - 1
      BY <1>2, <3>2
    <3> QED
      BY <1>1, <1>3, <2>1, <2>3, <3>3
  <2> QED
    BY <2>2, <2>3
<1>6. m \in NodesOf(s, num)
  BY <1>3, <1>4 DEF NodesOf
<1> HIDE DEF m
<1> QED
  BY <1>2, <1>4, <1>5, <1>6 DEF FirstOlder

(* A count that fits its field comes out of the modulus as it went in. *)
LEMMA Fits ==
    ASSUME NEW m \in Nat \ {0}, NEW n \in 0 .. m - 1
    PROVE  n % m = n /\ (n + m) % m = n
<1>1. n % m = n
  OBVIOUS
<1>2. (n + m) % m = n
  OBVIOUS
<1> QED
  BY <1>1, <1>2

(* What an inode's nodes account for in the table T. *)
Holds(T, k, n) == Accounts(T[Chain(k)], k[2], n)

(* Inode numbers that num is wide enough for. *)
Narrow == {k \in Keys : k[2] < UINT_MOD}

(* The marked paths whose adds had to cover k. *)
Needs(k) == {d \in marked : k \in covers[d]}

(* Counts have not wrapped around: every node has a reference, and room    *)
(* for one in each walk to come.                                           *)
NodesInRange(Room) ==
    \A b \in Chains : \A i \in 1 .. Len(inodes[b]) :
        /\ inodes[b][i].stamp <= nonce
        /\ inodes[b][i].refCount >= 1
        /\ walk # "locked" =>
               inodes[b][i].refCount + Room < ULONG_MOD + inodes[b][i].stamp

(* The nonces are not used up while the store is free, and a walk has one. *)
NonceInRange ==
    /\ walk = "idle" => nonce < ULLONG_MAX /\ start = NoDentry
    /\ walk \in {"add", "rm"} => nonce \in 1 .. ULLONG_MAX /\ start \in Dentries
    /\ walk = "locked" => start = NoDentry
    /\ work => walk = "locked"

(* Inodes of the file system are pairs. *)
LEMMA KeyPair ==
    ASSUME NEW k \in Keys
    PROVE  k = <<k[1], k[2]>>
BY FileSystemAssumption DEF Keys

(* Two inodes whose nodes are in one chain have different numbers. *)
LEMMA ChainApart ==
    ASSUME NEW k \in Keys, NEW l \in Keys, Chain(k) = Chain(l), k # l
    PROVE  k[2] # l[2]
<1>1. k[1] = l[1]
  BY KeyType
<1> QED
  BY <1>1, KeyPair

TableFound ==
    \A k \in Keys : /\ Found(k) = NodesOf(inodes[Chain(k)], k[2])
                    /\ check_inode(k) <=> NodesOf(inodes[Chain(k)], k[2]) # {}

(* What find_inode finds are the nodes of the chain with the number: a     *)
(* device without a table has none.                                        *)
LEMMA FoundNodes == InodeInv => TableFound
<1> SUFFICES ASSUME InodeInv, NEW k \in Keys
             PROVE  Found(k) = NodesOf(inodes[Chain(k)], k[2])
  BY DEF TableFound, check_inode
<1>1. /\ Chain(k) \in Chains /\ Chain(k)[1] = k[1]
      /\ inodes[Chain(k)] \in Seq(Node)
      /\ DOMAIN inodes[Chain(k)] = 1 .. Len(inodes[Chain(k)])
  BY KeyType DEF InodeInv, TypeOK
<1>2. CASE k[1] \in fs_stores
  BY <1>1, <1>2 DEF Found, NodesOf
<1>3. CASE k[1] \notin fs_stores
  <2>1. inodes[Chain(k)] = <<>>
    BY <1>1, <1>3 DEF InodeInv, NoTable
  <2>2. 1 .. Len(<<>>) = {}
    OBVIOUS
  <2> QED
    BY <1>3, <2>1, <2>2 DEF Found, NodesOf
<1> QED
  BY <1>2, <1>3

(* The node a walk finds is the first of its number. *)
LEMMA FirstNode ==
    ASSUME InodeInv, NEW k \in Keys, check_inode(k)
    PROVE  /\ First(k) \in NodesOf(inodes[Chain(k)], k[2])
           /\ \A j \in NodesOf(inodes[Chain(k)], k[2]) : First(k) <= j
           /\ Unseen(k) <=> FirstOlder(inodes[Chain(k)], k[2], nonce)
           /\ First(k) \in 1 .. Len(inodes[Chain(k)])
           /\ inodes[Chain(k)][First(k)].num = k[2]
<1> DEFINE s == inodes[Chain(k)]
           F == NodesOf(s, k[2])
<1>1. F # {} /\ First(k) = Min(F)
  BY FoundNodes DEF TableFound, First
<1>2. s \in Seq(Node) /\ Len(s) \in Nat
  BY KeyType DEF InodeInv, TypeOK
<1>3. F \in SUBSET (1 .. Len(s)) /\ F \in SUBSET Int
  BY <1>2 DEF NodesOf
<1>4. IsFiniteSet(F)
  <2>1. IsFiniteSet(1 .. Len(s))
    BY <1>2, FS_Interval
  <2> QED
    BY <1>3, <2>1, FS_Subset
<1> HIDE DEF F
<1>5. Min(F) \in F /\ \A j \in F : Min(F) <= j
  BY <1>1, <1>3, <1>4, LeastOfSome
<1>6. Unseen(k) <=> FirstOlder(s, k[2], nonce)
  <2>1. Unseen(k) <=> s[Min(F)].stamp < nonce
    BY <1>1 DEF Unseen
  <2>2. ASSUME NEW i \in F, \A j \in F : i <= j PROVE i = Min(F)
    <3>1. i <= Min(F) /\ Min(F) <= i /\ i \in Int /\ Min(F) \in Int
      BY <1>3, <1>5, <2>2
    <3> QED
      BY <3>1
  <2> QED
    BY <1>5, <2>1, <2>2 DEF FirstOlder, F
<1>7. Min(F) \in 1 .. Len(s) /\ s[Min(F)].num = k[2]
  BY <1>5 DEF F, NodesOf
<1> QED
  BY <1>1, <1>5, <1>6, <1>7 DEF F

(* The hypotheses on what a node is entered, counted and freed with. *)
TableInv(Room) == InodeInv /\ NodesInRange(Room) /\ NonceInRange

(* What a step leaves of the table for the inodes other than k. *)
OthersHold(k) ==
    \A l \in Keys \ {k} : \A n \in Int : Holds(inodes, l, n) => Holds(inodes', l, n)

(* The nodes that a walk has stamped are those of inodes it has met. *)
Stamped(T, l) == \E i \in NodesOf(T[Chain(l)], l[2]) : T[Chain(l)][i].stamp = nonce

(* A count made of an older node leaves the room it should. *)
LEMMA CountFits ==
    ASSUME NEW r \in Nat, NEW st \in Nat, NEW n \in Nat, NEW max \in Nat, NEW m \in Nat,
           r + max < m + st, st < n, n <= max
    PROVE  r + 1 \in 0 .. m - 1 /\ r + 1 + max < m + n
OBVIOUS

(* insert_inode_ht on an inode that is there gives it one reference more. *)
LEMMA CountResult ==
    ASSUME NEW Room \in Nat, TableInv(Room), walk \in {"add", "rm"}, UNCHANGED <<nonce, walk>>,
           nonce <= Room, NEW k \in Keys, check_inode(k), Unseen(k), inode_count(k)
    PROVE  /\ OthersHold(k) /\ NodesInRange(Room)'
           /\ \A n \in Int : Holds(inodes, k, n) => Holds(inodes', k, n + 1)
           /\ \A l \in Keys \ {k} : Stamped(inodes', l) => Stamped(inodes, l)
<1> DEFINE c == Chain(k)
           s == inodes[c]
           t == inodes'[c]
           j == First(k)
           node == Counted(s[j])
<1>1. /\ InodeInv /\ c \in Chains /\ s \in Seq(Node) /\ Len(s) \in Nat
      /\ nonce \in Nat
  BY KeyType DEF TableInv, InodeInv, TypeOK, NonceInRange
<1>2. j \in 1 .. Len(s) /\ j \in NodesOf(s, k[2]) /\ s[j].num = k[2]
  BY <1>1, FirstNode
<1>3. s[j] \in Node /\ s[j].stamp < nonce /\ s[j].refCount >= 1
      /\ s[j].refCount + Room < ULONG_MOD + s[j].stamp
  BY <1>1, <1>2 DEF TableInv, NodesInRange, Unseen
<1>4. /\ node \in Node /\ node.num = s[j].num /\ node.stamp = nonce
      /\ node.refCount = s[j].refCount + 1 /\ node.refCount + Room < ULONG_MOD + nonce
  <2>1. /\ s[j].refCount \in Nat /\ s[j].stamp \in Nat
        /\ ULONG_MOD \in Nat \ {0} /\ s[j].num \in 0 .. UINT_MOD - 1
    BY <1>3, WidthAssumption DEF Node
  <2>2. s[j].refCount + 1 \in 0 .. ULONG_MOD - 1
        /\ s[j].refCount + 1 + Room < ULONG_MOD + nonce
    BY <1>1, <1>3, <2>1, CountFits
  <2>3. (s[j].refCount + 1) % ULONG_MOD = s[j].refCount + 1
    BY <2>1, <2>2, Fits
  <2> QED
    BY <1>1, <2>1, <2>2, <2>3 DEF Node, Counted
<1>5. inodes' = [inodes EXCEPT ![c] = [s EXCEPT ![j] = node]]
  BY DEF inode_count
<1> HIDE DEF c, j, node
<1>6. /\ t \in Seq(Node) /\ Len(t) = Len(s) /\ Elsewhere(k)
      /\ \A i \in 1 .. Len(s) : t[i] = IF i = j THEN node ELSE s[i]
  <2>1. /\ [s EXCEPT ![j] = node] \in Seq(Node)
        /\ Len([s EXCEPT ![j] = node]) = Len(s)
        /\ \A i \in 1 .. Len(s) :
               [s EXCEPT ![j] = node][i] = IF i = j THEN node ELSE s[i]
    BY <1>1, <1>2, <1>4, ExceptSeq
  <2>2. t = [s EXCEPT ![j] = node] /\ \A b \in Chains : b # c => inodes'[b] = inodes[b]
    BY <1>1, <1>5 DEF InodeInv, TypeOK
  <2> QED
    BY <2>1, <2>2 DEF Elsewhere, c
<1> HIDE DEF s, t
<1>7. ASSUME NEW n \in Int, Holds(inodes, k, n) PROVE Holds(inodes', k, n + 1)
  <2>1. /\ \A i \in 1 .. Len(s) : t[i].num = s[i].num /\ (i # j => t[i].refCount = s[i].refCount)
        /\ t[j].refCount = s[j].refCount + 1
    BY <1>2, <1>4, <1>6
  <2>2. /\ s \in Seq(Node) /\ t \in Seq(Node) /\ Len(t) = Len(s)
        /\ j \in NodesOf(s, k[2]) /\ s[j].refCount >= 1
    BY <1>1, <1>2, <1>3, <1>6
  <2>3. \A m \in Int : Accounts(t, k[2], m + 1) <=> Accounts(s, k[2], m)
    BY <2>1, <2>2, AccountsOneMore
  <2> QED
    BY <1>7, <2>3 DEF Holds, s, t, c
<1>8. ASSUME NEW l \in Keys \ {k}
      PROVE  /\ \A n \in Int : Holds(inodes, l, n) => Holds(inodes', l, n)
             /\ Stamped(inodes', l) => Stamped(inodes, l)
  <2>1. CASE Chain(l) # c
    <3>1. inodes'[Chain(l)] = inodes[Chain(l)]
      BY <1>6, <2>1, KeyType DEF Elsewhere, c
    <3> QED
      BY <3>1 DEF Holds, Stamped
  <2>2. CASE Chain(l) = c
    <3>1. s[j].num # l[2]
      BY <1>2, <2>2, ChainApart DEF c
    <3>2. \A i \in 1 .. Len(s) : /\ t[i].num = s[i].num
                                 /\ s[i].num = l[2] => t[i] = s[i]
      BY <1>4, <1>6, <3>1
    <3>3. /\ NodesOf(t, l[2]) = NodesOf(s, l[2])
          /\ \A n : Accounts(t, l[2], n) <=> Accounts(s, l[2], n)
      <4>1. \A i \in 1 .. Len(s) : /\ t[i].num = s[i].num
                                   /\ s[i].num = l[2] => t[i].refCount = s[i].refCount
        BY <3>2
      <4>2. s \in Seq(Node) /\ t \in Seq(Node) /\ Len(t) = Len(s)
        BY <1>1, <1>6
      <4> QED
        BY <4>1, <4>2, AccountsSame
    <3>4. \A i \in NodesOf(s, l[2]) : t[i] = s[i]
      BY <3>2 DEF NodesOf
    <3> QED
      BY <2>2, <3>3, <3>4 DEF Holds, Stamped, s, t
  <2> QED
    BY <2>1, <2>2
<1>9. NodesInRange(Room)'
  <2> SUFFICES ASSUME NEW b \in Chains, NEW i \in 1 .. Len(inodes'[b])
               PROVE  /\ inodes'[b][i].stamp <= nonce
                      /\ inodes'[b][i].refCount >= 1
                      /\ inodes'[b][i].refCount + Room < ULONG_MOD + inodes'[b][i].stamp
    BY DEF NodesInRange
  <2>1. CASE b # c
    BY <1>6, <2>1 DEF TableInv, NodesInRange, Elsewhere, c
  <2>2. CASE b = c /\ i = j
    <3>1. inodes'[b][i] = node
      BY <1>2, <1>6, <2>2 DEF t
    <3>2. node.refCount >= 1
      BY <1>3, <1>4 DEF Node
    <3> QED
      BY <1>1, <1>4, <3>1, <3>2
  <2>3. CASE b = c /\ i # j
    BY <1>1, <1>6, <2>3 DEF TableInv, NodesInRange, s, t
  <2> QED
    BY <2>1, <2>2, <2>3
<1> QED
  BY <1>7, <1>8, <1>9 DEF OthersHold

(* insert_inode_ht on an inode that is not there gives it a reference. *)
LEMMA AllocateResult ==
    ASSUME NEW Room \in Nat, TableInv(Room), RefCountsFit(Room),
           walk \in {"add", "rm"}, UNCHANGED <<nonce, walk>>,
           NEW k \in Keys, ~check_inode(k), inode_allocate(k)
    PROVE  /\ OthersHold(k) /\ NodesInRange(Room)'
           /\ k \in Narrow => Holds(inodes', k, 1)
           /\ \A l \in Keys : Stamped(inodes', l) => Stamped(inodes, l)
<1> DEFINE c == Chain(k)
           s == inodes[c]
           t == inodes'[c]
<1>1. /\ InodeInv /\ c \in Chains /\ s \in Seq(Node) /\ Len(s) \in Nat /\ k[2] \in Nat
      /\ nonce \in 1 .. ULLONG_MAX /\ Stale[k] \subseteq 0 .. ULONG_MOD - 1
  BY KeyType DEF TableInv, InodeInv, TypeOK, NonceInRange
<1>2. PICK r \in Stale[k] :
          inodes' = [inodes EXCEPT ![c] =
                         <<[num |-> k[2] % UINT_MOD, refCount |-> (r + 1) % ULONG_MOD,
                            stamp |-> 0]>> \o @]
  BY DEF inode_allocate
<1> DEFINE node == [num |-> k[2] % UINT_MOD, refCount |-> (r + 1) % ULONG_MOD, stamp |-> 0]
<1>3. /\ node \in Node /\ node.stamp = 0 /\ node.refCount >= 1
      /\ node.refCount + Room < ULONG_MOD
      /\ k \in Narrow => node.num = k[2]
  <2>1. r \in Nat /\ r + 1 + Room < ULONG_MOD
        /\ ULONG_MOD \in Nat \ {0} /\ UINT_MOD \in Nat \ {0}
    BY <1>1, WidthAssumption DEF RefCountsFit
  <2>2. (r + 1) % ULONG_MOD = r + 1 /\ r + 1 \in 0 .. ULONG_MOD - 1
    <3>1. r + 1 \in 0 .. ULONG_MOD - 1
      BY <2>1
    <3> QED
      BY <2>1, <3>1, Fits
  <2>3. k[2] % UINT_MOD \in 0 .. UINT_MOD - 1
    BY <1>1, <2>1
  <2>4. k \in Narrow => k[2] % UINT_MOD = k[2]
    BY <1>1, <2>1, Fits DEF Narrow
  <2> QED
    BY <2>1, <2>2, <2>3, <2>4 DEF Node
<1>4. inodes' = [inodes EXCEPT ![c] = <<node>> \o s]
  BY <1>2
<1> HIDE DEF c, node
<1>5. /\ t \in Seq(Node) /\ Len(t) = Len(s) + 1 /\ Elsewhere(k)
      /\ t[1] = node /\ \A i \in 1 .. Len(s) : t[i + 1] = s[i]
  <2>1. /\ <<node>> \o s \in Seq(Node) /\ Len(<<node>> \o s) = Len(s) + 1
        /\ (<<node>> \o s)[1] = node
        /\ \A i \in 1 .. Len(s) : (<<node>> \o s)[i + 1] = s[i]
    BY <1>1, <1>3, Prepend
  <2>2. t = <<node>> \o s /\ \A b \in Chains : b # c => inodes'[b] = inodes[b]
    BY <1>1, <1>4 DEF InodeInv, TypeOK
  <2> QED
    BY <2>1, <2>2 DEF Elsewhere, c
<1> HIDE DEF s, t
<1>6. \A i \in 1 .. Len(t) : i = 1 \/ (i - 1 \in 1 .. Len(s) /\ t[i] = s[i - 1])
  <2> TAKE i \in 1 .. Len(t)
  <2>1. i = 1 \/ (i - 1 \in 1 .. Len(s) /\ (i - 1) + 1 = i)
    BY <1>1, <1>5
  <2> QED
    BY <1>5, <2>1
<1>7. ASSUME NEW l \in Keys
      PROVE  /\ \A n \in Int : Holds(inodes, l, n) => Holds(inodes', l, n)
             /\ Stamped(inodes', l) => Stamped(inodes, l)
  <2>1. CASE Chain(l) # c
    <3>1. inodes'[Chain(l)] = inodes[Chain(l)]
      BY <1>5, <2>1, KeyType DEF Elsewhere, c
    <3> QED
      BY <3>1 DEF Holds, Stamped
  <2>2. CASE Chain(l) = c
    <3>1. \A n \in Int : Accounts(s, l[2], n) => Accounts(t, l[2], n)
      BY <1>1, <1>5, AccountsFront
    <3>2. ASSUME NEW i \in NodesOf(t, l[2]), t[i].stamp = nonce
          PROVE  \E m \in NodesOf(s, l[2]) : s[m].stamp = nonce
      <4>1. i \in 1 .. Len(t) /\ t[i].num = l[2] /\ i # 1
        BY <1>1, <1>3, <1>5, <3>2 DEF NodesOf
      <4>2. i - 1 \in 1 .. Len(s) /\ t[i] = s[i - 1]
        BY <1>6, <4>1
      <4> QED
        BY <3>2, <4>1, <4>2 DEF NodesOf
    <3> QED
      BY <2>2, <3>1, <3>2 DEF Holds, Stamped, s, t
  <2> QED
    BY <2>1, <2>2
<1>8. ASSUME k \in Narrow PROVE Holds(inodes', k, 1)
  <2>1. 1 \in NodesOf(t, k[2])
    BY <1>1, <1>3, <1>5, <1>8 DEF NodesOf
  <2>2. Cardinality(Spares(t, k[2])) \in Nat
    BY <1>5, SparesFinite
  <2>3. 1 <= Cardinality(Spares(t, k[2])) + 1
    BY <2>2
  <2> QED
    BY <2>1, <2>3 DEF Holds, Accounts, t, c
<1>9. NodesInRange(Room)'
  <2> SUFFICES ASSUME NEW b \in Chains, NEW i \in 1 .. Len(inodes'[b])
               PROVE  /\ inodes'[b][i].stamp <= nonce
                      /\ inodes'[b][i].refCount >= 1
                      /\ inodes'[b][i].refCount + Room < ULONG_MOD + inodes'[b][i].stamp
    BY DEF NodesInRange
  <2>1. CASE b # c
    BY <1>5, <2>1 DEF TableInv, NodesInRange, Elsewhere, c
  <2>2. CASE b = c /\ i = 1
    <3>1. inodes'[b][i] = node
      BY <1>5, <2>2 DEF t
    <3>2. ULONG_MOD + 0 = ULONG_MOD /\ 0 <= nonce
      BY <1>1, WidthAssumption
    <3> QED
      BY <1>3, <3>1, <3>2
  <2>3. CASE b = c /\ i # 1
    <3>1. i - 1 \in 1 .. Len(s) /\ inodes'[b][i] = s[i - 1]
      BY <1>6, <2>3 DEF t
    <3> QED
      BY <1>1, <3>1 DEF TableInv, NodesInRange, s
  <2> QED
    BY <2>1, <2>2, <2>3
<1> QED
  BY <1>7, <1>8, <1>9 DEF OthersHold

(* The walk in progress has not counted or uncounted what it would find.   *)
FirstUnseen(T, k) == FirstOlder(T[Chain(k)], k[2], nonce)

(* ... and so does one taken back from an older node. *)
LEMMA UncountFits ==
    ASSUME NEW r \in Nat, NEW st \in Nat, NEW n \in Nat, NEW max \in Nat, NEW m \in Nat,
           r + max < m + st, st < n
    PROVE  r - 1 + max < m + n
OBVIOUS

(* rm_inode_ht takes one reference from the node it finds and stamps it,   *)
(* or, if that was the last one, takes it out: of an inode that accounts   *)
(* for a walk more than m, enough is left for m, and if the node was taken *)
(* out and others follow, as much as before.                               *)
LEMMA RemoveResult ==
    ASSUME NEW Room \in Nat, TableInv(Room), walk \in {"add", "rm"}, UNCHANGED <<nonce, walk>>,
           NEW k \in Keys, check_inode(k), Unseen(k), rm_inode_ht(k)
    PROVE  /\ OthersHold(k) /\ NodesInRange(Room)'
           /\ \A l \in Keys \ {k} : FirstUnseen(inodes', l) => FirstUnseen(inodes, l)
           /\ \A m \in Nat \ {0} : Holds(inodes, k, m + 1) =>
                  /\ Holds(inodes', k, m)
                  /\ FirstUnseen(inodes', k) => Holds(inodes', k, m + 1)
<1> DEFINE c == Chain(k)
           s == inodes[c]
           t == inodes'[c]
           j == First(k)
           r == (s[j].refCount + ULONG_MOD - 1) % ULONG_MOD
           node == [num |-> s[j].num, refCount |-> r, stamp |-> nonce]
<1>1. /\ InodeInv /\ c \in Chains /\ s \in Seq(Node) /\ Len(s) \in Nat
      /\ nonce \in Nat
  BY KeyType DEF TableInv, InodeInv, TypeOK, NonceInRange
<1>2. /\ j \in 1 .. Len(s) /\ j \in NodesOf(s, k[2]) /\ s[j].num = k[2]
      /\ \A i \in NodesOf(s, k[2]) : j <= i
  BY <1>1, FirstNode
<1>3. /\ s[j] \in Node /\ s[j].stamp < nonce /\ s[j].refCount >= 1
      /\ s[j].refCount + Room < ULONG_MOD + s[j].stamp
  BY <1>1, <1>2 DEF TableInv, NodesInRange, Unseen
<1>4. /\ node \in Node /\ node.num = s[j].num /\ node.stamp = nonce
      /\ node.refCount = r /\ r = s[j].refCount - 1 /\ r \in Nat
      /\ r + Room < ULONG_MOD + nonce
  <2>1. /\ s[j].refCount \in 0 .. ULONG_MOD - 1 /\ s[j].stamp \in Nat /\ Room \in Nat
        /\ ULONG_MOD \in Nat \ {0} /\ s[j].num \in 0 .. UINT_MOD - 1
    BY <1>3, WidthAssumption DEF Node
  <2>2. /\ s[j].refCount - 1 \in 0 .. ULONG_MOD - 1
        /\ s[j].refCount + ULONG_MOD - 1 = (s[j].refCount - 1) + ULONG_MOD
    BY <1>3, <2>1
  <2>3. r = s[j].refCount - 1
    BY <2>1, <2>2, Fits
  <2>4. s[j].refCount - 1 + Room < ULONG_MOD + nonce
    <3>1. /\ s[j].refCount \in Nat /\ s[j].stamp \in Nat /\ nonce \in Nat
          /\ Room \in Nat /\ ULONG_MOD \in Nat
          /\ s[j].refCount + Room < ULONG_MOD + s[j].stamp /\ s[j].stamp < nonce
      BY <1>1, <1>3, <2>1
    <3> HIDE DEF s, j, r, node
    <3> QED
      BY <3>1, UncountFits
  <2> HIDE DEF r
  <2> QED
    BY <1>1, <2>1, <2>2, <2>3, <2>4 DEF Node
<1>5. inodes' = [inodes EXCEPT ![c] = IF r = 0 THEN RemoveAt(s, j) ELSE [s EXCEPT ![j] = node]]
  BY DEF rm_inode_ht
<1> HIDE DEF c, j, r, node
<1>6. ASSUME NEW l \in Keys \ {k}, Chain(l) = c PROVE s[j].num # l[2]
  BY <1>2, <1>6, ChainApart DEF c
<1>7. Elsewhere(k)
  BY <1>1, <1>5 DEF InodeInv, TypeOK, Elsewhere, c
<1>8. ASSUME NEW l \in Keys \ {k}, Chain(l) # c
      PROVE  /\ \A n \in Int : Holds(inodes, l, n) => Holds(inodes', l, n)
             /\ FirstUnseen(inodes', l) => FirstUnseen(inodes, l)
  <2>1. inodes'[Chain(l)] = inodes[Chain(l)]
    BY <1>7, <1>8, KeyType DEF Elsewhere, c
  <2> QED
    BY <2>1 DEF Holds, FirstUnseen
<1>9. CASE r = 0
  <2>1. /\ t \in Seq(Node) /\ Len(t) = Len(s) - 1
        /\ \A i \in 1 .. Len(s) - 1 : t[i] = IF i < j THEN s[i] ELSE s[i + 1]
    <3>1. t = RemoveAt(s, j)
      BY <1>1, <1>5, <1>9 DEF InodeInv, TypeOK
    <3> HIDE DEF s, t
    <3> QED
      BY <1>1, <1>2, <3>1, RemoveAtPlace
  <2> HIDE DEF s, t
  <2>6. s \in Seq(Node) /\ j \in 1 .. Len(s) /\ Takes(s, t, j)
    BY <1>1, <1>2, <2>1 DEF Takes
  <2>2. s[j].refCount = 1
    BY <1>3, <1>4, <1>9 DEF Node
  <2>3. ASSUME NEW l \in Keys \ {k}
        PROVE  /\ \A n \in Int : Holds(inodes, l, n) => Holds(inodes', l, n)
               /\ FirstUnseen(inodes', l) => FirstUnseen(inodes, l)
    <3>1. CASE Chain(l) = c
      <4>1. s[j].num # l[2]
        BY <1>6, <3>1
      <4>2. \A n \in Int : Accounts(s, l[2], n) => Accounts(t, l[2], n)
        <5>1. Spent(s[j], l[2])
          BY <4>1 DEF Spent
        <5>2. \A n \in Int : Accounts(s, l[2], n) =>
                  /\ LeftOver(s, t, l[2], n)
                  /\ s[j].num # l[2] => NodesOf(t, l[2]) # {}
          BY <2>1, <2>6, <5>1, AccountsTaken
        <5> QED
          BY <4>1, <5>2 DEF LeftOver
      <4>3. FirstOlder(t, l[2], nonce) => FirstOlder(s, l[2], nonce)
        BY <2>1, <2>6, <4>1, FirstTaken
      <4> QED
        BY <3>1, <4>2, <4>3 DEF Holds, FirstUnseen, s, t
    <3> QED
      BY <1>8, <3>1
  <2>4. ASSUME NEW m \in Nat \ {0}, Holds(inodes, k, m + 1)
        PROVE  Holds(inodes', k, m) /\ Holds(inodes', k, m + 1)
    <3>1. Accounts(s, k[2], m + 1)
      BY <2>4 DEF Holds, s, c
    <3>2. /\ NodesOf(t, k[2]) # {} => Accounts(t, k[2], m + 1)
          /\ NodesOf(t, k[2]) = {} => m + 1 <= 1
      <4>1. Spent(s[j], k[2])
        BY <2>2 DEF Spent
      <4>2. \A n \in Int : Accounts(s, k[2], n) =>
                /\ LeftOver(s, t, k[2], n)
                /\ s[j].num # k[2] => NodesOf(t, k[2]) # {}
        BY <2>1, <2>6, <4>1, AccountsTaken
      <4> QED
        BY <3>1, <4>2 DEF LeftOver
    <3>3. Accounts(t, k[2], m + 1)
      BY <3>2
    <3>4. Accounts(t, k[2], m)
      <4>1. Cardinality(Spares(t, k[2])) \in Nat
        BY <2>1, SparesFinite
      <4> QED
        BY <3>3, <4>1 DEF Accounts
    <3> QED
      BY <3>3, <3>4 DEF Holds, t, c
  <2>5. NodesInRange(Room)'
    <3> SUFFICES ASSUME NEW b \in Chains, NEW i \in 1 .. Len(inodes'[b])
                 PROVE  /\ inodes'[b][i].stamp <= nonce
                        /\ inodes'[b][i].refCount >= 1
                        /\ inodes'[b][i].refCount + Room < ULONG_MOD + inodes'[b][i].stamp
      BY DEF NodesInRange
    <3>1. CASE b # c
      BY <1>7, <3>1 DEF TableInv, NodesInRange, Elsewhere, c
    <3>2. CASE b = c
      <4>1. i \in 1 .. Len(s) - 1 /\ inodes'[b] = t
        BY <2>1, <3>2 DEF t
      <4>2. \E m \in 1 .. Len(s) : t[i] = s[m]
        <5>1. i \in 1 .. Len(s) /\ i + 1 \in 1 .. Len(s)
          BY <1>1, <4>1
        <5> QED
          BY <2>1, <4>1, <5>1
      <4>3. PICK m \in 1 .. Len(s) : inodes'[b][i] = s[m]
        BY <4>1, <4>2
      <4> QED
        BY <1>1, <4>3 DEF TableInv, NodesInRange, s
    <3> QED
      BY <3>1, <3>2
  <2> QED
    BY <2>3, <2>4, <2>5 DEF OthersHold
<1>10. CASE r # 0
  <2>1. /\ t \in Seq(Node) /\ Len(t) = Len(s)
        /\ \A i \in 1 .. Len(s) : t[i] = IF i = j THEN node ELSE s[i]
    <3>1. t = [s EXCEPT ![j] = node]
      BY <1>1, <1>5, <1>10 DEF InodeInv, TypeOK
    <3> HIDE DEF s, t
    <3> QED
      BY <1>1, <1>2, <1>4, <3>1, ExceptSeq
  <2> HIDE DEF s, t
  <2>2. ASSUME NEW l \in Keys \ {k}
        PROVE  /\ \A n \in Int : Holds(inodes, l, n) => Holds(inodes', l, n)
               /\ FirstUnseen(inodes', l) => FirstUnseen(inodes, l)
    <3>1. CASE Chain(l) = c
      <4>1. s[j].num # l[2]
        BY <1>6, <3>1
      <4>2. \A i \in 1 .. Len(s) : /\ t[i].num = s[i].num
                                   /\ s[i].num = l[2] => t[i] = s[i]
        BY <1>4, <2>1, <4>1
      <4>3. \A i \in 1 .. Len(s) : /\ t[i].num = s[i].num
                                   /\ s[i].num = l[2] => t[i].refCount = s[i].refCount
        BY <4>2
      <4>4. /\ NodesOf(t, l[2]) = NodesOf(s, l[2])
            /\ \A n : Accounts(t, l[2], n) <=> Accounts(s, l[2], n)
        <5>1. s \in Seq(Node) /\ t \in Seq(Node) /\ Len(t) = Len(s)
          BY <1>1, <2>1
        <5> QED
          BY <4>3, <5>1, AccountsSame
      <4>5. \A i \in NodesOf(s, l[2]) : t[i] = s[i]
        BY <4>2 DEF NodesOf
      <4>6. FirstOlder(t, l[2], nonce) => FirstOlder(s, l[2], nonce)
        BY <4>4, <4>5 DEF FirstOlder
      <4> QED
        BY <3>1, <4>4, <4>6 DEF Holds, FirstUnseen, s, t
    <3> QED
      BY <1>8, <3>1
  <2>3. /\ NodesOf(t, k[2]) = NodesOf(s, k[2])
        /\ \A n \in Int : Accounts(s, k[2], n + 1) <=> Accounts(t, k[2], n)
    <3>1. \A i \in 1 .. Len(t) : s[i].num = t[i].num /\ (i # j => s[i].refCount = t[i].refCount)
      BY <1>4, <2>1
    <3>2. t[j].refCount >= 1 /\ s[j].refCount = t[j].refCount + 1
      <4>1. t[j] = node
        BY <1>2, <2>1
      <4>2. s[j].refCount \in Nat
        BY <1>3, WidthAssumption DEF Node
      <4> QED
        BY <1>4, <1>10, <4>1, <4>2
    <3>3. j \in NodesOf(t, k[2])
      BY <1>2, <1>4, <2>1 DEF NodesOf
    <3>4. s \in Seq(Node) /\ t \in Seq(Node) /\ Len(s) = Len(t)
      BY <1>1, <2>1
    <3> QED
      BY <3>1, <3>2, <3>3, <3>4, AccountsOneMore
  <2>4. ~FirstOlder(t, k[2], nonce)
    <3> SUFFICES ASSUME NEW i \in NodesOf(t, k[2]), t[i].stamp < nonce,
                        \A m \in NodesOf(t, k[2]) : i <= m
                 PROVE  FALSE
      BY DEF FirstOlder
    <3>1. i <= j /\ j <= i /\ i \in 1 .. Len(s)
      BY <1>2, <2>3 DEF NodesOf
    <3>2. i = j
      BY <1>2, <3>1
    <3> QED
      BY <1>1, <1>2, <1>4, <2>1, <3>2
  <2>5. \A m \in Nat \ {0} : Holds(inodes, k, m + 1) =>
            /\ Holds(inodes', k, m)
            /\ FirstUnseen(inodes', k) => Holds(inodes', k, m + 1)
    BY <2>3, <2>4 DEF Holds, FirstUnseen, s, t, c
  <2>6. NodesInRange(Room)'
    <3> SUFFICES ASSUME NEW b \in Chains, NEW i \in 1 .. Len(inodes'[b])
                 PROVE  /\ inodes'[b][i].stamp <= nonce
                        /\ inodes'[b][i].refCount >= 1
                        /\ inodes'[b][i].refCount + Room < ULONG_MOD + inodes'[b][i].stamp
      BY DEF NodesInRange
    <3>1. CASE b # c
      BY <1>7, <3>1 DEF TableInv, NodesInRange, Elsewhere, c
    <3>2. CASE b = c /\ i = j
      <4>1. inodes'[b][i] = node
        BY <1>2, <2>1, <3>2 DEF t
      <4>2. node.refCount >= 1 /\ node.stamp <= nonce
        <5>1. r \in Nat /\ r # 0 /\ nonce \in Nat
          BY <1>1, <1>4, <1>10
        <5>2. r >= 1 /\ nonce <= nonce
          BY <5>1
        <5>3. node.refCount = r /\ node.stamp = nonce
          BY <1>4
        <5> QED
          BY <5>2, <5>3
      <4>3. node.refCount + Room < ULONG_MOD + node.stamp
        BY <1>4
      <4> QED
        BY <4>1, <4>2, <4>3
    <3>3. CASE b = c /\ i # j
      BY <1>1, <2>1, <3>3 DEF TableInv, NodesInRange, s, t
    <3> QED
      BY <3>1, <3>2, <3>3
  <2> QED
    BY <2>2, <2>5, <2>6 DEF OthersHold
<1> QED
  BY <1>9, <1>10

(* refresh_nonces changes no number and no count. *)
LEMMA RefreshResult ==
    ASSUME NEW Room \in Nat, TableInv(Room), refresh_nonces
    PROVE  /\ NodesInRange(Room)'
           /\ \A l \in Keys : \A n \in Int : Holds(inodes, l, n) => Holds(inodes', l, n)
<1>1. ASSUME NEW b \in Chains
      PROVE  /\ inodes[b] \in Seq(Node) /\ inodes'[b] \in Seq(Node)
             /\ Len(inodes'[b]) = Len(inodes[b])
             /\ \A i \in 1 .. Len(inodes[b]) :
                    /\ inodes'[b][i].num = inodes[b][i].num
                    /\ inodes'[b][i].refCount = inodes[b][i].refCount
                    /\ inodes'[b][i].stamp = 0
  <2>1. inodes[b] \in Seq(Node) /\ Len(inodes[b]) \in Nat
        /\ DOMAIN inodes[b] = 1 .. Len(inodes[b])
    BY DEF TableInv, InodeInv, TypeOK
  <2>2. inodes'[b] = [i \in 1 .. Len(inodes[b]) |-> [inodes[b][i] EXCEPT !.stamp = 0]]
    BY <2>1 DEF refresh_nonces
  <2>3. ASSUME NEW i \in 1 .. Len(inodes[b])
        PROVE  /\ [inodes[b][i] EXCEPT !.stamp = 0] \in Node
               /\ [inodes[b][i] EXCEPT !.stamp = 0].num = inodes[b][i].num
               /\ [inodes[b][i] EXCEPT !.stamp = 0].refCount = inodes[b][i].refCount
               /\ [inodes[b][i] EXCEPT !.stamp = 0].stamp = 0
    <3>1. inodes[b][i] \in Node
      BY <2>1
    <3> QED
      BY <3>1 DEF Node
  <2> QED
    BY <2>1, <2>2, <2>3
<1>2. ASSUME NEW l \in Keys, NEW n \in Int, Holds(inodes, l, n) PROVE Holds(inodes', l, n)
  <2> DEFINE s == inodes[Chain(l)]
             t == inodes'[Chain(l)]
  <2>1. Chain(l) \in Chains
    BY KeyType
  <2>2. /\ s \in Seq(Node) /\ t \in Seq(Node) /\ Len(t) = Len(s)
        /\ \A i \in 1 .. Len(s) : /\ t[i].num = s[i].num
                                  /\ s[i].num = l[2] => t[i].refCount = s[i].refCount
    BY <1>1, <2>1
  <2> HIDE DEF s, t
  <2>3. Accounts(t, l[2], n) <=> Accounts(s, l[2], n)
    BY <2>2, AccountsSame
  <2> QED
    BY <1>2, <2>3 DEF Holds, s, t
<1>3. walk' = "locked" /\ nonce' = 0
  BY DEF refresh_nonces, TableInv, NonceInRange
<1>4. NodesInRange(Room)'
  <2> SUFFICES ASSUME NEW b \in Chains, NEW i \in 1 .. Len(inodes'[b])
               PROVE  /\ inodes'[b][i].stamp <= 0
                      /\ inodes'[b][i].refCount >= 1
    BY <1>3 DEF NodesInRange
  <2>1. i \in 1 .. Len(inodes[b]) /\ inodes[b][i].refCount >= 1
    BY <1>1 DEF TableInv, NodesInRange
  <2> QED
    BY <1>1, <2>1
<1> QED
  BY <1>2, <1>4

(* What a dentry leads to are dentries, and the more of them the more are  *)
(* in the cache.                                                           *)
LEMMA EntriesGrow ==
    ASSUME NEW x \in Dentries, NEW C, NEW D, C \subseteq D
    PROVE  Entries(x, C) \subseteq Dentries /\ Entries(x, C) \subseteq Entries(x, D)
<1>1. Resolved(x) \subseteq Dentries
  BY ResolvedType
<1>2. Range(d_subdirs[x]) \subseteq Dentries
  <2>1. d_subdirs[x] \in Seq(Dentries)
    BY FileSystemAssumption
  <2> QED
    BY <2>1 DEF Range
<1> QED
  BY <1>1, <1>2 DEF Entries

(* The dentries of one inode resolve alike. *)
LEMMA ResolveAlike ==
    ASSUME SameEntries, NEW x \in Dentries, NEW y \in Dentries,
           Inode[x] = Inode[y], Inode[x] # <<>>
    PROVE  Resolved(x) = Resolved(y)
<1>1. \A z : Entries(z, {}) = Resolved(z)
  BY DEF Entries, Resolved
<1>2. Entries(x, {}) = Entries(y, {})
  BY DEF SameEntries
<1> QED
  BY <1>1, <1>2

(* The closure of a dentry is in every closed set that holds it. *)
LEMMA CoveredLeast ==
    ASSUME NEW d, NEW C, NEW S \in SUBSET Dentries, d \in S, Closed(S, C)
    PROVE  Covered(d, C) \subseteq S
BY DEF Covered

(* list_for_each over d_subdirs visits what is in the cache there. *)
LEMMA BelowEntries ==
    ASSUME NEW d \in Dentries, cached \in Caches
    PROVE  Range(Below(d)) = Entries(d, cached)
<1>1. CASE d \in DOMAIN Links
  <2>1. CASE Links[d] = NoDentry
    <3>1. Range(<<>>) = {}
      BY DEF Range
    <3> QED
      BY <1>1, <2>1, <3>1 DEF Below, Entries, Resolved
  <2>2. CASE Links[d] # NoDentry
    <3>1. Range(<<Links[d]>>) = {Links[d]}
      BY DEF Range
    <3> QED
      BY <1>1, <2>2, <3>1 DEF Below, Entries, Resolved
  <2> QED
    BY <2>1, <2>2
<1>2. CASE d \notin DOMAIN Links
  BY <1>2, SubdirsType DEF Below, Entries
<1> QED
  BY <1>1, <1>2

(* The marked paths have been added and no others cover anything; what has *)
(* been cached since the walk began still is, and its start cannot go.     *)
MarksInv ==
    /\ IsFiniteSet(marked)
    /\ \A d \in Dentries : d \notin marked /\ d # start => covers[d] = {}
    /\ found \subseteq cached /\ start \notin loose
    /\ walk = "add" => start \in marked
    /\ walk = "rm" => start \notin marked

(* Every inode has references for the marked paths that need it, if no     *)
(* removal has robbed it.                                                  *)
CountsInv ==
    \A k \in Narrow \ robbed : Needs(k) # {} => Holds(inodes, k, Cardinality(Needs(k)))

(* Until a removal has been at an inode that its path needs, the inode     *)
(* holds a reference that the other paths do not need.                     *)
RmInv ==
    walk = "rm" =>
        \A k \in (Narrow \cap covers[start]) \ robbed :
            Needs(k) # {} /\ FirstUnseen(inodes, k) => Holds(inodes, k, Cardinality(Needs(k)) + 1)

(* An add has met the dentries of V: what they lead to, of the dentries    *)
(* that have been in the cache since it began, has been met, or is still   *)
(* to be, or their inode is on the stack; their inodes have a reference    *)
(* for it, if they could be allocated, and only they carry its nonce.      *)
Met(V) == {Inode[x] : x \in V}
Progress(V) ==
    /\ start \in V \cup Range(todo)
    /\ \A x \in V :
           \/ Inode[x] = <<>>
           \/ Inode[x] \in Met(Range(stack))
           \/ Entries(x, found) \subseteq V \cup Range(todo) /\ Resolved(x) \cap loose = {}
    /\ \A k \in (Met(V) \cap Narrow) \ (failed \cup robbed) :
           Holds(inodes, k, Cardinality(Needs(k) \ {start}) + 1)
    /\ \A k \in Keys : Stamped(inodes, k) => k \in Met(V)

AddInv == walk = "add" => \E V \in SUBSET Dentries : Progress(V)

WalksInv(Room) == NodesInRange(Room) /\ MarksInv /\ CountsInv /\ RmInv /\ AddInv
KeptInv(Room) == InodeInv /\ NonceInRange /\ WalksInv(Room)

Hypotheses(Room) == SameEntries /\ RefCountsFit(Room)

-----------------------------------------------------------------------------
(* Who accounts for n walks accounts for fewer. *)
LEMMA HoldsFewer ==
    ASSUME NEW T, NEW k, NEW m \in Int, NEW n \in Int, m <= n,
           T[Chain(k)] \in Seq(Node), Holds(T, k, n)
    PROVE  Holds(T, k, m)
<1>1. Cardinality(Spares(T[Chain(k)], k[2])) \in Nat
  BY SparesFinite
<1>2. \A c \in Nat : n <= c + 1 => m <= c + 1
  OBVIOUS
<1> QED
  BY <1>1, <1>2 DEF Holds, Accounts

(* The marked paths that need an inode can be counted, and without one of  *)
(* them, or that one alone, there is one fewer or not.                     *)
LEMMA NeedsFinite ==
    ASSUME NEW M, IsFiniteSet(M), NEW N \in SUBSET M, NEW d
    PROVE  /\ IsFiniteSet(N) /\ Cardinality(N) \in Nat
           /\ N # {} => Cardinality(N) >= 1
           /\ IsFiniteSet(N \ {d}) /\ Cardinality(N \ {d}) \in Nat
           /\ Cardinality(N) = Cardinality(N \ {d}) + (IF d \in N THEN 1 ELSE 0)
<1>1. IsFiniteSet(N) /\ Cardinality(N) \in Nat
  BY FS_Subset, FS_CardinalityType
<1>2. N # {} => Cardinality(N) # 0
  BY <1>1, FS_EmptySet
<1>3. IsFiniteSet(N \ {d}) /\ Cardinality(N \ {d}) \in Nat
      /\ Cardinality(N \ {d}) = IF d \in N THEN Cardinality(N) - 1 ELSE Cardinality(N)
  BY <1>1, FS_RemoveElement, FS_CardinalityType
<1> QED
  BY <1>1, <1>2, <1>3

(* The table keeps for every inode what it accounts for. *)
AllHold == \A l \in Keys : \A n \in Int : Holds(inodes, l, n) => Holds(inodes', l, n)

(* A dentry that an add has met: its inode has been seen in this walk, or  *)
(* is entered and pushed.                                                  *)
LEMMA AddMeets ==
    ASSUME NEW Room \in Nat, SameEntries, KeptInv(Room), walk = "add", todo # <<>>, Visited,
           NodesInRange(Room)', AllHold, failed \subseteq failed', robbed' = robbed,
           Range(stack) \subseteq Range(stack'),
           NEW h, h = Head(todo),
           \/ Inode[h] = <<>>
           \/ Inode[h] \in Keys /\ Stamped(inodes, Inode[h])
           \/ /\ Inode[h] \in Met(Range(stack'))
              /\ Inode[h] \in Narrow \ (failed' \cup robbed) =>
                     Holds(inodes', Inode[h], Cardinality(Needs(Inode[h]) \ {start}) + 1),
           \A l \in Keys : Stamped(inodes', l) => Stamped(inodes, l) \/ l = Inode[h]
    PROVE  WalksInv(Room)'
<1>1. /\ UNCHANGED <<nonce, walk, dir, work, marked, start, found, covers, cached, loose>>
      /\ todo' = Tail(todo)
  BY DEF Visited, cacheVars
<1>2. /\ h \in Dentries /\ Range(todo) = Range(todo') \cup {h}
      /\ IsFiniteSet(marked) /\ nonce \in 1 .. ULLONG_MAX /\ start \in Dentries
  BY <1>1, HeadTail DEF KeptInv, InodeInv, TypeOK, WalksInv, MarksInv, NonceInRange
<1>4. MarksInv'
  BY <1>1 DEF KeptInv, WalksInv, MarksInv
<1>5. \A k : Needs(k)' = Needs(k)
  BY <1>1 DEF Needs
<1>6. \A k : /\ Cardinality(Needs(k)) \in Int /\ Cardinality(Needs(k) \ {start}) + 1 \in Int
             /\ Needs(k) \in SUBSET marked
  <2> TAKE k
  <2>1. Needs(k) \in SUBSET marked
    BY DEF Needs
  <2>2. Cardinality(Needs(k)) \in Nat /\ Cardinality(Needs(k) \ {start}) \in Nat
    BY <1>2, <2>1, NeedsFinite
  <2> QED
    BY <2>1, <2>2
<1>7. CountsInv'
  BY <1>5, <1>6 DEF CountsInv, AllHold, Narrow, KeptInv, WalksInv
<1>8. RmInv'
  BY <1>1 DEF RmInv
<1>9. PICK V \in SUBSET Dentries : Progress(V)
  BY DEF KeptInv, WalksInv, AddInv
<1> DEFINE W == V \cup {h}
<1>10. start' \in W \cup Range(todo')
  BY <1>1, <1>2, <1>9 DEF Progress
<1>11. ASSUME NEW x \in W
       PROVE  \/ Inode[x] = <<>>
              \/ Inode[x] \in Met(Range(stack'))
              \/ Entries(x, found) \subseteq W \cup Range(todo') /\ Resolved(x) \cap loose = {}
  <2>1. CASE x \in V
    BY <1>2, <1>9, <2>1 DEF Progress, Met
  <2>2. CASE x = h /\ Inode[h] \in Keys /\ Stamped(inodes, Inode[h])
    <3>1. PICK y \in V : Inode[y] = Inode[h]
      BY <1>9, <2>2 DEF Progress, Met
    <3>2. \/ Inode[y] = <<>>
          \/ Inode[y] \in Met(Range(stack))
          \/ Entries(y, found) \subseteq V \cup Range(todo) /\ Resolved(y) \cap loose = {}
      BY <1>9 DEF Progress
    <3>3. Inode[y] # <<>> => Entries(h, found) = Entries(y, found) /\ Resolved(h) = Resolved(y)
      <4>1. found \in SUBSET Dentries
        BY DEF KeptInv, InodeInv, TypeOK, Caches
      <4> QED
        BY <1>2, <3>1, <4>1, ResolveAlike DEF SameEntries
    <3> QED
      BY <1>2, <2>2, <3>1, <3>2, <3>3 DEF Met
  <2> QED
    BY <2>1, <2>2
<1>12. ASSUME NEW k \in (Met(W) \cap Narrow) \ (failed' \cup robbed')
       PROVE  Holds(inodes', k, Cardinality(Needs(k) \ {start}) + 1)
  <2>1. k \in Keys
    BY DEF Narrow
  <2>2. CASE k \in Met(V)
    <3>1. Holds(inodes, k, Cardinality(Needs(k) \ {start}) + 1)
      BY <1>9, <2>2 DEF Progress
    <3> QED
      BY <1>6, <2>1, <3>1 DEF AllHold
  <2>3. CASE k \notin Met(V)
    <3>1. k = Inode[h]
      BY <2>3 DEF Met
    <3>2. Inode[h] # <<>> /\ ~(Inode[h] \in Keys /\ Stamped(inodes, Inode[h]))
      BY <1>9, <2>1, <2>3, <3>1 DEF Progress, Keys
    <3> QED
      BY <3>1, <3>2
  <2> QED
    BY <2>2, <2>3
<1>13. ASSUME NEW k \in Keys, Stamped(inodes', k) PROVE k \in Met(W)
  BY <1>9, <1>13 DEF Progress, Met
<1>14. Progress(W)'
  <2>1. \A k \in Keys : Stamped(inodes, k)' <=> Stamped(inodes', k)
    BY <1>1 DEF Stamped
  <2> HIDE DEF W
  <2> QED
    BY <1>1, <1>5, <1>10, <1>11, <1>12, <1>13, <2>1 DEF Progress
<1>15. AddInv'
  BY <1>1, <1>2, <1>14 DEF AddInv
<1> QED
  BY <1>4, <1>7, <1>8, <1>15 DEF WalksInv

(* A node accounts for a walk. *)
LEMMA NodeHolds ==
    ASSUME InodeInv, NEW k \in Keys
    PROVE  /\ inodes[Chain(k)] \in Seq(Node)
           /\ check_inode(k) => Holds(inodes, k, 1)
           /\ ~check_inode(k) => \A n \in Int : ~Holds(inodes, k, n)
<1>1. inodes[Chain(k)] \in Seq(Node)
  BY KeyType DEF InodeInv, TypeOK
<1>2. check_inode(k) <=> NodesOf(inodes[Chain(k)], k[2]) # {}
  BY FoundNodes DEF TableFound
<1>3. Cardinality(Spares(inodes[Chain(k)], k[2])) \in Nat
  BY <1>1, SparesFinite
<1>4. 1 <= Cardinality(Spares(inodes[Chain(k)], k[2])) + 1
  BY <1>3
<1> QED
  BY <1>1, <1>2, <1>4 DEF Holds, Accounts

(* store_iterate_add meets a dentry whose inode it has to enter. *)
LEMMA AddEnters ==
    ASSUME NEW Room \in Nat, Hypotheses(Room), KeptInv(Room), nonce <= Room,
           walk = "add", todo # <<>>, Visited,
           NEW h \in Dentries, h = Head(todo), NEW k \in Keys, k = Inode[h],
           Push(k),
           robbed' = robbed,
           \/ check_inode(k) /\ Unseen(k) /\ inode_count(k) /\ UNCHANGED failed
           \/ ~check_inode(k) /\ inode_allocate(k) /\ UNCHANGED failed
           \/ ~check_inode(k) /\ UNCHANGED inodes /\ failed' = failed \cup {k}
    PROVE  WalksInv(Room)'
<1>1. /\ TableInv(Room) /\ InodeInv /\ SameEntries /\ RefCountsFit(Room) /\ IsFiniteSet(marked)
      /\ UNCHANGED <<nonce, walk>> /\ stack \in Seq(Dentries)
  BY DEF Hypotheses, KeptInv, WalksInv, TableInv, Visited, MarksInv, InodeInv, TypeOK
<1>2. /\ Range(stack) \subseteq Range(stack')
      /\ k \in Met(Range(stack'))
      /\ failed \subseteq failed'
  <2>1. Range(<<h>> \o stack) = Range(stack) \cup {h}
    BY <1>1, PrependRange
  <2>2. stack' = <<h>> \o stack
    BY DEF Push
  <2>3. failed \subseteq failed'
    OBVIOUS
  <2> QED
    BY <2>1, <2>2, <2>3 DEF Met
<1> DEFINE n == Cardinality(Needs(k) \ {start})
<1>3. /\ n \in Nat /\ Cardinality(Needs(k)) \in Nat /\ n <= Cardinality(Needs(k))
      /\ Needs(k) = {} => n = 0
  <2>1. Needs(k) \in SUBSET marked
    BY DEF Needs
  <2>2. n \in Nat /\ Cardinality(Needs(k)) \in Nat
        /\ Cardinality(Needs(k)) = n + (IF start \in Needs(k) THEN 1 ELSE 0)
    BY <1>1, <2>1, NeedsFinite
  <2>3. Needs(k) = {} => n = 0
    BY FS_EmptySet
  <2> HIDE DEF n
  <2> QED
    BY <2>2, <2>3
<1>4. k \in Narrow \ robbed /\ Needs(k) # {} => Holds(inodes, k, Cardinality(Needs(k)))
  BY DEF KeptInv, WalksInv, CountsInv
<1>5. /\ inodes[Chain(k)] \in Seq(Node)
      /\ check_inode(k) => Holds(inodes, k, 1)
      /\ ~check_inode(k) => \A m \in Int : ~Holds(inodes, k, m)
  BY <1>1, NodeHolds
<1>6. k \in Narrow \ robbed => n = 0 \/ (check_inode(k) /\ Holds(inodes, k, n))
  BY <1>3, <1>4, <1>5, HoldsFewer
<1> HIDE DEF n
<1>7. CASE check_inode(k) /\ Unseen(k) /\ inode_count(k) /\ UNCHANGED failed
  <2>1. /\ OthersHold(k) /\ NodesInRange(Room)'
        /\ \A m \in Int : Holds(inodes, k, m) => Holds(inodes', k, m + 1)
        /\ \A l \in Keys \ {k} : Stamped(inodes', l) => Stamped(inodes, l)
    BY <1>1, <1>7, CountResult
  <2>2. inodes'[Chain(k)] \in Seq(Node)
    BY <1>1, <1>7, InodeCount, KeyType DEF InodeInv
  <2>3. AllHold
    <3>1. ASSUME NEW m \in Int, Holds(inodes, k, m) PROVE Holds(inodes', k, m)
      <4>1. Holds(inodes', k, m + 1) /\ m + 1 \in Int /\ m <= m + 1
        BY <2>1, <3>1
      <4> QED
        BY <2>2, <4>1, HoldsFewer
    <3> QED
      BY <2>1, <3>1 DEF AllHold, OthersHold
  <2>4. k \in Narrow \ robbed => Holds(inodes', k, n + 1)
    <3>1. Holds(inodes', k, 1)
      BY <1>5, <1>7, <2>3 DEF AllHold
    <3> QED
      BY <1>3, <1>6, <2>1, <3>1
  <2> QED
    BY <1>1, <1>2, <2>1, <2>3, <2>4, AddMeets DEF n
<1>8. CASE ~check_inode(k) /\ inode_allocate(k) /\ UNCHANGED failed
  <2>1. /\ OthersHold(k) /\ NodesInRange(Room)'
        /\ k \in Narrow => Holds(inodes', k, 1)
        /\ \A l \in Keys : Stamped(inodes', l) => Stamped(inodes, l)
    BY <1>1, <1>8, AllocateResult
  <2>2. AllHold
    BY <1>5, <1>8, <2>1 DEF AllHold, OthersHold
  <2>3. k \in Narrow \ robbed => Holds(inodes', k, n + 1)
    BY <1>6, <1>8, <2>1
  <2> QED
    BY <1>1, <1>2, <2>1, <2>2, <2>3, AddMeets DEF n
<1>9. CASE UNCHANGED inodes /\ failed' = failed \cup {k}
  <2>1. NodesInRange(Room)'
    BY <1>1, <1>9 DEF TableInv, NodesInRange
  <2>2. AllHold /\ \A l \in Keys : Stamped(inodes', l) => Stamped(inodes, l)
    BY <1>9 DEF AllHold
  <2>3. Inode[h] \notin Narrow \ (failed' \cup robbed)
    BY <1>9
  <2> QED
    BY <1>1, <1>2, <2>1, <2>2, <2>3, AddMeets
<1> QED
  BY <1>7, <1>8, <1>9

(* Whatever dentry store_iterate_add meets. *)
LEMMA AddVisits ==
    ASSUME NEW Room \in Nat, Hypotheses(Room), KeptInv(Room), nonce <= Room, walk = "add",
           visit_negative \/ add_again \/ add_counted \/ add_new \/ add_failed
    PROVE  WalksInv(Room)'
<1>1. todo # <<>> /\ Visited /\ todo \in Seq(Dentries) /\ InodeInv
      /\ SameEntries /\ UNCHANGED <<nonce, walk, robbed>>
  BY DEF visit_negative, add_again, add_counted, add_new, add_failed, Meets, KeptInv,
         InodeInv, TypeOK, Hypotheses, Visited
<1>2. PICK h \in Dentries : h = Head(todo)
  BY <1>1, HeadTail
<1>3. ASSUME UNCHANGED inodes
      PROVE  /\ NodesInRange(Room)' /\ AllHold
             /\ \A l \in Keys : Stamped(inodes', l) => Stamped(inodes, l)
  BY <1>1, <1>3 DEF KeptInv, WalksInv, NodesInRange, AllHold
<1>4. CASE visit_negative
  <2>1. Inode[h] = <<>> /\ UNCHANGED <<inodes, stack, failed>>
    BY <1>2, <1>4 DEF visit_negative
  <2> QED
    BY <1>1, <1>2, <1>3, <2>1, AddMeets
<1>5. ASSUME Inode[h] # <<>> PROVE Inode[h] \in Keys
  BY <1>5, InodeIsKey
<1>6. CASE add_again
  <2>1. /\ Inode[h] \in Keys /\ UNCHANGED <<inodes, stack, failed>>
        /\ check_inode(Inode[h]) /\ ~Unseen(Inode[h])
    BY <1>2, <1>5, <1>6 DEF add_again, Meets
  <2>2. PICK k \in Keys : k = Inode[h]
    BY <2>1
  <2>3. Stamped(inodes, k)
    <3>1. /\ First(k) \in NodesOf(inodes[Chain(k)], k[2])
          /\ First(k) \in 1 .. Len(inodes[Chain(k)])
          /\ inodes[Chain(k)] \in Seq(Node) /\ Chain(k) \in Chains
      BY <1>1, <2>1, <2>2, FirstNode, KeyType, NodeHolds
    <3>2. inodes[Chain(k)][First(k)].stamp <= nonce
          /\ ~(inodes[Chain(k)][First(k)].stamp < nonce)
          /\ inodes[Chain(k)][First(k)] \in Node
      BY <2>1, <2>2, <3>1 DEF Unseen, KeptInv, WalksInv, NodesInRange
    <3>3. nonce \in Nat /\ inodes[Chain(k)][First(k)].stamp \in Nat
      BY <1>1, <3>2 DEF InodeInv, TypeOK, Node
    <3>4. inodes[Chain(k)][First(k)].stamp = nonce
      BY <3>2, <3>3
    <3> QED
      BY <3>1, <3>4 DEF Stamped
  <2> QED
    BY <1>1, <1>2, <1>3, <2>1, <2>2, <2>3, AddMeets
<1>7. CASE add_counted \/ add_new \/ add_failed
  <2>1. Inode[h] \in Keys
    BY <1>2, <1>5, <1>7 DEF add_counted, add_new, add_failed, Meets
  <2>2. PICK k \in Keys : k = Inode[h]
    BY <2>1
  <2>3. /\ Push(k)
        /\ \/ check_inode(k) /\ Unseen(k) /\ inode_count(k) /\ UNCHANGED failed
           \/ ~check_inode(k) /\ inode_allocate(k) /\ UNCHANGED failed
           \/ ~check_inode(k) /\ UNCHANGED inodes /\ failed' = failed \cup {k}
    BY <1>2, <1>7, <2>2 DEF add_counted, add_new, add_failed
  <2> QED
    BY <1>1, <1>2, <2>2, <2>3, AddEnters
<1> QED
  BY <1>4, <1>6, <1>7

(* store_iterate_rm meets a dentry: it takes a reference from its inode    *)
(* once, and one that no marked path needs, or it robs the inode.          *)
LEMMA RmVisits ==
    ASSUME NEW Room \in Nat, KeptInv(Room), walk = "rm", visit_negative \/ rm_visit
    PROVE  WalksInv(Room)'
<1>1. /\ todo # <<>> /\ Visited /\ todo \in Seq(Dentries)
      /\ InodeInv /\ UNCHANGED <<nonce, walk, marked, start, found, covers, cached, loose>>
      /\ TableInv(Room) /\ IsFiniteSet(marked)
  BY DEF visit_negative, rm_visit, Meets, KeptInv, InodeInv, TypeOK, Visited, WalksInv,
         TableInv, MarksInv, cacheVars
<1>2. PICK h \in Dentries : h = Head(todo)
  BY <1>1, HeadTail
<1>3. AddInv'
  BY <1>1 DEF AddInv
<1>4. MarksInv'
  BY <1>1 DEF KeptInv, WalksInv, MarksInv
<1>5. \A k : Needs(k)' = Needs(k)
  BY <1>1 DEF Needs
<1>6. CASE UNCHANGED <<inodes, robbed>>
  <2>1. NodesInRange(Room)'
    BY <1>1, <1>6 DEF KeptInv, WalksInv, NodesInRange
  <2>2. CountsInv'
    BY <1>5, <1>6 DEF KeptInv, WalksInv, CountsInv
  <2>3. RmInv'
    BY <1>1, <1>5, <1>6 DEF KeptInv, WalksInv, RmInv, FirstUnseen
  <2> QED
    BY <1>3, <1>4, <2>1, <2>2, <2>3 DEF WalksInv
<1>7. ASSUME NEW k \in Keys, check_inode(k), Unseen(k), rm_inode_ht(k),
             robbed' = robbed \cup ({k} \ covers[start])
      PROVE  WalksInv(Room)'
  <2>1. /\ OthersHold(k) /\ NodesInRange(Room)'
        /\ \A l \in Keys \ {k} : FirstUnseen(inodes', l) => FirstUnseen(inodes, l)
        /\ \A m \in Nat \ {0} : Holds(inodes, k, m + 1) =>
               /\ Holds(inodes', k, m)
               /\ FirstUnseen(inodes', k) => Holds(inodes', k, m + 1)
    BY <1>1, <1>7, RemoveResult
  <2>2. FirstUnseen(inodes, k)
    BY <1>1, <1>7, FirstNode DEF FirstUnseen
  <2>3. ASSUME NEW l \in Narrow \ robbed', Needs(l) # {}
        PROVE  /\ Holds(inodes', l, Cardinality(Needs(l)))
               /\ l \in covers[start] /\ FirstUnseen(inodes', l) =>
                      Holds(inodes', l, Cardinality(Needs(l)) + 1)
    <3>1. Cardinality(Needs(l)) \in Nat \ {0} /\ l \in Keys
      <4>1. Needs(l) \in SUBSET marked
        BY DEF Needs
      <4>2. Cardinality(Needs(l)) \in Nat /\ Cardinality(Needs(l)) >= 1
        BY <1>1, <2>3, <4>1, NeedsFinite
      <4> QED
        BY <4>2 DEF Narrow
    <3>2. /\ Holds(inodes, l, Cardinality(Needs(l)))
          /\ l \in covers[start] /\ FirstUnseen(inodes, l) =>
                 Holds(inodes, l, Cardinality(Needs(l)) + 1)
      BY <1>7, <2>3 DEF KeptInv, WalksInv, CountsInv, RmInv
    <3>3. CASE l = k
      <4>1. l \in covers[start]
        BY <1>7, <3>3
      <4> QED
        BY <2>1, <2>2, <3>1, <3>2, <3>3, <4>1
    <3>4. CASE l # k
      BY <2>1, <3>1, <3>2, <3>4 DEF OthersHold
    <3> QED
      BY <3>3, <3>4
  <2>4. CountsInv'
    BY <1>5, <2>3 DEF CountsInv
  <2>5. RmInv'
    BY <1>1, <1>5, <2>3 DEF RmInv, FirstUnseen
  <2> QED
    BY <1>3, <1>4, <2>1, <2>4, <2>5 DEF WalksInv
<1>8. CASE visit_negative
  BY <1>6, <1>8 DEF visit_negative
<1>9. CASE rm_visit
  <2>1. Inode[h] \in Keys
    BY <1>2, <1>9, InodeIsKey DEF rm_visit, Meets
  <2>2. PICK k \in Keys : k = Inode[h]
    BY <2>1
  <2>3. \/ /\ check_inode(k) /\ Unseen(k) /\ rm_inode_ht(k)
           /\ robbed' = robbed \cup ({k} \ covers[start])
        \/ UNCHANGED <<inodes, robbed>>
    BY <1>2, <1>9, <2>2 DEF rm_visit
  <2> QED
    BY <1>6, <1>7, <2>3
<1> QED
  BY <1>8, <1>9

(* A round begins below the entry on top of the stack. *)
LEMMA Replays ==
    ASSUME NEW Room \in Nat, Hypotheses(Room), KeptInv(Room), replay
    PROVE  WalksInv(Room)'
<1>1. /\ todo = <<>> /\ stack # <<>> /\ stack \in Seq(Dentries) /\ walk \in {"add", "rm"}
      /\ stack' = Tail(stack) /\ todo' = Below(Head(stack))
      /\ cached \subseteq cached' /\ loose' = loose \ Resolved(Head(stack))
      /\ UNCHANGED <<inodes, nonce, walk, work, marked, start, found, failed, covers, robbed>>
      /\ Positive /\ cached \in Caches /\ start \in Dentries
  BY DEF replay, Descend, tableVars, historyVars, KeptInv, InodeInv, TypeOK, WalksInv,
         NonceInRange
<1>2. PICK y \in Dentries : y = Head(stack) /\ Range(stack) = Range(stack') \cup {y}
  BY <1>1, HeadTail
<1>3. Range(todo') = Entries(y, cached) /\ Range(todo) = {} /\ Inode[y] # <<>>
  <2>1. Range(todo') = Entries(y, cached)
    BY <1>1, <1>2, BelowEntries
  <2>2. Range(todo) = {}
    BY <1>1 DEF Range
  <2>3. \E i \in DOMAIN stack : stack[i] = y
    BY <1>2 DEF Range
  <2> QED
    BY <1>1, <2>1, <2>2, <2>3 DEF Positive
<1>4. NodesInRange(Room)'
  BY <1>1 DEF KeptInv, WalksInv, NodesInRange
<1>5. \A k : Needs(k)' = Needs(k)
  BY <1>1 DEF Needs
<1>6. CountsInv' /\ RmInv'
  BY <1>1, <1>5 DEF KeptInv, WalksInv, CountsInv, RmInv, FirstUnseen
<1>7. MarksInv' /\ found \subseteq cached
  BY <1>1 DEF KeptInv, WalksInv, MarksInv
<1>8. AddInv'
  <2> SUFFICES ASSUME walk = "add" PROVE \E V \in SUBSET Dentries : Progress(V)'
    BY <1>1 DEF AddInv
  <2>1. PICK V \in SUBSET Dentries : Progress(V)
    BY DEF KeptInv, WalksInv, AddInv
  <2>2. ASSUME NEW x \in V
        PROVE  \/ Inode[x] = <<>>
               \/ Inode[x] \in Met(Range(stack'))
               \/ Entries(x, found) \subseteq V \cup Range(todo') /\ Resolved(x) \cap loose' = {}
    <3>1. CASE Inode[x] = Inode[y] /\ Inode[x] # <<>>
      <4>1. found \in SUBSET Dentries
        BY DEF KeptInv, InodeInv, TypeOK, Caches
      <4>2. Entries(x, found) = Entries(y, found) /\ Resolved(x) = Resolved(y)
        BY <1>2, <3>1, <4>1, ResolveAlike DEF Hypotheses, SameEntries
      <4>3. Entries(y, found) \subseteq Entries(y, cached)
        BY <1>7, EntriesGrow
      <4> QED
        BY <1>1, <1>2, <1>3, <4>2, <4>3
    <3>2. CASE Inode[x] # Inode[y]
      BY <1>1, <1>2, <1>3, <2>1, <3>2 DEF Progress, Met
    <3> QED
      BY <1>3, <3>1, <3>2
  <2>3. Progress(V)'
    BY <1>1, <1>3, <1>5, <2>1, <2>2 DEF Progress, Stamped
  <2> QED
    BY <2>3
<1> QED
  BY <1>4, <1>6, <1>7, <1>8 DEF WalksInv

(* What a walk begins with: a nonce that no node carries, and nothing met. *)
LEMMA Begins ==
    ASSUME NEW Room \in Nat, KeptInv(Room), NEW x \in Calls, begin(x[1], x[2])
    PROVE  /\ NodesInRange(Room)' /\ x[2] \in Dentries
           /\ walk = "idle" /\ walk' = x[1] /\ todo' = <<x[2]>> /\ start' = x[2]
           /\ failed' = {} /\ found' \subseteq cached' /\ start' \notin loose'
           /\ UNCHANGED <<inodes, covers, robbed>>
           /\ start = NoDentry /\ start # x[2] /\ Range(todo') = {x[2]}
           /\ IsFiniteSet(marked) /\ \A k \in Keys : ~Stamped(inodes, k)'
<1>1. /\ walk = "idle" /\ nonce' = nonce + 1 /\ walk' = x[1] /\ todo' = <<x[2]>>
      /\ start' = x[2] /\ failed' = {} /\ found' \subseteq cached' /\ start' \notin loose'
      /\ UNCHANGED <<inodes, covers, robbed>> /\ x[2] \in Dentries
  BY CallsAssumption DEF begin
<1>2. start = NoDentry /\ start # x[2] /\ IsFiniteSet(marked)
  BY <1>1, FileSystemAssumption DEF KeptInv, WalksInv, MarksInv, NonceInRange
<1>3. Range(<<x[2]>>) = {x[2]}
  BY DEF Range
<1>4. nonce \in Nat /\ inodes \in [Chains -> Seq(Node)]
  BY DEF KeptInv, InodeInv, TypeOK
<1>5. ASSUME NEW b \in Chains, NEW i \in 1 .. Len(inodes[b])
      PROVE  inodes[b][i].stamp \in Nat /\ inodes[b][i].stamp <= nonce
             /\ inodes[b][i].stamp < nonce + 1
  <2>1. inodes[b][i] \in Node
    BY <1>4
  <2>2. inodes[b][i].stamp <= nonce
    BY DEF KeptInv, WalksInv, NodesInRange
  <2> QED
    BY <1>4, <2>1, <2>2 DEF Node
<1>6. NodesInRange(Room)'
  <2>1. \A b \in Chains : \A i \in 1 .. Len(inodes[b]) : inodes[b][i].stamp <= nonce + 1
    BY <1>4, <1>5
  <2> QED
    BY <1>1, <2>1 DEF KeptInv, WalksInv, NodesInRange
<1>7. \A k \in Keys : ~Stamped(inodes, k)'
  <2> SUFFICES ASSUME NEW k \in Keys, NEW i \in NodesOf(inodes[Chain(k)], k[2]),
                      inodes[Chain(k)][i].stamp = nonce + 1
               PROVE  FALSE
    BY <1>1 DEF Stamped
  <2>1. Chain(k) \in Chains /\ i \in 1 .. Len(inodes[Chain(k)])
    BY KeyType DEF NodesOf
  <2> QED
    BY <1>4, <1>5, <2>1
<1> QED
  BY <1>1, <1>2, <1>3, <1>6, <1>7

(* path_store_add marks a path, and its walk has met nothing yet. *)
LEMMA AddBegins ==
    ASSUME NEW Room \in Nat, KeptInv(Room), NEW x \in Calls, x[1] = "add", begin(x[1], x[2])
    PROVE  WalksInv(Room)'
<1>1. /\ NodesInRange(Room)' /\ x[2] \in Dentries
      /\ walk = "idle" /\ walk' = x[1] /\ todo' = <<x[2]>> /\ start' = x[2]
      /\ failed' = {} /\ found' \subseteq cached' /\ start' \notin loose'
      /\ UNCHANGED <<inodes, covers, robbed>>
      /\ start = NoDentry /\ start # x[2] /\ Range(todo') = {x[2]}
      /\ IsFiniteSet(marked) /\ \A k \in Keys : ~Stamped(inodes, k)'
  BY Begins
<1>2. marked' = marked \cup {x[2]}
  BY DEF begin
<1>3. MarksInv'
  <2>1. IsFiniteSet(marked')
    BY <1>1, <1>2, FS_AddElement
  <2>2. \A e \in Dentries : e \notin marked' /\ e # start' => covers'[e] = {}
    BY <1>1, <1>2, FileSystemAssumption DEF KeptInv, WalksInv, MarksInv
  <2> QED
    BY <1>1, <1>2, <2>1, <2>2 DEF MarksInv
<1>4. \A k : Needs(k)' = Needs(k)
  <2>1. x[2] \notin marked => covers[x[2]] = {}
    BY <1>1 DEF KeptInv, WalksInv, MarksInv
  <2> QED
    BY <1>1, <1>2, <2>1 DEF Needs
<1>5. CountsInv' /\ RmInv'
  BY <1>1, <1>4 DEF KeptInv, WalksInv, CountsInv, RmInv
<1>6. AddInv'
  <2>1. Progress({})'
    BY <1>1 DEF Progress, Met
  <2> QED
    BY <2>1 DEF AddInv
<1> QED
  BY <1>1, <1>3, <1>5, <1>6 DEF WalksInv

(* path_store_rm unmarks a path: what it covers has been counted for it,   *)
(* and for each of the others that cover it too.                           *)
LEMMA RmBegins ==
    ASSUME NEW Room \in Nat, KeptInv(Room), NEW x \in Calls, x[1] = "rm", begin(x[1], x[2])
    PROVE  WalksInv(Room)'
<1>0. PICK d \in Dentries : d = x[2]
  BY Begins
<1>1. /\ NodesInRange(Room)'
      /\ walk = "idle" /\ walk' = "rm" /\ start' = d
      /\ found' \subseteq cached' /\ start' \notin loose'
      /\ UNCHANGED <<inodes, covers, robbed>>
      /\ start = NoDentry /\ start # d /\ IsFiniteSet(marked)
  BY <1>0, Begins
<1>2. marked' = marked \ {d} /\ d \in marked
  BY <1>0 DEF begin
<1>3. AddInv'
  BY <1>1 DEF AddInv
<1>4. MarksInv'
  <2>1. IsFiniteSet(marked \ {d})
    BY <1>1, FS_RemoveElement
  <2>2. \A e \in Dentries : e \notin marked' /\ e # start' => covers'[e] = {}
    BY <1>1, <1>2, FileSystemAssumption DEF KeptInv, WalksInv, MarksInv
  <2> QED
    BY <1>1, <1>2, <2>1, <2>2 DEF MarksInv
<1>5. \A k : Needs(k)' = Needs(k) \ {d}
  BY <1>1, <1>2 DEF Needs
<1>6. ASSUME NEW k \in Narrow \ robbed, Needs(k) \ {d} # {}
      PROVE  /\ Holds(inodes, k, Cardinality(Needs(k) \ {d}))
             /\ k \in covers[d] => Holds(inodes, k, Cardinality(Needs(k) \ {d}) + 1)
  <2>1. /\ Cardinality(Needs(k)) \in Nat /\ Cardinality(Needs(k) \ {d}) \in Nat
        /\ Cardinality(Needs(k)) = Cardinality(Needs(k) \ {d}) + (IF d \in Needs(k) THEN 1 ELSE 0)
    <3>1. Needs(k) \in SUBSET marked
      BY DEF Needs
    <3> QED
      BY <1>1, <3>1, NeedsFinite
  <2>2. Holds(inodes, k, Cardinality(Needs(k)))
    BY <1>6 DEF KeptInv, WalksInv, CountsInv
  <2>3. inodes[Chain(k)] \in Seq(Node)
    BY NodeHolds DEF Narrow, KeptInv
  <2>4. Holds(inodes, k, Cardinality(Needs(k) \ {d}))
    <3>1. Cardinality(Needs(k) \ {d}) <= Cardinality(Needs(k))
      BY <2>1
    <3> QED
      BY <2>1, <2>2, <2>3, <3>1, HoldsFewer
  <2>5. k \in covers[d] => d \in Needs(k)
    BY <1>2 DEF Needs
  <2> QED
    BY <2>1, <2>2, <2>4, <2>5
<1>7. CountsInv' /\ RmInv'
  BY <1>1, <1>5, <1>6 DEF CountsInv, RmInv
<1> QED
  BY <1>1, <1>3, <1>4, <1>7 DEF WalksInv

(* The walk is over: an add has met all it could reach through what was    *)
(* there throughout, and has counted what it could allocate of it.         *)
LEMMA Finishes ==
    ASSUME NEW Room \in Nat, KeptInv(Room), finish
    PROVE  WalksInv(Room)'
<1> DEFINE G == Reachable[start][found] \ failed
<1>1. /\ walk \in {"add", "rm"} /\ todo = <<>> /\ stack = <<>>
      /\ covers' = [covers EXCEPT ![start] = IF walk = "add" THEN @ \cup G ELSE {}]
      /\ robbed' = {k \in robbed : \E d \in marked : k \in covers'[d]}
      /\ walk' \in {"locked", "idle"} /\ start' = NoDentry /\ found' = Dentries \ Volatile
      /\ UNCHANGED <<inodes, nonce, marked, cached, loose>>
  BY DEF finish, tableVars, cacheVars
<1>2. /\ start \in Dentries /\ nonce \in 1 .. ULLONG_MAX /\ IsFiniteSet(marked)
      /\ covers \in [Dentries -> SUBSET Keys] /\ marked \subseteq Dentries
      /\ found \in Caches /\ cached \in Caches /\ loose \subseteq Volatile
  BY <1>1 DEF KeptInv, WalksInv, NonceInRange, MarksInv, InodeInv, TypeOK
<1>3. NodesInRange(Room)'
  BY <1>1 DEF KeptInv, WalksInv, NodesInRange
<1>4. RmInv' /\ AddInv'
  BY <1>1 DEF RmInv, AddInv
<1>5. ASSUME walk = "add"
      PROVE  /\ start \in marked
             /\ \A k \in (G \cap Narrow) \ robbed : Holds(inodes, k, Cardinality(Needs(k) \ {start}) + 1)
  <2>1. start \in marked
    BY <1>5 DEF KeptInv, WalksInv, MarksInv
  <2>2. PICK V \in SUBSET Dentries : Progress(V)
    BY <1>5 DEF KeptInv, WalksInv, AddInv
  <2>3. start \in V /\ Closed(V, found)
    <3>1. Range(todo) = {} /\ Range(stack) = {}
      <4>1. Range(<<>>) = {}
        BY DEF Range
      <4> QED
        BY <1>1, <4>1
    <3> QED
      BY <2>2, <3>1 DEF Progress, Met, Closed
  <2>4. Covered(start, found) \subseteq V
    BY <2>3, CoveredLeast
  <2>5. G \subseteq Met(V) \ failed
    <3>1. Reachable[start][found] = {Inode[e] : e \in Covered(start, found)} \ {<<>>}
      BY <1>2, ReachableType
    <3> QED
      BY <2>4, <3>1 DEF Met
  <2> QED
    BY <2>1, <2>2, <2>5 DEF Progress
<1> HIDE DEF G
<1>6. ASSUME walk = "rm" PROVE start \notin marked
  BY <1>6 DEF KeptInv, WalksInv, MarksInv
<1>7. \A d \in Dentries :
          /\ d # start => covers'[d] = covers[d]
          /\ covers'[start] = IF walk = "add" THEN covers[start] \cup G ELSE {}
  BY <1>1, <1>2
<1>8. MarksInv'
  <2>1. ASSUME NEW d \in Dentries, d \notin marked PROVE covers'[d] = {}
    <3>1. d # start => covers[d] = {}
      BY <2>1 DEF KeptInv, WalksInv, MarksInv
    <3> QED
      BY <1>1, <1>5, <1>7, <2>1, <3>1
  <2>2. found' \subseteq cached' /\ start' \notin loose'
    BY <1>1, <1>2, FileSystemAssumption DEF Caches
  <2> QED
    BY <1>1, <1>2, <2>1, <2>2 DEF MarksInv
<1>9. CountsInv'
  <2> SUFFICES ASSUME NEW k \in Narrow, k \notin robbed', Needs(k)' # {}
               PROVE  Holds(inodes, k, Cardinality(Needs(k)'))
    BY <1>1 DEF CountsInv
  <2>1. Needs(k)' = {d \in marked : k \in covers'[d]}
    BY <1>1 DEF Needs
  <2>2. k \notin robbed
    BY <1>1, <2>1
  <2>3. Needs(k) # {} => Holds(inodes, k, Cardinality(Needs(k)))
    BY <2>2 DEF KeptInv, WalksInv, CountsInv
  <2>4. CASE walk = "add" /\ k \in G
    <3>1. Needs(k)' = (Needs(k) \ {start}) \cup {start}
      BY <1>2, <1>5, <1>7, <2>1, <2>4 DEF Needs
    <3>2. IsFiniteSet(Needs(k) \ {start}) /\ Cardinality(Needs(k) \ {start}) \in Nat
      <4>1. Needs(k) \in SUBSET marked
        BY DEF Needs
      <4> QED
        BY <1>2, <4>1, NeedsFinite
    <3>3. Cardinality(Needs(k)') = Cardinality(Needs(k) \ {start}) + 1
      BY <3>1, <3>2, FS_AddElement
    <3> QED
      BY <1>5, <2>2, <2>4, <3>3
  <2>5. CASE walk = "rm" \/ k \notin G
    <3>1. Needs(k)' = Needs(k)
      BY <1>1, <1>2, <1>6, <1>7, <2>1, <2>5 DEF Needs
    <3> QED
      BY <2>3, <3>1
  <2> QED
    BY <1>1, <2>4, <2>5
<1> QED
  BY <1>3, <1>4, <1>8, <1>9 DEF WalksInv

(* The nonces begin anew, while no walk runs. *)
LEMMA Refreshes ==
    ASSUME NEW Room \in Nat, KeptInv(Room), refresh_nonces
    PROVE  WalksInv(Room)'
<1>1. /\ TableInv(Room) /\ walk = "locked" /\ InodeInv
      /\ UNCHANGED <<walk, todo, stack, marked, cached, loose, start, found, covers, robbed>>
      /\ nonce' = 0 /\ work' = FALSE
  BY DEF KeptInv, WalksInv, TableInv, NonceInRange, refresh_nonces, historyVars, cacheVars
<1>2. /\ NodesInRange(Room)'
      /\ \A l \in Keys : \A n \in Int : Holds(inodes, l, n) => Holds(inodes', l, n)
  BY <1>1, RefreshResult
<1>3. RmInv' /\ AddInv' /\ MarksInv'
  BY <1>1 DEF KeptInv, WalksInv, RmInv, AddInv, MarksInv
<1>4. CountsInv'
  <2>1. \A k : Needs(k)' = Needs(k)
    BY <1>1 DEF Needs
  <2>2. ASSUME NEW k \in Narrow \ robbed, Needs(k) # {}
        PROVE  Holds(inodes', k, Cardinality(Needs(k)))
    <3>1. Needs(k) \in SUBSET marked /\ IsFiniteSet(marked) /\ k \in Keys
      BY DEF Needs, KeptInv, WalksInv, MarksInv, Narrow
    <3>2. Cardinality(Needs(k)) \in Nat
      BY <3>1, NeedsFinite
    <3>3. Holds(inodes, k, Cardinality(Needs(k)))
      BY <2>2 DEF KeptInv, WalksInv, CountsInv
    <3> QED
      BY <1>2, <3>1, <3>2, <3>3
  <2> QED
    BY <1>1, <2>1, <2>2 DEF CountsInv
<1> QED
  BY <1>2, <1>3, <1>4 DEF WalksInv

(* Dentries that enter the cache behind a walk are not what it has to      *)
(* cover.                                                                  *)
LEMMA Lookups ==
    ASSUME NEW Room \in Nat, KeptInv(Room),
           UNCHANGED <<inodes, nonce, walk, todo, stack, work, marked, loose, historyVars>>,
           cached \subseteq cached'
    PROVE  WalksInv(Room)'
<1> USE DEF historyVars
<1>1. NodesInRange(Room)' /\ MarksInv'
  BY DEF KeptInv, WalksInv, NodesInRange, MarksInv
<1>2. \A k : Needs(k)' = Needs(k)
  BY DEF Needs
<1>3. CountsInv' /\ RmInv'
  BY <1>2 DEF KeptInv, WalksInv, CountsInv, RmInv, FirstUnseen
<1>4. AddInv'
  <2> SUFFICES ASSUME walk = "add" PROVE \E V \in SUBSET Dentries : Progress(V)'
    BY DEF AddInv
  <2>1. PICK V \in SUBSET Dentries : Progress(V)
    BY DEF KeptInv, WalksInv, AddInv
  <2>2. Progress(V)'
    BY <1>2, <2>1 DEF Progress, Stamped
  <2> QED
    BY <2>2
<1> QED
  BY <1>1, <1>3, <1>4 DEF WalksInv

(* A dentry that leaves the cache leaves what the walk has still to visit  *)
(* and what it has to cover; neither its start nor the target of a link it *)
(* has followed can go.                                                    *)
LEMMA Reclaims ==
    ASSUME NEW Room \in Nat, KeptInv(Room), NEW d \in Volatile, reclaim(d)
    PROVE  WalksInv(Room)'
<1>1. /\ d \in loose /\ cached' = cached \ {d} /\ found' = found \ {d}
      /\ UNCHANGED <<inodes, nonce, walk, stack, marked, loose, start, failed, covers, robbed>>
      /\ todo' = Kept(todo, {i \in DOMAIN todo : todo[i] # d})
  BY DEF reclaim, tableVars
<1>2. NodesInRange(Room)' /\ MarksInv'
  BY <1>1 DEF KeptInv, WalksInv, NodesInRange, MarksInv
<1>3. \A k : Needs(k)' = Needs(k)
  BY <1>1 DEF Needs
<1>4. CountsInv' /\ RmInv'
  BY <1>1, <1>3 DEF KeptInv, WalksInv, CountsInv, RmInv, FirstUnseen
<1>5. Range(todo') = Range(todo) \ {d}
  <2> DEFINE I == {i \in DOMAIN todo : todo[i] # d}
  <2>1. I \in SUBSET DOMAIN todo /\ todo \in Seq(Dentries)
    BY DEF KeptInv, InodeInv, TypeOK
  <2>2. {todo[i] : i \in I} = Range(todo) \ {d}
    BY DEF Range
  <2>3. todo' = Kept(todo, I)
    BY <1>1
  <2> HIDE DEF I
  <2> QED
    BY <2>1, <2>2, <2>3, KeptRange
<1>6. AddInv'
  <2> SUFFICES ASSUME walk = "add" PROVE \E V \in SUBSET Dentries : Progress(V)'
    BY <1>1 DEF AddInv
  <2>1. PICK V \in SUBSET Dentries : Progress(V)
    BY DEF KeptInv, WalksInv, AddInv
  <2>2. start \in V \cup Range(todo')
    BY <1>1, <1>5, <2>1 DEF Progress, KeptInv, WalksInv, MarksInv
  <2>3. ASSUME NEW x \in V, Entries(x, found) \subseteq V \cup Range(todo), Resolved(x) \cap loose = {}
        PROVE  Entries(x, found') \subseteq V \cup Range(todo')
    <3>1. Entries(x, found') \subseteq Entries(x, found) \ {d}
      BY <1>1, <2>3 DEF Entries
    <3> QED
      BY <1>5, <2>3, <3>1
  <2>4. Progress(V)'
    BY <1>1, <1>3, <2>1, <2>2, <2>3 DEF Progress, Stamped
  <2> QED
    BY <2>4
<1> QED
  BY <1>2, <1>4, <1>6 DEF WalksInv

-----------------------------------------------------------------------------
(* Every walk that begins while the store is free has a nonce of its own,  *)
(* and only behind the last nonce is refresh_nonces scheduled.             *)
LEMMA NonceStep == InodeInv /\ NonceInRange /\ [Next]_vars => NonceInRange'
<1> SUFFICES ASSUME InodeInv, NonceInRange, [Next]_vars PROVE NonceInRange'
  OBVIOUS
<1>1. ASSUME NEW x \in Calls, begin(x[1], x[2]) PROVE NonceInRange'
  <2>1. /\ walk = "idle" /\ nonce' = nonce + 1 /\ start' = x[2] /\ walk' = x[1]
        /\ UNCHANGED work /\ x[2] \in Dentries /\ x[1] \in {"add", "rm"}
    BY <1>1, CallsAssumption DEF begin
  <2>2. nonce \in Nat /\ nonce < ULLONG_MAX /\ ULLONG_MAX \in Nat /\ ~work
    BY <2>1, WidthAssumption DEF InodeInv, TypeOK, NonceInRange
  <2> QED
    BY <2>1, <2>2 DEF NonceInRange
<1>2. CASE UNCHANGED <<nonce, walk, work, start>>
  BY <1>2 DEF NonceInRange
<1>3. CASE finish
  BY <1>3, WidthAssumption DEF finish, tableVars, NonceInRange
<1>4. CASE refresh_nonces
  BY <1>4 DEF refresh_nonces, historyVars, NonceInRange
<1> QED
  BY <1>1, <1>2, <1>3, <1>4
  DEF Next, store_iterate, visit_negative, add_again, add_counted, add_new, add_failed,
      rm_visit, replay, Descend, Visited, lookup, reclaim, inode_lock_wait, inode_lock_held,
      inode_unlock, vars, tableVars, walkVars, historyVars

(* The first walks, for which the counts have room; if they have for all   *)
(* that can be, the rest as well.                                          *)
Within(Room) == ULLONG_MAX <= Room \/ (walk # "locked" /\ nonce <= Room)

KeptWithin(Room) == InodeInv /\ NonceInRange /\ (Within(Room) => WalksInv(Room))

(* The invariant holds before the first call, ... *)
LEMMA KeptStart ==
    ASSUME NEW Room \in Nat, Init
    PROVE  KeptWithin(Room)
<1>1. InodeInv
  BY InodeInvStart
<1>2. NodesInRange(Room) /\ NonceInRange
  <2>1. \A b \in Chains : Len(inodes[b]) = 0
    BY DEF Init
  <2> QED
    BY <2>1, WidthAssumption DEF Init, NodesInRange, NonceInRange
<1>3. MarksInv
  BY FS_EmptySet, FileSystemAssumption DEF Init, MarksInv
<1>4. CountsInv /\ RmInv /\ AddInv
  BY DEF Init, CountsInv, Needs, RmInv, AddInv
<1> QED
  BY <1>1, <1>2, <1>3, <1>4 DEF KeptWithin, WalksInv

(* ... every step of the store keeps it, ... *)
LEMMA KeptStep ==
    ASSUME NEW Room \in Nat, Hypotheses(Room), KeptWithin(Room), [Next]_vars
    PROVE  KeptWithin(Room)'
<1>1. InodeInv /\ NonceInRange /\ InodeInv' /\ NonceInRange'
  BY InodeInvStep, NonceStep DEF KeptWithin
<1>2. ASSUME Within(Room)'
      PROVE  /\ KeptInv(Room) /\ (walk \in {"add", "rm"} => nonce <= Room)
  <2>1. Within(Room)
    <3>1. CASE ULLONG_MAX <= Room
      BY <3>1 DEF Within
    <3>2. CASE walk' # "locked" /\ nonce' <= Room
      <4>1. walk # "locked"
        BY <3>2 DEF Next, store_iterate, begin, visit_negative, add_again, add_counted,
                    add_new, add_failed, rm_visit, Visited, Meets, replay, Descend, finish,
                    refresh_nonces, lookup, reclaim, inode_lock_wait, inode_lock_held,
                    inode_unlock, vars, tableVars, walkVars
      <4>2. nonce' = nonce \/ nonce' = nonce + 1
        BY <1>1, <4>1 DEF Next, store_iterate, begin, visit_negative, add_again, add_counted,
                    add_new, add_failed, rm_visit, Visited, replay, Descend, finish,
                    NonceInRange, refresh_nonces, lookup, reclaim, inode_lock_wait,
                    inode_lock_held, inode_unlock, vars, tableVars, walkVars
      <4>3. nonce \in Nat
        BY <1>1 DEF InodeInv, TypeOK
      <4>4. nonce <= Room
        BY <3>2, <4>2, <4>3
      <4> QED
        BY <4>1, <4>4 DEF Within
    <3> QED
      BY <1>2, <3>1, <3>2 DEF Within
  <2>2. walk \in {"add", "rm"} => nonce \in Nat /\ nonce <= ULLONG_MAX /\ ULLONG_MAX \in Nat
    BY <1>1, WidthAssumption DEF NonceInRange
  <2> QED
    BY <1>1, <2>1, <2>2 DEF Within, KeptWithin, KeptInv
<1>3. ASSUME KeptInv(Room), walk \in {"add", "rm"} => nonce <= Room
      PROVE  WalksInv(Room)'
  <2>1. ASSUME NEW x \in Calls, begin(x[1], x[2]) PROVE WalksInv(Room)'
    BY <1>3, <2>1, CallsAssumption, AddBegins, RmBegins
  <2>2. CASE store_iterate
    <3>1. CASE visit_negative
      <4>1. walk = "add" \/ walk = "rm"
        BY <3>1 DEF visit_negative
      <4> QED
        BY <1>3, <3>1, <4>1, AddVisits, RmVisits
    <3>2. CASE add_again \/ add_counted \/ add_new \/ add_failed
      <4>1. walk = "add"
        BY <3>2 DEF add_again, add_counted, add_new, add_failed, Meets
      <4> QED
        BY <1>3, <3>2, <4>1, AddVisits
    <3>3. CASE rm_visit
      <4>1. walk = "rm"
        BY <3>3 DEF rm_visit, Meets
      <4> QED
        BY <1>3, <3>3, <4>1, RmVisits
    <3> QED
      BY <1>3, <2>2, <3>1, <3>2, <3>3, Replays, Finishes DEF store_iterate
  <2>3. ASSUME NEW d \in Volatile, lookup(d) \/ reclaim(d) PROVE WalksInv(Room)'
    <3>1. CASE lookup(d)
      BY <1>3, <3>1, Lookups DEF lookup, tableVars, walkVars
    <3> QED
      BY <1>3, <2>3, <3>1, Reclaims
  <2>4. ASSUME NEW k \in Writable, inode_lock_wait(k) \/ inode_lock_held(k) \/ inode_unlock(k)
        PROVE  WalksInv(Room)'
    BY <1>3, <2>4, Lookups
    DEF inode_lock_wait, inode_lock_held, inode_unlock, tableVars, walkVars, cacheVars
  <2>5. CASE UNCHANGED vars
    BY <1>3, <2>5, Lookups DEF vars, tableVars, walkVars, cacheVars
  <2> QED
    BY <1>3, <2>1, <2>2, <2>3, <2>4, <2>5, Refreshes DEF Next
<1> QED
  BY <1>1, <1>2, <1>3 DEF KeptWithin

(* ... and an inode with a reference for a marked path is in the table. *)
LEMMA KeptSuffices ==
    ASSUME NEW Room \in Nat, KeptWithin(Room), Within(Room)
    PROVE  CountedInodesKept
<1> SUFFICES ASSUME NEW d \in marked, NEW k \in covers[d] \ robbed, k[2] < UINT_MOD
             PROVE  check_inode(k)
  BY DEF CountedInodesKept
<1>1. k \in Keys /\ k \in Narrow \ robbed /\ d \in Needs(k) /\ InodeInv
  BY DEF KeptWithin, InodeInv, TypeOK, Narrow, Needs
<1>2. NodesOf(inodes[Chain(k)], k[2]) # {}
  BY <1>1 DEF KeptWithin, WalksInv, CountsInv, Holds, Accounts
<1> QED
  BY <1>1, <1>2, FoundNodes DEF TableFound

(* However the walks run, and whatever else moves the cache, the locks of  *)
(* the inodes and the nonces, every inode that an add of a marked path has *)
(* covered is in the table, unless an rm of another path has robbed it     *)
(* (store_iterate_add, store_iterate_rm), in the first Room walks of the   *)
(* module, for which the counts of references have room.                   *)
THEOREM InodesKeptWithin ==
    ASSUME NEW Room \in Nat, SameEntries, RefCountsFit(Room)
    PROVE  CheckSpec => [](Within(Room) => CountedInodesKept)
<1>1. Hypotheses(Room)
  BY DEF Hypotheses
<1>2. Init => KeptWithin(Room)
  BY KeptStart
<1>3. KeptWithin(Room) /\ [Next]_vars => KeptWithin(Room)'
  BY <1>1, KeptStep
<1>4. KeptWithin(Room) => (Within(Room) => CountedInodesKept)
  BY KeptSuffices
<1> QED
  BY <1>2, <1>3, <1>4, CheckImpliesStore, PTL DEF Spec
=============================================================================
