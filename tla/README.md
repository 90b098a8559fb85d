# SOAFileKLRM in TLA+

SOAFileKLRM is a Linux kernel module, a reference monitor that keeps a
selection of paths from being written. A user reconfigures it through ioctl
calls on a character device; the paths live in a tree and the inodes below them
in a hash table; the attempts it records go to a log file, a ring kept on a
block device by a small file system of its own. This directory models the parts
of the module that carry its logic, checks them with TLC on small instances and
proves the safety of nearly all of them with TLAPS for every instance.

## Inventory

| part | state | operations | how it interacts |
|---|---|---|---|
| state machine (`state_machine/`) | toggles `rec`, `set`, one `rw_semaphore` each | enter/exit for reconfiguration, four setters | the ioctl handlers hold `rec_sem` for reading across a store call |
| device and handlers (`api/`) | slab of input buffers | `dev_ioctl` and five handlers | password, state machine, then path store |
| path store (`path_store/path_store.c`) | tree of `store_entry`, `argIdxs`, `nonce`, `store_lock` | add, rm, check | asks the path oracle; add and rm walk the file system under the lock |
| inode store (`inode_store.c`, `store_iterate.c`) | per device a table of `inode_ht` with count and stamp | insert, remove, check, refresh; two walks over cached dentries | called by the path store; locks inodes of the host's file systems |
| log ring (`lib/logfs/file.c`) | `circular_buffer_start/end`, the blocks, `log_file_mutex` | read, debug write, internal write | written by deferred work, read by processes |
| log file system (`logfilefs_src.c`, `dir.c`) | `mounted`, `singleton_sb`, `sb_lock`, indices in block 1 | mount, unmount | the ring's writers use `mounted`, `singleton_sb` and the indices under another lock |
| logger (`logger/`) | work items, module references | `log_append`, deferred work | writes the ring; pins the module |
| oracles, password, wrappers, client, init | inputs of the above, or not part of the running module | | |

What is hard about it, and which property is for it, is the list `hazards` of
`PROJECT.json`. In short:

* handlers run concurrently and share the tree, a global index array and two
  semaphores; a toggle can change between a test and a use;
* early returns leave locks and holds behind;
* counters meet their limits (the nonces, `ARGS_SIZE`, the turn of the ring);
* the walks meet links, loops, failing allocations and other users' locks, and
  the file system changes between an add and the matching rm;
* a log write can fail after half of its blocks, and readers are overtaken;
* the kernel calls `kill_sb` also for a mount that was refused, unmounts run under
  writes, and the superblock's globals are guarded by one lock and used under another;
* deferred work outlives its caller, and rmmod may come at any time.

## Modules

| module | stands for |
|---|---|
| `StateMachine` | `state_machine.c` and the kernel's `rw_semaphore` (fair queue, anonymous read holds) |
| `Ioctl` | `dev_ioctl` and `klrm_path_add/rm/check`, `klrm_set`, `klrm_rec`, run by threads; a store call is one span |
| `Sublists` | what a loop passes on of a list when it skips some elements; without recursion, so that it can be reasoned about |
| `PathText` | what `process_path` makes of a text: indices, tokens, refusals |
| `ProtectedPaths` | abstract: a set of paths with atomic add, rm, check |
| `PathStore` | `path_store.c` step by step: one slash, one token, one sibling, one entry at a time |
| `Monitor` | extends `Ioctl` and instantiates `PathStore`, run by the same threads, with the module's exit |
| `InodeStore` | `inode_store.c` and `store_iterate.c`: one dentry at a time, the file system as environment |
| `InodeCheck` | extends `InodeStore` by `check_inode`'s traversal, one node at a time, without `store_lock` |
| `LogRing` | the reads and writes of `file.c`, one block at a time |
| `LogMount` | `logfilefs_src.c`: `fill_super` and `kill_sb`, and the writers of `file.c` as far as they depend on them |
| `Logger` | composes `LogMount` with `logger.c`: the deferred work, its memory and module references, rmmod |
| `IoctlProofs`, `LogRingProofs`, `LoggerProofs`, `MonitorProofs`, `InodeCheckProofs` | theorems about `Ioctl`, `LogRing`, `Logger` over `LogMount`, `Monitor`, `InodeCheck` over `InodeStore` |
| `PathStoreProofs`, `PathNamesProofs` | theorems about `PathStore`: its lock, tree and pointers; its names, and that it implements `ProtectedPaths` |
| `SublistProofs` | lemmas about sublists, removal from a sequence and the places of a value in one |
| `MCIoctl`, `MCMonitor`, `MCPathStore`, `MCInodeStore`, `MCInodeCheck`, `MCLogger` | constants for TLC; `LogRing` is checked as it is |

Actions bear the names of the C functions they belong to, with a suffix for the
step or the branch; `PROJECT.json` maps each to its lines. A definition whose
name extends another's (`rm_free`, `rm_free_uncounted`) and which stands before
it is a wrong variant of it; it is used to see that a property can fail.

### Ioctl over StateMachine

A thread's `pc` says where its call is. `down_read` and `down_write` join a
queue and return when the thread is at its head and no incompatible hold is
left. A read hold is only a number, as in the kernel: a handler that returns
without `up_read` leaves it raised. `leakedHolds` and `leakedInputs` are
history. `MaxLeaks` bounds the leaking calls; with 0 there are none.

Three early returns of `dev_ioctl` (no buffer, wrong size, fault) leave nothing
and are one stuttering action.

### PathStore

Texts are sequences of characters. `process_path` stores an index per step in
the global `argIdxs`, without the lock, as the code does; every later comparison
reads `argIdxs` again. An index beyond the text reads one of the values
`Residue` allows. A freed entry is poisoned. The oracle's answer is part of the call: `resolved` with the
canonical text, or not. `check_inode` is free to answer anything, so `PathStore`
does not depend on `InodeStore`. When the nonces are used up the lock stays and
`refresh_nonces` is scheduled. An add that does not resolve, or meets an empty
token, keeps the lock too: this is what the code does.

`PathStore` implements `ProtectedPaths`: `protected` is the set of paths of the
explicit entries, an add takes effect when it marks its entry, an rm when it
clears the mark, a check when it has searched.

### Monitor

`Monitor` extends `Ioctl`; `Store` is an instance of `PathStore` whose clients are
the threads. A handler whose password was
right calls the store and goes on when that call has returned, so a thread waits
for `store_lock` while it holds `rec_sem`. `klrm_exit` runs when no call and no
work is under way and takes `store_lock` in `cleanup_path_store`. The requests a
thread may make are a constant; `MutationBound` bounds the nonces, and is kept
where calls begin, so that no call in progress waits for it.

### InodeStore

The file system is a constant: dentries, their inodes `<<device, number>>`,
children in their order, link targets. The variable `cached` says which of the
dentries are in the cache, the only ones a walk sees. Dentries of `Volatile` enter
it (`lookup`) and leave it (`reclaim`) at any time, also under a walk. `loose` are
those to which no call has left a reference: neither the start of a walk nor the
target of a followed link is ever put, so these stay, and following a link brings
its target and the directories above it into the cache. The kernel does not
reclaim a dentry with cached children; that it may take the one at the cursor of a
walk is left out (see "Not modelled"). Others may take inode locks exclusively; a shared lock waits
behind them.

The walk is a stack of dentries; each visit locks the inode,
enters or counts it, and pushes it unless it has been counted in this walk.
Children are taken when a directory is popped. `refCount` starts from any value of
`Stale`, because the code increments uninitialised memory. `rm_inode_ht` does not
return for an inode that is missing from a known device; the walk then has no next
step. `num` has its width (`UINT_MOD`): an inode number beyond it is entered again
at every visit under another number and never found.

History: `found` is what has been in the cache ever since the walk began, `failed`
what it could not allocate, `covers` what the adds of a path have entered or
counted: what was reachable through `found`, without `failed`. `robbed` are the inodes from which an rm took a
reference although the adds of its path had not covered them. `CountedInodesKept`
says that every inode a protected path covers is in the table, but for the robbed
ones; that robbing happens, and costs another path its inode, is
`ProtectedInodesKept`, violated in `inode_shared`.

`InodeCheck` lets one check at a time stand on a node of a chain between steps of
the walks. If the node is freed under it the check is given up: what the code
does from there on is undefined. `right` collects the answers that were right
since the check began.

### LogRing

Every byte of the log has an offset that grows for ever; the model stores
offsets instead of bytes, so "the right byte" can be said without contents. A
read is one step, because it holds the mutex and touches one block. A write is
one step per block, so that it can fail between two. `reach` remembers how far
the longest given-up write got. No write marks its buffer dirty (`file.c:117,189`), so
nothing reaches the device and the kernel may drop a block at any time, mounted or
not: `reclaim` takes any block that no transfer is in, and the next `sb_bread` finds what the device holds,
written here as `Gone`. So the code keeps no log for certain, and the properties
claim none: they say that a position in the window holds its byte or is lost to
such a block, never another byte, and that a read returns consecutive offsets with
holes of lost blocks, and reports the end of the log only where it is.

### LogMount and Logger

A device's superblock is `none`, `new` (in `fill_super`), `mounted`, `dying` (in
`kill_sb`) or `lost`. `mount_bdev` shares a superblock that exists, so a mount is
an action only for a device without one. A `fill_super` that fails leads to
`kill_sb`: the kernel calls it from `deactivate_locked_super`. Where `kill_sb`
cannot read block 1 it returns with `sb_lock` held and without
`kill_block_super`: the superblock is `lost`.

No buffer is ever marked dirty, so what `kill_sb` stores is in the buffer cache
only: `evict` takes it from there, and block 1 is again what `logfilemakefs`
wrote. Lengths and indices count blocks. A writer takes `singleton_sb` for every
block; if that is null or freed, `sb_bread` kills it, mutex in hand, or, for
freed memory, goes well: both are possible. `own` is history: how far each
device's own log has got, and `Unset` once devices overlap, one is unmounted
under a write, or block 1 could not be read, since the code promises nothing
then (`mount_twice`, and the hazards at `logfilefs_src.c:133`).

`Foreign`, the devices that hold no log, is chosen at the start, so there are runs
with two logs and runs with one.

`log_append` and `do_log_work` have one step per way out of them, four and eight,
each with what it allocates (`memory`: the work, the path of the executable, the
record, the content buffer, the transform) and what it frees before it leaves.
`OnlyContentLost` is about what is left at the end: everything has been freed,
except the content buffer when the executable could not be read. rmmod waits for
references and for superblocks.

## Runs

| run | instance | shows |
|---|---|---|
| `api_denied` | 2 threads, 1 leak | violated: after one wrong password, a rec request never takes effect |
| `monitor` | 2 threads over a store of 1 entry, 1 leak of each kind, a wrong password, a request for neither ON nor OFF, an add that does not resolve, 3 nonces, rmmod | `ReconfiguredOnlyWhileOn`, `ResourcesAccounted`, `ProtectionChangesOnlyWhileOn`, `CallsReturn`, `ExitEnds` |
| `store_safety` | 2 clients, 3 entries, 4 paths that exist and 5 kinds of bad text, 3 nonces | lock exclusion, `TreeOK`, `NoUseAfterFree`, `NothingLeftOver`, `LockGivenBack`, `ImplementsProtectedPaths` |
| `store_race` | 2 adds, `/a/b` and `/aa/b` | violated: an add returns 0 and protects something else |
| `store_nonce` | 2 clients, nonces used up | violated: the work item does not unlock |
| `inode_walk` | loop, hard link, a file that two paths share and that comes and goes, negative dentry, dangling link with a wide inode number, failing allocation, two devices, exclusive users, checks in one chain | `CountedInodesKept`, `LocksMatchStack`, `CheckWasRight`, `WalksEndOrSpin` |
| `inode_late` | directory whose file is looked up after the add | violated: the removal never ends (`WalksEnd`) |
| `inode_twice` | add, add, rm | violated: the inode stays protected |
| `inode_shared` | a directory, one below it and a file there; add both, the file being looked up in between, then remove the one added first | violated: the file, which the other path's add has covered, is out of the table (`ProtectedInodesKept`) |
| `log_ring` | ring of 4 bytes in 2 blocks, payloads to 5, end to 12, blocks reclaimed at any time | `WindowIsLastN`, `DamageConfined`, `ReadsAreConsecutive`, `NoFalseEnd` |
| `log_mount` | a log device with every fault and a second device, a log or foreign, 2 mounters, 1 writer, 1 user, rmmod | `NoDanglingSuperblock`, `MountedLogIntact`, `WorkPinsModule`, `OnlyContentLost`, `MountsReturn`, `WorkEnds` |
| `mount_twice` | two log devices without faults | violated: the refusal of the second makes the module forget the first |

The violated ones are the `findings` of `PROJECT.json`; each quotes the line of
the repository that says otherwise.

**Bounds.** Two threads give a handler with its hold on `rec_sem` and a writer that
queues behind it, or for `store_lock`. In `monitor` one entry is enough, since its
subject is the two locks and the toggles.
Two clients suffice for every pair of store operations to interleave;
three entries give a shared prefix, a leaf and a sibling; `ARGS_SIZE` is 2 so
that its limit is met. A nonce limit of 3 gives every run of three mutating
operations and the exhaustion itself. In `inode_walk` three walks are enough for
an add below, an add above and a removal of either; `refCount` starts from 0 or 2
for the shared inode and from 0 for the others, and the two inodes that are asked
for share a chain. The ring turns more than twice, a payload
is longer than the ring, and the two blocks have 2 bytes, so that every limit of
a read or a write is met at, before and behind each boundary. In `log_mount`
two mounters give every pair of mounts and unmounts of the two devices, among them
two logs that are both past the test of `mounted`; a ring of
one block turns with the second record, and `MaxEnd` (2) is kept where records
arrive, so that none waits for it.

**Aligned texts.** `NothingLeftOver` and `ImplementsProtectedPaths` are checked
with texts whose tokens begin at the same indices. Without that they fail, since
clients overwrite each other's `argIdxs`: that is the finding of `store_race`.

**Links and locks.** In `inode_walk` only the directory without links is locked
exclusively by others: a walk that meets an inode twice holds its shared lock
twice, and a waiting exclusive user between the two would block both. So the runs
say nothing about that deadlock. Both walks may
be removals, of anything; one that meets an inode it does not find spins in
`rm_inode_ht`, the exception of `WalksEndOrSpin` (`inode_late` is the run for it).
The loop of links has an inode number that `num` holds. In a loop all of whose
numbers are too wide no mark ever stops an add, and the table grows without bound,
which TLC cannot follow: that case is in the hazards only.

**Deadlock** is checked in `log_ring`. In the others the system may come to rest:
a leaked hold, a kept store lock, used-up nonces, a lost superblock or a dead
writer block everyone, or the module is gone. There the liveness properties say
who gets on: `CallsReturn`, `ExitEnds`, `WalksEndOrSpin`,
`MountsReturn` and `WorkEnds`, each with the named exceptions and no other.

**Fairness.** A thread inside the module is scheduled (weak fairness of its
steps), a scheduled work item runs, users of an inode's lock get it and give it back. `store_lock` is a queued
rwlock and `rw_semaphore` has a fair queue: whoever could have them again and
again gets them (strong fairness of `lock_store` and of the walk's steps). In
`Ioctl` the queue is explicit and weak fairness is enough. Queued work is
executed, `sb_lock` is a queued spinlock and `log_file_mutex` hands itself over:
strong fairness of taking them. Nobody is obliged to make a call, to mount or to
open a file.

## Proofs

`IoctlProofs`: for every finite set of threads and every bound on leaks,
`TypeOK`, `ReconfiguredOnlyWhileOn` and `ResourcesAccounted` are invariants of
`Ioctl`. The inductive invariant `IInv` adds `RecOwned` to them: a thread in the
assignment of `rec` is the writer of `rec_sem`, and a semaphore with a writer
has no readers. The argument: the holds are counted
(`ResourcesAccounted`), so a writer, which waits for zero readers, meets no
handler between its test of `rec` and its exit, and nobody else assigns `rec`.
Counting rests on two lemmas about the change of a cardinality when one thread
moves. Assumptions: `NoThread` is not a thread, the threads are finitely many.

`LogRingProofs`: for every ring size that is a multiple of the block size, every
payload and buffer size and any number of readers and writers, `TypeOK`, `WindowIsLastN`, `DamageConfined`,
`ReadsAreConsecutive` and `NoFalseEnd` are invariants of `LogRing`. The inductive invariant
says of every position, also in the middle of a write, what it holds if its block
has not been reclaimed: positions
the write in progress has reached hold its bytes, the others those of the window, except
where a given-up write got. A step of `reclaim` only turns positions into `Gone`. It rests on lemmas about remainders: offsets less
than `N` apart have different positions, and a transfer within one block does
not wrap.

`LoggerProofs`: for any devices with any faults, any mounters and users and
finitely many writers, `TypeOK`, `NoDanglingSuperblock`, `MountedLogIntact`,
`WorkPinsModule` and `OnlyContentLost` are invariants of `Logger`. The inductive
invariant is `FsInv` and `WorkInv`. `FsInv` says that every mounter in
`fill_super` or `kill_sb` has a device of its own whose superblock is as far as
it is (`Working`), so that the `singleton_sb` one of them has cleared
is set again only to another's device (`Cleared`): hence no dangling pointer.
`LogInv` follows the indices of a device's log while `own` is defined: in block 1
before `fill_super` has read it and after `kill_sb` has stored it, in the globals
in between; and `mounted` is true in that time only, so that no write is under
way when the globals change hands. `WorkInv` counts references: `holds` is the
number of works in flight, so rmmod, which waits for 0, meets none; and it says for
every stage of a work what it may still own. Assumptions:
the actors are distinct, the foreign devices are devices, the ring is not empty,
the writers are finitely many.

`PathStoreProofs`: for any clients, calls, entries and texts, `TypeOK`,
`StoreLockExcludes`, `TreeOK` and `NoUseAfterFree` are invariants of `PathStore`
and `LockGivenBack` holds of its steps. The inductive invariant `StoreInv` adds
`Places` (which operation can be at which place of the code, and that a client
outside the lock points at the root) and `Hangs` (`TreeOK` with lists that have
no repetition). The parts need each other: the writer alone touches the tree, so
the others' pointers stay good; and what the writer points at is in use, so the
entry that `path_store_rm` unlinks is in its parent's list, once. None of this
depends on what `argIdxs` holds: the race of `store_race` spoils names, never
the tree. Assumptions: `Nobody` is not a client, the root is not an entry,
`ARGS_SIZE` is positive, calls have texts.

`PathNamesProofs`: `NothingLeftOver` is an invariant of every instance that is
`Undisturbed`: the texts agree on the indices of their tokens, or there is one
client. Without that it is false (`store_race`). The inductive invariant
`NamesInv` says that the indices a client has stored are still those of its text
(`Indexed`); that a search has passed every sibling of another name
(`Searches`), so that add creates no second entry of the same name and an empty
name ends before `create` (`Named`); and that a leaf without mark is in the
hands of the writer (`Leaves`), either made by its add or about to be freed by
its rm.

Under the same assumption the module proves the refinement
`ImplementsProtectedPaths`. Two facts are added to the invariant (`PathsInv`).
`Rooted`: the recursive function `PathOf` satisfies its equation, that is, the
parents of all nodes lead to the root; it is kept because a new entry is put
below an old one and a freed one has no children, and in such a step the other
entries keep their paths. `Ways`: where a client is, is where the first tokens of
its text lead, and none of them is empty or, once it waits for the lock, a dot.
From these: entries have different paths (`PathsDiffer`), all ancestors of a path
are in the tree (`Ancestor`), and where a search ends nothing in the tree goes
further (`NoFurther`). So the two steps that change a mark add or take away
exactly the caller's path; and while nobody writes, the paths of the tree are
the prefixes of the protected ones (`TreePaths`, where `Leaves` is needed: an
entry left over would answer for a path that is not protected), which makes
`Result` the abstract `Status`. The steps are mapped as follows: `rm_unmark`,
`rm_absent` to `Rm`; `add_mark`, `add_empty_token` to `Add`; `check_result`,
`check_inode_hit` to `Check`; the refusals of `process_path` to `Refuse`;
`Call` to `Call`; all others to a stutter.

`InodeCheckProofs`: for every file system, every set of calls and every width of
the fields, `TypeOK` and `LocksMatchStack` of `InodeStore` and `CheckWasRight`
of `InodeCheck` are invariants of `InodeCheck`. `InodeInv` says that shared
locks are counted by the places of an inode in the stack and by the directory,
that these have inodes, that a walk at rest has neither, and that a device
without a table has no nodes. `CheckInv` adds that the chains of the devices
checked have no number twice (`CheckedDistinct`, which is why `CheckedAssumption`
keeps numbers too wide for the table apart: they are entered again and again) and
`OnTheWay`: as long as the inode asked for was there all the time, its node is
behind the one the check stands on. Each step moves a chain by at most one node
(counted, entered in front, taken out), and each of these keeps the order of the
nodes that stay.

The second half of the module proves `CountedInodesKept` (`InodesKeptWithin`),
whatever enters and leaves the cache. Two things are assumed of the constants, and
without either TLC finds a counterexample on small file systems.
`TreeAssumption` of `MCInodeCheck` has it evaluate them for the file system of
`inode_walk`.

* `SameEntries`: dentries of one inode lead to the same dentries. A directory has
  one dentry, a file leads nowhere, and hard links of a symbolic link resolve
  alike. A walk passes by an inode it has counted, so what only a
  later dentry of it leads to would be missed.
* `RefCountsFit(Room)`: `refCount` starts from whatever the memory held and still has
  room for an increment in each of `Room` walks. A node whose count wraps around is
  freed too early. In the code counts are 64 bits wide: if a new node's memory holds
  at most `r`, the theorem is about the first 2^64 - 2 - `r` walks of the module.

The inodes that an rm has robbed are excepted in the property itself, for without
that it is false (`inode_shared`). The inductive invariant `KeptWithin` says, beyond
`InodeInv`:

* `CountsInv`: the nodes of an inode that is not robbed account for all marked paths
  that need it
  (`Needs`). An inode may have several nodes in the chain, since a number too wide
  for `num` is entered under another's number; `rm_inode_ht` uses them up one
  after the other. So the references are counted as "one keeps the node, and the
  rest" (`Accounts`, `Spares`), which a step changes by at most one.
* `RmInv`: while a removal has not been at an inode that its own adds covered
  (`FirstUnseen`), there is one
  reference more than the other paths need. It takes one and stamps the node, and
  a second visit then takes none.
* `AddInv`: there is a set of dentries the add has met (`Progress`), such that what
  the met ones lead to, as far as it has been in the cache all along (`found`), is
  met, still to be visited, or led to by an inode on the stack; their inodes have a
  reference for this path, unless they could not be allocated; and only they carry
  its nonce, which is
  why passing by a stamped inode leaves out nothing. At the end the stack is empty
  and the met ones are closed under `found`, so they hold all that is reachable
  through it, and that is what the add adds to `covers`. A `reclaim` takes its
  dentry out of `found` (`Reclaims`), so what the met ones have to lead to becomes
  less; the start of the walk and the targets of followed links are no longer loose
  and cannot go.
* `MarksInv`: unmarked paths cover nothing, and `found` is in the cache.
* `NodesInRange`: a count has grown by at most one in each walk since the node was
  stamped 0, the stamp of a new node.

`MonitorProofs`: for every finite set of threads, any calls and any store,
`TypeOK`, `ReconfiguredOnlyWhileOn` and `ResourcesAccounted` are invariants of
`Monitor` (`HandlersSafe`) and `ProtectionChangesOnlyWhileOn` holds of its steps.
`Monitor` takes the handlers' steps from `Ioctl` and bounds their leaks alike, so
the lemmas of `IoctlProofs` say that each of them keeps `IInv`, and the store's
steps leave its variables alone; `OnBehalfOfHandler` says that whoever is in the store has a handler that
waits there with a right password; so a step that changes the tree or a mark
finds `rec` ON.

Only model-checked:

* all liveness (`CallsReturn`, `ExitEnds`, `WalksEndOrSpin`, `MountsReturn`,
  `WorkEnds`) and its counterexamples: fairness is beyond the prover;
* the properties that are violated (`findings`).

Every safety invariant and action property that a passing run checks has a theorem.

## Not modelled

`dev_write` up to its call of `log_append` (a listing of a directory for
debugging); `onefilefs_lookup` and `dir.c`, which keep no state of the log; the
reference counts of dentries, mounts and credentials (the code leaks one per
resolved path, and puts one too many when `d_path` fails); a check whose node has
been freed, the dentry at a walk's cursor reclaimed under it (no reference is held
to it, `store_iterate.c:136`), a negative dentry that becomes positive, `store_iterate_rm` started from a symbolic link, and a failed
resolution of a link in a build that does not zero the stack, whose behaviour is
undefined; `cleanup_inode_store`; the failure paths of `klrm_init`; the disabled
system call wrappers; hashing, formatting, printing; the content of foreign
devices' blocks; third-party `scth`; the user programs, except what
`logfilemakefs` leaves in block 1.

## Plan

1. `InodeStore` inside `Monitor`, with `check_inode`'s answer from the table.
