---------------------------- MODULE MCInodeCheck ----------------------------
(* The first file system of MCInodeStore, with checks of two of its inodes *)
(* that share a chain.                                                     *)
EXTENDS MCInodeStore, InodeCheck

(* What the theorem about CountedInodesKept assumes holds here. *)
ASSUME TreeAssumption == SameEntries /\ RefCountsFit(ULLONG_MAX)

(* The tables of the file system are well formed. *)
ASSUME TablesAssumption ==
    /\ Subdirs \in [Dentries -> [Caches -> Seq(Dentries)]]
    /\ Reachable \in [Dentries -> [Caches -> SUBSET Keys]]
    /\ PathTo \in [Dentries -> SUBSET Dentries]

OneChain == {<<1, 2>>, <<1, 4>>}
=============================================================================
