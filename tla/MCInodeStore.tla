---------------------------- MODULE MCInodeStore ----------------------------
(***************************************************************************)
(* Instances of InodeStore for TLC.  The file system of the first one:     *)
(*                                                                         *)
(*   r      a directory        device 1, inode 1                           *)
(*   r/s    a link to r        device 1, inode 3   (a loop)                *)
(*   r/b    a directory        device 1, inode 2                           *)
(*   r/b/f  a file             device 1, inode 4   (comes and goes)        *)
(*   r/h    a hard link to it  device 1, inode 4                           *)
(*   r/n    a negative dentry                                              *)
(*   z      a directory        device 2, inode 1                           *)
(*   z/w    a dangling link    device 2, inode 17  (num is too narrow for  *)
(*                             17 and holds 1)                             *)
(***************************************************************************)
EXTENDS InodeStore, TLC

TreeDentries == {"r", "s", "b", "f", "h", "n", "z", "w"}
TreeInode ==
    "r" :> <<1, 1>> @@ "s" :> <<1, 3>> @@ "b" :> <<1, 2>> @@ "f" :> <<1, 4>>
      @@ "h" :> <<1, 4>> @@ "n" :> <<>>
      @@ "z" :> <<2, 1>> @@ "w" :> <<2, 17>>
TreeSubdirs ==
    "r" :> <<"b", "s", "n", "h">> @@ "b" :> <<"f">> @@ "z" :> <<"w">>
      @@ [d \in {"s", "f", "h", "n", "w"} |-> <<>>]
TreeLinks == "s" :> "r" @@ "w" :> "none"
TreeCalls ==
    {<<"add", "r">>, <<"rm", "r">>, <<"add", "b">>, <<"rm", "b">>, <<"add", "z">>}
TreeVolatile == {"f"}
OutsideInodes == {<<2, 1>>}
LateInodes == {<<2, 17>>}
TreeStale == [k \in Keys |-> IF k = <<1, 4>> THEN {0, 2} ELSE {0}]

(* A directory and a file of it that comes and goes. *)
DirDentries == {"z", "w"}
DirInode == "z" :> <<2, 1>> @@ "w" :> <<2, 2>>
DirSubdirs == "z" :> <<"w">> @@ "w" :> <<>>
DirCalls == {<<"add", "z">>, <<"rm", "z">>}
NoLinks == << >>
DirStale == [k \in Keys |-> {0}]
VolatileFile == {"w"}

(* A directory, one below it and a file there that comes and goes. *)
NestDentries == {"r", "b", "f"}
NestInode == "r" :> <<1, 1>> @@ "b" :> <<1, 2>> @@ "f" :> <<1, 4>>
NestSubdirs == "r" :> <<"b">> @@ "b" :> <<"f">> @@ "f" :> <<>>
NestCalls == {"add", "rm"} \X {"r", "b"}
NestFile == {"f"}
=============================================================================
