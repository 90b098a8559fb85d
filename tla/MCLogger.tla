------------------------------ MODULE MCLogger ------------------------------
(***************************************************************************)
(* Instances of Logger for TLC: a log device that may fail in every way    *)
(* and one that is another log or holds something else; or two sound log   *)
(* devices.                                                                *)
(***************************************************************************)
EXTENDS Logger

TwoDevices == {"log", "other"}
OtherMayBeForeign == {"other"}
FaultyLog == [log |-> {"super", "inode", "memory", "data"}, other |-> {}]
NoneIsForeign == {}
NoFaults == [d \in TwoDevices |-> {}]
=============================================================================
