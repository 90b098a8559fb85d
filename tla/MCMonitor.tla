----------------------------- MODULE MCMonitor -----------------------------
(***************************************************************************)
(* An instance of Monitor for TLC: the calls of the store that touch one   *)
(* path, that do not resolve, and that process_path refuses.               *)
(***************************************************************************)
EXTENDS Monitor

a_ == <<"/", "a">>

StoreCalls ==
    {[op |-> o, text |-> a_, resolved |-> TRUE] : o \in {"add", "rm", "check"}}
        \cup {[op |-> "add", text |-> a_, resolved |-> FALSE]}

Request(op, arg) == [op |-> op, good |-> TRUE, arg |-> arg]

TwoThreads == {"adder", "remover"}

RequestsOfEach ==
    [adder |-> {Request("ADD_PATH", "path"), Request("MACHINE_REC", "on"),
                Request("MACHINE_REC", "off")},
     remover |-> {Request("RM_PATH", "path"), Request("CHK_PATH", "path"),
                  Request("MACHINE_REC", "off"), Request("MACHINE_SET", "off"),
                  Request("MACHINE_SET", "other"),
                  [op |-> "RM_PATH", good |-> FALSE, arg |-> "path"]}]

NothingElse == {<<>>}
=============================================================================
