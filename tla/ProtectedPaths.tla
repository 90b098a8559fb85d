--------------------------- MODULE ProtectedPaths ---------------------------
(***************************************************************************)
(* What the path store promises its callers: a set of protected paths on   *)
(* which every add, rm and check takes effect at one instant between its   *)
(* call and its return.  PathStore is shown to implement this module.      *)
(***************************************************************************)
EXTENDS PathText

CONSTANTS Clients, Texts

VARIABLES protected,   \* the token sequences that were added and not removed
          pending,     \* [client -> its call in progress, or Idle]
          result       \* [client -> what its last call returned, "none" before it has]

absVars == <<protected, pending, result>>

Idle == [op |-> "none", text |-> <<>>]
Ops == {"add", "rm", "check"}

(* A parse error is the value 1 whatever the call: for a check that is the *)
(* enumerator FULL_MATCH_LEAF.                                             *)
Failure(op) == IF op = "check" THEN "FULL_MATCH_LEAF" ELSE "fail"

(* The status of a path among the protected ones: how much of it is a      *)
(* prefix of a protected path, and whether the tree goes on below it.      *)
Status(path, P) ==
    LET K == {<<>>} \cup UNION {Prefixes(p) : p \in P}
        n == Max({m \in 0 .. Len(path) : SubSeq(path, 1, m) \in K})
        below == \E x \in K : IsStrictPrefix(SubSeq(path, 1, n), x)
    IN  CASE n = 0 /\ ~below -> "MATCH_ROOT"
          [] n = Len(path) /\ ~below /\ n > 0 -> "FULL_MATCH_LEAF"
          [] n = Len(path) /\ below -> "FULL_MATCH_DIR"
          [] n < Len(path) /\ ~below /\ n > 0 -> "SUB_MATCH_LEAF"
          [] n < Len(path) /\ below -> "SUB_MATCH_DIR"

Init ==
    /\ protected = {}
    /\ pending = [c \in Clients |-> Idle]
    /\ result = [c \in Clients |-> "none"]

Call(c, op, text) ==
    /\ pending[c] = Idle
    /\ pending' = [pending EXCEPT ![c] = [op |-> op, text |-> text]]
    /\ result' = [result EXCEPT ![c] = "none"]
    /\ UNCHANGED protected

Complete(c, r) ==
    /\ pending' = [pending EXCEPT ![c] = Idle]
    /\ result' = [result EXCEPT ![c] = r]

Refuse(c) ==
    /\ pending[c] # Idle
    /\ Complete(c, Failure(pending[c].op))
    /\ Malformed(pending[c].text)
    /\ UNCHANGED protected

Add(c) ==
    LET text == pending[c].text
    IN  /\ pending[c].op = "add"
        /\ \/ /\ Complete(c, "fail")
              /\ HasEmptyToken(text)
              /\ UNCHANGED protected
           \/ /\ Complete(c, "ok")
              /\ ~HasEmptyToken(text)
              /\ protected' = protected \cup {Tokens(text)}
        /\ ~Malformed(text)

Rm(c) ==
    LET path == Tokens(pending[c].text)
    IN  /\ pending[c].op = "rm"
        /\ Complete(c, IF path \in protected THEN "ok" ELSE "fail")
        /\ protected' = protected \ {path}
        /\ ~Malformed(pending[c].text)

(* A check may also be answered from the inode table, which this module    *)
(* does not describe.                                                      *)
Check(c) ==
    /\ pending[c].op = "check"
    /\ \/ Complete(c, "MATCH_INODE")
       \/ /\ Complete(c, Status(Tokens(pending[c].text), protected))
          /\ ~Malformed(pending[c].text)
    /\ UNCHANGED protected

Next ==
    \E c \in Clients :
        \/ pending'[c] # Idle /\ \E op \in Ops, text \in Texts : Call(c, op, text)
        \/ Refuse(c) \/ Add(c) \/ Rm(c) \/ Check(c)

Spec == Init /\ [][Next]_absVars
=============================================================================
