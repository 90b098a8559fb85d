---------------------------- MODULE MCPathStore ----------------------------
(* Instances of PathStore for TLC. *)
EXTENDS PathStore

root_ == <<"/">>
a_    == <<"/", "a">>
b_    == <<"/", "b">>
a_b   == <<"/", "a", "/", "b">>
aa_b  == <<"/", "a", "a", "/", "b">>

Do(ops, texts, resolved) ==
    {[op |-> o, text |-> x, resolved |-> resolved] : o \in ops, x \in texts}

(* Existing files, and names of files that do not exist: a well-formed one *)
(* and one of each kind that process_path or add treats differently.  The  *)
(* tokens of all of them begin at the same indices.                        *)
AlignedCalls ==
    Do(Ops, {root_, a_, a_b}, TRUE)
        \cup Do({"add", "rm"}, {b_}, TRUE)
        \cup Do({"add", "rm"}, {a_b}, FALSE)
        \cup Do({"rm"}, {<<"a">>}, FALSE)                     \* not absolute
        \cup Do({"add", "check"}, {<<"/", "/">>}, FALSE)   \* an empty token
        \cup Do({"add"}, {<<"/", "a", "/", ".">>}, FALSE)     \* a dot
        \cup Do({"check"}, {<<"/", "a", "/", "b", "/">>}, FALSE)     \* at ARGS_SIZE

(* Only existing files are added. *)
ExistingCalls == Do(Ops, {a_, a_b}, TRUE) \cup Do({"rm", "check"}, {a_b}, FALSE)

(* Existing files whose second tokens begin at different indices. *)
UnalignedCalls == Do({"add"}, {a_b, aa_b}, TRUE)

JunkAfterText == {Empty, <<"z">>}

Symmetry == Permutations(Clients) \cup Permutations(Entries)
=============================================================================
