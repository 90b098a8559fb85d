------------------------------ MODULE PathText ------------------------------
(***************************************************************************)
(* The texts path_store.c works on and what process_path makes of them.    *)
(*                                                                         *)
(* A text is a sequence of characters; a C index i into it is the position *)
(* i + 1 of the sequence.  process_path turns every '/' into '\0' and      *)
(* notes in argIdxs where the tokens begin, so "the string at index i" is  *)
(* the token from i up to the next slash or to the end of the text.        *)
(***************************************************************************)
EXTENDS Sublists, SequencesExt

CONSTANT ARGS_SIZE   \* slots of argIdxs (512)

ASSUME ArgsSizeAssumption == ARGS_SIZE \in Nat \ {0}

Absolute(p) == p # <<>> /\ p[1] = "/"

(* The indices process_path stores, in order: one per slash but the last   *)
(* character of the text.                                                  *)
Slashes(p) == {q \in 1 .. Len(p) - 1 : p[q] = "/"}
Starts(p) == Kept([q \in 1 .. Len(p) |-> q], Slashes(p))

TrailingSlash(p) == p[Len(p)] = "/"

(* The limit is tested at every slash, a trailing one too. *)
Exceeds(p) == Len(Starts(p)) > ARGS_SIZE \/ (Len(Starts(p)) = ARGS_SIZE /\ TrailingSlash(p))

(* The string at index i of the processed text, for i within the buffer. *)
TokenAt(p, i) ==
    LET stop == Min({q \in i + 1 .. Len(p) + 1 : q = Len(p) + 1 \/ p[q] = "/"})
    IN  SubSeq(p, i + 1, stop - 1)

Empty == <<>>
Dots == {<<".">>, <<".", ".">>}

(* What a caller means by a text: the names on the way from the root. *)
Tokens(p) == [k \in 1 .. Len(Starts(p)) |-> TokenAt(p, Starts(p)[k])]

Malformed(p) == ~Absolute(p) \/ Exceeds(p) \/ \E k \in DOMAIN Tokens(p) : Tokens(p)[k] \in Dots

HasEmptyToken(p) == \E k \in DOMAIN Tokens(p) : Tokens(p)[k] = Empty
=============================================================================
