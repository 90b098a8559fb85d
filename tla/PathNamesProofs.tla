--------------------------- MODULE PathNamesProofs ---------------------------
(***************************************************************************)
(* What the path store makes of the names in its callers' texts, where no  *)
(* call overwrites the indices another one works with: the entries stand   *)
(* for the names, and rm takes away all that add has made; each operation  *)
(* takes effect at one instant on the set of the protected paths.          *)
(*                                                                         *)
(*   NamesInv   what the indices, the names and a search have to do with   *)
(*              each other: NamesInvariant, NothingLeftBehind              *)
(*   PathsInv   a client in the tree stands where its first tokens lead:   *)
(*              PathsInvariant                                             *)
(*   StepMapped every step is one of ProtectedPaths or a stutter:          *)
(*              StoreImplements                                            *)
(***************************************************************************)
EXTENDS PathStoreProofs

(* What process_path leaves in argIdxs for a call is not overwritten by    *)
(* another one: the texts agree on the indices of their tokens, or there   *)
(* is only one client.                                                     *)
Undisturbed ==
    \/ \A x, y \in Calls :
           \A k \in (DOMAIN Starts(x.text)) \cap (DOMAIN Starts(y.text)) :
               Starts(x.text)[k] = Starts(y.text)[k]
    \/ \A c, d \in Clients : c = d

(* The token a client has reached. *)
Token(c) == Tokens(text(c))[deepness[c] + 1]

(* The indices a client has stored are still there when it reads them. *)
Indexed ==
    /\ argIdxs[0] \in {0, 1}
    /\ \A c \in Clients :
           /\ pc[c] = "idle" => j[c] = 0
           /\ j[c] <= Len(Starts(text(c)))
           /\ \A k \in 0 .. j[c] - 1 : argIdxs[k] = Starts(text(c))[k + 1]

(* In the tree a client has a whole path before it, and has passed every   *)
(* child that does not have the token's name.                              *)
SearchOf(c) ==
    pc[c] \in {"search", "create"} =>
        /\ Absolute(text(c)) /\ j[c] = Len(Starts(text(c))) /\ deepness[c] <= j[c]
        /\ tmp[c] # <<>> => deepness[c] < j[c] \/ j[c] = 0
        /\ deepness[c] < j[c] =>
               \A e \in allocations : (parent[e] = curr[c] /\ dir_name[e] = Token(c))
                                          => e \in Range(tmp[c])
        /\ pc[c] = "create" => deepness[c] < j[c] /\ tmp[c] = <<>> /\ Token(c) # Empty

Searches == \A c \in Clients : SearchOf(c)

Named ==
    /\ dir_name \in [Nodes -> Seq(STRING)]
    /\ \A e \in allocations : dir_name[e] # Empty
    /\ \A d, e \in allocations : (parent[d] = parent[e] /\ dir_name[d] = dir_name[e]) => d = e

(* A leaf that is not explicit is the one add has made or rm is about to   *)
(* free, or one an add has left behind with the lock.                      *)
InHand(c, e) ==
    pc[c] \in Critical =>
        \/ e = curr[c] /\ (pc[c] = "up" \/ call[c].op = "add")
        \/ /\ pc[c] = "search" /\ call[c].op = "add" /\ deepness[c] < j[c]
           /\ tmp[c] # <<>> /\ e = Head(tmp[c]) /\ dir_name[e] = Token(c)

Leaves ==
    \A e \in allocations :
        children[e] = <<>> => explicited[e] \/ (writer # Nobody /\ InHand(writer, e))

NamesInv == StoreInv /\ Indexed /\ Searches /\ Named /\ Leaves

(* A step of client c. *)
StepOf(c) == Proceed(c) \/ lock_store(c) \/ \E x \in Calls : Call(c, x)

-----------------------------------------------------------------------------
(* The string at an index within the text is a string. *)
LEMMA TokenType ==
    ASSUME NEW p \in Seq(STRING), NEW i \in Nat, i <= Len(p)
    PROVE  TokenAt(p, i) \in Seq(STRING)
<1> DEFINE M == {q \in i + 1 .. Len(p) + 1 : q = Len(p) + 1 \/ p[q] = "/"}
<1>1. Len(p) \in Nat /\ \A q \in 1 .. Len(p) : p[q] \in STRING
  OBVIOUS
<1>2. IsFiniteSet(i + 1 .. Len(p) + 1)
  BY <1>1, FS_Interval
<1>3. IsFiniteSet(M) /\ M \in SUBSET Int /\ Len(p) + 1 \in M
  BY <1>1, <1>2, FS_Subset
<1>4. Min(M) \in M
  BY <1>3, LeastOfSome
<1> DEFINE stop == Min(M)
<1>5. stop \in i + 1 .. Len(p) + 1
  BY <1>4
<1> HIDE DEF stop
<1>6. i + 1 \in Int /\ stop - 1 \in Int /\ \A q \in i + 1 .. stop - 1 : p[q] \in STRING
  BY <1>1, <1>5
<1>7. SubSeq(p, i + 1, stop - 1) \in Seq(STRING)
  BY <1>6, SubSeqProperties
<1> QED
  BY <1>7 DEF TokenAt, stop

(* The indices process_path stores lie within the text; the first is 1.    *)
LEMMA StartsFacts ==
    ASSUME NEW p \in Seq(STRING)
    PROVE  /\ Starts(p) \in Seq(Nat) /\ Len(Starts(p)) \in Nat
           /\ \A k \in 1 .. Len(Starts(p)) : Starts(p)[k] \in Nat /\ Starts(p)[k] <= Len(p)
           /\ Absolute(p) /\ Len(Starts(p)) # 0 => Starts(p)[1] = 1
           /\ Absolute(p) /\ Len(Starts(p)) = 0 => Len(p) = 1
           /\ p = <<>> => Len(Starts(p)) = 0
<1> DEFINE s == [q \in 1 .. Len(p) |-> q]
           I == Slashes(p)
<1>1. Len(p) \in Nat
  OBVIOUS
<1>2. s \in Seq(Nat) /\ DOMAIN s = 1 .. Len(p)
  BY <1>1
<1>3. I \in SUBSET DOMAIN s /\ I \in SUBSET Int
  BY <1>1, <1>2 DEF Slashes
<1>4. /\ Starts(p) \in Seq(Nat) /\ Len(Starts(p)) = Cardinality(I)
      /\ IsFiniteSet(I) /\ Cardinality(I) \in Nat
  BY <1>2, <1>3, KeptType DEF Starts
<1>5. ASSUME NEW k \in 1 .. Cardinality(I)
      PROVE  Nth(I, k) \in I /\ Starts(p)[k] = Nth(I, k) /\ Cardinality(UpTo(I, Nth(I, k))) = k
  <2>1. Nth(I, k) \in I /\ Cardinality(UpTo(I, Nth(I, k))) = k
    BY <1>3, <1>4, NthInSet
  <2>2. Starts(p)[k] = s[Nth(I, k)]
    BY DEF Starts, Kept
  <2> QED
    BY <1>2, <1>3, <2>1, <2>2
<1>6. \A k \in 1 .. Len(Starts(p)) : Starts(p)[k] \in Nat /\ Starts(p)[k] <= Len(p)
  BY <1>1, <1>2, <1>3, <1>4, <1>5
<1>7. Absolute(p) /\ Len(p) # 1 => 1 \in I
  <2> SUFFICES ASSUME Absolute(p), Len(p) # 1 PROVE 1 \in I
    OBVIOUS
  <2>1. Len(p) # 0 /\ p[1] = "/"
    BY EmptySeq DEF Absolute
  <2> DEFINE n == Len(p)
  <2>2. n \in Nat /\ n # 0 /\ n # 1
    BY <1>1, <2>1
  <2> HIDE DEF n
  <2>3. 1 \in 1 .. n - 1
    BY <2>2
  <2> QED
    BY <2>1, <2>3 DEF Slashes, n
<1>8. ASSUME Absolute(p), Len(Starts(p)) # 0 PROVE Starts(p)[1] = 1
  <2>1. 1 \in 1 .. Cardinality(I) /\ Cardinality(I) # 0
    BY <1>4, <1>8
  <2>2. I # {}
    BY <1>4, <2>1, FS_EmptySet
  <2>3. 1 \in I
    <3>1. Len(p) # 1
      <4>1. PICK q \in I : TRUE
        BY <2>2
      <4> DEFINE n == Len(p)
      <4>2. n \in Nat /\ q \in 1 .. n - 1
        BY <1>1, <4>1 DEF Slashes
      <4> HIDE DEF n
      <4>3. n # 1
        BY <4>2
      <4> QED
        BY <4>3 DEF n
    <3> QED
      BY <1>7, <1>8, <3>1
  <2>4. Nth(I, 1) \in I /\ Starts(p)[1] = Nth(I, 1) /\ Cardinality(UpTo(I, Nth(I, 1))) = 1
    BY <1>5, <2>1
  <2> DEFINE n == Nth(I, 1)
  <2>5. n \in Int /\ n >= 1
    BY <1>1, <1>2, <1>3, <2>4
  <2> HIDE DEF n
  <2>6. ~(1 < n)
    <3> SUFFICES ASSUME 1 < n PROVE FALSE
      OBVIOUS
    <3>1. Cardinality(UpTo(I, 1)) < Cardinality(UpTo(I, n))
      BY <1>3, <1>4, <2>3, <2>4, UpToGrows DEF n
    <3>2. IsFiniteSet(UpTo(I, 1)) /\ Cardinality(UpTo(I, 1)) \in Nat
      BY <1>4, UpToFinite
    <3>3. UpTo(I, 1) = {}
      BY <2>4, <3>1, <3>2, FS_EmptySet DEF n
    <3>4. 1 \in UpTo(I, 1)
      BY <2>3 DEF UpTo
    <3> QED
      BY <3>3, <3>4
  <2> QED
    BY <2>4, <2>5, <2>6 DEF n
<1>9. ASSUME Absolute(p), Len(Starts(p)) = 0 PROVE Len(p) = 1
  <2>1. I = {}
    BY <1>4, <1>9, FS_EmptySet
  <2> QED
    BY <1>7, <1>9, <2>1
<1>10. ASSUME p = <<>> PROVE Len(Starts(p)) = 0
  <2>1. I = {}
    BY <1>10 DEF Slashes
  <2> QED
    BY <1>4, <2>1, FS_EmptySet
<1> QED
  BY <1>4, <1>6, <1>8, <1>9, <1>10

(* The text "/" has no token: what is read at its indices is empty. *)
LEMMA RootText ==
    ASSUME NEW p \in Seq(STRING), Absolute(p), Len(p) = 1, NEW i \in {0, 1}
    PROVE  TokenAt(p, i) = Empty
<1> DEFINE M == {q \in i + 1 .. Len(p) + 1 : q = Len(p) + 1 \/ p[q] = "/"}
           stop == Min(M)
<1>1. IsFiniteSet(i + 1 .. Len(p) + 1)
  BY FS_Interval
<1>2. IsFiniteSet(M) /\ M \in SUBSET Int /\ i + 1 \in M
  <2>1. i + 1 \in M
    BY DEF Absolute
  <2> QED
    BY <1>1, <2>1, FS_Subset
<1>3. stop \in M /\ stop <= i + 1
  BY <1>2, LeastOfSome
<1>4. stop = i + 1
  BY <1>3
<1> HIDE DEF stop
<1>5. SubSeq(p, i + 1, stop - 1) \in Seq(STRING) /\ Len(SubSeq(p, i + 1, stop - 1)) = 0
  <2>1. i + 1 \in Int /\ stop - 1 \in Int /\ ~(i + 1 <= stop - 1)
        /\ \A q \in i + 1 .. stop - 1 : p[q] \in STRING
    BY <1>4
  <2> QED
    BY <2>1, SubSeqProperties
<1>6. SubSeq(p, i + 1, stop - 1) = <<>>
  BY <1>5, EmptySeq
<1> QED
  BY <1>6 DEF TokenAt, stop, Empty

-----------------------------------------------------------------------------
(* What a client that has stored its indices reads at the next of them.    *)
LEMMA ReadToken ==
    ASSUME TypeOK, Indexed, NEW c \in Clients, deepness[c] < j[c]
    PROVE  Read(c) = {Token(c)} /\ Token(c) \in Seq(STRING)
<1> DEFINE p == text(c)
           k == deepness[c]
           s == Starts(p)
<1>1. p \in Seq(STRING)
  BY CallType DEF text
<1>2. k \in Nat /\ j[c] \in 0 .. ARGS_SIZE /\ ARGS_SIZE \in Nat
  BY ArgsSizeAssumption DEF TypeOK
<1>3. j[c] <= Len(s) /\ \A l \in 0 .. j[c] - 1 : argIdxs[l] = s[l + 1]
  BY DEF Indexed
<1>4. Len(s) \in Nat /\ \A l \in 1 .. Len(s) : s[l] \in Nat /\ s[l] <= Len(p)
  BY <1>1, StartsFacts
<1> HIDE DEF p, k, s
<1>5. k < j[c]
  BY DEF k
<1>6. k \in 0 .. j[c] - 1 /\ k < ARGS_SIZE
  BY <1>2, <1>5
<1>7. k + 1 \in 1 .. Len(s)
  BY <1>2, <1>3, <1>4, <1>5
<1>8. argIdxs[k] = s[k + 1] /\ s[k + 1] \in Nat /\ s[k + 1] <= Len(p)
  BY <1>3, <1>4, <1>6, <1>7
<1>9. Token(c) = TokenAt(p, s[k + 1])
  BY <1>7 DEF Token, Tokens, p, k, s
<1>10. Read(c) = {TokenAt(p, argIdxs[k])}
  BY <1>6, <1>8 DEF Read, p, k
<1>11. TokenAt(p, s[k + 1]) \in Seq(STRING)
  BY <1>1, <1>8, TokenType
<1> QED
  BY <1>8, <1>9, <1>10, <1>11

(* The text "/" is compared with the children of root, none of which is    *)
(* called by what it reads there.                                          *)
LEMMA ReadRoot ==
    ASSUME TypeOK, Indexed, NEW c \in Clients, Absolute(text(c)), deepness[c] = 0,
           Len(Starts(text(c))) = 0
    PROVE  Read(c) = {Empty}
<1> DEFINE p == text(c)
<1>1. p \in Seq(STRING)
  BY CallType DEF text
<1>2. Absolute(p) /\ Len(p) = 1
  BY <1>1, StartsFacts
<1>3. argIdxs[0] \in {0, 1} /\ argIdxs[0] <= 1 /\ 0 < ARGS_SIZE
  BY ArgsSizeAssumption DEF Indexed
<1>4. TokenAt(p, argIdxs[0]) = Empty
  BY <1>1, <1>2, <1>3, RootText
<1> QED
  BY <1>2, <1>3, <1>4 DEF Read

-----------------------------------------------------------------------------
(* A step of one client leaves the locals of the others alone. *)
LEMMA OthersKept ==
    ASSUME TypeOK, NEW c \in Clients, StepOf(c), NEW d \in Clients, d # c
    PROVE  UNCHANGED <<pc[d], call[d], j[d], deepness[d], curr[d], tmp[d]>>
<1>1. CASE \/ lock_store(c) \/ check_inode_hit(c) \/ check_inode_miss(c)
           \/ process_path_store(c) \/ process_path_refuse(c) \/ process_path_dots(c)
           \/ \E x \in Calls : Call(c, x)
  BY <1>1 DEF TypeOK, localVars, Call, lock_store, check_inode_hit, check_inode_miss,
              process_path_store, process_path_refuse, process_path_dots, Return, Goto
<1>2. CASE \/ search_child(c) \/ add_empty_token(c) \/ add_missing(c) \/ add_create(c)
           \/ add_mark(c) \/ rm_absent(c) \/ rm_unmark(c) \/ rm_free(c) \/ rm_done(c)
           \/ check_result(c)
  BY <1>2 DEF TypeOK, localVars, search_child, add_empty_token, add_missing, add_create,
              add_mark, rm_absent, rm_unmark, rm_free, rm_done, check_result, Return, Goto
<1> QED
  BY <1>1, <1>2 DEF StepOf, Proceed

(* A client that stores an index leaves those of the others as they are. *)
LEMMA IndexedStep ==
    ASSUME Undisturbed, StoreInv, Indexed, [Next]_vars
    PROVE  Indexed'
<1> USE DEF StoreInv
<1>1. ASSUME NEW c \in Clients, process_path_store(c) PROVE Indexed'
  <2> DEFINE p == text(c)
             n == j[c]
             i == Starts(p)[n + 1]
  <2>1. /\ p \in Seq(STRING) /\ n \in Nat /\ n \in 0 .. ARGS_SIZE - 1
        /\ pc[c] = "process" /\ Absolute(p) /\ n < Len(Starts(p))
        /\ argIdxs' = [argIdxs EXCEPT ![n] = i]
        /\ j' = [j EXCEPT ![c] = n + 1] /\ UNCHANGED <<pc, call>>
    <3>1. n \in 0 .. ARGS_SIZE /\ n < ARGS_SIZE /\ ARGS_SIZE \in Nat
      BY <1>1, ArgsSizeAssumption DEF process_path_store, TypeOK
    <3>2. n \in 0 .. ARGS_SIZE - 1 /\ n \in Nat
      BY <3>1
    <3> QED
      BY <1>1, <3>2, CallType DEF process_path_store, text
  <2>2. Len(Starts(p)) \in Nat /\ (n = 0 => i = 1)
    <3>1. Len(Starts(p)) \in Nat
      BY <2>1, StartsFacts
    <3>2. Len(Starts(p)) # 0
      BY <2>1, <3>1
    <3> QED
      BY <2>1, <3>1, <3>2, StartsFacts
  <2>3. ASSUME NEW d \in Clients, d # c, n \in 0 .. j[d] - 1
        PROVE  Starts(text(d))[n + 1] = i
    <3> DEFINE q == text(d)
    <3>1. q \in Seq(STRING) /\ j[d] \in Nat /\ j[d] <= Len(Starts(q))
      <4>1. q \in Seq(STRING)
        BY CallType DEF text
      <4>2. j[d] \in 0 .. ARGS_SIZE
        BY DEF TypeOK
      <4> QED
        BY <4>1, <4>2, ArgsSizeAssumption DEF Indexed
    <3>2. Starts(p) \in Seq(Nat) /\ Starts(q) \in Seq(Nat) /\ Len(Starts(q)) \in Nat
      BY <2>1, <3>1, StartsFacts
    <3>3. n + 1 \in DOMAIN Starts(p) /\ n + 1 \in DOMAIN Starts(q) /\ Len(Starts(q)) # 0
      <4>1. n < j[d]
        BY <2>1, <2>3, <3>1
      <4>2. n + 1 \in 1 .. Len(Starts(p)) /\ n + 1 \in 1 .. Len(Starts(q))
        BY <2>1, <2>2, <3>1, <3>2, <4>1
      <4>3. Len(Starts(q)) # 0
        BY <2>1, <3>1, <3>2, <4>1
      <4> QED
        BY <3>2, <4>2, <4>3
    <3>4. call[d] \in Calls /\ call[c] \in Calls
      <4>1. p # <<>> /\ q # <<>>
        BY <2>1, <3>1, <3>3, StartsFacts DEF Absolute
      <4>2. call[d] # NoCall /\ call[c] # NoCall
        BY <4>1 DEF NoCall, text
      <4> QED
        BY <4>2 DEF TypeOK
    <3> HIDE DEF n
    <3> QED
      BY <2>3, <3>3, <3>4 DEF Undisturbed, text
  <2> HIDE DEF n, i
  <2>4. text(c)' = p /\ \A d \in Clients : text(d)' = text(d)
    BY <2>1 DEF text
  <2>5. argIdxs'[0] \in {0, 1}
    BY <2>1, <2>2 DEF Indexed, TypeOK
  <2>6. ASSUME NEW d \in Clients, NEW k \in 0 .. j'[d] - 1
        PROVE  argIdxs'[k] = Starts(text(d)')[k + 1]
    <3>1. CASE k = n
      <4>1. argIdxs'[k] = i
        BY <2>1, <3>1 DEF TypeOK
      <4>2. CASE d = c
        BY <2>4, <3>1, <4>1, <4>2 DEF i
      <4>3. CASE d # c
        <5>1. n \in 0 .. j[d] - 1
          BY <2>1, <2>6, <3>1, <4>3 DEF TypeOK
        <5> QED
          BY <2>3, <2>4, <3>1, <4>1, <4>3, <5>1
      <4> QED
        BY <4>2, <4>3
    <3>2. CASE k # n
      <4>1. argIdxs'[k] = argIdxs[k]
        BY <2>1, <3>2 DEF TypeOK
      <4>2. k \in 0 .. j[d] - 1
        <5>1. CASE d = c
          <6>1. j'[d] = n + 1 /\ j[d] = n
            BY <2>1, <5>1 DEF TypeOK, n
          <6> QED
            BY <2>1, <2>6, <3>2, <6>1
        <5>2. CASE d # c
          BY <2>1, <2>6, <5>2 DEF TypeOK
        <5> QED
          BY <5>1, <5>2
      <4> QED
        BY <2>4, <4>1, <4>2 DEF Indexed
    <3> QED
      BY <3>1, <3>2
  <2>7. ASSUME NEW d \in Clients
        PROVE  (pc'[d] = "idle" => j'[d] = 0) /\ j'[d] <= Len(Starts(text(d)'))
    <3>1. CASE d = c
      <4>1. j'[d] = n + 1 /\ pc'[d] # "idle"
        BY <2>1, <3>1 DEF TypeOK
      <4> QED
        BY <2>1, <2>2, <2>4, <3>1, <4>1
    <3>2. CASE d # c
      BY <2>1, <2>4, <3>2 DEF Indexed, TypeOK
    <3> QED
      BY <3>1, <3>2
  <2> QED
    BY <2>4, <2>5, <2>6, <2>7 DEF Indexed, text
<1>2. ASSUME UNCHANGED argIdxs,
             \A d \in Clients :
                 \/ j'[d] = 0
                 \/ UNCHANGED <<call[d], j[d]>> /\ (pc'[d] = "idle" => pc[d] = "idle")
      PROVE  Indexed'
  <2>1. argIdxs'[0] \in {0, 1}
    BY <1>2 DEF Indexed
  <2>2. ASSUME NEW d \in Clients
        PROVE  /\ pc'[d] = "idle" => j'[d] = 0
               /\ j'[d] <= Len(Starts(text(d)'))
               /\ \A k \in 0 .. j'[d] - 1 : argIdxs'[k] = Starts(text(d)')[k + 1]
    <3>1. CASE j'[d] = 0
      <4>1. call'[d].text \in Seq(STRING)
        <5>1. TypeOK'
          BY TypeStep
        <5>2. call'[d] \in Calls \/ call'[d] = NoCall
          BY <5>1 DEF TypeOK
        <5>3. NoCall.text \in Seq(STRING)
          BY DEF NoCall
        <5> QED
          BY <5>2, <5>3, CallsAssumption
      <4>2. Len(Starts(text(d)')) \in Nat
        BY <4>1, StartsFacts DEF text
      <4>3. 0 .. j'[d] - 1 = {}
        BY <3>1
      <4> QED
        BY <3>1, <4>2, <4>3
    <3>2. CASE UNCHANGED <<call[d], j[d]>> /\ (pc'[d] = "idle" => pc[d] = "idle")
      <4>1. text(d)' = text(d)
        BY <3>2 DEF text
      <4> QED
        BY <1>2, <3>2, <4>1 DEF Indexed
    <3> QED
      BY <1>2, <3>1, <3>2
  <2> QED
    BY <2>1, <2>2 DEF Indexed, text
<1>3. ASSUME NEW c \in Clients, StepOf(c), ~process_path_store(c) PROVE Indexed'
  <2>1. UNCHANGED argIdxs
    BY <1>3 DEF StepOf, Proceed, Call, lock_store, check_inode_hit, check_inode_miss,
                process_path_refuse, process_path_dots, search_child, add_empty_token,
                add_missing, add_create, add_mark, rm_absent, rm_unmark, rm_free, rm_done,
                check_result
  <2>2. \/ j'[c] = 0
        \/ UNCHANGED <<call[c], j[c]>> /\ (pc'[c] = "idle" => pc[c] = "idle")
    <3>1. CASE \E x \in Calls : Call(c, x)
      BY <3>1 DEF Call, Goto, Indexed, TypeOK
    <3>2. CASE lock_store(c) \/ Proceed(c)
      BY <1>3, <3>2
      DEF TypeOK, PCs, Proceed, lock_store, localVars, check_inode_hit, check_inode_miss,
          process_path_refuse, process_path_dots, search_child, add_empty_token, add_missing,
          add_create, add_mark, rm_absent, rm_unmark, rm_free, rm_done, check_result, Return,
          Goto
    <3> QED
      BY <1>3, <3>1, <3>2 DEF StepOf
  <2> QED
    BY <1>2, <1>3, <2>1, <2>2, OthersKept
<1>4. CASE refresh_nonces \/ UNCHANGED vars
  BY <1>2, <1>4 DEF refresh_nonces, vars, localVars
<1> QED
  BY <1>1, <1>3, <1>4 DEF Next, StepOf

-----------------------------------------------------------------------------
(* add_create makes an entry for the token that none of the children has.  *)
LEMMA CreateNamed ==
    ASSUME StoreInv, Indexed, Searches, NEW c \in Clients, add_create(c)
    PROVE  \E e \in Entries \ allocations :
               /\ curr[c] \in Tree /\ e # curr[c] /\ e # Root
               /\ allocations' = allocations \cup {e}
               /\ dir_name' = [dir_name EXCEPT ![e] = Token(c)]
               /\ parent' = [parent EXCEPT ![e] = curr[c]]
               /\ children' = [n \in Nodes |-> IF n = e THEN <<>>
                                               ELSE IF n = curr[c]
                                                    THEN <<e>> \o children[curr[c]]
                                                    ELSE children[n]]
               /\ explicited' = [explicited EXCEPT ![e] = FALSE]
               /\ tmp' = [tmp EXCEPT ![c] = <<e>> \o children[curr[c]]]
               /\ Token(c) \in Seq(STRING) /\ Token(c) # Empty /\ deepness[c] < j[c]
               /\ \A d \in allocations : parent[d] = curr[c] => dir_name[d] # Token(c)
<1>1. pc[c] = "create" /\ pc[c] \in Critical
  BY DEF add_create, Critical
<1>2. /\ deepness[c] < j[c] /\ tmp[c] = <<>> /\ Token(c) # Empty
      /\ \A d \in allocations : (parent[d] = curr[c] /\ dir_name[d] = Token(c))
                                    => d \in Range(tmp[c])
  BY <1>1 DEF Searches, SearchOf
<1>3. Range(<<>>) = {}
  BY DEF Range
<1>4. Read(c) = {Token(c)} /\ Token(c) \in Seq(STRING)
  BY <1>2, ReadToken DEF StoreInv
<1>5. PICK e \in Entries \ allocations, token \in Read(c) :
          /\ curr[c] \in Tree /\ e # curr[c] /\ e # Root
          /\ allocations' = allocations \cup {e}
          /\ dir_name' = [dir_name EXCEPT ![e] = token]
          /\ parent' = [parent EXCEPT ![e] = curr[c]]
          /\ children' = [n \in Nodes |-> IF n = e THEN <<>>
                                          ELSE IF n = curr[c]
                                               THEN <<e>> \o children[curr[c]]
                                               ELSE children[n]]
          /\ explicited' = [explicited EXCEPT ![e] = FALSE]
          /\ tmp' = [tmp EXCEPT ![c] = <<e>> \o children[curr[c]]]
  BY AddCreate
<1> QED
  BY <1>2, <1>3, <1>4, <1>5

(* The names change where the tree changes its shape, and nowhere else. *)
LEMMA NamesShape ==
    ASSUME [Next]_vars,
           \A c \in Clients : ~add_create(c) /\ ~rm_free(c)
    PROVE  UNCHANGED <<allocations, parent, children, dir_name>>
BY DEF Next, Proceed, vars, treeVars, Call, lock_store, check_inode_hit, check_inode_miss,
       process_path_store, process_path_refuse, process_path_dots, search_child,
       add_empty_token, add_missing, add_mark, rm_absent, rm_unmark, rm_done, check_result,
       refresh_nonces

(* An entry keeps its name and the place in the tree that name is of. *)
LEMMA NamedStep ==
    ASSUME StoreInv, Indexed, Searches, Named, [Next]_vars
    PROVE  Named'
<1>1. ASSUME NEW c \in Clients, add_create(c) PROVE Named'
  <2>1. PICK e \in Entries \ allocations :
            /\ allocations' = allocations \cup {e}
            /\ dir_name' = [dir_name EXCEPT ![e] = Token(c)]
            /\ parent' = [parent EXCEPT ![e] = curr[c]]
            /\ Token(c) \in Seq(STRING) /\ Token(c) # Empty
            /\ \A d \in allocations : parent[d] = curr[c] => dir_name[d] # Token(c)
    BY <1>1, CreateNamed
  <2>2. e \in Nodes /\ \A d \in allocations : d \in Nodes /\ d # e
    BY <2>1 DEF StoreInv, TypeOK, Nodes
  <2> DEFINE t == Token(c)
  <2>3. dir_name'[e] = t /\ parent'[e] = curr[c]
    BY <2>1, <2>2 DEF Named, StoreInv, TypeOK
  <2>4. \A d \in allocations : dir_name'[d] = dir_name[d] /\ parent'[d] = parent[d]
    BY <2>1, <2>2 DEF Named, StoreInv, TypeOK
  <2>5. dir_name' \in [Nodes -> Seq(STRING)]
    BY <2>1 DEF Named
  <2> QED
    BY <2>1, <2>3, <2>4, <2>5 DEF Named
<1>2. ASSUME NEW c \in Clients, rm_free(c) PROVE Named'
  <2>1. PICK e \in allocations :
            /\ allocations' = allocations \ {e}
            /\ parent' = [parent EXCEPT ![e] = Root]
            /\ dir_name' = [dir_name EXCEPT ![e] = Empty]
    BY <1>2, RmFree
  <2>2. \A d \in allocations' : /\ d \in allocations
                                /\ dir_name'[d] = dir_name[d] /\ parent'[d] = parent[d]
    BY <2>1 DEF Named, StoreInv, TypeOK, Nodes
  <2>3. dir_name' \in [Nodes -> Seq(STRING)]
    <3>1. Empty \in Seq(STRING)
      BY DEF Empty
    <3> QED
      BY <2>1, <3>1 DEF Named
  <2>4. \A d \in allocations' : dir_name'[d] # Empty
    BY <2>2 DEF Named
  <2>5. \A d, b \in allocations' :
            (parent'[d] = parent'[b] /\ dir_name'[d] = dir_name'[b]) => d = b
    BY <2>2 DEF Named
  <2> QED
    BY <2>3, <2>4, <2>5 DEF Named, Empty
<1>3. CASE UNCHANGED <<allocations, parent, dir_name>>
  BY <1>3 DEF Named
<1> QED
  BY <1>1, <1>2, <1>3, NamesShape

-----------------------------------------------------------------------------
(* The steps that neither make nor free an entry. *)
LEMMA TreeKeptBy ==
    ASSUME NEW c \in Clients, StepOf(c), ~add_create(c), ~rm_free(c)
    PROVE  UNCHANGED <<allocations, parent, children, children_num, dir_name>>
BY DEF StepOf, Proceed, treeVars, Call, lock_store, check_inode_hit, check_inode_miss,
       process_path_store, process_path_refuse, process_path_dots, search_child,
       add_empty_token, add_missing, add_mark, rm_absent, rm_unmark, rm_done, check_result

(* Those that leave a client in the search, and those of a client that is  *)
(* not in the tree.                                                        *)
LEMMA StepPlaces ==
    ASSUME TypeOK, NEW c \in Clients, StepOf(c)
    PROVE  /\ pc'[c] \in {"search", "create"} =>
                  lock_store(c) \/ search_child(c) \/ add_missing(c) \/ add_create(c)
           /\ pc[c] \notin Critical =>
                  \/ lock_store(c)
                  \/ /\ pc'[c] \notin Critical
                     /\ UNCHANGED <<treeVars, writer, readers>>
<1>1. CASE \/ check_inode_hit(c) \/ check_inode_miss(c)
           \/ process_path_store(c) \/ process_path_refuse(c) \/ process_path_dots(c)
           \/ \E x \in Calls : Call(c, x)
  BY <1>1 DEF TypeOK, localVars, lockVars, Call, check_inode_hit, check_inode_miss, Stored,
              process_path_store, process_path_refuse, process_path_dots, Return, Goto,
              Critical
<1>2. CASE \/ search_child(c) \/ add_empty_token(c) \/ add_missing(c) \/ add_create(c)
           \/ add_mark(c) \/ rm_absent(c) \/ rm_unmark(c) \/ rm_free(c) \/ rm_done(c)
           \/ check_result(c)
  BY <1>2 DEF TypeOK, search_child, add_empty_token, add_missing, add_create, Searched,
              add_mark, rm_absent, rm_unmark, rm_free, rm_done, check_result, Return, Goto,
              Critical
<1> QED
  BY <1>1, <1>2 DEF StepOf, Proceed

(* What client c reads while it compares a child. *)
LEMMA ReadSearching ==
    ASSUME StoreInv, Indexed, Searches, Named, NEW c \in Clients,
           pc[c] = "search", tmp[c] # <<>>
    PROVE  /\ Head(tmp[c]) \in allocations /\ parent[Head(tmp[c])] = curr[c]
           /\ \/ deepness[c] < j[c] /\ Read(c) = {Token(c)}
              \/ /\ deepness[c] = 0 /\ j[c] = 0
                 /\ \A token \in Read(c) : dir_name[Head(tmp[c])] # token
<1>1. /\ Absolute(text(c)) /\ j[c] = Len(Starts(text(c))) /\ deepness[c] <= j[c]
      /\ deepness[c] < j[c] \/ j[c] = 0
  BY DEF Searches, SearchOf
<1>2. Head(tmp[c]) \in allocations /\ parent[Head(tmp[c])] = curr[c]
  <2>1. tmp[c] \in Seq(Entries)
    BY DEF StoreInv, TypeOK
  <2>2. Head(tmp[c]) \in Range(tmp[c])
    BY <2>1, HeadTail
  <2> QED
    BY <2>2 DEF StoreInv, NoUseAfterFree, Critical
<1>3. CASE deepness[c] < j[c]
  BY <1>2, <1>3, ReadToken DEF StoreInv
<1>4. CASE ~(deepness[c] < j[c])
  <2>1. deepness[c] = 0 /\ j[c] = 0
    <3>1. deepness[c] \in Nat
      BY DEF StoreInv, TypeOK
    <3> QED
      BY <1>1, <1>4, <3>1
  <2>2. Read(c) = {Empty}
    BY <1>1, <2>1, ReadRoot DEF StoreInv
  <2> QED
    BY <1>2, <2>1, <2>2 DEF Named
<1> QED
  BY <1>3, <1>4

(* A search goes on where its text says, each token below the entry of the *)
(* one before.                                                             *)
LEMMA SearchesStep ==
    ASSUME StoreInv, Indexed, Searches, Named, [Next]_vars
    PROVE  Searches'
<1>1. ASSUME NEW c \in Clients, StepOf(c), NEW d \in Clients, d # c PROVE SearchOf(d)'
  <2>1. UNCHANGED <<pc[d], call[d], j[d], deepness[d], curr[d], tmp[d]>>
    BY <1>1, OthersKept DEF StoreInv
  <2>2. Token(d)' = Token(d) /\ text(d)' = text(d)
    BY <2>1 DEF Token, text
  <2>3. CASE add_create(c) \/ rm_free(c)
    <3>1. pc[c] \in Critical /\ call[c].op # "check"
      BY <2>3 DEF add_create, rm_free, Critical, StoreInv, Places
    <3>2. pc[d] \notin Critical
      BY <1>1, <3>1, WriterAlone
    <3> QED
      BY <2>1, <3>2 DEF SearchOf, Critical
  <2>4. CASE ~add_create(c) /\ ~rm_free(c)
    <3>1. UNCHANGED <<allocations, parent, dir_name>>
      BY <1>1, <2>4, TreeKeptBy
    <3> QED
      BY <2>1, <2>2, <3>1 DEF Searches, SearchOf
  <2> QED
    BY <2>3, <2>4
<1>2. ASSUME NEW c \in Clients, StepOf(c) PROVE SearchOf(c)'
  <2>1. CASE pc'[c] \notin {"search", "create"}
    BY <2>1 DEF SearchOf
  <2>2. CASE lock_store(c)
    <3>1. /\ pc'[c] = "search" /\ deepness'[c] = 0 /\ tmp'[c] = children[Root]
          /\ UNCHANGED <<call, j, curr, allocations, parent, dir_name>>
      BY <2>2 DEF lock_store, Goto, treeVars, StoreInv, TypeOK
    <3>2. /\ Absolute(text(c)) /\ j[c] = Len(Starts(text(c)))
          /\ j[c] \in 0 .. ARGS_SIZE /\ curr[c] = Root
      BY <2>2 DEF lock_store, AtLock, Stored, StoreInv, TypeOK, Places, Critical
    <3>3. text(c)' = text(c) /\ (0 < j[c] \/ j[c] = 0) /\ 0 <= j[c]
      BY <3>1, <3>2, ArgsSizeAssumption DEF text
    <3>4. \A e \in allocations : parent[e] = Root => e \in Range(children[Root])
      BY DEF StoreInv, Hangs, Tree
    <3> QED
      BY <3>1, <3>2, <3>3, <3>4 DEF SearchOf
  <2>3. CASE search_child(c)
    <3> DEFINE h == Head(tmp[c])
    <3>1. /\ pc[c] = "search" /\ tmp[c] # <<>> /\ pc'[c] = "search"
          /\ UNCHANGED <<call, j, allocations, parent, dir_name, children>>
      BY <2>3 DEF search_child, treeVars
    <3>2. tmp[c] \in Seq(Entries) /\ deepness[c] \in Nat /\ j[c] \in Nat
      BY ArgsSizeAssumption DEF StoreInv, TypeOK
    <3>3. /\ h \in allocations /\ parent[h] = curr[c]
          /\ \/ deepness[c] < j[c] /\ Read(c) = {Token(c)}
             \/ deepness[c] = 0 /\ j[c] = 0 /\ \A token \in Read(c) : dir_name[h] # token
      BY <3>1, ReadSearching
    <3>4. /\ Absolute(text(c)) /\ j[c] = Len(Starts(text(c))) /\ deepness[c] <= j[c]
          /\ deepness[c] < j[c] =>
                 \A e \in allocations : (parent[e] = curr[c] /\ dir_name[e] = Token(c))
                                            => e \in Range(tmp[c])
      BY <3>1 DEF Searches, SearchOf
    <3>5. text(c)' = text(c)
      BY <3>1 DEF text
    <3>6. PICK token \in Read(c) :
              \/ /\ dir_name[h] = token
                 /\ curr' = [curr EXCEPT ![c] = h]
                 /\ deepness' = [deepness EXCEPT ![c] = @ + 1]
                 /\ tmp' = [tmp EXCEPT ![c] = IF deepness[c] + 1 = j[c] THEN <<>>
                                              ELSE children[h]]
              \/ /\ dir_name[h] # token
                 /\ tmp' = [tmp EXCEPT ![c] = Tail(@)]
                 /\ UNCHANGED <<curr, deepness>>
      BY <2>3 DEF search_child
    <3>7. CASE dir_name[h] = token
      <4>1. deepness[c] < j[c]
        BY <3>3, <3>7
      <4>2. /\ curr'[c] = h /\ deepness'[c] = deepness[c] + 1
            /\ tmp'[c] = IF deepness[c] + 1 = j[c] THEN <<>> ELSE children[h]
        BY <3>6, <3>7 DEF StoreInv, TypeOK
      <4>3. deepness'[c] <= j[c] /\ (deepness'[c] = j[c] \/ deepness'[c] < j[c])
        BY <3>2, <4>1, <4>2
      <4>4. \A e \in allocations : parent[e] = h => e \in Range(children[h])
        BY <3>3 DEF StoreInv, Hangs, Tree
      <4>5. CASE deepness'[c] = j[c]
        <5>1. tmp'[c] = <<>> /\ ~(deepness'[c] < j[c])
          BY <3>2, <4>2, <4>5
        <5> QED
          BY <3>1, <3>4, <3>5, <4>3, <5>1 DEF SearchOf
      <4>6. CASE deepness'[c] < j[c]
        <5>1. tmp'[c] = children[h]
          BY <3>2, <4>2, <4>6
        <5> QED
          BY <3>1, <3>4, <3>5, <4>2, <4>3, <4>4, <4>6, <5>1 DEF SearchOf
      <4> QED
        BY <4>3, <4>5, <4>6
    <3>8. CASE dir_name[h] # token
      <4>1. tmp'[c] = Tail(tmp[c]) /\ UNCHANGED <<curr, deepness>>
        BY <3>6, <3>8 DEF StoreInv, TypeOK
      <4>2. Token(c)' = Token(c)
        BY <3>5, <4>1 DEF Token
      <4>3. Range(tmp[c]) = Range(Tail(tmp[c])) \cup {h}
        BY <3>1, <3>2, HeadTail
      <4>4. deepness[c] < j[c] => token = Token(c)
        BY <3>2, <3>3
      <4>5. deepness[c] < j[c] \/ j[c] = 0
        BY <3>3
      <4>6. deepness[c] < j[c] =>
                \A e \in allocations : (parent[e] = curr[c] /\ dir_name[e] = Token(c))
                                           => e \in Range(Tail(tmp[c]))
        BY <3>4, <3>8, <4>3, <4>4
      <4> QED
        BY <3>1, <3>4, <3>5, <4>1, <4>2, <4>5, <4>6 DEF SearchOf
    <3> QED
      BY <3>7, <3>8
  <2>4. CASE add_missing(c)
    <3>1. /\ pc[c] = "search" /\ tmp[c] = <<>> /\ deepness[c] # j[c] /\ Read(c) # {Empty}
          /\ pc'[c] = "create"
          /\ UNCHANGED <<call, j, deepness, curr, tmp, allocations, parent, dir_name>>
      BY <2>4 DEF add_missing, Searched, Goto, treeVars, localVars, StoreInv, TypeOK
    <3>2. SearchOf(c)
      BY DEF Searches
    <3>3. deepness[c] < j[c]
      <4>1. deepness[c] <= j[c] /\ deepness[c] \in Nat /\ j[c] \in Nat
        BY <3>1, <3>2, ArgsSizeAssumption DEF SearchOf, StoreInv, TypeOK
      <4> QED
        BY <3>1, <4>1
    <3>4. Token(c) # Empty
      BY <3>1, <3>3, ReadToken DEF StoreInv
    <3>5. Token(c)' = Token(c) /\ text(c)' = text(c)
      BY <3>1 DEF Token, text
    <3> QED
      BY <3>1, <3>2, <3>3, <3>4, <3>5 DEF SearchOf
  <2>5. CASE add_create(c)
    <3>1. PICK e \in Entries \ allocations :
              /\ curr[c] \in Tree
              /\ allocations' = allocations \cup {e}
              /\ parent' = [parent EXCEPT ![e] = curr[c]]
              /\ tmp' = [tmp EXCEPT ![c] = <<e>> \o children[curr[c]]]
              /\ deepness[c] < j[c]
      BY <2>5, CreateNamed
    <3>2. /\ pc[c] = "create" /\ pc'[c] = "search" /\ UNCHANGED <<call, j, deepness, curr>>
      BY <2>5 DEF add_create, Goto, StoreInv, TypeOK
    <3>3. text(c)' = text(c)
      BY <3>2 DEF text
    <3>4. /\ Absolute(text(c)) /\ j[c] = Len(Starts(text(c))) /\ deepness[c] <= j[c]
      BY <3>2 DEF Searches, SearchOf
    <3>5. /\ children[curr[c]] \in Seq(Entries) /\ IsInjective(children[curr[c]])
          /\ Range(children[curr[c]]) = {d \in allocations : parent[d] = curr[c]}
      BY <3>1 DEF StoreInv, Hangs, TypeOK, Tree, Nodes
    <3>6. Range(<<e>> \o children[curr[c]]) = Range(children[curr[c]]) \cup {e}
      BY <3>1, <3>5, PrependSet
    <3>7. \A d \in allocations : parent'[d] = parent[d]
      BY <3>1 DEF StoreInv, TypeOK, Nodes
    <3>8. tmp'[c] = <<e>> \o children[curr[c]]
      BY <3>1 DEF StoreInv, TypeOK
    <3>9. \A d \in allocations' : parent'[d] = curr'[c] => d \in Range(tmp'[c])
      BY <3>1, <3>2, <3>5, <3>6, <3>7, <3>8
    <3> QED
      BY <3>1, <3>2, <3>3, <3>4, <3>9 DEF SearchOf
  <2> QED
    BY <1>2, <2>1, <2>2, <2>3, <2>4, <2>5, StepPlaces DEF StoreInv
<1>3. CASE refresh_nonces \/ UNCHANGED vars
  BY <1>3 DEF refresh_nonces, vars, treeVars, localVars, Searches, SearchOf, Token, text
<1> QED
  BY <1>1, <1>2, <1>3 DEF Next, StepOf, Searches

-----------------------------------------------------------------------------
(* Only the writer changes the tree or a mark. *)
LEMMA MarksOfWriter ==
    ASSUME StoreInv, NEW c \in Clients, StepOf(c), writer # c
    PROVE  UNCHANGED <<allocations, children, explicited>>
<1>1. ~(add_create(c) \/ rm_free(c) \/ add_mark(c) \/ rm_unmark(c))
  <2> SUFFICES ASSUME add_create(c) \/ rm_free(c) \/ add_mark(c) \/ rm_unmark(c)
               PROVE  FALSE
    OBVIOUS
  <2>1. pc[c] \in Critical /\ call[c].op # "check"
    BY DEF add_create, rm_free, add_mark, rm_unmark, Searched, Critical, StoreInv, Places
  <2> QED
    BY <2>1, WriterAlone
<1> QED
  BY <1>1 DEF StepOf, Proceed, treeVars, Call, lock_store, check_inode_hit,
              check_inode_miss, process_path_store, process_path_refuse, process_path_dots,
              search_child, add_empty_token, add_missing, rm_absent, rm_done, check_result

(* What a step of the writer in the tree makes of the leaves. *)
LEMMA LeavesOfWriter ==
    ASSUME NamesInv, NEW c \in Clients, StepOf(c), writer = c, pc[c] \in Critical
    PROVE  Leaves'
<1> USE DEF NamesInv, StoreInv
<1>1. call[c].op # "check" /\ writer # Nobody
  BY NobodyAssumption DEF StoreLockExcludes
<1>2. \A e \in allocations : children[e] = <<>> => explicited[e] \/ InHand(c, e)
  BY DEF Leaves
<1>3. CASE search_child(c)
  <2> DEFINE h == Head(tmp[c])
  <2>1. /\ pc[c] = "search" /\ tmp[c] # <<>>
        /\ UNCHANGED <<pc, call, allocations, children, explicited, writer>>
    BY <1>3 DEF search_child, treeVars, lockVars
  <2>2. /\ h \in allocations /\ parent[h] = curr[c]
        /\ deepness[c] < j[c] => Read(c) = {Token(c)}
    <3>1. \/ deepness[c] < j[c] /\ Read(c) = {Token(c)}
          \/ deepness[c] = 0 /\ j[c] = 0
      BY <2>1, ReadSearching
    <3>2. ~(0 < 0)
      OBVIOUS
    <3> QED
      BY <2>1, <3>1, <3>2, ReadSearching
  <2>3. children[curr[c]] # <<>>
    <3>1. Range(children[curr[c]]) = {e \in allocations : parent[e] = curr[c]}
      BY <2>1 DEF Hangs, NoUseAfterFree, Critical
    <3>2. Range(<<>>) = {}
      BY DEF Range
    <3> QED
      BY <2>2, <3>1, <3>2
  <2>4. ASSUME NEW e \in allocations, children[e] = <<>>, ~explicited[e]
        PROVE  InHand(c, e)'
    <3>1. /\ call[c].op = "add" /\ deepness[c] < j[c] /\ e = h /\ dir_name[e] = Token(c)
      BY <1>2, <2>1, <2>3, <2>4 DEF InHand, Critical
    <3>2. curr' = [curr EXCEPT ![c] = h]
      BY <1>3, <2>2, <3>1 DEF search_child
    <3>3. curr'[c] = e
      BY <3>1, <3>2 DEF TypeOK
    <3> QED
      BY <2>1, <3>1, <3>3 DEF InHand
  <2> QED
    BY <1>1, <2>1, <2>4 DEF Leaves
<1>4. CASE add_empty_token(c)
  <2>1. /\ pc'[c] = "idle" /\ UNCHANGED <<allocations, children, explicited, writer>>
    BY <1>4 DEF add_empty_token, Return, Goto, treeVars, lockVars, TypeOK
  <2> QED
    BY <1>1, <2>1 DEF Leaves, InHand, Critical
<1>5. CASE add_missing(c)
  <2>1. /\ pc[c] = "search" /\ tmp[c] = <<>> /\ pc'[c] = "create" /\ call[c].op = "add"
        /\ UNCHANGED <<call, curr, allocations, children, explicited, writer>>
    BY <1>5 DEF add_missing, Searched, Goto, treeVars, lockVars, localVars, TypeOK
  <2> QED
    BY <1>1, <1>2, <2>1 DEF Leaves, InHand, Critical
<1>6. CASE add_create(c)
  <2>1. PICK e \in Entries \ allocations :
            /\ curr[c] \in Tree /\ e # curr[c] /\ e # Root
            /\ allocations' = allocations \cup {e}
            /\ dir_name' = [dir_name EXCEPT ![e] = Token(c)]
            /\ children' = [n \in Nodes |-> IF n = e THEN <<>>
                                            ELSE IF n = curr[c]
                                                 THEN <<e>> \o children[curr[c]]
                                                 ELSE children[n]]
            /\ explicited' = [explicited EXCEPT ![e] = FALSE]
            /\ tmp' = [tmp EXCEPT ![c] = <<e>> \o children[curr[c]]]
            /\ deepness[c] < j[c]
    BY <1>6, CreateNamed DEF NamesInv, StoreInv
  <2>2. /\ pc[c] = "create" /\ pc'[c] = "search"
        /\ UNCHANGED <<call, j, deepness, curr, writer>>
    BY <1>6 DEF add_create, Goto, lockVars, TypeOK
  <2>3. call[c].op = "add" /\ Token(c)' = Token(c)
    BY <2>2 DEF Places, Token, text
  <2>4. e \in Nodes /\ curr[c] \in Nodes /\ children[curr[c]] \in Seq(Entries) /\ e \in Entries
    BY <2>1 DEF Nodes, TypeOK, Tree
  <2>5. /\ <<e>> \o children[curr[c]] # <<>> /\ Head(<<e>> \o children[curr[c]]) = e
    <3> DEFINE s == <<e>> \o children[curr[c]]
    <3>1. s \in Seq(Entries) /\ Len(s) = Len(children[curr[c]]) + 1 /\ s[1] = e
      BY <2>4, Prepend
    <3>2. Len(children[curr[c]]) \in Nat
      BY <2>4
    <3> HIDE DEF s
    <3>3. s # <<>>
      BY <3>1, <3>2
    <3>4. Head(s) = s[1]
      BY <3>1, <3>3
    <3> QED
      BY <3>1, <3>3, <3>4 DEF s
  <2>6. InHand(c, e)'
    <3>1. tmp'[c] = <<e>> \o children[curr[c]]
      BY <2>1 DEF TypeOK
    <3>2. dir_name'[e] = Token(c)
      BY <2>1, <2>4 DEF Named
    <3> QED
      BY <2>1, <2>2, <2>3, <2>5, <3>1, <3>2 DEF InHand
  <2>7. ASSUME NEW d \in allocations, children'[d] = <<>> PROVE explicited'[d]
    <3>1. d \in Nodes /\ d # e
      BY <2>1 DEF TypeOK, Nodes
    <3>2. d # curr[c] /\ children[d] = <<>>
      BY <2>1, <2>5, <2>7, <3>1
    <3>3. ~InHand(c, d)
      BY <2>2, <3>2 DEF InHand, Critical
    <3>4. explicited[d]
      BY <1>2, <3>2, <3>3
    <3> QED
      BY <2>1, <3>1, <3>4 DEF TypeOK
  <2> QED
    BY <1>1, <2>1, <2>2, <2>6, <2>7 DEF Leaves
<1>7. CASE add_mark(c)
  <2>1. /\ pc[c] = "search" /\ tmp[c] = <<>>
        /\ explicited' = [explicited EXCEPT ![curr[c]] = TRUE]
        /\ UNCHANGED <<allocations, children>>
    BY <1>7 DEF add_mark, Searched
  <2>2. ASSUME NEW e \in allocations, children[e] = <<>> PROVE explicited'[e]
    <3>1. explicited[e] \/ e = curr[c]
      BY <1>2, <2>1, <2>2 DEF InHand, Critical
    <3>2. e \in Nodes
      BY DEF TypeOK, Nodes
    <3> QED
      BY <2>1, <3>1, <3>2 DEF TypeOK
  <2> QED
    BY <2>1, <2>2 DEF Leaves
<1>8. CASE rm_absent(c)
  <2>1. /\ pc[c] = "search" /\ call[c].op = "rm"
        /\ UNCHANGED <<allocations, children, explicited>>
    BY <1>8 DEF rm_absent, Searched, treeVars
  <2> QED
    BY <1>2, <2>1 DEF Leaves, InHand, Critical
<1>9. CASE rm_unmark(c)
  <2>1. /\ pc[c] = "search" /\ call[c].op = "rm" /\ pc'[c] = "up"
        /\ explicited' = [explicited EXCEPT ![curr[c]] = FALSE]
        /\ UNCHANGED <<allocations, children, curr, writer>>
    BY <1>9 DEF rm_unmark, Searched, Goto, lockVars, localVars, TypeOK
  <2>2. ASSUME NEW e \in allocations, children[e] = <<>>, e # curr[c] PROVE explicited'[e]
    <3>1. explicited[e]
      BY <1>2, <2>1, <2>2 DEF InHand, Critical
    <3> QED
      BY <2>1, <2>2, <3>1 DEF TypeOK, Nodes
  <2>3. InHand(c, curr[c])'
    BY <2>1 DEF InHand
  <2> QED
    BY <1>1, <2>1, <2>2, <2>3 DEF Leaves
<1>10. CASE rm_free(c)
  <2>1. PICK e \in allocations, p \in Tree :
            /\ e = curr[c]
            /\ allocations' = allocations \ {e}
            /\ children' = [children EXCEPT ![p] = list_del(children[p], e)]
            /\ curr' = [curr EXCEPT ![c] = p]
    BY <1>10, RmFree
  <2>2. pc[c] = "up" /\ UNCHANGED <<pc, explicited, writer>> /\ curr'[c] = p
    BY <1>10, <2>1 DEF rm_free, lockVars, TypeOK
  <2>3. ASSUME NEW d \in allocations', children'[d] = <<>>, d # p PROVE explicited[d]
    <3>1. d \in allocations /\ d # e /\ children[d] = <<>>
      BY <2>1, <2>3 DEF TypeOK, Nodes
    <3> QED
      BY <1>2, <2>1, <2>2, <3>1 DEF InHand, Critical
  <2>4. InHand(c, p)'
    BY <2>2 DEF InHand
  <2> QED
    BY <1>1, <2>1, <2>2, <2>3, <2>4 DEF Leaves
<1>11. CASE rm_done(c)
  <2>1. /\ pc[c] = "up"
        /\ curr[c] = Root \/ children_num[curr[c]] # 0 \/ explicited[curr[c]]
        /\ UNCHANGED <<allocations, children, explicited>>
    BY <1>11 DEF rm_done, treeVars
  <2>2. ASSUME NEW e \in allocations, children[e] = <<>> PROVE explicited[e]
    <3>1. explicited[e] \/ e = curr[c]
      BY <1>2, <2>1, <2>2 DEF InHand, Critical
    <3>2. e # Root /\ children_num[e] = 0
      <4>1. e \in Tree /\ e \in Entries
        BY DEF Tree, TypeOK
      <4>2. children_num[e] = Len(children[e]) /\ Len(<<>>) = 0
        BY <4>1 DEF Hangs
      <4> QED
        BY <2>2, <4>1, <4>2, RootAssumption
    <3> QED
      BY <2>1, <3>1, <3>2
  <2> QED
    BY <2>1, <2>2 DEF Leaves
<1>12. ~check_result(c) /\ ~lock_store(c)
  BY <1>1 DEF check_result, lock_store
<1>13. \/ search_child(c) \/ add_empty_token(c) \/ add_missing(c) \/ add_create(c)
       \/ add_mark(c) \/ rm_absent(c) \/ rm_unmark(c) \/ rm_free(c) \/ rm_done(c)
  BY <1>12 DEF StepOf, Proceed, Call, check_inode_hit, check_inode_miss, Stored,
               process_path_store, process_path_refuse, process_path_dots, Critical
<1> QED
  BY <1>3, <1>4, <1>5, <1>6, <1>7, <1>8, <1>9, <1>10, <1>11, <1>13

(* Only the writer's way down and what it is freeing can be without mark   *)
(* and children.                                                           *)
LEMMA LeavesStep ==
    ASSUME NamesInv, [Next]_vars
    PROVE  Leaves'
<1> USE DEF NamesInv
<1>1. ASSUME NEW c \in Clients, StepOf(c), writer = Nobody PROVE Leaves'
  <2>1. writer # c
    BY <1>1, NobodyAssumption
  <2>2. UNCHANGED <<allocations, children, explicited>>
    BY <1>1, <2>1, MarksOfWriter
  <2> QED
    BY <1>1, <2>2 DEF Leaves
<1>2. ASSUME NEW c \in Clients, StepOf(c), writer # Nobody, writer # c PROVE Leaves'
  <2>1. pc[c] \notin Critical /\ writer \in Clients
    BY <1>2 DEF StoreInv, StoreLockExcludes, TypeOK
  <2>2. UNCHANGED <<treeVars, writer>>
    BY <1>2, <2>1, StepPlaces DEF StoreInv, lock_store
  <2> DEFINE w == writer
  <2>3. UNCHANGED <<pc[w], call[w], j[w], deepness[w], curr[w], tmp[w]>>
    <3>1. \A d \in Clients : d # c =>
              UNCHANGED <<pc[d], call[d], j[d], deepness[d], curr[d], tmp[d]>>
      BY <1>2, OthersKept DEF StoreInv
    <3> QED
      BY <1>2, <2>1, <2>2, <3>1
  <2>4. \A e \in allocations : InHand(w, e) => InHand(w, e)'
    BY <2>2, <2>3 DEF InHand, Token, text, treeVars
  <2> QED
    BY <1>2, <2>2, <2>4 DEF Leaves, treeVars
<1>3. ASSUME NEW c \in Clients, StepOf(c), writer = c, pc[c] \notin Critical PROVE Leaves'
  <2>1. writer # Nobody
    BY <1>3, NobodyAssumption
  <2>2. pc'[c] \notin Critical /\ UNCHANGED <<treeVars, writer>>
    BY <1>3, <2>1, StepPlaces DEF StoreInv, lock_store
  <2> QED
    BY <1>3, <2>1, <2>2 DEF Leaves, InHand
<1>4. ASSUME NEW c \in Clients, StepOf(c), writer = c, pc[c] \in Critical PROVE Leaves'
  BY <1>4, LeavesOfWriter
<1>5. CASE refresh_nonces \/ UNCHANGED vars
  BY <1>5 DEF refresh_nonces, vars, treeVars, lockVars, localVars, Leaves, InHand, Token, text
<1> QED
  BY <1>1, <1>2, <1>3, <1>4, <1>5 DEF Next, StepOf

-----------------------------------------------------------------------------
(* NamesInv holds before the first call. *)
LEMMA NamesInvStart == Init => NamesInv
<1> SUFFICES ASSUME Init PROVE NamesInv
  OBVIOUS
<1>1. Indexed
  <2>1. <<>> \in Seq(STRING)
    OBVIOUS
  <2>2. Len(Starts(<<>>)) = 0
    BY <2>1, StartsFacts
  <2>3. \A c \in Clients : text(c) = <<>> /\ j[c] = 0
    BY DEF Init, text, NoCall
  <2>4. argIdxs[0] \in {0, 1}
    BY ArgsSizeAssumption DEF Init
  <2>5. 0 .. 0 - 1 = {}
    OBVIOUS
  <2> QED
    BY <2>2, <2>3, <2>4, <2>5 DEF Indexed
<1>2. Searches /\ Leaves
  BY DEF Init, Searches, SearchOf, Leaves
<1>3. Named
  <2>1. Empty \in Seq(STRING)
    BY DEF Empty
  <2> QED
    BY <2>1 DEF Init, Named
<1> QED
  BY <1>1, <1>2, <1>3, StoreInvStart DEF NamesInv

(* Where the indices are not disturbed, NamesInv is inductive. *)
LEMMA NamesInvStep ==
    ASSUME Undisturbed
    PROVE  NamesInv /\ [Next]_vars => NamesInv'
BY TypeStep, LockStep, PlacesStep, HangsStep, PointersStep, IndexedStep, SearchesStep,
   NamedStep, LeavesStep DEF NamesInv, StoreInv

(* The entries of the path store are always where the texts that made them *)
(* say (path_store.c:118-318), for calls that disturb no nonce.            *)
THEOREM NamesInvariant ==
    ASSUME Undisturbed
    PROVE  Spec => []NamesInv
BY NamesInvStart, NamesInvStep, PTL DEF Spec

(***************************************************************************)
(* path_store_rm takes away all that path_store_add has made: whenever the *)
(* store is unlocked every entry lies on the way to an explicit one and no *)
(* two children of one entry have one name, if the callers' texts agree on *)
(* the indices of their tokens or there is one caller.                     *)
(***************************************************************************)
THEOREM NothingLeftBehind ==
    ASSUME Undisturbed
    PROVE  Spec => []NothingLeftOver
<1>1. NamesInv => NothingLeftOver
  BY DEF NamesInv, Named, Leaves, NothingLeftOver
<1> QED
  BY <1>1, NamesInvariant, PTL

-----------------------------------------------------------------------------
(***************************************************************************)
(* The paths of the entries.  PathOf follows the parents up to the root: a *)
(* part of PathsInv says that they lead there.                             *)
(***************************************************************************)

(* PathOf of a tree with the parents par and the names nam. *)
PathIn(par, nam) ==
    LET path[e \in Nodes] == IF e = Root THEN <<>> ELSE Append(path[par[e]], nam[e])
    IN  path

(* What PathOf should be.  That there is such a function is that the       *)
(* parents lead to the root.                                               *)
IsPaths(f, par, nam) ==
    /\ f \in [Nodes -> Seq(Seq(STRING))]
    /\ \A e \in Nodes : f[e] = IF e = Root THEN <<>> ELSE Append(f[par[e]], nam[e])

Rooted ==
    /\ IsFiniteSet(allocations)
    /\ \A e \in Entries \ allocations : parent[e] = Root
    /\ IsPaths(PathOf, parent, dir_name)

(* A call has not been refused so far, and in the tree it stands where its *)
(* first tokens lead.                                                      *)
WayOf(c) ==
    /\ pc[c] # "idle" => call[c] \in Calls
    /\ pc[c] \in {"idle", "oracle"} => deepness[c] = 0
    /\ pc[c] = "oracle" => call[c].op = "check"
    /\ pc[c] = "process" =>
           \A k \in 1 .. deepness[c] : Tokens(text(c))[k] \notin Dots
    /\ pc[c] \in {"search", "create"} =>
           /\ ~Malformed(text(c))
           /\ PathOf[curr[c]] = Prefix(Tokens(text(c)), deepness[c])
           /\ \A k \in 1 .. deepness[c] : Tokens(text(c))[k] # Empty

Ways == \A c \in Clients : WayOf(c)

PathsInv == NamesInv /\ Rooted /\ Ways

-----------------------------------------------------------------------------
(* Parents and names determine the paths, if they determine any. *)
LEMMA PathsUnique ==
    ASSUME NEW par \in [Nodes -> Nodes], NEW nam \in [Nodes -> Seq(STRING)], NEW f,
           IsPaths(f, par, nam)
    PROVE  PathIn(par, nam) = f
<1> DEFINE g == PathIn(par, nam)
<1>1. g = CHOOSE path :
              path = [e \in Nodes |-> IF e = Root THEN <<>> ELSE Append(path[par[e]], nam[e])]
  BY DEF PathIn
<1>2. f = [e \in Nodes |-> IF e = Root THEN <<>> ELSE Append(f[par[e]], nam[e])]
  BY DEF IsPaths
<1> HIDE DEF g
<1>3. g = [e \in Nodes |-> IF e = Root THEN <<>> ELSE Append(g[par[e]], nam[e])]
  BY <1>1, <1>2
<1>4. \A e \in Nodes : g[e] = f[e]
  <2> DEFINE I == {Len(f[e]) : e \in {x \in Nodes : g[x] # f[x]}}
  <2> SUFFICES ASSUME I # {} PROVE FALSE
    OBVIOUS
  <2>1. \A e \in Nodes : f[e] \in Seq(Seq(STRING)) /\ Len(f[e]) \in Nat
    BY DEF IsPaths
  <2>2. I \in SUBSET Nat
    BY <2>1
  <2>3. PICK n \in I : \A m \in I : n <= m
    BY <2>2, LeastNat
  <2>4. PICK e \in Nodes : g[e] # f[e] /\ n = Len(f[e])
    BY <2>3
  <2>5. e # Root /\ par[e] \in Nodes /\ nam[e] \in Seq(STRING)
    BY <1>2, <1>3, <2>4
  <2>6. f[e] = Append(f[par[e]], nam[e]) /\ g[e] = Append(g[par[e]], nam[e])
    BY <1>2, <1>3, <2>5
  <2>7. Len(f[e]) = Len(f[par[e]]) + 1
    BY <2>1, <2>5, <2>6, AppendProperties
  <2>8. g[par[e]] # f[par[e]]
    BY <2>4, <2>6
  <2>9. Len(f[par[e]]) \in I
    BY <2>5, <2>8
  <2>10. n <= Len(f[par[e]])
    BY <2>3, <2>9
  <2>11. Len(f[par[e]]) \in Nat /\ n = Len(f[par[e]]) + 1
    BY <2>1, <2>4, <2>5, <2>7
  <2> QED
    BY <2>10, <2>11
<1>5. f = [e \in Nodes |-> f[e]] /\ g = [e \in Nodes |-> g[e]]
  BY <1>2, <1>3
<1> QED
  BY <1>4, <1>5 DEF g

(* PathOf is determined by the tree of this state, and of the next. *)
LEMMA PathsOfTree ==
    PathOf = PathIn(parent, dir_name) /\ PathOf' = PathIn(parent', dir_name')
BY DEF PathOf, PathIn

-----------------------------------------------------------------------------
(* What the lemmas about the paths of the tree need. *)
Grown == StoreInv /\ Named /\ Rooted

(* The path of an entry is that of its parent with its name behind it. *)
LEMMA PathFacts ==
    ASSUME Grown
    PROVE  /\ PathOf[Root] = <<>> /\ Root \in Tree /\ Root \notin allocations
           /\ \A e \in Nodes : PathOf[e] \in Seq(Seq(STRING)) /\ Len(PathOf[e]) \in Nat
           /\ Tree \subseteq Nodes /\ allocations \subseteq Nodes
           /\ \A e \in allocations :
                  /\ parent[e] \in Tree /\ dir_name[e] \in Seq(STRING)
                  /\ PathOf[e] = Append(PathOf[parent[e]], dir_name[e])
                  /\ PathOf[e] # <<>> /\ Len(PathOf[e]) = Len(PathOf[parent[e]]) + 1
<1>1. /\ Root \in Nodes /\ Root \in Tree /\ Root \notin allocations
      /\ Tree \subseteq Nodes /\ allocations \subseteq Nodes
  BY RootAssumption DEF Grown, StoreInv, TypeOK, Nodes, Tree
<1>2. PathOf[Root] = <<>> /\ \A e \in Nodes : PathOf[e] \in Seq(Seq(STRING))
  BY <1>1 DEF Grown, Rooted, IsPaths
<1>3. \A e \in Nodes : Len(PathOf[e]) \in Nat
  BY <1>2
<1>4. ASSUME NEW e \in allocations
      PROVE  /\ parent[e] \in Tree /\ dir_name[e] \in Seq(STRING)
             /\ PathOf[e] = Append(PathOf[parent[e]], dir_name[e])
             /\ PathOf[e] # <<>> /\ Len(PathOf[e]) = Len(PathOf[parent[e]]) + 1
  <2>1. parent[e] \in Tree /\ dir_name[e] \in Seq(STRING) /\ e \in Nodes /\ e # Root
    BY <1>1 DEF Grown, StoreInv, Hangs, Named
  <2>2. PathOf[e] = Append(PathOf[parent[e]], dir_name[e])
    BY <2>1 DEF Grown, Rooted, IsPaths
  <2>3. PathOf[parent[e]] \in Seq(Seq(STRING))
    BY <1>1, <1>2, <2>1
  <2> QED
    BY <2>1, <2>2, <2>3, AppendProperties
<1> QED
  BY <1>1, <1>2, <1>3, <1>4

(* Entries have different paths. *)
LEMMA PathsDiffer ==
    ASSUME Grown, NEW d \in Tree, NEW e \in Tree, PathOf[d] = PathOf[e]
    PROVE  d = e
<1> DEFINE Two(n) == \E a, b \in Tree : a # b /\ PathOf[a] = PathOf[b] /\ n = Len(PathOf[a])
           I == {n \in Nat : Two(n)}
<1> SUFFICES ASSUME d # e PROVE FALSE
  OBVIOUS
<1>1. I # {}
  <2>1. Len(PathOf[d]) \in Nat
    BY PathFacts
  <2> QED
    BY <2>1
<1>2. PICK n \in I : \A m \in I : n <= m
  BY <1>1, LeastNat
<1>3. PICK a \in Tree, b \in Tree : a # b /\ PathOf[a] = PathOf[b] /\ n = Len(PathOf[a])
  BY <1>2
<1>4. a \in allocations /\ b \in allocations
  <2>1. PathOf[Root] = <<>> /\ \A x \in allocations : PathOf[x] # <<>>
    BY PathFacts
  <2>2. \A x \in Tree : x \in allocations \/ x = Root
    BY DEF Tree
  <2> QED
    BY <1>3, <2>1, <2>2
<1> DEFINE p == PathOf[parent[a]]
           q == PathOf[parent[b]]
<1>5. /\ parent[a] \in Tree /\ parent[b] \in Tree
      /\ p \in Seq(Seq(STRING)) /\ q \in Seq(Seq(STRING))
      /\ dir_name[a] \in Seq(STRING) /\ dir_name[b] \in Seq(STRING)
      /\ PathOf[a] = Append(p, dir_name[a]) /\ PathOf[b] = Append(q, dir_name[b])
      /\ Len(PathOf[a]) = Len(p) + 1 /\ Len(p) \in Nat
  BY <1>4, PathFacts
<1>6. p = q /\ dir_name[a] = dir_name[b]
  <2>1. Added(p, dir_name[a]) = Added(q, dir_name[b])
    BY <1>3, <1>5 DEF Added
  <2>2. /\ p \in Seq(Seq(STRING)) /\ q \in Seq(Seq(STRING))
        /\ dir_name[a] \in Seq(STRING) /\ dir_name[b] \in Seq(STRING)
    BY <1>5
  <2> QED
    BY <2>1, <2>2, AddedParts
<1>7. parent[a] # parent[b]
  BY <1>3, <1>4, <1>6 DEF Grown, Named
<1>8. Len(p) \in I
  BY <1>5, <1>6, <1>7
<1>9. n <= Len(p)
  BY <1>2, <1>8
<1>10. n = Len(p) + 1 /\ Len(p) \in Nat
  BY <1>3, <1>5
<1> QED
  BY <1>9, <1>10

(* With an entry all its ancestors are in the tree. *)
LEMMA Ancestor ==
    ASSUME Grown, NEW e \in Tree, NEW m \in 0 .. Len(PathOf[e])
    PROVE  \E a \in Tree : PathOf[a] = Prefix(PathOf[e], m)
<1> DEFINE Lacks(x) == \E k \in 0 .. Len(PathOf[x]) :
                           \A a \in Tree : PathOf[a] # Prefix(PathOf[x], k)
           I == {Len(PathOf[x]) : x \in {y \in Tree : Lacks(y)}}
<1> SUFFICES ASSUME Lacks(e) PROVE FALSE
  OBVIOUS
<1>1. I \in SUBSET Nat /\ I # {}
  BY PathFacts
<1>2. PICK n \in I : \A k \in I : n <= k
  BY <1>1, LeastNat
<1>3. PICK x \in Tree : Lacks(x) /\ n = Len(PathOf[x])
  BY <1>2
<1>4. PICK k \in 0 .. Len(PathOf[x]) : \A a \in Tree : PathOf[a] # Prefix(PathOf[x], k)
  BY <1>3
<1>5. PathOf[x] \in Seq(Seq(STRING)) /\ Len(PathOf[x]) \in Nat
  BY PathFacts
<1>6. k # Len(PathOf[x])
  BY <1>3, <1>4, <1>5, PrefixEnds
<1>7. x \in allocations
  <2>1. Len(PathOf[x]) # 0
    BY <1>4, <1>5, <1>6
  <2>2. PathOf[Root] = <<>> /\ Len(<<>>) = 0
    BY PathFacts
  <2> QED
    BY <2>1, <2>2 DEF Tree
<1> DEFINE p == PathOf[parent[x]]
<1>8. /\ parent[x] \in Tree /\ p \in Seq(Seq(STRING)) /\ dir_name[x] \in Seq(STRING)
      /\ PathOf[x] = Append(p, dir_name[x]) /\ Len(PathOf[x]) = Len(p) + 1 /\ Len(p) \in Nat
  BY <1>7, PathFacts
<1>9. k \in 0 .. Len(p)
  BY <1>4, <1>5, <1>6, <1>8
<1>10. Prefix(PathOf[x], k) = Prefix(p, k)
  BY <1>8, <1>9, PrefixAppend
<1>11. Lacks(parent[x])
  BY <1>4, <1>9, <1>10
<1>12. Len(p) \in I
  BY <1>8, <1>11
<1>13. n <= Len(p)
  BY <1>2, <1>12
<1>14. n = Len(p) + 1 /\ Len(p) \in Nat
  BY <1>3, <1>8
<1> QED
  BY <1>13, <1>14

(* Where a path goes on below an entry, there is a child for its next name. *)
LEMMA ChildOnPath ==
    ASSUME Grown, NEW e \in Tree, NEW a \in Tree, NEW m \in Nat, m < Len(PathOf[e]),
           PathOf[a] = Prefix(PathOf[e], m)
    PROVE  \E d \in allocations : parent[d] = a /\ dir_name[d] = PathOf[e][m + 1]
<1> DEFINE p == PathOf[e]
<1>1. p \in Seq(Seq(STRING)) /\ Len(p) \in Nat
  BY PathFacts
<1>2. m + 1 \in 0 .. Len(p) /\ m \in 0 .. Len(p) /\ m + 1 \in 1 .. Len(p)
  BY <1>1
<1>3. PICK d \in Tree : PathOf[d] = Prefix(p, m + 1)
  BY <1>2, Ancestor
<1>4. Prefix(p, m + 1) = Append(Prefix(p, m), p[m + 1])
  BY <1>1, PrefixNext
<1>5. Prefix(p, m) \in Seq(Seq(STRING)) /\ p[m + 1] \in Seq(STRING)
  <2>1. Prefix(p, m) \in Seq(Seq(STRING))
    BY <1>1, <1>2, PrefixType
  <2>2. p[m + 1] \in Seq(STRING)
    BY <1>1, <1>2
  <2> QED
    BY <2>1, <2>2
<1> HIDE DEF p
<1>6. PathOf[d] # <<>>
  BY <1>3, <1>4, <1>5, AppendProperties
<1>7. d \in allocations
  <2>1. PathOf[Root] = <<>>
    BY PathFacts
  <2> QED
    BY <1>6, <2>1 DEF Tree
<1>8. /\ parent[d] \in Tree /\ PathOf[parent[d]] \in Seq(Seq(STRING))
      /\ dir_name[d] \in Seq(STRING) /\ PathOf[d] = Append(PathOf[parent[d]], dir_name[d])
  BY <1>7, PathFacts
<1>9. PathOf[parent[d]] = Prefix(p, m) /\ dir_name[d] = p[m + 1]
  <2>1. Added(PathOf[parent[d]], dir_name[d]) = Added(Prefix(p, m), p[m + 1])
    BY <1>3, <1>4, <1>8 DEF Added
  <2>2. /\ PathOf[parent[d]] \in Seq(Seq(STRING)) /\ dir_name[d] \in Seq(STRING)
        /\ Prefix(p, m) \in Seq(Seq(STRING)) /\ p[m + 1] \in Seq(STRING)
    BY <1>5, <1>8
  <2> QED
    BY <2>1, <2>2, AddedParts
<1>10. parent[d] = a
  BY <1>8, <1>9, PathsDiffer DEF p
<1> QED
  BY <1>7, <1>9, <1>10 DEF p

-----------------------------------------------------------------------------
(* The tokens of a text are names, one for each index. *)
LEMMA TokensType ==
    ASSUME NEW p \in Seq(STRING)
    PROVE  /\ Tokens(p) \in Seq(Seq(STRING)) /\ Len(Tokens(p)) = Len(Starts(p))
           /\ Len(Starts(p)) \in Nat /\ DOMAIN Tokens(p) = 1 .. Len(Starts(p))
<1> DEFINE n == Len(Starts(p))
           token == [k \in 1 .. n |-> TokenAt(p, Starts(p)[k])]
<1>1. n \in Nat /\ \A k \in 1 .. n : Starts(p)[k] \in Nat /\ Starts(p)[k] <= Len(p)
  BY StartsFacts
<1>2. \A k \in 1 .. n : TokenAt(p, Starts(p)[k]) \in Seq(STRING)
  BY <1>1, TokenType
<1>3. DOMAIN Starts(p) = 1 .. n
  BY StartsFacts
<1>4. Tokens(p) = token
  BY <1>3 DEF Tokens
<1> HIDE DEF n
<1>5. token \in Seq(Seq(STRING)) /\ Len(token) = n /\ DOMAIN token = 1 .. n
  BY <1>1, <1>2
<1> QED
  BY <1>1, <1>4, <1>5 DEF n

(* While the tree keeps its shape it keeps its paths; when an entry comes  *)
(* or goes, the others keep theirs.                                        *)
LEMMA PathsStep ==
    ASSUME NamesInv, Rooted, [Next]_vars
    PROVE  Rooted' /\ \A e \in Tree : e \in Tree' => PathOf'[e] = PathOf[e]
<1> USE DEF NamesInv, Rooted
<1>1. /\ PathOf = PathIn(parent, dir_name) /\ PathOf' = PathIn(parent', dir_name')
      /\ IsPaths(PathOf, parent, dir_name) /\ PathOf \in [Nodes -> Seq(Seq(STRING))]
      /\ parent' \in [Nodes -> Nodes] /\ dir_name' \in [Nodes -> Seq(STRING)]
      /\ parent \in [Nodes -> Nodes] /\ dir_name \in [Nodes -> Seq(STRING)]
      /\ allocations \subseteq Entries /\ Tree = allocations \cup {Root}
      /\ Root \in Nodes /\ Root \notin Entries /\ Entries \subseteq Nodes
  BY PathsOfTree, NamedStep, TypeStep, RootAssumption
     DEF IsPaths, StoreInv, TypeOK, Named, Tree, Nodes
<1>2. ASSUME NEW c \in Clients, add_create(c)
      PROVE  Rooted' /\ \A e \in Tree : e \in Tree' => PathOf'[e] = PathOf[e]
  <2>1. PICK e \in Entries \ allocations :
            /\ curr[c] \in Tree /\ e # curr[c] /\ e # Root
            /\ allocations' = allocations \cup {e}
            /\ dir_name' = [dir_name EXCEPT ![e] = Token(c)]
            /\ parent' = [parent EXCEPT ![e] = curr[c]]
            /\ Token(c) \in Seq(STRING)
    BY <1>2, CreateNamed
  <2> DEFINE t == Token(c)
             p == curr[c]
             f == [PathOf EXCEPT ![e] = Append(PathOf[p], t)]
  <2>2. p \in Nodes /\ e \in Nodes /\ PathOf[p] \in Seq(Seq(STRING))
    BY <1>1, <2>1
  <2>3. Append(PathOf[p], t) \in Seq(Seq(STRING))
    BY <2>1, <2>2, AppendProperties
  <2>4. \A d \in Nodes : d # e /\ d # Root => parent[d] # e
    BY <1>1, <2>1 DEF StoreInv, Hangs, Nodes
  <2> HIDE DEF t, p
  <2>5. /\ parent'[e] = p /\ dir_name'[e] = t
        /\ \A d \in Nodes : d # e => parent'[d] = parent[d] /\ dir_name'[d] = dir_name[d]
    BY <1>1, <2>1, <2>2 DEF t, p
  <2>6. /\ f \in [Nodes -> Seq(Seq(STRING))] /\ f[e] = Append(PathOf[p], t)
        /\ \A d \in Nodes : d # e => f[d] = PathOf[d]
    BY <1>1, <2>2, <2>3
  <2> HIDE DEF f
  <2>7. ASSUME NEW d \in Nodes
        PROVE  f[d] = IF d = Root THEN <<>> ELSE Append(f[parent'[d]], dir_name'[d])
    <3>1. CASE d = e
      <4>1. d # Root /\ p # e
        BY <2>1, <3>1 DEF p
      <4> QED
        BY <2>2, <2>5, <2>6, <3>1, <4>1
    <3>2. CASE d # e /\ d # Root
      <4>1. f[d] = Append(PathOf[parent[d]], dir_name[d])
        BY <1>1, <2>6, <3>2 DEF IsPaths
      <4>2. parent[d] \in Nodes /\ parent[d] # e
        BY <1>1, <2>4, <3>2
      <4> QED
        BY <2>5, <2>6, <3>2, <4>1, <4>2
    <3>3. CASE d # e /\ d = Root
      BY <1>1, <2>6, <3>3 DEF IsPaths
    <3> QED
      BY <3>1, <3>2, <3>3
  <2>8. IsPaths(f, parent', dir_name')
    BY <2>6, <2>7 DEF IsPaths
  <2>9. PathOf' = f
    BY <1>1, <2>8, PathsUnique
  <2>10. IsFiniteSet(allocations')
    BY <2>1, FS_AddElement
  <2>11. \A d \in Entries \ allocations' : parent'[d] = Root
    BY <1>1, <2>1, <2>5
  <2>12. \A d \in Tree : d # e
    BY <1>1, <2>1
  <2> QED
    BY <1>1, <2>6, <2>8, <2>9, <2>10, <2>11, <2>12
<1>3. ASSUME NEW c \in Clients, rm_free(c)
      PROVE  Rooted' /\ \A e \in Tree : e \in Tree' => PathOf'[e] = PathOf[e]
  <2>1. PICK e \in allocations :
            /\ e = curr[c] /\ children[e] = <<>>
            /\ allocations' = allocations \ {e}
            /\ parent' = [parent EXCEPT ![e] = Root]
            /\ dir_name' = [dir_name EXCEPT ![e] = Empty]
    BY <1>3, RmFree
  <2> DEFINE f == [PathOf EXCEPT ![e] = Append(<<>>, Empty)]
  <2>2. e \in Nodes /\ e \in Entries /\ e # Root
    BY <1>1, <2>1
  <2>3. Append(<<>>, Empty) \in Seq(Seq(STRING))
    <3>1. Empty \in Seq(STRING)
      BY DEF Empty
    <3>2. <<>> \in Seq(Seq(STRING))
      BY EmptySeq
    <3> QED
      BY <3>1, <3>2, AppendProperties
  <2>4. \A d \in Nodes : d # e /\ d # Root => parent[d] # e
    <3>1. Range(children[e]) = {d \in allocations : parent[d] = e}
      BY <1>1, <2>1 DEF StoreInv, Hangs
    <3>2. Range(<<>>) = {}
      BY DEF Range
    <3> QED
      BY <1>1, <2>1, <2>2, <3>1, <3>2 DEF Nodes
  <2>5. /\ parent'[e] = Root /\ dir_name'[e] = Empty
        /\ \A d \in Nodes : d # e => parent'[d] = parent[d] /\ dir_name'[d] = dir_name[d]
    BY <1>1, <2>1, <2>2
  <2>6. /\ f \in [Nodes -> Seq(Seq(STRING))] /\ f[e] = Append(<<>>, Empty)
        /\ \A d \in Nodes : d # e => f[d] = PathOf[d]
    BY <1>1, <2>2, <2>3
  <2> HIDE DEF f
  <2>7. ASSUME NEW d \in Nodes
        PROVE  f[d] = IF d = Root THEN <<>> ELSE Append(f[parent'[d]], dir_name'[d])
    <3>1. CASE d = e
      <4>1. f[Root] = <<>>
        BY <1>1, <2>2, <2>6 DEF IsPaths
      <4> QED
        BY <2>2, <2>5, <2>6, <3>1, <4>1
    <3>2. CASE d # e /\ d # Root
      <4>1. f[d] = Append(PathOf[parent[d]], dir_name[d])
        BY <1>1, <2>6, <3>2 DEF IsPaths
      <4>2. parent[d] \in Nodes /\ parent[d] # e
        BY <1>1, <2>4, <3>2
      <4> QED
        BY <2>5, <2>6, <3>2, <4>1, <4>2
    <3>3. CASE d # e /\ d = Root
      BY <1>1, <2>6, <3>3 DEF IsPaths
    <3> QED
      BY <3>1, <3>2, <3>3
  <2>8. IsPaths(f, parent', dir_name')
    BY <2>6, <2>7 DEF IsPaths
  <2>9. PathOf' = f
    BY <1>1, <2>8, PathsUnique
  <2>10. IsFiniteSet(allocations')
    BY <2>1, FS_Subset
  <2>11. \A d \in Entries \ allocations' : parent'[d] = Root
    BY <1>1, <2>1, <2>5
  <2>12. \A d \in Tree' : d # e
    BY <2>1, <2>2 DEF Tree
  <2>13. Tree \subseteq Nodes
    BY <1>1
  <2> QED
    BY <2>6, <2>8, <2>9, <2>10, <2>11, <2>12, <2>13
<1>4. CASE UNCHANGED <<allocations, parent, dir_name>>
  BY <1>1, <1>4
<1> QED
  BY <1>2, <1>3, <1>4, NamesShape

-----------------------------------------------------------------------------
(***************************************************************************)
(* The way of a call: a client in the tree stands where its first tokens   *)
(* lead, and where it stops they lead no further.                          *)
(***************************************************************************)

(* At the end of a search the names of the path lead no further. *)
LEMMA NoFurther ==
    ASSUME PathsInv, NEW c \in Clients, Searched(c), deepness[c] < j[c],
           NEW e \in Tree, deepness[c] < Len(PathOf[e]),
           Prefix(PathOf[e], deepness[c]) = PathOf[curr[c]],
           PathOf[e][deepness[c] + 1] = Token(c)
    PROVE  FALSE
<1> USE DEF PathsInv, NamesInv
<1>1. Grown /\ pc[c] = "search" /\ tmp[c] = <<>> /\ curr[c] \in Tree /\ deepness[c] \in Nat
  BY DEF Grown, Searched, StoreInv, NoUseAfterFree, Critical, TypeOK
<1>2. PICK d \in allocations : parent[d] = curr[c] /\ dir_name[d] = Token(c)
  BY <1>1, ChildOnPath
<1>3. d \in Range(tmp[c])
  BY <1>1, <1>2 DEF Searches, SearchOf
<1>4. Range(<<>>) = {}
  BY DEF Range
<1> QED
  BY <1>1, <1>3, <1>4

-----------------------------------------------------------------------------
(* What a client in the tree has before it is a list of names. *)
LEMMA OnWay ==
    ASSUME PathsInv, NEW c \in Clients, pc[c] \in {"search", "create"}
    PROVE  /\ Tokens(text(c)) \in Seq(Seq(STRING)) /\ Len(Tokens(text(c))) = j[c]
           /\ j[c] \in Nat /\ deepness[c] \in 0 .. j[c] /\ curr[c] \in Tree
           /\ PathOf[curr[c]] = Prefix(Tokens(text(c)), deepness[c])
           /\ Len(PathOf[curr[c]]) = deepness[c] /\ call[c] \in Calls
<1> USE DEF PathsInv, NamesInv, StoreInv
<1>1. text(c) \in Seq(STRING)
  BY CallType DEF text
<1>2. Tokens(text(c)) \in Seq(Seq(STRING)) /\ Len(Tokens(text(c))) = Len(Starts(text(c)))
  BY <1>1, TokensType
<1>3. j[c] = Len(Starts(text(c))) /\ deepness[c] <= j[c]
  BY DEF Searches, SearchOf
<1>4. j[c] \in Nat /\ deepness[c] \in Nat
  BY ArgsSizeAssumption DEF TypeOK
<1>5. deepness[c] \in 0 .. j[c]
  BY <1>3, <1>4
<1>6. /\ PathOf[curr[c]] = Prefix(Tokens(text(c)), deepness[c])
      /\ call[c] \in Calls /\ curr[c] \in Tree
  BY DEF Ways, WayOf, NoUseAfterFree, Critical
<1>7. Len(Prefix(Tokens(text(c)), deepness[c])) = deepness[c]
  BY <1>2, <1>3, <1>5, PrefixType
<1> QED
  BY <1>2, <1>3, <1>4, <1>5, <1>6, <1>7

(* A step of another client does not move the entries a client is at. *)
LEMMA WayOfOther ==
    ASSUME PathsInv, NEW c \in Clients, StepOf(c), NEW d \in Clients, d # c
    PROVE  WayOf(d)'
<1> USE DEF PathsInv, NamesInv
<1>1. UNCHANGED <<pc[d], call[d], j[d], deepness[d], curr[d], tmp[d]>>
  BY OthersKept DEF StoreInv
<1>2. text(d)' = text(d)
  BY <1>1 DEF text
<1>3. CASE add_create(c) \/ rm_free(c)
  <2>1. pc[c] \in Critical /\ call[c].op # "check"
    BY <1>3 DEF add_create, rm_free, Critical, StoreInv, Places
  <2>2. pc[d] \notin Critical
    BY <2>1, WriterAlone
  <2> QED
    BY <1>1, <1>2, <2>2 DEF Ways, WayOf, Critical
<1>4. CASE ~add_create(c) /\ ~rm_free(c)
  <2>1. UNCHANGED <<parent, dir_name>>
    BY <1>4, TreeKeptBy
  <2>2. PathOf' = PathOf
    BY <2>1, PathsOfTree
  <2> QED
    BY <1>1, <1>2, <2>2 DEF Ways, WayOf
<1> QED
  BY <1>3, <1>4

(* Before it is in the tree a call has met no dots. *)
LEMMA WayToLock ==
    ASSUME PathsInv, NEW c \in Clients,
           \/ check_inode_hit(c) \/ check_inode_miss(c)
           \/ process_path_store(c) \/ process_path_refuse(c) \/ process_path_dots(c)
           \/ \E x \in Calls : Call(c, x)
    PROVE  WayOf(c)'
<1> USE DEF PathsInv, NamesInv, StoreInv
<1>1. WayOf(c) /\ TypeOK /\ 1 .. 0 = {}
  BY DEF Ways
<1>2. CASE check_inode_hit(c) \/ process_path_refuse(c)
  BY <1>1, <1>2 DEF check_inode_hit, process_path_refuse, Return, Goto, WayOf, TypeOK
<1>3. CASE check_inode_miss(c)
  <2>1. pc'[c] = "process" /\ deepness'[c] = 0 /\ call'[c] \in Calls
    BY <1>1, <1>3 DEF check_inode_miss, Goto, localVars, WayOf, TypeOK
  <2> QED
    BY <1>1, <2>1 DEF WayOf
<1>4. CASE process_path_store(c)
  <2>1. UNCHANGED <<pc, call, deepness>> /\ pc[c] = "process" /\ text(c)' = text(c)
    BY <1>4 DEF process_path_store, text
  <2> QED
    BY <1>1, <2>1 DEF WayOf
<1>5. CASE process_path_dots(c)
  <2>1. Read(c) = {Token(c)} /\ pc[c] = "process" /\ deepness[c] \in Nat
    BY <1>5, ReadToken DEF process_path_dots, Stored, TypeOK
  <2>2. CASE Token(c) \in Dots
    <3>1. pc'[c] = "idle" /\ deepness'[c] = 0
      BY <1>5, <2>1, <2>2 DEF process_path_dots, Return, Goto, TypeOK
    <3> QED
      BY <3>1 DEF WayOf
  <2>3. CASE Token(c) \notin Dots
    <3>1. deepness'[c] = deepness[c] + 1 /\ UNCHANGED <<pc, call>>
      BY <1>5, <2>1, <2>3 DEF process_path_dots, TypeOK
    <3>2. text(c)' = text(c)
      BY <3>1 DEF text
    <3>3. \A k \in 1 .. deepness[c] + 1 : k \in 1 .. deepness[c] \/ k = deepness[c] + 1
      BY <2>1
    <3>4. \A k \in 1 .. deepness'[c] : Tokens(text(c))[k] \notin Dots
      BY <1>1, <2>1, <2>3, <3>1, <3>3 DEF WayOf, Token
    <3> QED
      BY <1>1, <2>1, <3>1, <3>2, <3>4 DEF WayOf
  <2> QED
    BY <2>2, <2>3
<1>6. ASSUME NEW x \in Calls, Call(c, x) PROVE WayOf(c)'
  <2>1. /\ pc'[c] = IF x.op = "check" /\ x.resolved THEN "oracle" ELSE "process"
        /\ call'[c] = x /\ deepness'[c] = 0
    BY <1>1, <1>6 DEF Call, Goto, WayOf, TypeOK
  <2> QED
    BY <1>1, <2>1 DEF WayOf
<1> QED
  BY <1>2, <1>3, <1>4, <1>5, <1>6

(* The search begins at the root with a text that is not malformed. *)
LEMMA WayFromRoot ==
    ASSUME PathsInv, Rooted', NEW c \in Clients, lock_store(c)
    PROVE  WayOf(c)'
<1> USE DEF PathsInv, NamesInv, StoreInv
<1>1. /\ pc[c] = "process" /\ Absolute(text(c)) /\ ~Exceeds(text(c))
      /\ j[c] = Len(Starts(text(c))) /\ deepness[c] = j[c] /\ curr[c] = Root
  BY DEF lock_store, AtLock, Stored, Places, Critical
<1>2. /\ pc'[c] = "search" /\ deepness'[c] = 0 /\ UNCHANGED <<call, curr>>
      /\ text(c)' = text(c) /\ call[c] \in Calls
  BY <1>1 DEF lock_store, Goto, TypeOK, text, Ways, WayOf
<1>3. text(c) \in Seq(STRING)
  BY CallType DEF text
<1>4. /\ Tokens(text(c)) \in Seq(Seq(STRING))
      /\ DOMAIN Tokens(text(c)) = 1 .. Len(Starts(text(c)))
  BY <1>3, TokensType
<1>5. ~Malformed(text(c))
  BY <1>1, <1>4 DEF Malformed, Ways, WayOf
<1>6. Root \in Nodes
  BY DEF Nodes
<1>7. PathOf'[Root] = <<>>
  BY <1>6 DEF Rooted, IsPaths
<1>8. Prefix(Tokens(text(c)), 0) = <<>> /\ 1 .. 0 = {}
  BY <1>4, PrefixEnds
<1> QED
  BY <1>1, <1>2, <1>5, <1>7, <1>8 DEF WayOf

(* A client goes down to the child that has the next name. *)
LEMMA WayDown ==
    ASSUME PathsInv, NEW c \in Clients, search_child(c)
    PROVE  WayOf(c)'
<1> USE DEF PathsInv, NamesInv, StoreInv
<1> DEFINE h == Head(tmp[c])
           path == Tokens(text(c))
           k == deepness[c]
<1>1. /\ pc[c] = "search" /\ tmp[c] # <<>> /\ UNCHANGED <<pc, call, j, parent, dir_name>>
      /\ text(c)' = text(c)
  BY DEF search_child, treeVars, text
<1>2. /\ h \in allocations /\ parent[h] = curr[c]
      /\ \/ k < j[c] /\ Read(c) = {Token(c)}
         \/ \A token \in Read(c) : dir_name[h] # token
  BY <1>1, ReadSearching
<1>3. /\ ~Malformed(text(c)) /\ PathOf[curr[c]] = Prefix(path, k) /\ call[c] \in Calls
      /\ \A i \in 1 .. k : path[i] # Empty
  BY <1>1 DEF Ways, WayOf
<1>4. PathOf' = PathOf
  BY <1>1, PathsOfTree
<1>5. PICK token \in Read(c) :
          \/ /\ dir_name[h] = token
             /\ curr' = [curr EXCEPT ![c] = h]
             /\ deepness' = [deepness EXCEPT ![c] = @ + 1]
          \/ /\ dir_name[h] # token
             /\ UNCHANGED <<curr, deepness>>
  BY DEF search_child
<1>6. CASE dir_name[h] = token
  <2>1. k < j[c] /\ dir_name[h] = Token(c) /\ curr'[c] = h /\ deepness'[c] = k + 1
    BY <1>2, <1>5, <1>6 DEF TypeOK
  <2>2. path \in Seq(Seq(STRING)) /\ Len(path) = j[c] /\ k \in Nat
    BY <1>1, OnWay
  <2>3. PathOf[h] = Append(PathOf[curr[c]], dir_name[h])
    BY <1>2, PathFacts DEF Grown
  <2>4. Token(c) = path[k + 1] /\ Token(c) # Empty
    BY <1>2, <2>1 DEF Token, Named
  <2> HIDE DEF path, k, h
  <2>5. Prefix(path, k + 1) = Append(Prefix(path, k), path[k + 1])
    BY <2>1, <2>2, PrefixNext
  <2>6. PathOf'[curr'[c]] = Prefix(path, deepness'[c])
    BY <1>3, <1>4, <2>1, <2>3, <2>4, <2>5
  <2>7. \A i \in 1 .. k + 1 : i \in 1 .. k \/ i = k + 1
    BY <2>2
  <2>8. \A i \in 1 .. deepness'[c] : path[i] # Empty
    BY <1>3, <2>1, <2>4, <2>7
  <2> QED
    BY <1>1, <1>3, <2>6, <2>8 DEF WayOf, path
<1>7. CASE dir_name[h] # token
  BY <1>1, <1>3, <1>4, <1>5, <1>7 DEF WayOf
<1> QED
  BY <1>6, <1>7

(* A client keeps its way, whatever becomes of the tree. *)
LEMMA WaysStep ==
    ASSUME PathsInv, [Next]_vars
    PROVE  Ways'
<1> USE DEF PathsInv, NamesInv, StoreInv
<1>1. /\ Rooted' /\ TypeOK /\ TypeOK' /\ curr \in [Clients -> Nodes]
      /\ \A e \in Tree : e \in Tree' => PathOf'[e] = PathOf[e]
  BY PathsStep, TypeStep DEF TypeOK
<1>2. ASSUME NEW c \in Clients, StepOf(c) PROVE WayOf(c)'
  <2>1. CASE lock_store(c)
    BY <1>1, <2>1, WayFromRoot
  <2>2. CASE search_child(c)
    BY <2>2, WayDown
  <2>3. CASE add_missing(c)
    <3>1. /\ pc[c] = "search" /\ pc'[c] = "create"
          /\ UNCHANGED <<call, curr, deepness, parent, dir_name>>
      BY <1>1, <2>3 DEF add_missing, Searched, Goto, treeVars, localVars, TypeOK
    <3>2. text(c)' = text(c) /\ PathOf' = PathOf
      BY <3>1, PathsOfTree DEF text
    <3> QED
      BY <3>1, <3>2 DEF Ways, WayOf
  <2>4. CASE add_create(c)
    <3>1. /\ pc[c] = "create" /\ pc'[c] = "search" /\ UNCHANGED <<call, curr, deepness>>
          /\ text(c)' = text(c)
      BY <1>1, <2>4 DEF add_create, Goto, TypeOK, text
    <3>2. curr[c] \in Tree /\ curr[c] \in Tree'
      <4>1. PICK e \in Entries : curr[c] \in Tree /\ allocations' = allocations \cup {e}
        BY <2>4, CreateNamed
      <4> QED
        BY <4>1 DEF Tree
    <3>3. PathOf'[curr'[c]] = PathOf[curr[c]]
      BY <1>1, <3>1, <3>2
    <3> QED
      BY <3>1, <3>3 DEF Ways, WayOf
  <2>5. CASE \/ check_inode_hit(c) \/ check_inode_miss(c)
             \/ process_path_store(c) \/ process_path_refuse(c) \/ process_path_dots(c)
             \/ \E x \in Calls : Call(c, x)
    BY <2>5, WayToLock
  <2>6. CASE add_empty_token(c) \/ add_mark(c) \/ rm_absent(c) \/ rm_done(c) \/ check_result(c)
    <3>1. pc'[c] = "idle" /\ deepness'[c] = 0
      BY <1>1, <2>6 DEF add_empty_token, add_mark, rm_absent, rm_done, check_result, Return,
                        Goto, TypeOK
    <3> QED
      BY <3>1 DEF WayOf
  <2>7. CASE rm_unmark(c) \/ rm_free(c)
    <3>1. pc[c] # "idle" /\ pc'[c] = "up" /\ UNCHANGED call
      BY <1>1, <2>7 DEF rm_unmark, rm_free, Searched, Goto, localVars, TypeOK
    <3> QED
      BY <3>1 DEF Ways, WayOf
  <2> QED
    BY <1>2, <2>1, <2>2, <2>3, <2>4, <2>5, <2>6, <2>7 DEF StepOf, Proceed
<1>3. ASSUME NEW c \in Clients, StepOf(c) PROVE Ways'
  BY <1>2, <1>3, WayOfOther DEF Ways
<1>4. CASE refresh_nonces \/ UNCHANGED vars
  <2>1. UNCHANGED <<pc, call, deepness, curr, parent, dir_name>>
    BY <1>4 DEF refresh_nonces, vars, treeVars, localVars
  <2>2. PathOf' = PathOf /\ \A c \in Clients : text(c)' = text(c)
    BY <2>1, PathsOfTree DEF text
  <2> QED
    BY <2>1, <2>2 DEF Ways, WayOf
<1> QED
  BY <1>3, <1>4 DEF Next, StepOf

-----------------------------------------------------------------------------
(* PathsInv holds before the first call. *)
LEMMA PathsInvStart == Init => PathsInv
<1> SUFFICES ASSUME Init PROVE PathsInv
  OBVIOUS
<1> DEFINE f == [e \in Nodes |-> IF e = Root THEN <<>> ELSE <<Empty>>]
<1>1. /\ parent = [e \in Nodes |-> Root] /\ dir_name = [e \in Nodes |-> Empty]
      /\ allocations = {} /\ Root \in Nodes
  BY DEF Init, Nodes
<1>2. Empty \in Seq(STRING) /\ <<>> \in Seq(Seq(STRING)) /\ <<Empty>> \in Seq(Seq(STRING))
      /\ <<Empty>> = Append(<<>>, Empty)
  BY DEF Empty
<1>3. IsPaths(f, parent, dir_name)
  BY <1>1, <1>2 DEF IsPaths
<1>4. PathOf = f
  BY <1>1, <1>2, <1>3, PathsUnique, PathsOfTree
<1>5. Rooted
  <2>1. \A e \in Entries \ allocations : parent[e] = Root
    BY <1>1 DEF Nodes
  <2> QED
    BY <1>1, <1>3, <1>4, <2>1, FS_EmptySet DEF Rooted
<1>6. Ways
  BY DEF Init, Ways, WayOf
<1> QED
  BY <1>5, <1>6, NamesInvStart DEF PathsInv

(* Where the indices are not disturbed, PathsInv is inductive. *)
LEMMA PathsInvStep ==
    ASSUME Undisturbed
    PROVE  PathsInv /\ [Next]_vars => PathsInv'
BY NamesInvStep, PathsStep, WaysStep DEF PathsInv

(* Calls stand in the tree where their texts lead (path_store.c:118-318).  *)
THEOREM PathsInvariant ==
    ASSUME Undisturbed
    PROVE  Spec => []PathsInv
BY PathsInvStart, PathsInvStep, PTL DEF Spec

-----------------------------------------------------------------------------
(***************************************************************************)
(* What the abstract store makes of a state, and that each answer is the   *)
(* one it would give.                                                      *)
(***************************************************************************)

(* The abstract store reads a text as PathStore does. *)
LEMMA SameReading ==
    ASSUME NEW p
    PROVE  /\ Store!Malformed(p) = Malformed(p) /\ Store!Tokens(p) = Tokens(p)
           /\ Store!HasEmptyToken(p) = HasEmptyToken(p) /\ Store!Failure(p) = Failure(p)
<1>1. Store!Absolute(p) = Absolute(p)
  BY DEF Store!Absolute, Absolute
<1>2. Store!Starts(p) = Starts(p)
  BY DEF Store!Starts, Starts, Store!Kept, Kept, Store!Slashes, Slashes, Store!Nth, Nth,
         Store!Cardinality, Cardinality, Store!IsFiniteSet, IsFiniteSet
<1>3. \A i : Store!TokenAt(p, i) = TokenAt(p, i)
  BY DEF Store!TokenAt, TokenAt, Store!Min, Min
<1>4. Store!Tokens(p) = Tokens(p)
  BY <1>2, <1>3 DEF Store!Tokens, Tokens
<1>5. Store!Malformed(p) = Malformed(p)
  BY <1>1, <1>2, <1>4 DEF Store!Malformed, Malformed, Store!Exceeds, Exceeds,
                          Store!TrailingSlash, TrailingSlash, Store!Dots, Dots
<1>6. Store!HasEmptyToken(p) = HasEmptyToken(p)
  BY <1>4 DEF Store!HasEmptyToken, HasEmptyToken, Store!Empty, Empty
<1> QED
  BY <1>4, <1>5, <1>6 DEF Store!Failure, Failure

(* The prefixes of the protected paths, as the abstract store forms them. *)
PrefixesOf(P) == {<<>>} \cup UNION {Prefixes(p) : p \in P}

(* While the store is unlocked the paths of the tree are the prefixes of   *)
(* the protected ones.                                                     *)
LEMMA TreePaths ==
    ASSUME PathsInv, writer = Nobody
    PROVE  PrefixesOf(Protected) = {PathOf[e] : e \in Tree}
<1> USE DEF PathsInv, NamesInv
<1>1. Grown
  BY DEF Grown
<1>2. \A e \in Tree : Prefixes(PathOf[e]) = {Prefix(PathOf[e], m) : m \in 0 .. Len(PathOf[e])}
  <2>1. \A e \in Tree : PathOf[e] \in Seq(Seq(STRING))
    BY <1>1, PathFacts
  <2> QED
    BY <2>1, PrefixIs
<1>3. ASSUME NEW x \in PrefixesOf(Protected) PROVE \E e \in Tree : x = PathOf[e]
  <2>1. CASE x = <<>>
    BY <1>1, <2>1, PathFacts
  <2>2. CASE x # <<>>
    <3>1. PICK e \in Tree : x \in Prefixes(PathOf[e])
      BY <1>3, <2>2 DEF PrefixesOf, Protected
    <3>2. PICK m \in 0 .. Len(PathOf[e]) : x = Prefix(PathOf[e], m)
      BY <1>2, <3>1
    <3> QED
      BY <1>1, <3>2, Ancestor
  <2> QED
    BY <2>1, <2>2
<1>4. ASSUME NEW e \in Tree PROVE PathOf[e] \in PrefixesOf(Protected)
  <2>1. CASE e = Root
    BY <1>1, <2>1, PathFacts DEF PrefixesOf
  <2>2. CASE e # Root
    <3> DEFINE n == Len(PathOf[e])
               D == {d \in allocations : /\ n <= Len(PathOf[d])
                                         /\ Prefix(PathOf[d], n) = PathOf[e]}
               L == {Len(PathOf[d]) : d \in D}
    <3>1. /\ e \in allocations /\ PathOf[e] \in Seq(Seq(STRING)) /\ n \in Nat
          /\ \A d \in allocations : PathOf[d] \in Seq(Seq(STRING)) /\ Len(PathOf[d]) \in Nat
      BY <1>1, <2>2, PathFacts DEF Tree
    <3>2. e \in D
      BY <3>1, PrefixEnds
    <3>3. IsFiniteSet(D)
      BY FS_Subset DEF Rooted
    <3>4. IsFiniteSet(L) /\ L # {} /\ L \in SUBSET Int
      <4>1. L \in SUBSET Int
        BY <3>1
      <4> DEFINE long == [d \in D |-> Len(PathOf[d])]
      <4>2. long \in Surjection(D, L)
        BY DEF Surjection
      <4>3. IsFiniteSet(L)
        BY <3>3, <4>2, FS_Surjection
      <4> QED
        BY <3>2, <4>1, <4>3
    <3>5. PICK d \in D : \A b \in D : Len(PathOf[b]) <= Len(PathOf[d])
      <4>1. PICK m \in L : \A i \in L : i <= m
        BY <3>4, GreatestOfSome
      <4> QED
        BY <4>1
    <3>6. children[d] = <<>>
      <4> SUFFICES ASSUME children[d] # <<>> PROVE FALSE
        OBVIOUS
      <4>1. /\ children[d] \in Seq(Entries)
            /\ Range(children[d]) = {b \in allocations : parent[b] = d}
        BY DEF StoreInv, TypeOK, Hangs, Tree, Nodes
      <4>2. PICK b \in allocations : parent[b] = d
        BY <4>1, HeadTail
      <4>3. /\ PathOf[b] = Append(PathOf[d], dir_name[b]) /\ dir_name[b] \in Seq(STRING)
            /\ Len(PathOf[b]) = Len(PathOf[d]) + 1
        BY <1>1, <4>2, PathFacts
      <4>4. /\ n \in 0 .. Len(PathOf[d]) /\ PathOf[d] \in Seq(Seq(STRING))
            /\ Len(PathOf[d]) \in Nat
        BY <3>1
      <4>5. Prefix(PathOf[b], n) = PathOf[e]
        BY <3>5, <4>3, <4>4, PrefixAppend
      <4>6. b \in D
        <5>1. n <= Len(PathOf[d]) + 1
          BY <4>4
        <5> QED
          BY <4>3, <4>5, <5>1
      <4>7. ~(Len(PathOf[d]) + 1 <= Len(PathOf[d]))
        BY <4>4
      <4> QED
        BY <3>5, <4>3, <4>6, <4>7
    <3>7. explicited[d] /\ d \in Tree
      BY <3>6 DEF Leaves, Tree
    <3>8. PathOf[e] \in Prefixes(PathOf[d])
      <4>1. n \in 0 .. Len(PathOf[d])
        BY <3>1
      <4> QED
        BY <1>2, <3>7, <4>1
    <3>9. PathOf[d] \in Protected
      BY <3>7 DEF Protected
    <3> QED
      BY <3>8, <3>9 DEF PrefixesOf
  <2> QED
    BY <2>1, <2>2
<1> QED
  BY <1>3, <1>4

(* A check answers what the set of the protected paths says. *)
LEMMA ResultIs ==
    ASSUME PathsInv, NEW c \in Clients, Searched(c), call[c].op = "check"
    PROVE  Result(c) = Store!Status(Tokens(text(c)), Protected)
<1> USE DEF PathsInv, NamesInv
<1> DEFINE path == Tokens(text(c))
           k == deepness[c]
           K == PrefixesOf(Protected)
           M == {m \in 0 .. Len(path) : SubSeq(path, 1, m) \in K}
           n == Max(M)
           below == \E x \in K : IsStrictPrefix(SubSeq(path, 1, n), x)
<1>1. /\ Grown /\ pc[c] = "search" /\ tmp[c] = <<>> /\ writer = Nobody
  BY DEF Grown, Searched, StoreInv, StoreLockExcludes, Critical
<1>2. /\ path \in Seq(Seq(STRING)) /\ Len(path) = j[c] /\ j[c] \in Nat /\ k \in 0 .. j[c]
      /\ curr[c] \in Tree /\ PathOf[curr[c]] = Prefix(path, k) /\ Len(PathOf[curr[c]]) = k
  BY <1>1, OnWay
<1>3. K = {PathOf[e] : e \in Tree}
  BY <1>1, TreePaths
<1>4. \A e \in Tree : PathOf[e] \in Seq(Seq(STRING)) /\ Len(PathOf[e]) \in Nat
  BY <1>1, PathFacts
<1>5. k \in M
  BY <1>2, <1>3 DEF Prefix
<1>6. ASSUME NEW m \in M PROVE k >= m
  <2> SUFFICES ASSUME k < m PROVE FALSE
    BY <1>2
  <2>1. PICK e \in Tree : PathOf[e] = Prefix(path, m)
    BY <1>3 DEF Prefix
  <2>2. m \in 0 .. Len(path) /\ k < j[c] /\ k \in 0 .. m /\ k + 1 \in 1 .. m /\ k \in Nat
    BY <1>2
  <2>3. Len(PathOf[e]) = m /\ PathOf[e][k + 1] = path[k + 1]
    BY <1>2, <2>1, <2>2, PrefixType
  <2>4. Prefix(PathOf[e], k) = PathOf[curr[c]]
    BY <1>2, <2>1, <2>2, PrefixOfPrefix
  <2> QED
    BY <1>1, <2>2, <2>3, <2>4, NoFurther DEF Token
<1>7. n = k
  <2>1. M \in SUBSET Int
    OBVIOUS
  <2> HIDE DEF M
  <2>2. n \in M /\ \A m \in M : n >= m
    BY <1>5, <1>6 DEF Max
  <2> QED
    BY <1>5, <1>6, <2>1, <2>2
<1>8. below <=> children[curr[c]] # <<>>
  <2>1. below <=> \E e \in Tree : IsStrictPrefix(PathOf[curr[c]], PathOf[e])
    BY <1>2, <1>3, <1>7 DEF Prefix
  <2>2. /\ children[curr[c]] \in Seq(Entries)
        /\ Range(children[curr[c]]) = {e \in allocations : parent[e] = curr[c]}
    BY <1>2 DEF StoreInv, TypeOK, Hangs, Tree, Nodes
  <2>3. ASSUME NEW e \in Tree, IsStrictPrefix(PathOf[curr[c]], PathOf[e])
        PROVE  children[curr[c]] # <<>>
    <3>1. /\ Len(PathOf[curr[c]]) <= Len(PathOf[e]) /\ PathOf[curr[c]] # PathOf[e]
          /\ PathOf[curr[c]] = Prefix(PathOf[e], Len(PathOf[curr[c]]))
      BY <1>2, <1>4, <2>3, PrefixIs DEF IsStrictPrefix
    <3>2. Len(PathOf[curr[c]]) # Len(PathOf[e])
      BY <1>4, <3>1, PrefixEnds
    <3>3. Len(PathOf[curr[c]]) < Len(PathOf[e]) /\ Len(PathOf[curr[c]]) \in Nat
      BY <1>2, <1>4, <3>1, <3>2
    <3> DEFINE m == Len(PathOf[curr[c]])
    <3>4. PICK d \in allocations : parent[d] = curr[c]
      <4>1. m \in Nat /\ m < Len(PathOf[e]) /\ PathOf[curr[c]] = Prefix(PathOf[e], m)
        BY <3>1, <3>3
      <4>2. Grown /\ curr[c] \in Tree /\ e \in Tree
        BY <1>1, <1>2, <2>3
      <4> DEFINE a == curr[c]
      <4>3. a \in Tree /\ PathOf[a] = Prefix(PathOf[e], m)
        BY <4>1, <4>2
      <4> HIDE DEF m, a
      <4>4. \E d \in allocations : parent[d] = a /\ dir_name[d] = PathOf[e][m + 1]
        BY <4>1, <4>2, <4>3, ChildOnPath
      <4> QED
        BY <4>4 DEF a
    <3>5. d \in Range(children[curr[c]]) /\ Range(<<>>) = {}
      BY <2>2, <3>4 DEF Range
    <3> QED
      BY <3>5
  <2>4. ASSUME children[curr[c]] # <<>>
        PROVE  \E e \in Tree : IsStrictPrefix(PathOf[curr[c]], PathOf[e])
    <3>1. PICK d \in allocations : parent[d] = curr[c]
      BY <2>2, <2>4, HeadTail
    <3> DEFINE p == PathOf[curr[c]]
    <3>2. /\ d \in Tree /\ PathOf[d] = Append(p, dir_name[d]) /\ dir_name[d] \in Seq(STRING)
          /\ Len(PathOf[d]) = Len(p) + 1 /\ p \in Seq(Seq(STRING)) /\ Len(p) \in Nat
          /\ PathOf[d] \in Seq(Seq(STRING))
      BY <1>1, <1>2, <1>4, <3>1, PathFacts DEF Tree
    <3> HIDE DEF p
    <3>3. Prefix(PathOf[d], Len(p)) = p
      <4>1. Len(p) \in 0 .. Len(p)
        BY <3>2
      <4>2. Prefix(PathOf[d], Len(p)) = Prefix(p, Len(p))
        BY <3>2, <4>1, PrefixAppend
      <4> QED
        BY <3>2, <4>2, PrefixEnds
    <3>4. Len(p) <= Len(PathOf[d]) /\ p # PathOf[d]
      BY <3>2
    <3>5. IsStrictPrefix(p, PathOf[d])
      BY <3>2, <3>3, <3>4, PrefixIs DEF IsStrictPrefix
    <3> QED
      BY <3>2, <3>5 DEF p
  <2> QED
    BY <2>1, <2>3, <2>4
<1>9. curr[c] = Root <=> k = 0
  <2>1. PathOf[Root] = <<>> /\ Len(<<>>) = 0 /\ \A e \in allocations : Len(PathOf[e]) # 0
    <3>1. \A e \in allocations : /\ Len(PathOf[e]) = Len(PathOf[parent[e]]) + 1
                                 /\ parent[e] \in Tree
      BY <1>1, PathFacts
    <3>2. \A e \in allocations : Len(PathOf[e]) # 0
      BY <1>4, <3>1
    <3> QED
      BY <1>1, <3>2, PathFacts
  <2> QED
    BY <1>2, <2>1 DEF Tree
<1>10. Store!Status(path, Protected) =
          CASE n = 0 /\ ~below -> "MATCH_ROOT"
            [] n = Len(path) /\ ~below /\ n > 0 -> "FULL_MATCH_LEAF"
            [] n = Len(path) /\ below -> "FULL_MATCH_DIR"
            [] n < Len(path) /\ ~below /\ n > 0 -> "SUB_MATCH_LEAF"
            [] n < Len(path) /\ below -> "SUB_MATCH_DIR"
  BY DEF Store!Status, Store!Max, Max, Store!Prefixes, Prefixes, Store!IsStrictPrefix,
         Store!IsPrefix, IsStrictPrefix, IsPrefix, PrefixesOf
<1> HIDE DEF n, below, path, k
<1>11. /\ (n < Len(path)) = (k # j[c]) /\ (n = Len(path)) = (k = j[c])
       /\ (n > 0) = (k # 0) /\ (n = 0) = (k = 0)
  BY <1>2, <1>7
<1> DEFINE leaf == children[curr[c]] = <<>>
           full == k = j[c]
           top == curr[c] = Root
<1>12. Result(c) =
          CASE top /\ leaf -> "MATCH_ROOT"
            [] ~(top /\ leaf) /\ full /\ leaf -> "FULL_MATCH_LEAF"
            [] full /\ ~leaf -> "FULL_MATCH_DIR"
            [] ~(top /\ leaf) /\ ~full /\ leaf -> "SUB_MATCH_LEAF"
            [] ~full /\ ~leaf -> "SUB_MATCH_DIR"
  BY DEF Result, k
<1>13. /\ (top /\ leaf) = (n = 0 /\ ~below)
       /\ (~(top /\ leaf) /\ full /\ leaf) = (n = Len(path) /\ ~below /\ n > 0)
       /\ (full /\ ~leaf) = (n = Len(path) /\ below)
       /\ (~(top /\ leaf) /\ ~full /\ leaf) = (n < Len(path) /\ ~below /\ n > 0)
       /\ (~full /\ ~leaf) = (n < Len(path) /\ below)
  BY <1>8, <1>9, <1>11
<1> HIDE DEF leaf, full, top
<1> QED
  BY <1>10, <1>12, <1>13 DEF path

(* Marks apart, a step leaves the protected paths as they are: an entry    *)
(* that comes or goes is not explicit.                                     *)
LEMMA ProtectedKept ==
    ASSUME PathsInv, [Next]_vars, \A c \in Clients : ~add_mark(c) /\ ~rm_unmark(c)
    PROVE  Protected' = Protected
<1> USE DEF PathsInv, NamesInv, StoreInv
<1>1. /\ explicited \in [Nodes -> BOOLEAN] /\ Root \in Nodes /\ allocations \subseteq Entries
      /\ \A e \in Tree : e \in Tree' => PathOf'[e] = PathOf[e]
  BY PathsStep DEF TypeOK, Nodes
<1>2. ASSUME \A e : (e \in Tree' /\ explicited'[e]) <=> (e \in Tree /\ explicited[e])
      PROVE  Protected' = Protected
  <2>1. {e \in Tree' : explicited'[e]} = {e \in Tree : explicited[e]}
    BY <1>2
  <2>2. \A e \in {x \in Tree : explicited[x]} : PathOf'[e] = PathOf[e]
    BY <1>1, <1>2
  <2> QED
    BY <2>1, <2>2 DEF Protected
<1>3. ASSUME NEW c \in Clients, add_create(c) PROVE Protected' = Protected
  <2>1. PICK e \in Entries \ allocations :
            /\ allocations' = allocations \cup {e} /\ e # Root
            /\ explicited' = [explicited EXCEPT ![e] = FALSE]
    BY <1>3, CreateNamed
  <2>2. e \in Nodes /\ e \notin Tree /\ Tree' = Tree \cup {e} /\ Tree \subseteq Nodes
    BY <1>1, <2>1 DEF Tree, Nodes
  <2>3. ~explicited'[e] /\ \A d \in Nodes : d # e => explicited'[d] = explicited[d]
    BY <1>1, <2>1, <2>2
  <2> QED
    BY <1>2, <2>2, <2>3
<1>4. ASSUME NEW c \in Clients, rm_free(c) PROVE Protected' = Protected
  <2>1. PICK e \in allocations : /\ allocations' = allocations \ {e} /\ e # Root
                                 /\ ~explicited[e]
    BY <1>4, RmFree
  <2>2. UNCHANGED explicited /\ Tree' = Tree \ {e}
    BY <1>4, <2>1 DEF rm_free, Tree
  <2> QED
    BY <1>2, <2>1, <2>2
<1>5. CASE \A c \in Clients : ~add_create(c) /\ ~rm_free(c)
  <2>1. UNCHANGED <<allocations, explicited>>
    BY <1>5 DEF Next, Proceed, vars, treeVars, Call, lock_store, check_inode_hit,
           check_inode_miss, process_path_store, process_path_refuse, process_path_dots,
           search_child, add_empty_token, add_missing, rm_absent, rm_done, check_result,
           refresh_nonces
  <2> QED
    BY <1>2, <2>1 DEF Tree
<1> QED
  BY <1>3, <1>4, <1>5

(* So a step of a client that does not mark. *)
LEMMA ProtectedByMarks ==
    ASSUME PathsInv, [Next]_vars, NEW c \in Clients, StepOf(c), ~add_mark(c), ~rm_unmark(c)
    PROVE  Protected' = Protected
<1>1. ASSUME NEW d \in Clients, add_mark(d) \/ rm_unmark(d) PROVE FALSE
  <2>1. pc[d] = "search" /\ pc'[d] # "search" /\ TypeOK
    BY <1>1 DEF add_mark, rm_unmark, Return, Goto, Searched, PathsInv, NamesInv, StoreInv,
                TypeOK
  <2>2. d # c
    BY <1>1
  <2> QED
    BY <2>1, <2>2, OthersKept
<1> QED
  BY <1>1, ProtectedKept

(* The two steps that change a mark.  Entries have different paths, so the *)
(* mark that goes takes its path with it.                                  *)
LEMMA ProtectedMarked ==
    ASSUME PathsInv, [Next]_vars, NEW c \in Clients, pc[c] = "search",
           UNCHANGED <<allocations, parent, dir_name>>, NEW b \in BOOLEAN,
           explicited' = [explicited EXCEPT ![curr[c]] = b]
    PROVE  Protected' = IF b THEN Protected \cup {PathOf[curr[c]]}
                             ELSE Protected \ {PathOf[curr[c]]}
<1> USE DEF PathsInv, NamesInv, StoreInv
<1> DEFINE x == curr[c]
<1>1. /\ PathOf' = PathOf /\ Tree' = Tree /\ x \in Tree /\ x \in Nodes /\ Tree \subseteq Nodes
      /\ Grown /\ explicited \in [Nodes -> BOOLEAN]
  BY PathsOfTree, RootAssumption
     DEF Tree, NoUseAfterFree, Critical, TypeOK, Grown, Nodes
<1>2. explicited'[x] = b /\ \A d \in Nodes : d # x => explicited'[d] = explicited[d]
  BY <1>1
<1>3. \A d \in Tree : d # x => PathOf[d] # PathOf[x]
  BY <1>1, PathsDiffer
<1>4. Protected' = {PathOf[e] : e \in {n \in Tree : explicited'[n]}}
  BY <1>1 DEF Protected
<1> HIDE DEF x
<1> QED
  BY <1>1, <1>2, <1>3, <1>4 DEF Protected, x

(* A path is protected where the search has found its entry and the mark   *)
(* on it.                                                                  *)
LEMMA ProtectedFound ==
    ASSUME PathsInv, NEW c \in Clients, Searched(c)
    PROVE  Tokens(text(c)) \in Protected <=> deepness[c] = j[c] /\ explicited[curr[c]]
<1> USE DEF PathsInv, NamesInv
<1> DEFINE path == Tokens(text(c))
           k == deepness[c]
<1>1. /\ Grown /\ pc[c] = "search"
  BY DEF Grown, Searched
<1>2. /\ path \in Seq(Seq(STRING)) /\ Len(path) = j[c] /\ j[c] \in Nat /\ k \in 0 .. j[c]
      /\ curr[c] \in Tree /\ PathOf[curr[c]] = Prefix(path, k)
  BY <1>1, OnWay
<1>3. CASE k = j[c]
  <2>1. PathOf[curr[c]] = path
    BY <1>2, <1>3, PrefixEnds
  <2>2. \A e \in Tree : PathOf[e] = path => e = curr[c]
    BY <1>1, <1>2, <2>1, PathsDiffer
  <2> QED
    BY <1>2, <1>3, <2>1, <2>2 DEF Protected
<1>4. CASE k # j[c]
  <2> SUFFICES ASSUME path \in Protected PROVE FALSE
    BY <1>4
  <2>1. PICK e \in Tree : PathOf[e] = path
    BY DEF Protected
  <2>2. k < j[c] /\ k < Len(path)
    BY <1>2, <1>4
  <2> QED
    BY <1>2, <2>1, <2>2, NoFurther DEF Token
<1> QED
  BY <1>3, <1>4

-----------------------------------------------------------------------------
(***************************************************************************)
(* Steps.  Each operation takes effect where it answers, but for a removal,*)
(* which does when the mark is taken away.                                 *)
(***************************************************************************)

(* What the abstract store sees of the answer to a call. *)
Outcome(c) == IF pc[c] = "up" THEN "ok" ELSE ret[c]

(* A step of one client is no news of the calls of the others. *)
LEMMA OthersPending ==
    ASSUME StoreInv, NEW c \in Clients, StepOf(c), NEW d \in Clients, d # c
    PROVE  Pending(d)' = Pending(d) /\ Outcome(d)' = Outcome(d)
<1>1. UNCHANGED <<pc[d], call[d]>>
  BY OthersKept DEF StoreInv
<1>2. ret'[d] = ret[d]
  <2>1. CASE \/ lock_store(c) \/ check_inode_hit(c) \/ check_inode_miss(c)
             \/ process_path_store(c) \/ process_path_refuse(c) \/ process_path_dots(c)
             \/ \E x \in Calls : Call(c, x)
    BY <2>1 DEF StoreInv, TypeOK, localVars, Call, lock_store, check_inode_hit,
                check_inode_miss, process_path_store, process_path_refuse,
                process_path_dots, Return
  <2>2. CASE \/ search_child(c) \/ add_empty_token(c) \/ add_missing(c) \/ add_create(c)
             \/ add_mark(c) \/ rm_absent(c) \/ rm_unmark(c) \/ rm_free(c) \/ rm_done(c)
             \/ check_result(c)
    BY <2>2 DEF StoreInv, TypeOK, localVars, search_child, add_empty_token, add_missing,
                add_create, add_mark, rm_absent, rm_unmark, rm_free, rm_done,
                check_result, Return
  <2> QED
    BY <2>1, <2>2 DEF StepOf, Proceed
<1> QED
  BY <1>1, <1>2 DEF Pending, Outcome, text

(* A call that takes effect. *)
LEMMA Completes ==
    ASSUME StoreInv, NEW c \in Clients, StepOf(c), pc'[c] \in {"idle", "up"}
    PROVE  /\ [d \in Clients |-> Pending(d)]'
                  = [[d \in Clients |-> Pending(d)] EXCEPT ![c] = Store!Idle]
           /\ [d \in Clients |-> IF pc[d] = "up" THEN "ok" ELSE ret[d]]'
                  = [[d \in Clients |-> IF pc[d] = "up" THEN "ok" ELSE ret[d]]
                         EXCEPT ![c] = Outcome(c)']
<1>1. Pending(c)' = Store!Idle
  BY DEF Pending, Store!Idle
<1>2. \A d \in Clients : d # c => Pending(d)' = Pending(d) /\ Outcome(d)' = Outcome(d)
  BY OthersPending
<1>3. [d \in Clients |-> Pending(d)]'
          = [[d \in Clients |-> Pending(d)] EXCEPT ![c] = Store!Idle]
  BY <1>1, <1>2
<1>4. [d \in Clients |-> Outcome(d)]'
          = [[d \in Clients |-> Outcome(d)] EXCEPT ![c] = Outcome(c)']
  BY <1>2
<1> QED
  BY <1>3, <1>4 DEF Outcome

(* A step that the abstract store does not see. *)
LEMMA Unseen ==
    ASSUME StoreInv, NEW c \in Clients, StepOf(c), Protected' = Protected,
           Pending(c)' = Pending(c), Outcome(c)' = Outcome(c)
    PROVE  UNCHANGED Store!absVars
<1>1. \A d \in Clients : Pending(d)' = Pending(d) /\ Outcome(d)' = Outcome(d)
  BY OthersPending
<1>2. [d \in Clients |-> Pending(d)]' = [d \in Clients |-> Pending(d)]
  BY <1>1
<1>3. [d \in Clients |-> Outcome(d)]' = [d \in Clients |-> Outcome(d)]
  BY <1>1
<1> QED
  BY <1>2, <1>3 DEF Store!absVars, Outcome

-----------------------------------------------------------------------------
(* The client's call is one the abstract store has pending. *)
LEMMA PendingIs ==
    ASSUME PathsInv, NEW c \in Clients, pc[c] \notin {"idle", "up"}
    PROVE  /\ [d \in Clients |-> Pending(d)][c].op = call[c].op
           /\ [d \in Clients |-> Pending(d)][c].text = text(c)
           /\ [d \in Clients |-> Pending(d)][c] # Store!Idle
<1>1. call[c] \in Calls
  BY DEF PathsInv, Ways, WayOf
<1>2. call[c].op # "none"
  BY <1>1, CallsAssumption DEF Ops
<1>3. Pending(c) = [op |-> call[c].op, text |-> text(c)]
  BY DEF Pending
<1> QED
  BY <1>2, <1>3 DEF Store!Idle

(* A new call. *)
LEMMA CallMapped ==
    ASSUME PathsInv, [Next]_vars, NEW c \in Clients, NEW x \in Calls, Call(c, x)
    PROVE  Store!Next
<1> USE DEF PathsInv, NamesInv, StoreInv
<1>1. StepOf(c)
  BY DEF StepOf
<1>2. /\ pc[c] = "idle" /\ pc'[c] \in {"oracle", "process"} /\ call'[c] = x /\ ret'[c] = "none"
  BY DEF Call, Goto, TypeOK
<1>3. Protected' = Protected
  <2>1. ~add_mark(c) /\ ~rm_unmark(c)
    BY <1>2 DEF add_mark, rm_unmark, Searched
  <2> QED
    BY <1>1, <2>1, ProtectedByMarks
<1>4. /\ Pending(c) = Store!Idle /\ Pending(c)' = [op |-> x.op, text |-> x.text]
      /\ Outcome(c)' = "none"
  BY <1>2 DEF Pending, Outcome, Store!Idle, text
<1>5. x.op \in Ops /\ x.op # "none"
  BY CallsAssumption DEF Ops
<1>6. \A d \in Clients : d # c => Pending(d)' = Pending(d) /\ Outcome(d)' = Outcome(d)
  BY <1>1, OthersPending
<1>7. [d \in Clients |-> Pending(d)]'
          = [[d \in Clients |-> Pending(d)] EXCEPT ![c] = [op |-> x.op, text |-> x.text]]
  BY <1>4, <1>6
<1>8. [d \in Clients |-> Outcome(d)]' = [[d \in Clients |-> Outcome(d)] EXCEPT ![c] = "none"]
  BY <1>4, <1>6
<1>9. Store!Call(c, x.op, x.text)
  BY <1>3, <1>4, <1>7, <1>8 DEF Store!Call, Outcome
<1>10. [d \in Clients |-> Pending(d)]'[c] # Store!Idle
  BY <1>4, <1>5 DEF Store!Idle
<1>11. x.op \in Store!Ops
  BY <1>5 DEF Ops, Store!Ops
<1> QED
  BY <1>9, <1>10, <1>11 DEF Store!Next

(* A text that is refused is malformed. *)
LEMMA RefuseMapped ==
    ASSUME PathsInv, NEW c \in Clients, StepOf(c), Protected' = Protected,
           \/ process_path_refuse(c)
           \/ process_path_dots(c) /\ Token(c) \in Dots
    PROVE  Store!Refuse(c)
<1> USE DEF PathsInv, NamesInv, StoreInv
<1> DEFINE seen == [d \in Clients |-> Pending(d)]
           outcomes == [d \in Clients |-> IF pc[d] = "up" THEN "ok" ELSE ret[d]]
<1>1. pc[c] = "process"
  BY DEF process_path_refuse, process_path_dots, Stored
<1>2. seen[c].op = call[c].op /\ seen[c].text = text(c) /\ seen[c] # Store!Idle
  BY <1>1, PendingIs
<1>3. Return(c, Failure(call[c].op)) /\ Malformed(text(c))
  <2>1. CASE process_path_refuse(c)
    BY <2>1 DEF process_path_refuse, Malformed
  <2>2. CASE process_path_dots(c) /\ Token(c) \in Dots
    <3>1. Read(c) = {Token(c)} /\ Stored(c) /\ deepness[c] < j[c]
      BY <2>2, ReadToken DEF process_path_dots
    <3>2. Return(c, Failure(call[c].op))
      BY <2>2, <3>1 DEF process_path_dots
    <3>3. text(c) \in Seq(STRING)
      BY CallType DEF text
    <3>4. deepness[c] + 1 \in DOMAIN Tokens(text(c))
      <4>1. DOMAIN Tokens(text(c)) = 1 .. Len(Starts(text(c))) /\ j[c] = Len(Starts(text(c)))
        BY <3>1, <3>3, TokensType DEF Stored
      <4>2. deepness[c] \in Nat /\ j[c] \in Nat
        BY ArgsSizeAssumption DEF TypeOK
      <4>3. deepness[c] + 1 \in 1 .. j[c]
        BY <3>1, <4>2
      <4> QED
        BY <4>1, <4>3
    <3> QED
      BY <2>2, <3>2, <3>4 DEF Malformed, Token
  <2> QED
    BY <2>1, <2>2
<1>4. pc'[c] = "idle" /\ Outcome(c)' = Failure(call[c].op)
  BY <1>3 DEF Return, Goto, TypeOK, Outcome
<1>5. Failure(call[c].op) = Store!Failure(call[c].op) /\ Store!Malformed(text(c))
  BY <1>3, SameReading
<1>6. /\ seen' = [seen EXCEPT ![c] = Store!Idle]
      /\ outcomes' = [outcomes EXCEPT ![c] = Failure(call[c].op)]
  BY <1>4, Completes
<1> QED
  BY <1>2, <1>5, <1>6 DEF Store!Refuse, Store!Complete

(* A check that is answered. *)
LEMMA CheckMapped ==
    ASSUME PathsInv, NEW c \in Clients, StepOf(c), Protected' = Protected,
           check_inode_hit(c) \/ check_result(c)
    PROVE  Store!Check(c)
<1> USE DEF PathsInv, NamesInv, StoreInv
<1> DEFINE seen == [d \in Clients |-> Pending(d)]
           outcomes == [d \in Clients |-> IF pc[d] = "up" THEN "ok" ELSE ret[d]]
<1>1. pc[c] \in {"oracle", "search"} /\ call[c].op = "check"
  BY DEF check_inode_hit, check_result, Searched, Ways, WayOf
<1>2. seen[c].op = call[c].op /\ seen[c].text = text(c)
  BY <1>1, PendingIs
<1>3. CASE check_inode_hit(c)
  <2>1. pc'[c] = "idle" /\ Outcome(c)' = "MATCH_INODE"
    BY <1>3 DEF check_inode_hit, Return, Goto, TypeOK, Outcome
  <2>2. /\ seen' = [seen EXCEPT ![c] = Store!Idle]
        /\ outcomes' = [outcomes EXCEPT ![c] = "MATCH_INODE"]
    BY <2>1, Completes
  <2> QED
    BY <1>1, <1>2, <2>2 DEF Store!Check, Store!Complete
<1>4. CASE check_result(c)
  <2>1. /\ pc'[c] = "idle" /\ Outcome(c)' = Result(c)
        /\ Searched(c) /\ pc[c] = "search"
    BY <1>4 DEF check_result, Searched, Return, Goto, TypeOK, Outcome
  <2>2. Result(c) = Store!Status(Tokens(text(c)), Protected)
    BY <1>1, <2>1, ResultIs
  <2>3. ~Store!Malformed(text(c)) /\ Store!Tokens(text(c)) = Tokens(text(c))
    BY <2>1, SameReading DEF Ways, WayOf
  <2>4. /\ seen' = [seen EXCEPT ![c] = Store!Idle]
        /\ outcomes' = [outcomes EXCEPT ![c] = Result(c)]
    BY <2>1, Completes
  <2> QED
    BY <1>1, <1>2, <2>2, <2>3, <2>4 DEF Store!Check, Store!Complete
<1> QED
  BY <1>3, <1>4

(* An addition: the mark is where the whole path leads. *)
LEMMA AddMapped ==
    ASSUME PathsInv, [Next]_vars, NEW c \in Clients, StepOf(c),
           (add_empty_token(c) /\ Protected' = Protected) \/ add_mark(c)
    PROVE  Store!Add(c)
<1> USE DEF PathsInv, NamesInv, StoreInv
<1> DEFINE path == Tokens(text(c))
           seen == [d \in Clients |-> Pending(d)]
           outcomes == [d \in Clients |-> IF pc[d] = "up" THEN "ok" ELSE ret[d]]
<1>1. Searched(c) /\ pc[c] = "search" /\ call[c].op = "add"
  BY DEF add_empty_token, add_mark, Searched
<1>2. seen[c].op = call[c].op /\ seen[c].text = text(c)
  BY <1>1, PendingIs
<1>3. ~Malformed(text(c)) /\ \A k \in 1 .. deepness[c] : path[k] # Empty
  BY <1>1 DEF Ways, WayOf
<1>4. /\ path \in Seq(Seq(STRING)) /\ Len(path) = j[c] /\ j[c] \in Nat
      /\ deepness[c] \in 0 .. j[c] /\ PathOf[curr[c]] = Prefix(path, deepness[c])
  BY <1>1, OnWay
<1>5. DOMAIN path = 1 .. j[c]
  BY <1>4
<1>6. CASE add_empty_token(c) /\ Protected' = Protected
  <2>1. Return(c, "fail") /\ deepness[c] # j[c] /\ Empty \in Read(c)
    BY <1>6 DEF add_empty_token
  <2>2. deepness[c] < j[c] /\ deepness[c] + 1 \in DOMAIN path
    BY <1>4, <1>5, <2>1
  <2>3. path[deepness[c] + 1] = Empty
    BY <2>1, <2>2, ReadToken DEF Token
  <2>4. HasEmptyToken(text(c))
    BY <2>2, <2>3 DEF HasEmptyToken
  <2>5. pc'[c] = "idle" /\ Outcome(c)' = "fail"
    BY <2>1 DEF Return, Goto, TypeOK, Outcome
  <2>6. Store!HasEmptyToken(text(c)) /\ ~Store!Malformed(text(c))
    BY <1>3, <2>4, SameReading
  <2>7. /\ seen' = [seen EXCEPT ![c] = Store!Idle]
        /\ outcomes' = [outcomes EXCEPT ![c] = "fail"]
    BY <2>5, Completes
  <2> QED
    BY <1>1, <1>2, <1>6, <2>6, <2>7 DEF Store!Add, Store!Complete
<1>7. CASE add_mark(c)
  <2>1. /\ Return(c, "ok") /\ deepness[c] = j[c]
        /\ explicited' = [explicited EXCEPT ![curr[c]] = TRUE]
        /\ UNCHANGED <<allocations, parent, dir_name>>
    BY <1>7 DEF add_mark
  <2>2. PathOf[curr[c]] = path
    BY <1>4, <2>1, PrefixEnds
  <2>3. ~HasEmptyToken(text(c))
    BY <1>3, <1>5, <2>1 DEF HasEmptyToken
  <2>4. Protected' = Protected \cup {path}
    <3>1. Protected' = IF TRUE THEN Protected \cup {PathOf[curr[c]]}
                               ELSE Protected \ {PathOf[curr[c]]}
      BY <1>1, <2>1, ProtectedMarked
    <3> QED
      BY <2>2, <3>1
  <2>5. pc'[c] = "idle" /\ Outcome(c)' = "ok"
    BY <2>1 DEF Return, Goto, TypeOK, Outcome
  <2>6. /\ ~Store!HasEmptyToken(text(c)) /\ ~Store!Malformed(text(c))
        /\ Store!Tokens(text(c)) = path
    BY <1>3, <2>3, SameReading
  <2>7. /\ seen' = [seen EXCEPT ![c] = Store!Idle]
        /\ outcomes' = [outcomes EXCEPT ![c] = "ok"]
    BY <2>5, Completes
  <2> QED
    BY <1>1, <1>2, <2>4, <2>6, <2>7 DEF Store!Add, Store!Complete
<1> QED
  BY <1>6, <1>7

(* A removal: the mark that goes is where the whole path leads, and there  *)
(* is no other entry with that path.                                       *)
LEMMA RmMapped ==
    ASSUME PathsInv, [Next]_vars, NEW c \in Clients, StepOf(c),
           (rm_absent(c) /\ Protected' = Protected) \/ rm_unmark(c)
    PROVE  Store!Rm(c)
<1> USE DEF PathsInv, NamesInv, StoreInv
<1> DEFINE path == Tokens(text(c))
           seen == [d \in Clients |-> Pending(d)]
           outcomes == [d \in Clients |-> IF pc[d] = "up" THEN "ok" ELSE ret[d]]
<1>1. Searched(c) /\ pc[c] = "search" /\ call[c].op = "rm"
  BY DEF rm_absent, rm_unmark, Searched
<1>2. seen[c].op = call[c].op /\ seen[c].text = text(c)
  BY <1>1, PendingIs
<1>3. ~Malformed(text(c))
  BY <1>1 DEF Ways, WayOf
<1>4. path \in Protected <=> deepness[c] = j[c] /\ explicited[curr[c]]
  BY <1>1, ProtectedFound
<1>5. CASE rm_absent(c) /\ Protected' = Protected
  <2>1. Return(c, "fail") /\ path \notin Protected
    BY <1>4, <1>5 DEF rm_absent
  <2>2. pc'[c] = "idle" /\ Outcome(c)' = "fail"
    BY <2>1 DEF Return, Goto, TypeOK, Outcome
  <2>3. Protected' = Protected \ {path}
    BY <1>5, <2>1
  <2>4. ~Store!Malformed(text(c)) /\ Store!Tokens(text(c)) = path
    BY <1>3, SameReading
  <2>5. /\ seen' = [seen EXCEPT ![c] = Store!Idle]
        /\ outcomes' = [outcomes EXCEPT ![c] = "fail"]
    BY <2>2, Completes
  <2> QED
    BY <1>1, <1>2, <2>1, <2>3, <2>4, <2>5 DEF Store!Rm, Store!Complete
<1>6. CASE rm_unmark(c)
  <2>1. /\ deepness[c] = j[c] /\ explicited[curr[c]] /\ pc'[c] = "up"
        /\ explicited' = [explicited EXCEPT ![curr[c]] = FALSE]
        /\ UNCHANGED <<allocations, parent, dir_name>>
    BY <1>6 DEF rm_unmark, Goto, TypeOK
  <2>2. path \in Protected
    BY <1>4, <2>1
  <2>3. PathOf[curr[c]] = path
    <3>1. /\ path \in Seq(Seq(STRING)) /\ Len(path) = j[c]
          /\ PathOf[curr[c]] = Prefix(path, deepness[c])
      BY <1>1, OnWay
    <3> QED
      BY <2>1, <3>1, PrefixEnds
  <2>4. Protected' = Protected \ {path}
    <3>1. Protected' = IF FALSE THEN Protected \cup {PathOf[curr[c]]}
                                ELSE Protected \ {PathOf[curr[c]]}
      BY <1>1, <2>1, ProtectedMarked
    <3> QED
      BY <2>3, <3>1
  <2>5. Outcome(c)' = "ok"
    BY <2>1 DEF Outcome
  <2>6. ~Store!Malformed(text(c)) /\ Store!Tokens(text(c)) = path
    BY <1>3, SameReading
  <2>7. /\ seen' = [seen EXCEPT ![c] = Store!Idle]
        /\ outcomes' = [outcomes EXCEPT ![c] = "ok"]
    BY <2>1, <2>5, Completes
  <2> QED
    BY <1>1, <1>2, <2>2, <2>4, <2>6, <2>7 DEF Store!Rm, Store!Complete
<1> QED
  BY <1>5, <1>6

(* Every step of a client is one of the abstract store, or changes nothing *)
(* of what that store sees.                                                *)
LEMMA StepMapped ==
    ASSUME PathsInv, [Next]_vars
    PROVE  [Store!Next]_Store!absVars
<1> USE DEF PathsInv, NamesInv, StoreInv
<1>1. ASSUME NEW c \in Clients, StepOf(c), add_mark(c) \/ rm_unmark(c)
      PROVE  Store!Next
  BY <1>1, AddMapped, RmMapped DEF Store!Next
<1>2. ASSUME NEW c \in Clients, StepOf(c), ~add_mark(c), ~rm_unmark(c)
      PROVE  Store!Next \/ UNCHANGED Store!absVars
  <2>1. Protected' = Protected
    BY <1>2, ProtectedByMarks
  <2>2. CASE \E x \in Calls : Call(c, x)
    BY <2>2, CallMapped
  <2>3. CASE process_path_refuse(c) \/ (process_path_dots(c) /\ Token(c) \in Dots)
    BY <1>2, <2>1, <2>3, RefuseMapped DEF Store!Next
  <2>4. CASE check_inode_hit(c) \/ check_result(c)
    BY <1>2, <2>1, <2>4, CheckMapped DEF Store!Next
  <2>5. CASE add_empty_token(c)
    BY <1>2, <2>1, <2>5, AddMapped DEF Store!Next
  <2>6. CASE rm_absent(c)
    BY <1>2, <2>1, <2>6, RmMapped DEF Store!Next
  <2>7. CASE \/ check_inode_miss(c) \/ process_path_store(c) \/ lock_store(c)
             \/ process_path_dots(c) /\ Token(c) \notin Dots
    <3>1. UNCHANGED <<call, ret>>
      <4>1. CASE process_path_dots(c) /\ Token(c) \notin Dots
        <5>1. Read(c) = {Token(c)}
          BY <4>1, ReadToken DEF process_path_dots
        <5> QED
          BY <4>1, <5>1 DEF process_path_dots
      <4> QED
        BY <2>7, <4>1 DEF check_inode_miss, process_path_store, lock_store, localVars
    <3>2. pc[c] \in {"oracle", "process"} /\ pc'[c] \in {"process", "search"}
      <4>1. CASE process_path_dots(c) /\ Token(c) \notin Dots
        <5>1. Read(c) = {Token(c)}
          BY <4>1, ReadToken DEF process_path_dots
        <5> QED
          BY <4>1, <5>1 DEF process_path_dots, Stored
      <4> QED
        BY <2>7, <4>1 DEF check_inode_miss, process_path_store, lock_store, AtLock, Stored,
                          Goto, TypeOK
    <3>3. Pending(c)' = Pending(c) /\ Outcome(c)' = Outcome(c)
      BY <3>1, <3>2 DEF Pending, Outcome, text
    <3> QED
      BY <1>2, <2>1, <3>3, Unseen
  <2>8. CASE search_child(c) \/ add_missing(c) \/ add_create(c)
    <3>1. /\ pc[c] \in {"search", "create"} /\ pc'[c] \in {"search", "create"}
          /\ UNCHANGED <<call, ret>>
      BY <2>8 DEF search_child, add_missing, add_create, Searched, Goto, localVars, TypeOK
    <3>2. Pending(c)' = Pending(c) /\ Outcome(c)' = Outcome(c)
      BY <3>1 DEF Pending, Outcome, text
    <3> QED
      BY <1>2, <2>1, <3>2, Unseen
  <2>9. CASE rm_free(c) \/ rm_done(c)
    <3>1. /\ pc[c] = "up" /\ pc'[c] \in {"up", "idle"}
          /\ pc'[c] = "idle" => ret'[c] = "ok"
      BY <2>9 DEF rm_free, rm_done, Return, Goto, TypeOK
    <3>2. Pending(c)' = Pending(c) /\ Outcome(c)' = Outcome(c)
      BY <3>1 DEF Pending, Outcome
    <3> QED
      BY <1>2, <2>1, <3>2, Unseen
  <2>10. \/ \E x \in Calls : Call(c, x)
         \/ process_path_refuse(c) \/ process_path_dots(c)
         \/ check_inode_hit(c) \/ check_result(c)
         \/ add_empty_token(c) \/ rm_absent(c)
         \/ check_inode_miss(c) \/ process_path_store(c) \/ lock_store(c)
         \/ search_child(c) \/ add_missing(c) \/ add_create(c)
         \/ rm_free(c) \/ rm_done(c)
    BY <1>2 DEF StepOf, Proceed
  <2> QED
    BY <2>2, <2>3, <2>4, <2>5, <2>6, <2>7, <2>8, <2>9, <2>10
<1>3. CASE refresh_nonces \/ UNCHANGED vars
  <2>1. UNCHANGED <<allocations, parent, dir_name, explicited, pc, call, ret>>
    BY <1>3 DEF refresh_nonces, vars, treeVars, localVars
  <2>2. Protected' = Protected
    BY <2>1, PathsOfTree DEF Protected, Tree
  <2>3. \A c \in Clients : Pending(c)' = Pending(c)
    BY <2>1 DEF Pending, text
  <2>4. [c \in Clients |-> Pending(c)]' = [c \in Clients |-> Pending(c)]
    BY <2>3
  <2> QED
    BY <2>1, <2>2, <2>4 DEF Store!absVars
<1> QED
  BY <1>1, <1>2, <1>3 DEF Next, StepOf

(* The initial tree has no explicit entry. *)
LEMMA InitMapped == Init => Store!Init
<1> SUFFICES ASSUME Init PROVE Store!Init
  OBVIOUS
<1>1. Protected = {}
  BY DEF Init, Protected, Tree, Nodes
<1> QED
  BY <1>1 DEF Init, Store!Init, Pending, Store!Idle

(***************************************************************************)
(* add, rm and check of path_store.c take effect each at one instant on    *)
(* the set of the protected paths and answer what that set says, for any   *)
(* number of clients whose texts agree on the indices of their tokens, and *)
(* for one client with any texts.                                          *)
(***************************************************************************)
THEOREM StoreImplements ==
    ASSUME Undisturbed
    PROVE  Spec => ImplementsProtectedPaths
BY InitMapped, StepMapped, PathsInvariant, PTL
   DEF Spec, ImplementsProtectedPaths, Store!Spec
=============================================================================
