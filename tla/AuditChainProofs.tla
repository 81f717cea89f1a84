---------------------------- MODULE AuditChainProofs ----------------------------
(***************************************************************************)
(* Theorems about AuditChain, for every value of its constants: any number  *)
(* of concurrent appends, of scopes and of attempts.                        *)
(***************************************************************************)
EXTENDS AuditChain, TLAPS, SequenceTheorems, FiniteSetTheorems

(***************************************************************************)
(* The shape of the state.  Digests nest without bound, so the table has no *)
(* set of rows to be typed with: it is a sequence over some set.            *)
(***************************************************************************)

Shape ==
  /\ \E S : rows \in Seq(S)
  /\ pc \in [Appends -> {"idle", "digesting"} \cup Ended]
  /\ scopeOf \in [Appends -> Scopes]
  /\ DOMAIN seen = Appends /\ DOMAIN receipt = Appends
  /\ \A i \in DOMAIN rows : rows[i].event \in Appends

\* What a commit does to the table: one row more, at its end.
LEMMA CommitAppendsRow ==
  ASSUME Shape, NEW a \in Appends, Commit(a)
  PROVE  /\ \E S : rows' \in Seq(S)
         /\ Len(rows) \in Nat /\ DOMAIN rows = 1 .. Len(rows)
         /\ Len(rows') = Len(rows) + 1 /\ DOMAIN rows' = 1 .. (Len(rows) + 1)
         /\ \A i \in DOMAIN rows : rows'[i] = rows[i]
         /\ rows'[Len(rows) + 1] = RowOf(a)
  <1>1. PICK S : rows \in Seq(S)
    BY DEF Shape
  <1> DEFINE T == S \cup {RowOf(a)}
  <1>2. rows \in Seq(T)
    BY <1>1
  <1>3. RowOf(a) \in T
    OBVIOUS
  <1>4. rows' = Append(rows, RowOf(a))
    BY DEF Commit
  <1> HIDE DEF T
  <1>5. /\ rows' \in Seq(T) /\ Len(rows') = Len(rows) + 1
        /\ \A i \in 1 .. Len(rows) : rows'[i] = rows[i]
        /\ rows'[Len(rows) + 1] = RowOf(a)
    BY <1>2, <1>3, <1>4, AppendProperties
  <1>6. Len(rows) \in Nat /\ DOMAIN rows = 1 .. Len(rows)
    BY <1>2
  <1>7. DOMAIN rows' = 1 .. Len(rows')
    BY <1>5
  <1>8. QED
    BY <1>5, <1>6, <1>7

\* The shape is inductive.
LEMMA ShapeStep ==
  ASSUME Shape, [Next]_vars
  PROVE  Shape'
  <1>1. ASSUME NEW a \in Appends, Begin(a) PROVE Shape'
    BY <1>1 DEF Shape, Begin, ReadHead, Ended
  <1>2. ASSUME NEW a \in Appends, Commit(a) PROVE Shape'
    <2>1. pc' \in [Appends -> {"idle", "digesting"} \cup Ended] /\ DOMAIN receipt' = Appends
      BY <1>2 DEF Shape, Commit, Ended
    <2>2. \A i \in DOMAIN rows' : rows'[i].event \in Appends
      <3>1. RowOf(a).event = a
        BY DEF RowOf
      <3>2. /\ Len(rows) \in Nat /\ DOMAIN rows = 1 .. Len(rows)
            /\ DOMAIN rows' = 1 .. (Len(rows) + 1)
            /\ \A i \in DOMAIN rows : rows'[i] = rows[i]
            /\ rows'[Len(rows) + 1] = RowOf(a)
        BY <1>2, CommitAppendsRow
      <3>3. QED
        BY <3>1, <3>2 DEF Shape
    <2>3. \E S : rows' \in Seq(S)
      BY <1>2, CommitAppendsRow
    <2>4. QED
      BY <1>2, <2>1, <2>2, <2>3 DEF Shape, Commit
  <1>3. ASSUME NEW a \in Appends, Retry(a) PROVE Shape'
    BY <1>3 DEF Shape, Retry, ReadHead, Ended
  <1>4. CASE Restart
    BY <1>4 DEF Shape, Restart, Ended
  <1>5. CASE UNCHANGED vars
    BY <1>5 DEF Shape, vars
  <1>6. QED
    BY <1>1, <1>2, <1>3, <1>4, <1>5 DEF Next

\* The table and its readers keep their shape.
THEOREM ShapeCorrect == Spec => []Shape
  <1>1. Init => Shape
    <2> SUFFICES ASSUME Init PROVE Shape
      OBVIOUS
    <2>1. rows \in Seq({})
      BY DEF Init
    <2>2. QED
      BY <2>1 DEF Init, Shape
  <1>2. QED
    BY <1>1, ShapeStep, PTL DEF Spec

(***************************************************************************)
(* One chain.                                                               *)
(***************************************************************************)

\* Only a commit changes the table, and then it extends the head it compared.
LEMMA OnlyCommitWrites ==
  ASSUME [Next]_vars
  PROVE  UNCHANGED <<rows, head, receipt, scopeOf>> \/ \E a \in Appends : Commit(a)
  BY DEF Next, vars, Begin, Retry, Restart

\* The link of every row and of the head is preserved.
LEMMA LinkStep ==
  ASSUME Shape, ChainIsLinked, [Next]_vars
  PROVE  ChainIsLinked'
  <1>1. CASE UNCHANGED <<rows, head, receipt, scopeOf>>
    BY <1>1 DEF ChainIsLinked
  <1>2. ASSUME NEW a \in Appends, Commit(a) PROVE ChainIsLinked'
    <2> DEFINE n == Len(rows)
    <2>1. /\ n \in Nat /\ DOMAIN rows = 1 .. n
          /\ Len(rows') = n + 1 /\ DOMAIN rows' = 1 .. (n + 1)
          /\ \A i \in 1 .. n : rows'[i] = rows[i]
          /\ rows'[n + 1] = RowOf(a)
      BY <1>2, CommitAppendsRow
    <2>2. /\ seen[a].sequence = n
          /\ seen[a].digest = IF n = 0 THEN ZeroDigest ELSE rows[n].eventDigest
      <3>1. rows = <<>> <=> n = 0
        BY <2>1, EmptySeq DEF Shape
      <3>2. QED
        BY <1>2, <3>1 DEF Commit, HeadUnchanged, ChainIsLinked
    <2>3. /\ head'.sequence = n + 1
          /\ head'.digest = RowOf(a).eventDigest
      BY <1>2, <2>2 DEF Commit
    <2>4. rows' # <<>>
      BY <2>1
    <2> HIDE DEF n
    <2>5. ASSUME NEW i \in 1 .. n
          PROVE  /\ rows'[i].previousDigest =
                      IF i = 1 THEN ZeroDigest ELSE rows'[i - 1].eventDigest
                 /\ rows'[i].eventDigest = Digest(i, rows'[i].previousDigest, rows'[i].event)
      <3>1. /\ rows[i].previousDigest =
                  IF i = 1 THEN ZeroDigest ELSE rows[i - 1].eventDigest
            /\ rows[i].eventDigest = Digest(i, rows[i].previousDigest, rows[i].event)
        BY <2>1 DEF ChainIsLinked
      <3>2. i # 1 => i - 1 \in 1 .. n
        BY <2>1
      <3>3. QED
        BY <2>1, <3>1, <3>2
    <2>6. /\ rows'[n + 1].previousDigest =
               IF n + 1 = 1 THEN ZeroDigest ELSE rows'[n].eventDigest
          /\ rows'[n + 1].eventDigest =
               Digest(n + 1, rows'[n + 1].previousDigest, rows'[n + 1].event)
      <3>1. n # 0 => n \in 1 .. n
        BY <2>1
      <3>2. QED
        BY <2>1, <2>2, <3>1 DEF RowOf
    <2>7. \A i \in DOMAIN rows' :
            /\ rows'[i].previousDigest =
                 IF i = 1 THEN ZeroDigest ELSE rows'[i - 1].eventDigest
            /\ rows'[i].eventDigest = Digest(i, rows'[i].previousDigest, rows'[i].event)
      BY <2>1, <2>5, <2>6
    <2>8. QED
      BY <2>1, <2>3, <2>4, <2>7 DEF ChainIsLinked
  <1>3. QED
    BY <1>1, <1>2, OnlyCommitWrites

\* Every state's table is one chain from the zero digest to the head.
THEOREM ChainLinked == Spec => []ChainIsLinked
  <1>1. Init => ChainIsLinked
    BY DEF Init, ChainIsLinked, EmptyHead
  <1>2. QED
    BY <1>1, LinkStep, ShapeCorrect, PTL DEF Spec

(***************************************************************************)
(* One scope, one row per append, and receipts that hold.                   *)
(***************************************************************************)

\* The head names the scope of every row, and an empty table has no scope yet.
ScopeInv ==
  /\ \A i \in DOMAIN rows : head.scope = scopeOf[rows[i].event]
  /\ head.scope = NoScope => rows = <<>>

\* A row is of a committed append, and that append's receipt is the row.
ReceiptInv ==
  /\ \A i \in DOMAIN rows : pc[rows[i].event] = "committed"
  /\ \A i, j \in DOMAIN rows : rows[i].event = rows[j].event => i = j
  /\ \A a \in Appends : pc[a] = "committed" =>
       /\ receipt[a].sequence \in DOMAIN rows
       /\ receipt[a].idempotencyScope = scopeOf[a]
       /\ rows[receipt[a].sequence].event = a
       /\ rows[receipt[a].sequence].previousDigest = receipt[a].previousDigest
       /\ rows[receipt[a].sequence].eventDigest = receipt[a].eventDigest

\* The scope invariant is inductive: a commit's scope is the head's, or the first.
LEMMA ScopeStep ==
  ASSUME Shape, ScopeInv, [Next]_vars
  PROVE  ScopeInv'
  <1>1. CASE UNCHANGED <<rows, head, receipt, scopeOf>>
    BY <1>1 DEF ScopeInv
  <1>2. ASSUME NEW a \in Appends, Commit(a) PROVE ScopeInv'
    <2> DEFINE n == Len(rows)
    <2>1. /\ n \in Nat /\ DOMAIN rows = 1 .. n /\ DOMAIN rows' = 1 .. (n + 1)
          /\ \A i \in 1 .. n : rows'[i] = rows[i]
          /\ rows'[n + 1].event = a
      <3>1. RowOf(a).event = a
        BY DEF RowOf
      <3>2. QED
        BY <1>2, <3>1, CommitAppendsRow
    <2>2. head'.scope = scopeOf[a] /\ scopeOf' = scopeOf
      BY <1>2 DEF Commit
    <2>3. scopeOf[a] # NoScope
      BY NoScopeAssumption DEF Shape
    <2>4. \A i \in 1 .. n : scopeOf[rows[i].event] = scopeOf[a]
      <3>1. CASE head.scope = NoScope
        BY <3>1, <2>1 DEF ScopeInv
      <3>2. CASE head.scope = scopeOf[a]
        BY <3>2, <2>1 DEF ScopeInv
      <3>3. QED
        BY <1>2, <3>1, <3>2 DEF Commit, HeadUnchanged
    <2> HIDE DEF n
    <2>5. \A i \in DOMAIN rows' : head'.scope = scopeOf'[rows'[i].event]
      BY <2>1, <2>2, <2>4
    <2>6. QED
      BY <2>2, <2>3, <2>5 DEF ScopeInv
  <1>3. QED
    BY <1>1, <1>2, OnlyCommitWrites

\* A shard serves one scope, in every state.
THEOREM ScopeBound == Spec => []OneScopePerShard
  <1>1. Init => ScopeInv
    BY DEF Init, ScopeInv, EmptyHead
  <1>2. ScopeInv => OneScopePerShard
    BY DEF ScopeInv, OneScopePerShard
  <1>3. QED
    BY <1>1, <1>2, ScopeStep, ShapeCorrect, PTL DEF Spec

\* Steps that do not commit neither commit nor forget an append.
LEMMA OthersKeepCommitted ==
  ASSUME Shape, [Next]_vars, ~ \E a \in Appends : Commit(a)
  PROVE  \A a \in Appends : pc'[a] = "committed" <=> pc[a] = "committed"
  <1>1. ASSUME NEW a \in Appends, Begin(a) \/ Retry(a)
        PROVE  \A b \in Appends : pc'[b] = "committed" <=> pc[b] = "committed"
    BY <1>1 DEF Shape, Begin, Retry, ReadHead
  <1>2. ASSUME Restart
        PROVE  \A b \in Appends : pc'[b] = "committed" <=> pc[b] = "committed"
    BY <1>2 DEF Shape, Restart
  <1>3. QED
    BY <1>1, <1>2 DEF Next, vars

\* The receipt invariant is inductive.
LEMMA ReceiptStep ==
  ASSUME Shape, ChainIsLinked, ReceiptInv, [Next]_vars
  PROVE  ReceiptInv'
  <1>1. CASE \E a \in Appends : Commit(a)
    <2> PICK a \in Appends : Commit(a)
      BY <1>1
    <2> DEFINE n == Len(rows)
    <2>1. /\ n \in Nat /\ DOMAIN rows = 1 .. n /\ DOMAIN rows' = 1 .. (n + 1)
          /\ \A i \in 1 .. n : rows'[i] = rows[i]
          /\ rows'[n + 1] = RowOf(a)
      BY CommitAppendsRow
    <2>2. /\ RowOf(a).event = a
          /\ RowOf(a).previousDigest = seen[a].digest
      BY DEF RowOf
    <2>3. seen[a].sequence = n
      BY DEF Commit, HeadUnchanged, ChainIsLinked
    <2>4. /\ receipt'[a].sequence = n + 1
          /\ receipt'[a].idempotencyScope = scopeOf[a]
          /\ receipt'[a].previousDigest = seen[a].digest
          /\ receipt'[a].eventDigest = RowOf(a).eventDigest
      BY <2>3 DEF Commit, Shape
    <2>5. /\ \A b \in Appends \ {a} : receipt'[b] = receipt[b] /\ pc'[b] = pc[b]
          /\ pc[a] = "digesting" /\ pc'[a] = "committed" /\ scopeOf' = scopeOf
      BY DEF Commit, Shape
    <2> HIDE DEF n
    <2>6. \A i \in 1 .. n : rows[i].event \in Appends \ {a}
      BY <2>1, <2>5 DEF ReceiptInv, Shape
    <2>7. \A i \in DOMAIN rows' : pc'[rows'[i].event] = "committed"
      BY <2>1, <2>2, <2>5, <2>6 DEF ReceiptInv
    <2>8. \A i, j \in DOMAIN rows' : rows'[i].event = rows'[j].event => i = j
      BY <2>1, <2>2, <2>6 DEF ReceiptInv
    <2>9. ASSUME NEW b \in Appends, pc'[b] = "committed"
          PROVE  /\ receipt'[b].sequence \in DOMAIN rows'
                 /\ receipt'[b].idempotencyScope = scopeOf'[b]
                 /\ rows'[receipt'[b].sequence].event = b
                 /\ rows'[receipt'[b].sequence].previousDigest = receipt'[b].previousDigest
                 /\ rows'[receipt'[b].sequence].eventDigest = receipt'[b].eventDigest
      <3>1. CASE b = a
        BY <2>1, <2>2, <2>4, <2>5, <3>1
      <3>2. CASE b # a
        BY <2>1, <2>5, <2>9, <3>2 DEF ReceiptInv
      <3>3. QED
        BY <3>1, <3>2
    <2>10. QED
      BY <2>7, <2>8, <2>9 DEF ReceiptInv
  <1>2. CASE ~ \E a \in Appends : Commit(a)
    <2>1. UNCHANGED <<rows, head, receipt, scopeOf>>
      BY <1>2, OnlyCommitWrites
    <2>2. \A a \in Appends : pc'[a] = "committed" <=> pc[a] = "committed"
      BY <1>2, OthersKeepCommitted
    <2>3. QED
      BY <2>1, <2>2 DEF ReceiptInv, Shape
  <1>3. QED
    BY <1>1, <1>2

\* The receipt invariant holds in every state.
LEMMA ReceiptInvariant == Spec => []ReceiptInv
  <1>1. Init => ReceiptInv
    BY DEF Init, ReceiptInv
  <1>2. QED
    BY <1>1, ReceiptStep, ChainLinked, ShapeCorrect, PTL DEF Spec

\* Every committed append's receipt verifies for its event alone, and the row it
\* names is that event's: verifyReceipt is right without asking the chain.
THEOREM ReceiptsHold == Spec => []ReceiptProvesRow
  <1>1. Shape /\ ChainIsLinked /\ ReceiptInv => ReceiptProvesRow
    <2> SUFFICES ASSUME Shape, ChainIsLinked, ReceiptInv,
                        NEW a \in Appends, NEW b \in Appends, pc[a] = "committed"
                 PROVE  /\ VerifyReceipt(receipt[a], b) <=> a = b
                        /\ rows[receipt[a].sequence].event = a
                        /\ rows[receipt[a].sequence].eventDigest = receipt[a].eventDigest
      BY DEF ReceiptProvesRow
    <2> DEFINE k == receipt[a].sequence
    <2>1. /\ k \in DOMAIN rows /\ rows[k].event = a
          /\ rows[k].previousDigest = receipt[a].previousDigest
          /\ rows[k].eventDigest = receipt[a].eventDigest
          /\ receipt[a].idempotencyScope = scopeOf[a]
      BY DEF ReceiptInv
    <2>2. receipt[a].eventDigest = <<k, receipt[a].previousDigest, a>>
      BY <2>1 DEF ChainIsLinked, Digest
    <2>3. k >= 1
      BY <2>1 DEF Shape
    <2> HIDE DEF k
    <2>4. <<k, receipt[a].previousDigest, a>> = <<k, receipt[a].previousDigest, b>>
            <=> a = b
      OBVIOUS
    <2>5. VerifyReceipt(receipt[a], b) <=> a = b
      BY <2>1, <2>2, <2>3, <2>4 DEF VerifyReceipt, Digest, k
    <2>6. QED
      BY <2>1, <2>5 DEF k
  <1>2. QED
    BY <1>1, ReceiptInvariant, ChainLinked, ShapeCorrect, PTL

\* An event is on the chain once if its append returned a receipt, else not at all.
THEOREM CommittedOnce == Spec => []CommittedExactlyOnce
  <1>1. Shape /\ ReceiptInv => CommittedExactlyOnce
    <2> SUFFICES ASSUME Shape, ReceiptInv, NEW a \in Appends
                 PROVE  Cardinality({i \in DOMAIN rows : rows[i].event = a}) =
                          IF pc[a] = "committed" THEN 1 ELSE 0
      BY DEF CommittedExactlyOnce
    <2>1. CASE pc[a] = "committed"
      <3>1. {i \in DOMAIN rows : rows[i].event = a} = {receipt[a].sequence}
        BY <2>1 DEF ReceiptInv
      <3>2. QED
        BY <2>1, <3>1, FS_Singleton
    <2>2. CASE pc[a] # "committed"
      <3>1. {i \in DOMAIN rows : rows[i].event = a} = {}
        BY <2>2 DEF ReceiptInv
      <3>2. QED
        BY <2>2, <3>1, FS_EmptySet
    <2>3. QED
      BY <2>1, <2>2
  <1>2. QED
    BY <1>1, ReceiptInvariant, ShapeCorrect, PTL

(***************************************************************************)
(* Contention.                                                              *)
(***************************************************************************)

\* A round that fails has seen the head move: an append in round k has read a head
\* that at least k - 1 commits had moved, and the head never moves back.
ContentionInv ==
  /\ head.sequence \in Nat
  /\ DOMAIN attempt = Appends
  /\ \A a \in Appends :
       /\ pc[a] = "idle" => attempt[a] = 0
       /\ pc[a] = "contended" => head.sequence >= MaxAttempts
       /\ pc[a] = "digesting" =>
            /\ attempt[a] \in 1 .. MaxAttempts
            /\ seen[a].scope \in {NoScope, scopeOf[a]}
            /\ seen[a].sequence \in Nat
            /\ attempt[a] - 1 <= seen[a].sequence /\ seen[a].sequence <= head.sequence
            /\ seen[a].sequence = head.sequence => seen[a] = head

\* The contention invariant is inductive.
LEMMA ContentionStep ==
  ASSUME Shape, ContentionInv, [Next]_vars
  PROVE  ContentionInv'
  <1> USE AttemptsAssumption
  <1>1. ASSUME NEW a \in Appends, Begin(a) PROVE ContentionInv'
    BY <1>1 DEF Shape, ContentionInv, Begin, ReadHead, Mismatched
  <1>2. ASSUME NEW a \in Appends, Commit(a) PROVE ContentionInv'
    <2>1. /\ head'.sequence = head.sequence + 1
          /\ UNCHANGED <<attempt, seen, scopeOf>>
      BY <1>2 DEF Commit, HeadUnchanged
    <2>2. \A b \in Appends : pc'[b] = IF b = a THEN "committed" ELSE pc[b]
      BY <1>2 DEF Commit, Shape
    <2>3. QED
      BY <2>1, <2>2 DEF ContentionInv
  <1>3. ASSUME NEW a \in Appends, Retry(a) PROVE ContentionInv'
    <2>1. head.sequence >= seen[a].sequence + 1
      BY <1>3 DEF Retry, HeadUnchanged, ContentionInv
    <2>2. QED
      BY <1>3, <2>1 DEF Shape, ContentionInv, Retry, ReadHead, Mismatched
  <1>4. CASE Restart
    BY <1>4 DEF Shape, ContentionInv, Restart
  <1>5. CASE UNCHANGED vars
    BY <1>5 DEF ContentionInv, vars
  <1>6. QED
    BY <1>1, <1>2, <1>3, <1>4, <1>5 DEF Next

\* An append gives up only after MaxAttempts other events were committed.
THEOREM GivingUpIsContention == Spec => []ContentionIsReal
  <1>1. Init => ContentionInv
    BY DEF Init, ContentionInv, EmptyHead
  <1>2. ContentionInv /\ ChainIsLinked => ContentionIsReal
    BY DEF ContentionInv, ChainIsLinked, ContentionIsReal
  <1>3. QED
    BY <1>1, <1>2, ContentionStep, ShapeCorrect, ChainLinked, PTL DEF Spec

(***************************************************************************)
(* Type correctness.  It rests on the two invariants above: a round is not  *)
(* started beyond MaxAttempts, and a receipt names the row just written.    *)
(***************************************************************************)

\* One round of the loop up to its await keeps what an append remembers in its types.
LEMMA ReadHeadTyped ==
  ASSUME Shape, TypeOK, ContentionInv, NEW a \in Appends, ReadHead(a),
         pc[a] = "idle" \/ attempt[a] < MaxAttempts
  PROVE  /\ attempt' \in [Appends -> 0 .. MaxAttempts]
         /\ \A b \in Appends :
              seen'[b].sequence \in Nat /\ seen'[b].scope \in Scopes \cup {NoScope}
  <1>1. CASE UNCHANGED <<attempt, seen>>
    BY <1>1 DEF TypeOK
  <1>2. CASE /\ seen' = [seen EXCEPT ![a] = head]
             /\ attempt' = [attempt EXCEPT ![a] = @ + 1]
    <2>1. attempt[a] + 1 \in 0 .. MaxAttempts
      BY AttemptsAssumption DEF TypeOK, ContentionInv
    <2>2. attempt' \in [Appends -> 0 .. MaxAttempts]
      BY <1>2, <2>1 DEF TypeOK
    <2>3. \A b \in Appends : seen'[b] = IF b = a THEN head ELSE seen[b]
      BY <1>2 DEF Shape
    <2>4. QED
      BY <2>2, <2>3 DEF TypeOK
  <1>3. QED
    BY <1>1, <1>2 DEF ReadHead

\* Types are preserved.
LEMMA TypeStep ==
  ASSUME Shape, Shape', ChainIsLinked, ContentionInv, TypeOK, [Next]_vars
  PROVE  TypeOK'
  <1>1. ASSUME NEW a \in Appends, Begin(a) \/ Retry(a) PROVE TypeOK'
    <2>1. UNCHANGED <<scopeOf, head, rows, receipt>>
      BY <1>1 DEF Begin, Retry
    <2>2. /\ attempt' \in [Appends -> 0 .. MaxAttempts]
          /\ \A b \in Appends :
               seen'[b].sequence \in Nat /\ seen'[b].scope \in Scopes \cup {NoScope}
      <3>1. CASE UNCHANGED <<attempt, seen>>
        BY <3>1 DEF TypeOK
      <3>2. CASE ReadHead(a) /\ (pc[a] = "idle" \/ attempt[a] < MaxAttempts)
        BY <3>2, ReadHeadTyped
      <3>3. QED
        BY <1>1, <3>1, <3>2 DEF Begin, Retry
    <2>3. QED
      BY <2>1, <2>2 DEF TypeOK, Shape
  <1>2. ASSUME NEW a \in Appends, Commit(a) PROVE TypeOK'
    <2>1. /\ Len(rows) \in Nat /\ Len(rows') = Len(rows) + 1
          /\ seen[a].sequence = Len(rows)
      BY <1>2, CommitAppendsRow DEF Commit, HeadUnchanged, ChainIsLinked
    <2>2. /\ head'.sequence = Len(rows) + 1 /\ head'.scope = scopeOf[a]
          /\ UNCHANGED <<scopeOf, attempt, seen>>
      BY <1>2, <2>1 DEF Commit
    <2>3. \A b \in Appends : receipt'[b].sequence =
            IF b = a THEN Len(rows) + 1 ELSE receipt[b].sequence
      BY <1>2, <2>1 DEF Commit, Shape
    <2>4. \A b \in Appends : receipt'[b].sequence \in 0 .. Len(rows')
      BY <2>1, <2>3 DEF TypeOK
    <2>5. head'.sequence \in Nat /\ head'.scope \in Scopes \cup {NoScope}
      BY <2>1, <2>2 DEF TypeOK
    <2>6. QED
      BY <2>2, <2>4, <2>5 DEF TypeOK, Shape
  <1>3. CASE Restart
    BY <1>3 DEF TypeOK, Shape, Restart
  <1>4. CASE UNCHANGED vars
    BY <1>4 DEF TypeOK, vars
  <1>5. QED
    BY <1>1, <1>2, <1>3, <1>4 DEF Next

\* The state keeps its types: an append is never in a round beyond MaxAttempts, and no
\* receipt names a row that is not there.
THEOREM TypeCorrect == Spec => []TypeOK
  <1>1. Init => TypeOK /\ ContentionInv
    <2> SUFFICES ASSUME Init PROVE TypeOK /\ ContentionInv
      OBVIOUS
    <2>1. ContentionInv
      BY DEF Init, ContentionInv, EmptyHead
    <2>2. Len(rows) = 0 /\ DOMAIN rows = {}
      BY DEF Init
    <2>3. QED
      BY <2>1, <2>2, AttemptsAssumption DEF Init, TypeOK, EmptyHead, NoReceipt, Ended
  <1>2. QED
    BY <1>1, TypeStep, ContentionStep, ShapeCorrect, ChainLinked, PTL DEF Spec

(***************************************************************************)
(* Refinement.                                                              *)
(***************************************************************************)

\* The compare-and-swap protocol is an append-only log of distinct entries: every
\* step adds one new entry at the end, or leaves the log alone.
THEOREM ImplementsLog == Spec => ImplementsAppendOnlyLog
  <1>1. Init => Log!Init
    BY DEF Init, Log!Init
  <1>2. Shape /\ ReceiptInv /\ [Next]_vars => [Log!Next]_([i \in DOMAIN rows |-> rows[i].event])
    <2> SUFFICES ASSUME Shape, ReceiptInv, [Next]_vars
                 PROVE  \/ Log!Next
                        \/ [i \in DOMAIN rows |-> rows[i].event]'
                             = [i \in DOMAIN rows |-> rows[i].event]
      OBVIOUS
    <2> DEFINE log == [i \in DOMAIN rows |-> rows[i].event]
    <2>1. CASE UNCHANGED <<rows, head, receipt, scopeOf>>
      BY <2>1
    <2>2. ASSUME NEW a \in Appends, Commit(a) PROVE Log!Record(a)
      <3> DEFINE n == Len(rows)
      <3>1. /\ n \in Nat /\ DOMAIN rows = 1 .. n /\ DOMAIN rows' = 1 .. (n + 1)
            /\ \A i \in 1 .. n : rows'[i] = rows[i]
            /\ rows'[n + 1].event = a
        <4>1. RowOf(a).event = a
          BY DEF RowOf
        <4>2. QED
          BY <2>2, <4>1, CommitAppendsRow
      <3>2. \A i \in 1 .. n : rows[i].event # a
        BY <2>2, <3>1 DEF ReceiptInv, Commit
      <3> HIDE DEF n
      <3>3. log \in Seq(Appends) /\ Len(log) = n /\ DOMAIN log = 1 .. n
        <4>1. \A i \in 1 .. n : rows[i].event \in Appends
          BY <3>1 DEF Shape
        <4>2. QED
          BY <3>1, <4>1
      <3>4. log' = [i \in 1 .. (n + 1) |-> IF i = n + 1 THEN a ELSE log[i]]
        BY <3>1
      <3> HIDE DEF log
      <3>5. Append(log, a) = [i \in 1 .. (n + 1) |-> IF i = n + 1 THEN a ELSE log[i]]
        <4> DEFINE longer == Append(log, a)
        <4>1. /\ longer \in Seq(Appends) /\ Len(longer) = n + 1
              /\ \A i \in 1 .. n : longer[i] = log[i]
              /\ longer[n + 1] = a
          BY <3>3, AppendProperties
        <4> HIDE DEF longer
        <4>2. longer = [i \in 1 .. (n + 1) |-> longer[i]]
          BY <4>1
        <4>3. \A i \in 1 .. (n + 1) : longer[i] = IF i = n + 1 THEN a ELSE log[i]
          BY <3>1, <4>1
        <4>4. QED
          BY <4>2, <4>3 DEF longer
      <3>6. log' = Append(log, a)
        BY <3>4, <3>5
      <3>7. \A i \in DOMAIN log : log[i] # a
        BY <3>1, <3>2, <3>3 DEF log
      <3>8. QED
        BY <3>6, <3>7 DEF Log!Record, log
    <2>3. QED
      BY <2>1, <2>2, OnlyCommitWrites DEF Log!Next
  <1>3. QED
    BY <1>1, <1>2, ShapeCorrect, ReceiptInvariant, PTL DEF Spec, ImplementsAppendOnlyLog, Log!Spec

\* What an append tells its caller, of success and of failure, is true of the chain.
THEOREM OutcomesTrue == Spec => []OutcomesAreTrue
  BY CommittedOnce, ScopeBound, GivingUpIsContention, PTL DEF OutcomesAreTrue
================================================================================
