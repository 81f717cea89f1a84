------------------------------- MODULE AuditChain -------------------------------
(***************************************************************************)
(* AuditStateDurableObject.append and the adapter's verifyReceipt: the      *)
(* hash-linked chain of one Durable Object.  append() reads the head, awaits *)
(* a digest - other appends run meanwhile - and commits by compare-and-swap *)
(* on the head, at most 64 times.  The failed swap and the next read of the *)
(* head are one JavaScript turn, so one step here.                          *)
(***************************************************************************)
EXTENDS Integers, Sequences, FiniteSets

CONSTANTS
  Appends,       \* the calls of append(), each with an event of its own
  Scopes,        \* idempotency scopes
  NoScope,       \* audit_head.scope IS NULL
  ZeroDigest,    \* ZERO_DIGEST
  MaxAttempts    \* 64 in the code

ASSUME AttemptsAssumption == MaxAttempts \in Nat \ {0}
ASSUME NoScopeAssumption == NoScope \notin Scopes

VARIABLES
  pc,        \* where each append is
  scopeOf,   \* the scope (and event.idempotencyScope) each append names
  attempt,   \* which round of the for loop each append is in
  seen,      \* the audit_head each append read last
  head,      \* the audit_head row
  rows,      \* the audit_events table, by sequence
  receipt    \* what each committed append returned

vars == <<pc, scopeOf, attempt, seen, head, rows, receipt>>

--------------------------------------------------------------------------------

\* digestCanonicalValue({sequence, previousDigest, event}): SHA-256 stands for the
\* value it digests, since nothing here depends on a collision.
Digest(sequence, previousDigest, event) == <<sequence, previousDigest, event>>

EmptyHead == [scope |-> NoScope, sequence |-> 0, digest |-> ZeroDigest]
NoReceipt == [sequence |-> 0, previousDigest |-> ZeroDigest,
              eventDigest |-> ZeroDigest, idempotencyScope |-> NoScope]

Ended == {"committed", "rejected", "contended", "lost"}

TypeOK ==
  /\ pc \in [Appends -> {"idle", "digesting"} \cup Ended]
  /\ scopeOf \in [Appends -> Scopes]
  /\ attempt \in [Appends -> 0 .. MaxAttempts]
  /\ \A h \in {head} \cup {seen[a] : a \in Appends} :
       h.sequence \in Nat /\ h.scope \in Scopes \cup {NoScope}
  /\ \A i \in DOMAIN rows : rows[i].event \in Appends
  /\ \A a \in Appends : receipt[a].sequence \in 0 .. Len(rows)

Init ==
  /\ pc = [a \in Appends |-> "idle"]
  /\ scopeOf \in [Appends -> Scopes]
  /\ attempt = [a \in Appends |-> 0]
  /\ seen = [a \in Appends |-> EmptyHead]
  /\ head = EmptyHead
  /\ rows = <<>>
  /\ receipt = [a \in Appends |-> NoReceipt]

--------------------------------------------------------------------------------

\* A shard that another scope has bound refuses the append.
Mismatched(a) == head.scope # NoScope /\ head.scope # scopeOf[a]

\* One round of the loop up to its await: read the head, or throw.
ReadHead(a) ==
  \/ /\ Mismatched(a)
     /\ pc' = [pc EXCEPT ![a] = "rejected"]
     /\ UNCHANGED <<attempt, seen>>
  \/ /\ ~Mismatched(a)
     /\ pc' = [pc EXCEPT ![a] = "digesting"]
     /\ seen' = [seen EXCEPT ![a] = head]
     /\ attempt' = [attempt EXCEPT ![a] = @ + 1]

Begin(a) ==
  /\ pc[a] = "idle"
  /\ ReadHead(a)
  /\ UNCHANGED <<scopeOf, head, rows, receipt>>

\* Mutant: the UPDATE has no WHERE on the head it read.
HeadUnchanged_Blind(a) == head.scope \in {NoScope, scopeOf[a]}

\* The WHERE clause of the UPDATE: the head is still the one that was read.
HeadUnchanged(a) ==
  /\ head.scope \in {NoScope, scopeOf[a]}
  /\ head.sequence = seen[a].sequence
  /\ head.digest = seen[a].digest

\* The row an append inserts: linked to the head it read.
RowOf(a) ==
  [previousDigest |-> seen[a].digest,
   eventDigest |-> Digest(seen[a].sequence + 1, seen[a].digest, a),
   event |-> a]

\* Mutant: the loop goes on after the swap that succeeded.
Commit_LoopsOn(a) ==
  /\ pc[a] = "digesting"
  /\ HeadUnchanged(a)
  /\ rows' = Append(rows, RowOf(a))
  /\ head' = [scope |-> scopeOf[a], sequence |-> seen[a].sequence + 1,
              digest |-> RowOf(a).eventDigest]
  /\ UNCHANGED <<pc, scopeOf, attempt, seen, receipt>>

\* The transaction after the await, when the swap succeeds.
Commit(a) ==
  /\ pc[a] = "digesting"
  /\ HeadUnchanged(a)
  /\ rows' = Append(rows, RowOf(a))
  /\ head' = [scope |-> scopeOf[a], sequence |-> seen[a].sequence + 1,
              digest |-> RowOf(a).eventDigest]
  /\ receipt' = [receipt EXCEPT ![a] =
       [sequence |-> seen[a].sequence + 1, previousDigest |-> seen[a].digest,
        eventDigest |-> RowOf(a).eventDigest, idempotencyScope |-> scopeOf[a]]]
  /\ pc' = [pc EXCEPT ![a] = "committed"]
  /\ UNCHANGED <<scopeOf, attempt, seen>>

\* Mutant: the loop runs one round too many.
Retry_OneMore(a) ==
  /\ pc[a] = "digesting"
  /\ ~HeadUnchanged(a)
  /\ \/ /\ attempt[a] > MaxAttempts
        /\ pc' = [pc EXCEPT ![a] = "contended"]
        /\ UNCHANGED <<attempt, seen>>
     \/ attempt[a] <= MaxAttempts /\ ReadHead(a)
  /\ UNCHANGED <<scopeOf, head, rows, receipt>>

\* Mutant: the head is not read again before the next round.
Retry_StaleHead(a) ==
  /\ pc[a] = "digesting"
  /\ ~HeadUnchanged(a)
  /\ \/ /\ attempt[a] = MaxAttempts
        /\ pc' = [pc EXCEPT ![a] = "contended"]
        /\ UNCHANGED attempt
     \/ /\ attempt[a] < MaxAttempts
        /\ attempt' = [attempt EXCEPT ![a] = @ + 1]
        /\ UNCHANGED pc
  /\ UNCHANGED <<scopeOf, seen, head, rows, receipt>>

\* Mutant: a swap that failed is tried again, on the head it first read and without
\* counting the attempt.
Retry_Forever(a) ==
  /\ pc[a] = "digesting"
  /\ ~HeadUnchanged(a)
  /\ UNCHANGED vars

\* The transaction after the await, when another append got there first.
Retry(a) ==
  /\ pc[a] = "digesting"
  /\ ~HeadUnchanged(a)
  /\ \/ /\ attempt[a] = MaxAttempts
        /\ pc' = [pc EXCEPT ![a] = "contended"]
        /\ UNCHANGED <<attempt, seen>>
     \/ attempt[a] < MaxAttempts /\ ReadHead(a)
  /\ UNCHANGED <<scopeOf, head, rows, receipt>>

\* The object is evicted and restarts on its storage: appends in memory are gone.
Restart ==
  /\ \E a \in Appends : pc[a] = "digesting"
  /\ pc' = [a \in Appends |-> IF pc[a] = "digesting" THEN "lost" ELSE pc[a]]
  /\ UNCHANGED <<scopeOf, attempt, seen, head, rows, receipt>>

Next == Restart \/ \E a \in Appends : Begin(a) \/ Commit(a) \/ Retry(a)

Spec == Init /\ [][Next]_vars

\* The object runs the continuation of every await.
FairSpec == Spec /\ \A a \in Appends : WF_vars(Commit(a) \/ Retry(a))

--------------------------------------------------------------------------------

\* Mutant: only the scope of a receipt is compared with the event's.
VerifyReceipt_ScopeOnly(r, event) ==
  r.sequence >= 1 /\ r.idempotencyScope = scopeOf[event]

\* CloudflareDurableAuditStore.verifyReceipt: it recomputes the digest from the
\* receipt and the event, and never asks the chain.
VerifyReceipt(r, event) ==
  /\ r.sequence >= 1
  /\ r.idempotencyScope = scopeOf[event]
  /\ r.eventDigest = Digest(r.sequence, r.previousDigest, event)

--------------------------------------------------------------------------------
(* Properties *)

\* The table is one chain: every row extends the row before it, and the head is
\* the last row, so no two appends ever extended the same head.
ChainIsLinked ==
  /\ head.sequence = Len(rows)
  /\ \A i \in DOMAIN rows :
       /\ rows[i].previousDigest = IF i = 1 THEN ZeroDigest ELSE rows[i - 1].eventDigest
       /\ rows[i].eventDigest = Digest(i, rows[i].previousDigest, rows[i].event)
  /\ head.digest = IF rows = <<>> THEN ZeroDigest ELSE rows[Len(rows)].eventDigest

\* A shard holds the events of one scope, whatever scopes its callers name.
OneScopePerShard ==
  \A i, j \in DOMAIN rows : scopeOf[rows[i].event] = scopeOf[rows[j].event]

\* The receipt of a committed append verifies for its own event and no other, and
\* the row it points at is that event's: what verifyReceipt, which never asks the
\* chain, concludes is true of the chain.
ReceiptProvesRow ==
  \A a, b \in Appends : pc[a] = "committed" =>
    /\ VerifyReceipt(receipt[a], b) <=> a = b
    /\ rows[receipt[a].sequence].event = a
    /\ rows[receipt[a].sequence].eventDigest = receipt[a].eventDigest

\* An event is on the chain exactly when its append returned a receipt: an append
\* that was rejected, gave up or was lost left nothing behind.
CommittedExactlyOnce ==
  \A a \in Appends :
    Cardinality({i \in DOMAIN rows : rows[i].event = a}) =
      IF pc[a] = "committed" THEN 1 ELSE 0

\* An append gives up only when at least MaxAttempts others were committed.
ContentionIsReal ==
  \A a \in Appends : pc[a] = "contended" => Len(rows) >= MaxAttempts

\* Whatever an append tells its caller is true: a receipt stands for one row among rows of
\* its own scope, anything else for none, and contention for MaxAttempts other commits.
OutcomesAreTrue == CommittedExactlyOnce /\ OneScopePerShard /\ ContentionIsReal

\* Every append that begins ends.
EveryAppendEnds == \A a \in Appends : pc[a] = "digesting" ~> pc[a] \in Ended

Log == INSTANCE AppendOnlyLog WITH
  Entries <- Appends, log <- [i \in DOMAIN rows |-> rows[i].event]

\* The compare-and-swap protocol implements an append-only log: the form in which
\* ExecutionRecord uses the chain.
ImplementsAppendOnlyLog == Log!Spec
================================================================================
