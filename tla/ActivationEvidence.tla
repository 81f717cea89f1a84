--------------------------- MODULE ActivationEvidence ---------------------------
(***************************************************************************)
(* Development activation evidence of the one reviewed commit that writer    *)
(* and verifiers are constructed with: the authenticated writer, the two D1   *)
(* tables it fills in one batch, and the preflight, which reads the bundle    *)
(* with its keys on one path and the write receipt on another.               *)
(*                                                                         *)
(* A request is the one delivery of a signed message that gets past service  *)
(* authentication: ServiceAuthReplay shows that there is at most one         *)
(* (ImplementsOneUse), and every other delivery of it changes nothing.     *)
(***************************************************************************)
EXTENDS Integers

CONSTANTS
  Requests,     \* signed writes
  Records,      \* record IDs a request may ask for
  Evidences,    \* values of the six evidence digests
  Keys,         \* identity and owner keys whose attestations make up a bundle
  Evaluations,  \* preflight evaluations
  NoBody,       \* the body of a request that has not arrived
  NoRow,        \* no row has this record ID
  Contents,     \* what requests may ask for: record, evidence and validity window
  Window,       \* allowedClockSkewMs
  MaxValidity,  \* MAX_VALIDITY_MS, 24 hours
  MaxClock,     \* bound: the clock stops here
  MaxChanges    \* bound: how often the authority tables are administered

ASSUME TimesAssumption ==
  /\ Window \in Nat /\ MaxValidity \in Nat \ {0}
  /\ MaxClock \in Nat /\ MaxChanges \in Nat
ASSUME ContentsAssumption ==
  Contents \subseteq [record : Records, evidence : Evidences, from : Nat, until : Nat]
ASSUME NoRowAssumption == NoRow \notin Requests
ASSUME KindsAssumption == Keys \cap (Evidences \cup {"bundle", "receipt"}) = {}

VARIABLES
  clock,      \* the Workers' clock
  pc,         \* where each request is
  body,       \* what each request asks for, and the `now` its delivery captured
  unread,     \* the keys that the verification of a request has still to read
  bundles,    \* authority_development_activation_evidence_bundles: record ID -> who wrote it
  receipts,   \* ..._evidence_writes: record ID -> who wrote it
  status,     \* the status column of each bundle, "DISABLED" for enabled = 0
  inForce,    \* the keys that authority_identity_keys and owner_keys have in force
  changes,    \* how often the tables have been administered
  eval,       \* where each evaluation is
  plan,       \* the evidence in the plan under evaluation
  asOf,       \* the one verification time of each evaluation
  done,       \* which reads of each evaluation have been answered
  gone        \* history: what has been out of force ever since an evaluation began

writer == <<pc, body, unread>>
tables == <<bundles, receipts, status, inForce, changes>>
reader == <<eval, plan, asOf, done, gone>>
vars == <<clock, writer, tables, reader>>

--------------------------------------------------------------------------------

\* A signed timestamp is a text: the instant it denotes, and whether it is the text
\* that toISOString() would write for it.  "2026-08-01T10:00:00Z" is not: no ".000".
Texts == [instant : Int, canonical : BOOLEAN]

\* new Date(ms).toISOString()
ISOString(ms) == [instant |-> ms, canonical |-> TRUE]

\* What a request asks for, with the signature's timestamp and the captured `now`.
Body == [asks : Contents, signed : Texts, now : Nat]

Reads == Keys \cup {"bundle", "receipt"}

TypeOK ==
  /\ clock \in Nat /\ changes \in Nat
  /\ pc \in [Requests -> {"idle", "authenticating", "verifying", "writing",
                          "refused", "failed", "inserted", "unknown"}]
  /\ body \in [Requests -> Body \cup {NoBody}]
  /\ unread \in [Requests -> SUBSET Keys]
  /\ bundles \in [Records -> Requests \cup {NoRow}]
  /\ receipts \in [Records -> Requests \cup {NoRow}]
  /\ status \in [Records -> {"CURRENT", "FINAL", "DISABLED"}]
  /\ inForce \subseteq Keys
  /\ eval \in [Evaluations -> {"idle", "reading", "ready", "blocked"}]
  /\ plan \in [Evaluations -> Evidences]
  /\ asOf \in [Evaluations -> Nat]
  /\ done \in [Evaluations -> SUBSET Reads]
  /\ gone \in [Evaluations -> SUBSET (Keys \cup Evidences)]

Init ==
  /\ clock = 0 /\ changes = 0
  /\ pc = [q \in Requests |-> "idle"]
  /\ body = [q \in Requests |-> NoBody]
  /\ unread = [q \in Requests |-> {}]
  /\ bundles = [r \in Records |-> NoRow]
  /\ receipts = [r \in Records |-> NoRow]
  /\ status = [r \in Records |-> "DISABLED"]
  /\ inForce = Keys
  /\ eval = [v \in Evaluations |-> "idle"]
  /\ plan \in [Evaluations -> Evidences]
  /\ asOf = [v \in Evaluations |-> 0]
  /\ done = [v \in Evaluations |-> {}]
  /\ gone = [v \in Evaluations |-> {}]

RecordOf(q) == body[q].asks.record

Goto(q, step) == pc' = [pc EXCEPT ![q] = step]

--------------------------------------------------------------------------------
(* The writer *)

\* A request arrives: `now` is captured before anything is awaited.  Its timestamp is
\* inside the window of service authentication, which refuses any other unseen, and may
\* be any text that Date() can parse.
Deliver(q) ==
  /\ pc[q] = "idle"
  /\ \E c \in Contents, t \in [instant : (clock - Window) .. (clock + Window), canonical : BOOLEAN] :
       body' = [body EXCEPT ![q] = [asks |-> c, signed |-> t, now |-> clock]]
  /\ Goto(q, "authenticating")
  /\ UNCHANGED <<clock, unread, tables, reader>>

\* assertRequest: the window contains `now` and is not too long.
WindowIsValid(b) ==
  /\ b.asks.from <= b.now /\ b.now < b.asks.until
  /\ b.asks.until - b.asks.from <= MaxValidity

\* The call throws: the signed message is spent and nothing else is left of it.
Ends(q, how) == Goto(q, how) /\ body' = [body EXCEPT ![q] = NoBody]

\* The nonce is consumed, and only then is the rest looked at: the pinned writer and
\* commit, the canonical body (a refusal for any of them), the validity window.
Authenticate(q) ==
  /\ pc[q] = "authenticating"
  /\ \/ Ends(q, "refused") /\ UNCHANGED unread
     \/ /\ WindowIsValid(body[q])
        /\ unread' = [unread EXCEPT ![q] = Keys]
        /\ Goto(q, "verifying")
        /\ UNCHANGED body
  /\ UNCHANGED <<clock, tables, reader>>

\* One of the concurrent key reads of verify() is answered.  The bundle comes from
\* the request itself; its bindings, role continuity and the independence of maker,
\* checker, owner and writer are functions of it, and refuse it if they fail.
VerifyKey(q, k) ==
  /\ pc[q] = "verifying" /\ k \in unread[q]
  /\ \/ /\ k \in inForce
        /\ unread' = [unread EXCEPT ![q] = @ \ {k}]
        /\ Goto(q, IF unread[q] = {k} THEN "writing" ELSE "verifying")
        /\ UNCHANGED body
     \/ Ends(q, "refused") /\ unread' = [unread EXCEPT ![q] = {}]
  /\ UNCHANGED <<clock, tables, reader>>

Active == {r \in Records : status[r] # "DISABLED"}

\* Mutant: the first statement has no WHERE NOT EXISTS.
FirstInserts_Always(q) == TRUE

\* The first statement: INSERT ... SELECT ... WHERE NOT EXISTS.  No row is inserted
\* while the commit has an enabled one, and a known record ID is a conflict.
FirstInserts(q) == Active = {}
FirstConflicts(q) == FirstInserts(q) /\ bundles[RecordOf(q)] # NoRow

\* Mutant: the receipts have no foreign key, so a bundle that was not inserted gets one.
SecondInserts_NoForeignKey(q) ==
  /\ receipts[RecordOf(q)] = NoRow
  /\ body[q].now >= body[q].signed.instant

\* Mutant: no CHECK, so a signature dated later than its insertion is stored.
SecondInserts_NoCheck(q) ==
  /\ FirstInserts(q) \/ bundles[RecordOf(q)] # NoRow
  /\ receipts[RecordOf(q)] = NoRow

\* The second statement: its record ID must be in the first table and not yet in
\* this one, and the CHECK compares the signature's timestamp with the insertion.
SecondInserts(q) ==
  /\ FirstInserts(q) \/ bundles[RecordOf(q)] # NoRow
  /\ receipts[RecordOf(q)] = NoRow
  /\ body[q].now >= body[q].signed.instant

\* Mutant: the row gets a status that its CHECK does not allow.
Inserted_Pending(q) ==
  /\ bundles' = IF FirstInserts(q) THEN [bundles EXCEPT ![RecordOf(q)] = q] ELSE bundles
  /\ status' = IF FirstInserts(q) THEN [status EXCEPT ![RecordOf(q)] = "PENDING"] ELSE status
  /\ receipts' = [receipts EXCEPT ![RecordOf(q)] = q]

\* What D1 holds after a batch that has taken effect.
Inserted(q) ==
  /\ bundles' = IF FirstInserts(q) THEN [bundles EXCEPT ![RecordOf(q)] = q] ELSE bundles
  /\ status' = IF FirstInserts(q) THEN [status EXCEPT ![RecordOf(q)] = "CURRENT"] ELSE status
  /\ receipts' = [receipts EXCEPT ![RecordOf(q)] = q]

OutOfForce ==
  (Keys \ inForce) \cup
  {e \in Evidences : \A r \in Active : body[bundles[r]].asks.evidence # e}

\* What is in force after a step is no longer gone for an evaluation under way.
Witness == gone' = [v \in Evaluations |-> gone[v] \cap OutOfForce']

\* The batch is one transaction: both statements or neither.  It may fail for any
\* reason, and it may take effect and its answer be lost.
Batch(q) ==
  /\ pc[q] = "writing"
  /\ \/ /\ ~FirstConflicts(q) /\ SecondInserts(q)
        /\ Goto(q, "inserted") \/ Goto(q, "unknown")
        /\ UNCHANGED <<body, inForce>>
        /\ Inserted(q) /\ Witness
     \/ Ends(q, "failed") /\ UNCHANGED <<bundles, receipts, status, inForce, gone>>
  /\ UNCHANGED <<clock, unread, changes, eval, plan, asOf, done>>

--------------------------------------------------------------------------------
(* The authority tables, administered by others *)

\* A record is disabled or finalised, or a key is revoked or reinstated.  No record is
\* enabled again: insertion is the writer's alone.
Administer ==
  /\ changes < MaxChanges
  /\ changes' = changes + 1
  /\ \/ \E r \in Active, s \in {"FINAL", "DISABLED"} :
          status' = [status EXCEPT ![r] = s] /\ UNCHANGED inForce
     \/ \E k \in Keys :
          /\ inForce' = IF k \in inForce THEN inForce \ {k} ELSE inForce \cup {k}
          /\ UNCHANGED status
  /\ UNCHANGED <<clock, writer, bundles, receipts, eval, plan, asOf, done>>
  /\ Witness

--------------------------------------------------------------------------------
(* The preflight *)

\* The columns both queries compare with the evidence and the one verification time.
Matches(v, r) ==
  LET b == body[bundles[r]] IN
    /\ bundles[r] # NoRow /\ b.asks.evidence = plan[v]
    /\ b.asks.from <= asOf[v] /\ asOf[v] < b.asks.until

Current == {r \in Records : status[r] = "CURRENT"}

\* The rows of the bundle query, and of the receipt query, which joins the tables and
\* takes no FINAL record.
BundleRows(v) == {r \in Active : Matches(v, r)}
ReceiptRows(v) == {r \in Current : Matches(v, r) /\ receipts[r] # NoRow}

\* What the receipt verifier recomputes: the receipt is of this very record, and it was
\* authenticated before its insertion, within the record's validity.  The digest was made
\* over the signed text, but only its instant is stored, and is written out again here.
ReceiptHolds(r) ==
  LET b == body[bundles[r]] IN
    /\ receipts[r] = bundles[r]
    /\ b.signed.instant <= b.now /\ b.asks.from <= b.now /\ b.now < b.asks.until
    /\ ISOString(b.signed.instant) = b.signed

\* A plan with blockers of its own is not verified at all; the chain takes one time.
Evaluate(v) ==
  /\ eval[v] = "idle"
  /\ \/ eval' = [eval EXCEPT ![v] = "blocked"] /\ UNCHANGED <<asOf, gone>>
     \/ /\ eval' = [eval EXCEPT ![v] = "reading"]
        /\ asOf' = [asOf EXCEPT ![v] = clock]
        /\ gone' = [gone EXCEPT ![v] = OutOfForce]
  /\ UNCHANGED <<clock, writer, tables, plan, done>>

\* Mutant: the evaluation is ready as soon as the first of its reads is answered.
Answered_Race(v, x) ==
  /\ done' = [done EXCEPT ![v] = @ \cup {x}]
  /\ eval' = [eval EXCEPT ![v] = "ready"]

\* A read is answered; the evaluation is ready when the last one is.
Answered(v, x) ==
  /\ done' = [done EXCEPT ![v] = @ \cup {x}]
  /\ eval' = [eval EXCEPT ![v] = IF done[v] \cup {x} = Reads THEN "ready" ELSE "reading"]

\* Any rejection of the Promise.all blocks: what is not found, ambiguous or wrong.
Rejected(v) == eval' = [eval EXCEPT ![v] = "blocked"] /\ UNCHANGED done

\* D1DevelopmentActivationEvidenceBundleProvider.read(): exactly one row.
ReadBundle(v) ==
  /\ eval[v] = "reading" /\ "bundle" \notin done[v]
  /\ \/ (\E r \in Records : BundleRows(v) = {r}) /\ Answered(v, "bundle")
     \/ Rejected(v)
  /\ UNCHANGED <<clock, writer, tables, plan, asOf, gone>>

\* The attestations of the bundle that has been read are verified under their keys.
ReadKey(v, k) ==
  /\ eval[v] = "reading" /\ "bundle" \in done[v] /\ k \notin done[v]
  /\ \/ k \in inForce /\ Answered(v, k)
     \/ Rejected(v)
  /\ UNCHANGED <<clock, writer, tables, plan, asOf, gone>>

\* D1DevelopmentActivationEvidenceWriteVerifier.verify(), beside the other path.
ReadReceipt(v) ==
  /\ eval[v] = "reading" /\ "receipt" \notin done[v]
  /\ \/ (\E r \in Records : ReceiptRows(v) = {r} /\ ReceiptHolds(r)) /\ Answered(v, "receipt")
     \/ Rejected(v)
  /\ UNCHANGED <<clock, writer, tables, plan, asOf, gone>>

--------------------------------------------------------------------------------

Tick ==
  /\ clock < MaxClock
  /\ clock' = clock + 1
  /\ UNCHANGED <<writer, tables, reader>>

Write(q) ==
  Deliver(q) \/ Authenticate(q) \/ Batch(q) \/ \E k \in Keys : VerifyKey(q, k)
Preflight(v) ==
  Evaluate(v) \/ ReadBundle(v) \/ ReadReceipt(v) \/ \E k \in Keys : ReadKey(v, k)

Next ==
  \/ Tick \/ Administer
  \/ \E q \in Requests : Write(q)
  \/ \E v \in Evaluations : Preflight(v)

Spec == Init /\ [][Next]_vars

--------------------------------------------------------------------------------
(* Properties *)

\* However many writers pass their checks at once and whatever is disabled between,
\* the commit has at most one enabled record.
OneLiveRecord == \A r, s \in Active : r = s

\* The promise of the two tables.
Live == {bundles[r] : r \in Active}
Withdrawn == {bundles[r] : r \in {s \in Records \ Active : bundles[s] # NoRow}}
Promise == INSTANCE LiveEvidence WITH Writes <- Requests, live <- Live, withdrawn <- Withdrawn

\* Two statements, their constraints and a lost answer keep that promise.
ImplementsLiveEvidence == Promise!Spec

\* A write is in both tables or in neither: every bundle has its own receipt, every
\* receipt its bundle, and a request that failed or was refused has left no row.
NothingHalfWritten ==
  \A r \in Records :
    /\ receipts[r] = bundles[r]
    /\ bundles[r] # NoRow => pc[bundles[r]] \in {"inserted", "unknown"}

\* Of the records its query can return, the receipt verifier accepts those whose signed
\* timestamp was spelt as toISOString() spells it, and only those: the checks of times that
\* the writer, the CHECK and the verifier make on different clocks agree at every boundary,
\* and any other spelling is stored, holds the commit's one place, and never verifies.
EveryRecordVerifies ==
  \A r \in Current : ReceiptHolds(r) <=> body[bundles[r]].signed.canonical

\* An evaluation that ends ready relied on nothing that had been out of force since
\* before it began, although its reads are no snapshot.
ReadyIsFresh ==
  \A v \in Evaluations : eval[v] = "ready" => plan[v] \notin gone[v] /\ Keys \cap gone[v] = {}
================================================================================
