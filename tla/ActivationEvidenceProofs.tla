------------------------ MODULE ActivationEvidenceProofs ------------------------
(***************************************************************************)
(* Theorems about ActivationEvidence, for every value of its constants: any *)
(* number of requests, records, keys and evaluations, any validity window.   *)
(***************************************************************************)
EXTENDS ActivationEvidence, TLAPS

(***************************************************************************)
(* The inductive invariant of the two tables.                               *)
(***************************************************************************)

Finished == {"inserted", "unknown"}

\* A request under way, or written, has its body; once it is being verified the
\* validity window has been checked.
BodiesAreChecked ==
  \A q \in Requests :
    /\ pc[q] \in {"authenticating", "verifying", "writing"} \cup Finished => body[q] \in Body
    /\ pc[q] \in {"verifying", "writing"} \cup Finished => WindowIsValid(body[q])

\* An enabled record has a row, and no row was inserted before it was signed.
RowsAreSound ==
  \A r \in Records :
    /\ r \in Active => bundles[r] # NoRow
    /\ bundles[r] # NoRow => body[bundles[r]].signed.instant <= body[bundles[r]].now

StoreInv ==
  /\ TypeOK /\ BodiesAreChecked /\ RowsAreSound
  /\ OneLiveRecord /\ NothingHalfWritten

LEMMA StoreInit == Init => StoreInv
  BY NoRowAssumption, TimesAssumption
  DEF Init, StoreInv, TypeOK, BodiesAreChecked, RowsAreSound, OneLiveRecord,
      NothingHalfWritten, Active, Finished

\* A step of one request that leaves the tables alone keeps the invariant, if the
\* request has written nothing yet.
LEMMA StepOutsideTables ==
  ASSUME StoreInv, NEW q \in Requests, pc[q] \notin Finished,
         UNCHANGED <<bundles, receipts, status>>,
         \A p \in Requests \ {q} : pc'[p] = pc[p] /\ body'[p] = body[p],
         TypeOK',
         pc'[q] \in {"authenticating", "verifying", "writing"} => body'[q] \in Body,
         pc'[q] \in {"verifying", "writing"} => WindowIsValid(body'[q]),
         pc'[q] \notin Finished
  PROVE  StoreInv'
  <1>1. BodiesAreChecked'
    BY DEF StoreInv, BodiesAreChecked, WindowIsValid
  <1>2. Active' = Active
    BY DEF Active
  <1>3. \A r \in Records : bundles[r] # NoRow =>
          /\ pc'[bundles[r]] = pc[bundles[r]]
          /\ body'[bundles[r]] = body[bundles[r]]
    BY DEF StoreInv, NothingHalfWritten, Finished, TypeOK
  <1>4. RowsAreSound'
    BY <1>2, <1>3 DEF StoreInv, RowsAreSound
  <1>5. OneLiveRecord' /\ NothingHalfWritten'
    BY <1>2, <1>3 DEF StoreInv, OneLiveRecord, NothingHalfWritten
  <1>6. QED
    BY <1>1, <1>4, <1>5 DEF StoreInv

LEMMA DeliverKeeps == ASSUME StoreInv, NEW q \in Requests, Deliver(q) PROVE StoreInv'
  <1>1. PICK c \in Contents,
             t \in [instant : (clock - Window) .. (clock + Window), canonical : BOOLEAN] :
          body' = [body EXCEPT ![q] = [asks |-> c, signed |-> t, now |-> clock]]
    BY DEF Deliver
  <1>2. body'[q] \in Body
    <2>1. t \in Texts
      BY TimesAssumption DEF StoreInv, TypeOK, Texts
    <2>2. QED
      BY <1>1, <2>1 DEF StoreInv, TypeOK, Body
  <1>3. TypeOK'
    <2>1. body' \in [Requests -> Body \cup {NoBody}]
      BY <1>1, <1>2 DEF StoreInv, TypeOK
    <2>2. QED
      BY <2>1 DEF StoreInv, TypeOK, Deliver, Goto, tables, reader
  <1>4. QED
    BY <1>1, <1>2, <1>3, StepOutsideTables
    DEF StoreInv, TypeOK, Deliver, Goto, tables, Finished

LEMMA AuthenticateKeeps ==
  ASSUME StoreInv, NEW q \in Requests, Authenticate(q) PROVE StoreInv'
  <1>1. TypeOK'
    BY DEF StoreInv, TypeOK, Authenticate, Ends, Goto, tables, reader
  <1>2. pc'[q] \in {"refused", "verifying"} /\ pc[q] = "authenticating"
    BY DEF StoreInv, TypeOK, Authenticate, Ends, Goto
  <1>3. pc'[q] = "verifying" => WindowIsValid(body'[q]) /\ body'[q] \in Body
    BY DEF StoreInv, TypeOK, BodiesAreChecked, Authenticate, Ends, Goto
  <1>4. \A p \in Requests \ {q} : pc'[p] = pc[p] /\ body'[p] = body[p]
    BY DEF StoreInv, TypeOK, Authenticate, Ends, Goto
  <1>5. QED
    BY <1>1, <1>2, <1>3, <1>4, StepOutsideTables DEF Authenticate, tables, Finished

LEMMA VerifyKeyKeeps ==
  ASSUME StoreInv, NEW q \in Requests, NEW k \in Keys, VerifyKey(q, k) PROVE StoreInv'
  <1>1. TypeOK'
    BY DEF StoreInv, TypeOK, VerifyKey, Ends, Goto, tables, reader
  <1>2. pc'[q] \in {"refused", "verifying", "writing"} /\ pc[q] = "verifying"
    BY DEF StoreInv, TypeOK, VerifyKey, Ends, Goto
  <1>3. pc'[q] \in {"verifying", "writing"} => WindowIsValid(body'[q]) /\ body'[q] \in Body
    BY DEF StoreInv, TypeOK, BodiesAreChecked, VerifyKey, Ends, Goto
  <1>4. \A p \in Requests \ {q} : pc'[p] = pc[p] /\ body'[p] = body[p]
    BY DEF StoreInv, TypeOK, VerifyKey, Ends, Goto
  <1>5. QED
    BY <1>1, <1>2, <1>3, <1>4, StepOutsideTables DEF VerifyKey, tables, Finished

\* A batch that takes effect inserted the bundle: a receipt alone has no foreign key
\* to point to, because its own bundle row would already have a receipt.
LEMMA BatchInserts ==
  ASSUME StoreInv, NEW q \in Requests, pc[q] = "writing",
         ~FirstConflicts(q), SecondInserts(q), Inserted(q)
  PROVE  /\ Active = {} /\ RecordOf(q) \in Records
         /\ bundles[RecordOf(q)] = NoRow
         /\ bundles' = [bundles EXCEPT ![RecordOf(q)] = q]
         /\ receipts' = [receipts EXCEPT ![RecordOf(q)] = q]
         /\ status' = [status EXCEPT ![RecordOf(q)] = "CURRENT"]
         /\ body[q].signed.instant <= body[q].now
  <1>1. body[q] \in Body
    BY DEF StoreInv, BodiesAreChecked
  <1>2. RecordOf(q) \in Records
    BY <1>1, ContentsAssumption DEF RecordOf, Body
  <1>3. receipts[RecordOf(q)] = bundles[RecordOf(q)] /\ receipts[RecordOf(q)] = NoRow
    BY <1>2 DEF StoreInv, NothingHalfWritten, SecondInserts
  <1>4. FirstInserts(q)
    BY <1>3 DEF SecondInserts
  <1>5. body[q].signed.instant <= body[q].now
    BY <1>1 DEF SecondInserts, Body
  <1>6. QED
    BY <1>2, <1>3, <1>4, <1>5 DEF FirstInserts, Inserted

LEMMA BatchKeeps == ASSUME StoreInv, NEW q \in Requests, Batch(q) PROVE StoreInv'
  <1>1. CASE Ends(q, "failed") /\ UNCHANGED <<bundles, receipts, status, inForce, gone>>
    <2>1. TypeOK'
      BY <1>1 DEF StoreInv, TypeOK, Batch, Ends, Goto
    <2>2. QED
      BY <1>1, <2>1, StepOutsideTables DEF StoreInv, TypeOK, Batch, Ends, Goto, Finished
  <1>2. CASE /\ ~FirstConflicts(q) /\ SecondInserts(q)
             /\ Goto(q, "inserted") \/ Goto(q, "unknown")
             /\ UNCHANGED <<body, inForce>>
             /\ Inserted(q) /\ Witness
    <2> DEFINE rec == RecordOf(q)
    <2>1. /\ Active = {} /\ rec \in Records /\ bundles[rec] = NoRow
          /\ bundles' = [bundles EXCEPT ![rec] = q]
          /\ receipts' = [receipts EXCEPT ![rec] = q]
          /\ status' = [status EXCEPT ![rec] = "CURRENT"]
          /\ body[q].signed.instant <= body[q].now
      BY <1>2, BatchInserts DEF Batch
    <2>2. /\ pc' \in [Requests -> {"idle", "authenticating", "verifying", "writing",
                                   "refused", "failed", "inserted", "unknown"}]
          /\ pc'[q] \in Finished /\ pc[q] = "writing"
          /\ \A p \in Requests \ {q} : pc'[p] = pc[p]
      BY <1>2 DEF StoreInv, TypeOK, Goto, Finished, Batch
    <2>3. gone' \in [Evaluations -> SUBSET (Keys \cup Evidences)]
      BY <1>2 DEF StoreInv, TypeOK, Witness
    <2>4. /\ bundles' \in [Records -> Requests \cup {NoRow}]
          /\ receipts' \in [Records -> Requests \cup {NoRow}]
          /\ status' \in [Records -> {"CURRENT", "FINAL", "DISABLED"}]
      BY <2>1 DEF StoreInv, TypeOK
    <2>5. TypeOK'
      BY <1>2, <2>2, <2>3, <2>4 DEF StoreInv, TypeOK, Batch
    <2>6. BodiesAreChecked'
      BY <1>2, <2>2 DEF StoreInv, BodiesAreChecked, WindowIsValid, Finished
    <2>7. Active' = {rec}
      BY <2>1 DEF Active, StoreInv, TypeOK
    <2>8. bundles'[rec] = q /\ receipts'[rec] = q /\ q # NoRow
      BY <2>1, NoRowAssumption DEF StoreInv, TypeOK
    <2>9. \A r \in Records \ {rec} : bundles'[r] = bundles[r] /\ receipts'[r] = receipts[r]
      BY <2>1 DEF StoreInv, TypeOK
    <2>10. RowsAreSound'
      BY <1>2, <2>1, <2>7, <2>8, <2>9 DEF StoreInv, RowsAreSound
    <2>11. NothingHalfWritten'
      BY <2>2, <2>8, <2>9 DEF StoreInv, NothingHalfWritten, Finished, TypeOK
    <2>12. QED
      BY <2>5, <2>6, <2>7, <2>10, <2>11 DEF StoreInv, OneLiveRecord
  <1>3. QED
    BY <1>1, <1>2 DEF Batch

LEMMA AdministerKeeps == ASSUME StoreInv, Administer PROVE StoreInv'
  <1>1. TypeOK' /\ Active' \subseteq Active
    <2>1. status' \in [Records -> {"CURRENT", "FINAL", "DISABLED"}] /\ Active' \subseteq Active
      BY DEF StoreInv, TypeOK, Administer, Active
    <2>2. inForce' \subseteq Keys
      BY DEF StoreInv, TypeOK, Administer
    <2>3. gone' \in [Evaluations -> SUBSET (Keys \cup Evidences)]
      BY DEF StoreInv, TypeOK, Administer, Witness
    <2>4. QED
      BY <2>1, <2>2, <2>3 DEF StoreInv, TypeOK, Administer, writer
  <1>2. QED
    BY <1>1 DEF StoreInv, Administer, writer, BodiesAreChecked, RowsAreSound,
                OneLiveRecord, NothingHalfWritten, WindowIsValid

LEMMA ElsewhereKeeps ==
  ASSUME StoreInv, TypeOK', UNCHANGED <<pc, body, bundles, receipts, status>>
  PROVE  StoreInv'
  BY DEF StoreInv, BodiesAreChecked, RowsAreSound, OneLiveRecord, NothingHalfWritten,
         Active, WindowIsValid

LEMMA PreflightType ==
  ASSUME StoreInv, NEW v \in Evaluations, Preflight(v)
  PROVE  TypeOK' /\ UNCHANGED <<clock, writer, tables, plan>>
  <1>1. CASE Evaluate(v)
    <2>1. OutOfForce \in SUBSET (Keys \cup Evidences)
      BY DEF OutOfForce
    <2>2. QED
      BY <1>1, <2>1 DEF StoreInv, TypeOK, Evaluate, writer, tables
  <1>2. ASSUME NEW x \in Reads, Answered(v, x) \/ Rejected(v),
               UNCHANGED <<clock, writer, tables, plan, asOf, gone>>
        PROVE  TypeOK'
    BY <1>2 DEF StoreInv, TypeOK, Answered, Rejected, writer, tables
  <1>3. CASE ReadBundle(v)
    <2>1. "bundle" \in Reads
      BY DEF Reads
    <2>2. QED
      BY <1>2, <1>3, <2>1 DEF ReadBundle
  <1>4. CASE ReadReceipt(v)
    <2>1. "receipt" \in Reads
      BY DEF Reads
    <2>2. QED
      BY <1>2, <1>4, <2>1 DEF ReadReceipt
  <1>5. ASSUME NEW k \in Keys, ReadKey(v, k) PROVE TypeOK' /\ UNCHANGED <<clock, writer, tables, plan>>
    <2>1. k \in Reads
      BY DEF Reads
    <2>2. QED
      BY <1>2, <1>5, <2>1 DEF ReadKey
  <1>6. QED
    BY <1>1, <1>3, <1>4, <1>5 DEF Preflight, ReadBundle, ReadReceipt

LEMMA StoreStep == StoreInv /\ [Next]_vars => StoreInv'
  <1> SUFFICES ASSUME StoreInv, [Next]_vars PROVE StoreInv'
    OBVIOUS
  <1>1. ASSUME NEW q \in Requests, Write(q) PROVE StoreInv'
    BY <1>1, DeliverKeeps, AuthenticateKeeps, VerifyKeyKeeps, BatchKeeps DEF Write
  <1>2. ASSUME NEW v \in Evaluations, Preflight(v) PROVE StoreInv'
    BY <1>2, PreflightType, ElsewhereKeeps DEF writer, tables
  <1>3. CASE Tick
    <2>1. TypeOK'
      BY <1>3 DEF StoreInv, TypeOK, Tick, writer, tables, reader
    <2>2. QED
      BY <1>3, <2>1, ElsewhereKeeps DEF Tick, writer, tables
  <1>4. CASE UNCHANGED vars
    <2>1. TypeOK'
      BY <1>4 DEF StoreInv, TypeOK, vars, writer, tables, reader
    <2>2. QED
      BY <1>4, <2>1, ElsewhereKeeps DEF vars, writer, tables
  <1>5. QED
    BY <1>1, <1>2, <1>3, <1>4, AdministerKeeps DEF Next

\* The tables are always in a state that the writer and the administration allow.
THEOREM StoreIsSound == Spec => []StoreInv
  BY StoreInit, StoreStep, PTL DEF Spec

\* Every state of the writer, the tables and the preflight has its types.
THEOREM TypeCorrect == Spec => []TypeOK
  <1>1. StoreInv => TypeOK
    BY DEF StoreInv
  <1>2. QED
    BY <1>1, StoreIsSound, PTL

\* At most one enabled record per commit, for any number of concurrent writers.
THEOREM OneLive == Spec => []OneLiveRecord
  <1>1. StoreInv => OneLiveRecord
    BY DEF StoreInv
  <1>2. QED
    BY <1>1, StoreIsSound, PTL

\* A write is in both tables or in neither.
THEOREM WholeOrNothing == Spec => []NothingHalfWritten
  <1>1. StoreInv => NothingHalfWritten
    BY DEF StoreInv
  <1>2. QED
    BY <1>1, StoreIsSound, PTL

\* A CURRENT record's stored times satisfy every check of the verifier, so that its receipt
\* verifies exactly if the signed timestamp was the text that is written out again.
THEOREM StoredVerifies == Spec => []EveryRecordVerifies
  <1>1. StoreInv => EveryRecordVerifies
    <2> SUFFICES ASSUME StoreInv, NEW r \in Current
                 PROVE  ReceiptHolds(r) <=> body[bundles[r]].signed.canonical
      BY DEF EveryRecordVerifies
    <2> DEFINE b == body[bundles[r]]
    <2>1. r \in Records /\ bundles[r] # NoRow
      BY DEF Current, Active, StoreInv, RowsAreSound
    <2>2. receipts[r] = bundles[r] /\ bundles[r] \in Requests /\ pc[bundles[r]] \in Finished
      BY <2>1 DEF StoreInv, NothingHalfWritten, Finished, TypeOK
    <2>3. b \in Body /\ WindowIsValid(b) /\ b.signed.instant <= b.now
      BY <2>1, <2>2 DEF StoreInv, BodiesAreChecked, RowsAreSound
    <2>4. b.signed \in Texts
      BY <2>3 DEF Body
    <2>5. ISOString(b.signed.instant) = b.signed <=> b.signed.canonical
      <3>1. PICK i \in Int, c \in BOOLEAN : b.signed = [instant |-> i, canonical |-> c]
        BY <2>4 DEF Texts
      <3>2. CASE c = TRUE
        BY <3>1, <3>2 DEF ISOString
      <3>3. CASE c = FALSE
        BY <3>1, <3>3 DEF ISOString
      <3>4. QED
        BY <3>1, <3>2, <3>3
    <2>6. QED
      BY <2>2, <2>3, <2>5 DEF ReceiptHolds, WindowIsValid
  <1>2. QED
    BY <1>1, StoreIsSound, PTL

(***************************************************************************)
(* Freshness of an evaluation.                                              *)
(***************************************************************************)

\* What an evaluation has been answered is not gone, nothing in force is gone, and
\* "ready" means that every read has been answered.
EvaluationInv ==
  \A v \in Evaluations :
    /\ gone[v] \subseteq OutOfForce
    /\ \A k \in Keys : k \in done[v] => k \notin gone[v]
    /\ "bundle" \in done[v] => plan[v] \notin gone[v]
    /\ eval[v] = "ready" => done[v] = Reads
    /\ eval[v] = "idle" => done[v] = {}

LEMMA EvaluationInit == Init => EvaluationInv
  BY DEF Init, EvaluationInv

\* A step that only takes from `gone`, and leaves the evaluations alone, is harmless.
LEMMA GoneShrinks ==
  ASSUME EvaluationInv, StoreInv, UNCHANGED <<eval, done, plan>>,
         \A v \in Evaluations : gone'[v] \subseteq gone[v] /\ gone'[v] \subseteq OutOfForce'
  PROVE  EvaluationInv'
  BY DEF EvaluationInv, Reads

\* The writer's steps before its batch, and a failed batch, put nothing out of force.
LEMMA WriterKeepsForce ==
  ASSUME StoreInv, UNCHANGED <<bundles, status, inForce>>,
         NEW q \in Requests, pc[q] \notin Finished,
         \A p \in Requests \ {q} : body'[p] = body[p]
  PROVE  OutOfForce' = OutOfForce
  <1>1. Active' = Active
    BY DEF Active
  <1>2. \A r \in Active : body'[bundles[r]] = body[bundles[r]]
    BY DEF Active, StoreInv, RowsAreSound, NothingHalfWritten, Finished, TypeOK
  <1>3. QED
    BY <1>1, <1>2 DEF OutOfForce

LEMMA WriterEvaluation ==
  ASSUME StoreInv, EvaluationInv, NEW q \in Requests, Write(q) PROVE EvaluationInv'
  <1>1. ASSUME UNCHANGED <<bundles, status, inForce, reader>>, pc[q] \notin Finished,
               \A p \in Requests \ {q} : body'[p] = body[p]
        PROVE  EvaluationInv'
    BY <1>1, WriterKeepsForce, GoneShrinks DEF EvaluationInv, reader
  <1>2. CASE Deliver(q)
    BY <1>1, <1>2 DEF Deliver, tables, StoreInv, TypeOK, Finished
  <1>3. CASE Authenticate(q)
    BY <1>1, <1>3 DEF Authenticate, Ends, tables, StoreInv, TypeOK, Finished
  <1>4. ASSUME NEW k \in Keys, VerifyKey(q, k) PROVE EvaluationInv'
    BY <1>1, <1>4 DEF VerifyKey, Ends, tables, StoreInv, TypeOK, Finished
  <1>5. CASE Batch(q)
    <2>1. CASE Witness
      BY <1>5, <2>1, GoneShrinks DEF Batch, Witness
    <2>2. CASE Ends(q, "failed") /\ UNCHANGED <<bundles, receipts, status, inForce, gone>>
      BY <1>1, <1>5, <2>2 DEF Batch, Ends, reader, StoreInv, TypeOK, Finished
    <2>3. QED
      BY <1>5, <2>1, <2>2 DEF Batch
  <1>6. QED
    BY <1>2, <1>3, <1>4, <1>5 DEF Write

LEMMA PreflightEvaluation ==
  ASSUME StoreInv, EvaluationInv, NEW v \in Evaluations, Preflight(v) PROVE EvaluationInv'
  <1>1. OutOfForce' = OutOfForce /\ UNCHANGED plan
    BY PreflightType DEF OutOfForce, Active, writer, tables
  <1>2. CASE Evaluate(v)
    BY <1>1, <1>2 DEF Evaluate, EvaluationInv, StoreInv, TypeOK
  <1>3. CASE Rejected(v) /\ UNCHANGED gone
    BY <1>1, <1>3 DEF Rejected, EvaluationInv, StoreInv, TypeOK
  <1>4. ASSUME NEW x \in Reads, Answered(v, x), UNCHANGED gone, eval[v] = "reading",
               x \in Keys => x \notin gone[v], x = "bundle" => plan[v] \notin gone[v]
        PROVE  EvaluationInv'
    <2>1. done' = [done EXCEPT ![v] = done[v] \cup {x}] /\ eval'[v] \in {"ready", "reading"}
      BY <1>4 DEF Answered, StoreInv, TypeOK
    <2>2. eval'[v] = "ready" => done'[v] = Reads
      BY <1>4 DEF Answered, StoreInv, TypeOK
    <2>3. \A w \in Evaluations \ {v} : eval'[w] = eval[w] /\ done'[w] = done[w]
      BY <1>4 DEF Answered, StoreInv, TypeOK
    <2>4. done'[v] = done[v] \cup {x}
      BY <2>1 DEF StoreInv, TypeOK
    <2>5. EvaluationInv!(v)'
      BY <1>1, <1>4, <2>1, <2>2, <2>4 DEF EvaluationInv, Reads
    <2>6. \A w \in Evaluations \ {v} : EvaluationInv!(w)'
      BY <1>1, <1>4, <2>3 DEF EvaluationInv, Reads
    <2>7. QED
      BY <2>5, <2>6 DEF EvaluationInv
  <1>5. CASE ReadBundle(v)
    <2>1. ASSUME NEW r \in Records, BundleRows(v) = {r} PROVE plan[v] \notin OutOfForce
      <3>1. r \in Active /\ body[bundles[r]].asks.evidence = plan[v]
        BY <2>1 DEF BundleRows, Matches
      <3>2. plan[v] \in Evidences
        BY DEF StoreInv, TypeOK
      <3>3. QED
        BY <3>1, <3>2, KindsAssumption DEF OutOfForce
    <2>2. "bundle" \in Reads /\ "bundle" \notin Keys
      BY KindsAssumption DEF Reads
    <2>3. QED
      BY <1>3, <1>4, <1>5, <2>1, <2>2 DEF ReadBundle, EvaluationInv
  <1>6. CASE ReadReceipt(v)
    <2>1. "receipt" \in Reads /\ "receipt" \notin Keys
      BY KindsAssumption DEF Reads
    <2>2. QED
      BY <1>3, <1>4, <1>6, <2>1 DEF ReadReceipt
  <1>7. ASSUME NEW k \in Keys, ReadKey(v, k) PROVE EvaluationInv'
    <2>1. k \in Reads /\ k # "bundle"
      BY KindsAssumption DEF Reads
    <2>2. k \in inForce => k \notin OutOfForce
      BY KindsAssumption DEF OutOfForce
    <2>3. QED
      BY <1>3, <1>4, <1>7, <2>1, <2>2 DEF ReadKey, EvaluationInv
  <1>8. QED
    BY <1>2, <1>5, <1>6, <1>7 DEF Preflight

LEMMA EvaluationStep == StoreInv /\ EvaluationInv /\ [Next]_vars => EvaluationInv'
  <1> SUFFICES ASSUME StoreInv, EvaluationInv, [Next]_vars PROVE EvaluationInv'
    OBVIOUS
  <1>1. CASE Tick \/ UNCHANGED vars
    <2>1. UNCHANGED <<writer, tables, reader>>
      BY <1>1 DEF Tick, vars
    <2>2. OutOfForce' = OutOfForce
      BY <2>1 DEF OutOfForce, Active, writer, tables
    <2>3. QED
      BY <2>1, <2>2, GoneShrinks DEF EvaluationInv, reader
  <1>2. CASE Administer
    BY <1>2, GoneShrinks DEF Administer, Witness
  <1>3. QED
    BY <1>1, <1>2, WriterEvaluation, PreflightEvaluation DEF Next

\* A ready evaluation relied on nothing that was out of force all the while.
THEOREM Fresh == Spec => []ReadyIsFresh
  <1>1. EvaluationInv => ReadyIsFresh
    <2> SUFFICES ASSUME EvaluationInv, NEW v \in Evaluations, eval[v] = "ready"
                 PROVE  plan[v] \notin gone[v] /\ Keys \cap gone[v] = {}
      BY DEF ReadyIsFresh
    <2>1. done[v] = Reads
      BY DEF EvaluationInv
    <2>2. QED
      BY <2>1 DEF EvaluationInv, Reads
  <1>2. QED
    BY <1>1, EvaluationInit, EvaluationStep, StoreIsSound, PTL DEF Spec

(***************************************************************************)
(* The tables implement evidence that is in force once and one at a time.   *)
(***************************************************************************)

\* A row is filed under the record its request asked for, so no request has two.
RowsAreFiled == \A r \in Records : bundles[r] # NoRow => RecordOf(bundles[r]) = r

\* What a step outside the tables leaves of the two sets.
LEMMA PromiseUndisturbed ==
  ASSUME UNCHANGED <<bundles, status>>
  PROVE  UNCHANGED <<Live, Withdrawn>>
  <1>1. Active' = Active
    BY DEF Active
  <1>2. QED
    BY <1>1 DEF Live, Withdrawn

\* Only a batch and the administration write a table, and no step changes the body of a
\* request that has been written.
LEMMA FiledElsewhere ==
  ASSUME StoreInv, RowsAreFiled, UNCHANGED <<bundles, status>>,
         \A q \in Requests : pc[q] \in Finished => body'[q] = body[q]
  PROVE  RowsAreFiled' /\ UNCHANGED <<Live, Withdrawn>>
  <1>1. \A r \in Records : bundles[r] # NoRow =>
          bundles[r] \in Requests /\ pc[bundles[r]] \in Finished
    BY DEF StoreInv, TypeOK, NothingHalfWritten, Finished
  <1>2. QED
    BY <1>1, PromiseUndisturbed DEF RowsAreFiled, RecordOf

\* A batch that takes effect registers its request's evidence.
LEMMA BatchRegisters ==
  ASSUME StoreInv, RowsAreFiled, NEW q \in Requests, pc[q] = "writing", body' = body,
         ~FirstConflicts(q), SecondInserts(q), Inserted(q)
  PROVE  RowsAreFiled' /\ Promise!Register(q)
  <1> DEFINE rec == RecordOf(q)
  <1>1. /\ Active = {} /\ rec \in Records /\ bundles[rec] = NoRow
        /\ bundles' = [bundles EXCEPT ![rec] = q]
        /\ status' = [status EXCEPT ![rec] = "CURRENT"]
    BY BatchInserts
  <1>2. /\ bundles'[rec] = q /\ status'[rec] = "CURRENT" /\ q # NoRow
        /\ \A r \in Records \ {rec} : bundles'[r] = bundles[r] /\ status'[r] = status[r]
    BY <1>1, NoRowAssumption DEF StoreInv, TypeOK
  <1>3. RowsAreFiled'
    BY <1>2 DEF RowsAreFiled, RecordOf
  <1>4. Active' = {rec}
    BY <1>1, <1>2 DEF Active
  <1>5. Live = {} /\ Live' = {q}
    BY <1>1, <1>2, <1>4 DEF Live
  <1>6. Withdrawn' = Withdrawn
    <2> DEFINE Old == {s \in Records \ Active : bundles[s] # NoRow}
    <2>1. Old' = Old
      BY <1>1, <1>2, <1>4
    <2>2. \A s \in Old : s # rec
      BY <1>1
    <2>3. QED
      BY <1>2, <2>1, <2>2 DEF Withdrawn
  <1>7. q \notin Withdrawn
    <2>1. \A r \in Records : bundles[r] # NoRow => pc[bundles[r]] \in Finished
      BY DEF StoreInv, NothingHalfWritten, Finished
    <2>2. QED
      BY <2>1 DEF Withdrawn, Finished
  <1>8. QED
    BY <1>3, <1>5, <1>6, <1>7 DEF Promise!Register

\* The administration withdraws the record in force, or leaves both sets as they are.
LEMMA AdministerWithdraws ==
  ASSUME StoreInv, RowsAreFiled, Administer
  PROVE  RowsAreFiled' /\ [Promise!Next]_(Promise!vars)
  <1>1. RowsAreFiled' /\ bundles' = bundles
    BY DEF Administer, writer, RowsAreFiled, RecordOf
  <1>2. ASSUME NEW r \in Active, NEW s \in {"FINAL", "DISABLED"},
               status' = [status EXCEPT ![r] = s]
        PROVE  [Promise!Next]_(Promise!vars)
    <2>1. Active = {r} /\ r \in Records
      BY DEF StoreInv, OneLiveRecord, Active
    <2>2. Live = {bundles[r]} /\ bundles[r] # NoRow
      BY <2>1 DEF Live, StoreInv, RowsAreSound
    <2>3. CASE s = "FINAL"
      <3>1. Active' = Active
        BY <1>2, <2>1, <2>3 DEF Active, StoreInv, TypeOK
      <3>2. QED
        BY <1>1, <3>1 DEF Live, Withdrawn, Promise!vars
    <2>4. CASE s = "DISABLED"
      <3>1. Active' = {}
        BY <1>2, <2>1, <2>4 DEF Active, StoreInv, TypeOK
      <3>2. Live' = {}
        BY <3>1 DEF Live
      <3>3. Withdrawn' = Withdrawn \cup Live
        BY <1>1, <2>1, <2>2, <3>1 DEF Withdrawn
      <3>4. QED
        BY <2>2, <3>2, <3>3 DEF Promise!Next, Promise!Withdraw
    <2>5. QED
      BY <2>3, <2>4
  <1>3. CASE UNCHANGED status
    BY <1>1, <1>3, PromiseUndisturbed DEF Promise!vars
  <1>4. QED
    BY <1>1, <1>2, <1>3 DEF Administer

\* Every step registers, withdraws, or does neither.
LEMMA PromiseStep ==
  StoreInv /\ RowsAreFiled /\ [Next]_vars => RowsAreFiled' /\ [Promise!Next]_(Promise!vars)
  <1> SUFFICES ASSUME StoreInv, RowsAreFiled, [Next]_vars
               PROVE  RowsAreFiled' /\ [Promise!Next]_(Promise!vars)
    OBVIOUS
  <1> USE DEF Promise!vars
  <1>1. ASSUME NEW q \in Requests,
               Deliver(q) \/ Authenticate(q) \/ \E k \in Keys : VerifyKey(q, k)
        PROVE  RowsAreFiled' /\ UNCHANGED <<Live, Withdrawn>>
    <2>1. pc[q] \notin Finished /\ UNCHANGED <<bundles, status>>
            /\ \A p \in Requests \ {q} : body'[p] = body[p]
      BY <1>1 DEF Deliver, Authenticate, VerifyKey, Ends, Finished, tables, StoreInv, TypeOK
    <2>2. QED
      BY <2>1, FiledElsewhere
  <1>2. ASSUME NEW q \in Requests, Batch(q)
        PROVE  RowsAreFiled' /\ [Promise!Next]_(Promise!vars)
    <2>1. CASE Ends(q, "failed") /\ UNCHANGED <<bundles, receipts, status, inForce, gone>>
      <3>1. pc[q] \notin Finished /\ \A p \in Requests \ {q} : body'[p] = body[p]
        BY <1>2, <2>1 DEF Batch, Ends, Finished, StoreInv, TypeOK
      <3>2. QED
        BY <2>1, <3>1, FiledElsewhere
    <2>2. QED
      BY <1>2, <2>1, BatchRegisters DEF Batch, Promise!Next
  <1>3. ASSUME NEW v \in Evaluations, Preflight(v)
        PROVE  RowsAreFiled' /\ UNCHANGED <<Live, Withdrawn>>
    BY <1>3, PreflightType, FiledElsewhere DEF writer, tables
  <1>4. CASE Tick \/ UNCHANGED vars
    BY <1>4, FiledElsewhere DEF Tick, vars, writer, tables
  <1>5. QED
    BY <1>1, <1>2, <1>3, <1>4, AdministerWithdraws DEF Next, Write

\* However writers race, whatever the answers they get and whatever is disabled between, the
\* tables put evidence in force one at a time, each write once, and none again that has been
\* withdrawn.
THEOREM ImplementsPromise == Spec => ImplementsLiveEvidence
  <1>1. Init => RowsAreFiled /\ Promise!Init
    BY DEF Init, RowsAreFiled, Promise!Init, Live, Withdrawn, Active
  <1>2. QED
    BY <1>1, PromiseStep, StoreIsSound, PTL DEF Spec, ImplementsLiveEvidence, Promise!Spec
================================================================================
