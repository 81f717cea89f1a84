# Formal model of the AI platform control plane

TLA+ modules, TLC configurations and TLAPS proofs for the control plane in this
repository. Paths such as `src/execution-record.js` are relative to the repository root.

## 1. The system

| Component | Code | State | Operations |
|---|---|---|---|
| Execution record | `src/execution-record.js`, `IdempotencyStateDurableObject` and `OwnerDecisionStateDurableObject` in `src/control-plane-state-durable-objects.js` | one lease row per idempotency scope; one consumed row per owner decision | `executeAuthorizedAction`; `reserve`, `complete`, `release`; `consume` |
| Audit chain | `AuditStateDurableObject`, `CloudflareDurableAuditStore` in `src/cloudflare-runtime-stores.js` | head and rows of one hash chain per scope | `append`, `verifyReceipt` |
| Service authentication | `src/service-auth.js`, `service-auth-adapter.js`, `cloudflare-replay-store.js`, `service-auth-replay-durable-object.js` | consumed nonces with their expiry, one table per principal and key | `authenticateServiceRequest`, `consume` |
| Policy gateway | `src/policy-gateway.js` | the authorizations it issued (a WeakMap) | `evaluate`, `authorizeOwnerException`, `assertExecutable` |
| D1 authority readers | `src/d1-*-runtime.js`, `migrations/authority/` | resources, limits, keys, evidence, knowledge, standing state; written by the owner | one query and its integrity checks each |
| Control-plane Worker, orchestrator adapters | `src/control-plane-worker.js`, `cloudflare-orchestrator-adapters.js`, `orchestrator-workflow.js` | none | routing; `/v1/actions/execute` always answers 503 |
| Activation evidence | `src/authenticated-development-activation-evidence-writer.js`, the evidence provider and verifiers | bundles and write receipts in D1 | authenticated write; read and verify; chain verification; preflight |
| Cloudflare Admin v7 connector | `src/cloudflare-admin-v7-service.js`, `-api.js`, `-custodian.js`, `-contracts.js`, `-mcp.js` | the account's Worker versions, deployments, tokens and applications; one custody slot for each kind of secret | token creation, access protection, activation, subdomain and canary |
| Cloudflare Admin v7 OAuth | `src/cloudflare-admin-v7-oauth.js` | authorization state in KV | authorization request, callback |
| Autonomy supervisor | `scripts/autonomy-supervisor.js`, `autonomy-watchdog.js` | GitHub issues, labels, comments with markers | one cycle: stop, pull requests, task queue |
| Merge gates | `scripts/review-gate.js`, `security-gate.js`, `.github/workflows/` | check runs on head commits | read head, evaluate, publish |
| Validators, deployment records | `scripts/validate-artifacts.js` and others | none that outlives a run | checks of files |

How they interact. A caller gets an authorization from `PolicyGateway` and passes it to
`executeAuthorizedAction`. That function reserves the scope's lease, calls
`gateway.assertExecutable` (which re-reads the authority tables and, for an owner
exception, consumes the decision), appends an intent to the audit chain, runs the effect,
appends the success and completes the lease. On an exception it releases the lease, or
rolls the effect back and appends a failure. Service authentication guards the
evidence writer, whose records the activation preflight reads. The supervisor, the watchdog
and the merge gates meet in GitHub only: in a pull request's head, its checks, reviews and
comments, and in the stop issues. Nothing locks across components: each Durable Object is serial, each call
to one is atomic, and everything else interleaves at every `await`.

What is hard, and what correctness means:

- *Execution record.* The lease can expire at any await of its holder; three clocks
  are read (the caller's `now`, a Worker's, the object's); any RPC may succeed and lose
  its reply; the isolate may go away. Correct: a success that is reported is true and durable,
  no effect without an intent on the chain, one effect per owner decision, one
  winner per scope, and a crashed holder does not block the scope for ever.
- *Audit chain.* A digest is awaited between reading the head and writing the row.
  Correct: one chain, never a fork, one scope, receipts that mean what
  `verifyReceipt` concludes from them.
- *Service authentication.* `now` is captured before the body is read and the nonce consumed
  much later on another clock; clean-up is bounded. Correct: no message is accepted twice or
  stale, and what is refused takes no nonce.
- *Policy gateway.* A dozen reads, never a snapshot, while the owner changes the tables.
  Correct: what passes was authorized, is for the same target, and relied on nothing that was
  withdrawn before it began; the kill switch is the last thing read.
- *Task queue.* A cycle keeps nothing: what it knows it reads back from comments that an earlier
  cycle may have failed to write, or written without learning so, after an agent it may have
  triggered without learning that either. Correct: what is written is true, attempts at a
  task come in order, spaced and bounded, and no task waits for ever.
- *Pull requests and merge gates.* A gate job asks for the head, for the pull request again and
  for its files, then publishes; a cycle asks for heads, then files, then reviews and checks;
  pushes, reviews and the stop come at any time. Correct: a green gate speaks of the head, a head
  that changes protected automation is left alone, a dispatch is true of its commit, and a stop
  holds until the owner clears it.
- *Activation evidence.* The nonce is spent first and the two-statement batch runs last, against
  tables that others administer; the preflight reads bundle, keys and receipt side by side.
  Correct: one live record for a commit, none half written, none that the reader would reject
  for good over its times, and no readiness on what had been withdrawn before.
- *Admin v7 connector.* Up to a dozen requests to an account that nothing holds still, any of
  which may fail or lose its answer, nothing undone or retried, and other calls in between. Correct:
  no reported token without its credential, no code deployed but the reviewed code, nothing
  exposed before it is protected.

`PROJECT.json` lists the hazards at their lines.

## 2. The modules

| Module | What it is |
|---|---|
| `ExecutionRecord` | the calls of one scope, with its lease, its chain as a sequence, and the owner decisions |
| `OneSuccess` | abstract: at most one announced call wins a scope |
| `OneUse` | abstract: tokens, each used once by one user and for good |
| `ExecutionRecordProofs` | theorems about `ExecutionRecord` |
| `AuditChain` | the compare-and-swap loop of `append` |
| `AppendOnlyLog` | abstract: distinct entries, added at the end |
| `AuditChainProofs` | theorems about `AuditChain` |
| `ServiceAuthReplay` | deliveries of signed messages and the replay table |
| `ServiceAuthReplayProofs` | theorems about `ServiceAuthReplay` |
| `PolicyGateway` | the gateway's operations over changing tables |
| `PolicyGatewayProofs` | theorems about `PolicyGateway` |
| `TaskQueue` | the cycles of the autonomy supervisor over the queued issues |
| `BoundedRetry` | abstract: attempts in order, a bounded number, given up at the end |
| `TaskQueueProofs` | theorems about `TaskQueue` |
| `PullRequests` | a pull request's commits, the gate jobs, the cycles of supervisor and watchdog, the stop issues |
| `PullRequestsProofs` | theorems about `PullRequests` |
| `ActivationEvidence` | the evidence writer, the two D1 tables and the preflight |
| `LiveEvidence` | abstract: evidence in force one write at a time, and never again once withdrawn |
| `ActivationEvidenceProofs` | theorems about `ActivationEvidence` |
| `ActivationConnector` | the connector's writing tools over a Cloudflare account |
| `GuardedExposure` | abstract: exposed only once protected and activated, nothing taken back |
| `ActivationConnectorProofs` | theorems about `ActivationConnector` |
| `MC*` | the instances TLC checks |

How they fit. A module that takes something of another component for granted does so through an
abstract module that the other is shown to implement:

| Promise | Kept by | Relied on by |
|---|---|---|
| `AppendOnlyLog`: distinct entries, added at the end | `AuditChain` (`ImplementsAppendOnlyLog`) | `ExecutionRecord`, whose calls use their chain, a sequence to which an event is appended atomically, while its call waits, later, or not at all, and in no other way (`UsesChainAsLog`) |
| `OneUse` of signed messages | `ServiceAuthReplay` (`ImplementsOneUse`) | `ActivationEvidence`, where a request is the one delivery of its message that got past authentication |
| `OneUse` of owner decisions | `PolicyGateway`, for the assertions they pass; `ExecutionRecord`, for the effects executed on them (`ImplementsOneUse` in each) | the owner, who decides about one effect |
| `LiveEvidence` | `ActivationEvidence` (`ImplementsLiveEvidence`) | the preflight, whose reader rejects a commit with two bundles as ambiguous |
| `OneSuccess`, `BoundedRetry`, `GuardedExposure` | `ExecutionRecord`, `TaskQueue`, `ActivationConnector` | callers, the agent, the owner |

`ExecutionRecord` takes `assertExecutable` as a step that passes or throws, followed by the
consumption of the decision; `PolicyGateway` models what passing means, and both contain the
decision's Durable Object.
`TaskQueue` and `PullRequests` are the two halves of a supervisor cycle, which share nothing
but the cycle's end.

A property that is a conjunction, such as `AuditIsTrue`, is stated as its named parts, each of
which is a theorem or lemma of its own. The invariants that a promise contains
(`OneEffectPerDecision`, `AcceptedOnce`, `DecisionPassesOnce`, `OneLiveRecord`, `ExposedIsProtected`) are theorems
too, and are not in the runs beside it.

Operators named `X_Y` beside a definition `X` and commented "Mutant" are faulty variants of it:
`PROJECT.json` names, for each property, one that violates it.

### ExecutionRecord

`pc[c]` is the await at which a call is suspended; every action is the code from one await to
the next.

| Action | Code (`src/execution-record.js`) |
|---|---|
| `Start` | the call, with `now = new Date()` evaluated on a clock within `MaxSkew` of the object's |
| `Reserve` | 19-21; the row of `reserve()` (`LeaseOf`, `Blocked`) |
| `AssertExecutable`, `Consume` | 24; the last step of an owner exception is `consume()` |
| `AppendIntent`, `AppendSucceeded`, `AppendFailed` | 25-30, 34-37, 47-53, through `AppendVerified` (8-12) |
| `CommitLate` | `append()` of the audit object (`src/control-plane-state-durable-objects.js` 136-161) going on after its caller got an exception |
| `Execute` | 31-33: applied and returned, applied and thrown, or thrown |
| `Complete`, `Release` | 38-40, 42; the WHERE clauses `CanComplete`, `Holds` |
| `RollBack` | 43-46: undone, or thrown after undoing or not |
| `Crash`, `Tick` | the isolate goes away; the object's clock advances |

`append()` awaits a digest in a loop, so an event whose append failed at the caller may still be
committed, after the caller has rolled back and recorded the failure: `late` holds such events. Of
everything else a call asks for, this is assumed: `reserve`, `consume`, `complete` and `release` await
nothing, and a request that failed at the caller has reached them by then or never does; and `execute()` and
`rollback()`, which are the caller's functions, have done all they ever do when they settle, a `rollback()`
that returns having undone the effect.

The random lease id is the call itself, since a call reserves at most once. The scope digest
and the event contents beyond type, call and rollback status are abstracted.

### AuditChain

`Begin` and `Retry` are the loop up to `await digestCanonicalValue`, `Commit` the
transaction after it. A swap that fails and the next read of the head are one JavaScript turn,
hence one step. SHA-256 is the value it digests. `Restart` loses every append in
memory and keeps the storage.

### ServiceAuthReplay

`Deliver` captures `now`, `Verify` is everything from the body digest to the signature,
`Consume` is the object's `consume()`: its window check, the clean-up of the `PurgeLimit`
oldest expired rows (any choice among rows of equal age) and the insert. `genuine` stands for body
digest, key and HMAC. An RPC that fails without effect is a delivery that stops.

### PolicyGateway

Every awaited read is a step that may be refused at any time and passes only if its record is
in force then. `bad[r]` is a history variable: what has been out of force *in every state*
since request `r` began. `Administer` disables, enables, expires or replaces one record.
An action digest is the pair of the action and the target it resolved to;
it does not cover the evidence passed with the action, as in `executableIntent`
(`src/canonical-digest.js`).

Two details of the code decide when a record counts: the owner decision and the window of the
standing-state row are compared with the `now` the request captured (`timely`), every other
window with a date taken when the row is read. The expiry of an owner key is
implied by that of the decision (`src/d1-owner-control-runtime.js:98-101`).

Left out: the authorization object that the re-evaluation inside `assertExecutable` issues and
drops; the comparison of policy versions, which cannot differ with the one pinned
policy set (`policies/development-standing-policies.json`, no `validUntil`), so
that which policy matches is the constants `Covered` and `Ambiguous`.

### TaskQueue

`queued` are the issues the listing can return and the labels allow; `pr` is the linked pull request
(a draft without recent activity counts as none, since it pauses nothing), and a task that is
not queued can stand for any other pull request. `StartCycle` takes the clock and the pull requests,
`ListTasks` the issues, and then each request of the loop is a step of its own: reading the
comments (`Examine`), the trigger, the marker, the label, the stall record and `autonomy-blocked`.
Each can fail without effect or take effect unseen, which leads through `Caught`, the loop's
`catch`; `CycleDies` is the job's time limit or a lost runner. `markers` counts the dispatch comments,
all that the code reads of them besides the last one's age; `accepted` are the idempotency keys
the agent has taken, one for each attempt number. Cycles do not overlap: both workflows share the
concurrency group `autonomy-control`. GitHub's clock and the runner's are taken to agree, and a
request does not outlive the job that sent it.

Ages stop growing where they no longer matter: a marker's at `RetryDelay + CycleLimit`,
since it is compared with the clock of a cycle that is at most `CycleLimit` old.

### PullRequests

Commits are numbered in the order of their pushes: a branch that only moves forward. `run[r]` is a
gate job with the commit it resolved (`sha`), the head its script read (`at`), the head whose
files it read (`files`) and what else spoke for it (`found`); `phase` is where the one cycle under way is,
supervisor's or watchdog's, with the head it read first (`cycleHead`) and the answers it has had since its
last decision (`seen`). `held` is a history variable: what was so at some time while the cycle was
asking about it, whatever it was answered.

| Action | Code |
|---|---|
| `Resolve`, `Evaluate`, `Publish` | the steps of the gate jobs, `.github/workflows/merge-gates.yml` 136-165, 180-210 |
| `ReadPull`, `ReadFiles`, `ReadEvidence` | the requests of `scripts/review-gate.js` and `security-gate.js` |
| `Pending`, `Failed` | `checkState`, `isOnlyReviewGateFailing` of `scripts/autonomy-supervisor.js` (114-137) |
| `SecurityGatePasses`, `ReviewGatePasses`, `GlobalReasons`, `NextAction` | its pure decisions (322-344, 222-262, 462-501) |
| `StartCycle`, `Read`, `Guard`, `EnsureSecurityStop` | `runSupervisor` up to the pull requests, 797-844, and `ensureSecurityStop` |
| `Read`, `Watch` | `runWatchdog`, `scripts/autonomy-watchdog.js` |
| `Read`, `Decide`, `PostLabel`, `RequestReview` | `supervisePullRequest`, 711-733 |
| `SkipDispatch`, `Trigger`, `PostMarker` | `dispatchForPullRequest`, 688-708 |
| `JobDies`, `CycleDies` | a time limit, a lost runner, a request that fails |

Each request of a `Promise.all` is answered in a step of its own, in any order: the two reads of the stops,
the files, the checks, the reviews and the threads. Only the supervisor's own comments are read together
with the decision, since nothing but a cycle writes them. Of a gate's evidence only what speaks for it is
kept: an answer that does not can only make it a failure, which it may become anyway.

The check runs other than the gates are one value for each commit, which may change at any time and
in any direction, as a check is run again. `checkState` counts the gates' check runs like the others, so a
commit with a published gate and no other check is not pending.
The delays (ten and fifteen
minutes) are left open: an action that waits for one may happen or not, which only adds
behaviours. The owner closes one stop at a time. One
pull request suffices, since nothing of one decides about another but the stop.

### ActivationEvidence

A request goes through `Deliver` (the captured `now`), `Authenticate` (nonce, pinned fields, the
validity window), one `VerifyKey` for each key that `verify()` reads concurrently, and `Batch`. The batch
is D1's one transaction: `FirstInserts` is the `WHERE NOT EXISTS`, `FirstConflicts` the primary
key, `SecondInserts` the foreign key, the unique record and the `CHECK` of
`migrations/authority/0006_development_activation_evidence_writes.sql`. It may fail for any
reason, and succeed unseen. `Administer` disables or finalises a record and revokes or
reinstates a key; no code enables a record again. An evaluation reads the bundle and then its
keys on one path and the receipt on the other, in any order of the two, for the one time that the chain
verifier captures; `gone[v]` is what has been out of force in every state since it began.

A signed timestamp is a text (`Texts`), of which the write digest is made and only the instant is stored;
`ReceiptHolds` writes that instant out again, as the verifier does, and compares.

The other digests, role continuity and the independence of maker, checker, owner and writer are functions
of the row: their refusal is the nondeterministic one each step has.

### ActivationConnector

`pc[c]` is the request that call `c` makes next, and each tool is a chain of them (`list`,
`post`, ... for `createServiceToken`). A read that passes goes on (`Passes`), a write takes effect and goes on or ends
the call unseen (`Written`), and anything that throws is `Stop`: the code undoes and retries nothing.
What a call creates is named after the call. `Begin` captures the secrets of the call's environment, since
a Worker's secrets do not change under an invocation; `Derive` is the PATCH of
`versions/latest`, which copies whatever is the latest then; `Deploy` appends to the deployments;
`Owner` deletes tokens, uploads and deploys versions by hand. Assumed: a request that fails at its caller has
taken effect by then or never does.

All calls fall on one day, so key IDs, which are made of the date, do not distinguish them: the
case in which the custody slot is hardest to tell apart.

## 3. What TLC checks

| Run | Instance | Shows |
|---|---|---|
| `execution` | 2 calls, 1 decision, lease of 3 ticks, skew 1, last start at 2, clock to 6, lost replies, late appends | success, failure, lease and chain agree, and an unexpired lease is its holder's; it implements `OneSuccess` and, for decisions, `OneUse`; every call ends and the scope is free or completed in the end |
| `audit_chain` | 4 appends, 2 scopes, 2 attempts | one chain, receipts, contention, every append ends; it implements `AppendOnlyLog` |
| `service_auth_replay` | 3 deliveries, 2 messages, 2 nonces, window 1, retention 3, skew 1, one row cleaned up at a time | it implements `OneUse` for messages, so no replay; no stale acceptance, refusals are harmless |
| `policy_gateway` | 3 requests, 3 targets, 1 decision, 2 changes of the tables | freshness of passes, identity of what passes, kill switch last; it implements `OneUse` for decisions |
| `task_queue` | 2 tasks, the younger one parallel, 2 attempts, a delay of 1 tick, cycles of at most 1 | true records, spaced and bounded attempts; it implements `BoundedRetry` |
| `task_queue_live` | the same with no pull requests and cycles shorter than a tick | no task waits for ever |
| `supervision` | 2 commits, 2 gate jobs at a time, 2 review requests, 4 events (cycles and gate jobs among them), any commits sensitive | gates of the head, protected heads left alone, earned dispatches, the stop |
| `activation_evidence` | 2 requests, 2 records, 2 evidences, 2 keys, 1 evaluation, window 1, validity 2, clock to 2, 2 changes, both spellings of a timestamp | it implements `LiveEvidence`; nothing half written, receipts that verify, fresh readiness |
| `activation_connector` | 4 calls, 3 at a time, 1 act of the owner | custody of the reported token, a canary that is conclusive, reviewed code; it implements `GuardedExposure` |
| `execution_duplicate`, `policy_gateway_knowledge`, `task_queue_unconfirmed` | smaller instances | section 5 |

Why the bounds are enough. Two calls are needed for one to replace the other's lease. With a lease of
three ticks and a skew of one, a lease is unexpired on the worst clock for up to two ticks after it was
taken, so the calls that `ExclusiveWithinLease` compares may start at different ticks and with different
skews; a call that starts at the last start still has a tick left when its lease has run out, so every order
of expiry, replacement, completion and late release of a replaced row occurs. With four appends and two attempts an append can lose twice and give up while
others go on, and an unbound shard is raced for by two scopes. A window of one tick against
a clock of four has messages arrive early, at both ends of the window and late, and a
clean-up of one row with two nonces leaves expired rows behind. In the gateway two requests
can earn authorizations that a third asserts, and two changes allow a withdrawal and its
restoration, or the replacement of the target and its return, between any two reads.
Two tasks show whether one keeps the other waiting, and two attempts have a first one, a retry
and a limit that is reached; nothing in the queue's state grows, so no bound cuts it short.
Two commits make a head that moves under a gate job or a cycle, two jobs publish out of order, and
four events are enough for a stop to be raised, closed and cleared around a cycle, or for a
push, a review, a completed check and a gate job in any order. Every change, cycle and gate job is an
event, so the longer stories (a head that is dispatched for in a second cycle, after two retries of a
check) are not in the run and rest on the theorems, which have no bound. Two writers race for one commit with the
same record or different ones; the windows of `MCContents` are open from the start, open later, and
too long. Four calls let each tool of the connector run once, which the success of the last one
needs, or two of the first race before the others. They do not bring a canary together with a custody slot
that a second activation has overwritten, which takes five calls: that a canary fails then is shown by
the theorem `ReportsTrue` alone.
`LastStart`, `MaxClock`, `LastIssued`, `MaxChanges`, `MaxEvents`, `MaxOpen` and `MaxOwnerActs` bound the runs only; the proofs
hold for every value of them.

Deadlock is checked for the task queue, whose schedule never stops. Elsewhere calls and requests end, the
clock or the bound on events stops the run, and a request need never be made.

Fairness. `ExecutionRecord!Fairness` is weak fairness of each call's own steps (the runtime
resumes a settled promise, and each awaited RPC settles) and of the clock; no fairness
for `Start` and none against `Crash`. `AuditChain!FairSpec` is weak fairness of the
continuation of each append's digest. Neither assumes that an RPC succeeds: the
failing outcome is one of the step's own disjuncts. `TaskQueue!Fairness` has weak fairness of the
schedule and of the time limit, and strong fairness of each request: one that is made again and
again, every five minutes, is answered some time. Without that no retry can end. The trigger and
the marker need it only for some task, since each success uses up one of the attempts.

## 4. What is proved

Every safety property of the passing runs is also a TLAPS theorem, for every value of
the constants; `PROJECT.json` lists theorem and property. Assumptions: the named `ASSUME`s
of each module (types of the bounds, null values distinct from real ones; in
`ServiceAuthReplay` also that two windows plus the skew fit into the retention limit, which
300 s against 24 h satisfies).

- `ExecutionRecordProofs`. Type correctness first. `DecisionSpentOnce`: the row of a decision
  names the only call that can be past `Consume` with it. `LeaseExcludes`: a holder whose
  lease is unexpired on the worst clock still has the row, because `Blocked` and
  `LeaseOf` both use the caller's `now` and a late release names the row it wants. From the same invariant, `ReservationsEnd`: a reservation is for
  at most the lease and the skew from the moment it is made and is never prolonged, which is the part of
  `ScopeIsNeverStuck` that needs no fairness but the clock's. `SuccessDurable`, `CompletionAudited`,
  `EffectAnnounced`, `SuccessTrue`, `FailureTrue` come from one invariant that relates each call's `pc` to the
  events it has sent (`Sent`: on the chain, or still `late`) and to its effect; the properties alone are not
  inductive, since they say nothing of a call between two of its appends, nor of an event that is to come. `ImplementsPromise`
  maps each step to an announcement, a win or a stutter. `DecisionsAreTokens` maps the execution
  of an effect on an owner decision to a use and everything else to a stutter: the consumed row names the
  call (the invariant of `DecisionSpentOnce`), and neither a rollback nor a crash takes a use back.
  `ChainIsALog` needs `OnceInv`: an event a call is about to append has not been sent, and one that is late is
  not on the chain.
- `AuditChainProofs`. `Shape` (the rows form a sequence of appends), then `ChainIsLinked`,
  inductive as it stands; `ScopeInv` and `ReceiptInv` (a row's append is committed and its
  receipt is that row); `ContentionInv` (an append in round *k* has read a head that
  *k - 1* commits had moved), which gives type correctness too; the refinement.
- `ServiceAuthReplayProofs`. The invariant is that an accepted delivery's nonce stays in the
  table until its message expires; a clean-up removes expired rows only, and by then the
  object refuses the message itself. `MessagesAreTokens` turns this into the promise of every step: only
  `Consume` uses a message, and only one not used before.
- `PolicyGatewayProofs`. The invariant `IInv` says for each request what its `pc` implies of
  what it has read: `Flow` (which operation, target and authorization) and
  `Fresh` (which records cannot be in `bad`). Each read removes its record from
  `bad` for good, since `bad` only shrinks; one lemma per action preserves `IInv`.
  `Spent` relates the consumed row to its request; from it `DecisionsAreTokens` follows, since only
  the consumption passes an owner exception (`OnlyConsumptionPasses`).
- `PullRequestsProofs`. Type correctness needs that an action that asks for a review was chosen below the
  limit (`TypeInv`). `GateInv`: what a job found is true of the commit it will publish for, if that
  is still the head when the job reads it, since heads only grow. `SeenInv`: what a cycle has been
  answered is an answer to what it asked, and an idle one has been answered nothing. `ProtectedInv`: nothing is
  asked or dispatched for a commit not yet pushed, and a cycle at work on the present head read that
  head's own files. `HeldInv`: what a cycle was answered was so while it was asking, and past its guard both
  stops have been cleared at some time. `EarnedInv`: what was decided for a commit has its grounds in `held`,
  from which nothing is taken before the cycle ends.
- `ActivationEvidenceProofs`. `StoreInv` carries the checks of a request to its row
  (`BodiesAreChecked`, `RowsAreSound`); that tables agree and one record is live is then inductive,
  by the foreign key. `ImplementsPromise` maps the batch to a registration and the owner's disabling to a
  withdrawal; it needs `RowsAreFiled`, that a row in the table is of a request that has made its batch, for a
  write that was withdrawn not to be registered again. `EvaluationInv`: nothing an evaluation was answered is in `gone`, which only
  shrinks.
- `ActivationConnectorProofs`. `CustodyInv`: of the calls that hold an only token at most one is past
  its verification, so at most one stores. `DeployInv`: the code of a derived version is fixed when
  its continuity is checked. `ExposureInv`: what a call verified of application and deployment
  cannot be undone by any tool or by what the owner does in the model. `ImplementsPromise` maps the
  policy, the deployment and the subdomain's POST to the three steps of `GuardedExposure`. `ReportsTrue`
  joins five invariants: `CustodianInv` says that a credential whose token exists is never
  replaced, so that the one a custodian was given is, if its token still exists, the one in custody, however
  old; `AdmissionInv` that an application with a policy is never written again; with `DeployInv`, the
  version that answers the canary has the reviewed code.
- `TaskQueueProofs`. `QueueInv` says that the accepted attempts are those the markers count and
  at most one more (`AcceptedAttempts`), that a marker is never older than the acceptance it records
  (`MarkerFollows`), and that what the cycle under way has decided still holds (`Decided`), which
  is where cycles that do not overlap are needed. Type correctness rests on it: without
  `Decided` nothing bounds the next marker. The refinement maps a trigger of a new key to an
  attempt, one of a known key to a stutter, and the stall record to giving up.

Proved and not checked by a run: `OnlyHolderEndsLease`, `ReservationsRunOut` and `UsesChainAsLog` (`ExecutionRecord`),
`QuietOnceDispatched` (`TaskQueue`), and the invariants that a promise of a run contains.

What the theorems do not say. A canary that passes does not show that its token is the only one of the
pinned name, nor that the version which answered is the one the caller named: two overlapping creations can
leave a second token, and two overlapping activations can deploy one version after the other's checks. The
token and the version it did use are those of `CanaryIsConclusive`.

Only model-checked: liveness (`ScopeIsNeverStuck`, `EveryAppendEnds`, `NoTaskWaitsForEver`), as
liveness under fairness is out of the prover's reach. The refinements are of the abstract modules' safety:
they state no fairness, so nothing of them is left to TLC. No definition is recursive, so nothing
needs induction over data.

## 5. Where the code and its documentation differ

- `execution_duplicate`: "active and completed leases block duplicates"
  (`docs/policy-gateway.md:20`). The lease is checked at reservation and not again before the
  effect, so a call whose lease has expired executes on a scope that another call has
  completed. What does hold: `OneSuccess`, and for owner exceptions `OneEffectPerDecision`.
- `policy_gateway_knowledge`: "repeat resolution, evidence, policy, Project Knowledge, ..."
  (`docs/policy-gateway.md:19`). No step of an owner exception reads Project Knowledge.
- `task_queue_unconfirmed`: "At most one accepted Workspace Agent task trigger occurs per supervisor
  cycle, even if ..." (`docs/autonomy-supervisor.md:9`). A trigger that was accepted but whose answer
  is lost or not JSON is an error like any other, and the cycle goes on to the next task. What does
  hold: `QuietOnceDispatched`, and the next cycle repeats the trigger under the same key.

Read in the code while modelling, with no run of their own:

- "the active lease contains the uncertain state" (`src/execution-record.js:51`). The lease may have
  expired, or been replaced, when the append of the failure fails.
- "Technical clearance is actionable only when every exact-head check passes"
  (`docs/autonomy-supervisor.md:5`). `isOnlyReviewGateFailing`
  (`scripts/autonomy-supervisor.js:132-137`) lets `merge-ready` be dispatched while the
  `review-gate` check has failed, and since `checkState` counts the gates' check runs, a commit for which
  `validate` never ran is not pending once a gate has published for it.
- "execute, persist the terminal event, and complete the lease" (`docs/policy-gateway.md:20`). The chain
  may hold two terminal events of a call, and its success may come after its rollback and its failure
  event, for `append()` goes on when its caller has given up
  (`src/control-plane-state-durable-objects.js:140-145`). An auditor cannot read the outcome off the last
  event of a call; `AuditIsTrue` says what can be read off it.
- A signed timestamp that `Date` parses but `toISOString()` would write differently
  (`2026-08-01T10:00:00Z`) passes service authentication and is stored, and then never verifies: the write
  digest is of the text (`src/authenticated-development-activation-evidence-writer.js:188`), the verifier's of
  the stored instant (`src/d1-development-activation-evidence-write-verifier.js:183`). The record keeps the commit's one place until it is
  disabled. `createServiceAuthHeaders` writes the canonical text only.
- A cycle reads issue #66 and the other stops in two requests. One that was under some stop at every moment can
  act, if the first is cleared when it is read and raised after that, and the second is closed by the owner before
  it is read. `StopHolds` says what does hold of each.
- "The supervisor also stops when an open pull request changes its workflow"
  (`docs/autonomy-supervisor.md:17`). Only that pull request is skipped
  (`scripts/autonomy-supervisor.js:833-844`).
- "two PRs sharing a head branch can never have their results swapped"
  (`.github/workflows/merge-gates.yml:134`). The result is a check run of the commit, so the pull
  requests that share a head share it, whichever was evaluated last.
- "The callback consumes its state once" (`docs/cloudflare-admin-v7.md:44`). It reads the state and
  then deletes it, in two calls of KV.

`GreenGateIsOfTheHead` rests on a branch that only moves forward: after a force push back to an
earlier commit, the gates that commit got before are its own again.

## 6. What is left

1. The connector's read-only preflight tool, the resolution of the Worker's identity, overlapping
   Access applications, and listings of several pages: an item that is removed while another is added between two
   pages leaves `total_count` as it was (`src/cloudflare-admin-v7-contracts.js:145`).
2. Pull requests that share a head commit, and force pushes, in `PullRequests`.
3. Liveness of supervision: a pull request whose reviewer never answers is labelled and
   dispatched in the end. It needs the delays that `PullRequests` leaves open.
4. The composition of `TaskQueue` and `PullRequests` over one stop issue.

## 7. What is not modelled, and why

Pure functions (canonical JSON, digests, resource and schema contracts, policy matching) have no
state and are covered by their use: equal digests mean equal values. The Worker's routing and
the orchestrator adapters keep nothing between requests. Validators, deployment records and one-off
scripts are sequential. The OAuth component keeps one value in KV, whose order of reads and
deletes across data centres is KV's and not this code's. `dispatch-pr-merge-gate.yml` triggers the Workspace
Agent itself, after each Claude review and each `validate` run of a pull request (lines 109-140), and looks neither at
the stop issues nor at the changed files. `ProtectedHeadIsLeftAlone`, `StopHolds` and `DispatchIsEarned` are
about the supervisor and the watchdog, and say nothing of that trigger. The HMAC and Ed25519 primitives are taken to be
sound.
