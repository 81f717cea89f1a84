---------------------------- MODULE ExecutionRecord ----------------------------
(***************************************************************************)
(* executeAuthorizedAction (src/execution-record.js) run by several Worker  *)
(* requests against the Durable Objects of ONE idempotency scope: its lease *)
(* (IdempotencyState), its audit chain (AuditState, here an append-only     *)
(* sequence: AuditChain.tla shows that it is one) and the owner decisions   *)
(* (OwnerDecisionState).  Every await of the function is a step boundary:   *)
(* other requests, the clock and a crash may come between any two steps.    *)
(*                                                                         *)
(* A call reserves at most once, so the random lease id of the code is the  *)
(* call's own identity here.                                                *)
(*                                                                         *)
(* Assumed of what is not in this function: a request that failed at the    *)
(* caller has reached its object by then or never does, so reserve, consume,*)
(* complete and release, which await nothing, are effective by then or      *)
(* never, while append, which awaits a digest in a loop, may commit at any  *)
(* later time; and execute() and rollback() have done when they settle all  *)
(* they ever do, a rollback() that returns having undone the effect.        *)
(***************************************************************************)
EXTENDS Integers, Sequences, FiniteSets

CONSTANTS
  Calls,         \* the requests that run executeAuthorizedAction on this scope
  Decisions,     \* identities of signed owner decisions
  Standing,      \* the authorization of a standing policy (no owner decision)
  NoLease,       \* the lease_state table is empty
  Unconsumed,    \* the consumed_decision table of a decision is empty
  LeaseMs,       \* leaseMs, 60_000 by default, in clock units
  MaxSkew,       \* a Worker's Date differs from the Durable Objects' by at most this
  LastStart,     \* bound: no call is made later
  MaxClock,      \* bound: the clock stops here
  LostReplies    \* may an RPC take effect although its caller gets an exception?

ASSUME ClockAssumption ==
  /\ LeaseMs \in Nat \ {0}
  /\ MaxSkew \in Nat /\ LastStart \in Nat /\ MaxClock \in Nat
ASSUME NullAssumption ==
  Standing \notin Decisions /\ Unconsumed \notin Calls
ASSUME LostRepliesAssumption == LostReplies \in BOOLEAN
ASSUME NoLeaseAssumption ==
  NoLease \notin Calls \cup [state: {"reserved", "completed"}, holder: Calls, expiresAt: Int]

VARIABLES
  clock,      \* Date.now() in the Durable Objects
  pc,         \* where each call is
  callNow,    \* the `now` each call captured when it was made
  auth,       \* the authorization each call presents
  lease,      \* the one row of lease_state
  audit,      \* the events of the scope's chain, oldest first
  late,       \* the events AuditState still has to append although their callers gave up
  consumed,   \* decision -> the call whose consume() inserted its row
  effect,     \* the external effect of each call, as the provider has it
  rollback    \* rollbackResult of each call

vars == <<clock, pc, callNow, auth, lease, audit, late, consumed, effect, rollback>>

--------------------------------------------------------------------------------
(* Types *)

Ended == {"denied", "done", "failed", "crashed"}
\* Between a granted reservation and the return of the call.
HoldingSteps == {"checking", "consuming", "intending", "executing", "recording",
                 "completing", "releasing", "rollingBack", "recordingFailure"}
Steps == {"idle", "reserving"} \cup HoldingSteps \cup Ended

Lease == [state: {"reserved", "completed"}, holder: Calls, expiresAt: Int]
EventTypes == {"execution_intent", "execution_succeeded", "execution_failed"}
Event == [type: EventTypes, call: Calls, rollback: {"none", "ok", "failed"}]

TypeOK ==
  /\ clock \in Nat
  /\ pc \in [Calls -> Steps]
  /\ callNow \in [Calls -> Int]
  /\ auth \in [Calls -> Decisions \cup {Standing}]
  /\ lease \in Lease \cup {NoLease}
  /\ audit \in Seq(Event)
  /\ late \subseteq Event
  /\ consumed \in [Decisions -> Calls \cup {Unconsumed}]
  /\ effect \in [Calls -> {"none", "applied", "undone"}]
  /\ rollback \in [Calls -> {"none", "ok", "failed"}]

Init ==
  /\ clock = 0
  /\ pc = [c \in Calls |-> "idle"]
  /\ callNow = [c \in Calls |-> 0]
  /\ auth \in [Calls -> Decisions \cup {Standing}]
  /\ lease = NoLease
  /\ audit = <<>> /\ late = {}
  /\ consumed = [d \in Decisions |-> Unconsumed]
  /\ effect = [c \in Calls |-> "none"]
  /\ rollback = [c \in Calls |-> "none"]

--------------------------------------------------------------------------------
(* The lease row *)

\* Mutant: the reservation is written without a usable expiry.
LeaseOf_NoExpiry(c) ==
  [state |-> "reserved", holder |-> c, expiresAt |-> MaxClock + MaxSkew + LeaseMs + 1]

\* The lease row a call writes: it expires leaseMs after the call's own `now`.
LeaseOf(c) ==
  [state |-> "reserved", holder |-> c, expiresAt |-> callNow[c] + LeaseMs]

\* Mutant: reserve() forgets that an unexpired reservation blocks.
Blocked_CompletedOnly(c) == lease # NoLease /\ lease.state = "completed"

\* reserve() refuses a completed row, and a reserved one not expired at `now`.
Blocked(c) ==
  /\ lease # NoLease
  /\ lease.state = "completed" \/ lease.expiresAt > callNow[c]

\* The WHERE clause of release(): the row is still this call's reservation.
Holds(c) ==
  /\ lease # NoLease
  /\ lease.state = "reserved"
  /\ lease.holder = c

\* Mutant: complete() does not match lease_id.
CanComplete_AnyHolder(c) ==
  lease # NoLease /\ lease.state = "reserved" /\ lease.expiresAt > clock

\* The WHERE clause of complete(): the same, and not expired at the object's clock.
CanComplete(c) == Holds(c) /\ lease.expiresAt > clock

Completed == lease # NoLease /\ lease.state = "completed"

--------------------------------------------------------------------------------
(* Steps of a call *)

Goto(c, step) == pc' = [pc EXCEPT ![c] = step]

\* The next step of a call whose RPC took effect: the one the code takes on the
\* reply, or, when the reply is lost, the one it takes on an exception.
Replied(c, onReply, onError) ==
  \/ Goto(c, onReply)
  \/ LostReplies /\ Goto(c, onError)

\* The call is made; `now = new Date()` is evaluated on the Worker's clock.
Start(c) ==
  /\ pc[c] = "idle"
  /\ clock <= LastStart
  /\ \E now \in (clock - MaxSkew) .. (clock + MaxSkew) :
       callNow' = [callNow EXCEPT ![c] = now]
  /\ Goto(c, "reserving")
  /\ UNCHANGED <<clock, auth, lease, audit, late, consumed, effect, rollback>>

\* idempotencyStore.reserve() before the try block: an exception or a refusal
\* ends the call, and nothing releases what a lost reply granted.
Reserve(c) ==
  /\ pc[c] = "reserving"
  /\ \/ /\ Goto(c, "denied")                        \* refused, or the RPC failed
        /\ UNCHANGED lease
     \/ /\ ~Blocked(c)
        /\ lease' = LeaseOf(c)
        /\ Replied(c, "checking", "denied")
  /\ UNCHANGED <<clock, callNow, auth, audit, late, consumed, effect, rollback>>

\* gateway.assertExecutable(): the re-evaluation passes or throws; an owner
\* exception has its signature verified first and then consumes its decision.
AssertExecutable(c) ==
  /\ pc[c] = "checking"
  /\ \/ Goto(c, "releasing")
     \/ auth[c] = Standing /\ Goto(c, "intending")
     \/ auth[c] # Standing /\ Goto(c, "consuming")
  /\ UNCHANGED <<clock, callNow, auth, lease, audit, late, consumed, effect, rollback>>

\* Mutant: the insert of consume() overwrites instead of doing nothing on conflict.
Consume_Upsert(c) ==
  /\ pc[c] = "consuming"
  /\ consumed' = [consumed EXCEPT ![auth[c]] = c]
  /\ Replied(c, "intending", "releasing")
  /\ UNCHANGED <<clock, callNow, auth, lease, audit, late, effect, rollback>>

\* ownerDecisionStore.consume(): the first insert of the decision's only row wins.
Consume(c) ==
  /\ pc[c] = "consuming"
  /\ \/ Goto(c, "releasing") /\ UNCHANGED consumed  \* replay, or the RPC failed
     \/ /\ consumed[auth[c]] = Unconsumed
        /\ consumed' = [consumed EXCEPT ![auth[c]] = c]
        /\ Replied(c, "intending", "releasing")
  /\ UNCHANGED <<clock, callNow, auth, lease, audit, late, effect, rollback>>

\* appendVerified(): the event is committed and its receipt verified; or the call gets an
\* exception, and the event is not committed by then: it never will be, or may still be.
AppendVerified(c, event, onReply, onError) ==
  \/ audit' = Append(audit, event) /\ Goto(c, onReply) /\ UNCHANGED late
  \/ UNCHANGED audit /\ Goto(c, onError) /\ UNCHANGED late
  \/ LostReplies /\ UNCHANGED audit /\ Goto(c, onError) /\ late' = late \cup {event}

\* append() goes on, whatever has become of its caller: between its digest and its
\* transaction, or until the receipt that is lost.
CommitLate ==
  /\ \E event \in late : audit' = Append(audit, event) /\ late' = late \ {event}
  /\ UNCHANGED <<clock, pc, callNow, auth, lease, consumed, effect, rollback>>

EventOf(c, type) == [type |-> type, call |-> c, rollback |-> rollback[c]]

AppendIntent(c) ==
  /\ pc[c] = "intending"
  /\ AppendVerified(c, EventOf(c, "execution_intent"), "executing", "releasing")
  /\ UNCHANGED <<clock, callNow, auth, lease, consumed, effect, rollback>>

\* execute() and the digest of its result.  An exception leaves the effect
\* applied or not: the code cannot tell.
Execute(c) ==
  /\ pc[c] = "executing"
  /\ \/ effect' = [effect EXCEPT ![c] = "applied"] /\ Goto(c, "recording")
     \/ effect' = [effect EXCEPT ![c] = "applied"] /\ Goto(c, "rollingBack")
     \/ UNCHANGED effect /\ Goto(c, "rollingBack")
  /\ UNCHANGED <<clock, callNow, auth, lease, audit, late, consumed, rollback>>

AppendSucceeded(c) ==
  /\ pc[c] = "recording"
  /\ AppendVerified(c, EventOf(c, "execution_succeeded"), "completing", "rollingBack")
  /\ UNCHANGED <<clock, callNow, auth, lease, consumed, effect, rollback>>

\* idempotencyStore.complete(); a lease lost to expiry throws into the rollback.
Complete(c) ==
  /\ pc[c] = "completing"
  /\ \/ Goto(c, "rollingBack") /\ UNCHANGED lease   \* refused, or the RPC failed
     \/ /\ CanComplete(c)
        /\ lease' = [lease EXCEPT !.state = "completed"]
        /\ Replied(c, "done", "rollingBack")
  /\ UNCHANGED <<clock, callNow, auth, audit, late, consumed, effect, rollback>>

\* Mutant: release() marks the row with a state its CHECK does not list.
Release_Marks(c) ==
  /\ pc[c] = "releasing"
  /\ lease' = IF Holds(c) THEN [lease EXCEPT !.state = "released"] ELSE lease
  /\ Goto(c, "failed")
  /\ UNCHANGED <<clock, callNow, auth, audit, late, consumed, effect, rollback>>

\* The catch block before the effect: release() deletes the row if it is still ours.
Release(c) ==
  /\ pc[c] = "releasing"
  /\ \/ lease' = IF Holds(c) THEN NoLease ELSE lease
     \/ UNCHANGED lease                             \* the RPC failed
  /\ Goto(c, "failed")
  /\ UNCHANGED <<clock, callNow, auth, audit, late, consumed, effect, rollback>>

\* Mutant: an exception of the rollback handler is recorded as a rollback.
RollBack_Trusting(c) ==
  /\ pc[c] = "rollingBack"
  /\ \E undone \in BOOLEAN :
       effect' = IF undone /\ effect[c] = "applied"
                 THEN [effect EXCEPT ![c] = "undone"] ELSE effect
  /\ rollback' = [rollback EXCEPT ![c] = "ok"]
  /\ Goto(c, "recordingFailure")
  /\ UNCHANGED <<clock, callNow, auth, lease, audit, late, consumed>>

\* The catch block after the effect: the rollback handler undoes it and returns,
\* or throws (its status is "failed") having undone it or not.
RollBack(c) ==
  /\ pc[c] = "rollingBack"
  /\ \E status \in {"ok", "failed"}, undone \in BOOLEAN :
       /\ status = "ok" => undone
       /\ rollback' = [rollback EXCEPT ![c] = status]
       /\ effect' = IF undone /\ effect[c] = "applied"
                    THEN [effect EXCEPT ![c] = "undone"] ELSE effect
  /\ Goto(c, "recordingFailure")
  /\ UNCHANGED <<clock, callNow, auth, lease, audit, late, consumed>>

\* The failure event; an exception of its own append is swallowed.
AppendFailed(c) ==
  /\ pc[c] = "recordingFailure"
  /\ AppendVerified(c, EventOf(c, "execution_failed"), "failed", "failed")
  /\ UNCHANGED <<clock, callNow, auth, lease, consumed, effect, rollback>>

\* The isolate is evicted, or the request cancelled: the call takes no more steps.
Crash(c) ==
  /\ pc[c] \notin Ended \cup {"idle"}
  /\ Goto(c, "crashed")
  /\ UNCHANGED <<clock, callNow, auth, lease, audit, late, consumed, effect, rollback>>

Tick ==
  /\ clock < MaxClock
  /\ clock' = clock + 1
  /\ UNCHANGED <<pc, callNow, auth, lease, audit, late, consumed, effect, rollback>>

\* The steps a running call takes by itself.
Step(c) ==
  \/ Reserve(c) \/ AssertExecutable(c) \/ Consume(c) \/ AppendIntent(c)
  \/ Execute(c) \/ AppendSucceeded(c) \/ Complete(c)
  \/ Release(c) \/ RollBack(c) \/ AppendFailed(c)

Next == Tick \/ CommitLate \/ \E c \in Calls : Start(c) \/ Step(c) \/ Crash(c)

Spec == Init /\ [][Next]_vars

\* The runtime runs every pending promise and time passes; a call need not be made.
Fairness == WF_vars(Tick) /\ \A c \in Calls : WF_vars(Step(c))

FairSpec == Spec /\ Fairness

--------------------------------------------------------------------------------
(* Properties *)

Recorded(type, c) == \E i \in DOMAIN audit : audit[i].type = type /\ audit[i].call = c

SuccessAfterIntent(c) ==
  \E i, j \in DOMAIN audit :
    /\ i < j
    /\ audit[i].type = "execution_intent" /\ audit[i].call = c
    /\ audit[j].type = "execution_succeeded" /\ audit[j].call = c

\* What a caller may rely on when executeAuthorizedAction returns: the scope is
\* completed under its own lease, its effect stands, and the chain holds its
\* intent, then its success, and no failure.
SuccessIsDurable ==
  \A c \in Calls : pc[c] = "done" =>
    /\ Completed /\ lease.holder = c
    /\ effect[c] = "applied"
    /\ SuccessAfterIntent(c)
    /\ ~Recorded("execution_failed", c)

\* A completed scope was completed by a call whose intent and success are on the
\* chain: the idempotency record never runs ahead of the audit record.
CompletionIsAudited ==
  Completed =>
    /\ Recorded("execution_intent", lease.holder)
    /\ Recorded("execution_succeeded", lease.holder)

\* docs/policy-gateway.md: a failed or unverifiable intent append prevents the
\* effect, so no effect exists that the chain does not announce.
NoEffectWithoutIntent ==
  \A c \in Calls : effect[c] # "none" => Recorded("execution_intent", c)

\* One owner decision allows at most one effect, however many calls present it
\* and even when an expired lease lets them overlap.
OneEffectPerDecision ==
  \A c, d \in Calls :
    /\ auth[c] = auth[d] /\ auth[c] \in Decisions
    /\ effect[c] # "none" /\ effect[d] # "none"
    => c = d

\* The promise of a decision: it is a token for the effect of one call.
Uses == {<<auth[c], c>> : c \in {d \in Calls : auth[d] \in Decisions /\ effect[d] # "none"}}
Decided == INSTANCE OneUse WITH
  Tokens <- Decisions, Users <- Calls, used <- Uses

\* Calls that overlap, fail, roll back and crash keep that promise.
ImplementsOneUse == Decided!Spec

\* While the lease of a call at work has not expired, even read on the worst clock, the row
\* names that call: no other reservation, and no late release or completion of a call whose
\* own lease has run out, takes the scope from it.  So no two such calls are at work.
LeaseUnexpired(c) == callNow[c] + LeaseMs > clock + MaxSkew
ExclusiveWithinLease ==
  \A c \in Calls :
    pc[c] \in HoldingSteps /\ LeaseUnexpired(c) => lease # NoLease /\ lease.holder = c

\* What an auditor reads off the chain, in whatever order late events have come to it: a
\* success is of an effect that was applied, though it may have been undone since; a failure
\* whose rollback is recorded as done means that the effect is not in force, and will not be;
\* and either comes after the intent of its call.
IntentBefore(i) ==
  \E j \in DOMAIN audit :
    j < i /\ audit[j].type = "execution_intent" /\ audit[j].call = audit[i].call
SuccessRecordIsTrue ==
  \A i \in DOMAIN audit : audit[i].type = "execution_succeeded" =>
    effect[audit[i].call] # "none" /\ IntentBefore(i)
FailureRecordIsTrue ==
  \A i \in DOMAIN audit : audit[i].type = "execution_failed" =>
    /\ audit[i].rollback = "ok" => effect[audit[i].call] # "applied"
    /\ audit[i].rollback # "none"
    /\ IntentBefore(i)

\* The chain and the idempotency record never run ahead of what happened nor lag behind
\* it: no effect unannounced, no completion unaudited, no success of an effect that never
\* was, no failure that claims more than the rollback did, and a normal return means all of it.
AuditIsTrue ==
  /\ SuccessIsDurable /\ CompletionIsAudited /\ NoEffectWithoutIntent
  /\ SuccessRecordIsTrue /\ FailureRecordIsTrue

\* A reservation that is not expired is taken from its holder by no one else, and
\* a completed row never changes again.
OnlyHolderEndsLease ==
  [][ /\ Completed => lease' = lease
      /\ \A c \in Calls : Holds(c) /\ lease.expiresAt > clock + MaxSkew /\ lease' # lease
           => pc[c] \in {"completing", "releasing"} /\ pc'[c] # pc[c]
    ]_vars

\* A reservation is for a bounded time, however long before it the call took its `now`, and
\* nothing its holder or another call does prolongs it: what a crashed holder leaves behind
\* blocks no call made later than that.
ReservationsRunOut ==
  [][ \A c \in Calls :
        /\ ~Holds(c) /\ Holds(c)' => lease'.expiresAt <= clock + MaxSkew + LeaseMs
        /\ Holds(c) /\ Holds(c)' => lease' = lease
    ]_vars

\* Every call that is made ends, no path of the function waiting for another call; and no
\* call and no crash, whatever reply was lost, keeps the scope for ever: in the end it is
\* completed, or any later call can reserve it.
ScopeIsNeverStuck ==
  <>[] /\ \A c \in Calls : pc[c] \in Ended \cup {"idle"}
       /\ Completed \/ lease = NoLease \/ lease.expiresAt <= clock

\* The promise of the scope: at most one announced call ever wins it.
Promise == INSTANCE OneSuccess WITH
  announced <- {c \in Calls : Recorded("execution_intent", c)},
  winner <- IF Completed THEN lease.holder ELSE NoLease,
  NoWinner <- NoLease

\* The lease and the audit chain of the code keep that promise.
ImplementsOneSuccess == Promise!Spec

\* AuditChain implements an append-only log of distinct events; this is the side of the
\* caller, who must append no event twice.
Chain == INSTANCE AppendOnlyLog WITH Entries <- Event, log <- audit

\* No call, however its appends are answered, records an event of its own a second time.
UsesChainAsLog == Chain!Spec

--------------------------------------------------------------------------------
(* Statements of the repository that the code does not keep *)

\* docs/policy-gateway.md:20 "active and completed leases block duplicates": no
\* effect starts on a scope that another call has completed.
CompletedLeaseBlocksEffects ==
  [][ Completed => \A c \in Calls : effect[c] = "none" => effect'[c] = "none" ]_vars
================================================================================
