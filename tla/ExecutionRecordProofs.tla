------------------------- MODULE ExecutionRecordProofs -------------------------
(***************************************************************************)
(* Theorems about ExecutionRecord, for every value of its constants.        *)
(***************************************************************************)
EXTENDS ExecutionRecord, TLAPS

(***************************************************************************)
(* Appending an event: at once, later, or never.                            *)
(***************************************************************************)

\* The events the calls have sent: those of the chain and those still to come to it.
Sent == late \cup {audit[i] : i \in DOMAIN audit}

LEMMA EventFields ==
  ASSUME TypeOK, NEW c \in Calls, NEW type \in EventTypes
  PROVE  LET e == EventOf(c, type) IN
           e \in Event /\ e.type = type /\ e.call = c /\ e.rollback = rollback[c]
  BY DEF TypeOK, EventOf, Event

LEMMA SentTyped ==
  ASSUME TypeOK
  PROVE  Sent \subseteq Event /\ \A i \in DOMAIN audit : audit[i] \in Event
  <1>1. \A i \in DOMAIN audit : audit[i] \in Event
    <2>1. audit \in Seq(Event)
      BY DEF TypeOK
    <2>2. QED
      BY <2>1
  <1>2. QED
    BY <1>1 DEF TypeOK, Sent

\* One more event at the end of the chain.
LEMMA ChainGrows ==
  ASSUME TypeOK, NEW e \in Event, audit' = Append(audit, e)
  PROVE  /\ Len(audit) \in Nat /\ DOMAIN audit = 1 .. Len(audit)
         /\ DOMAIN audit' = 1 .. Len(audit) + 1
         /\ \A i \in DOMAIN audit : audit'[i] = audit[i]
         /\ audit'[Len(audit) + 1] = e
         /\ audit' \in Seq(Event)
  <1>1. audit \in Seq(Event)
    BY DEF TypeOK
  <1>2. QED
    BY <1>1

\* What a call sends is one event of its own, and it goes on as the code says.
LEMMA AppendSends ==
  ASSUME TypeOK, NEW c \in Calls, NEW type \in EventTypes, NEW onReply, NEW onError,
         AppendVerified(c, EventOf(c, type), onReply, onError)
  PROVE  /\ Sent' \subseteq Sent \cup {EventOf(c, type)}
         /\ \/ audit' = Append(audit, EventOf(c, type)) /\ pc'[c] = onReply /\ late' = late
            \/ audit' = audit /\ pc'[c] = onError /\ late' = late
            \/ audit' = audit /\ pc'[c] = onError /\ late' = late \cup {EventOf(c, type)}
         /\ \A d \in Calls : d # c => pc'[d] = pc[d]
         /\ onReply \in Steps /\ onError \in Steps => pc' \in [Calls -> Steps]
         /\ audit' \in Seq(Event) /\ late' \subseteq Event
  <1> DEFINE e == EventOf(c, type)
  <1>1. e \in Event
    BY EventFields
  <1>2. /\ \A d \in Calls : d # c => pc'[d] = pc[d]
        /\ onReply \in Steps /\ onError \in Steps => pc' \in [Calls -> Steps]
        /\ \/ audit' = Append(audit, e) /\ pc'[c] = onReply /\ late' = late
           \/ audit' = audit /\ pc'[c] = onError /\ late' = late
           \/ audit' = audit /\ pc'[c] = onError /\ late' = late \cup {e}
    BY DEF AppendVerified, Goto, TypeOK
  <1> HIDE DEF e
  <1>3. CASE audit' = Append(audit, e) /\ late' = late
    BY <1>1, <1>2, <1>3, ChainGrows DEF Sent, TypeOK, e
  <1>4. CASE audit' = audit /\ late' \in {late, late \cup {e}}
    BY <1>1, <1>2, <1>4 DEF Sent, TypeOK, e
  <1>5. QED
    BY <1>2, <1>3, <1>4

\* What comes late to the chain has been sent before.
LEMMA LateCommits ==
  ASSUME TypeOK, CommitLate
  PROVE  \E e \in late :
           /\ e \in Event /\ audit' = Append(audit, e) /\ late' = late \ {e}
           /\ Sent' \subseteq Sent /\ audit' \in Seq(Event) /\ late' \subseteq Event
           /\ UNCHANGED <<clock, pc, callNow, auth, lease, consumed, effect, rollback>>
  <1>1. PICK e \in late : audit' = Append(audit, e) /\ late' = late \ {e}
    BY DEF CommitLate
  <1>2. e \in Event
    BY DEF TypeOK
  <1>3. Sent' \subseteq Sent /\ audit' \in Seq(Event) /\ late' \subseteq Event
    BY <1>1, <1>2, ChainGrows DEF Sent, TypeOK
  <1>4. QED
    BY <1>1, <1>2, <1>3 DEF CommitLate

(***************************************************************************)
(* Type correctness.                                                        *)
(***************************************************************************)

\* The state a step of a call leaves has its types.
LEMMA StepTyped ==
  ASSUME TypeOK, NEW c \in Calls, Step(c)
  PROVE  TypeOK'
  <1>1. CASE Reserve(c)
    <2>1. LeaseOf(c) \in Lease
      BY ClockAssumption DEF TypeOK, LeaseOf, Lease
    <2>2. QED
      BY <1>1, <2>1 DEF TypeOK, Reserve, Replied, Goto, Steps, HoldingSteps, Ended
  <1>2. CASE AssertExecutable(c)
    BY <1>2 DEF TypeOK, AssertExecutable, Goto, Steps, HoldingSteps, Ended
  <1>3. CASE Consume(c)
    BY <1>3 DEF TypeOK, Consume, Replied, Goto, Steps, HoldingSteps, Ended
  <1>4. CASE AppendIntent(c)
    <2>1. audit' \in Seq(Event) /\ late' \subseteq Event /\ pc' \in [Calls -> Steps]
      BY <1>4, AppendSends DEF AppendIntent, EventTypes, Steps, HoldingSteps, Ended
    <2>2. QED
      BY <1>4, <2>1 DEF TypeOK, AppendIntent
  <1>5. CASE Execute(c)
    BY <1>5 DEF TypeOK, Execute, Goto, Steps, HoldingSteps, Ended
  <1>6. CASE AppendSucceeded(c)
    <2>1. audit' \in Seq(Event) /\ late' \subseteq Event /\ pc' \in [Calls -> Steps]
      BY <1>6, AppendSends DEF AppendSucceeded, EventTypes, Steps, HoldingSteps, Ended
    <2>2. QED
      BY <1>6, <2>1 DEF TypeOK, AppendSucceeded
  <1>7. CASE Complete(c)
    <2>1. lease' \in Lease \cup {NoLease}
      BY <1>7 DEF TypeOK, Complete, CanComplete, Holds, Lease
    <2>2. QED
      BY <1>7, <2>1 DEF TypeOK, Complete, Replied, Goto, Steps, HoldingSteps, Ended
  <1>8. CASE Release(c)
    BY <1>8 DEF TypeOK, Release, Goto, Steps, HoldingSteps, Ended
  <1>9. CASE RollBack(c)
    BY <1>9 DEF TypeOK, RollBack, Goto, Steps, HoldingSteps, Ended
  <1>10. CASE AppendFailed(c)
    <2>1. audit' \in Seq(Event) /\ late' \subseteq Event /\ pc' \in [Calls -> Steps]
      BY <1>10, AppendSends DEF AppendFailed, EventTypes, Steps, HoldingSteps, Ended
    <2>2. QED
      BY <1>10, <2>1 DEF TypeOK, AppendFailed
  <1>11. QED
    BY <1>1, <1>2, <1>3, <1>4, <1>5, <1>6, <1>7, <1>8, <1>9, <1>10 DEF Step

\* Every state of the executor has its types.
THEOREM TypeCorrect == Spec => []TypeOK
  <1>1. Init => TypeOK
    BY DEF Init, TypeOK, Steps, Event
  <1>2. TypeOK /\ [Next]_vars => TypeOK'
    <2> SUFFICES ASSUME TypeOK, [Next]_vars PROVE TypeOK'
      OBVIOUS
    <2>1. ASSUME NEW c \in Calls, Start(c) PROVE TypeOK'
      BY <2>1, ClockAssumption DEF TypeOK, Start, Goto, Steps
    <2>2. ASSUME NEW c \in Calls, Step(c) PROVE TypeOK'
      BY <2>2, StepTyped
    <2>3. ASSUME NEW c \in Calls, Crash(c) PROVE TypeOK'
      BY <2>3 DEF TypeOK, Crash, Goto, Steps, Ended
    <2>4. CASE Tick
      BY <2>4 DEF TypeOK, Tick
    <2>5. CASE UNCHANGED vars
      BY <2>5 DEF TypeOK, vars
    <2>6. CASE CommitLate
      BY <2>6, LateCommits DEF TypeOK
    <2>7. QED
      BY <2>1, <2>2, <2>3, <2>4, <2>5, <2>6 DEF Next
  <1>3. QED
    BY <1>1, <1>2, PTL DEF Spec

(***************************************************************************)
(* At most one effect per owner decision.                                   *)
(***************************************************************************)

\* The steps a call reaches only after assertExecutable returned.
Authorized == {"intending", "executing", "recording", "completing",
               "rollingBack", "recordingFailure", "done"}

\* An owner-authorized call past the check, or with an effect, owns the decision's row.
DecisionInv ==
  \A c \in Calls :
    auth[c] \in Decisions /\ (pc[c] \in Authorized \/ effect[c] # "none")
      => consumed[auth[c]] = c

\* The decision invariant is inductive: the row of a decision is written once.
LEMMA DecisionStep ==
  ASSUME TypeOK, DecisionInv, [Next]_vars
  PROVE  DecisionInv'
  <1> USE DEF DecisionInv, Authorized
  <1>1. ASSUME NEW c \in Calls, Start(c) PROVE DecisionInv'
    BY <1>1 DEF TypeOK, Start, Goto
  <1>2. ASSUME NEW c \in Calls, Reserve(c) PROVE DecisionInv'
    BY <1>2 DEF TypeOK, Reserve, Replied, Goto
  <1>3. ASSUME NEW c \in Calls, AssertExecutable(c) PROVE DecisionInv'
    BY <1>3, NullAssumption DEF TypeOK, AssertExecutable, Goto
  <1>4. ASSUME NEW c \in Calls, Consume(c) PROVE DecisionInv'
    <2>1. CASE UNCHANGED consumed /\ Goto(c, "releasing")
      BY <1>4, <2>1 DEF TypeOK, Consume, Goto
    <2>2. CASE /\ consumed[auth[c]] = Unconsumed
               /\ consumed' = [consumed EXCEPT ![auth[c]] = c]
               /\ Replied(c, "intending", "releasing")
      <3> SUFFICES ASSUME NEW d \in Calls, auth[d] \in Decisions,
                          pc'[d] \in Authorized \/ effect[d] # "none"
                   PROVE  consumed'[auth[d]] = d
        BY <1>4 DEF Consume
      <3>1. CASE d = c
        BY <1>4, <2>2, <3>1 DEF TypeOK
      <3>2. CASE d # c
        <4>1. consumed[auth[d]] = d
          BY <2>2, <3>2 DEF TypeOK, Replied, Goto
        <4>2. auth[d] # auth[c]
          BY <2>2, <4>1, NullAssumption
        <4>3. QED
          BY <2>2, <4>1, <4>2 DEF TypeOK
      <3>3. QED
        BY <3>1, <3>2
    <2>3. QED
      BY <1>4, <2>1, <2>2 DEF Consume
  <1>5. ASSUME NEW c \in Calls, AppendIntent(c) PROVE DecisionInv'
    BY <1>5 DEF TypeOK, AppendIntent, AppendVerified, Goto
  <1>6. ASSUME NEW c \in Calls, Execute(c) PROVE DecisionInv'
    BY <1>6 DEF TypeOK, Execute, Goto
  <1>7. ASSUME NEW c \in Calls, AppendSucceeded(c) PROVE DecisionInv'
    BY <1>7 DEF TypeOK, AppendSucceeded, AppendVerified, Goto
  <1>8. ASSUME NEW c \in Calls, Complete(c) PROVE DecisionInv'
    BY <1>8 DEF TypeOK, Complete, Replied, Goto
  <1>9. ASSUME NEW c \in Calls, Release(c) PROVE DecisionInv'
    BY <1>9 DEF TypeOK, Release, Goto
  <1>10. ASSUME NEW c \in Calls, RollBack(c) PROVE DecisionInv'
    BY <1>10 DEF TypeOK, RollBack, Goto
  <1>11. ASSUME NEW c \in Calls, AppendFailed(c) PROVE DecisionInv'
    BY <1>11 DEF TypeOK, AppendFailed, AppendVerified, Goto
  <1>12. ASSUME NEW c \in Calls, Crash(c) PROVE DecisionInv'
    BY <1>12 DEF TypeOK, Crash, Goto
  <1>13. CASE Tick \/ CommitLate \/ UNCHANGED vars
    BY <1>13 DEF Tick, CommitLate, vars
  <1>14. QED
    BY <1>1, <1>2, <1>3, <1>4, <1>5, <1>6, <1>7, <1>8, <1>9, <1>10, <1>11, <1>12, <1>13
    DEF Next, Step

\* However many calls present one owner decision, at most one of them ever has an
\* external effect.
THEOREM DecisionSpentOnce == Spec => []OneEffectPerDecision
  <1>1. Init => DecisionInv
    BY DEF Init, DecisionInv, Authorized
  <1>2. TypeOK /\ DecisionInv /\ [Next]_vars => DecisionInv'
    BY DecisionStep
  <1>3. DecisionInv => OneEffectPerDecision
    BY DEF DecisionInv, OneEffectPerDecision
  <1>4. QED
    BY <1>1, <1>2, <1>3, TypeCorrect, PTL DEF Spec

(***************************************************************************)
(* Mutual exclusion within the lease.                                       *)
(***************************************************************************)

\* A call's `now` is at most the skew ahead of the objects' clock; the row carries
\* its holder's expiry; and a call inside an unexpired lease is named by the row.
LeaseInv ==
  /\ \A c \in Calls : pc[c] # "idle" => callNow[c] <= clock + MaxSkew
  /\ lease # NoLease =>
       /\ pc[lease.holder] \notin {"idle", "reserving"}
       /\ lease.expiresAt = callNow[lease.holder] + LeaseMs
  /\ \A c \in Calls : pc[c] \in HoldingSteps /\ LeaseUnexpired(c) =>
       lease # NoLease /\ lease.holder = c

\* A step that leaves the row, the clock and every `now` alone, and starts no
\* holding, keeps the lease invariant.
LEMMA LeaseUndisturbed ==
  ASSUME TypeOK, LeaseInv, NEW c \in Calls,
         UNCHANGED <<clock, callNow, lease>>,
         \A d \in Calls : d # c => pc'[d] = pc[d],
         pc'[c] \notin {"idle", "reserving"},
         pc[c] \in HoldingSteps \/ pc'[c] \notin HoldingSteps,
         pc[c] # "idle"
  PROVE  LeaseInv'
  <1> USE DEF LeaseInv, LeaseUnexpired
  <1>1. lease # NoLease => lease.holder \in Calls
    BY DEF TypeOK, Lease
  <1>2. QED
    BY <1>1 DEF TypeOK

\* The lease invariant is inductive: a row is replaced only once it has expired on
\* the replacing call's clock, hence on every clock.
LEMMA LeaseStep ==
  ASSUME TypeOK, LeaseInv, [Next]_vars
  PROVE  LeaseInv'
  <1> USE ClockAssumption
  <1>0. lease # NoLease => lease.holder \in Calls /\ lease.expiresAt \in Int
    BY DEF TypeOK, Lease
  <1>1. ASSUME NEW c \in Calls, Start(c) PROVE LeaseInv'
    BY <1>0, <1>1 DEF TypeOK, LeaseInv, LeaseUnexpired, Start, Goto, HoldingSteps
  <1>2. ASSUME NEW c \in Calls, Reserve(c) PROVE LeaseInv'
    <2>1. CASE Goto(c, "denied") /\ UNCHANGED lease
      BY <1>0, <1>2, <2>1 DEF TypeOK, LeaseInv, LeaseUnexpired, Reserve, Goto, HoldingSteps
    <2>2. CASE ~Blocked(c) /\ lease' = LeaseOf(c) /\ Replied(c, "checking", "denied")
      <3>1. LeaseOf(c) # NoLease /\ LeaseOf(c).holder = c
              /\ LeaseOf(c).expiresAt = callNow[c] + LeaseMs
        <4>1. LeaseOf(c) \in Lease
          BY DEF TypeOK, LeaseOf, Lease
        <4>2. QED
          BY <4>1, NoLeaseAssumption DEF LeaseOf, Lease
      <3>2. pc' \in [Calls -> Steps] /\ pc'[c] \in {"checking", "denied"}
              /\ \A d \in Calls : d # c => pc'[d] = pc[d]
        BY <2>2 DEF TypeOK, Replied, Goto, Steps, HoldingSteps, Ended
      <3>3. ASSUME NEW d \in Calls, d # c, pc[d] \in HoldingSteps PROVE ~LeaseUnexpired(d)
        <4>1. callNow[c] <= clock + MaxSkew
          BY <1>2 DEF LeaseInv, Reserve
        <4>2. lease # NoLease => lease.expiresAt <= callNow[c]
          BY <1>0, <2>2 DEF Blocked, TypeOK
        <4>3. QED
          BY <1>0, <3>3, <4>1, <4>2 DEF LeaseInv, LeaseUnexpired, TypeOK
      <3>4. UNCHANGED <<clock, callNow>> /\ pc[c] = "reserving"
        BY <1>2 DEF Reserve
      <3>5. QED
        BY <2>2, <3>1, <3>2, <3>3, <3>4 DEF LeaseInv, LeaseUnexpired, HoldingSteps
    <2>3. QED
      BY <1>2, <2>1, <2>2 DEF Reserve
  <1>3. ASSUME NEW c \in Calls, AssertExecutable(c) PROVE LeaseInv'
    BY <1>3, LeaseUndisturbed DEF AssertExecutable, Goto, TypeOK, Steps, HoldingSteps
  <1>4. ASSUME NEW c \in Calls, Consume(c) PROVE LeaseInv'
    BY <1>4, LeaseUndisturbed DEF Consume, Replied, Goto, TypeOK, Steps, HoldingSteps
  <1>5. ASSUME NEW c \in Calls, AppendIntent(c) PROVE LeaseInv'
    BY <1>5, LeaseUndisturbed
    DEF AppendIntent, AppendVerified, Goto, TypeOK, Steps, HoldingSteps
  <1>6. ASSUME NEW c \in Calls, Execute(c) PROVE LeaseInv'
    BY <1>6, LeaseUndisturbed DEF Execute, Goto, TypeOK, Steps, HoldingSteps
  <1>7. ASSUME NEW c \in Calls, AppendSucceeded(c) PROVE LeaseInv'
    BY <1>7, LeaseUndisturbed
    DEF AppendSucceeded, AppendVerified, Goto, TypeOK, Steps, HoldingSteps
  <1>8. ASSUME NEW c \in Calls, Complete(c) PROVE LeaseInv'
    <2>1. CASE UNCHANGED lease /\ Goto(c, "rollingBack")
      BY <1>8, <2>1, LeaseUndisturbed DEF Complete, Goto, TypeOK, Steps, HoldingSteps
    <2>2. CASE /\ CanComplete(c)
               /\ lease' = [lease EXCEPT !.state = "completed"]
               /\ Replied(c, "done", "rollingBack")
      <3>1. lease' # NoLease /\ lease # NoLease /\ lease'.holder = lease.holder
              /\ lease'.expiresAt = lease.expiresAt
        BY <2>2, NoLeaseAssumption DEF CanComplete, Holds, TypeOK, Lease
      <3>2. QED
        BY <1>0, <1>8, <2>2, <3>1
        DEF Complete, Replied, Goto, TypeOK, LeaseInv, LeaseUnexpired, HoldingSteps
    <2>3. QED
      BY <1>8, <2>1, <2>2 DEF Complete
  <1>9. ASSUME NEW c \in Calls, Release(c) PROVE LeaseInv'
    BY <1>0, <1>9 DEF Release, Holds, Goto, TypeOK, LeaseInv, LeaseUnexpired, HoldingSteps
  <1>10. ASSUME NEW c \in Calls, RollBack(c) PROVE LeaseInv'
    BY <1>10, LeaseUndisturbed DEF RollBack, Goto, TypeOK, Steps, HoldingSteps
  <1>11. ASSUME NEW c \in Calls, AppendFailed(c) PROVE LeaseInv'
    BY <1>11, LeaseUndisturbed
    DEF AppendFailed, AppendVerified, Goto, TypeOK, Steps, HoldingSteps, Ended
  <1>12. ASSUME NEW c \in Calls, Crash(c) PROVE LeaseInv'
    BY <1>12, LeaseUndisturbed DEF Crash, Goto, TypeOK, Steps, HoldingSteps, Ended
  <1>13. CASE Tick
    BY <1>0, <1>13 DEF Tick, TypeOK, LeaseInv, LeaseUnexpired
  <1>14. CASE CommitLate \/ UNCHANGED vars
    BY <1>14 DEF CommitLate, vars, LeaseInv, LeaseUnexpired
  <1>15. QED
    BY <1>1, <1>2, <1>3, <1>4, <1>5, <1>6, <1>7, <1>8, <1>9, <1>10, <1>11, <1>12, <1>13, <1>14
    DEF Next, Step

\* While the lease of a call at work has not expired the row is its own, whatever the calls
\* whose lease has run out still release, complete or reserve.
THEOREM LeaseExcludes == Spec => []ExclusiveWithinLease
  <1>1. Init => LeaseInv
    BY DEF Init, LeaseInv, HoldingSteps
  <1>2. TypeOK /\ LeaseInv /\ [Next]_vars => LeaseInv'
    BY LeaseStep
  <1>3. LeaseInv => ExclusiveWithinLease
    BY DEF LeaseInv, ExclusiveWithinLease
  <1>4. QED
    BY <1>1, <1>2, <1>3, TypeCorrect, PTL DEF Spec

(***************************************************************************)
(* The audit chain and the lease agree.                                     *)
(***************************************************************************)

\* What one more event records, and that it disturbs nothing recorded before.
LEMMA RecordedGrows ==
  ASSUME TypeOK, NEW e \in Event, audit' = Append(audit, e)
  PROVE  /\ \A t \in EventTypes, d \in Calls :
              Recorded(t, d)' <=> Recorded(t, d) \/ (t = e.type /\ d = e.call)
         /\ \A d \in Calls : SuccessAfterIntent(d) => SuccessAfterIntent(d)'
         /\ e.type = "execution_succeeded" /\ Recorded("execution_intent", e.call)
              => SuccessAfterIntent(e.call)'
  <1>1. /\ Len(audit) \in Nat /\ DOMAIN audit = 1 .. Len(audit)
        /\ DOMAIN audit' = 1 .. Len(audit) + 1
        /\ \A i \in DOMAIN audit : audit'[i] = audit[i]
        /\ audit'[Len(audit) + 1] = e
    BY ChainGrows
  <1>2. \A t \in EventTypes, d \in Calls :
          Recorded(t, d)' <=> Recorded(t, d) \/ (t = e.type /\ d = e.call)
    BY <1>1 DEF Recorded
  <1>3. \A d \in Calls : SuccessAfterIntent(d) => SuccessAfterIntent(d)'
    BY <1>1 DEF SuccessAfterIntent
  <1>4. e.type = "execution_succeeded" /\ Recorded("execution_intent", e.call)
          => SuccessAfterIntent(e.call)'
    BY <1>1 DEF Recorded, SuccessAfterIntent
  <1>5. QED
    BY <1>2, <1>3, <1>4

\* The steps a call reaches only after its intent event was verified.
Began(c) ==
  \/ pc[c] \in {"executing", "recording", "completing",
                "rollingBack", "recordingFailure", "done"}
  \/ effect[c] # "none"

\* The chain is ahead of the effect, the effect is ahead of the success, the success is
\* ahead of the lease's completion, and a failure is sent at the end of a call; all of it of
\* what is still to come as well.
AuditInv ==
  /\ \A c \in Calls : Began(c) => Recorded("execution_intent", c)
  /\ \A c \in Calls : pc[c] \in {"completing", "done"} => SuccessAfterIntent(c)
  /\ \A c \in Calls : pc[c] \in {"recording", "completing", "done"} => effect[c] = "applied"
  /\ \A e \in Sent : e.type = "execution_failed" => pc[e.call] = "failed"
  /\ \A e \in Sent : e.type = "execution_succeeded" => effect[e.call] # "none"
  /\ \A e \in Sent : e.type # "execution_intent" => Recorded("execution_intent", e.call)
  /\ \A i \in DOMAIN audit : audit[i].type # "execution_intent" => IntentBefore(i)
  /\ \A c \in Calls : pc[c] = "done" => Completed /\ lease.holder = c
  /\ CompletionIsAudited

\* An event that comes to the chain after its call's intent leaves it in order.
LEMMA OrderKept ==
  ASSUME TypeOK, AuditInv, NEW e \in Event, audit' = Append(audit, e),
         e.type # "execution_intent" => Recorded("execution_intent", e.call)
  PROVE  \A i \in DOMAIN audit' : audit'[i].type # "execution_intent" => IntentBefore(i)'
  <1>1. /\ Len(audit) \in Nat /\ DOMAIN audit = 1 .. Len(audit)
        /\ DOMAIN audit' = 1 .. Len(audit) + 1
        /\ \A i \in DOMAIN audit : audit'[i] = audit[i]
        /\ audit'[Len(audit) + 1] = e
    BY ChainGrows
  <1>2. ASSUME NEW i \in DOMAIN audit', audit'[i].type # "execution_intent"
        PROVE  IntentBefore(i)'
    <2>1. CASE i \in DOMAIN audit
      <3>1. PICK j \in DOMAIN audit :
              j < i /\ audit[j].type = "execution_intent" /\ audit[j].call = audit[i].call
        BY <1>1, <1>2, <2>1 DEF AuditInv, IntentBefore
      <3>2. QED
        BY <1>1, <2>1, <3>1 DEF IntentBefore
    <2>2. CASE i = Len(audit) + 1
      <3>1. PICK j \in DOMAIN audit : audit[j].type = "execution_intent" /\ audit[j].call = e.call
        BY <1>1, <1>2, <2>2 DEF Recorded
      <3>2. QED
        BY <1>1, <2>2, <3>1 DEF IntentBefore
    <2>3. QED
      BY <1>1, <2>1, <2>2
  <1>3. QED
    BY <1>2

\* A step that sends nothing and does not write the row keeps the invariant, unless it
\* enters a step that claims more.
LEMMA AuditUndisturbed ==
  ASSUME TypeOK, AuditInv, NEW c \in Calls,
         UNCHANGED <<audit, late, lease>>,
         \A d \in Calls : d # c => pc'[d] = pc[d] /\ effect'[d] = effect[d],
         effect[c] # "none" => effect'[c] # "none",
         pc[c] # "failed",
         pc'[c] \notin {"completing", "done"},
         pc'[c] = "recording" => effect'[c] = "applied",
         Began(c)' => Began(c)
  PROVE  AuditInv'
  <1>1. Sent' = Sent /\ \A e \in Sent : e.call \in Calls
    BY SentTyped DEF Sent, Event
  <1>2. QED
    BY <1>1 DEF AuditInv, Began, Recorded, SuccessAfterIntent, IntentBefore, CompletionIsAudited,
                Completed

\* A step of a call that sends one of its events: the chain has it, will have it, or not.
LEMMA AuditAppended ==
  ASSUME TypeOK, AuditInv, NEW c \in Calls, NEW type \in EventTypes,
         NEW onReply, NEW onError, AppendVerified(c, EventOf(c, type), onReply, onError),
         UNCHANGED <<lease, effect>>,
         pc[c] # "failed",
         type = "execution_failed" => onReply = "failed" /\ onError = "failed",
         type = "execution_succeeded" => effect[c] # "none",
         type # "execution_intent" => Began(c),
         onReply = "completing" => type = "execution_succeeded" /\ pc[c] = "recording",
         onReply \notin {"done", "recording"},
         onError \notin {"done", "recording", "completing"},
         onError \in {"executing", "rollingBack", "recordingFailure"} => Began(c)
  PROVE  AuditInv'
  <1> DEFINE e == EventOf(c, type)
  <1>1. e \in Event /\ e.type = type /\ e.call = c
    BY EventFields
  <1>2. /\ Sent' \subseteq Sent \cup {e}
        /\ \/ audit' = Append(audit, e) /\ pc'[c] = onReply
           \/ audit' = audit /\ pc'[c] = onError
        /\ \A d \in Calls : d # c => pc'[d] = pc[d]
    BY AppendSends
  <1> HIDE DEF e
  <1>3. type # "execution_intent" => Recorded("execution_intent", c)
    BY DEF AuditInv
  <1>4. \A f \in Sent : f \in Event /\ f.call \in Calls
    BY SentTyped DEF Event
  <1>5. /\ \A f \in Sent' : f.type = "execution_failed" => pc'[f.call] = "failed"
        /\ \A f \in Sent' : f.type = "execution_succeeded" => effect'[f.call] # "none"
    <2>1. ASSUME NEW f \in Sent', f.type = "execution_failed" PROVE pc'[f.call] = "failed"
      <3>1. CASE f = e
        BY <1>1, <1>2, <2>1, <3>1
      <3>2. CASE f \in Sent
        BY <1>2, <1>4, <2>1, <3>2 DEF AuditInv
      <3>3. QED
        BY <1>2, <2>1, <3>1, <3>2
    <2>2. QED
      BY <1>1, <1>2, <2>1 DEF AuditInv
  <1>6. CASE audit' = audit /\ pc'[c] = onError
    <2>1. \A t, d : Recorded(t, d)' <=> Recorded(t, d)
      BY <1>6 DEF Recorded
    <2>2. \A f \in Sent' : f.type # "execution_intent" => Recorded("execution_intent", f.call)'
      BY <1>1, <1>2, <1>3, <2>1 DEF AuditInv
    <2>3. ASSUME NEW d \in Calls, Began(d)' PROVE Began(d)
      <3>1. CASE d = c
        BY <1>6, <2>3, <3>1 DEF Began
      <3>2. CASE d # c
        BY <1>2, <2>3, <3>2 DEF Began
      <3>3. QED
        BY <3>1, <3>2
    <2>4. \A d \in Calls : /\ pc'[d] \in {"completing", "done"} => SuccessAfterIntent(d)'
                           /\ pc'[d] \in {"recording", "completing", "done"} => effect'[d] = "applied"
                           /\ pc'[d] = "done" => Completed' /\ lease'.holder = d
      BY <1>2, <1>6 DEF AuditInv, SuccessAfterIntent, Completed
    <2>5. \A i \in DOMAIN audit' : audit'[i].type # "execution_intent" => IntentBefore(i)'
      BY <1>6 DEF AuditInv, IntentBefore
    <2>6. CompletionIsAudited'
      BY <2>1 DEF AuditInv, CompletionIsAudited, Completed
    <2>7. \A d \in Calls : Began(d)' => Recorded("execution_intent", d)'
      BY <2>1, <2>3 DEF AuditInv
    <2>8. QED
      BY <1>5, <2>2, <2>4, <2>5, <2>6, <2>7 DEF AuditInv
  <1>7. CASE audit' = Append(audit, e) /\ pc'[c] = onReply
    <2>1. /\ \A t \in EventTypes, d \in Calls :
                Recorded(t, d)' <=> Recorded(t, d) \/ (t = type /\ d = c)
          /\ \A d \in Calls : SuccessAfterIntent(d) => SuccessAfterIntent(d)'
          /\ type = "execution_succeeded" /\ Recorded("execution_intent", c)
                => SuccessAfterIntent(c)'
      BY <1>1, <1>7, RecordedGrows
    <2>2. {"execution_intent", "execution_failed", "execution_succeeded"} = EventTypes
      BY DEF EventTypes
    <2>3. \A d \in Calls : Began(d)' => Recorded("execution_intent", d)'
      BY <1>2, <1>3, <2>1, <2>2 DEF AuditInv, Began
    <2>4. \A d \in Calls : pc'[d] \in {"completing", "done"} => SuccessAfterIntent(d)'
      BY <1>2, <1>3, <1>7, <2>1 DEF AuditInv
    <2>5. \A d \in Calls : pc'[d] \in {"recording", "completing", "done"} => effect'[d] = "applied"
      BY <1>2, <1>7 DEF AuditInv
    <2>6. \A f \in Sent' : f.type # "execution_intent" => Recorded("execution_intent", f.call)'
      BY <1>1, <1>2, <1>3, <1>4, <2>1, <2>2 DEF AuditInv
    <2>7. \A i \in DOMAIN audit' : audit'[i].type # "execution_intent" => IntentBefore(i)'
      BY <1>1, <1>3, <1>7, OrderKept
    <2>8. \A d \in Calls : pc'[d] = "done" => Completed' /\ lease'.holder = d
      BY <1>2, <1>7 DEF AuditInv, Completed
    <2>9. CompletionIsAudited'
      <3>1. Completed => lease.holder \in Calls
        BY DEF Completed, TypeOK, Lease
      <3>2. QED
        BY <2>1, <2>2, <3>1 DEF AuditInv, CompletionIsAudited, Completed
    <2>10. QED
      BY <1>5, <2>3, <2>4, <2>5, <2>6, <2>7, <2>8, <2>9 DEF AuditInv
  <1>8. QED
    BY <1>2, <1>6, <1>7

\* An event that comes late says what was so when it was sent, and still is.
LEMMA AuditLate == ASSUME TypeOK, AuditInv, CommitLate PROVE AuditInv'
  <1>1. PICK e \in late :
          /\ e \in Event /\ audit' = Append(audit, e) /\ Sent' \subseteq Sent
          /\ UNCHANGED <<pc, lease, effect>>
    BY LateCommits
  <1>2. e \in Sent /\ (e.type # "execution_intent" => Recorded("execution_intent", e.call))
    BY DEF Sent, AuditInv
  <1>3. /\ \A t \in EventTypes, d \in Calls : Recorded(t, d) => Recorded(t, d)'
        /\ \A d \in Calls : SuccessAfterIntent(d) => SuccessAfterIntent(d)'
    BY <1>1, RecordedGrows
  <1>4. {"execution_intent", "execution_failed", "execution_succeeded"} = EventTypes
    BY DEF EventTypes
  <1>5. \A i \in DOMAIN audit' : audit'[i].type # "execution_intent" => IntentBefore(i)'
    BY <1>1, <1>2, OrderKept
  <1>6. \A f \in Sent' : f.type # "execution_intent" => Recorded("execution_intent", f.call)'
    <2>1. \A f \in Sent : f.call \in Calls
      BY SentTyped DEF Event
    <2>2. QED
      BY <1>1, <1>3, <1>4, <2>1 DEF AuditInv
  <1>7. CompletionIsAudited'
    <2>1. Completed => lease.holder \in Calls
      BY DEF Completed, TypeOK, Lease
    <2>2. QED
      BY <1>1, <1>3, <1>4, <2>1 DEF AuditInv, CompletionIsAudited, Completed
  <1>8. QED
    BY <1>1, <1>3, <1>4, <1>5, <1>6, <1>7 DEF AuditInv, Began, Completed

\* A step that writes only the row, and leaves a completed one alone.
LEMMA AuditLease ==
  ASSUME TypeOK, AuditInv, NEW c \in Calls,
         UNCHANGED <<audit, late, effect>>,
         \A d \in Calls : d # c => pc'[d] = pc[d],
         pc[c] \notin {"failed", "done"},
         pc'[c] \notin {"completing", "recording"},
         Began(c)' => Began(c),
         Completed => lease' = lease,
         ~Completed /\ Completed' => lease'.holder = c /\ pc[c] = "completing",
         pc'[c] = "done" => Completed' /\ lease'.holder = c /\ pc[c] = "completing"
  PROVE  AuditInv'
  <1>1. \A d \in Calls : SuccessAfterIntent(d) =>
          Recorded("execution_intent", d) /\ Recorded("execution_succeeded", d)
    BY DEF SuccessAfterIntent, Recorded
  <1>2. /\ \A d : SuccessAfterIntent(d)' <=> SuccessAfterIntent(d)
        /\ \A t, d : Recorded(t, d)' <=> Recorded(t, d)
        /\ \A i : IntentBefore(i)' <=> IntentBefore(i)
        /\ Sent' = Sent
    BY DEF SuccessAfterIntent, Recorded, IntentBefore, Sent
  <1>3. CompletionIsAudited'
    <2>1. CASE Completed
      BY <1>2, <2>1 DEF AuditInv, CompletionIsAudited, Completed
    <2>2. CASE ~Completed /\ Completed'
      BY <1>1, <1>2, <2>2 DEF AuditInv, CompletionIsAudited
    <2>3. CASE ~Completed'
      BY <2>3 DEF CompletionIsAudited
    <2>4. QED
      BY <2>1, <2>2, <2>3
  <1>4. \A d \in Calls : pc'[d] = "done" => Completed' /\ lease'.holder = d
    BY DEF AuditInv, Completed
  <1>5. \A e \in Sent : e.call \in Calls
    BY SentTyped DEF Event
  <1>6. \A e \in Sent' : e.type = "execution_failed" => pc'[e.call] = "failed"
    BY <1>2, <1>5 DEF AuditInv
  <1>7. QED
    BY <1>2, <1>3, <1>4, <1>6 DEF AuditInv, Began

\* The invariant of the chain, the effect and the row is inductive.
LEMMA AuditStep ==
  ASSUME TypeOK, AuditInv, [Next]_vars
  PROVE  AuditInv'
  <1>1. ASSUME NEW c \in Calls, Start(c) PROVE AuditInv'
    BY <1>1, AuditUndisturbed DEF Start, Goto, TypeOK, Began
  <1>2. ASSUME NEW c \in Calls, Reserve(c) PROVE AuditInv'
    <2>1. CASE Goto(c, "denied") /\ UNCHANGED lease
      BY <1>2, <2>1, AuditUndisturbed DEF Reserve, Goto, TypeOK, Began
    <2>2. CASE ~Blocked(c) /\ lease' = LeaseOf(c) /\ Replied(c, "checking", "denied")
      <3>1. ~Completed /\ ~Completed'
        BY <2>2 DEF Blocked, Completed, LeaseOf
      <3>2. pc'[c] \in {"checking", "denied"} /\ \A d \in Calls : d # c => pc'[d] = pc[d]
        BY <2>2 DEF Replied, Goto, TypeOK
      <3>3. UNCHANGED <<audit, late, effect>> /\ pc[c] = "reserving"
        BY <1>2 DEF Reserve
      <3>4. QED
        BY <3>1, <3>2, <3>3, AuditLease DEF Began
    <2>3. QED
      BY <1>2, <2>1, <2>2 DEF Reserve
  <1>3. ASSUME NEW c \in Calls, AssertExecutable(c) PROVE AuditInv'
    BY <1>3, AuditUndisturbed DEF AssertExecutable, Goto, TypeOK, Began
  <1>4. ASSUME NEW c \in Calls, Consume(c) PROVE AuditInv'
    BY <1>4, AuditUndisturbed DEF Consume, Replied, Goto, TypeOK, Began
  <1>5. ASSUME NEW c \in Calls, AppendIntent(c) PROVE AuditInv'
    BY <1>5, AuditAppended DEF AppendIntent, EventTypes
  <1>6. ASSUME NEW c \in Calls, Execute(c) PROVE AuditInv'
    BY <1>6, AuditUndisturbed DEF Execute, Goto, TypeOK, Began
  <1>7. ASSUME NEW c \in Calls, AppendSucceeded(c) PROVE AuditInv'
    <2>1. Began(c) /\ effect[c] # "none"
      BY <1>7 DEF AppendSucceeded, AuditInv, Began
    <2>2. QED
      BY <1>7, <2>1, AuditAppended DEF AppendSucceeded, EventTypes
  <1>8. ASSUME NEW c \in Calls, Complete(c) PROVE AuditInv'
    <2>1. CASE Goto(c, "rollingBack") /\ UNCHANGED lease
      BY <1>8, <2>1, AuditUndisturbed DEF Complete, Goto, TypeOK, Began
    <2>2. CASE /\ CanComplete(c)
               /\ lease' = [lease EXCEPT !.state = "completed"]
               /\ Replied(c, "done", "rollingBack")
      <3>1. lease # NoLease /\ lease.state = "reserved" /\ lease.holder = c
              /\ lease' # NoLease /\ lease'.holder = c /\ lease'.state = "completed"
        BY <2>2, NoLeaseAssumption DEF CanComplete, Holds, TypeOK, Lease
      <3>2. pc'[c] \in {"done", "rollingBack"} /\ \A d \in Calls : d # c => pc'[d] = pc[d]
        BY <2>2 DEF Replied, Goto, TypeOK
      <3>3. UNCHANGED <<audit, late, effect>> /\ pc[c] = "completing"
        BY <1>8 DEF Complete
      <3>4. ~Completed /\ Completed'
        BY <3>1 DEF Completed
      <3>5. Began(c)
        BY <3>3 DEF Began
      <3>6. pc[c] \notin {"failed", "done"} /\ pc'[c] \notin {"completing", "recording"}
        BY <3>2, <3>3
      <3>7. QED
        BY <3>1, <3>2, <3>3, <3>4, <3>5, <3>6, AuditLease
    <2>3. QED
      BY <1>8, <2>1, <2>2 DEF Complete
  <1>9. ASSUME NEW c \in Calls, Release(c) PROVE AuditInv'
    <2>1. Completed => lease' = lease
      BY <1>9 DEF Release, Holds, Completed
    <2>2. Completed' => Completed
      BY <1>9 DEF Release, Completed
    <2>3. QED
      BY <1>9, <2>1, <2>2, AuditLease DEF Release, Goto, TypeOK, Began
  <1>10. ASSUME NEW c \in Calls, RollBack(c) PROVE AuditInv'
    BY <1>10, AuditUndisturbed DEF RollBack, Goto, TypeOK, Began
  <1>11. ASSUME NEW c \in Calls, AppendFailed(c) PROVE AuditInv'
    <2>1. Began(c)
      BY <1>11 DEF AppendFailed, Began
    <2>2. QED
      BY <1>11, <2>1, AuditAppended DEF AppendFailed, EventTypes
  <1>12. ASSUME NEW c \in Calls, Crash(c) PROVE AuditInv'
    BY <1>12, AuditUndisturbed DEF Crash, Goto, TypeOK, Began, Ended
  <1>13. CASE Tick \/ UNCHANGED vars
    <2>1. UNCHANGED <<pc, effect, audit, late, lease>>
      BY <1>13 DEF Tick, vars
    <2>2. QED
      BY <2>1 DEF AuditInv, Began, Sent, Recorded, SuccessAfterIntent, IntentBefore,
                  CompletionIsAudited, Completed
  <1>14. QED
    BY <1>1, <1>2, <1>3, <1>4, <1>5, <1>6, <1>7, <1>8, <1>9, <1>10, <1>11, <1>12, <1>13, AuditLate
    DEF Next, Step

\* The invariant holds in every state.
LEMMA AuditInvariant == Spec => []AuditInv
  <1>1. Init => AuditInv
    BY DEF Init, AuditInv, Began, Sent, CompletionIsAudited, Completed
  <1>2. TypeOK /\ AuditInv /\ [Next]_vars => AuditInv'
    BY AuditStep
  <1>3. QED
    BY <1>1, <1>2, TypeCorrect, PTL DEF Spec

\* A call that returned owns the scope's completion, its effect stands, and the chain
\* holds its intent, its success and no failure.
THEOREM SuccessDurable == Spec => []SuccessIsDurable
  <1>1. AuditInv => SuccessIsDurable
    <2>1. AuditInv => \A c \in Calls : Recorded("execution_failed", c) => pc[c] = "failed"
      BY DEF AuditInv, Recorded, Sent
    <2>2. QED
      BY <2>1 DEF AuditInv, SuccessIsDurable
  <1>2. QED
    BY <1>1, AuditInvariant, PTL

\* The idempotency record never runs ahead of the audit record.
THEOREM CompletionAudited == Spec => []CompletionIsAudited
  <1>1. AuditInv => CompletionIsAudited
    BY DEF AuditInv
  <1>2. QED
    BY <1>1, AuditInvariant, PTL

\* No effect exists that the chain does not announce.
THEOREM EffectAnnounced == Spec => []NoEffectWithoutIntent
  <1>1. AuditInv => NoEffectWithoutIntent
    BY DEF AuditInv, NoEffectWithoutIntent, Began
  <1>2. QED
    BY <1>1, AuditInvariant, PTL

(***************************************************************************)
(* Who may write the row.                                                   *)
(***************************************************************************)

\* A completed row is final, and an unexpired reservation is ended by its holder only.
THEOREM HolderEndsLease == Spec => OnlyHolderEndsLease
  <1> DEFINE Kept ==
        /\ Completed => lease' = lease
        /\ \A c \in Calls :
             Holds(c) /\ lease.expiresAt > clock + MaxSkew /\ lease' # lease
               => pc[c] \in {"completing", "releasing"} /\ pc'[c] # pc[c]
  <1>1. ASSUME TypeOK, LeaseInv, [Next]_vars PROVE Kept
    <2>1. ASSUME NEW c \in Calls, Reserve(c) PROVE Kept
      <3>1. CASE UNCHANGED lease
        BY <3>1
      <3>2. CASE ~Blocked(c)
        <4>1. callNow[c] \in Int /\ clock + MaxSkew \in Int /\ callNow[c] <= clock + MaxSkew
          BY <1>1, <2>1, ClockAssumption DEF LeaseInv, Reserve, TypeOK
        <4>2. \A d \in Calls : Holds(d) => lease.expiresAt \in Int /\ lease.expiresAt <= callNow[c]
          BY <1>1, <3>2, <4>1 DEF Blocked, Holds, TypeOK, Lease
        <4>3. ~Completed
          BY <3>2 DEF Blocked, Completed
        <4>4. QED
          BY <4>1, <4>2, <4>3
      <3>3. QED
        BY <2>1, <3>1, <3>2 DEF Reserve
    <2>2. ASSUME NEW c \in Calls, Complete(c) PROVE Kept
      BY <1>1, <2>2
      DEF Complete, CanComplete, Holds, Completed, Replied, Goto, TypeOK
    <2>3. ASSUME NEW c \in Calls, Release(c) PROVE Kept
      BY <1>1, <2>3 DEF Release, Holds, Completed, Goto, TypeOK
    <2>4. UNCHANGED lease => Kept
      OBVIOUS
    <2>5. QED
      BY <1>1, <2>1, <2>2, <2>3, <2>4
      DEF Next, Step, Start, AssertExecutable, Consume, AppendIntent, Execute,
          AppendSucceeded, RollBack, AppendFailed, Crash, Tick, CommitLate, vars
  <1>2. Init => LeaseInv
    BY DEF Init, LeaseInv, HoldingSteps
  <1>3. TypeOK /\ LeaseInv /\ [Next]_vars => LeaseInv'
    BY LeaseStep
  <1>4. TypeOK /\ LeaseInv /\ [Next]_vars => [Kept]_vars
    BY <1>1
  <1>5. QED
    BY <1>2, <1>3, <1>4, TypeCorrect, PTL DEF Spec, OnlyHolderEndsLease

\* A reservation expires within the lease and the skew of the moment it is made and is never
\* prolonged, so that a crashed holder's runs out: the part of ScopeIsNeverStuck that
\* needs no fairness but the clock's.
THEOREM ReservationsEnd == Spec => ReservationsRunOut
  <1> DEFINE RunsOut(c) ==
        /\ ~Holds(c) /\ Holds(c)' => lease'.expiresAt <= clock + MaxSkew + LeaseMs
        /\ Holds(c) /\ Holds(c)' => lease' = lease
  <1>1. ASSUME TypeOK, LeaseInv, [Next]_vars, NEW c \in Calls PROVE RunsOut(c)
    <2>1. UNCHANGED lease => RunsOut(c)
      BY DEF Holds
    <2>2. ASSUME NEW d \in Calls, Reserve(d), lease' = LeaseOf(d) PROVE RunsOut(c)
      <3>1. LeaseOf(d).holder = d /\ LeaseOf(d).expiresAt = callNow[d] + LeaseMs
        BY DEF LeaseOf
      <3>2. pc[d] = "reserving" /\ callNow[d] <= clock + MaxSkew
        BY <1>1, <2>2 DEF Reserve, LeaseInv
      <3>3. ~Holds(d)
        BY <1>1, <3>2 DEF LeaseInv, Holds
      <3>4. Holds(c)' => c = d
        BY <2>2, <3>1 DEF Holds
      <3>5. callNow[d] + LeaseMs <= clock + MaxSkew + LeaseMs
        BY <1>1, <3>2, ClockAssumption DEF TypeOK
      <3>6. QED
        BY <2>2, <3>1, <3>3, <3>4, <3>5
    <2>3. ASSUME NEW d \in Calls, Complete(d), CanComplete(d),
                 lease' = [lease EXCEPT !.state = "completed"]
          PROVE  RunsOut(c)
      <3>1. lease \in Lease
        BY <1>1, <2>3 DEF CanComplete, Holds, TypeOK
      <3>2. lease'.state = "completed"
        BY <2>3, <3>1 DEF Lease
      <3>3. QED
        BY <3>2 DEF Holds
    <2>4. ASSUME lease' = NoLease PROVE RunsOut(c)
      BY <2>4 DEF Holds
    <2>5. QED
      BY <1>1, <2>1, <2>2, <2>3, <2>4
      DEF Next, Step, Start, Reserve, AssertExecutable, Consume, AppendIntent, Execute,
          AppendSucceeded, Complete, Release, RollBack, AppendFailed, Crash, Tick, CommitLate, vars
  <1>2. Init => LeaseInv
    BY DEF Init, LeaseInv, HoldingSteps
  <1>3. TypeOK /\ LeaseInv /\ [Next]_vars => LeaseInv'
    BY LeaseStep
  <1>4. TypeOK /\ LeaseInv /\ [Next]_vars => [\A c \in Calls : RunsOut(c)]_vars
    BY <1>1
  <1>5. QED
    BY <1>2, <1>3, <1>4, TypeCorrect, PTL DEF Spec, ReservationsRunOut

(***************************************************************************)
(* The truth of the failure record.                                         *)
(***************************************************************************)

\* A failure is sent once its call is over, it carries the call's rollback status, and a
\* rollback that returned has left no effect in force.
Told(e) ==
  /\ pc[e.call] = "failed"
  /\ e.rollback = rollback[e.call] /\ e.rollback # "none"

FailureInv ==
  /\ \A c \in Calls : rollback[c] # "none" => pc[c] \in {"recordingFailure", "failed", "crashed"}
  /\ \A c \in Calls : pc[c] = "recordingFailure" => rollback[c] # "none"
  /\ \A c \in Calls : rollback[c] = "ok" => effect[c] # "applied"
  /\ \A e \in Sent : e.type = "execution_failed" => Told(e)

\* A step that sends nothing and changes neither a rollback nor an effect.
LEMMA FailureUndisturbed ==
  ASSUME TypeOK, FailureInv, NEW c \in Calls,
         UNCHANGED <<audit, late, rollback, effect>>,
         \A d \in Calls : d # c => pc'[d] = pc[d],
         pc[c] \notin {"failed", "crashed"},
         pc'[c] # "recordingFailure",
         pc[c] = "recordingFailure" => pc'[c] \in {"failed", "crashed"}
  PROVE  FailureInv'
  <1>1. Sent' = Sent /\ \A e \in Sent : e.call \in Calls
    BY SentTyped DEF Sent, Event
  <1>2. QED
    BY <1>1 DEF FailureInv, Told

\* A step that sends an event of a call that has not failed.
LEMMA FailureAppended ==
  ASSUME TypeOK, FailureInv, NEW c \in Calls, NEW type \in EventTypes,
         NEW onReply, NEW onError, AppendVerified(c, EventOf(c, type), onReply, onError),
         UNCHANGED <<rollback, effect>>,
         pc[c] \notin {"failed", "crashed"},
         onReply # "recordingFailure" /\ onError # "recordingFailure",
         pc[c] = "recordingFailure" => onReply = "failed" /\ onError = "failed",
         type = "execution_failed" => pc[c] = "recordingFailure"
  PROVE  FailureInv'
  <1> DEFINE e == EventOf(c, type)
  <1>1. e.type = type /\ e.call = c /\ e.rollback = rollback[c]
    BY EventFields
  <1>2. /\ Sent' \subseteq Sent \cup {e} /\ pc'[c] \in {onReply, onError}
        /\ \A d \in Calls : d # c => pc'[d] = pc[d]
    BY AppendSends
  <1> HIDE DEF e
  <1>3. \A f \in Sent : f.call \in Calls
    BY SentTyped DEF Event
  <1>4. ASSUME NEW f \in Sent', f.type = "execution_failed" PROVE Told(f)'
    <2>1. CASE f = e
      BY <1>1, <1>2, <1>4, <2>1 DEF FailureInv, Told
    <2>2. CASE f \in Sent
      <3>1. Told(f) /\ f.call # c
        BY <1>4, <2>2 DEF FailureInv, Told
      <3>2. QED
        BY <1>2, <1>3, <2>2, <3>1 DEF Told
    <2>3. QED
      BY <1>2, <1>4, <2>1, <2>2
  <1>5. QED
    BY <1>2, <1>4 DEF FailureInv

\* The invariant of the failure record is inductive.
LEMMA FailureStep ==
  ASSUME TypeOK, FailureInv, [Next]_vars
  PROVE  FailureInv'
  <1>0. \A e \in Sent : e.call \in Calls
    BY SentTyped DEF Event
  <1>1. ASSUME NEW c \in Calls, Start(c) PROVE FailureInv'
    BY <1>1, FailureUndisturbed DEF Start, Goto, TypeOK
  <1>2. ASSUME NEW c \in Calls, Reserve(c) PROVE FailureInv'
    BY <1>2, FailureUndisturbed DEF Reserve, Replied, Goto, TypeOK
  <1>3. ASSUME NEW c \in Calls, AssertExecutable(c) PROVE FailureInv'
    BY <1>3, FailureUndisturbed DEF AssertExecutable, Goto, TypeOK
  <1>4. ASSUME NEW c \in Calls, Consume(c) PROVE FailureInv'
    BY <1>4, FailureUndisturbed DEF Consume, Replied, Goto, TypeOK
  <1>5. ASSUME NEW c \in Calls, AppendIntent(c) PROVE FailureInv'
    BY <1>5, FailureAppended DEF AppendIntent, EventTypes
  <1>6. ASSUME NEW c \in Calls, Execute(c) PROVE FailureInv'
    <2>1. rollback[c] = "none"
      BY <1>6 DEF FailureInv, Execute, TypeOK
    <2>2. UNCHANGED <<rollback, audit, late>> /\ Sent' = Sent
      BY <1>6 DEF Execute, Sent
    <2>3. /\ pc[c] = "executing" /\ pc'[c] # "recordingFailure"
          /\ \A d \in Calls : d # c => pc'[d] = pc[d] /\ effect'[d] = effect[d]
      BY <1>6 DEF Execute, Goto, TypeOK
    <2>4. QED
      BY <1>0, <2>1, <2>2, <2>3 DEF FailureInv, Told
  <1>7. ASSUME NEW c \in Calls, AppendSucceeded(c) PROVE FailureInv'
    BY <1>7, FailureAppended DEF AppendSucceeded, EventTypes
  <1>8. ASSUME NEW c \in Calls, Complete(c) PROVE FailureInv'
    BY <1>8, FailureUndisturbed DEF Complete, Replied, Goto, TypeOK
  <1>9. ASSUME NEW c \in Calls, Release(c) PROVE FailureInv'
    BY <1>9, FailureUndisturbed DEF Release, Goto, TypeOK
  <1>10. ASSUME NEW c \in Calls, RollBack(c) PROVE FailureInv'
    <2>1. PICK status \in {"ok", "failed"}, undone \in BOOLEAN :
            /\ status = "ok" => undone
            /\ rollback' = [rollback EXCEPT ![c] = status]
            /\ effect' = IF undone /\ effect[c] = "applied"
                         THEN [effect EXCEPT ![c] = "undone"] ELSE effect
      BY <1>10 DEF RollBack
    <2>2. /\ pc' = [pc EXCEPT ![c] = "recordingFailure"]
          /\ pc[c] = "rollingBack" /\ Sent' = Sent
      BY <1>10 DEF RollBack, Goto, Sent
    <2>3. \A d \in Calls : rollback'[d] = "ok" => effect'[d] # "applied"
      BY <2>1 DEF TypeOK, FailureInv
    <2>4. QED
      BY <1>0, <2>1, <2>2, <2>3 DEF TypeOK, FailureInv, Told
  <1>11. ASSUME NEW c \in Calls, AppendFailed(c) PROVE FailureInv'
    BY <1>11, FailureAppended DEF AppendFailed, EventTypes
  <1>12. ASSUME NEW c \in Calls, Crash(c) PROVE FailureInv'
    BY <1>12, FailureUndisturbed DEF Crash, Goto, TypeOK, Ended
  <1>13. CASE Tick \/ UNCHANGED vars
    BY <1>13 DEF Tick, vars, FailureInv, Told, Sent
  <1>14. CASE CommitLate
    BY <1>14, LateCommits DEF FailureInv, Told
  <1>15. QED
    BY <1>1, <1>2, <1>3, <1>4, <1>5, <1>6, <1>7, <1>8, <1>9, <1>10, <1>11, <1>12, <1>13, <1>14
    DEF Next, Step

\* A success is of an effect that was applied and comes after its intent, even one that comes
\* to the chain after its call has rolled back.
THEOREM SuccessTrue == Spec => []SuccessRecordIsTrue
  <1>1. AuditInv => SuccessRecordIsTrue
    BY DEF AuditInv, Sent, SuccessRecordIsTrue
  <1>2. QED
    BY <1>1, AuditInvariant, PTL

\* What an auditor reads in a failure event is true of the call and of its effect, whatever
\* other event of the call is still to come.
THEOREM FailureTrue == Spec => []FailureRecordIsTrue
  <1>1. Init => FailureInv
    BY DEF Init, FailureInv, Sent
  <1>2. TypeOK /\ FailureInv /\ [Next]_vars => FailureInv'
    BY FailureStep
  <1>3. TypeOK /\ FailureInv /\ AuditInv => FailureRecordIsTrue
    <2>1. TypeOK => \A i \in DOMAIN audit : audit[i] \in Sent /\ audit[i].call \in Calls
      BY SentTyped DEF Sent, Event
    <2>2. QED
      BY <2>1 DEF FailureInv, Told, AuditInv, FailureRecordIsTrue
  <1>4. QED
    BY <1>1, <1>2, <1>3, TypeCorrect, AuditInvariant, PTL DEF Spec

(***************************************************************************)
(* The executor implements OneSuccess.                                      *)
(***************************************************************************)

\* A step that does not change what is announced nor who has won is a stutter of
\* the promise; an intent append announces; a completion wins.
THEOREM ImplementsPromise == Spec => ImplementsOneSuccess
  <1> DEFINE Announced == {c \in Calls : Recorded("execution_intent", c)}
  <1>1. Init => Promise!Init
    BY DEF Init, Promise!Init, Recorded, Completed
  <1>2. TypeOK /\ AuditInv /\ [Next]_vars => [Promise!Next]_(Promise!vars)
    <2> SUFFICES ASSUME TypeOK, AuditInv, [Next]_vars
                 PROVE  [Promise!Next]_(Promise!vars)
      OBVIOUS
    <2> USE DEF Promise!vars
    <2>1. ASSUME UNCHANGED <<audit, lease>> PROVE UNCHANGED Promise!vars
      BY <2>1 DEF Recorded, Completed
    <2>2. ASSUME NEW e \in Event, audit' = Append(audit, e), UNCHANGED lease
          PROVE  [Promise!Next]_(Promise!vars)
      <3>1. e.call \in Calls
        BY DEF Event
      <3>2. \A d \in Calls : Recorded("execution_intent", d)' <=>
              Recorded("execution_intent", d) \/ ("execution_intent" = e.type /\ d = e.call)
        BY <2>2, RecordedGrows DEF EventTypes
      <3>3. UNCHANGED (IF Completed THEN lease.holder ELSE NoLease)
        BY <2>2 DEF Completed
      <3>4. CASE e.type = "execution_intent"
        <4>1. Announced' = Announced \cup {e.call}
          BY <3>1, <3>2, <3>4
        <4>2. Promise!Announce(e.call)
          BY <3>3, <4>1 DEF Promise!Announce
        <4>3. QED
          BY <3>1, <4>2 DEF Promise!Next
      <3>5. CASE e.type # "execution_intent"
        <4>1. Announced' = Announced
          BY <3>2, <3>5
        <4>2. QED
          BY <3>3, <4>1
      <3>6. QED
        BY <3>4, <3>5
    <2>3. ASSUME UNCHANGED audit, ~Completed, ~Completed' PROVE UNCHANGED Promise!vars
      BY <2>3 DEF Recorded
    <2>4. ASSUME NEW c \in Calls, Reserve(c) PROVE UNCHANGED Promise!vars
      BY <2>1, <2>3, <2>4 DEF Reserve, Blocked, Completed, LeaseOf
    <2>5. ASSUME NEW c \in Calls, Complete(c) PROVE [Promise!Next]_(Promise!vars)
      <3>1. CASE UNCHANGED lease
        BY <2>1, <2>5, <3>1 DEF Complete
      <3>2. CASE CanComplete(c) /\ lease' = [lease EXCEPT !.state = "completed"]
        <4>1. ~Completed /\ Completed' /\ lease'.holder = c
          BY <3>2, NoLeaseAssumption DEF CanComplete, Holds, Completed, TypeOK, Lease
        <4>2. UNCHANGED audit /\ Recorded("execution_intent", c)
          BY <2>5 DEF Complete, AuditInv, Began
        <4>3. c \in Announced /\ Announced' = Announced
          BY <4>2 DEF Recorded
        <4>4. Promise!Win(c)
          BY <4>1, <4>3 DEF Promise!Win
        <4>5. QED
          BY <4>4 DEF Promise!Next
      <3>3. QED
        BY <2>5, <3>1, <3>2 DEF Complete
    <2>6. ASSUME NEW c \in Calls, Release(c) PROVE UNCHANGED Promise!vars
      BY <2>1, <2>3, <2>6 DEF Release, Holds, Completed
    <2>7. ASSUME NEW c \in Calls, AppendIntent(c) \/ AppendSucceeded(c) \/ AppendFailed(c)
          PROVE  [Promise!Next]_(Promise!vars)
      <3>1. PICK type \in EventTypes, r \in Steps, x \in Steps :
              AppendVerified(c, EventOf(c, type), r, x) /\ UNCHANGED lease
        BY <2>7 DEF AppendIntent, AppendSucceeded, AppendFailed, EventTypes, Steps, HoldingSteps, Ended
      <3>2. EventOf(c, type) \in Event
        BY EventFields
      <3>3. UNCHANGED audit \/ audit' = Append(audit, EventOf(c, type))
        BY <3>1 DEF AppendVerified
      <3>4. QED
        BY <2>1, <2>2, <3>1, <3>2, <3>3
    <2>8. CASE CommitLate
      BY <2>2, <2>8, LateCommits
    <2>9. QED
      BY <2>1, <2>4, <2>5, <2>6, <2>7, <2>8
      DEF Next, Step, Start, AssertExecutable, Consume, Execute, RollBack, Crash, Tick, vars
  <1>3. QED
    BY <1>1, <1>2, TypeCorrect, AuditInvariant, PTL DEF Spec, ImplementsOneSuccess, Promise!Spec

\* Audit chain, idempotency record and effects agree as far as a caller or an auditor can tell.
THEOREM AuditTrue == Spec => []AuditIsTrue
  BY SuccessDurable, CompletionAudited, EffectAnnounced, SuccessTrue, FailureTrue, PTL DEF AuditIsTrue

(***************************************************************************)
(* A decision is a token for the effect of one call.                        *)
(***************************************************************************)

\* Only execute() gives a call its effect, and rolling it back does not make it unhappen.
LEMMA OnlyExecuteActs ==
  ASSUME TypeOK, NEW c \in Calls, Start(c) \/ Step(c) \/ Crash(c), ~Execute(c)
  PROVE  UNCHANGED Uses
  <1>1. auth' = auth
    BY DEF Start, Crash, Step, Reserve, AssertExecutable, Consume, AppendIntent, Execute,
           AppendSucceeded, Complete, Release, RollBack, AppendFailed
  <1>2. CASE RollBack(c)
    <2>1. \A d \in Calls : effect'[d] # "none" <=> effect[d] # "none"
      BY <1>2 DEF RollBack, TypeOK
    <2>2. QED
      BY <1>1, <2>1 DEF Uses
  <1>3. CASE ~RollBack(c)
    <2>1. effect' = effect
      BY <1>3 DEF Start, Crash, Step, Reserve, AssertExecutable, Consume, AppendIntent,
                  AppendSucceeded, Complete, Release, AppendFailed
    <2>2. QED
      BY <1>1, <2>1 DEF Uses
  <1>4. QED
    BY <1>2, <1>3

\* Overlapping calls implement single-use decisions: the effect of an owner-authorized call
\* is the use of its decision, and neither a crash nor a rollback hands it back.
THEOREM DecisionsAreTokens == Spec => ImplementsOneUse
  <1>1. Init => Decided!Init
    BY DEF Init, Decided!Init, Uses
  <1>2. TypeOK /\ OneEffectPerDecision' /\ [Next]_vars => [Decided!Next]_Uses
    <2> SUFFICES ASSUME TypeOK, OneEffectPerDecision', [Next]_vars
                 PROVE  [Decided!Next]_Uses
      OBVIOUS
    <2>1. ASSUME NEW c \in Calls, Execute(c) PROVE [Decided!Next]_Uses
      <3> DEFINE Acted == {d \in Calls : auth[d] \in Decisions /\ effect[d] # "none"}
      <3>1. auth' = auth
        BY <2>1 DEF Execute
      <3>2. CASE /\ effect' = [effect EXCEPT ![c] = "applied"]
                 /\ auth[c] \in Decisions /\ effect[c] = "none"
        <4>1. effect'[c] = "applied" /\ \A d \in Calls \ {c} : effect'[d] = effect[d]
          BY <3>2 DEF TypeOK
        <4>2. Acted' = Acted \cup {c}
          BY <3>1, <3>2, <4>1
        <4>3. Uses' = Uses \cup {<<auth[c], c>>}
          BY <3>1, <4>2 DEF Uses
        <4>4. \A use \in Uses : use[1] # auth[c]
          <5> SUFFICES ASSUME NEW d \in Acted, auth[d] = auth[c] PROVE FALSE
            BY DEF Uses
          <5>1. d # c /\ effect'[d] # "none"
            BY <3>2, <4>1
          <5>2. QED
            BY <3>1, <3>2, <4>1, <5>1 DEF OneEffectPerDecision
        <4>5. QED
          BY <3>2, <4>3, <4>4 DEF Decided!Next, Decided!Use
      <3>3. CASE ~(auth[c] \in Decisions /\ effect[c] = "none") \/ effect' = effect
        <4>1. \A d \in Calls : /\ d # c => effect'[d] = effect[d]
                               /\ effect[c] # "none" => effect'[c] # "none"
          BY <2>1 DEF Execute, TypeOK
        <4>2. Acted' = Acted
          BY <3>1, <3>3, <4>1
        <4>3. QED
          BY <3>1, <4>2 DEF Uses
      <3>4. QED
        BY <2>1, <3>2, <3>3 DEF Execute
    <2>2. CASE Tick \/ CommitLate \/ UNCHANGED vars
      BY <2>2 DEF Tick, CommitLate, vars, Uses
    <2>3. QED
      BY <2>1, <2>2, OnlyExecuteActs DEF Next
  <1>3. QED
    BY <1>1, <1>2, TypeCorrect, DecisionSpentOnce, PTL DEF Spec, ImplementsOneUse, Decided!Spec

(***************************************************************************)
(* The chain is used as a log of distinct events.                           *)
(***************************************************************************)

\* Where a call can still be only if it has not recorded its intent, or its success.
BeforeIntent == {"idle", "reserving", "checking", "consuming", "intending"}
BeforeSuccess == BeforeIntent \cup {"executing", "recording"}

OnceInv ==
  /\ \A e \in Sent :
       /\ e.type = "execution_intent" => pc[e.call] \notin BeforeIntent
       /\ e.type = "execution_succeeded" => pc[e.call] \notin BeforeSuccess
       /\ e.type = "execution_failed" => pc[e.call] = "failed"
  /\ \A e \in late : ~Recorded(e.type, e.call)
  /\ \A e, f \in late : e.type = f.type /\ e.call = f.call => e = f

\* A call never goes back behind an append.
LEMMA OnceUndisturbed ==
  ASSUME TypeOK, OnceInv, NEW c \in Calls,
         UNCHANGED <<audit, late>>, pc[c] # "failed",
         \A d \in Calls \ {c} : pc'[d] = pc[d],
         pc'[c] \in BeforeIntent => pc[c] \in BeforeIntent,
         pc'[c] \in BeforeSuccess => pc[c] \in BeforeSuccess
  PROVE  OnceInv'
  <1>1. Sent' = Sent /\ \A e \in Sent : e.call \in Calls
    BY SentTyped DEF Sent, Event
  <1>2. ASSUME NEW e \in Sent
        PROVE  /\ e.type = "execution_intent" => pc'[e.call] \notin BeforeIntent
               /\ e.type = "execution_succeeded" => pc'[e.call] \notin BeforeSuccess
               /\ e.type = "execution_failed" => pc'[e.call] = "failed"
    BY <1>1 DEF OnceInv
  <1>3. QED
    BY <1>1, <1>2 DEF OnceInv, Recorded

\* What a call sends it has not sent before, and it moves past it.
LEMMA OnceAppended ==
  ASSUME TypeOK, OnceInv, NEW c \in Calls, NEW type \in EventTypes,
         NEW r \in Steps, NEW x \in Steps,
         AppendVerified(c, EventOf(c, type), r, x), pc[c] # "failed",
         type = "execution_intent" => pc[c] = "intending",
         type = "execution_succeeded" => pc[c] = "recording",
         type = "execution_failed" => r = "failed" /\ x = "failed",
         r \notin BeforeIntent /\ x \notin BeforeIntent,
         r \in BeforeSuccess \/ x \in BeforeSuccess => type = "execution_intent"
  PROVE  /\ OnceInv'
         /\ UNCHANGED audit \/ (audit' = Append(audit, EventOf(c, type)) /\ ~Recorded(type, c))
  <1> DEFINE e == EventOf(c, type)
  <1>1. e \in Event /\ e.type = type /\ e.call = c
    BY EventFields
  <1>2. /\ pc'[c] \in {r, x} /\ Sent' \subseteq Sent \cup {e}
        /\ \A d \in Calls \ {c} : pc'[d] = pc[d]
        /\ \/ audit' = Append(audit, e) /\ late' = late
           \/ audit' = audit /\ late' = late
           \/ audit' = audit /\ late' = late \cup {e}
    BY AppendSends
  <1> HIDE DEF e
  <1>3. \A f \in Sent : f \in Event /\ f.call \in Calls /\ f.type \in EventTypes
    BY SentTyped DEF Event
  <1>4. ASSUME NEW f \in Sent, f.type = type, f.call = c PROVE FALSE
    BY <1>4 DEF OnceInv, EventTypes, BeforeIntent, BeforeSuccess
  <1>5. ~Recorded(type, c) /\ \A f \in late : ~(f.type = type /\ f.call = c)
    BY <1>4 DEF Recorded, Sent
  <1>6. ASSUME NEW f \in Sent'
        PROVE  /\ f.type = "execution_intent" => pc'[f.call] \notin BeforeIntent
               /\ f.type = "execution_succeeded" => pc'[f.call] \notin BeforeSuccess
               /\ f.type = "execution_failed" => pc'[f.call] = "failed"
    <2>1. CASE f = e
      BY <1>1, <1>2, <2>1
    <2>2. CASE f \in Sent /\ f.call # c
      BY <1>2, <1>3, <2>2 DEF OnceInv
    <2>3. CASE f \in Sent /\ f.call = c
      BY <1>2, <1>4, <2>3 DEF OnceInv, EventTypes, BeforeIntent, BeforeSuccess
    <2>4. QED
      BY <1>2, <2>1, <2>2, <2>3
  <1>7. \A f, g \in late' : f.type = g.type /\ f.call = g.call => f = g
    BY <1>1, <1>2, <1>5 DEF OnceInv
  <1>8. \A f \in late' : ~Recorded(f.type, f.call)'
    <2>1. CASE audit' = audit
      BY <1>1, <1>2, <1>5, <2>1 DEF OnceInv, Recorded
    <2>2. CASE audit' = Append(audit, e) /\ late' = late
      <3>1. \A t \in EventTypes, d \in Calls :
              Recorded(t, d)' <=> Recorded(t, d) \/ (t = type /\ d = c)
        BY <1>1, <2>2, RecordedGrows
      <3>2. \A f \in late : f.type \in EventTypes /\ f.call \in Calls
        BY <1>3 DEF Sent
      <3>3. QED
        BY <1>5, <2>2, <3>1, <3>2 DEF OnceInv
    <2>3. QED
      BY <1>2, <2>1, <2>2
  <1>9. OnceInv'
    BY <1>6, <1>7, <1>8 DEF OnceInv
  <1>10. QED
    BY <1>2, <1>5, <1>9 DEF e

\* The steps that send nothing.
LEMMA OnceElsewhere ==
  ASSUME TypeOK, OnceInv, NEW c \in Calls,
         \/ Start(c) \/ Reserve(c) \/ AssertExecutable(c) \/ Consume(c) \/ Execute(c)
         \/ Complete(c) \/ Release(c) \/ RollBack(c) \/ Crash(c)
  PROVE  OnceInv' /\ UNCHANGED audit
  <1> USE DEF TypeOK, Goto, Replied, BeforeIntent, BeforeSuccess
  <1>1. CASE Start(c) \/ Reserve(c) \/ AssertExecutable(c) \/ Consume(c)
    BY <1>1, OnceUndisturbed DEF Start, Reserve, AssertExecutable, Consume
  <1>2. CASE Execute(c) \/ Complete(c) \/ Release(c) \/ RollBack(c)
    BY <1>2, OnceUndisturbed DEF Execute, Complete, Release, RollBack
  <1>3. CASE Crash(c)
    BY <1>3, OnceUndisturbed DEF Crash, Ended
  <1>4. QED
    BY <1>1, <1>2, <1>3

\* An event that is not on the chain can be recorded.
LEMMA Records ==
  ASSUME NEW e \in Event, audit' = Append(audit, e), ~Recorded(e.type, e.call)
  PROVE  Chain!Next
  <1>1. \A i \in DOMAIN audit : audit[i] # e
    BY DEF Recorded
  <1>2. QED
    BY <1>1 DEF Chain!Next, Chain!Record

\* The steps that send their call's event.
LEMMA OnceEvents ==
  ASSUME TypeOK, OnceInv, NEW c \in Calls,
         AppendIntent(c) \/ AppendSucceeded(c) \/ AppendFailed(c)
  PROVE  OnceInv' /\ [Chain!Next]_audit
  <1> USE DEF EventTypes, Steps, HoldingSteps, Ended, BeforeIntent, BeforeSuccess
  <1>1. PICK type \in EventTypes :
          /\ OnceInv'
          /\ UNCHANGED audit \/ (audit' = Append(audit, EventOf(c, type)) /\ ~Recorded(type, c))
    <2>1. CASE AppendIntent(c)
      BY <2>1, OnceAppended DEF AppendIntent
    <2>2. CASE AppendSucceeded(c)
      BY <2>2, OnceAppended DEF AppendSucceeded
    <2>3. CASE AppendFailed(c)
      BY <2>3, OnceAppended DEF AppendFailed
    <2>4. QED
      BY <2>1, <2>2, <2>3
  <1>2. LET e == EventOf(c, type) IN e \in Event /\ e.type = type /\ e.call = c
    BY EventFields
  <1>3. QED
    BY <1>1, <1>2, Records

\* An event that comes late has not come before.
LEMMA OnceLate == ASSUME TypeOK, OnceInv, CommitLate PROVE OnceInv' /\ [Chain!Next]_audit
  <1>1. PICK e \in late :
          /\ e \in Event /\ audit' = Append(audit, e) /\ late' = late \ {e}
          /\ Sent' \subseteq Sent /\ pc' = pc
    BY LateCommits
  <1>2. \A t \in EventTypes, d \in Calls :
          Recorded(t, d)' <=> Recorded(t, d) \/ (t = e.type /\ d = e.call)
    BY <1>1, RecordedGrows
  <1>3. \A f \in late : f.type \in EventTypes /\ f.call \in Calls
    BY SentTyped DEF Sent, Event
  <1>4. \A f \in late' : ~Recorded(f.type, f.call)'
    BY <1>1, <1>2, <1>3 DEF OnceInv
  <1>5. OnceInv'
    BY <1>1, <1>4 DEF OnceInv
  <1>6. ~Recorded(e.type, e.call)
    BY DEF OnceInv
  <1>7. QED
    BY <1>1, <1>5, <1>6, Records

\* The executor's side of the audit chain: late appends, lost receipts, crashes and rollbacks
\* make no call record an event twice, so what it does to the chain are steps of an append-only
\* log of distinct events, which is what AuditChain implements.
THEOREM ChainIsALog == Spec => UsesChainAsLog
  <1>1. Init => OnceInv /\ Chain!Init
    BY DEF Init, OnceInv, Sent, Chain!Init
  <1>2. TypeOK /\ OnceInv /\ [Next]_vars => OnceInv' /\ [Chain!Next]_audit
    <2> SUFFICES ASSUME TypeOK, OnceInv, [Next]_vars PROVE OnceInv' /\ [Chain!Next]_audit
      OBVIOUS
    <2>1. CASE Tick \/ UNCHANGED vars
      BY <2>1 DEF Tick, vars, OnceInv, Sent, Recorded
    <2>2. QED
      BY <2>1, OnceElsewhere, OnceEvents, OnceLate DEF Next, Step
  <1>3. QED
    BY <1>1, <1>2, TypeCorrect, PTL DEF Spec, UsesChainAsLog, Chain!Spec
================================================================================
