-------------------------- MODULE PolicyGatewayProofs --------------------------
(***************************************************************************)
(* Theorems about PolicyGateway, for every value of its constants: any      *)
(* number of requests, actions, targets, decisions and changes.             *)
(***************************************************************************)
EXTENDS PolicyGateway, TLAPS

\* What each read finds is always expanded.
USE DEF ResourceResolves, LimitsResolve, GateMet, KnowledgeGoverns, OwnerVerified,
        StandingStateHolds

(***************************************************************************)
(* Type correctness.                                                        *)
(***************************************************************************)

\* Past the reads that resolve it, a request has a target.
Resolved ==
  \A r \in Requests :
    pc[r] \in Reads \ {"matching", "preparing"} => resolved[r] \in Targets

\* An operation whose request has resolved its target keeps that true.
LEMMA ResolvedStep ==
  ASSUME TypeOK, Resolved, [Next]_vars
  PROVE  Resolved'
  <1> USE DEF Resolved, TypeOK, Goto, Reads, Gates
  <1>1. ASSUME NEW r \in Requests, NEW operation, NEW d, NEW a,
               NEW step \in {"matching", "preparing", "refused"},
               Begin(r, operation, d, a, step)
        PROVE  Resolved'
    BY <1>1 DEF Begin
  <1>2. ASSUME NEW r \in Requests,
               Evaluate(r) \/ AuthorizeOwnerException(r) \/ AssertExecutable(r)
        PROVE  Resolved'
    BY <1>1, <1>2 DEF Evaluate, AuthorizeOwnerException, AssertExecutable
  <1>3. ASSUME NEW r \in Requests, MatchAuthorization(r) PROVE Resolved'
    BY <1>3 DEF MatchAuthorization
  <1>4. ASSUME NEW r \in Requests, Prepare(r) PROVE Resolved'
    BY <1>4 DEF Prepare
  <1>5. ASSUME NEW r \in Requests, ReadLimits(r) PROVE Resolved'
    BY <1>5 DEF ReadLimits
  <1>6. ASSUME NEW r \in Requests, ReadGate(r) PROVE Resolved'
    <2>1. resolved[r] \in Targets /\ resolved' = resolved
      BY <1>6 DEF ReadGate
    <2>2. \A q \in Requests \ {r} : pc'[q] = pc[q]
      BY <1>6 DEF ReadGate
    <2>3. QED
      BY <2>1, <2>2
  <1>7. ASSUME NEW r \in Requests, ReadKnowledge(r) PROVE Resolved'
    BY <1>7 DEF ReadKnowledge, Issue
  <1>8. ASSUME NEW r \in Requests, Revalidate(r) PROVE Resolved'
    BY <1>8 DEF Revalidate
  <1>9. ASSUME NEW r \in Requests, VerifyOwner(r) PROVE Resolved'
    BY <1>9 DEF VerifyOwner, Issue
  <1>10. ASSUME NEW r \in Requests, ConsumeDecision(r) PROVE Resolved'
    BY <1>10 DEF ConsumeDecision
  <1>11. CASE Administer
    BY <1>11 DEF Administer
  <1>12. CASE UNCHANGED vars
    BY <1>12 DEF vars
  <1>13. QED
    BY <1>2, <1>3, <1>4, <1>5, <1>6, <1>7, <1>8, <1>9, <1>10, <1>11, <1>12 DEF Next

\* The state an operation leaves has its types.
LEMMA OperationTyped ==
  ASSUME TypeOK, Resolved, NEW r \in Requests,
         \/ Evaluate(r) \/ AuthorizeOwnerException(r) \/ AssertExecutable(r)
         \/ MatchAuthorization(r) \/ Prepare(r) \/ ReadLimits(r) \/ ReadGate(r)
         \/ ReadKnowledge(r) \/ Revalidate(r) \/ VerifyOwner(r) \/ ConsumeDecision(r)
  PROVE  TypeOK'
  <1> USE DEF TypeOK, Goto, Steps, Reads, Gates, world, request
  <1>1. ASSUME NEW operation \in {"evaluate", "authorize", "assert"},
               NEW d \in Decisions \cup {Nothing}, NEW a \in Authorization \cup {Nothing},
               NEW step \in Steps, Begin(r, operation, d, a, step)
        PROVE  TypeOK'
    <2>1. bad' \in [Requests -> SUBSET (Records \cup {"limits"})]
      <3>1. \A t : Wrong(t) \subseteq Records \cup {"limits"}
        BY DEF Wrong, Records
      <3>2. QED
        BY <1>1, <3>1 DEF Begin
    <2>2. QED
      BY <1>1, <2>1 DEF Begin
  <1>2. CASE Evaluate(r)
    BY <1>1, <1>2 DEF Evaluate
  <1>3. CASE AuthorizeOwnerException(r)
    BY <1>1, <1>3 DEF AuthorizeOwnerException
  <1>4. CASE AssertExecutable(r)
    <2>1. CASE Begin(r, "assert", Nothing, Nothing, "refused")
      BY <1>1, <2>1
    <2>2. ASSUME NEW a \in issued, Begin(r, "assert", a.decision, a, "matching")
          PROVE  TypeOK'
      <3>1. a \in Authorization /\ a.decision \in Decisions \cup {Nothing}
        BY DEF Authorization
      <3>2. QED
        BY <1>1, <2>2, <3>1
    <2>3. QED
      BY <1>4, <2>1, <2>2 DEF AssertExecutable
  <1>5. CASE MatchAuthorization(r)
    BY <1>5 DEF MatchAuthorization
  <1>6. CASE Prepare(r)
    BY <1>6 DEF Prepare
  <1>7. CASE ReadLimits(r)
    BY <1>7 DEF ReadLimits
  <1>8. CASE ReadGate(r)
    <2>1. unmet' \in [Requests -> BOOLEAN]
      BY <1>8 DEF ReadGate
    <2>2. pc' \in [Requests -> Steps]
      <3>1. PICK step \in Steps : pc' = [pc EXCEPT ![r] = step]
        BY <1>8 DEF ReadGate
      <3>2. QED
        BY <3>1
    <2>3. QED
      BY <1>8, <2>1, <2>2 DEF ReadGate
  <1>9. ASSUME NEW mechanism \in {"standing_policy", "owner_exception"}, Issue(r, mechanism),
               resolved[r] \in Targets
        PROVE  issued' \subseteq Authorization /\ pc' \in [Requests -> Steps]
    <2>1. [mechanism |-> mechanism, action |-> ActionOf[r], target |-> resolved[r],
           decision |-> decision[r], by |-> r] \in Authorization
      BY <1>9, InputAssumption DEF Authorization
    <2>2. QED
      BY <1>9, <2>1 DEF Issue
  <1>10. CASE ReadKnowledge(r)
    BY <1>9, <1>10 DEF ReadKnowledge, Resolved
  <1>11. CASE Revalidate(r)
    BY <1>11 DEF Revalidate
  <1>12. CASE VerifyOwner(r)
    BY <1>9, <1>12 DEF VerifyOwner, Resolved
  <1>13. CASE ConsumeDecision(r)
    BY <1>13 DEF ConsumeDecision
  <1>14. QED
    BY <1>2, <1>3, <1>4, <1>5, <1>6, <1>7, <1>8, <1>10, <1>11, <1>12, <1>13

\* Every state of the gateway has its types, and its running requests their targets.
LEMMA TypesAndTargets == Spec => [](TypeOK /\ Resolved)
  <1>1. Init => TypeOK /\ Resolved
    BY ChangesAssumption, InputAssumption
    DEF Init, TypeOK, Resolved, Steps, Reads, Gates, Records
  <1>2. TypeOK /\ Resolved /\ [Next]_vars => (TypeOK /\ Resolved)'
    <2> SUFFICES ASSUME TypeOK, Resolved, [Next]_vars PROVE TypeOK'
      BY ResolvedStep
    <2>1. CASE Administer
      <3>1. \A r \in Requests : bad'[r] \subseteq bad[r]
        BY <2>1 DEF Administer
      <3>2. bad' \in [Requests -> SUBSET (Records \cup {"limits"})]
        BY <2>1, <3>1 DEF Administer, TypeOK
      <3>3. changes' \in 0 .. MaxChanges
        BY <2>1, ChangesAssumption DEF Administer, TypeOK
      <3>4. /\ inForce' \subseteq Records /\ target' \in Targets
            /\ limits' \in {"none", "within", "over"}
        BY <2>1 DEF Administer, TypeOK
      <3>5. QED
        BY <2>1, <3>2, <3>3, <3>4 DEF Administer, TypeOK, request
    <2>2. CASE UNCHANGED vars
      BY <2>2 DEF TypeOK, vars, world, request
    <2>3. QED
      BY <2>1, <2>2, OperationTyped DEF Next
  <1>3. QED
    BY <1>1, <1>2, PTL DEF Spec

\* Type correctness.
THEOREM TypeCorrect == Spec => []TypeOK
  BY TypesAndTargets, PTL

(***************************************************************************)
(* The inductive invariant: what a request has found at each of its steps.  *)
(***************************************************************************)

StandingSteps == Gates \cup {"preparing", "limiting", "knowledge", "revalidating"}

\* Every authorization was earned by an operation that has ended.
IssuedEarned ==
  \A x \in issued :
    /\ x.action = ActionOf[x.by]
    /\ pc[x.by] = "authorized"
    /\ x.mechanism = "owner_exception" => x.decision \in Decisions

\* What a request presents, and what its steps have compared with it.
Flow(r) ==
  /\ pc[r] \in {"matching", "revalidating", "consuming", "passed"} => op[r] = "assert"
  /\ pc[r] = "authorized" => op[r] \in {"evaluate", "authorize"}
  /\ pc[r] \in Gates \cup {"knowledge"} => op[r] # "authorize"
  /\ pc[r] # "idle" /\ op[r] # "assert" => presented[r] = Nothing
  /\ op[r] = "authorize" => decision[r] \in Decisions
  /\ op[r] = "assert" =>
       /\ pc[r] \in Reads \cup {"passed"} =>
            presented[r] \in issued /\ decision[r] = presented[r].decision
       /\ pc[r] \in (Reads \cup {"passed"}) \ {"matching"} =>
            ActionOf[r] = presented[r].action
       /\ pc[r] \in StandingSteps => presented[r].mechanism = "standing_policy"
       /\ pc[r] \in {"verifyingOwner", "consuming"} =>
            presented[r].mechanism = "owner_exception"
       /\ pc[r] \in {"revalidating", "verifyingOwner", "consuming", "passed"} =>
            resolved[r] = presented[r].target

\* The records a request has found in force, by the step it is at.
PastTarget(r) ==
  \/ pc[r] \in Reads \ {"matching", "preparing"} \/ pc[r] \in {"authorized", "passed"}
  \/ pc[r] = "preparing" /\ op[r] = "assert"
PastLimits(r) ==
  \/ pc[r] \in Gates \cup {"knowledge", "revalidating"}
  \/ pc[r] = "authorized" /\ op[r] = "evaluate"
  \/ PassedBy(r, "standing_policy")
PastGates(r) ==
  \/ pc[r] \in {"knowledge", "revalidating"}
  \/ pc[r] = "authorized" /\ op[r] = "evaluate"
  \/ PassedBy(r, "standing_policy")
PastKnowledge(r) ==
  \/ pc[r] = "revalidating"
  \/ pc[r] = "authorized" /\ op[r] = "evaluate"
  \/ PassedBy(r, "standing_policy")
PastOwner(r) == pc[r] = "consuming" \/ PassedBy(r, "owner_exception")

\* What a request has found in force has not been out of force since it began.
Fresh(r) ==
  /\ pc[r] # "idle" => bad[r] \subseteq Wrong(Claimed(r))
  /\ timely[r] \cap bad[r] = {}
  /\ PastTarget(r) => "resource" \notin bad[r]
  /\ PastLimits(r) => "limits" \notin bad[r]
  /\ pc[r] \in {"checker", "tests", "rollback"} /\ ~unmet[r] => "maker" \notin bad[r]
  /\ pc[r] \in {"tests", "rollback"} /\ ~unmet[r] => "checker" \notin bad[r]
  /\ pc[r] = "rollback" /\ ~unmet[r] => "tests" \notin bad[r]
  /\ PastGates(r) => bad[r] \cap Gates = {}
  /\ PastKnowledge(r) => "knowledge" \notin bad[r]
  /\ PassedBy(r, "standing_policy") => "standing" \notin bad[r] /\ "window" \in timely[r]
  /\ PastOwner(r) =>
       /\ "ownerKey" \notin bad[r] /\ "decision" \in timely[r]
       /\ BoundTo[decision[r]] = DigestOf(r)

IInv == TypeOK /\ Resolved /\ IssuedEarned /\ \A r \in Requests : Flow(r) /\ Fresh(r)

Own(r) == <<pc[r], op[r], presented[r], decision[r], timely[r], resolved[r], unmet[r], bad[r]>>

Moves(r) ==
  \/ Evaluate(r) \/ AuthorizeOwnerException(r) \/ AssertExecutable(r)
  \/ MatchAuthorization(r) \/ Prepare(r) \/ ReadLimits(r) \/ ReadGate(r)
  \/ ReadKnowledge(r) \/ Revalidate(r) \/ VerifyOwner(r) \/ ConsumeDecision(r)

\* A step of one request reads the tables, leaves the state of every other request
\* as it was, and takes no authorization back.
LEMMA StepOfOne ==
  ASSUME TypeOK, NEW r \in Requests, Moves(r)
  PROVE  /\ UNCHANGED world /\ issued \subseteq issued'
         /\ \A q \in Requests \ {r} : UNCHANGED Own(q)
  <1> USE DEF TypeOK, Goto, request, Own
  <1>1. ASSUME NEW operation, NEW d, NEW a, NEW step, Begin(r, operation, d, a, step)
        PROVE  /\ UNCHANGED world /\ issued \subseteq issued'
               /\ \A q \in Requests \ {r} : UNCHANGED Own(q)
    BY <1>1 DEF Begin
  <1>2. CASE Evaluate(r) \/ AuthorizeOwnerException(r) \/ AssertExecutable(r)
    BY <1>1, <1>2 DEF Evaluate, AuthorizeOwnerException, AssertExecutable
  <1>3. CASE MatchAuthorization(r)
    BY <1>3 DEF MatchAuthorization
  <1>4. CASE Prepare(r)
    BY <1>4 DEF Prepare
  <1>5. CASE ReadLimits(r)
    BY <1>5 DEF ReadLimits
  <1>6. CASE ReadGate(r)
    BY <1>6 DEF ReadGate
  <1>7. CASE ReadKnowledge(r)
    BY <1>7 DEF ReadKnowledge, Issue
  <1>8. CASE Revalidate(r)
    BY <1>8 DEF Revalidate
  <1>9. CASE VerifyOwner(r)
    BY <1>9 DEF VerifyOwner, Issue
  <1>10. CASE ConsumeDecision(r)
    BY <1>10 DEF ConsumeDecision
  <1>11. QED
    BY <1>2, <1>3, <1>4, <1>5, <1>6, <1>7, <1>8, <1>9, <1>10 DEF Moves

\* So the invariant of every other request is kept.
LEMMA OthersKeep ==
  ASSUME IInv, NEW r \in Requests, Moves(r), NEW q \in Requests \ {r}
  PROVE  Flow(q)' /\ Fresh(q)'
  <1>1. UNCHANGED Own(q) /\ UNCHANGED world /\ issued \subseteq issued'
    BY StepOfOne DEF IInv
  <1>2. Flow(q) /\ Fresh(q)
    BY DEF IInv
  <1>3. Flow(q)'
    BY <1>1, <1>2 DEF Flow, Own
  <1>4. Fresh(q)'
    <2>1. Wrong(Claimed(q))' = Wrong(Claimed(q))
      BY <1>1 DEF Wrong, Claimed, Own, world
    <2>2. /\ PastTarget(q)' = PastTarget(q) /\ PastLimits(q)' = PastLimits(q)
          /\ PastGates(q)' = PastGates(q) /\ PastKnowledge(q)' = PastKnowledge(q)
          /\ PastOwner(q)' = PastOwner(q) /\ DigestOf(q)' = DigestOf(q)
          /\ PassedBy(q, "standing_policy")' = PassedBy(q, "standing_policy")
      BY <1>1 DEF PastTarget, PastLimits, PastGates, PastKnowledge, PastOwner, PassedBy,
                  DigestOf, Own
    <2>3. QED
      BY <1>1, <1>2, <2>1, <2>2 DEF Fresh, Own
  <1>5. QED
    BY <1>3, <1>4

\* An operation begins: nothing has been compared or found yet.
LEMMA BeginKeeps ==
  ASSUME IInv, NEW r \in Requests,
         NEW operation, NEW d \in Decisions \cup {Nothing}, NEW a, NEW step,
         Begin(r, operation, d, a, step),
         \/ operation = "evaluate" /\ a = Nothing /\ step = "preparing"
         \/ operation = "authorize" /\ a = Nothing /\ step = "preparing" /\ d \in Decisions
         \/ operation = "assert" /\ step = "refused"
         \/ operation = "assert" /\ step = "matching" /\ a \in issued /\ d = a.decision
  PROVE  Flow(r)' /\ Fresh(r)' /\ IssuedEarned'
  <1>1. /\ pc[r] = "idle" /\ pc'[r] = step /\ op'[r] = operation
        /\ decision'[r] = d /\ presented'[r] = a
        /\ timely'[r] = Dated \cap inForce
        /\ bad'[r] = Wrong(IF a = Nothing THEN Nothing ELSE a.target)
        /\ UNCHANGED <<world, issued, resolved, unmet>>
    BY DEF Begin, Goto, IInv, TypeOK
  <1>2. Flow(r)'
    BY <1>1 DEF Flow, Reads, Gates, StandingSteps
  <1>3. Fresh(r)'
    <2>1. bad'[r] = Wrong(Claimed(r))'
      BY <1>1 DEF Claimed, Wrong, world
    <2>2. timely'[r] \cap bad'[r] = {}
      BY <1>1 DEF Wrong, Dated
    <2>3. step # "idle" /\ ~PastTarget(r)' /\ ~PastLimits(r)' /\ ~PastGates(r)'
          /\ ~PastKnowledge(r)' /\ ~PastOwner(r)' /\ ~PassedBy(r, "standing_policy")'
      BY <1>1 DEF PastTarget, PastLimits, PastGates, PastKnowledge, PastOwner, PassedBy,
                  Reads, Gates
    <2>4. QED
      BY <1>1, <2>1, <2>2, <2>3 DEF Fresh
  <1>4. IssuedEarned'
    BY <1>1, StepOfOne DEF IssuedEarned, IInv, Begin, Goto, TypeOK, Authorization
  <1>5. QED
    BY <1>2, <1>3, <1>4

\* A step that issues nothing keeps every authorization's own operation ended.
LEMMA IssuedKept ==
  ASSUME IInv, NEW r \in Requests, NEW step, Goto(r, step), pc[r] # "authorized",
         UNCHANGED issued
  PROVE  IssuedEarned'
  BY DEF IInv, IssuedEarned, Goto, TypeOK, Authorization

\* MatchAuthorization compares the action and the target with the authorization's.
LEMMA MatchKeeps ==
  ASSUME IInv, NEW r \in Requests, MatchAuthorization(r)
  PROVE  Flow(r)' /\ Fresh(r)' /\ IssuedEarned'
  <1>1. PICK step \in {"refused", "preparing", "verifyingOwner"} :
          /\ pc[r] = "matching" /\ Goto(r, step) /\ pc'[r] = step
          /\ UNCHANGED <<world, request, unmet, issued, consumed, bad>>
          /\ step # "refused" =>
               /\ "resource" \in inForce /\ resolved'[r] = target
               /\ ActionOf[r] = presented[r].action /\ target = presented[r].target
               /\ step = "preparing" => presented[r].mechanism = "standing_policy"
               /\ step = "verifyingOwner" => presented[r].mechanism # "standing_policy"
    BY DEF MatchAuthorization, Goto, IInv, TypeOK
  <1>2. Flow(r) /\ Fresh(r) /\ op[r] = "assert"
    BY <1>1 DEF IInv, Flow
  <1>3. presented[r] \in issued /\ presented[r] \in Authorization
    BY <1>1, <1>2 DEF Flow, Reads, IInv, TypeOK
  <1>4. presented[r].mechanism \in {"standing_policy", "owner_exception"}
    BY <1>3 DEF Authorization
  <1>5. Flow(r)'
    BY <1>1, <1>2, <1>3, <1>4 DEF Flow, Reads, Gates, StandingSteps, request
  <1>6. Fresh(r)'
    <2>1. /\ bad'[r] = bad[r] /\ Wrong(Claimed(r))' = Wrong(Claimed(r))
          /\ timely'[r] = timely[r]
      BY <1>1 DEF Wrong, Claimed, world, request
    <2>2. step # "refused" => "resource" \notin bad[r]
      <3>1. presented[r] # Nothing
        BY <1>3, NothingAssumption
      <3>2. QED
        BY <1>1, <1>2, <3>1 DEF Fresh, Wrong, Claimed
    <2>3. ~PastLimits(r)' /\ ~PastGates(r)' /\ ~PastKnowledge(r)' /\ ~PastOwner(r)'
          /\ ~PassedBy(r, "standing_policy")'
      BY <1>1 DEF PastLimits, PastGates, PastKnowledge, PastOwner, PassedBy, Gates
    <2>4. PastTarget(r)' => step # "refused"
      BY <1>1 DEF PastTarget, Reads, Gates
    <2>5. QED
      BY <1>1, <1>2, <2>1, <2>2, <2>3, <2>4 DEF Fresh
  <1>7. QED
    BY <1>1, <1>5, <1>6, IssuedKept

\* Prepare resolves the target, once more in an assertion.
LEMMA PrepareKeeps ==
  ASSUME IInv, NEW r \in Requests, Prepare(r)
  PROVE  Flow(r)' /\ Fresh(r)' /\ IssuedEarned'
  <1>1. PICK step \in {"refused", "limiting"} :
          /\ pc[r] = "preparing" /\ Goto(r, step) /\ pc'[r] = step
          /\ UNCHANGED <<world, request, unmet, issued, consumed, bad>>
          /\ step = "limiting" => "resource" \in inForce /\ resolved'[r] = target
    BY DEF Prepare, Goto, IInv, TypeOK
  <1>2. Flow(r) /\ Fresh(r)
    BY DEF IInv
  <1>3. Flow(r)'
    BY <1>1, <1>2 DEF Flow, Reads, Gates, StandingSteps, request
  <1>4. Fresh(r)'
    <2>1. /\ bad'[r] = bad[r] /\ Wrong(Claimed(r))' = Wrong(Claimed(r))
          /\ timely'[r] = timely[r]
      BY <1>1 DEF Wrong, Claimed, world, request
    <2>2. step = "limiting" => "resource" \notin bad[r]
      <3>1. CASE op[r] = "assert"
        BY <1>1, <1>2, <3>1 DEF Fresh, PastTarget
      <3>2. CASE op[r] # "assert"
        BY <1>1, <1>2, <3>2 DEF Fresh, Flow, Wrong, Claimed
      <3>3. QED
        BY <3>1, <3>2
    <2>3. ~PastLimits(r)' /\ ~PastGates(r)' /\ ~PastKnowledge(r)' /\ ~PastOwner(r)'
          /\ ~PassedBy(r, "standing_policy")'
      BY <1>1 DEF PastLimits, PastGates, PastKnowledge, PastOwner, PassedBy, Gates
    <2>4. PastTarget(r)' => step = "limiting"
      BY <1>1 DEF PastTarget, Reads, Gates
    <2>5. QED
      BY <1>1, <1>2, <2>1, <2>2, <2>3, <2>4 DEF Fresh
  <1>5. QED
    BY <1>1, <1>3, <1>4, IssuedKept

\* ReadLimits goes on only within the limits, or to the owner.
LEMMA LimitsKeep ==
  ASSUME IInv, NEW r \in Requests, ReadLimits(r)
  PROVE  Flow(r)' /\ Fresh(r)' /\ IssuedEarned'
  <1>1. PICK step \in {"refused", "maker", "verifyingOwner"} :
          /\ pc[r] = "limiting" /\ Goto(r, step) /\ pc'[r] = step
          /\ UNCHANGED <<world, request, resolved, unmet, issued, consumed, bad>>
          /\ step = "maker" => limits = "within" /\ op[r] # "authorize"
          /\ step = "verifyingOwner" => op[r] = "authorize"
    BY DEF ReadLimits, StandingApplies, Goto, IInv, TypeOK
  <1>2. Flow(r) /\ Fresh(r)
    BY DEF IInv
  <1>3. Flow(r)'
    BY <1>1, <1>2 DEF Flow, Reads, Gates, StandingSteps, request
  <1>4. Fresh(r)'
    <2>1. /\ bad'[r] = bad[r] /\ Wrong(Claimed(r))' = Wrong(Claimed(r))
          /\ timely'[r] = timely[r]
      BY <1>1 DEF Wrong, Claimed, world, request
    <2>2. "resource" \notin bad[r]
      BY <1>1, <1>2 DEF Fresh, PastTarget, Reads
    <2>3. step = "maker" => "limits" \notin bad[r]
      BY <1>1, <1>2 DEF Fresh, Wrong, Records, Gates, Dated
    <2>4. PastLimits(r)' => step = "maker"
      BY <1>1 DEF PastLimits, PassedBy, Gates
    <2>5. ~PastGates(r)' /\ ~PastKnowledge(r)' /\ ~PastOwner(r)'
          /\ ~PassedBy(r, "standing_policy")'
      BY <1>1 DEF PastGates, PastKnowledge, PastOwner, PassedBy
    <2>6. QED
      BY <1>1, <1>2, <2>1, <2>2, <2>3, <2>4, <2>5 DEF Fresh
  <1>5. QED
    BY <1>1, <1>3, <1>4, IssuedKept

\* ReadGate leaves the gates only when every one of them was met.
LEMMA GatesKeep ==
  ASSUME IInv, NEW r \in Requests, ReadGate(r)
  PROVE  Flow(r)' /\ Fresh(r)' /\ IssuedEarned'
  <1>1. pc[r] \in Gates /\ unmet'[r] \in BOOLEAN
        /\ UNCHANGED <<world, request, resolved, issued, consumed, bad>>
    BY DEF ReadGate, IInv, TypeOK
  <1>2. ~unmet'[r] => pc[r] \in inForce /\ ~unmet[r]
    BY DEF ReadGate, IInv, TypeOK
  <1>3. PICK step \in {"checker", "tests", "rollback", "refused", "knowledge"} :
          /\ Goto(r, step)
          /\ step = "checker" => pc[r] = "maker" /\ ~unmet'[r]
          /\ step = "tests" => pc[r] = "checker" \/ (pc[r] = "maker" /\ unmet'[r])
          /\ step = "rollback" => pc[r] = "tests"
          /\ step = "knowledge" => pc[r] = "rollback" /\ ~unmet'[r]
    <2>1. CASE pc[r] = "maker"
      <3>1. Goto(r, IF unmet'[r] THEN "tests" ELSE "checker")
        BY <2>1 DEF ReadGate
      <3>2. CASE unmet'[r]
        BY <2>1, <3>1, <3>2
      <3>3. CASE ~unmet'[r]
        BY <2>1, <3>1, <3>3
      <3>4. QED
        BY <3>2, <3>3
    <2>2. CASE pc[r] = "checker"
      BY <2>2 DEF ReadGate
    <2>3. CASE pc[r] = "tests"
      BY <2>3 DEF ReadGate
    <2>4. CASE pc[r] = "rollback"
      <3>1. Goto(r, IF unmet'[r] THEN "refused" ELSE "knowledge")
        BY <2>4 DEF ReadGate
      <3>2. CASE unmet'[r]
        BY <2>4, <3>1, <3>2
      <3>3. CASE ~unmet'[r]
        BY <2>4, <3>1, <3>3
      <3>4. QED
        BY <3>2, <3>3
    <2>5. QED
      BY <1>1, <2>1, <2>2, <2>3, <2>4 DEF Gates
  <1>4. pc'[r] = step
    BY <1>3 DEF Goto, IInv, TypeOK
  <1>5. Flow(r) /\ Fresh(r)
    BY DEF IInv
  <1>6. Flow(r)'
    BY <1>1, <1>4, <1>5 DEF Flow, Reads, Gates, StandingSteps, request
  <1>7. Fresh(r)'
    <2>1. /\ bad'[r] = bad[r] /\ Wrong(Claimed(r))' = Wrong(Claimed(r))
          /\ timely'[r] = timely[r]
      BY <1>1 DEF Wrong, Claimed, world, request
    <2>2. "resource" \notin bad[r] /\ "limits" \notin bad[r]
      BY <1>1, <1>5 DEF Fresh, PastTarget, PastLimits, Reads, Gates
    <2>3. ~unmet'[r] => pc[r] \notin bad[r]
      BY <1>1, <1>2, <1>5 DEF Fresh, Wrong, Gates
    <2>4. /\ step \in {"checker", "tests", "rollback"} /\ ~unmet'[r] => "maker" \notin bad[r]
          /\ step \in {"tests", "rollback"} /\ ~unmet'[r] => "checker" \notin bad[r]
          /\ step = "rollback" /\ ~unmet'[r] => "tests" \notin bad[r]
          /\ step = "knowledge" => bad[r] \cap Gates = {}
      BY <1>2, <1>3, <1>5, <2>3 DEF Fresh, Gates
    <2>5. PastGates(r)' => step = "knowledge"
      BY <1>4 DEF PastGates, PassedBy
    <2>6. ~PastKnowledge(r)' /\ ~PastOwner(r)' /\ ~PassedBy(r, "standing_policy")'
      BY <1>4 DEF PastKnowledge, PastOwner, PassedBy
    <2>7. QED
      BY <1>1, <1>4, <1>5, <2>1, <2>2, <2>4, <2>5, <2>6 DEF Fresh, Gates
  <1>8. pc[r] # "authorized"
    BY <1>1 DEF Gates
  <1>9. QED
    BY <1>1, <1>3, <1>6, <1>7, <1>8, IssuedKept

\* An operation that ends by issuing has earned what it issues.
LEMMA IssueKeeps ==
  ASSUME IInv, NEW r \in Requests, NEW mechanism \in {"standing_policy", "owner_exception"},
         Issue(r, mechanism), pc[r] # "authorized",
         mechanism = "owner_exception" => decision[r] \in Decisions
  PROVE  IssuedEarned' /\ pc'[r] = "authorized"
  <1>1. pc'[r] = "authorized" /\ \A q \in Requests : pc[q] = "authorized" => pc'[q] = pc[q]
    BY DEF Issue, Goto, IInv, TypeOK
  <1>2. \A x \in issued : x.by \in Requests
    BY DEF IInv, TypeOK, Authorization
  <1>3. QED
    BY <1>1, <1>2 DEF Issue, IssuedEarned, IInv

\* ReadKnowledge ends an evaluation, or compares the fresh digest in an assertion.
LEMMA KnowledgeKeeps ==
  ASSUME IInv, NEW r \in Requests, ReadKnowledge(r)
  PROVE  Flow(r)' /\ Fresh(r)' /\ IssuedEarned'
  <1>1. /\ pc[r] = "knowledge"
        /\ UNCHANGED <<world, request, resolved, unmet, consumed, bad>>
        /\ Flow(r) /\ Fresh(r)
    BY DEF ReadKnowledge, IInv
  <1>2. PICK step \in {"refused", "authorized", "revalidating"} :
          /\ pc'[r] = step
          /\ step # "refused" => "knowledge" \in inForce
          /\ step = "authorized" => op[r] = "evaluate"
          /\ step = "revalidating" => op[r] = "assert" /\ resolved[r] = presented[r].target
    BY DEF ReadKnowledge, Issue, Goto, IInv, TypeOK
  <1>3. issued \subseteq issued'
    BY DEF ReadKnowledge, Issue
  <1>4. Flow(r)'
    BY <1>1, <1>2, <1>3 DEF Flow, Reads, Gates, StandingSteps, request
  <1>5. Fresh(r)'
    <2>1. /\ bad'[r] = bad[r] /\ Wrong(Claimed(r))' = Wrong(Claimed(r))
          /\ timely'[r] = timely[r]
      BY <1>1 DEF Wrong, Claimed, world, request
    <2>2. "resource" \notin bad[r] /\ "limits" \notin bad[r] /\ bad[r] \cap Gates = {}
      BY <1>1 DEF Fresh, PastTarget, PastLimits, PastGates, Reads
    <2>3. step # "refused" => "knowledge" \notin bad[r]
      BY <1>1, <1>2 DEF Fresh, Wrong
    <2>4. ~PastOwner(r)' /\ ~PassedBy(r, "standing_policy")'
      BY <1>2 DEF PastOwner, PassedBy
    <2>5. PastKnowledge(r)' => step # "refused"
      BY <1>2 DEF PastKnowledge, PassedBy
    <2>6. QED
      BY <1>1, <1>2, <2>1, <2>2, <2>3, <2>4, <2>5 DEF Fresh
  <1>6. IssuedEarned'
    <2>1. CASE Issue(r, "standing_policy")
      BY <1>1, <2>1, IssueKeeps
    <2>2. ASSUME NEW s, Goto(r, s), UNCHANGED issued PROVE IssuedEarned'
      BY <1>1, <2>2, IssuedKept
    <2>3. QED
      BY <2>1, <2>2 DEF ReadKnowledge
  <1>7. QED
    BY <1>4, <1>5, <1>6

\* Revalidate passes a standing policy's assertion, its kill switch off.
LEMMA RevalidateKeeps ==
  ASSUME IInv, NEW r \in Requests, Revalidate(r)
  PROVE  Flow(r)' /\ Fresh(r)' /\ IssuedEarned'
  <1>1. PICK step \in {"refused", "passed"} :
          /\ pc[r] = "revalidating" /\ Goto(r, step) /\ pc'[r] = step
          /\ UNCHANGED <<world, request, resolved, unmet, issued, consumed, bad>>
          /\ step = "passed" => "standing" \in inForce /\ "window" \in timely[r]
    BY DEF Revalidate, Goto, IInv, TypeOK
  <1>2. Flow(r) /\ Fresh(r)
    BY DEF IInv
  <1>3. presented[r].mechanism = "standing_policy"
    BY <1>1, <1>2 DEF Flow, StandingSteps
  <1>4. Flow(r)'
    BY <1>1, <1>2, <1>3 DEF Flow, Reads, Gates, StandingSteps, request
  <1>5. Fresh(r)'
    <2>1. /\ bad'[r] = bad[r] /\ Wrong(Claimed(r))' = Wrong(Claimed(r))
          /\ timely'[r] = timely[r] /\ presented'[r] = presented[r]
      BY <1>1 DEF Wrong, Claimed, world, request
    <2>2. /\ "resource" \notin bad[r] /\ "limits" \notin bad[r]
          /\ bad[r] \cap Gates = {} /\ "knowledge" \notin bad[r]
      BY <1>1, <1>2 DEF Fresh, PastTarget, PastLimits, PastGates, PastKnowledge, Reads, Gates
    <2>3. step = "passed" => "standing" \notin bad[r] /\ "window" \in timely[r]
      BY <1>1, <1>2 DEF Fresh, Wrong
    <2>4. ~PastOwner(r)'
      BY <1>1, <1>3, <2>1 DEF PastOwner, PassedBy
    <2>5. PassedBy(r, "standing_policy")' => step = "passed"
      BY <1>1 DEF PassedBy
    <2>6. QED
      BY <1>1, <1>2, <2>1, <2>2, <2>3, <2>4, <2>5 DEF Fresh
  <1>6. QED
    BY <1>1, <1>4, <1>5, IssuedKept

\* VerifyOwner goes on only with a current decision that binds this digest.
LEMMA OwnerKeeps ==
  ASSUME IInv, NEW r \in Requests, VerifyOwner(r)
  PROVE  Flow(r)' /\ Fresh(r)' /\ IssuedEarned'
  <1>1. /\ pc[r] = "verifyingOwner"
        /\ UNCHANGED <<world, request, resolved, unmet, consumed, bad>>
        /\ Flow(r) /\ Fresh(r)
    BY DEF VerifyOwner, IInv
  <1>2. PICK step \in {"refused", "authorized", "consuming"} :
          /\ pc'[r] = step
          /\ step = "authorized" => op[r] = "authorize"
          /\ step = "consuming" =>
               /\ op[r] = "assert" /\ "ownerKey" \in inForce /\ "decision" \in timely[r]
               /\ BoundTo[decision[r]] = DigestOf(r)
    BY DEF VerifyOwner, Issue, Goto, IInv, TypeOK
  <1>3. issued \subseteq issued'
    BY DEF VerifyOwner, Issue
  <1>4. Flow(r)'
    BY <1>1, <1>2, <1>3 DEF Flow, Reads, Gates, StandingSteps, request
  <1>5. Fresh(r)'
    <2>1. /\ bad'[r] = bad[r] /\ Wrong(Claimed(r))' = Wrong(Claimed(r))
          /\ timely'[r] = timely[r] /\ decision'[r] = decision[r] /\ op'[r] = op[r]
          /\ DigestOf(r)' = DigestOf(r)
      BY <1>1 DEF Wrong, Claimed, DigestOf, world, request
    <2>2. "resource" \notin bad[r]
      BY <1>1 DEF Fresh, PastTarget, Reads, Gates
    <2>3. step = "consuming" => "ownerKey" \notin bad[r]
      BY <1>1, <1>2 DEF Fresh, Wrong
    <2>4. ~PastLimits(r)' /\ ~PastGates(r)' /\ ~PastKnowledge(r)'
          /\ ~PassedBy(r, "standing_policy")'
      BY <1>2, <2>1 DEF PastLimits, PastGates, PastKnowledge, PassedBy, Gates
    <2>5. PastOwner(r)' => step = "consuming"
      BY <1>2 DEF PastOwner, PassedBy
    <2>6. QED
      BY <1>1, <1>2, <2>1, <2>2, <2>3, <2>4, <2>5 DEF Fresh
  <1>6. IssuedEarned'
    <2>1. CASE op[r] = "authorize" /\ Issue(r, "owner_exception")
      BY <1>1, <2>1, IssueKeeps DEF Flow
    <2>2. ASSUME NEW s, Goto(r, s), UNCHANGED issued PROVE IssuedEarned'
      BY <1>1, <2>2, IssuedKept
    <2>3. QED
      BY <2>1, <2>2 DEF VerifyOwner
  <1>7. QED
    BY <1>4, <1>5, <1>6

\* ConsumeDecision passes an owner exception's assertion.
LEMMA ConsumeKeeps ==
  ASSUME IInv, NEW r \in Requests, ConsumeDecision(r)
  PROVE  Flow(r)' /\ Fresh(r)' /\ IssuedEarned'
  <1>1. PICK step \in {"refused", "passed"} :
          /\ pc[r] = "consuming" /\ Goto(r, step) /\ pc'[r] = step
          /\ UNCHANGED <<world, request, resolved, unmet, issued, bad>>
    BY DEF ConsumeDecision, Goto, IInv, TypeOK
  <1>2. Flow(r) /\ Fresh(r)
    BY DEF IInv
  <1>3. presented[r].mechanism = "owner_exception"
    BY <1>1, <1>2 DEF Flow, Reads
  <1>4. Flow(r)'
    BY <1>1, <1>2, <1>3 DEF Flow, Reads, Gates, StandingSteps, request
  <1>5. Fresh(r)'
    <2>1. /\ bad'[r] = bad[r] /\ Wrong(Claimed(r))' = Wrong(Claimed(r))
          /\ timely'[r] = timely[r] /\ decision'[r] = decision[r]
          /\ presented'[r] = presented[r] /\ DigestOf(r)' = DigestOf(r)
      BY <1>1 DEF Wrong, Claimed, DigestOf, world, request
    <2>2. /\ "resource" \notin bad[r] /\ "ownerKey" \notin bad[r] /\ "decision" \in timely[r]
          /\ BoundTo[decision[r]] = DigestOf(r)
      BY <1>1, <1>2 DEF Fresh, PastTarget, PastOwner, Reads
    <2>3. ~PastLimits(r)' /\ ~PastGates(r)' /\ ~PastKnowledge(r)'
          /\ ~PassedBy(r, "standing_policy")'
      BY <1>1, <1>3, <2>1 DEF PastLimits, PastGates, PastKnowledge, PassedBy, Gates
    <2>4. QED
      BY <1>1, <1>2, <2>1, <2>2, <2>3 DEF Fresh
  <1>6. QED
    BY <1>1, <1>4, <1>5, IssuedKept

\* One step of one request keeps the invariant.
LEMMA MoveKeeps ==
  ASSUME IInv, NEW r \in Requests, Moves(r)
  PROVE  IssuedEarned' /\ \A q \in Requests : Flow(q)' /\ Fresh(q)'
  <1>1. Flow(r)' /\ Fresh(r)' /\ IssuedEarned'
    <2>1. CASE Evaluate(r)
      BY <2>1, BeginKeeps DEF Evaluate
    <2>2. CASE AuthorizeOwnerException(r)
      BY <2>2, BeginKeeps DEF AuthorizeOwnerException
    <2>3. CASE AssertExecutable(r)
      <3>1. CASE Begin(r, "assert", Nothing, Nothing, "refused")
        BY <3>1, BeginKeeps
      <3>2. ASSUME NEW a \in issued, Begin(r, "assert", a.decision, a, "matching")
            PROVE  Flow(r)' /\ Fresh(r)' /\ IssuedEarned'
        <4>1. a.decision \in Decisions \cup {Nothing}
          BY DEF IInv, TypeOK, Authorization
        <4>2. QED
          BY <3>2, <4>1, BeginKeeps
      <3>3. QED
        BY <2>3, <3>1, <3>2 DEF AssertExecutable
    <2>4. QED
      BY <2>1, <2>2, <2>3, MatchKeeps, PrepareKeeps, LimitsKeep, GatesKeep, KnowledgeKeeps,
         RevalidateKeeps, OwnerKeeps, ConsumeKeeps DEF Moves
  <1>2. QED
    BY <1>1, OthersKeep

\* A change of the tables only takes from what has been wrong all along.
LEMMA AdministerKeeps ==
  ASSUME IInv, Administer
  PROVE  IssuedEarned' /\ \A q \in Requests : Flow(q)' /\ Fresh(q)'
  <1>1. UNCHANGED <<op, presented, decision, timely, pc, resolved, unmet, issued>>
    BY DEF Administer, request
  <1>2. \A q \in Requests : bad'[q] \subseteq bad[q] /\ bad'[q] \subseteq Wrong(Claimed(q))'
    BY DEF Administer
  <1>3. IssuedEarned'
    BY <1>1 DEF IssuedEarned, IInv
  <1>4. ASSUME NEW q \in Requests PROVE Flow(q)' /\ Fresh(q)'
    <2>1. Flow(q)'
      BY <1>1 DEF Flow, IInv
    <2>2. /\ PastTarget(q)' = PastTarget(q) /\ PastLimits(q)' = PastLimits(q)
          /\ PastGates(q)' = PastGates(q) /\ PastKnowledge(q)' = PastKnowledge(q)
          /\ PastOwner(q)' = PastOwner(q) /\ DigestOf(q)' = DigestOf(q)
          /\ PassedBy(q, "standing_policy")' = PassedBy(q, "standing_policy")
      BY <1>1 DEF PastTarget, PastLimits, PastGates, PastKnowledge, PastOwner, PassedBy,
                  DigestOf
    <2>3. Fresh(q)
      BY DEF IInv
    <2>4. Fresh(q)'
      BY <1>1, <1>2, <2>2, <2>3 DEF Fresh
    <2>5. QED
      BY <2>1, <2>4
  <1>5. QED
    BY <1>3, <1>4

\* The inductive invariant holds in every state of the gateway.
LEMMA Invariance == Spec => []IInv
  <1>1. Init => IssuedEarned /\ \A r \in Requests : Flow(r) /\ Fresh(r)
    BY DEF Init, IssuedEarned, Flow, Fresh, Reads, Gates, StandingSteps, PassedBy,
           PastTarget, PastLimits, PastGates, PastKnowledge, PastOwner
  <1>2. /\ IInv /\ [Next]_vars /\ (TypeOK /\ Resolved)'
        => (IssuedEarned /\ \A r \in Requests : Flow(r) /\ Fresh(r))'
    <2> SUFFICES ASSUME IInv, [Next]_vars
                 PROVE  IssuedEarned' /\ \A r \in Requests : Flow(r)' /\ Fresh(r)'
      OBVIOUS
    <2>1. CASE Administer
      BY <2>1, AdministerKeeps
    <2>2. ASSUME NEW r \in Requests, Moves(r)
          PROVE  IssuedEarned' /\ \A q \in Requests : Flow(q)' /\ Fresh(q)'
      BY <2>2, MoveKeeps
    <2>3. CASE UNCHANGED vars
      BY <2>3 DEF IInv, IssuedEarned, Flow, Fresh, Wrong, Claimed, PassedBy, PastTarget,
         PastLimits, PastGates, PastKnowledge, PastOwner, DigestOf, vars, world, request
    <2>4. QED
      BY <2>1, <2>2, <2>3 DEF Next, Moves
  <1>3. QED
    BY <1>1, <1>2, TypesAndTargets, PTL DEF Spec, IInv

\* A standing policy's assertion relies on nothing that was wrong all the while.
THEOREM StandingPassFresh == Spec => []StandingPassIsFresh
  <1>1. IInv => StandingPassIsFresh
    <2> SUFFICES ASSUME IInv, NEW r \in Requests, PassedBy(r, "standing_policy")
                 PROVE  bad[r] \subseteq {"ownerKey", "decision"}
      BY DEF StandingPassIsFresh
    <2>1. Fresh(r) /\ PastTarget(r) /\ PastLimits(r) /\ PastGates(r) /\ PastKnowledge(r)
      BY DEF IInv, PastTarget, PastLimits, PastGates, PastKnowledge, PassedBy
    <2>2. bad[r] \subseteq Records \cup {"limits"}
      BY DEF IInv, TypeOK
    <2>3. QED
      BY <2>1, <2>2 DEF Fresh, PassedBy, Records, Gates, Dated
  <1>2. QED
    BY <1>1, Invariance, PTL

\* An owner exception's assertion likewise, and the decision it spends is its own.
THEOREM ExceptionPassFresh == Spec => []ExceptionPassIsFresh
  <1>1. IInv => ExceptionPassIsFresh
    <2> SUFFICES ASSUME IInv, NEW r \in Requests, PassedBy(r, "owner_exception")
                 PROVE  /\ bad[r] \cap {"resource", "ownerKey", "decision"} = {}
                        /\ BoundTo[decision[r]] = <<ActionOf[r], presented[r].target>>
      BY DEF ExceptionPassIsFresh
    <2>1. Flow(r) /\ Fresh(r) /\ PastTarget(r) /\ PastOwner(r) /\ op[r] = "assert"
      BY DEF IInv, PastTarget, PastOwner, PassedBy, Flow
    <2>2. resolved[r] = presented[r].target
      BY <2>1 DEF Flow, PassedBy
    <2>3. QED
      BY <2>1, <2>2 DEF Fresh, DigestOf
  <1>2. QED
    BY <1>1, Invariance, PTL

\* What passes is the action that was authorized, on the target it was authorized for.
THEOREM PassIsAuthorized == Spec => []PassIsTheAuthorizedAction
  <1>1. IInv => PassIsTheAuthorizedAction
    BY DEF IInv, PassIsTheAuthorizedAction, Flow, IssuedEarned
  <1>2. QED
    BY <1>1, Invariance, PTL

\* evaluate() authorizes on nothing that was wrong all the while it ran.
THEOREM EvaluationEarned == Spec => []EvaluationIsEarned
  <1>1. IInv => EvaluationIsEarned
    BY DEF IInv, EvaluationIsEarned, Fresh, PastTarget, PastLimits, PastGates,
           PastKnowledge, Gates
  <1>2. QED
    BY <1>1, Invariance, PTL

\* At the step on which a standing policy's assertion passes, its kill switch is off.
THEOREM KillSwitchLast == Spec => KillSwitchIsLast
  <1>1. IInv /\ [Next]_vars =>
          [\A r \in Requests :
             pc[r] # "passed" /\ PassedBy(r, "standing_policy")' => "standing" \in inForce]_vars
    <2> SUFFICES ASSUME IInv, [Next]_vars, NEW r \in Requests,
                        pc[r] # "passed", PassedBy(r, "standing_policy")'
                 PROVE  "standing" \in inForce
      OBVIOUS
    <2>1. PICK q \in Requests : Moves(q)
      BY DEF Next, Moves, Administer, vars, PassedBy
    <2>2. q = r
      BY <2>1, StepOfOne DEF IInv, Own, PassedBy
    <2>3. Flow(r) /\ pc'[r] = "passed" /\ presented'[r].mechanism = "standing_policy"
      BY DEF IInv, PassedBy
    <2>4. CASE Revalidate(r)
      BY <2>4, <2>3 DEF Revalidate, Goto, IInv, TypeOK
    <2>5. CASE ConsumeDecision(r)
      BY <2>5, <2>3 DEF ConsumeDecision, Flow, Reads, request
    <2>6. ASSUME NEW operation, NEW d, NEW a, NEW step \in {"preparing", "matching", "refused"},
                 Begin(r, operation, d, a, step)
          PROVE  FALSE
      BY <2>3, <2>6 DEF Begin, Goto, IInv, TypeOK
    <2>7. CASE ReadGate(r)
      BY <2>3, <2>7 DEF ReadGate, Goto, IInv, TypeOK, Gates
    <2>8. CASE MatchAuthorization(r) \/ Prepare(r) \/ ReadLimits(r)
      BY <2>3, <2>8 DEF MatchAuthorization, Prepare, ReadLimits, Goto, IInv, TypeOK
    <2>9. CASE ReadKnowledge(r) \/ VerifyOwner(r)
      BY <2>3, <2>9 DEF ReadKnowledge, VerifyOwner, Issue, Goto, IInv, TypeOK
    <2>10. QED
      BY <2>1, <2>2, <2>4, <2>5, <2>6, <2>7, <2>8, <2>9
      DEF Moves, Evaluate, AuthorizeOwnerException, AssertExecutable
  <1>2. QED
    BY <1>1, Invariance, PTL DEF Spec, KillSwitchIsLast

(***************************************************************************)
(* Owner decisions: the row of a decision names the one assertion that      *)
(* spent it.                                                                *)
(***************************************************************************)

Spent ==
  /\ \A r \in Requests : PassedBy(r, "owner_exception") => consumed[decision[r]] = r
  /\ \A d \in Decisions : consumed[d] # Nothing =>
       /\ pc[consumed[d]] \in {"passed", "refused"}
       /\ bad[consumed[d]] \cap {"resource", "ownerKey", "decision"} = {}

\* No step but a consumption passes an owner exception's assertion or files a decision.
LEMMA OnlyConsumptionPasses ==
  ASSUME IInv, NEW r \in Requests, Moves(r), ~ConsumeDecision(r)
  PROVE  /\ pc[r] \notin {"passed", "refused"} /\ UNCHANGED consumed
         /\ ~PassedBy(r, "owner_exception")'
  <1>1. ASSUME NEW operation, NEW d, NEW a, NEW step \in {"preparing", "matching", "refused"},
               Begin(r, operation, d, a, step)
        PROVE  pc[r] = "idle" /\ UNCHANGED consumed /\ pc'[r] # "passed"
    BY <1>1 DEF Begin, Goto, IInv, TypeOK
  <1>2. CASE Evaluate(r) \/ AuthorizeOwnerException(r) \/ AssertExecutable(r)
    BY <1>1, <1>2 DEF Evaluate, AuthorizeOwnerException, AssertExecutable, PassedBy
  <1>3. CASE MatchAuthorization(r) \/ Prepare(r) \/ ReadLimits(r)
    BY <1>3 DEF MatchAuthorization, Prepare, ReadLimits, Goto, IInv, TypeOK, PassedBy
  <1>4. CASE ReadGate(r)
    BY <1>4 DEF ReadGate, Goto, IInv, TypeOK, Gates, PassedBy
  <1>5. CASE ReadKnowledge(r) \/ VerifyOwner(r)
    BY <1>5 DEF ReadKnowledge, VerifyOwner, Issue, Goto, IInv, TypeOK, PassedBy
  <1>6. CASE Revalidate(r)
    <2>1. presented'[r].mechanism = "standing_policy"
      BY <1>6 DEF Revalidate, IInv, Flow, StandingSteps, request
    <2>2. QED
      BY <1>6, <2>1 DEF Revalidate, PassedBy
  <1>7. QED
    BY <1>2, <1>3, <1>4, <1>5, <1>6 DEF Moves

\* Every step but a consumption leaves the rows, and the requests that have ended.
LEMMA SpentKept ==
  ASSUME IInv, Spent, NEW r \in Requests, Moves(r), ~ConsumeDecision(r)
  PROVE  Spent'
  <1>1. pc[r] \notin {"passed", "refused"} /\ UNCHANGED consumed
        /\ ~PassedBy(r, "owner_exception")'
    BY OnlyConsumptionPasses
  <1>2. \A q \in Requests \ {r} : UNCHANGED Own(q)
    BY StepOfOne DEF IInv
  <1>3. \A q \in Requests : PassedBy(q, "owner_exception")' => consumed'[decision'[q]] = q
    BY <1>1, <1>2 DEF Spent, Own, PassedBy
  <1>4. ASSUME NEW d \in Decisions, consumed'[d] # Nothing
        PROVE  /\ pc'[consumed'[d]] \in {"passed", "refused"}
               /\ bad'[consumed'[d]] \cap {"resource", "ownerKey", "decision"} = {}
    <2>1. consumed[d] \in Requests \ {r}
      BY <1>1, <1>4 DEF Spent, IInv, TypeOK
    <2>2. QED
      BY <1>1, <1>2, <1>4, <2>1 DEF Spent, Own
  <1>5. QED
    BY <1>3, <1>4 DEF Spent

\* A consumption files the decision under its own, only assertion.
LEMMA SpentOnce ==
  ASSUME IInv, Spent, NEW r \in Requests, ConsumeDecision(r)
  PROVE  Spent'
  <1>1. /\ pc[r] = "consuming" /\ pc'[r] \in {"passed", "refused"}
        /\ decision' = decision /\ presented' = presented /\ bad' = bad
    BY DEF ConsumeDecision, Goto, IInv, TypeOK, request
  <1>2. bad[r] \cap {"resource", "ownerKey", "decision"} = {}
    BY <1>1 DEF IInv, Fresh, PastTarget, PastOwner, Reads
  <1>3. decision[r] \in Decisions
    <2>1. /\ presented[r] \in issued /\ decision[r] = presented[r].decision
          /\ presented[r].mechanism = "owner_exception"
      BY <1>1 DEF IInv, Flow, Reads
    <2>2. QED
      BY <2>1 DEF IInv, IssuedEarned
  <1>4. \A q \in Requests \ {r} : pc'[q] = pc[q]
    BY DEF ConsumeDecision, Goto, IInv, TypeOK
  <1>5. CASE consumed' = consumed /\ pc'[r] = "refused"
    BY <1>1, <1>4, <1>5 DEF Spent, PassedBy, IInv, TypeOK
  <1>6. CASE consumed[decision[r]] = Nothing /\ consumed' = [consumed EXCEPT ![decision[r]] = r]
    <2>1. /\ consumed'[decision[r]] = r
          /\ \A d \in Decisions \ {decision[r]} : consumed'[d] = consumed[d]
      BY <1>3, <1>6 DEF IInv, TypeOK
    <2>2. \A d \in Decisions : consumed[d] # r
      BY <1>1, NothingAssumption DEF Spent
    <2>3. ASSUME NEW q \in Requests, PassedBy(q, "owner_exception")'
          PROVE  consumed'[decision[q]] = q
      <3>1. CASE q = r
        BY <2>1, <3>1
      <3>2. CASE q # r
        <4>1. PassedBy(q, "owner_exception")
          BY <1>1, <1>4, <2>3, <3>2 DEF PassedBy
        <4>2. consumed[decision[q]] = q /\ decision[q] # decision[r]
          BY <1>6, <4>1, NothingAssumption DEF Spent
        <4>3. QED
          BY <1>6, <4>2 DEF IInv, TypeOK
      <3>3. QED
        BY <3>1, <3>2
    <2>4. ASSUME NEW d \in Decisions, consumed'[d] # Nothing
          PROVE  /\ pc'[consumed'[d]] \in {"passed", "refused"}
                 /\ bad'[consumed'[d]] \cap {"resource", "ownerKey", "decision"} = {}
      <3>1. CASE d = decision[r]
        BY <1>1, <1>2, <2>1, <3>1
      <3>2. CASE d # decision[r]
        BY <1>1, <1>4, <2>1, <2>2, <2>4, <3>2 DEF Spent, IInv, TypeOK
      <3>3. QED
        BY <3>1, <3>2
    <2>5. QED
      BY <1>1, <2>3, <2>4 DEF Spent
  <1>7. QED
    BY <1>5, <1>6, <1>1 DEF ConsumeDecision, Goto, IInv, TypeOK

\* The rows of the decisions are right in every state.
LEMMA SpentInvariant == Spec => []Spent
  <1>1. Init => Spent
    BY DEF Init, Spent, PassedBy
  <1>2. IInv /\ Spent /\ [Next]_vars => Spent'
    <2> SUFFICES ASSUME IInv, Spent, [Next]_vars PROVE Spent'
      OBVIOUS
    <2>1. CASE Administer
      <3>1. /\ UNCHANGED <<consumed, pc, decision, presented>>
            /\ \A q \in Requests : bad'[q] \subseteq bad[q]
        BY <2>1 DEF Administer, request
      <3>2. \A d \in Decisions : consumed[d] \in Requests \cup {Nothing}
        BY DEF IInv, TypeOK
      <3>3. QED
        BY <3>1, <3>2 DEF Spent, PassedBy
    <2>2. CASE UNCHANGED vars
      BY <2>2 DEF Spent, PassedBy, vars, request
    <2>3. QED
      BY <2>1, <2>2, SpentKept, SpentOnce DEF Next, Moves
  <1>3. QED
    BY <1>1, <1>2, Invariance, PTL DEF Spec

\* One owner decision passes one assertion, through however many authorizations of it.
THEOREM DecisionOnce == Spec => []DecisionPassesOnce
  <1>1. Spent => DecisionPassesOnce
    BY DEF Spent, DecisionPassesOnce
  <1>2. QED
    BY <1>1, SpentInvariant, PTL

\* The gateway implements single-use decisions: the step that passes an owner exception is
\* the use of its decision, no other step is one, and no step undoes it.
THEOREM DecisionsAreTokens == Spec => ImplementsOneUse
  <1> DEFINE Passed == {q \in Requests : PassedBy(q, "owner_exception")}
  <1>1. Init => Promise!Init
    BY DEF Init, Promise!Init, Uses, PassedBy
  <1>2. IInv /\ Spent /\ [Next]_vars => [Promise!Next]_Uses
    <2> SUFFICES ASSUME IInv, Spent, [Next]_vars PROVE [Promise!Next]_Uses
      OBVIOUS
    <2>1. ASSUME NEW r \in Requests, Moves(r), ~PassedBy(r, "owner_exception"),
                 ~PassedBy(r, "owner_exception")'
          PROVE  UNCHANGED Uses
      <3>1. \A q \in Requests \ {r} : UNCHANGED Own(q)
        BY <2>1, StepOfOne DEF IInv
      <3>2. Passed' = Passed /\ \A q \in Passed : decision'[q] = decision[q]
        BY <2>1, <3>1 DEF Own, PassedBy
      <3>3. QED
        BY <3>2 DEF Uses
    <2>2. ASSUME NEW r \in Requests, ConsumeDecision(r), PassedBy(r, "owner_exception")'
          PROVE  Promise!Use(decision[r], r) /\ decision[r] \in Decisions
      <3>1. /\ pc[r] = "consuming" /\ consumed[decision[r]] = Nothing
            /\ decision' = decision /\ presented' = presented
        BY <2>2 DEF ConsumeDecision, PassedBy, Goto, IInv, TypeOK, request
      <3>2. decision[r] \in Decisions
        BY <3>1 DEF IInv, Flow, IssuedEarned, Reads
      <3>3. \A q \in Requests \ {r} : UNCHANGED Own(q)
        BY <2>2, StepOfOne DEF IInv, Moves
      <3>4. Passed' = Passed \cup {r}
        BY <2>2, <3>3 DEF Own, PassedBy
      <3>5. Uses' = Uses \cup {<<decision[r], r>>}
        BY <3>1, <3>4 DEF Uses
      <3>6. \A use \in Uses : use[1] # decision[r]
        <4> SUFFICES ASSUME NEW q \in Passed, decision[q] = decision[r] PROVE FALSE
          BY DEF Uses
        <4>1. consumed[decision[r]] = q
          BY DEF Spent
        <4>2. QED
          BY <3>1, <4>1, NothingAssumption
      <3>7. QED
        BY <3>2, <3>5, <3>6 DEF Promise!Use
    <2>3. CASE Administer \/ UNCHANGED vars
      BY <2>3 DEF Administer, vars, request, Uses, PassedBy
    <2>4. ASSUME NEW r \in Requests, Moves(r) PROVE [Promise!Next]_Uses
      <3>1. CASE ConsumeDecision(r)
        <4>1. ~PassedBy(r, "owner_exception")
          BY <3>1 DEF ConsumeDecision, PassedBy
        <4>2. QED
          BY <2>1, <2>2, <2>4, <4>1, <3>1 DEF Promise!Next
      <3>2. CASE ~ConsumeDecision(r)
        BY <2>1, <2>4, <3>2, OnlyConsumptionPasses DEF PassedBy
      <3>3. QED
        BY <3>1, <3>2
    <2>5. QED
      BY <2>3, <2>4 DEF Next, Moves
  <1>3. QED
    BY <1>1, <1>2, Invariance, SpentInvariant, PTL DEF Spec, ImplementsOneUse, Promise!Spec

\* A decision is spent only at the end of an assertion whose other checks had passed.
LEMMA SpendingEarned == Spec => []SpendingIsEarned
  <1>1. Spent => SpendingIsEarned
    BY DEF Spent, SpendingIsEarned
  <1>2. QED
    BY <1>1, SpentInvariant, PTL

\* No operation of the gateway relies on what was out of force from its first step to its last.
THEOREM RelianceFresh == Spec => []RelianceIsFresh
  BY StandingPassFresh, ExceptionPassFresh, EvaluationEarned, SpendingEarned, PTL
  DEF RelianceIsFresh
================================================================================
