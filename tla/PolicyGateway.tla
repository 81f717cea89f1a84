------------------------------ MODULE PolicyGateway ------------------------------
(***************************************************************************)
(* PolicyGateway (src/policy-gateway.js) over the D1 authority tables: the   *)
(* operations evaluate, authorizeOwnerException and assertExecutable of one  *)
(* gateway, run by several requests.  Every operation is a sequence of       *)
(* awaited reads, one step each; an administrator changes the tables         *)
(* between any two of them, so no operation reads a snapshot.                *)
(*                                                                         *)
(* A read is refused whenever its record is not in force and may be refused  *)
(* when it is (the query failed, the record is malformed or ambiguous).      *)
(* The windows of an owner decision and of the standing-state row are judged *)
(* at the `now` the request captured, every other one when it is read.       *)
(* An action digest is the pair of an action and the target it resolved to.  *)
(***************************************************************************)
EXTENDS Integers, FiniteSets

CONSTANTS
  Requests,      \* each runs one operation
  Actions,       \* requested actions, as they are digested: without their evidence
  Targets,       \* what a locator may resolve to
  Decisions,     \* signed owner decisions
  ActionOf,      \* the action each request passes
  BoundTo,       \* the action digest each decision approves
  Covered,       \* <<action, target>>: one policy matches, nothing is owner-only
  Ambiguous,     \* <<action, target>>: more than one policy matches
  Nothing,       \* no decision, no authorization, no target
  MaxChanges     \* bound: changes of the authority tables

\* What the gateway hands out; an object of its own for each request that earned it.
Authorization ==
  [mechanism: {"standing_policy", "owner_exception"}, action: Actions, target: Targets,
   decision: Decisions \cup {Nothing}, by: Requests]

ASSUME CoverAssumption ==
  /\ Covered \subseteq Actions \X Targets
  /\ Ambiguous \subseteq (Actions \X Targets) \ Covered
ASSUME InputAssumption ==
  /\ ActionOf \in [Requests -> Actions]
  /\ BoundTo \in [Decisions -> Actions \X Targets]
ASSUME NothingAssumption ==
  Nothing \notin Requests \cup Decisions \cup Targets \cup Authorization
ASSUME ChangesAssumption == MaxChanges \in Nat

\* What an operation relies on, the limits apart: records of the tables, each enabled,
\* intact and current or not, the evidence passed with an action among them.  "standing"
\* is the kill switch and state of the standing-state row.
Gates == {"maker", "checker", "tests", "rollback"}
Dated == {"decision", "window"}   \* an owner decision, the standing-state row's window
Records == Gates \cup Dated \cup {"resource", "knowledge", "standing", "ownerKey"}

VARIABLES
  inForce,     \* the records that are enabled, current and intact
  limits,      \* what authority_limits says of the action
  target,      \* what authority_resources says the locator is
  changes,     \* how often the tables changed
  op,          \* the operation of each request
  pc,          \* where each request is
  presented,   \* the authorization an assertExecutable was given
  decision,    \* the decision an authorizeOwnerException was given
  timely,      \* which of Dated were current at the `now` the request captured
  resolved,    \* the target a request resolved last
  unmet,       \* did one of its gates fail?
  issued,      \* the authorizations in the gateway's WeakMap
  consumed,    \* decision -> the request whose consume() inserted its row
  bad          \* history: what has been out of force ever since a request began

world == <<inForce, limits, target, changes>>
request == <<op, presented, decision, timely>>
vars == <<world, request, pc, resolved, unmet, issued, consumed, bad>>

--------------------------------------------------------------------------------
(* Types *)

Reads == {"matching", "preparing", "limiting", "knowledge", "revalidating",
          "verifyingOwner", "consuming"} \cup Gates
Steps == {"idle", "authorized", "passed", "refused"} \cup Reads

TypeOK ==
  /\ inForce \subseteq Records
  /\ limits \in {"none", "within", "over"}
  /\ target \in Targets
  /\ changes \in 0 .. MaxChanges
  /\ op \in [Requests -> {"none", "evaluate", "authorize", "assert"}]
  /\ pc \in [Requests -> Steps]
  /\ presented \in [Requests -> Authorization \cup {Nothing}]
  /\ decision \in [Requests -> Decisions \cup {Nothing}]
  /\ timely \in [Requests -> SUBSET Dated]
  /\ resolved \in [Requests -> Targets \cup {Nothing}]
  /\ unmet \in [Requests -> BOOLEAN]
  /\ issued \subseteq Authorization
  /\ consumed \in [Decisions -> Requests \cup {Nothing}]
  /\ bad \in [Requests -> SUBSET (Records \cup {"limits"})]

Init ==
  /\ inForce = Records
  /\ limits \in {"within", "over"}
  /\ target \in Targets
  /\ changes = 0
  /\ op = [r \in Requests |-> "none"]
  /\ pc = [r \in Requests |-> "idle"]
  /\ presented = [r \in Requests |-> Nothing]
  /\ decision = [r \in Requests |-> Nothing]
  /\ timely = [r \in Requests |-> {}]
  /\ resolved = [r \in Requests |-> Nothing]
  /\ unmet = [r \in Requests |-> FALSE]
  /\ issued = {}
  /\ consumed = [d \in Decisions |-> Nothing]
  /\ bad = [r \in Requests |-> {}]

--------------------------------------------------------------------------------
(* The authority tables *)

\* What is wrong now, for a request whose authorization, if any, names target t.
Wrong(t) ==
  (Records \ inForce)
    \cup {x \in {"limits"} : limits # "within"}
    \cup {x \in {"resource"} : t # Nothing /\ t # target}

Claimed(r) == IF presented[r] = Nothing THEN Nothing ELSE presented[r].target

\* A record is disabled, expires or is enabled again; a resource or a limit row is
\* replaced.  A window only ends.
Administer ==
  /\ changes < MaxChanges
  /\ changes' = changes + 1
  /\ \/ /\ \E x \in inForce : inForce' = inForce \ {x}
        /\ UNCHANGED <<limits, target>>
     \/ /\ \E x \in Records \ (inForce \cup Dated) : inForce' = inForce \cup {x}
        /\ UNCHANGED <<limits, target>>
     \/ /\ limits' \in {"none", "within", "over"} \ {limits}
        /\ UNCHANGED <<inForce, target>>
     \/ /\ target' \in Targets \ {target}
        /\ UNCHANGED <<inForce, limits>>
  /\ UNCHANGED <<request, pc, resolved, unmet, issued, consumed>>
  /\ bad' = [r \in Requests |-> bad[r] \cap Wrong(Claimed(r))']

--------------------------------------------------------------------------------
(* What a read finds.  Each is one indexed query for exactly one active row, whose  *)
(* digest and bindings are checked; every one of those checks is "in force".        *)

\* resourceResolver.resolve(): the locator's one active, intact row.
ResourceResolves == "resource" \in inForce

\* limitProvider.resolve(): the one active limit row of the resource and operation.
LimitsResolve == limits # "none"

\* The identity, test-evidence and rollback readers: a record bound to this digest.
GateMet(gate) == gate \in inForce

\* readGoverningKnowledge(): a current, intact snapshot bound to this digest.
KnowledgeGoverns == "knowledge" \in inForce

\* ownerVerifier.verify(): the key is in force, and the signed decision is for this
\* digest and current at the captured `now`.
OwnerVerified(r, digest) ==
  /\ "ownerKey" \in inForce
  /\ BoundTo[decision[r]] = digest
  /\ "decision" \in timely[r]

\* revalidateStandingState(): the policy's row is enabled and its kill switch off, in a
\* row that was current at the captured `now`.
StandingStateHolds(r) == "standing" \in inForce /\ "window" \in timely[r]

--------------------------------------------------------------------------------
(* Operations *)

Goto(r, step) == pc' = [pc EXCEPT ![r] = step]

Begin(r, operation, d, a, step) ==
  /\ pc[r] = "idle"
  /\ op' = [op EXCEPT ![r] = operation]
  /\ decision' = [decision EXCEPT ![r] = d]
  /\ presented' = [presented EXCEPT ![r] = a]
  /\ timely' = [timely EXCEPT ![r] = Dated \cap inForce]
  /\ bad' = [bad EXCEPT ![r] = Wrong(IF a = Nothing THEN Nothing ELSE a.target)]
  /\ Goto(r, step)
  /\ UNCHANGED <<world, resolved, unmet, issued, consumed>>

Evaluate(r) == Begin(r, "evaluate", Nothing, Nothing, "preparing")

AuthorizeOwnerException(r) ==
  \E d \in Decisions : Begin(r, "authorize", d, Nothing, "preparing")

\* assertExecutable() refuses at once what this gateway did not issue.
AssertExecutable(r) ==
  \/ Begin(r, "assert", Nothing, Nothing, "refused")
  \/ \E a \in issued : Begin(r, "assert", a.decision, a, "matching")

DigestOf(r) == <<ActionOf[r], resolved[r]>>

\* The first check of assertExecutable(): resolve and compare the digests.
MatchAuthorization(r) ==
  /\ pc[r] = "matching"
  /\ \/ Goto(r, "refused") /\ UNCHANGED resolved
     \/ /\ ResourceResolves
        /\ resolved' = [resolved EXCEPT ![r] = target]
        /\ ActionOf[r] = presented[r].action /\ target = presented[r].target
        /\ Goto(r, IF presented[r].mechanism = "standing_policy"
                   THEN "preparing" ELSE "verifyingOwner")
  /\ UNCHANGED <<world, request, unmet, issued, consumed, bad>>

\* #prepare() up to the limits: resolve, digest, and select a unique policy.
Prepare(r) ==
  /\ pc[r] = "preparing"
  /\ \/ Goto(r, "refused") /\ UNCHANGED resolved
     \/ /\ ResourceResolves
        /\ resolved' = [resolved EXCEPT ![r] = target]
        /\ Goto(r, IF <<ActionOf[r], target>> \in Ambiguous THEN "refused" ELSE "limiting")
  /\ UNCHANGED <<world, request, unmet, issued, consumed, bad>>

\* No mandatory reason, one policy, and no limit of it exceeded.
StandingApplies(r) == DigestOf(r) \in Covered /\ limits = "within"

\* #trustedLimits() and what follows from the limits: evaluate() goes on only under
\* a standing policy, authorizeOwnerException() only where none applies and with an
\* approved, current decision for this digest.
ReadLimits(r) ==
  /\ pc[r] = "limiting"
  /\ \/ Goto(r, "refused")
     \/ /\ LimitsResolve /\ op[r] \in {"evaluate", "assert"}
        /\ StandingApplies(r)
        /\ Goto(r, "maker")
     \/ /\ LimitsResolve /\ op[r] = "authorize"
        /\ ~StandingApplies(r)
        /\ BoundTo[decision[r]] = DigestOf(r) /\ "decision" \in timely[r]
        /\ Goto(r, "verifyingOwner")
  /\ UNCHANGED <<world, request, resolved, unmet, issued, consumed, bad>>

\* Mutant: a gate that fails is not remembered once a later one is met.
ReadGate_Forgetful(r) ==
  /\ pc[r] \in Gates
  /\ \/ GateMet(pc[r]) /\ unmet' = [unmet EXCEPT ![r] = FALSE]
     \/ unmet' = [unmet EXCEPT ![r] = TRUE]
  /\ Goto(r, CASE pc[r] = "maker" -> IF unmet'[r] THEN "tests" ELSE "checker"
               [] pc[r] = "checker" -> "tests"
               [] pc[r] = "tests" -> "rollback"
               [] pc[r] = "rollback" -> IF unmet'[r] THEN "refused" ELSE "knowledge")
  /\ UNCHANGED <<world, request, resolved, issued, consumed, bad>>

\* #trustedGates(): maker, checker, tests, rollback.  A gate that fails is noted and
\* the next one is read; an exception of the maker's skips the checker.
ReadGate(r) ==
  /\ pc[r] \in Gates
  /\ \/ GateMet(pc[r]) /\ UNCHANGED unmet
     \/ unmet' = [unmet EXCEPT ![r] = TRUE]
  /\ Goto(r, CASE pc[r] = "maker" -> IF unmet'[r] THEN "tests" ELSE "checker"
               [] pc[r] = "checker" -> "tests"
               [] pc[r] = "tests" -> "rollback"
               [] pc[r] = "rollback" -> IF unmet'[r] THEN "refused" ELSE "knowledge")
  /\ UNCHANGED <<world, request, resolved, issued, consumed, bad>>

\* The gateway issues an authorization for the digest it has computed.
Issue(r, mechanism) ==
  /\ issued' = issued \cup
       {[mechanism |-> mechanism, action |-> ActionOf[r], target |-> resolved[r],
         decision |-> decision[r], by |-> r]}
  /\ Goto(r, "authorized")

\* Mutant: the re-evaluation's own digest is not compared with the authorization's.
ReadKnowledge_NoDigest(r) ==
  /\ pc[r] = "knowledge"
  /\ \/ Goto(r, "refused") /\ UNCHANGED issued
     \/ KnowledgeGoverns /\ op[r] = "evaluate" /\ Issue(r, "standing_policy")
     \/ /\ KnowledgeGoverns /\ op[r] = "assert"
        /\ Goto(r, "revalidating")
        /\ UNCHANGED issued
  /\ UNCHANGED <<world, request, resolved, unmet, consumed, bad>>

\* The end of evaluate(): Project Knowledge; then the authorization, or in an
\* assertion the comparison of the fresh digest with the authorization's.
ReadKnowledge(r) ==
  /\ pc[r] = "knowledge"
  /\ \/ Goto(r, "refused") /\ UNCHANGED issued
     \/ KnowledgeGoverns /\ op[r] = "evaluate" /\ Issue(r, "standing_policy")
     \/ /\ KnowledgeGoverns /\ op[r] = "assert"
        /\ resolved[r] = presented[r].target
        /\ Goto(r, "revalidating")
        /\ UNCHANGED issued
  /\ UNCHANGED <<world, request, resolved, unmet, consumed, bad>>

\* Mutant: the kill switch is looked up as it was when the assertion began.
Revalidate_Stale(r) ==
  /\ pc[r] = "revalidating"
  /\ \/ Goto(r, "refused")
     \/ "standing" \notin bad[r] /\ "window" \in timely[r] /\ Goto(r, "passed")
  /\ UNCHANGED <<world, request, resolved, unmet, issued, consumed, bad>>

\* The last check of an assertion under a standing policy.
Revalidate(r) ==
  /\ pc[r] = "revalidating"
  /\ \/ Goto(r, "refused")
     \/ StandingStateHolds(r) /\ Goto(r, "passed")
  /\ UNCHANGED <<world, request, resolved, unmet, issued, consumed, bad>>

\* The owner's signature: the end of authorizeOwnerException(), and in an assertion
\* what comes before its decision is spent.
VerifyOwner(r) ==
  /\ pc[r] = "verifyingOwner"
  /\ \/ Goto(r, "refused") /\ UNCHANGED issued
     \/ /\ OwnerVerified(r, DigestOf(r))
        /\ \/ op[r] = "authorize" /\ Issue(r, "owner_exception")
           \/ op[r] = "assert" /\ Goto(r, "consuming") /\ UNCHANGED issued
  /\ UNCHANGED <<world, request, resolved, unmet, consumed, bad>>

\* Mutant: an insert that conflicts is taken for a success.
ConsumeDecision_Again(r) ==
  /\ pc[r] = "consuming"
  /\ \/ Goto(r, "refused") /\ UNCHANGED consumed
     \/ /\ consumed' = [consumed EXCEPT ![decision[r]] = r]
        /\ Goto(r, "passed")
  /\ UNCHANGED <<world, request, resolved, unmet, issued, bad>>

\* Mutant: the row is filed under the decision instead of its consumer.
ConsumeDecision_Misfiled(r) ==
  /\ pc[r] = "consuming"
  /\ \/ Goto(r, "refused") /\ UNCHANGED consumed
     \/ /\ consumed[decision[r]] = Nothing
        /\ consumed' = [consumed EXCEPT ![decision[r]] = decision[r]]
        /\ Goto(r, "passed") \/ Goto(r, "refused")
  /\ UNCHANGED <<world, request, resolved, unmet, issued, bad>>

\* ownerDecisionStore.consume(): replayed, failed, or recorded with or without a reply.
ConsumeDecision(r) ==
  /\ pc[r] = "consuming"
  /\ \/ Goto(r, "refused") /\ UNCHANGED consumed
     \/ /\ consumed[decision[r]] = Nothing
        /\ consumed' = [consumed EXCEPT ![decision[r]] = r]
        /\ Goto(r, "passed") \/ Goto(r, "refused")
  /\ UNCHANGED <<world, request, resolved, unmet, issued, bad>>

Next ==
  \/ Administer
  \/ \E r \in Requests :
       \/ Evaluate(r) \/ AuthorizeOwnerException(r) \/ AssertExecutable(r)
       \/ MatchAuthorization(r) \/ Prepare(r) \/ ReadLimits(r) \/ ReadGate(r)
       \/ ReadKnowledge(r) \/ Revalidate(r) \/ VerifyOwner(r) \/ ConsumeDecision(r)

Spec == Init /\ [][Next]_vars

--------------------------------------------------------------------------------
(* Properties *)

PassedBy(r, mechanism) == pc[r] = "passed" /\ presented[r].mechanism = mechanism

\* A standing policy's assertion relies on no record, limit or target that was wrong
\* all the while it ran: a withdrawal before it began is never missed, whatever the
\* evaluation that issued the authorization had seen.
StandingPassIsFresh ==
  \A r \in Requests : PassedBy(r, "standing_policy") =>
    bad[r] \subseteq {"ownerKey", "decision"}

\* An owner exception's assertion likewise for its target, its key and its decision,
\* and the decision it spends is its own.
ExceptionPassIsFresh ==
  \A r \in Requests : PassedBy(r, "owner_exception") =>
    /\ bad[r] \cap {"resource", "ownerKey", "decision"} = {}
    /\ BoundTo[decision[r]] = <<ActionOf[r], presented[r].target>>

\* What passes is the action that was authorized on the target it was authorized
\* for, and its authorization was earned by an operation of this gateway.
PassIsTheAuthorizedAction ==
  \A r \in Requests : pc[r] = "passed" =>
    /\ presented[r].action = ActionOf[r]
    /\ resolved[r] = presented[r].target
    /\ pc[presented[r].by] = "authorized"
    /\ ActionOf[presented[r].by] = ActionOf[r]

\* evaluate() authorizes on nothing that was wrong all the while it ran.
EvaluationIsEarned ==
  \A r \in Requests : pc[r] = "authorized" /\ op[r] = "evaluate" =>
    bad[r] \cap (Gates \cup {"resource", "knowledge", "limits"}) = {}

\* A decision is spent only by an assertion that has ended and whose other checks had
\* all passed on what was in force: a refusal before them leaves it to be used.
SpendingIsEarned ==
  \A d \in Decisions : consumed[d] # Nothing =>
    /\ pc[consumed[d]] \in {"passed", "refused"}
    /\ bad[consumed[d]] \cap {"resource", "ownerKey", "decision"} = {}

\* What an operation concludes relies on nothing that was out of force all the while it ran:
\* no withdrawal made before it began is missed, however its reads interleave with changes.
RelianceIsFresh ==
  StandingPassIsFresh /\ ExceptionPassIsFresh /\ EvaluationIsEarned /\ SpendingIsEarned

\* One owner decision passes one assertion, through however many authorizations.
DecisionPassesOnce ==
  \A q, r \in Requests :
    /\ PassedBy(q, "owner_exception") /\ PassedBy(r, "owner_exception")
    /\ decision[q] = decision[r]
    => q = r

\* The promise of an owner's decision: it is a token for one passed assertion, used by
\* that assertion for good.
Uses == {<<decision[r], r>> : r \in {q \in Requests : PassedBy(q, "owner_exception")}}
Promise == INSTANCE OneUse WITH
  Tokens <- Decisions, Users <- Requests, used <- Uses

\* The gateway keeps that promise, whatever else its reads interleave with.
ImplementsOneUse == Promise!Spec

\* The kill switch is read last: at the step on which an assertion passes under a
\* standing policy, it is off.
KillSwitchIsLast ==
  [][ \A r \in Requests :
        pc[r] # "passed" /\ PassedBy(r, "standing_policy")' => "standing" \in inForce ]_vars

--------------------------------------------------------------------------------
(* A statement of the repository that the code does not keep *)

\* docs/policy-gateway.md:19 "Immediately before an effect, repeat resolution,
\* evidence, policy, Project Knowledge, ... checks": no assertion passes on governing
\* knowledge that was unavailable all the while it ran.
EveryPassReadsKnowledge ==
  \A r \in Requests : pc[r] = "passed" => "knowledge" \notin bad[r]
================================================================================
