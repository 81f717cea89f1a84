--------------------------- MODULE PullRequestsProofs ---------------------------
(***************************************************************************)
(* Theorems about PullRequests, for every value of its constants: any number *)
(* of commits, of gate jobs under way and of events.                         *)
(***************************************************************************)
EXTENDS PullRequests, TLAPS

USE BoundsAssumption DEF Heads

(***************************************************************************)
(* Type correctness.  That requests stay within their limit needs what the   *)
(* cycle has found out about them before it posts one.                      *)
(***************************************************************************)
TypeInv ==
  /\ TypeOK
  /\ phase \in {"label", "act"} /\ action = "request-review" =>
       requests[cycleHead] < MaxRequests
  /\ phase = "mark" => action \in Reasons

Run == [gate : {"none", "security", "review"}, sha : Heads, at : Heads \cup {0},
        files : Heads \cup {0}, ok : {"unknown", "success", "failure"},
        found : SUBSET {"stop", "otherStop", "accepted", "resolved"}]

LEMMA NoRunType == NoRun \in Run
  BY DEF NoRun, Run

LEMMA RunFields ==
  ASSUME NEW j \in Run, NEW h \in Heads, NEW g \in {"security", "review"}
  PROVE  /\ [NoRun EXCEPT !.gate = g, !.sha = h] \in Run
         /\ [j EXCEPT !.at = h] \in Run /\ [j EXCEPT !.files = h] \in Run
  BY DEF NoRun, Run

\* What speaks for a gate is one of four findings; a review counts only once it is known of
\* which commit.
LEMMA Favours ==
  ASSUME NEW j \in Run, NEW fact \in InFavour(j)
  PROVE  /\ fact \in {"stop", "otherStop", "accepted", "resolved"}
         /\ fact = "accepted" => j.gate = "review" /\ j.at # 0 /\ verdict[j.at] = "accepted"
  <1>1. CASE j.gate = "security"
    <2>1. fact \in WatchReads
      BY <1>1 DEF InFavour
    <2>2. QED
      BY <2>1 DEF WatchReads
  <1>2. CASE j.gate = "review" /\ j.at # 0
    <2>1. /\ fact \in {Answer("verdict", j.at), Answer("threads", j.at)}
          /\ fact \in {"accepted", "resolved"}
      BY <1>2 DEF InFavour
    <2>2. Answer("verdict", j.at) = verdict[j.at] /\ Answer("threads", j.at) # "accepted"
      BY DEF Answer
    <2>3. QED
      BY <1>2, <2>1, <2>2
  <1>3. CASE j.gate # "security" /\ ~(j.gate = "review" /\ j.at # 0)
    BY <1>3 DEF InFavour
  <1>4. QED
    BY <1>1, <1>2, <1>3

LEMMA Finds ==
  ASSUME NEW j \in Run, NEW fact \in InFavour(j)
  PROVE  LET k == [j EXCEPT !.found = @ \cup {fact}] IN
           /\ k \in Run /\ k.gate = j.gate /\ k.sha = j.sha /\ k.ok = j.ok
           /\ k.at = j.at /\ k.files = j.files /\ k.found = j.found \cup {fact}
  BY Favours DEF Run

LEMMA RunConcludes ==
  ASSUME NEW j \in Run, NEW s \in {"success", "failure"}
  PROVE  LET k == [NoRun EXCEPT !.gate = j.gate, !.sha = j.sha, !.ok = s] IN
           /\ k \in Run /\ k.gate = j.gate /\ k.sha = j.sha
           /\ k.at = 0 /\ k.files = 0 /\ k.ok = s /\ k.found = {}
  BY DEF NoRun, Run

\* What the step of a gate job makes of the job.
JobAfter(r, j) == run' = [run EXCEPT ![r] = j]

LEMMA GateSteps ==
  ASSUME TypeOK, NEW r \in Runs, Gate(r)
  PROVE  \E j \in Run :
           /\ JobAfter(r, j)
           /\ \/ /\ j.gate # "none" /\ j.sha = head /\ j.at = 0 /\ j.files = 0
                 /\ j.ok = "unknown" /\ j.found = {} /\ UNCHANGED gates
              \/ /\ j.gate = run[r].gate /\ j.sha = run[r].sha /\ j.ok = run[r].ok
                 /\ j.files \in {run[r].files, head} /\ UNCHANGED gates
                 /\ \/ j.found = run[r].found /\ j.at \in {run[r].at, head}
                          /\ (run[r].at # 0 => j.at = run[r].at)
                    \/ /\ j.at = run[r].at
                       /\ \E fact \in InFavour(run[r]) : j.found = run[r].found \cup {fact}
              \/ /\ j.gate = run[r].gate /\ j.sha = run[r].sha /\ j.at = 0 /\ j.files = 0
                 /\ j.found = {} /\ UNCHANGED gates
                 /\ \/ j.ok = "failure"
                    \/ /\ j.ok = "success" /\ run[r].gate = "security"
                       /\ run[r].at # 0 /\ run[r].files # 0 /\ SecurityGatePasses(run[r])
                    \/ /\ j.ok = "success" /\ run[r].gate = "review"
                       /\ run[r].at # 0 /\ ReviewGatePasses(run[r])
              \/ /\ j = NoRun /\ run[r].ok # "unknown"
                 /\ gates' = [gates EXCEPT ![run[r].gate][run[r].sha] = run[r].ok]
              \/ j = NoRun /\ UNCHANGED gates
  <1> run[r] \in Run
    BY DEF TypeOK, Run
  <1>1. CASE Resolve(r)
    <2>1. PICK g \in {"security", "review"} : JobAfter(r, [NoRun EXCEPT !.gate = g, !.sha = head])
      BY <1>1 DEF Resolve, JobAfter
    <2> DEFINE j == [NoRun EXCEPT !.gate = g, !.sha = head]
    <2>2. j \in Run
      BY RunFields DEF TypeOK
    <2>3. /\ j.gate # "none" /\ j.sha = head /\ j.at = 0 /\ j.files = 0
          /\ j.ok = "unknown" /\ j.found = {}
      BY DEF NoRun
    <2>4. QED
      BY <1>1, <2>1, <2>2, <2>3 DEF Resolve
  <1>2. CASE ReadPull(r)
    <2> DEFINE j == [run[r] EXCEPT !.at = head]
    <2>1. j \in Run /\ JobAfter(r, j)
      BY <1>2, RunFields DEF TypeOK, ReadPull, JobAfter
    <2>2. /\ j.gate = run[r].gate /\ j.sha = run[r].sha /\ j.ok = run[r].ok
          /\ j.at = head /\ j.files = run[r].files /\ j.found = run[r].found
      BY DEF Run
    <2>3. QED
      BY <1>2, <2>1, <2>2 DEF ReadPull
  <1>3. CASE ReadFiles(r)
    <2> DEFINE j == [run[r] EXCEPT !.files = head]
    <2>1. j \in Run /\ JobAfter(r, j)
      BY <1>3, RunFields DEF TypeOK, ReadFiles, JobAfter
    <2>2. /\ j.gate = run[r].gate /\ j.sha = run[r].sha /\ j.ok = run[r].ok
          /\ j.at = run[r].at /\ j.files = head /\ j.found = run[r].found
      BY DEF Run
    <2>3. QED
      BY <1>3, <2>1, <2>2 DEF ReadFiles
  <1>4. CASE Evaluate(r)
    <2> DEFINE j(s) == [NoRun EXCEPT !.gate = run[r].gate, !.sha = run[r].sha, !.ok = s]
    <2>1. \A s \in {"success", "failure"} :
            /\ j(s) \in Run /\ j(s).gate = run[r].gate /\ j(s).sha = run[r].sha
            /\ j(s).at = 0 /\ j(s).files = 0 /\ j(s).ok = s /\ j(s).found = {}
      BY RunConcludes
    <2>2. CASE Evaluates(r, "failure")
      BY <1>4, <2>1, <2>2 DEF Evaluate, Evaluates, JobAfter
    <2>3. CASE run[r].gate = "security" /\ Evaluates(r, "success") /\ ~Evaluates(r, "failure")
      BY <1>4, <2>1, <2>3 DEF Evaluate, Evaluates, JobAfter
    <2>4. CASE run[r].gate = "review" /\ Evaluates(r, "success") /\ ~Evaluates(r, "failure")
      BY <1>4, <2>1, <2>4 DEF Evaluate, Evaluates, JobAfter
    <2>5. QED
      BY <1>4, <2>2, <2>3, <2>4 DEF Evaluate
  <1>5. CASE Publish(r)
    BY <1>5, NoRunType DEF Publish, JobAfter
  <1>6. CASE JobDies(r)
    BY <1>6, NoRunType DEF JobDies, JobAfter
  <1>7. CASE ReadEvidence(r)
    <2>1. PICK fact \in InFavour(run[r]) : JobAfter(r, [run[r] EXCEPT !.found = @ \cup {fact}])
      BY <1>7 DEF ReadEvidence, JobAfter
    <2> DEFINE j == [run[r] EXCEPT !.found = @ \cup {fact}]
    <2>2. /\ j \in Run /\ j.gate = run[r].gate /\ j.sha = run[r].sha /\ j.ok = run[r].ok
          /\ j.at = run[r].at /\ j.files = run[r].files /\ j.found = run[r].found \cup {fact}
      BY Finds
    <2>3. UNCHANGED gates
      BY <1>7 DEF ReadEvidence
    <2> HIDE DEF j
    <2>4. QED
      BY <2>1, <2>2, <2>3 DEF j
  <1>8. QED
    BY <1>1, <1>2, <1>3, <1>4, <1>5, <1>6, <1>7 DEF Gate

LEMMA RememberType == ASSUME TypeOK, Remember PROVE held' \subseteq Facts
  BY DEF Remember, TypeOK

LEMMA GateType == ASSUME TypeInv, NEW r \in Runs, Gate(r) PROVE TypeInv'
  <1>1. PICK j \in Run :
          /\ JobAfter(r, j)
          /\ \/ UNCHANGED gates
             \/ /\ gates' = [gates EXCEPT ![run[r].gate][run[r].sha] = run[r].ok]
                /\ run[r].ok # "unknown"
    BY GateSteps DEF TypeInv
  <1>2. run' \in [Runs -> Run]
    BY <1>1 DEF JobAfter, TypeInv, TypeOK, Run
  <1>3. gates' \in [{"security", "review"} -> [Heads -> {"none", "success", "failure"}]]
    <2>1. run[r].sha \in Heads /\ run[r].ok \in {"unknown", "success", "failure"}
      BY DEF TypeInv, TypeOK
    <2> DEFINE g == run[r].gate
               h == run[r].sha
               ok == run[r].ok
    <2>2. CASE gates' = [gates EXCEPT ![g][h] = ok] /\ ok # "unknown"
      <3>1. ok \in {"success", "failure"} /\ h \in Heads
        BY <2>1, <2>2
      <3> HIDE DEF g, h, ok
      <3>2. QED
        BY <2>2, <3>1 DEF TypeInv, TypeOK
    <2>3. QED
      BY <1>1, <2>2 DEF TypeInv, TypeOK
  <1>4. events' \in Nat
    BY DEF Gate, Resolve, TypeInv, TypeOK
  <1>5. UNCHANGED <<source, stopping, cycle, written>>
    BY DEF Gate
  <1>6. held' \subseteq Facts
    BY RememberType DEF TypeInv, Gate
  <1>7. QED
    BY <1>2, <1>3, <1>4, <1>5, <1>6
    DEF TypeInv, TypeOK, Run, source, stopping, cycle, written

LEMMA SurroundingsType == ASSUME TypeInv, PullRequest \/ Stopping PROVE TypeInv'
  <1>1. CASE PullRequest
    <2>1. events' \in Nat
      BY <1>1 DEF PullRequest, TypeInv, TypeOK
    <2>2. UNCHANGED <<gates, stopping, run, cycle, written>> /\ held' \subseteq Facts
      BY <1>1, RememberType DEF PullRequest, TypeInv
    <2>3. CASE Push
      BY <2>1, <2>2, <2>3 DEF Push, TypeInv, TypeOK, stopping, cycle, written
    <2>4. CASE ChecksChange
      BY <2>1, <2>2, <2>4 DEF ChecksChange, TypeInv, TypeOK, stopping, cycle, written
    <2>5. CASE Review
      <3>1. PICK h \in 1 .. head, v \in Verdicts :
              /\ verdict' = [verdict EXCEPT ![h] = v]
              /\ cleared' = IF v = "accepted" THEN cleared \cup {h} ELSE cleared
        BY <2>5 DEF Review
      <3>2. h \in Heads
        BY DEF TypeInv, TypeOK
      <3>3. verdict' \in [Heads -> Verdicts] /\ cleared' \subseteq Heads
        BY <3>1, <3>2 DEF TypeInv, TypeOK
      <3>4. unresolved' \in BOOLEAN /\ UNCHANGED <<head, sensitive, disposed, ci>>
        BY <2>5 DEF Review, TypeInv, TypeOK
      <3>5. QED
        BY <2>1, <2>2, <3>3, <3>4 DEF TypeInv, TypeOK, stopping, cycle, written
    <2>6. CASE ResolveThreads
      BY <2>1, <2>2, <2>6 DEF ResolveThreads, TypeInv, TypeOK, stopping, cycle, written
    <2>7. CASE PostDisposition
      BY <2>1, <2>2, <2>7 DEF PostDisposition, TypeInv, TypeOK, stopping, cycle, written
    <2>8. QED
      BY <1>1, <2>3, <2>4, <2>5, <2>6, <2>7 DEF PullRequest
  <1>2. CASE Stopping
    <2>1. events' \in Nat /\ UNCHANGED <<source, gates, run, cycle, written>>
      BY <1>2 DEF Stopping, TypeInv, TypeOK
    <2>2. stop' \in {"cleared", "open", "foreign"} /\ otherStop' \in BOOLEAN
      BY <1>2 DEF Stopping, RaiseStop, CloseStopByAnother, CloseStopByOwner, TypeInv, TypeOK
    <2>3. held' \subseteq Facts
      BY <1>2, RememberType DEF Stopping, TypeInv
    <2>4. QED
      BY <2>1, <2>2, <2>3 DEF TypeInv, TypeOK, source, cycle, written
  <1>3. QED
    BY <1>1, <1>2

Phases == {"idle", "guard", "watch", "ensure", "read", "label", "act", "mark"}

SeenType == DOMAIN seen \subseteq GuardReads \cup PullReads /\ \A t \in DOMAIN seen : seen[t] \in Answers

LEMMA NothingSeen == ASSUME seen' = Nothing PROVE SeenType'
  BY DEF Nothing, SeenType

\* Every question has one of the answers.
LEMMA AnswerType ==
  ASSUME TypeOK, NEW t \in GuardReads \cup PullReads, NEW h \in Heads
  PROVE  Answer(t, h) \in Answers
  <1> USE DEF Answer, Answers
  <1>1. CASE t = "stop"
    BY <1>1 DEF TypeOK
  <1>2. CASE t = "otherStop"
    BY <1>2
  <1>3. CASE t = "files"
    BY <1>3
  <1>4. CASE t = "checks"
    BY <1>4
  <1>5. CASE t = "verdict"
    <2>1. verdict[h] \in Verdicts
      BY DEF TypeOK
    <2>2. QED
      BY <1>5, <2>1
  <1>6. CASE t = "threads"
    BY <1>6
  <1>7. QED
    BY <1>1, <1>2, <1>3, <1>4, <1>5, <1>6 DEF GuardReads, PullReads

LEMMA MovesType ==
  ASSUME TypeOK, EndCycle \/ \E x \in Phases : Continue(x)
  PROVE  phase' \in Phases /\ cycleHead' \in Heads /\ action' \in Actions /\ SeenType'
  <1>1. CASE EndCycle
    <2>1. 1 \in Heads
      OBVIOUS
    <2>2. QED
      BY <1>1, <2>1, NothingSeen DEF EndCycle, Phases, Actions
  <1>2. CASE \E x \in Phases : Continue(x)
    BY <1>2, NothingSeen DEF Continue, TypeOK
  <1>3. QED
    BY <1>1, <1>2

\* What is left to show of a step of the cycle that has moved.
LEMMA CycleTypeFrame ==
  ASSUME TypeInv, UNCHANGED <<source, gates, run, otherStop>>, events' \in Nat,
         phase' \in Phases, cycleHead' \in Heads, action' \in Actions, SeenType',
         held' \subseteq Facts, stop' \in {stop, "open"},
         requests' \in [Heads -> 0 .. MaxRequests], blocked' \in BOOLEAN,
         markers' \subseteq Reasons \X Heads, accepted' \subseteq Reasons \X Heads,
         phase' \in {"label", "act"} /\ action' = "request-review" =>
           requests'[cycleHead'] < MaxRequests,
         phase' = "mark" => action' \in Reasons
  PROVE  TypeInv'
  BY DEF TypeInv, TypeOK, SeenType, source, Phases

LEMMA CycleType == ASSUME TypeInv, Cycle PROVE TypeInv'
  <1>1. UNCHANGED <<source, gates, run>> /\ events' \in Nat /\ held' \subseteq Facts
    <2>1. UNCHANGED <<source, gates, run>> /\ held' \subseteq Facts
      BY RememberType DEF Cycle, TypeInv
    <2>2. events \in Nat /\ (events' = events \/ events' = events + 1)
      BY DEF Cycle, StartCycle, TypeInv, TypeOK
    <2>3. QED
      BY <2>1, <2>2
  <1>2. TypeOK /\ cycleHead \in Heads /\ requests \in [Heads -> 0 .. MaxRequests]
    BY DEF TypeInv, TypeOK
  <1>3. /\ blocked \in BOOLEAN
        /\ markers \subseteq Reasons \X Heads /\ accepted \subseteq Reasons \X Heads
    BY DEF TypeInv, TypeOK
  <1>4. CASE EnsureSecurityStop
    BY <1>1, <1>2, <1>3, <1>4, MovesType, CycleTypeFrame DEF EnsureSecurityStop, EndCycle, written
  <1>5. CASE StartCycle /\ UNCHANGED stopping
    <2>1. SeenType'
      BY <1>5 DEF StartCycle, TypeInv, TypeOK, SeenType
    <2>2. cycleHead' \in Heads /\ action' \in Actions /\ phase' \in {"guard", "watch"}
      BY <1>5 DEF StartCycle, TypeInv, TypeOK
    <2>3. QED
      BY <1>1, <1>2, <1>3, <1>5, <2>1, <2>2, CycleTypeFrame
      DEF StartCycle, stopping, written, Phases
  <1>6. CASE UNCHANGED <<stopping, events>> /\ (Guard \/ Watch \/ SkipDispatch \/ CycleDies)
    <2>1. UNCHANGED written /\ (EndCycle \/ \E x \in {"ensure", "read"} : Continue(x))
      BY <1>6 DEF Guard, Watch, GuardStops, SkipDispatch, CycleDies
    <2>2. phase' \in {"idle", "ensure", "read"}
      BY <2>1 DEF EndCycle, Continue
    <2>3. cycleHead' \in Heads /\ action' \in Actions /\ SeenType'
      BY <1>2, <2>1, MovesType DEF Phases
    <2>4. QED
      BY <1>1, <1>2, <1>3, <1>6, <2>1, <2>2, <2>3, CycleTypeFrame DEF stopping, written, Phases
  <1>7. CASE UNCHANGED <<stopping, events>> /\ Decide
    <2>1. action' \in Actions /\ (action' = "request-review" => AsksAgain(cycleHead))
      BY <1>7 DEF Decide, NextAction, Reasons
    <2>2. action' = "request-review" => requests[cycleHead] < MaxRequests
      BY <2>1 DEF AsksAgain
    <2>3. /\ phase' = "label" /\ cycleHead' = cycleHead /\ SeenType'
          /\ UNCHANGED written
      BY <1>7, NothingSeen DEF Decide
    <2>4. QED
      BY <1>1, <1>2, <1>3, <1>7, <2>1, <2>2, <2>3, CycleTypeFrame
      DEF stopping, written, Phases
  <1>8. CASE UNCHANGED <<stopping, events>> /\ PostLabel
    <2>1. blocked' \in BOOLEAN /\ UNCHANGED <<requests, markers, accepted>> /\ phase = "label"
      BY <1>8 DEF PostLabel
    <2>2. EndCycle \/ Continue("act")
      BY <1>8 DEF PostLabel
    <2>3. /\ phase' \in {"idle", "act"} /\ cycleHead' \in Heads /\ action' \in Actions
          /\ SeenType'
      BY <1>2, <2>2, MovesType DEF EndCycle, Continue, Phases
    <2>4. phase' = "act" => cycleHead' = cycleHead /\ action' = action
      BY <2>2 DEF EndCycle, Continue
    <2>5. phase' = "act" /\ action' = "request-review" => requests[cycleHead] < MaxRequests
      BY <2>1, <2>4 DEF TypeInv
    <2>6. QED
      BY <1>1, <1>2, <1>3, <1>8, <2>1, <2>3, <2>4, <2>5, CycleTypeFrame DEF stopping, Phases
  <1>9. CASE UNCHANGED <<stopping, events>> /\ RequestReview
    <2>1. requests' = [requests EXCEPT ![cycleHead] = @ + 1] /\ requests[cycleHead] < MaxRequests
      BY <1>9 DEF RequestReview, TypeInv
    <2>2. requests' \in [Heads -> 0 .. MaxRequests]
      BY <1>2, <2>1
    <2>3. EndCycle /\ UNCHANGED <<markers, blocked, accepted>>
      BY <1>9 DEF RequestReview
    <2>4. QED
      BY <1>1, <1>2, <1>3, <1>9, <2>2, <2>3, MovesType, CycleTypeFrame DEF stopping, EndCycle
  <1>10. CASE UNCHANGED <<stopping, events>> /\ (Trigger \/ PostMarker)
    <2>1. /\ action \in Reasons /\ UNCHANGED <<requests, blocked>>
          /\ EndCycle \/ Continue("mark")
      BY <1>10 DEF Trigger, PostMarker, TypeInv
    <2>2. markers' \subseteq Reasons \X Heads /\ accepted' \subseteq Reasons \X Heads
      BY <1>2, <1>3, <1>10, <2>1 DEF Trigger, PostMarker
    <2>3. /\ phase' \in {"idle", "mark"} /\ cycleHead' \in Heads /\ action' \in Actions
          /\ SeenType'
      BY <1>2, <2>1, MovesType DEF EndCycle, Continue, Phases
    <2>4. phase' = "mark" => action' \in Reasons
      BY <2>1 DEF EndCycle, Continue
    <2>5. QED
      BY <1>1, <1>2, <1>3, <1>10, <2>1, <2>2, <2>3, <2>4, CycleTypeFrame DEF stopping, Phases
  <1>11. CASE UNCHANGED <<stopping, events>> /\ Read
    <2>1. PICK t \in (GuardReads \cup PullReads) \ DOMAIN seen : Reads(t)
      BY <1>11 DEF Read
    <2>2. Answer(t, cycleHead) \in Answers
      BY <1>2, <2>1, AnswerType
    <2>3. SeenType'
      BY <1>2, <2>1, <2>2 DEF Reads, SeenType, TypeOK
    <2>4. UNCHANGED <<phase, cycleHead, action, written>> /\ phase \in {"guard", "watch", "read"}
      BY <1>11 DEF Read
    <2>5. QED
      BY <1>1, <1>2, <1>3, <1>11, <2>3, <2>4, CycleTypeFrame
      DEF stopping, written, Phases, TypeOK
  <1>12. QED
    BY <1>4, <1>5, <1>6, <1>7, <1>8, <1>9, <1>10, <1>11 DEF Cycle

LEMMA TypeStep == TypeInv /\ [Next]_vars => TypeInv'
  <1>1. TypeInv /\ UNCHANGED vars => TypeInv'
    BY DEF TypeInv, TypeOK, vars, source, stopping, cycle, written
  <1>2. QED
    BY <1>1, GateType, SurroundingsType, CycleType DEF Next

LEMMA InitType == Init => TypeInv
  <1> SUFFICES ASSUME Init PROVE TypeInv
    OBVIOUS
  <1>1. run \in [Runs -> Run]
    BY NoRunType DEF Init
  <1>2. /\ gates \in [{"security", "review"} -> [Heads -> {"none", "success", "failure"}]]
        /\ ci \in [Heads -> {"none", "pending", "passed", "failed"}]
        /\ verdict \in [Heads -> Verdicts]
    BY DEF Init, Verdicts
  <1>3. requests \in [Heads -> 0 .. MaxRequests]
    <2>1. 0 \in 0 .. MaxRequests
      OBVIOUS
    <2>2. QED
      BY <2>1 DEF Init
  <1>4. head \in Heads /\ cycleHead \in Heads
    BY DEF Init
  <1>5. /\ sensitive \subseteq Heads /\ disposed \subseteq Heads /\ cleared \subseteq Heads
        /\ markers \subseteq Reasons \X Heads /\ accepted \subseteq Reasons \X Heads
    BY DEF Init
  <1>6. /\ unresolved \in BOOLEAN /\ otherStop \in BOOLEAN /\ blocked \in BOOLEAN
        /\ held \subseteq Facts /\ events \in Nat /\ stop \in {"cleared", "open", "foreign"}
        /\ phase = "idle" /\ action \in Actions
    BY DEF Init, Actions
  <1>7. DOMAIN seen = {}
    BY DEF Init, Nothing
  <1>8. QED
    BY <1>1, <1>2, <1>3, <1>4, <1>5, <1>6, <1>7 DEF TypeInv, TypeOK, Run

\* Every state of the pull request, the gates, the stops and the cycles has its types, and no
\* commit gets more requests for a review than the limit.
THEOREM TypeCorrect == Spec => []TypeOK
  <1>1. TypeInv => TypeOK
    BY DEF TypeInv
  <1>2. QED
    BY <1>1, InitType, TypeStep, PTL DEF Spec

LEMMA TypeAlways == Spec => []TypeInv
  BY InitType, TypeStep, PTL DEF Spec

--------------------------------------------------------------------------------
(***************************************************************************)
(* The merge gates.  Whatever a job reads after the commit it resolved is    *)
(* that commit or a later one, so a job that still speaks for the head has    *)
(* read nothing but the head; and no gate has spoken for a commit to come.    *)
(***************************************************************************)
JobInv(j) ==
  /\ j.sha <= head
  /\ j.at # 0 => j.sha <= j.at /\ j.at <= head
  /\ j.files # 0 => j.sha <= j.files /\ j.files <= head
  /\ "accepted" \in j.found => j.at # 0 /\ j.at \in cleared
  /\ j.ok = "success" /\ j.sha = head =>
       /\ j.gate = "review" => head \in cleared
       /\ j.gate = "security" /\ head \in sensitive => head \in disposed

PublishedInv == \A g \in {"security", "review"}, h \in Heads : gates[g][h] # "none" => h <= head
AcceptedInv == \A h \in Heads : verdict[h] = "accepted" => h \in cleared

GateInv ==
  /\ \A r \in Runs : JobInv(run[r])
  /\ PublishedInv
  /\ AcceptedInv
  /\ GreenGateIsOfTheHead

LEMMA NoRunInv == ASSUME TypeOK PROVE JobInv(NoRun)
  <1>1. /\ NoRun.sha = 1 /\ NoRun.at = 0 /\ NoRun.files = 0 /\ NoRun.ok = "unknown"
        /\ NoRun.found = {}
    BY DEF NoRun
  <1>2. 1 <= head
    BY DEF TypeOK
  <1>3. QED
    BY <1>1, <1>2 DEF JobInv

\* What a gate job found holds of the head, if the job still speaks for the head.
LEMMA JobStep ==
  ASSUME TypeOK, GateInv, NEW r \in Runs, NEW j \in Run,
         \/ /\ j.gate # "none" /\ j.sha = head /\ j.at = 0 /\ j.files = 0
            /\ j.ok = "unknown" /\ j.found = {}
         \/ /\ j.gate = run[r].gate /\ j.sha = run[r].sha /\ j.ok = run[r].ok
            /\ j.files \in {run[r].files, head}
            /\ \/ j.found = run[r].found /\ j.at \in {run[r].at, head}
                     /\ (run[r].at # 0 => j.at = run[r].at)
               \/ /\ j.at = run[r].at
                  /\ \E fact \in InFavour(run[r]) : j.found = run[r].found \cup {fact}
         \/ /\ j.gate = run[r].gate /\ j.sha = run[r].sha /\ j.at = 0 /\ j.files = 0
            /\ j.found = {}
            /\ \/ j.ok = "failure"
               \/ /\ j.ok = "success" /\ run[r].gate = "security"
                  /\ run[r].at # 0 /\ run[r].files # 0 /\ SecurityGatePasses(run[r])
               \/ /\ j.ok = "success" /\ run[r].gate = "review"
                  /\ run[r].at # 0 /\ ReviewGatePasses(run[r])
         \/ j = NoRun
  PROVE  JobInv(j)
  <1> USE DEF Run
  <1>1. head \in Heads /\ run[r] \in Run /\ JobInv(run[r])
    BY DEF TypeOK, GateInv
  <1>2. CASE j.sha = head /\ j.at = 0 /\ j.files = 0 /\ j.ok = "unknown" /\ j.found = {}
    BY <1>1, <1>2 DEF JobInv
  <1>3. CASE /\ j.gate = run[r].gate /\ j.sha = run[r].sha /\ j.ok = run[r].ok
             /\ j.files \in {run[r].files, head}
             /\ j.found = run[r].found /\ j.at \in {run[r].at, head}
             /\ run[r].at # 0 => j.at = run[r].at
    BY <1>1, <1>3 DEF JobInv
  <1>4. CASE /\ j.gate = run[r].gate /\ j.sha = run[r].sha /\ j.ok = run[r].ok
             /\ j.files \in {run[r].files, head} /\ j.at = run[r].at
             /\ \E fact \in InFavour(run[r]) : j.found = run[r].found \cup {fact}
    <2>1. PICK fact \in InFavour(run[r]) : j.found = run[r].found \cup {fact}
      BY <1>4
    <2>2. fact = "accepted" => run[r].at # 0 /\ verdict[run[r].at] = "accepted"
      BY <1>1, Favours
    <2>3. run[r].at # 0 => run[r].at \in Heads
      BY <1>1
    <2>4. fact = "accepted" => run[r].at # 0 /\ run[r].at \in cleared
      BY <2>2, <2>3 DEF GateInv, AcceptedInv
    <2>5. "accepted" \in j.found => j.at # 0 /\ j.at \in cleared
      BY <1>1, <1>4, <2>1, <2>4 DEF JobInv
    <2>6. QED
      BY <1>1, <1>4, <2>5 DEF JobInv
  <1>5. CASE /\ j.gate = run[r].gate /\ j.sha = run[r].sha /\ j.at = 0 /\ j.files = 0
             /\ j.found = {} /\ j.ok = "failure"
    BY <1>1, <1>5 DEF JobInv
  <1>6. CASE /\ j.gate = run[r].gate /\ j.sha = run[r].sha /\ j.at = 0 /\ j.files = 0
             /\ j.found = {}
             /\ run[r].gate = "security" /\ run[r].at # 0 /\ run[r].files # 0
             /\ SecurityGatePasses(run[r])
    <2>1. head = j.sha => run[r].at = head /\ run[r].files = head
      BY <1>1, <1>6 DEF JobInv
    <2>2. head = j.sha /\ head \in sensitive => head \in disposed
      BY <1>6, <2>1 DEF SecurityGatePasses
    <2>3. QED
      BY <1>1, <1>6, <2>2 DEF JobInv
  <1>7. CASE /\ j.gate = run[r].gate /\ j.sha = run[r].sha /\ j.at = 0 /\ j.files = 0
             /\ j.found = {}
             /\ run[r].gate = "review" /\ run[r].at # 0 /\ ReviewGatePasses(run[r])
    <2>1. head = j.sha => run[r].at = head
      BY <1>1, <1>7 DEF JobInv
    <2>2. "accepted" \in run[r].found
      BY <1>7 DEF ReviewGatePasses
    <2>3. head = j.sha => head \in cleared
      BY <1>1, <2>1, <2>2 DEF JobInv
    <2>4. QED
      BY <1>1, <1>7, <2>3 DEF JobInv
  <1>8. QED
    BY <1>2, <1>3, <1>4, <1>5, <1>6, <1>7, NoRunInv

LEMMA GateKeepsGates == ASSUME TypeOK, GateInv, NEW r \in Runs, Gate(r) PROVE GateInv'
  <1>1. UNCHANGED <<head, sensitive, disposed, verdict, cleared>>
    BY DEF Gate, source
  <1>2. PICK j \in Run :
          /\ JobAfter(r, j) /\ JobInv(j)
          /\ \/ UNCHANGED gates
             \/ /\ gates' = [gates EXCEPT ![run[r].gate][run[r].sha] = run[r].ok]
                /\ run[r].ok # "unknown"
    BY GateSteps, JobStep
  <1>3. \A q \in Runs : run'[q] = IF q = r THEN j ELSE run[q]
    BY <1>2 DEF JobAfter, TypeOK
  <1>4. \A q \in Runs : JobInv(run[q])'
    BY <1>1, <1>2, <1>3 DEF GateInv, JobInv
  <1>5. CASE UNCHANGED gates
    BY <1>1, <1>4, <1>5 DEF GateInv, PublishedInv, AcceptedInv, GreenGateIsOfTheHead
  <1>6. CASE /\ gates' = [gates EXCEPT ![run[r].gate][run[r].sha] = run[r].ok]
             /\ run[r].ok # "unknown"
    <2>1. /\ run[r].sha \in Heads /\ JobInv(run[r])
          /\ run[r].gate \in {"none", "security", "review"}
          /\ run[r].ok \in {"success", "failure"}
      BY <1>6 DEF TypeOK, GateInv
    <2>2. \A g \in {"security", "review"}, h \in Heads :
            gates'[g][h] = IF g = run[r].gate /\ h = run[r].sha THEN run[r].ok ELSE gates[g][h]
      BY <1>6, <2>1 DEF TypeOK
    <2>3. PublishedInv'
      BY <1>1, <2>1, <2>2 DEF PublishedInv, GateInv, JobInv
    <2>4. head \in Heads
      BY DEF TypeOK
    <2>5. GreenGateIsOfTheHead'
      BY <1>1, <2>1, <2>2, <2>4 DEF GreenGateIsOfTheHead, GateInv, JobInv
    <2>6. QED
      BY <1>1, <1>4, <2>3, <2>5 DEF GateInv, AcceptedInv
  <1>7. QED
    BY <1>2, <1>5, <1>6

LEMMA SourceKeepsGates == ASSUME TypeOK, GateInv, PullRequest PROVE GateInv'
  <1>1. UNCHANGED <<gates, run>>
    BY DEF PullRequest
  <1>2. head \in Heads /\ \A r \in Runs : run[r] \in Run
    BY DEF TypeOK, Run
  <1>3. CASE Push
    <2>1. head' = head + 1 /\ head' \in Heads /\ UNCHANGED <<sensitive, disposed, verdict, cleared>>
      BY <1>2, <1>3 DEF Push, TypeOK
    <2>2. \A r \in Runs : JobInv(run[r])'
      BY <1>1, <1>2, <2>1 DEF GateInv, JobInv, Run
    <2>3. PublishedInv'
      BY <1>1, <1>2, <2>1 DEF GateInv, PublishedInv
    <2>4. \A g \in {"security", "review"} : gates[g][head'] = "none"
      BY <1>2, <2>1 DEF GateInv, PublishedInv
    <2>5. QED
      BY <1>1, <2>1, <2>2, <2>3, <2>4 DEF GateInv, AcceptedInv, GreenGateIsOfTheHead
  <1>4. CASE UNCHANGED <<head, sensitive>>
    <2>1. cleared \subseteq cleared' /\ disposed \subseteq disposed'
      BY <1>3, <1>4 DEF PullRequest, Push, ChecksChange, Review, ResolveThreads, PostDisposition,
                        TypeOK
    <2>2. \A r \in Runs : JobInv(run[r])'
      BY <1>1, <1>4, <2>1 DEF GateInv, JobInv
    <2>3. AcceptedInv'
      <3>1. CASE Review
        BY <3>1 DEF Review, GateInv, AcceptedInv, TypeOK
      <3>2. CASE ~Review
        <4>1. UNCHANGED <<verdict, cleared>>
          BY <3>2 DEF PullRequest, Push, ChecksChange, ResolveThreads, PostDisposition
        <4>2. QED
          BY <4>1 DEF GateInv, AcceptedInv
      <3>3. QED
        BY <3>1, <3>2
    <2>4. QED
      BY <1>1, <1>4, <2>1, <2>2, <2>3 DEF GateInv, PublishedInv, GreenGateIsOfTheHead
  <1>5. QED
    BY <1>3, <1>4 DEF PullRequest, ChecksChange, Review, ResolveThreads, PostDisposition

LEMMA OthersKeepGates ==
  ASSUME GateInv, UNCHANGED <<source, gates, run>> PROVE GateInv'
  BY DEF GateInv, source, JobInv, PublishedInv, AcceptedInv, GreenGateIsOfTheHead

LEMMA InitGates == Init => GateInv
  <1> SUFFICES ASSUME Init PROVE GateInv
    OBVIOUS
  <1>1. \A r \in Runs : JobInv(run[r])
    BY InitType, NoRunInv DEF Init, TypeInv
  <1>2. head = 1 /\ 1 \in Heads
    BY DEF Init
  <1>3. \A g \in {"security", "review"}, h \in Heads : gates[g][h] = "none"
    BY DEF Init
  <1>4. AcceptedInv
    BY DEF Init, AcceptedInv
  <1>5. QED
    BY <1>1, <1>2, <1>3, <1>4 DEF GateInv, PublishedInv, GreenGateIsOfTheHead

\* Of a pull request whose branch only moves forward, a gate that is green for the head was
\* decided for the head: a commit that was accepted, or has the owner's disposition if it
\* changes protected automation.
THEOREM GatesOfTheHead == Spec => []GreenGateIsOfTheHead
  <1>1. TypeInv /\ GateInv /\ [Next]_vars => GateInv'
    <2>1. TypeInv => TypeOK
      BY DEF TypeInv
    <2>2. CASE GateInv /\ UNCHANGED vars
      BY <2>2, OthersKeepGates DEF vars
    <2>3. CASE TypeOK /\ GateInv /\ Next
      <3>1. CASE Stopping \/ Cycle
        BY <2>3, <3>1, OthersKeepGates DEF Stopping, Cycle
      <3>2. QED
        BY <2>3, <3>1, GateKeepsGates, SourceKeepsGates DEF Next
    <2>4. QED
      BY <2>1, <2>2, <2>3
  <1>2. GateInv => GreenGateIsOfTheHead
    BY DEF GateInv
  <1>3. QED
    BY <1>1, <1>2, InitGates, TypeAlways, PTL DEF Spec

--------------------------------------------------------------------------------
(***************************************************************************)
(* What a cycle has been answered since its last decision.                  *)
(***************************************************************************)
SeenInv ==
  /\ phase = "idle" => DOMAIN seen = {}
  /\ "otherStop" \in DOMAIN seen => seen["otherStop"] \in {"raised", "cleared"}
  /\ "verdict" \in DOMAIN seen => seen["verdict"] \in Verdicts

LEMMA ReadsGrow ==
  ASSUME NEW t, Reads(t)
  PROVE  /\ DOMAIN seen' = DOMAIN seen \cup {t} /\ seen'[t] = Answer(t, cycleHead)
         /\ \A u \in DOMAIN seen : u # t => seen'[u] = seen[u]
  BY DEF Reads

\* A step of the cycle begins it, reads an answer, or forgets them all.
LEMMA CycleSteps ==
  ASSUME Cycle PROVE StartCycle \/ Read \/ seen' = Nothing
  BY DEF Cycle, EnsureSecurityStop, Guard, Watch, GuardStops, Decide, PostLabel, RequestReview,
         SkipDispatch, Trigger, PostMarker, CycleDies, EndCycle, Continue

LEMMA SeenStep == ASSUME TypeInv, SeenInv, [Next]_vars PROVE SeenInv'
  <1>1. CASE StartCycle
    BY <1>1 DEF StartCycle, SeenInv
  <1>2. CASE Read
    <2>1. PICK t \in (GuardReads \cup PullReads) \ DOMAIN seen : Reads(t)
      BY <1>2 DEF Read
    <2>2. phase' = phase /\ phase # "idle"
      BY <1>2 DEF Read
    <2>3. Answer("otherStop", cycleHead) \in {"raised", "cleared"}
      BY DEF Answer
    <2>4. Answer("verdict", cycleHead) \in Verdicts
      BY DEF Answer, TypeInv, TypeOK
    <2>5. /\ DOMAIN seen' = DOMAIN seen \cup {t} /\ seen'[t] = Answer(t, cycleHead)
          /\ \A u \in DOMAIN seen : u # t => seen'[u] = seen[u]
      BY <2>1, ReadsGrow
    <2>6. "otherStop" \in DOMAIN seen' => seen'["otherStop"] \in {"raised", "cleared"}
      BY <2>3, <2>5 DEF SeenInv
    <2>7. "verdict" \in DOMAIN seen' => seen'["verdict"] \in Verdicts
      BY <2>4, <2>5 DEF SeenInv
    <2>8. QED
      BY <2>2, <2>6, <2>7 DEF SeenInv
  <1>3. CASE seen' = Nothing
    BY <1>3 DEF Nothing, SeenInv
  <1>4. CASE UNCHANGED cycle
    BY <1>4 DEF cycle, SeenInv
  <1>5. QED
    BY <1>1, <1>2, <1>3, <1>4, CycleSteps DEF Next, PullRequest, Stopping, Gate, vars

LEMMA SeenAlways == Spec => []SeenInv
  <1>1. Init => SeenInv
    BY DEF Init, Nothing, SeenInv
  <1>2. QED
    BY <1>1, SeenStep, TypeAlways, PTL DEF Spec

--------------------------------------------------------------------------------
(***************************************************************************)
(* The supervisor reads the head before the files.  A cycle that goes on for *)
(* what is still the head has seen the files of that head; a later commit     *)
(* has been asked for and dispatched by nobody.                             *)
(***************************************************************************)
Working == {"read", "label", "act", "mark"}

\* What the cycle has found out lets it work on the pull request.
Allowed == phase \in Working \/ ("files" \in DOMAIN seen /\ seen["files"] = "plain")

ProtectedInv ==
  /\ cycleHead <= head
  /\ Allowed /\ cycleHead = head => head \notin sensitive
  /\ \A h \in Heads : h > head =>
       requests[h] = 0 /\ \A reason \in Reasons : <<reason, h>> \notin accepted
  /\ ProtectedHeadIsLeftAlone

\* What no step of the cycle but the request and the dispatch changes.
Quiet == UNCHANGED <<requests, accepted>>

LEMMA CycleKeepsProtected == ASSUME TypeInv, SeenInv, ProtectedInv, Cycle PROVE ProtectedInv'
  <1>1. UNCHANGED <<head, sensitive>> /\ head \in Heads /\ cycleHead \in Heads
    BY DEF Cycle, source, TypeInv, TypeOK
  <1>2. EndCycle => cycleHead' <= head' /\ ~Allowed'
    BY <1>1 DEF EndCycle, Working, Allowed, Nothing
  <1>3. CASE Quiet /\ EndCycle
    BY <1>1, <1>2, <1>3 DEF Quiet, ProtectedInv, ProtectedHeadIsLeftAlone
  <1>4. CASE Quiet /\ cycleHead' = cycleHead /\ (Allowed' /\ ~Allowed => head \notin sensitive)
    BY <1>1, <1>4 DEF Quiet, ProtectedInv, ProtectedHeadIsLeftAlone
  <1>5. CASE StartCycle
    <2>1. /\ Quiet /\ cycleHead' = head /\ phase' \notin Working
          /\ phase = "idle" /\ seen' = seen
      BY <1>5 DEF StartCycle, Quiet, written, Working
    <2>2. ~Allowed'
      BY <2>1 DEF Allowed, SeenInv
    <2>3. QED
      BY <1>1, <2>1, <2>2 DEF Quiet, ProtectedInv, ProtectedHeadIsLeftAlone
  <1>6. CASE Read
    <2>1. PICK t \in (GuardReads \cup PullReads) \ DOMAIN seen : Reads(t)
      BY <1>6 DEF Read
    <2>2. Answer("files", cycleHead) = "plain" => head \notin sensitive
      BY DEF Answer
    <2>3. /\ DOMAIN seen' = DOMAIN seen \cup {t} /\ seen'[t] = Answer(t, cycleHead)
          /\ \A u \in DOMAIN seen : u # t => seen'[u] = seen[u]
      BY <2>1, ReadsGrow
    <2>4. UNCHANGED <<phase, cycleHead, requests, accepted>>
      BY <1>6 DEF Read, written
    <2>5. Allowed' /\ ~Allowed => head \notin sensitive
      BY <2>2, <2>3, <2>4 DEF Allowed
    <2>6. QED
      BY <1>4, <2>4, <2>5 DEF Quiet
  <1>7. CASE Guard \/ Watch
    <2>1. Quiet
      BY <1>7 DEF Guard, Watch, written, Quiet
    <2>2. EndCycle \/ Continue("ensure") \/ (Continue("read") /\ Allowed)
      BY <1>7 DEF Guard, Watch, GuardStops, Allowed, GuardReads
    <2>3. Continue("ensure") => ~Allowed'
      BY DEF Continue, Allowed, Working, Nothing
    <2>4. QED
      BY <1>3, <1>4, <2>1, <2>2, <2>3 DEF Continue
  <1>8. CASE Decide \/ PostLabel
    <2>1. Quiet /\ phase \in Working
      BY <1>8 DEF Decide, PostLabel, written, Quiet, Working
    <2>2. EndCycle \/ cycleHead' = cycleHead
      BY <1>8 DEF Decide, PostLabel, Continue
    <2>3. QED
      BY <1>3, <1>4, <2>1, <2>2 DEF Allowed
  <1>9. CASE RequestReview
    <2>1. /\ phase \in Working /\ EndCycle /\ accepted' = accepted
          /\ requests' = [requests EXCEPT ![cycleHead] = @ + 1]
      BY <1>9 DEF RequestReview, Working
    <2>2. \A h \in Heads : h # cycleHead => requests'[h] = requests[h]
      BY <2>1 DEF TypeInv, TypeOK
    <2>3. head \in sensitive => cycleHead # head
      BY <2>1 DEF ProtectedInv, Allowed
    <2>4. QED
      BY <1>1, <1>2, <2>1, <2>2, <2>3 DEF ProtectedInv, ProtectedHeadIsLeftAlone
  <1>10. CASE Trigger
    <2>1. /\ phase \in Working /\ requests' = requests
          /\ accepted' = accepted \cup {<<action, cycleHead>>}
          /\ Continue("mark") \/ EndCycle
      BY <1>10 DEF Trigger, Working
    <2>2. head \in sensitive => cycleHead # head
      BY <2>1 DEF ProtectedInv, Allowed
    <2>3. cycleHead' <= head' /\ (Allowed' /\ cycleHead' = head => head \notin sensitive)
      BY <1>1, <1>2, <2>1, <2>2 DEF Continue, ProtectedInv
    <2>4. \A h \in Heads, reason \in Reasons :
            h # cycleHead => (<<reason, h>> \in accepted' <=> <<reason, h>> \in accepted)
      BY <2>1
    <2>5. QED
      BY <1>1, <2>1, <2>2, <2>3, <2>4 DEF ProtectedInv, ProtectedHeadIsLeftAlone
  <1>11. CASE PostMarker \/ SkipDispatch \/ CycleDies \/ EnsureSecurityStop
    BY <1>3, <1>11 DEF PostMarker, SkipDispatch, CycleDies, EnsureSecurityStop, written, Quiet
  <1>12. QED
    BY <1>5, <1>6, <1>7, <1>8, <1>9, <1>10, <1>11 DEF Cycle

LEMMA OthersKeepProtected ==
  ASSUME TypeInv, ProtectedInv, UNCHANGED vars \/ PullRequest \/ Stopping \/ \E r \in Runs : Gate(r)
  PROVE  ProtectedInv'
  <1>1. UNCHANGED <<cycle, written, sensitive>> /\ head \in Heads /\ cycleHead \in Heads
    BY DEF PullRequest, Push, ChecksChange, Review, ResolveThreads, PostDisposition, Stopping,
           Gate, vars, source, TypeInv, TypeOK
  <1>2. head' = head \/ (head' = head + 1 /\ head' \in Heads)
    <2>1. PullRequest => Push \/ head' = head
      BY DEF PullRequest, ChecksChange, Review, ResolveThreads, PostDisposition
    <2>2. Push => head' = head + 1 /\ head' \in Heads
      BY <1>1 DEF Push
    <2>3. UNCHANGED vars \/ Stopping \/ (\E r \in Runs : Gate(r)) => head' = head
      BY DEF Stopping, Gate, vars, source
    <2>4. QED
      BY <2>1, <2>2, <2>3
  <1>3. UNCHANGED <<phase, cycleHead, seen, requests, accepted>>
    BY <1>1 DEF cycle, written
  <1>4. CASE head' = head
    BY <1>1, <1>3, <1>4 DEF ProtectedInv, ProtectedHeadIsLeftAlone, Allowed
  <1>5. CASE head' = head + 1 /\ head' \in Heads
    <2>1. cycleHead < head'
      BY <1>1, <1>5 DEF ProtectedInv
    <2>2. requests[head'] = 0 /\ \A reason \in Reasons : <<reason, head'>> \notin accepted
      BY <1>1, <1>5 DEF ProtectedInv
    <2>3. QED
      BY <1>1, <1>3, <1>5, <2>1, <2>2 DEF ProtectedInv, ProtectedHeadIsLeftAlone
  <1>6. QED
    BY <1>2, <1>4, <1>5

\* Nothing is asked for and nothing dispatched for a head that changes protected automation,
\* whatever is pushed between the cycle's reads of the head and of the files.
THEOREM ProtectedLeftAlone == Spec => []ProtectedHeadIsLeftAlone
  <1>1. Init => ProtectedInv
    <2> SUFFICES ASSUME Init PROVE ProtectedInv
      OBVIOUS
    <2>1. /\ head = 1 /\ cycleHead = 1 /\ phase = "idle" /\ accepted = {} /\ DOMAIN seen = {}
          /\ \A h \in Heads : requests[h] = 0
      BY DEF Init, Nothing
    <2>2. QED
      BY <2>1 DEF ProtectedInv, ProtectedHeadIsLeftAlone, Working, Allowed
  <1>2. TypeInv /\ SeenInv /\ ProtectedInv /\ [Next]_vars => ProtectedInv'
    BY CycleKeepsProtected, OthersKeepProtected DEF Next
  <1>3. ProtectedInv => ProtectedHeadIsLeftAlone
    BY DEF ProtectedInv
  <1>4. QED
    BY <1>1, <1>2, <1>3, TypeAlways, SeenAlways, PTL DEF Spec

--------------------------------------------------------------------------------
(***************************************************************************)
(* What was so while the cycle was asking.  Every answer it has, of what it   *)
(* may act on, was so at some time of this cycle, and a cycle that works on   *)
(* the pull request has been told that each stop was cleared.               *)
(***************************************************************************)
StopsCleared == WatchReads \X {"cleared"}

HeldInv ==
  /\ phase # "idle" =>
       \A t \in Asking : <<t, Answer(t, cycleHead)>> \in Facts => <<t, Answer(t, cycleHead)>> \in held
  /\ \A t \in DOMAIN seen : <<t, seen[t]>> \in Facts => <<t, seen[t]>> \in held
  /\ phase \in Working => StopsCleared \subseteq held

\* Nothing is forgotten while the cycle lasts, and what is so is remembered.
LEMMA Remembers ==
  ASSUME Remember, phase' # "idle"
  PROVE  /\ held \subseteq held'
         /\ \A t \in Asking' : <<t, Answer(t, cycleHead)'>> \in Facts
                                 => <<t, Answer(t, cycleHead)'>> \in held'
  BY DEF Remember

\* Stops that are not raised are cleared, and files are none of what a cycle acts on.
LEMMA ClearedIsSo ==
  ASSUME HeldInv, SeenInv, DOMAIN seen = GuardReads, ~GlobalReasons
  PROVE  StopsCleared \subseteq held
  <1>1. seen["stop"] = "cleared" /\ seen["otherStop"] = "cleared"
    BY DEF GlobalReasons, SeenInv, GuardReads
  <1>2. <<"stop", "cleared">> \in held /\ <<"otherStop", "cleared">> \in held
    BY <1>1 DEF HeldInv, GuardReads, Facts
  <1>3. QED
    BY <1>2 DEF StopsCleared, WatchReads

\* The cycle goes on to work on the pull request with the stops cleared.
LEMMA WorkIsCleared ==
  ASSUME HeldInv, SeenInv, Cycle, phase' \in Working
  PROVE  StopsCleared \subseteq held
  <1>1. CASE phase \in Working
    BY <1>1 DEF HeldInv
  <1>2. CASE phase \notin Working
    <2>1. Guard
      BY <1>2 DEF Cycle, StartCycle, EnsureSecurityStop, Read, Watch, GuardStops, Decide, PostLabel,
                  RequestReview, SkipDispatch, Trigger, PostMarker, CycleDies, EndCycle, Continue,
                  Working
    <2>2. DOMAIN seen = GuardReads /\ ~GlobalReasons
      BY <2>1 DEF Guard, GuardStops, EndCycle, Continue, Working
    <2>3. QED
      BY <2>2, ClearedIsSo
  <1>3. QED
    BY <1>1, <1>2

LEMMA AnswersAreHeld ==
  ASSUME HeldInv, SeenInv, Cycle, Remember, phase' # "idle"
  PROVE  \A t \in DOMAIN seen' : <<t, seen'[t]>> \in Facts => <<t, seen'[t]>> \in held'
  <1>1. held \subseteq held'
    BY Remembers
  <1>2. CASE StartCycle
    BY <1>2 DEF StartCycle, SeenInv
  <1>3. CASE Read
    <2>1. PICK t \in (GuardReads \cup PullReads) \ DOMAIN seen :
            /\ Reads(t) /\ phase # "idle"
            /\ t \in Asking \/ t = "files"
      BY <1>3 DEF Read, Asking, GuardReads, WatchReads
    <2>2. \A a : <<"files", a>> \notin Facts
      BY DEF Facts
    <2>3. <<t, Answer(t, cycleHead)>> \in Facts => <<t, Answer(t, cycleHead)>> \in held
      BY <2>1, <2>2 DEF HeldInv
    <2>4. /\ DOMAIN seen' = DOMAIN seen \cup {t} /\ seen'[t] = Answer(t, cycleHead)
          /\ \A u \in DOMAIN seen : u # t => seen'[u] = seen[u]
      BY <2>1, ReadsGrow
    <2>5. \A u \in DOMAIN seen : <<u, seen[u]>> \in Facts => <<u, seen[u]>> \in held
      BY DEF HeldInv
    <2>6. QED
      BY <1>1, <2>3, <2>4, <2>5
  <1>4. CASE seen' = Nothing
    BY <1>4 DEF Nothing
  <1>5. QED
    BY <1>2, <1>3, <1>4, CycleSteps

LEMMA HeldStep == ASSUME TypeInv, SeenInv, HeldInv, SeenInv', [Next]_vars PROVE HeldInv'
  <1>1. CASE phase' = "idle"
    BY <1>1 DEF HeldInv, SeenInv, Working
  <1>2. CASE phase' # "idle" /\ Cycle
    <2>1. Remember
      BY <1>2 DEF Cycle
    <2>2. phase' \in Working => StopsCleared \subseteq held'
      BY <1>2, <2>1, Remembers, WorkIsCleared
    <2>3. QED
      BY <1>2, <2>1, <2>2, Remembers, AnswersAreHeld DEF HeldInv
  <1>3. CASE phase' # "idle" /\ (PullRequest \/ Stopping \/ \E r \in Runs : Gate(r))
    <2>1. Remember /\ UNCHANGED <<phase, cycleHead, seen>>
      BY <1>3 DEF PullRequest, Stopping, Gate, cycle
    <2>2. held \subseteq held'
      BY <1>3, <2>1, Remembers
    <2>3. QED
      BY <1>3, <2>1, <2>2, Remembers DEF HeldInv
  <1>4. CASE UNCHANGED vars
    <2>1. UNCHANGED <<source, stopping, cycle, gates, held>>
      BY <1>4 DEF vars
    <2>2. Asking' = Asking
      BY <2>1 DEF cycle, Asking
    <2>3. Pending(cycleHead)' = Pending(cycleHead)
      BY <2>1 DEF cycle, source, Pending
    <2>4. Failed(cycleHead)' = Failed(cycleHead)
      BY <2>1, <2>3 DEF cycle, source, Failed
    <2>5. ASSUME NEW t PROVE Answer(t, cycleHead)' = Answer(t, cycleHead)
      BY <2>1, <2>3, <2>4 DEF cycle, source, stopping, Answer
    <2>6. QED
      BY <2>1, <2>2, <2>5 DEF cycle, HeldInv
  <1>5. QED
    BY <1>1, <1>2, <1>3, <1>4 DEF Next

LEMMA HeldAlways == Spec => []HeldInv
  <1>1. Init => HeldInv
    BY DEF Init, Nothing, HeldInv, Working
  <1>2. QED
    BY <1>1, HeldStep, TypeAlways, SeenAlways, PTL DEF Spec

\* A cycle asks for a review, changes the label, dispatches or marks only if issue #66 and the
\* other stops were each cleared at some time while it asked for them.
THEOREM StopRespected == Spec => StopHolds
  <1>1. HeldInv /\ [Next]_vars =>
          [ <<requests, blocked, markers, accepted>>' # <<requests, blocked, markers, accepted>>
              => WatchReads \X {"cleared"} \subseteq held ]_vars
    <2> SUFFICES ASSUME HeldInv, Next, UNCHANGED written => FALSE
                 PROVE StopsCleared \subseteq held
      BY DEF written, StopsCleared
    <2>1. Cycle
      BY DEF Next, PullRequest, Stopping, Gate
    <2>2. phase \in Working
      BY <2>1 DEF Cycle, EnsureSecurityStop, StartCycle, Read, Guard, Watch, Decide, PostLabel,
                  RequestReview, SkipDispatch, Trigger, PostMarker, CycleDies, Working, written
    <2>3. QED
      BY <2>2 DEF HeldInv
  <1>2. QED
    BY <1>1, HeldAlways, PTL DEF Spec, StopHolds

--------------------------------------------------------------------------------
(***************************************************************************)
(* What the agent is told.  A cycle that has a reason has been told what      *)
(* speaks for it, of the commit it began with.                              *)
(***************************************************************************)
Decided == {"label", "act", "mark"}

EarnedInv ==
  /\ phase \in Decided /\ action \in Reasons => Grounds(action)
  /\ phase = "mark" => <<action, cycleHead>> \in accepted
  /\ markers \subseteq accepted

LEMMA DecideEarns ==
  ASSUME TypeInv, SeenInv, HeldInv, DOMAIN seen = PullReads,
         NEW a \in NextAction(cycleHead) \cap Reasons
  PROVE  Grounds(a)
  <1>1. /\ <<"checks", seen["checks"]>> \in Facts => <<"checks", seen["checks"]>> \in held
        /\ <<"verdict", seen["verdict"]>> \in held
        /\ <<"threads", seen["threads"]>> \in Facts => <<"threads", seen["threads"]>> \in held
    <2>1. {"checks", "verdict", "threads"} \subseteq DOMAIN seen
      BY DEF PullReads
    <2>2. <<"verdict", seen["verdict"]>> \in Facts
      BY <2>1 DEF SeenInv, Facts
    <2>3. QED
      BY <2>1, <2>2 DEF HeldInv
  <1>2. {<<"checks", "passed">>, <<"checks", "failed">>, <<"threads", "resolved">>,
         <<"threads", "unresolved">>} \subseteq Facts
    BY DEF Facts
  <1>3. CASE a = "checks-failed"
    <2>1. seen["checks"] = "failed"
      BY <1>3 DEF NextAction
    <2>2. QED
      BY <1>1, <1>2, <1>3, <2>1 DEF Grounds
  <1>4. CASE a # "checks-failed"
    <2>1. seen["checks"] = "passed"
      BY <1>4 DEF NextAction, Reasons
    <2>2. <<"checks", "passed">> \in held
      BY <1>1, <1>2, <2>1
    <2>3. CASE a = "merge-ready"
      <3>1. seen["verdict"] = "accepted" /\ seen["threads"] = "resolved"
        BY <2>3 DEF NextAction
      <3>2. QED
        BY <1>1, <1>2, <2>2, <2>3, <3>1 DEF Grounds
    <2>4. CASE a = "review-rejected"
      <3>1. \/ seen["verdict"] = "accepted" /\ seen["threads"] = "unresolved"
            \/ seen["verdict"] = "rejected"
        BY <2>4 DEF NextAction
      <3>2. QED
        BY <1>1, <1>2, <2>2, <2>4, <3>1 DEF Grounds
    <2>5. CASE a = "review-stalled"
      <3>1. Unanswered /\ requests[cycleHead] >= MaxRequests
        BY <2>5 DEF NextAction
      <3>2. seen["verdict"] = "missing"
        BY <3>1 DEF Unanswered, SeenInv, Verdicts, PullReads
      <3>3. requests[cycleHead] = MaxRequests
        BY <3>1 DEF TypeInv, TypeOK
      <3>4. QED
        BY <1>1, <2>2, <2>5, <3>2, <3>3 DEF Grounds
    <2>6. QED
      BY <1>4, <2>3, <2>4, <2>5 DEF Reasons
  <1>5. QED
    BY <1>3, <1>4

\* What speaks for a reason goes on speaking for it while the cycle lasts.
LEMMA GroundsLast ==
  ASSUME Remember, phase' # "idle", UNCHANGED <<requests, cycleHead>>, NEW a, Grounds(a)
  PROVE  Grounds(a)'
  <1>1. held \subseteq held'
    BY Remembers
  <1>2. QED
    BY <1>1 DEF Grounds

LEMMA CycleKeepsEarned ==
  ASSUME TypeInv, SeenInv, HeldInv, EarnedInv, Cycle PROVE EarnedInv'
  <1>1. Remember
    BY DEF Cycle
  <1>2. CASE UNCHANGED <<markers, accepted>> /\ phase' \notin Decided
    BY <1>2 DEF EarnedInv, Decided
  <1>3. EndCycle => phase' \notin Decided
    BY DEF EndCycle, Decided
  <1>4. CASE StartCycle \/ Read \/ Guard \/ Watch \/ SkipDispatch \/ CycleDies
    BY <1>2, <1>4 DEF StartCycle, Read, Guard, Watch, GuardStops, SkipDispatch, CycleDies,
                      EndCycle, Continue, Decided, written
  <1>5. CASE EnsureSecurityStop \/ RequestReview
    BY <1>2, <1>3, <1>5 DEF EnsureSecurityStop, RequestReview, written
  <1>6. CASE Decide
    <2>1. /\ UNCHANGED <<requests, markers, accepted, cycleHead>> /\ DOMAIN seen = PullReads
          /\ phase' = "label" /\ action' \in NextAction(cycleHead)
      BY <1>6 DEF Decide, written
    <2>2. action' \in Reasons => Grounds(action')
      BY <2>1, DecideEarns
    <2>3. held \subseteq held'
      BY <1>1, <2>1, Remembers
    <2>4. action' \in Reasons => Grounds(action)'
      BY <2>1, <2>2, <2>3 DEF Grounds
    <2>5. QED
      BY <2>1, <2>4 DEF EarnedInv
  <1>7. CASE PostLabel
    <2>1. /\ UNCHANGED <<requests, markers, accepted>>
          /\ phase = "label" /\ (EndCycle \/ Continue("act"))
      BY <1>7 DEF PostLabel
    <2>2. CASE Continue("act")
      <3>1. /\ phase' = "act" /\ UNCHANGED <<cycleHead, action>>
            /\ action \in Reasons => Grounds(action)
        BY <2>1, <2>2 DEF Continue, EarnedInv, Decided
      <3>2. action \in Reasons => Grounds(action)'
        BY <1>1, <2>1, <3>1 DEF Grounds, Remember
      <3>3. QED
        BY <2>1, <3>1, <3>2 DEF EarnedInv
    <2>3. QED
      BY <1>2, <1>3, <2>1, <2>2
  <1>8. CASE Trigger
    <2>1. /\ phase = "act" /\ action \in Reasons /\ UNCHANGED <<requests, markers>>
          /\ accepted' = accepted \cup {<<action, cycleHead>>}
          /\ Continue("mark") \/ EndCycle
      BY <1>8 DEF Trigger
    <2>2. Grounds(action)
      BY <2>1 DEF EarnedInv, Decided
    <2>3. markers' \subseteq accepted'
      BY <2>1 DEF EarnedInv
    <2>4. CASE Continue("mark")
      <3>1. phase' = "mark" /\ UNCHANGED <<cycleHead, action>>
        BY <2>4 DEF Continue
      <3>2. Grounds(action)'
        BY <1>1, <2>1, <2>2, <3>1 DEF Grounds, Remember
      <3>3. QED
        BY <2>1, <2>3, <3>1, <3>2 DEF EarnedInv
    <2>5. QED
      BY <1>3, <2>1, <2>3, <2>4 DEF EarnedInv, Decided
  <1>9. CASE PostMarker
    <2>1. /\ phase = "mark" /\ EndCycle /\ UNCHANGED accepted
          /\ markers' = markers \cup {<<action, cycleHead>>}
      BY <1>9 DEF PostMarker
    <2>2. markers' \subseteq accepted'
      BY <2>1 DEF EarnedInv
    <2>3. QED
      BY <1>3, <2>1, <2>2 DEF EarnedInv, Decided
  <1>10. QED
    BY <1>4, <1>5, <1>6, <1>7, <1>8, <1>9 DEF Cycle

LEMMA OthersKeepEarned ==
  ASSUME EarnedInv, SeenInv, UNCHANGED vars \/ (UNCHANGED <<cycle, written>> /\ Remember)
  PROVE  EarnedInv'
  <1>1. UNCHANGED <<phase, cycleHead, action, requests, markers, accepted>>
    BY DEF vars, cycle, written
  <1>2. phase # "idle" => held \subseteq held'
    BY <1>1 DEF vars, Remember
  <1>3. phase \in Decided /\ action \in Reasons => Grounds(action)'
    BY <1>1, <1>2 DEF EarnedInv, Grounds, Decided
  <1>4. QED
    BY <1>1, <1>3 DEF EarnedInv

LEMMA EarnedAlways == Spec => []EarnedInv
  <1>1. Init => EarnedInv
    BY DEF Init, EarnedInv, Decided
  <1>2. TypeInv /\ SeenInv /\ HeldInv /\ EarnedInv /\ [Next]_vars => EarnedInv'
    BY OthersKeepEarned, CycleKeepsEarned DEF Next, PullRequest, Stopping, Gate
  <1>3. QED
    BY <1>1, <1>2, TypeAlways, SeenAlways, HeldAlways, PTL DEF Spec

\* Every dispatch is for the commit the cycle began with and for what was so of that commit
\* while the cycle asked, and a marker stands for a dispatch.
THEOREM DispatchesEarned == Spec => DispatchIsEarned
  <1>1. EarnedInv /\ EarnedInv' /\ [Next]_vars =>
          [ /\ markers' \subseteq accepted'
            /\ \A reason \in Reasons, h \in Heads :
                 <<reason, h>> \in accepted' \ accepted => h = cycleHead /\ Grounds(reason) ]_vars
    <2> SUFFICES ASSUME EarnedInv, EarnedInv', Next, NEW reason \in Reasons, NEW h \in Heads,
                        <<reason, h>> \in accepted' \ accepted
                 PROVE  h = cycleHead /\ Grounds(reason)
      BY DEF EarnedInv
    <2>1. Trigger
      BY DEF Next, PullRequest, Stopping, Gate, Cycle, EnsureSecurityStop, StartCycle, Read, Guard,
             Watch, Decide, PostLabel, RequestReview, SkipDispatch, PostMarker, CycleDies, written
    <2>2. reason = action /\ h = cycleHead /\ phase = "act"
      BY <2>1 DEF Trigger
    <2>3. QED
      BY <2>2 DEF EarnedInv, Decided
  <1>2. QED
    BY <1>1, EarnedAlways, PTL DEF Spec, DispatchIsEarned
================================================================================
