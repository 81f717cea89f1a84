------------------------------ MODULE PullRequests ------------------------------
(***************************************************************************)
(* One pull request under the merge gates and the autonomy supervisor, and   *)
(* the security stops that halt the latter.  Gate runs overlap each other    *)
(* and everything else; the cycles of the supervisor and the watchdog share  *)
(* one concurrency group.  Each of them asks GitHub several questions, while *)
(* pushes, reviews, checks and the owner go on.                              *)
(*                                                                         *)
(* The pull request's commits are numbered in the order they are pushed: its *)
(* branch only moves forward.  Every answer a decision rests on is a step,   *)
(* and the requests of one Promise.all are answered in any order; only the   *)
(* supervisor's own comments, which nothing else writes, are read together   *)
(* with the decision.  The delays before the supervisor acts only postpone   *)
(* it: whether one is over is left open.                                     *)
(*                                                                         *)
(* Dispatches are those of the supervisor.  The workflow                     *)
(* dispatch-pr-merge-gate.yml triggers the Workspace Agent as well, at each   *)
(* review and each validate run, whatever the stops and the files say: it     *)
(* changes nothing here, and no property speaks of it.                       *)
(***************************************************************************)
EXTENDS Naturals

CONSTANTS
  NHeads,        \* bound: the commits pushed, 1 .. NHeads
  Runs,          \* gate jobs that may be under way at a time
  MaxRequests,   \* MAX_CLAUDE_REQUESTS
  MaxEvents      \* bound: changes of the pull request and of the stops, gate jobs and cycles

ASSUME BoundsAssumption ==
  NHeads \in Nat \ {0} /\ MaxRequests \in Nat \ {0} /\ MaxEvents \in Nat

Heads == 1 .. NHeads
Reasons == {"checks-failed", "review-rejected", "merge-ready", "review-stalled"}

VARIABLES
  head,         \* the pull request's head commit
  sensitive,    \* the commits at which it changes protected automation
  disposed,     \* the commits the owner has posted a disposition for
  ci,           \* the check runs of each commit but for the gates, together
  gates,        \* the result last published for each gate and commit
  verdict,      \* what the latest genuine Claude review of each commit says
  unresolved,   \* a review thread is unresolved
  stop,         \* canonical issue #66: "cleared" by the owner, "open", or closed by another
  otherStop,    \* another issue carries the stop's label and the owner has not closed it
  events,       \* how many of them there have been
  run,          \* the gate jobs
  phase, cycleHead, action,   \* the supervisor's or watchdog's cycle
  seen,         \* what GitHub has answered it since its last decision
  requests,     \* @claude requests for each commit
  markers,      \* dispatch markers on the pull request: reason and commit
  blocked,      \* it is labelled autonomy-blocked
  accepted,     \* history: dispatches the Workspace Agent accepted
  cleared,      \* history: commits a review ever accepted
  held          \* history: what was so at some time while the cycle was asking about it

source == <<head, sensitive, disposed, ci, verdict, unresolved, cleared>>
stopping == <<stop, otherStop>>
cycle == <<phase, cycleHead, action, seen>>
written == <<requests, markers, blocked, accepted>>
vars == <<source, stopping, events, gates, run, cycle, written, held>>

\* A review that is missing and one that is inconclusive count the same.
Verdicts == {"missing", "accepted", "rejected"}
Actions == Reasons \cup {"wait", "request-review"}
NoRun == [gate |-> "none", sha |-> 1, at |-> 0, files |-> 0, found |-> {}, ok |-> "unknown"]

\* What a cycle asks GitHub: before it works on anything, and for the pull request.
WatchReads == {"stop", "otherStop"}
GuardReads == {"stop", "otherStop", "files"}
PullReads == {"checks", "verdict", "threads"}
Answers == {"cleared", "open", "foreign", "raised", "protected", "plain", "pending", "failed",
            "passed", "resolved", "unresolved"} \cup Verdicts
Nothing == [t \in {} |-> "pending"]

\* What a cycle may act on.
Facts ==
  {<<"stop", "cleared">>, <<"otherStop", "cleared">>, <<"checks", "passed">>, <<"checks", "failed">>,
   <<"threads", "resolved">>, <<"threads", "unresolved">>} \cup ({"verdict"} \X Verdicts)

TypeOK ==
  /\ head \in Heads
  /\ sensitive \subseteq Heads /\ disposed \subseteq Heads
  /\ ci \in [Heads -> {"none", "pending", "passed", "failed"}]
  /\ gates \in [{"security", "review"} -> [Heads -> {"none", "success", "failure"}]]
  /\ verdict \in [Heads -> Verdicts]
  /\ unresolved \in BOOLEAN /\ otherStop \in BOOLEAN
  /\ events \in Nat
  /\ stop \in {"cleared", "open", "foreign"}
  /\ run \in [Runs -> [gate : {"none", "security", "review"}, sha : Heads, at : Heads \cup {0},
                       files : Heads \cup {0}, ok : {"unknown", "success", "failure"},
                       found : SUBSET {"stop", "otherStop", "accepted", "resolved"}]]
  /\ phase \in {"idle", "guard", "watch", "ensure", "read", "label", "act", "mark"}
  /\ cycleHead \in Heads /\ action \in Actions
  /\ DOMAIN seen \subseteq GuardReads \cup PullReads
  /\ \A t \in DOMAIN seen : seen[t] \in Answers
  /\ requests \in [Heads -> 0 .. MaxRequests]
  /\ markers \subseteq Reasons \X Heads /\ accepted \subseteq Reasons \X Heads
  /\ blocked \in BOOLEAN
  /\ cleared \subseteq Heads
  /\ held \subseteq Facts

Init ==
  /\ head = 1
  /\ sensitive \in SUBSET Heads /\ disposed = {}
  /\ \E s \in {"none", "passed"} : ci = [h \in Heads |-> IF h = 1 THEN s ELSE "none"]
  /\ gates = [g \in {"security", "review"} |-> [h \in Heads |-> "none"]]
  /\ verdict = [h \in Heads |-> "missing"]
  /\ unresolved = FALSE /\ otherStop = FALSE
  /\ events = 0
  /\ stop = "cleared"
  /\ run = [r \in Runs |-> NoRun]
  /\ phase = "idle" /\ cycleHead = 1 /\ action = "wait" /\ seen = Nothing
  /\ requests = [h \in Heads |-> 0]
  /\ markers = {} /\ accepted = {} /\ blocked = FALSE
  /\ cleared = {} /\ held = {}

--------------------------------------------------------------------------------
(* What GitHub answers *)

\* checkState leaves out only Claude's own check run: the gates' are check runs like the
\* others, and with no check run at all the commit waits.
Pending(h) ==
  ci[h] = "pending" \/ (ci[h] = "none" /\ \A g \in {"security", "review"} : gates[g][h] = "none")

\* checkState is "failed", and not isOnlyReviewGateFailing.
Failed(h) == ~Pending(h) /\ (ci[h] = "failed" \/ gates["security"][h] = "failure")

\* The answer to each question, for a cycle that began with head h; the files are those of
\* whatever is the head by now.
Answer(t, h) ==
  CASE t = "stop" -> stop
    [] t = "otherStop" -> IF otherStop THEN "raised" ELSE "cleared"
    [] t = "files" -> IF head \in sensitive THEN "protected" ELSE "plain"
    [] t = "checks" -> IF Pending(h) THEN "pending" ELSE IF Failed(h) THEN "failed" ELSE "passed"
    [] t = "verdict" -> verdict[h]
    [] t = "threads" -> IF unresolved THEN "unresolved" ELSE "resolved"

\* History: which of it is so while the cycle has its questions out, whatever is answered.
Asking ==
  CASE phase \in {"guard", "watch"} -> WatchReads
    [] phase = "read" -> PullReads
    [] OTHER -> {}
Remember ==
  held' = IF phase' = "idle" THEN {}
          ELSE held \cup (Facts \cap {<<t, Answer(t, cycleHead)'>> : t \in Asking'})

--------------------------------------------------------------------------------
(* The pull request, its reviewers and the owner *)

Push ==
  /\ head < NHeads /\ head' = head + 1
  /\ UNCHANGED <<sensitive, disposed, ci, verdict, unresolved, cleared>>

\* A check run starts, completes, or is started again, whatever it came to before.
ChecksChange ==
  /\ \E h \in 1 .. head, s \in {"pending", "passed", "failed"} : ci' = [ci EXCEPT ![h] = s]
  /\ UNCHANGED <<head, sensitive, disposed, verdict, unresolved, cleared>>

\* exactHeadClaudeVerdict after a review of commit h, which need not be the head any more.
Review ==
  /\ \E h \in 1 .. head, v \in Verdicts :
       /\ verdict' = [verdict EXCEPT ![h] = v]
       /\ cleared' = IF v = "accepted" THEN cleared \cup {h} ELSE cleared
  /\ unresolved' \in {unresolved, TRUE}
  /\ UNCHANGED <<head, sensitive, disposed, ci>>

ResolveThreads ==
  /\ unresolved /\ unresolved' = FALSE
  /\ UNCHANGED <<head, sensitive, disposed, ci, verdict, cleared>>

\* The owner's comment names the pull request and the commit.
PostDisposition ==
  /\ head \in sensitive \ disposed /\ disposed' = disposed \cup {head}
  /\ UNCHANGED <<head, sensitive, ci, verdict, unresolved, cleared>>

PullRequest ==
  /\ events < MaxEvents /\ events' = events + 1
  /\ Push \/ ChecksChange \/ Review \/ ResolveThreads \/ PostDisposition
  /\ UNCHANGED <<gates, stopping, run, cycle, written>>
  /\ Remember

RaiseStop ==
  \/ stop' = "open" /\ UNCHANGED otherStop
  \/ otherStop' = TRUE /\ UNCHANGED stop

CloseStopByAnother == stop = "open" /\ stop' = "foreign" /\ UNCHANGED otherStop

\* The owner closes one issue at a time, after opening again what another has closed.
CloseStopByOwner ==
  \/ stop # "cleared" /\ stop' = "cleared" /\ UNCHANGED otherStop
  \/ otherStop /\ otherStop' = FALSE /\ UNCHANGED stop

Stopping ==
  /\ events < MaxEvents /\ events' = events + 1
  /\ RaiseStop \/ CloseStopByAnother \/ CloseStopByOwner
  /\ UNCHANGED <<source, gates, run, cycle, written>>
  /\ Remember

--------------------------------------------------------------------------------
(* Merge gates: merge-gates.yml, security-gate.js and review-gate.js *)

\* What speaks for a gate at this moment, of what it asks for besides the files and the
\* owner's disposition; the review gate asks for the reviews of the head it has read.
InFavour(j) ==
  CASE j.gate = "security" -> {t \in WatchReads : Answer(t, j.sha) = "cleared"}
    [] j.gate = "review" /\ j.at # 0 ->
         {Answer("verdict", j.at), Answer("threads", j.at)} \cap {"accepted", "resolved"}
    [] OTHER -> {}

\* securityGateDecision and reviewGateDecision, on what a job has read.
SecurityGatePasses(j) ==
  WatchReads \subseteq j.found /\ (j.files \in sensitive => j.at \in disposed)
ReviewGatePasses(j) == {"accepted", "resolved"} \subseteq j.found

\* The step that resolves the commit the result will be published for.
Resolve(r) ==
  /\ run[r].gate = "none" /\ events < MaxEvents /\ events' = events + 1
  /\ \E g \in {"security", "review"} :
       run' = [run EXCEPT ![r] = [NoRun EXCEPT !.gate = g, !.sha = head]]
  /\ UNCHANGED gates

\* The gate asks for the pull request again, and the security gate for its files.
ReadPull(r) ==
  /\ run[r].gate # "none" /\ run[r].at = 0 /\ run[r].ok = "unknown"
  /\ run' = [run EXCEPT ![r].at = head]
  /\ UNCHANGED gates

ReadFiles(r) ==
  /\ run[r].gate = "security" /\ run[r].files = 0 /\ run[r].ok = "unknown"
  /\ run' = [run EXCEPT ![r].files = head]
  /\ UNCHANGED gates

\* One more answer that speaks for it; one that does not can only make it a failure.
ReadEvidence(r) ==
  /\ run[r].ok = "unknown"
  /\ \E fact \in InFavour(run[r]) \ run[r].found : run' = [run EXCEPT ![r].found = @ \cup {fact}]
  /\ UNCHANGED gates

\* The decision; a request that fails is a failure.
Evaluates(r, ok) ==
  run' = [run EXCEPT ![r] = [NoRun EXCEPT !.gate = run[r].gate, !.sha = run[r].sha, !.ok = ok]]

Evaluate(r) ==
  /\ run[r].gate # "none" /\ run[r].ok = "unknown" /\ UNCHANGED gates
  /\ \/ Evaluates(r, "failure")
     \/ /\ run[r].gate = "security" /\ run[r].at # 0 /\ run[r].files # 0
        /\ SecurityGatePasses(run[r]) /\ Evaluates(r, "success")
     \/ /\ run[r].gate = "review" /\ run[r].at # 0
        /\ ReviewGatePasses(run[r]) /\ Evaluates(r, "success")

\* Mutant: the result is published for the head of the moment.
Publish_Latest(r) ==
  /\ run[r].ok # "unknown"
  /\ gates' = [gates EXCEPT ![run[r].gate][head] = run[r].ok]
  /\ run' = [run EXCEPT ![r] = NoRun]

Publish(r) ==
  /\ run[r].ok # "unknown"
  /\ gates' = [gates EXCEPT ![run[r].gate][run[r].sha] = run[r].ok]
  /\ run' = [run EXCEPT ![r] = NoRun]

\* The job is cancelled, times out, or cannot publish.
JobDies(r) == run[r].gate # "none" /\ run' = [run EXCEPT ![r] = NoRun] /\ UNCHANGED gates

Gate(r) ==
  /\ \/ Resolve(r)
     \/ /\ \/ ReadPull(r) \/ ReadFiles(r) \/ ReadEvidence(r)
           \/ Evaluate(r) \/ Publish(r) \/ JobDies(r)
        /\ UNCHANGED events
  /\ UNCHANGED <<source, stopping, cycle, written>>
  /\ Remember

--------------------------------------------------------------------------------
(* nextPullRequestAction, on what was read for the head the cycle began with *)

Unanswered == seen["verdict"] \notin {"accepted", "rejected"}

\* Mutant: the limit of requests is not looked at.
AsksAgain_Unlimited(h) == Unanswered

AsksAgain(h) == Unanswered /\ requests[h] < MaxRequests

\* "wait" is open wherever a delay may not be over: after a failure, an acceptance or a
\* request.
NextAction(h) ==
  {a \in Actions :
    \/ seen["checks"] = "pending" /\ a = "wait"
    \/ seen["checks"] = "failed" /\ a \in {"checks-failed", "wait"}
    \/ /\ seen["checks"] = "passed"
       /\ \/ /\ seen["verdict"] = "accepted" /\ seen["threads"] = "resolved"
             /\ a \in {"merge-ready", "wait"}
          \/ seen["verdict"] = "accepted" /\ seen["threads"] = "unresolved" /\ a = "review-rejected"
          \/ seen["verdict"] = "rejected" /\ a = "review-rejected"
          \/ AsksAgain(h) /\ a = "request-review"
          \/ Unanswered /\ requests[h] > 0 /\ a = "wait"
          \/ Unanswered /\ requests[h] >= MaxRequests /\ a = "review-stalled"}

--------------------------------------------------------------------------------
(* runSupervisor and runWatchdog *)

EndCycle == phase' = "idle" /\ cycleHead' = 1 /\ action' = "wait" /\ seen' = Nothing

Continue(step) == phase' = step /\ seen' = Nothing /\ UNCHANGED <<cycleHead, action>>

\* The open pull requests are read, with their heads.
StartCycle ==
  /\ phase = "idle" /\ phase' \in {"guard", "watch"}
  /\ events < MaxEvents /\ events' = events + 1
  /\ cycleHead' = head
  /\ UNCHANGED <<action, seen, written>>

\* Mutant: the reviews and checks are asked for of the head of the moment.
Reads_Fresh(t) ==
  seen' = [u \in DOMAIN seen \cup {t} |-> IF u = t THEN Answer(t, head) ELSE seen[u]]

\* The answer to one of the questions of a Promise.all.
Reads(t) ==
  seen' = [u \in DOMAIN seen \cup {t} |-> IF u = t THEN Answer(t, cycleHead) ELSE seen[u]]

Read ==
  /\ \E t \in (GuardReads \cup PullReads) \ DOMAIN seen :
       /\ \/ phase = "guard" /\ t \in GuardReads
          \/ phase = "watch" /\ t \in WatchReads
          \/ phase = "read" /\ t \in PullReads
       /\ Reads(t)
  /\ UNCHANGED <<phase, cycleHead, action, written>>

\* Mutant: an issue that is closed no longer stops anything, whoever closed it.
GlobalReasons_OpenOnly == seen["stop"] = "open" \/ seen["otherStop"] = "raised"

\* globalSecurityStopReasons
GlobalReasons == seen["stop"] # "cleared" \/ seen["otherStop"] = "raised"

\* ensureSecurityStop opens issue #66 again if it was read as closed.
GuardStops ==
  /\ GlobalReasons
  /\ \/ seen["stop"] = "open" /\ EndCycle
     \/ seen["stop"] # "open" /\ Continue("ensure")

\* The supervisor goes on with a pull request that does not change protected automation.
Guard ==
  /\ phase = "guard" /\ DOMAIN seen = GuardReads /\ UNCHANGED written
  /\ \/ GuardStops
     \/ ~GlobalReasons /\ seen["files"] = "plain" /\ Continue("read")
     \/ ~GlobalReasons /\ seen["files"] = "protected" /\ EndCycle

Watch ==
  /\ phase = "watch" /\ DOMAIN seen = WatchReads /\ UNCHANGED written
  /\ GuardStops \/ (~GlobalReasons /\ EndCycle)

EnsureSecurityStop ==
  /\ phase = "ensure" /\ EndCycle
  /\ stop' = "open"
  /\ UNCHANGED <<otherStop, written>>

\* Mutant: the decision is taken for the head of the moment.
Decide_Fresh ==
  /\ phase = "read" /\ DOMAIN seen = PullReads /\ phase' = "label" /\ seen' = Nothing
  /\ cycleHead' = head /\ action' \in NextAction(head)
  /\ UNCHANGED written

\* The decision, with the requests and markers among the comments.
Decide ==
  /\ phase = "read" /\ DOMAIN seen = PullReads /\ phase' = "label" /\ seen' = Nothing
  /\ action' \in NextAction(cycleHead)
  /\ UNCHANGED <<cycleHead, written>>

\* blockedLabelAction comes before what was decided.
PostLabel ==
  /\ phase = "label"
  /\ blocked' = (action = "review-stalled")
  /\ \/ action = "wait" /\ EndCycle
     \/ action # "wait" /\ Continue("act")
  /\ UNCHANGED <<requests, markers, accepted>>

\* The comment that asks Claude is posted; the answer does not matter any more.
RequestReview ==
  /\ phase = "act" /\ action = "request-review" /\ EndCycle
  /\ requests' = [requests EXCEPT ![cycleHead] = @ + 1]
  /\ UNCHANGED <<markers, blocked, accepted>>

\* dispatchForPullRequest: nothing to do if the marker is there.
SkipDispatch ==
  /\ phase = "act" /\ <<action, cycleHead>> \in markers /\ EndCycle
  /\ UNCHANGED written

\* The agent accepts; the answer is 202, or it is lost and the cycle moves on.
Trigger ==
  /\ phase = "act" /\ action \in Reasons /\ <<action, cycleHead>> \notin markers
  /\ accepted' = accepted \cup {<<action, cycleHead>>}
  /\ Continue("mark") \/ EndCycle
  /\ UNCHANGED <<requests, markers, blocked>>

PostMarker ==
  /\ phase = "mark" /\ EndCycle
  /\ markers' = markers \cup {<<action, cycleHead>>}
  /\ UNCHANGED <<requests, blocked, accepted>>

\* A request fails without effect, the pull request is a draft or its files cannot be
\* read, the job is cancelled or times out.
CycleDies == phase # "idle" /\ EndCycle /\ UNCHANGED written

Cycle ==
  /\ UNCHANGED <<source, gates, run>>
  /\ \/ StartCycle /\ UNCHANGED stopping
     \/ EnsureSecurityStop /\ UNCHANGED events
     \/ /\ UNCHANGED <<stopping, events>>
        /\ \/ Read \/ Guard \/ Watch \/ Decide \/ PostLabel
           \/ RequestReview \/ SkipDispatch \/ Trigger \/ PostMarker \/ CycleDies
  /\ Remember

Next == PullRequest \/ Stopping \/ Cycle \/ \E r \in Runs : Gate(r)

Spec == Init /\ [][Next]_vars

--------------------------------------------------------------------------------
(* Properties *)

\* A gate that is green for the head is green because of the head: the job resolves the
\* commit, reads the pull request again and its files in requests of their own, and
\* pushes in between never put the result of one commit on a later one.
GreenGateIsOfTheHead ==
  /\ gates["review"][head] = "success" => head \in cleared
  /\ gates["security"][head] = "success" /\ head \in sensitive => head \in disposed

\* While the head changes protected automation the supervisor has neither asked for a review
\* of it nor dispatched anything for it, although it reads the head before the files.
ProtectedHeadIsLeftAlone ==
  head \in sensitive =>
    requests[head] = 0 /\ \A reason \in Reasons : <<reason, head>> \notin accepted

\* What speaks for a reason: each part of it was so of the commit the cycle began with, at
\* some time while the cycle was asking for it.
Grounds(reason) ==
  /\ reason = "checks-failed" => <<"checks", "failed">> \in held
  /\ reason # "checks-failed" => <<"checks", "passed">> \in held
  /\ reason = "merge-ready" => {<<"verdict", "accepted">>, <<"threads", "resolved">>} \subseteq held
  /\ reason = "review-rejected" =>
       \/ <<"verdict", "rejected">> \in held
       \/ {<<"verdict", "accepted">>, <<"threads", "unresolved">>} \subseteq held
  /\ reason = "review-stalled" =>
       /\ <<"verdict", "missing">> \in held /\ requests[cycleHead] = MaxRequests

\* What the agent is told of a commit was so of that commit, not of one pushed before or
\* after it, while the cycle that tells it was asking: its checks, its review, the threads and
\* the number of requests, each at a time of its own; and a marker stands for a dispatch.
DispatchIsEarned ==
  [][ /\ markers' \subseteq accepted'
      /\ \A reason \in Reasons, h \in Heads :
           <<reason, h>> \in accepted' \ accepted => h = cycleHead /\ Grounds(reason) ]_vars

\* A cycle asks for a review, changes the label, dispatches or marks only if issue #66, and the
\* other stops, were each cleared at some time while it asked: what is raised all along, or
\* closed by anyone but the owner, stops it.  (They are asked for in two requests: they need
\* not have been cleared together.)
StopHolds ==
  [][ <<requests, blocked, markers, accepted>>' # <<requests, blocked, markers, accepted>>
        => WatchReads \X {"cleared"} \subseteq held ]_vars
================================================================================
