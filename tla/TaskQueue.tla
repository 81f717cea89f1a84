------------------------------- MODULE TaskQueue -------------------------------
(***************************************************************************)
(* The task queue of the autonomy supervisor.  A cycle of the workflow      *)
(* lists the queued issues and dispatches the Workspace Agent for the first *)
(* that is due.  What it knows of earlier cycles it reads back from the     *)
(* markers they left as comments, so a trigger, the marker that records it  *)
(* and the label are three requests that can fail, or take effect unseen,   *)
(* one by one.  Cycles never overlap: the workflow's concurrency group.     *)
(*                                                                         *)
(* Time is counted as ages, which stop growing where no decision tells them *)
(* apart.  A cycle stopped by the security stop changes nothing here.       *)
(***************************************************************************)
EXTENDS Naturals

CONSTANTS
  NTasks,          \* issues 1 .. NTasks, oldest first
  Parallel,        \* those that carry autonomy-parallel
  PullRequestStates,  \* of a task's linked pull request: "none", "draft", "ready"
  MaxDispatches,   \* MAX_TASK_DISPATCHES
  RetryDelay,      \* TASK_DISPATCH_RETRY_DELAY_MS, in ticks
  CycleLimit       \* the job's timeout-minutes, in ticks

ASSUME QueueAssumption ==
  /\ NTasks \in Nat
  /\ "none" \in PullRequestStates
  /\ MaxDispatches \in Nat \ {0}
  /\ RetryDelay \in Nat \ {0}
  /\ CycleLimit \in Nat

Tasks == 1 .. NTasks
Attempts == 1 .. MaxDispatches
AgeCap == RetryDelay + CycleLimit

VARIABLES
  queued,      \* open issues labelled autonomy-ready, not security-review or major-decision
  blocked,     \* issues labelled autonomy-blocked
  tagged,      \* issues labelled autonomy-dispatched
  pr,          \* the trusted pull request linked to a task; an idle draft counts as "none"
  markers,     \* dispatch markers on each issue
  age,         \* time since the last of them was written
  stalled,     \* issues with the task-dispatch-stalled marker
  accepted,    \* idempotency keys (attempts) the Workspace Agent accepted for a task
  acceptAge,   \* history: time since it accepted a key it had not seen
  phase, todo, attempt, dispatched,      \* the cycle under way
  paused, openPr, ticks,                 \* what it read at its start, and its age
  triggered    \* history: tasks whose trigger was accepted in this cycle

github == <<queued, blocked, tagged, pr, markers, age, stalled>>
agent == <<accepted, acceptAge, triggered>>
cycle == <<phase, todo, attempt, dispatched, paused, openPr, ticks>>
snapshot == <<paused, openPr, ticks>>
vars == <<github, agent, cycle>>

Phases == {"idle", "list", "examine", "trigger", "mark", "tag", "stall", "block"}

(* linkedPullRequestPausesTask *)
LinkedPullRequestPauses(t) == pr[t] # "none"

(* selectQueuedTasks, with the pull requests the cycle read at its start. *)
QueuedTasks ==
  {t \in queued \ blocked : openPr => t \in Parallel}

Oldest(t) == t \in todo /\ \A u \in todo : t <= u

(* nextTaskDispatchAction: age[t] - ticks is the marker's age when the cycle began. *)
MayDispatch(t) == markers[t] > 0 => age[t] >= RetryDelay + ticks

\* Mutant: a marker is taken for a licence to dispatch again at once.
DispatchDue_Unspaced(t) == markers[t] < MaxDispatches

\* Mutant: off by one, the limit itself is still dispatched.
DispatchDue_OneMore(t) == MayDispatch(t) /\ markers[t] <= MaxDispatches

DispatchDue(t) == MayDispatch(t) /\ markers[t] < MaxDispatches

\* Mutant: the last allowed attempt is never made.
BlockDue_Early(t) == MayDispatch(t) /\ markers[t] >= MaxDispatches - 1

\* Mutant: the task is blocked only beyond the limit, which no count reaches.
BlockDue_Never(t) == MayDispatch(t) /\ markers[t] > MaxDispatches

BlockDue(t) == MayDispatch(t) /\ markers[t] >= MaxDispatches

(* The process exits: its variables are gone. *)
EndCycle ==
  /\ phase' = "idle" /\ todo' = {} /\ attempt' = 1 /\ dispatched' = FALSE
  /\ paused' = {} /\ openPr' = FALSE /\ ticks' = 0

(* On to the next task: what was decided for this one is local to the loop's body. *)
Advance(t) ==
  IF todo = {t} THEN EndCycle
  ELSE /\ phase' = "examine" /\ todo' = todo \ {t} /\ attempt' = 1
       /\ UNCHANGED <<snapshot, dispatched>>

(* catch: the error is kept and the next task is tried, unless one was dispatched. *)
Caught(t) == IF dispatched THEN EndCycle ELSE Advance(t)

Init ==
  /\ queued \in SUBSET Tasks
  /\ blocked = {} /\ tagged = {} /\ stalled = {}
  /\ pr = [t \in Tasks |-> "none"]
  /\ markers = [t \in Tasks |-> 0]
  /\ age = [t \in Tasks |-> AgeCap]
  /\ accepted = [t \in Tasks |-> {}]
  /\ acceptAge = [t \in Tasks |-> RetryDelay]
  /\ phase = "idle" /\ todo = {} /\ attempt = 1 /\ dispatched = FALSE
  /\ paused = {} /\ openPr = FALSE /\ ticks = 0
  /\ triggered = {}

(* runSupervisor: the clock and the open pull requests are read once, first. *)
StartCycle ==
  /\ phase = "idle"
  /\ phase' = "list"
  /\ paused' = {t \in Tasks : LinkedPullRequestPauses(t)}
  /\ openPr' = (\E t \in Tasks : pr[t] = "ready")
  /\ ticks' = 0
  /\ dispatched' = FALSE
  /\ triggered' = {}
  /\ UNCHANGED <<github, accepted, acceptAge, todo, attempt>>

ListTasks ==
  /\ phase = "list"
  /\ IF QueuedTasks = {} THEN EndCycle
     ELSE /\ phase' = "examine" /\ todo' = QueuedTasks
          /\ UNCHANGED <<snapshot, attempt, dispatched>>
  /\ UNCHANGED <<github, agent>>

(* The comments are read once the linked pull request does not pause the task. *)
Examine(t) ==
  /\ phase = "examine" /\ Oldest(t)
  /\ \/ (t \in paused \/ ~ MayDispatch(t)) /\ Advance(t)
     \/ /\ t \notin paused /\ DispatchDue(t)
        /\ phase' = "trigger" /\ attempt' = markers[t] + 1
        /\ UNCHANGED <<snapshot, todo, dispatched>>
     \/ /\ t \notin paused /\ BlockDue(t)
        /\ phase' = "stall"
        /\ UNCHANGED <<snapshot, todo, attempt, dispatched>>
  /\ UNCHANGED <<github, agent>>

(* A read of the comments, or a comment or label, that throws without effect. *)
RequestFails(t) ==
  /\ phase \in {"examine", "stall", "block", "mark", "tag"} /\ Oldest(t)
  /\ phase = "stall" => t \notin stalled
  /\ Caught(t)
  /\ UNCHANGED <<github, agent>>

(* The Workspace Agent takes a key it has seen as the same run. *)
Accept(t) ==
  /\ accepted' = [accepted EXCEPT ![t] = @ \cup {attempt}]
  /\ acceptAge' = IF attempt \in accepted[t] THEN acceptAge
                  ELSE [acceptAge EXCEPT ![t] = 0]
  /\ triggered' = triggered \cup {t}

TriggerAccepted(t) ==
  /\ phase = "trigger" /\ Oldest(t)
  /\ Accept(t)
  /\ dispatched' = TRUE
  /\ phase' = "mark"
  /\ UNCHANGED <<github, snapshot, todo, attempt>>

(* The agent accepted; the answer was lost, or its body was not JSON. *)
TriggerUnconfirmed(t) ==
  /\ phase = "trigger" /\ Oldest(t)
  /\ Accept(t)
  /\ Caught(t)
  /\ UNCHANGED github

\* Mutant: any answer of the agent counts as an acceptance.
TriggerRefused_Unchecked(t) ==
  /\ phase = "trigger" /\ Oldest(t)
  /\ dispatched' = TRUE
  /\ phase' = "mark"
  /\ UNCHANGED <<github, agent, snapshot, todo, attempt>>

TriggerRefused(t) ==
  /\ phase = "trigger" /\ Oldest(t)
  /\ Caught(t)
  /\ UNCHANGED <<github, agent>>

WriteMarker(t) ==
  /\ markers' = [markers EXCEPT ![t] = @ + 1]
  /\ age' = [age EXCEPT ![t] = 0]

PostMarker(t) ==
  /\ phase = "mark" /\ Oldest(t)
  /\ WriteMarker(t)
  /\ phase' = "tag"
  /\ UNCHANGED <<queued, blocked, tagged, pr, stalled, agent, snapshot, todo, attempt, dispatched>>

(* The comment exists, but the supervisor is told that the request failed. *)
PostMarkerUnseen(t) ==
  /\ phase = "mark" /\ Oldest(t)
  /\ WriteMarker(t)
  /\ Caught(t)
  /\ UNCHANGED <<queued, blocked, tagged, pr, stalled, agent>>

(* The label ends the cycle (break), as an error would: dispatched is set. *)
PostDispatchedLabel(t) ==
  /\ phase = "tag" /\ Oldest(t)
  /\ tagged' = tagged \cup {t}
  /\ EndCycle
  /\ UNCHANGED <<queued, blocked, pr, markers, age, stalled, agent>>

(* hasMarker: no request is made when an earlier cycle recorded the stall. *)
RecordStall(t) ==
  /\ phase = "stall" /\ Oldest(t)
  /\ stalled' = stalled \cup {t}
  /\ phase' = "block"
  /\ UNCHANGED <<queued, blocked, tagged, pr, markers, age, agent, snapshot, todo, attempt, dispatched>>

RecordStallUnseen(t) ==
  /\ phase = "stall" /\ Oldest(t) /\ t \notin stalled
  /\ stalled' = stalled \cup {t}
  /\ Caught(t)
  /\ UNCHANGED <<queued, blocked, tagged, pr, markers, age, agent>>

(* A label that is set while the answer is lost leads to the same state. *)
PostBlockedLabel(t) ==
  /\ phase = "block" /\ Oldest(t)
  /\ blocked' = blocked \cup {t}
  /\ Advance(t)
  /\ UNCHANGED <<queued, tagged, pr, markers, age, stalled, agent>>

(* The job is cancelled at its time limit, or its runner is lost. *)
CycleDies ==
  /\ phase # "idle"
  /\ EndCycle
  /\ UNCHANGED <<github, agent>>

Older(a, cap) == [t \in Tasks |-> IF a[t] < cap THEN a[t] + 1 ELSE cap]

Tick ==
  /\ phase # "idle" => ticks < CycleLimit
  /\ ticks' = IF phase = "idle" THEN ticks ELSE ticks + 1
  /\ age' = Older(age, AgeCap)
  /\ acceptAge' = Older(acceptAge, RetryDelay)
  /\ UNCHANGED <<queued, blocked, tagged, pr, markers, stalled, accepted, triggered,
                 phase, todo, attempt, dispatched, paused, openPr>>

(* The issue is queued; or it is closed, unlabelled or held for the owner. *)
EnterQueue(t) ==
  /\ t \notin queued /\ queued' = queued \cup {t}
  /\ UNCHANGED <<blocked, tagged, pr, markers, age, stalled, agent, cycle>>

LeaveQueue(t) ==
  /\ t \in queued /\ queued' = queued \ {t}
  /\ UNCHANGED <<blocked, tagged, pr, markers, age, stalled, agent, cycle>>

Unblock(t) ==
  /\ t \in blocked /\ blocked' = blocked \ {t}
  /\ UNCHANGED <<queued, tagged, pr, markers, age, stalled, agent, cycle>>

ChangePullRequest(t) ==
  /\ \E p \in PullRequestStates \ {pr[t]} : pr' = [pr EXCEPT ![t] = p]
  /\ UNCHANGED <<queued, blocked, tagged, markers, age, stalled, agent, cycle>>

Cycle(t) ==
  \/ Examine(t) \/ RequestFails(t)
  \/ TriggerAccepted(t) \/ TriggerUnconfirmed(t) \/ TriggerRefused(t)
  \/ PostMarker(t) \/ PostMarkerUnseen(t) \/ PostDispatchedLabel(t)
  \/ RecordStall(t) \/ RecordStallUnseen(t) \/ PostBlockedLabel(t)

Surroundings(t) ==
  EnterQueue(t) \/ LeaveQueue(t) \/ Unblock(t) \/ ChangePullRequest(t)

Next ==
  \/ StartCycle \/ ListTasks \/ CycleDies \/ Tick
  \/ \E t \in Tasks : Cycle(t) \/ Surroundings(t)

Spec == Init /\ [][Next]_vars

(* The schedule starts cycle after cycle, the time limit ends a job that hangs, *)
(* and time passes; a request made over and over does not fail every time.      *)
Fairness ==
  /\ WF_vars(StartCycle) /\ WF_vars(CycleDies)
  /\ SF_vars(Tick) /\ SF_vars(ListTasks)
  /\ SF_vars(\E t \in Tasks : TriggerAccepted(t))
  /\ SF_vars(\E t \in Tasks : PostMarker(t))
  /\ \A t \in Tasks :
       SF_vars(Examine(t)) /\ SF_vars(RecordStall(t)) /\ SF_vars(PostBlockedLabel(t))

FairSpec == Spec /\ Fairness

--------------------------------------------------------------------------------
(* Properties *)

TypeOK ==
  /\ queued \subseteq Tasks /\ blocked \subseteq Tasks /\ tagged \subseteq Tasks
  /\ stalled \subseteq Tasks
  /\ pr \in [Tasks -> PullRequestStates]
  /\ markers \in [Tasks -> 0 .. MaxDispatches]
  /\ age \in [Tasks -> 0 .. AgeCap]
  /\ accepted \in [Tasks -> SUBSET Attempts]
  /\ acceptAge \in [Tasks -> 0 .. RetryDelay]
  /\ phase \in Phases
  /\ todo \subseteq Tasks
  /\ attempt \in Attempts
  /\ dispatched \in BOOLEAN /\ openPr \in BOOLEAN
  /\ paused \subseteq Tasks
  /\ ticks \in 0 .. CycleLimit
  /\ triggered \subseteq Tasks

\* What the supervisor writes on an issue is true: n dispatch markers stand for n
\* accepted attempts, the label autonomy-dispatched for at least one, and the stall
\* record and autonomy-blocked for all the attempts that are allowed.
RecordsAreTrue ==
  \A t \in Tasks :
    /\ 1 .. markers[t] \subseteq accepted[t]
    /\ t \in tagged => accepted[t] # {}
    /\ t \in stalled \cup blocked => accepted[t] = Attempts

\* A new run of the agent for a task starts no sooner than the retry delay after the
\* run before it, however late, lost or repeated the marker that recorded that one is.
RetriesAreSpaced ==
  [][ \A t \in Tasks :
        accepted'[t] # accepted[t] /\ accepted[t] # {} => acceptAge[t] >= RetryDelay ]_vars

\* Once a cycle knows that a task was dispatched it triggers nothing more, even when
\* the marker or the label that should follow fails.
QuietOnceDispatched ==
  [][ dispatched /\ dispatched' => triggered' = triggered ]_vars

\* A task the queue could take.
Waiting(t) ==
  /\ t \in queued \ blocked
  /\ pr[t] = "none"
  /\ t \in Parallel \/ \A u \in Tasks : pr[u] # "ready"

\* No task waits for ever: dispatches that go unanswered end with autonomy-blocked,
\* and no older task, whatever becomes of it, keeps a younger one waiting.
NoTaskWaitsForEver == \A t \in Tasks : []<>~ Waiting(t)

\* The promise of the queue: attempts in order, a bounded number, given up at the end.
Promise == INSTANCE BoundedRetry WITH
  MaxAttempts <- MaxDispatches, attempts <- accepted, givenUp <- stalled

\* The markers, labels and cycles of the code keep that promise.
ImplementsBoundedRetry == Promise!Spec

--------------------------------------------------------------------------------
(* A statement of the repository that the code does not keep *)

\* docs/autonomy-supervisor.md:9 "At most one accepted Workspace Agent task trigger
\* occurs per supervisor cycle, even if the later GitHub marker or label write fails."
OneTriggerPerCycle == \A t, u \in triggered : t = u
================================================================================
