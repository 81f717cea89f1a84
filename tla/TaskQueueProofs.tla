---------------------------- MODULE TaskQueueProofs ----------------------------
(***************************************************************************)
(* Theorems about TaskQueue, for every value of its constants: any number   *)
(* of tasks, any limit on the attempts, any retry delay and job time limit. *)
(***************************************************************************)
EXTENDS TaskQueue, TLAPS

(***************************************************************************)
(* The inductive invariant.                                                 *)
(***************************************************************************)

\* The attempts accepted for a task are those its markers record, and at most one more.
AcceptedAttempts(t) ==
  \/ accepted[t] = 1 .. markers[t]
  \/ markers[t] < MaxDispatches /\ accepted[t] = 1 .. (markers[t] + 1)

\* The labels and the stall record of a task are true of its markers.
LabelsAndMarkers(t) ==
  /\ t \in tagged => markers[t] > 0
  /\ t \in stalled \cup blocked => markers[t] = MaxDispatches

\* What the cycle under way has decided for its task still holds.
Decided(t) ==
  /\ phase \in {"trigger", "mark"} =>
       /\ attempt = markers[t] + 1
       /\ markers[t] > 0 => age[t] >= RetryDelay
  /\ phase = "mark" => attempt \in accepted[t]
  /\ phase = "tag" => markers[t] > 0
  /\ phase \in {"stall", "block"} => markers[t] = MaxDispatches

\* A marker is never older than the acceptance it records.
MarkerFollows(t) ==
  markers[t] > 0 /\ accepted[t] = 1 .. markers[t] =>
    acceptAge[t] >= RetryDelay \/ acceptAge[t] >= age[t]

QueueInv ==
  /\ \A t \in Tasks : AcceptedAttempts(t) /\ LabelsAndMarkers(t) /\ MarkerFollows(t)
  /\ \A t \in todo : Oldest(t) => Decided(t)
  /\ dispatched => phase \in {"mark", "tag"}

(***************************************************************************)
(* Intervals of attempts.                                                   *)
(***************************************************************************)

\* One more attempt: the interval grows by it, and it was not there before.
LEMMA OneMore ==
  ASSUME NEW n \in Nat
  PROVE  /\ (1 .. n) \cup {n + 1} = 1 .. (n + 1)
         /\ n + 1 \notin 1 .. n /\ n + 1 \in 1 .. (n + 1)
         /\ 1 .. n # 1 .. (n + 1)
         /\ 1 .. n \subseteq 1 .. (n + 1)
  <1>1. (1 .. n) \cup {n + 1} = 1 .. (n + 1)
    OBVIOUS
  <1>2. n + 1 \notin 1 .. n /\ n + 1 \in 1 .. (n + 1)
    OBVIOUS
  <1>3. QED
    BY <1>1, <1>2

\* There is one oldest task.
LEMMA OneOldest ==
  ASSUME todo \subseteq Tasks, NEW t \in todo, NEW u \in todo, Oldest(t), Oldest(u)
  PROVE  t = u
  BY DEF Oldest, Tasks

(***************************************************************************)
(* Type correctness.                                                        *)
(***************************************************************************)

\* The ways a cycle goes on or ends keep the types of its variables.
LEMMA CycleTyped ==
  ASSUME TypeOK, NEW t \in Tasks, EndCycle \/ Advance(t) \/ Caught(t)
  PROVE  /\ phase' \in {"idle", "examine"} /\ todo' \subseteq Tasks /\ attempt' \in Attempts
         /\ dispatched' \in BOOLEAN /\ openPr' \in BOOLEAN
         /\ paused' \subseteq Tasks /\ ticks' \in 0 .. CycleLimit
         /\ phase' = "idle" => dispatched' = FALSE
         /\ phase' = "idle" \/ dispatched' = dispatched
         /\ phase' = "examine" => ~ dispatched \/ Advance(t)
  <1>1. 1 \in Attempts /\ 0 \in 0 .. CycleLimit
    BY QueueAssumption DEF Attempts
  <1>2. CASE EndCycle
    BY <1>1, <1>2 DEF EndCycle
  <1>3. CASE Advance(t)
    BY <1>1, <1>2, <1>3 DEF Advance, EndCycle, TypeOK, snapshot
  <1>4. QED
    BY <1>2, <1>3 DEF Caught

\* A step keeps the types as long as an attempt is never one too many.
LEMMA TypeStep ==
  ASSUME TypeOK, QueueInv, [Next]_vars
  PROVE  TypeOK'
  <1> USE DEF github, agent, snapshot
  <1>1. CASE StartCycle
    <2>1. openPr' \in BOOLEAN
      BY <1>1, Zenon DEF StartCycle
    <2>2. 0 \in 0 .. CycleLimit
      BY QueueAssumption
    <2>3. QED
      BY <1>1, <2>1, <2>2 DEF TypeOK, StartCycle, Phases
  <1>2. CASE ListTasks
    <2>1. QueuedTasks \subseteq Tasks
      BY DEF TypeOK, QueuedTasks
    <2>2. CASE EndCycle
      <3>1. 1 \in Attempts /\ 0 \in 0 .. CycleLimit
        BY QueueAssumption DEF Attempts
      <3>2. QED
        BY <1>2, <2>2, <3>1 DEF TypeOK, ListTasks, EndCycle, Phases
    <2>3. QED
      BY <1>2, <2>1, <2>2 DEF TypeOK, ListTasks, Phases
  <1>3. ASSUME NEW t \in Tasks, Examine(t) PROVE TypeOK'
    <2>1. CASE Advance(t)
      BY <1>3, <2>1, CycleTyped DEF TypeOK, Examine, Phases
    <2>2. CASE /\ DispatchDue(t) /\ phase' = "trigger" /\ attempt' = markers[t] + 1
               /\ UNCHANGED <<snapshot, todo, dispatched>>
      <3>1. markers[t] + 1 \in Attempts
        BY <2>2, QueueAssumption DEF TypeOK, DispatchDue, Attempts
      <3>2. QED
        BY <1>3, <2>2, <3>1 DEF TypeOK, Examine, Phases
    <2>3. CASE phase' = "stall" /\ UNCHANGED <<snapshot, todo, attempt, dispatched>>
      BY <1>3, <2>3 DEF TypeOK, Examine, Phases
    <2>4. QED
      BY <1>3, <2>1, <2>2, <2>3 DEF Examine
  <1>4. ASSUME NEW t \in Tasks, RequestFails(t) \/ TriggerRefused(t) \/ PostBlockedLabel(t)
                                \/ PostDispatchedLabel(t) \/ RecordStallUnseen(t)
        PROVE  TypeOK'
    BY <1>4, CycleTyped
    DEF TypeOK, RequestFails, TriggerRefused, PostBlockedLabel, PostDispatchedLabel,
        RecordStallUnseen, Phases
  <1>5. ASSUME NEW t \in Tasks, Accept(t)
        PROVE  /\ accepted' \in [Tasks -> SUBSET Attempts] /\ triggered' \subseteq Tasks
               /\ acceptAge' \in [Tasks -> 0 .. RetryDelay]
    BY <1>5, QueueAssumption DEF TypeOK, Accept
  <1>6. ASSUME NEW t \in Tasks, TriggerAccepted(t) PROVE TypeOK'
    BY <1>5, <1>6 DEF TypeOK, TriggerAccepted, Phases
  <1>7. ASSUME NEW t \in Tasks, TriggerUnconfirmed(t) PROVE TypeOK'
    BY <1>5, <1>7, CycleTyped DEF TypeOK, TriggerUnconfirmed, Phases
  <1>8. ASSUME NEW t \in Tasks, phase = "mark", Oldest(t), WriteMarker(t)
        PROVE  markers' \in [Tasks -> 0 .. MaxDispatches] /\ age' \in [Tasks -> 0 .. AgeCap]
    <2>1. markers[t] + 1 \in 0 .. MaxDispatches
      <3>1. attempt = markers[t] + 1
        BY <1>8 DEF QueueInv, Decided, Oldest
      <3>2. QED
        BY <3>1, QueueAssumption DEF TypeOK, Attempts
    <2>2. QED
      BY <1>8, <2>1, QueueAssumption DEF TypeOK, WriteMarker, AgeCap
  <1>9. ASSUME NEW t \in Tasks, PostMarker(t) PROVE TypeOK'
    BY <1>8, <1>9 DEF TypeOK, PostMarker, Phases
  <1>10. ASSUME NEW t \in Tasks, PostMarkerUnseen(t) PROVE TypeOK'
    BY <1>8, <1>10, CycleTyped DEF TypeOK, PostMarkerUnseen, Phases
  <1>11. ASSUME NEW t \in Tasks, RecordStall(t) PROVE TypeOK'
    BY <1>11 DEF TypeOK, RecordStall, Phases
  <1>12. CASE CycleDies
    <2>1. 1 \in Attempts /\ 0 \in 0 .. CycleLimit
      BY QueueAssumption DEF Attempts
    <2>2. QED
      BY <1>12, <2>1 DEF TypeOK, CycleDies, EndCycle, Phases
  <1>13. CASE Tick
    <2>1. ticks' \in 0 .. CycleLimit
      BY <1>13, QueueAssumption DEF TypeOK, Tick
    <2>2. age' \in [Tasks -> 0 .. AgeCap]
      BY <1>13, QueueAssumption DEF TypeOK, Tick, Older, AgeCap
    <2>3. acceptAge' \in [Tasks -> 0 .. RetryDelay]
      BY <1>13, QueueAssumption DEF TypeOK, Tick, Older
    <2>4. QED
      BY <1>13, <2>1, <2>2, <2>3 DEF TypeOK, Tick
  <1>14. ASSUME NEW t \in Tasks, Surroundings(t) PROVE TypeOK'
    BY <1>14
    DEF TypeOK, Surroundings, EnterQueue, LeaveQueue, Unblock, ChangePullRequest, cycle
  <1>15. CASE UNCHANGED vars
    BY <1>15 DEF TypeOK, vars, cycle
  <1>16. QED
    BY <1>1, <1>2, <1>3, <1>4, <1>6, <1>7, <1>9, <1>10, <1>11, <1>12, <1>13, <1>14, <1>15
    DEF Next, Cycle

(***************************************************************************)
(* The invariant is inductive.                                              *)
(***************************************************************************)

\* The facts about the tasks do not depend on the cycle's own variables.
LEMMA TaskFrame ==
  ASSUME QueueInv, UNCHANGED <<markers, age, tagged, stalled, blocked, accepted, acceptAge>>
  PROVE  \A t \in Tasks : (AcceptedAttempts(t) /\ LabelsAndMarkers(t) /\ MarkerFollows(t))'
  BY DEF QueueInv, AcceptedAttempts, LabelsAndMarkers, MarkerFollows

\* Between two tasks, and between two cycles, nothing is decided yet.
LEMMA NothingDecided ==
  ASSUME phase' \in {"idle", "list", "examine"}, dispatched' = FALSE
  PROVE  /\ \A t \in todo' : Oldest(t)' => Decided(t)'
         /\ dispatched' => phase' \in {"mark", "tag"}
  BY DEF Decided

\* A cycle that goes on with the next task has dispatched none.
LEMMA NextTask ==
  ASSUME TypeOK, QueueInv, NEW t \in Tasks,
         Caught(t) \/ EndCycle \/ (Advance(t) /\ phase \notin {"mark", "tag"})
  PROVE  phase' \in {"idle", "examine"} /\ dispatched' = FALSE
  <1>1. CASE EndCycle
    BY <1>1 DEF EndCycle
  <1>2. CASE Advance(t) /\ dispatched = FALSE
    BY <1>1, <1>2 DEF Advance
  <1>3. dispatched => phase \in {"mark", "tag"}
    BY DEF QueueInv
  <1>4. dispatched = TRUE \/ dispatched = FALSE
    BY DEF TypeOK
  <1>5. QED
    BY <1>1, <1>2, <1>3, <1>4 DEF Caught

\* An accepted trigger is the attempt after those the markers record.
LEMMA AcceptStep ==
  ASSUME TypeOK, QueueInv, NEW t \in Tasks, Oldest(t), phase = "trigger", Accept(t),
         UNCHANGED github
  PROVE  /\ \A u \in Tasks :
              (AcceptedAttempts(u) /\ LabelsAndMarkers(u) /\ MarkerFollows(u))'
         /\ accepted'[t] = 1 .. attempt /\ attempt = markers[t] + 1
         /\ accepted[t] = 1 .. attempt \/ accepted[t] = 1 .. markers[t]
  <1>1. /\ attempt = markers[t] + 1 /\ attempt \in 1 .. MaxDispatches
        /\ markers[t] \in Nat /\ markers[t] < MaxDispatches
    BY QueueAssumption DEF QueueInv, Decided, Oldest, TypeOK, Attempts
  <1>2. accepted[t] = 1 .. markers[t] \/ accepted[t] = 1 .. (markers[t] + 1)
    BY DEF QueueInv, AcceptedAttempts
  <1>3. accepted'[t] = accepted[t] \cup {markers[t] + 1}
    BY <1>1 DEF Accept, TypeOK
  <1>4. accepted'[t] = 1 .. (markers[t] + 1)
    BY <1>1, <1>2, <1>3, OneMore
  <1>5. accepted'[t] # 1 .. markers[t]
    BY <1>1, <1>4, OneMore
  <1>6. ASSUME NEW u \in Tasks
        PROVE  (AcceptedAttempts(u) /\ LabelsAndMarkers(u) /\ MarkerFollows(u))'
    <2>1. AcceptedAttempts(u) /\ LabelsAndMarkers(u) /\ MarkerFollows(u)
      BY DEF QueueInv
    <2>2. LabelsAndMarkers(u)'
      BY <2>1 DEF LabelsAndMarkers, github
    <2>3. CASE u = t
      BY <1>1, <1>4, <1>5, <2>2, <2>3 DEF AcceptedAttempts, MarkerFollows, github
    <2>4. CASE u # t
      <3>1. accepted'[u] = accepted[u] /\ acceptAge'[u] = acceptAge[u]
        BY <2>4 DEF Accept, TypeOK
      <3>2. QED
        BY <2>1, <2>2, <3>1 DEF AcceptedAttempts, MarkerFollows, github
    <2>5. QED
      BY <2>3, <2>4
  <1>7. QED
    BY <1>1, <1>2, <1>4, <1>6

\* The marker of an accepted attempt records it.
LEMMA MarkStep ==
  ASSUME TypeOK, QueueInv, NEW t \in Tasks, Oldest(t), phase = "mark", WriteMarker(t),
         UNCHANGED <<tagged, stalled, blocked, accepted, acceptAge>>
  PROVE  /\ \A u \in Tasks :
              (AcceptedAttempts(u) /\ LabelsAndMarkers(u) /\ MarkerFollows(u))'
         /\ markers'[t] > 0
  <1>1. /\ attempt = markers[t] + 1 /\ attempt \in 1 .. MaxDispatches
        /\ markers[t] \in Nat /\ markers[t] < MaxDispatches
        /\ attempt \in accepted[t]
    BY QueueAssumption DEF QueueInv, Decided, Oldest, TypeOK, Attempts
  <1>2. accepted[t] = 1 .. (markers[t] + 1)
    BY <1>1, OneMore DEF QueueInv, AcceptedAttempts
  <1>3. markers'[t] = markers[t] + 1 /\ age'[t] = 0
    BY DEF WriteMarker, TypeOK
  <1>4. acceptAge[t] >= 0
    BY QueueAssumption DEF TypeOK
  <1>5. ASSUME NEW u \in Tasks
        PROVE  (AcceptedAttempts(u) /\ LabelsAndMarkers(u) /\ MarkerFollows(u))'
    <2>1. AcceptedAttempts(u) /\ LabelsAndMarkers(u) /\ MarkerFollows(u)
      BY DEF QueueInv
    <2>2. CASE u = t
      <3>1. AcceptedAttempts(u)' /\ MarkerFollows(u)'
        BY <1>2, <1>3, <1>4, <2>2 DEF AcceptedAttempts, MarkerFollows
      <3>2. u \notin stalled \cup blocked
        BY <1>1, <2>1, <2>2 DEF LabelsAndMarkers
      <3>3. QED
        BY <1>1, <1>3, <2>2, <3>1, <3>2 DEF LabelsAndMarkers
    <2>3. CASE u # t
      <3>1. markers'[u] = markers[u] /\ age'[u] = age[u]
        BY <2>3 DEF WriteMarker, TypeOK
      <3>2. QED
        BY <2>1, <3>1 DEF AcceptedAttempts, LabelsAndMarkers, MarkerFollows
    <2>4. QED
      BY <2>2, <2>3
  <1>6. QED
    BY <1>1, <1>3, <1>5

\* Every step of the queue keeps the invariant.
LEMMA QueueStep ==
  ASSUME TypeOK, QueueInv, [Next]_vars
  PROVE  QueueInv'
  <1> USE DEF github, agent, snapshot
  <1>1. CASE StartCycle
    BY <1>1, TaskFrame, NothingDecided DEF StartCycle, QueueInv
  <1>2. CASE ListTasks
    <2>1. phase' \in {"idle", "examine"} /\ dispatched' = FALSE
      <3>1. dispatched = FALSE
        BY <1>2 DEF ListTasks, QueueInv, TypeOK
      <3>2. QED
        BY <1>2, <3>1 DEF ListTasks, EndCycle
    <2>2. QED
      BY <1>2, <2>1, TaskFrame, NothingDecided DEF ListTasks, QueueInv
  <1>3. ASSUME NEW t \in Tasks, Examine(t) PROVE QueueInv'
    <2>1. \A u \in Tasks : (AcceptedAttempts(u) /\ LabelsAndMarkers(u) /\ MarkerFollows(u))'
      BY <1>3, TaskFrame DEF Examine
    <2>2. CASE Advance(t)
      BY <1>3, <2>1, <2>2, NextTask, NothingDecided DEF Examine, QueueInv
    <2>3. dispatched = FALSE
      BY <1>3 DEF Examine, QueueInv, TypeOK
    <2>4. \A u \in todo : Oldest(u) => u = t
      BY <1>3, OneOldest DEF Examine, Oldest, TypeOK
    <2>5. CASE /\ DispatchDue(t) /\ phase' = "trigger" /\ attempt' = markers[t] + 1
               /\ UNCHANGED <<snapshot, todo, dispatched>>
      <3>1. markers[t] > 0 => age[t] >= RetryDelay
        BY <2>5, QueueAssumption DEF DispatchDue, MayDispatch, TypeOK, AgeCap
      <3>2. \A u \in todo' : Oldest(u)' => Decided(u)'
        BY <1>3, <2>4, <2>5, <3>1 DEF Examine, Oldest, Decided
      <3>3. QED
        BY <2>1, <2>3, <2>5, <3>2 DEF QueueInv
    <2>6. CASE BlockDue(t) /\ phase' = "stall" /\ UNCHANGED <<snapshot, todo, attempt, dispatched>>
      <3>1. markers[t] = MaxDispatches
        BY <2>6, QueueAssumption DEF BlockDue, TypeOK
      <3>2. \A u \in todo' : Oldest(u)' => Decided(u)'
        BY <1>3, <2>4, <2>6, <3>1 DEF Examine, Oldest, Decided
      <3>3. QED
        BY <2>1, <2>3, <2>6, <3>2 DEF QueueInv
    <2>7. QED
      BY <1>3, <2>2, <2>5, <2>6 DEF Examine
  <1>4. ASSUME NEW t \in Tasks, RequestFails(t) \/ TriggerRefused(t) PROVE QueueInv'
    BY <1>4, TaskFrame, NextTask, NothingDecided DEF RequestFails, TriggerRefused, QueueInv
  <1>5. ASSUME NEW t \in Tasks, TriggerAccepted(t) PROVE QueueInv'
    <2>1. /\ \A u \in Tasks :
               (AcceptedAttempts(u) /\ LabelsAndMarkers(u) /\ MarkerFollows(u))'
          /\ accepted'[t] = 1 .. attempt /\ attempt = markers[t] + 1
      BY <1>5, AcceptStep DEF TriggerAccepted
    <2>2. attempt \in accepted'[t]
      BY <2>1, QueueAssumption DEF TypeOK, Attempts
    <2>3. Decided(t)'
      BY <1>5, <2>1, <2>2 DEF TriggerAccepted, QueueInv, Decided, Oldest
    <2>4. \A u \in todo' : Oldest(u)' => u = t
      BY <1>5, OneOldest DEF TriggerAccepted, Oldest, TypeOK
    <2>5. QED
      BY <1>5, <2>1, <2>3, <2>4 DEF TriggerAccepted, QueueInv
  <1>6. ASSUME NEW t \in Tasks, TriggerUnconfirmed(t) PROVE QueueInv'
    BY <1>6, AcceptStep, NextTask, NothingDecided DEF TriggerUnconfirmed, QueueInv
  <1>7. ASSUME NEW t \in Tasks, PostMarker(t) PROVE QueueInv'
    <2>1. /\ \A u \in Tasks :
               (AcceptedAttempts(u) /\ LabelsAndMarkers(u) /\ MarkerFollows(u))'
          /\ markers'[t] > 0
      BY <1>7, MarkStep DEF PostMarker
    <2>2. Decided(t)'
      BY <1>7, <2>1 DEF PostMarker, Decided
    <2>3. \A u \in todo' : Oldest(u)' => u = t
      BY <1>7, OneOldest DEF PostMarker, Oldest, TypeOK
    <2>4. QED
      BY <1>7, <2>1, <2>2, <2>3 DEF PostMarker, QueueInv
  <1>8. ASSUME NEW t \in Tasks, PostMarkerUnseen(t) PROVE QueueInv'
    BY <1>8, MarkStep, NextTask, NothingDecided DEF PostMarkerUnseen, QueueInv
  <1>9. ASSUME NEW t \in Tasks, PostDispatchedLabel(t) PROVE QueueInv'
    <2>1. markers[t] > 0
      BY <1>9 DEF PostDispatchedLabel, QueueInv, Decided, Oldest
    <2>2. \A u \in Tasks : (AcceptedAttempts(u) /\ LabelsAndMarkers(u) /\ MarkerFollows(u))'
      BY <1>9, <2>1
      DEF PostDispatchedLabel, QueueInv, AcceptedAttempts, LabelsAndMarkers, MarkerFollows
    <2>3. QED
      BY <1>9, <2>2, NextTask, NothingDecided DEF PostDispatchedLabel, QueueInv
  <1>10. ASSUME NEW t \in Tasks, RecordStall(t) \/ RecordStallUnseen(t) \/ PostBlockedLabel(t)
         PROVE  /\ \A u \in Tasks :
                     (AcceptedAttempts(u) /\ LabelsAndMarkers(u) /\ MarkerFollows(u))'
                /\ markers[t] = MaxDispatches
    <2>1. markers[t] = MaxDispatches
      BY <1>10
      DEF RecordStall, RecordStallUnseen, PostBlockedLabel, QueueInv, Decided, Oldest
    <2>2. QED
      BY <1>10, <2>1
      DEF RecordStall, RecordStallUnseen, PostBlockedLabel, QueueInv, AcceptedAttempts,
          LabelsAndMarkers, MarkerFollows
  <1>11. ASSUME NEW t \in Tasks, RecordStall(t) PROVE QueueInv'
    <2>1. dispatched = FALSE
      BY <1>11 DEF RecordStall, QueueInv, TypeOK
    <2>2. \A u \in todo' : Oldest(u)' => u = t
      BY <1>11, OneOldest DEF RecordStall, Oldest, TypeOK
    <2>3. Decided(t)'
      BY <1>10, <1>11 DEF RecordStall, Decided
    <2>4. QED
      BY <1>10, <1>11, <2>1, <2>2, <2>3 DEF RecordStall, QueueInv
  <1>12. ASSUME NEW t \in Tasks, RecordStallUnseen(t) \/ PostBlockedLabel(t) PROVE QueueInv'
    BY <1>10, <1>12, NextTask, NothingDecided DEF RecordStallUnseen, PostBlockedLabel, QueueInv
  <1>13. CASE CycleDies
    BY <1>13, TaskFrame, NothingDecided DEF CycleDies, EndCycle, QueueInv
  <1>14. CASE Tick
    <2>1. ASSUME NEW u \in Tasks PROVE MarkerFollows(u)'
      <3>1. /\ MarkerFollows(u)
            /\ age[u] \in 0 .. AgeCap /\ acceptAge[u] \in 0 .. RetryDelay
        BY DEF QueueInv, TypeOK
      <3>2. /\ age'[u] = IF age[u] < AgeCap THEN age[u] + 1 ELSE AgeCap
            /\ acceptAge'[u] = IF acceptAge[u] < RetryDelay THEN acceptAge[u] + 1
                               ELSE RetryDelay
            /\ markers'[u] = markers[u] /\ accepted'[u] = accepted[u]
        BY <1>14 DEF Tick, Older
      <3>3. QED
        BY <3>1, <3>2, QueueAssumption DEF MarkerFollows, AgeCap
    <2>2. ASSUME NEW u \in todo', Oldest(u)' PROVE Decided(u)'
      <3>1. u \in Tasks /\ Decided(u)
        BY <1>14, <2>2 DEF Tick, Oldest, QueueInv, TypeOK
      <3>2. age[u] \in 0 .. AgeCap /\ age[u] >= RetryDelay => age'[u] >= RetryDelay
        BY <1>14, <3>1, QueueAssumption DEF Tick, Older, TypeOK, AgeCap
      <3>3. age[u] \in 0 .. AgeCap
        BY <3>1 DEF TypeOK
      <3>4. QED
        BY <1>14, <3>1, <3>2, <3>3 DEF Tick, Decided
    <2>3. QED
      BY <1>14, <2>1, <2>2 DEF Tick, QueueInv, AcceptedAttempts, LabelsAndMarkers
  <1>15. ASSUME NEW t \in Tasks, Surroundings(t) PROVE QueueInv'
    BY <1>15
    DEF Surroundings, EnterQueue, LeaveQueue, Unblock, ChangePullRequest, cycle,
        QueueInv, AcceptedAttempts, LabelsAndMarkers, MarkerFollows, Decided, Oldest
  <1>16. CASE UNCHANGED vars
    BY <1>16
    DEF vars, cycle, QueueInv, AcceptedAttempts, LabelsAndMarkers, MarkerFollows, Decided, Oldest
  <1>17. QED
    BY <1>1, <1>2, <1>3, <1>4, <1>5, <1>6, <1>7, <1>8, <1>9, <1>11, <1>12, <1>13, <1>14,
       <1>15, <1>16
    DEF Next, Cycle

\* The two halves of the invariant hold together in every state.
LEMMA Invariant == Spec => [](TypeOK /\ QueueInv)
  <1>1. Init => TypeOK /\ QueueInv
    <2> SUFFICES ASSUME Init PROVE TypeOK /\ QueueInv
      OBVIOUS
    <2>1. TypeOK
      <3>1. /\ AgeCap \in 0 .. AgeCap /\ RetryDelay \in 0 .. RetryDelay
            /\ 0 \in 0 .. MaxDispatches /\ 0 \in 0 .. CycleLimit /\ 1 \in Attempts
        BY QueueAssumption DEF Attempts, AgeCap
      <3>2. "none" \in PullRequestStates
        BY QueueAssumption
      <3>3. QED
        BY <3>1, <3>2 DEF Init, TypeOK, Phases
    <2>2. 1 .. 0 = {}
      OBVIOUS
    <2>3. QED
      BY <2>1, <2>2
      DEF Init, QueueInv, AcceptedAttempts, LabelsAndMarkers, MarkerFollows, Decided
  <1>2. TypeOK /\ QueueInv /\ [Next]_vars => (TypeOK /\ QueueInv)'
    BY TypeStep, QueueStep
  <1>3. QED
    BY <1>1, <1>2, PTL DEF Spec

\* Every state of the task queue has its types.
THEOREM TypeCorrect == Spec => []TypeOK
  BY Invariant, PTL

(***************************************************************************)
(* What is written on the issues.                                           *)
(***************************************************************************)

\* What the supervisor writes on an issue is true of what the agent accepted.
THEOREM TrueRecords == Spec => []RecordsAreTrue
  <1>1. TypeOK /\ QueueInv => RecordsAreTrue
    <2> SUFFICES ASSUME TypeOK, QueueInv, NEW t \in Tasks
                 PROVE  /\ 1 .. markers[t] \subseteq accepted[t]
                        /\ t \in tagged => accepted[t] # {}
                        /\ t \in stalled \cup blocked => accepted[t] = Attempts
      BY DEF RecordsAreTrue
    <2>1. markers[t] \in Nat /\ AcceptedAttempts(t) /\ LabelsAndMarkers(t)
      BY QueueAssumption DEF TypeOK, QueueInv
    <2>2. 1 .. markers[t] \subseteq accepted[t]
      BY <2>1, OneMore DEF AcceptedAttempts
    <2>3. markers[t] > 0 => 1 \in 1 .. markers[t]
      BY <2>1
    <2>4. markers[t] = MaxDispatches => accepted[t] = Attempts
      BY <2>1, QueueAssumption DEF AcceptedAttempts, Attempts
    <2>5. QED
      BY <2>1, <2>2, <2>3, <2>4 DEF LabelsAndMarkers
  <1>2. QED
    BY <1>1, Invariant, PTL

(***************************************************************************)
(* When the agent is triggered.                                             *)
(***************************************************************************)

\* Only a trigger makes the agent accept anything.
LEMMA OnlyTriggersAccept ==
  ASSUME [Next]_vars
  PROVE  \/ UNCHANGED <<accepted, acceptAge>> /\ UNCHANGED triggered
         \/ UNCHANGED accepted /\ Tick /\ UNCHANGED triggered
         \/ UNCHANGED <<accepted, acceptAge>> /\ StartCycle
         \/ \E t \in Tasks : TriggerAccepted(t) \/ TriggerUnconfirmed(t)
  BY DEF Next, Cycle, Surroundings, StartCycle, ListTasks, Examine, RequestFails, TriggerRefused,
         PostMarker, PostMarkerUnseen, PostDispatchedLabel, RecordStall, RecordStallUnseen,
         PostBlockedLabel, CycleDies, Tick, EnterQueue, LeaveQueue, Unblock,
         ChangePullRequest, agent, vars

\* A trigger of an attempt the agent had not accepted follows the one before it by
\* at least the retry delay.
LEMMA TriggerSpaced ==
  ASSUME TypeOK, QueueInv, NEW t \in Tasks, TriggerAccepted(t) \/ TriggerUnconfirmed(t)
  PROVE  \A u \in Tasks :
           accepted'[u] # accepted[u] /\ accepted[u] # {} => acceptAge[u] >= RetryDelay
  <1>1. phase = "trigger" /\ Oldest(t) /\ Accept(t) /\ UNCHANGED github
    BY DEF TriggerAccepted, TriggerUnconfirmed
  <1>2. \A u \in Tasks \ {t} : accepted'[u] = accepted[u]
    BY <1>1 DEF Accept, TypeOK
  <1>3. accepted'[t] # accepted[t] => accepted[t] = 1 .. markers[t]
    BY <1>1, AcceptStep
  <1>4. /\ markers[t] > 0 => age[t] >= RetryDelay
        /\ MarkerFollows(t)
        /\ markers[t] \in Nat /\ age[t] \in Nat /\ acceptAge[t] \in Nat
    BY <1>1, QueueAssumption DEF QueueInv, Decided, Oldest, TypeOK, AgeCap
  <1>5. accepted[t] = 1 .. markers[t] /\ accepted[t] # {} => acceptAge[t] >= RetryDelay
    <2>1. accepted[t] = 1 .. markers[t] /\ accepted[t] # {} => markers[t] > 0
      BY <1>4
    <2>2. QED
      BY <1>4, <2>1, QueueAssumption DEF MarkerFollows
  <1>6. QED
    BY <1>2, <1>3, <1>5

\* A new run of the agent for a task starts no sooner than the retry delay after the
\* run before it.
THEOREM SpacedRetries == Spec => RetriesAreSpaced
  <1>1. TypeOK /\ QueueInv /\ [Next]_vars =>
          [\A t \in Tasks :
             accepted'[t] # accepted[t] /\ accepted[t] # {} => acceptAge[t] >= RetryDelay]_vars
    BY OnlyTriggersAccept, TriggerSpaced
  <1>2. QED
    BY <1>1, Invariant, PTL DEF Spec, RetriesAreSpaced

\* Once a cycle knows that a task was dispatched it triggers nothing more.
THEOREM QuietCycles == Spec => QuietOnceDispatched
  <1>1. TypeOK /\ QueueInv /\ [Next]_vars =>
          [dispatched /\ dispatched' => triggered' = triggered]_vars
    <2> SUFFICES ASSUME TypeOK, QueueInv, [Next]_vars, dispatched, dispatched'
                 PROVE  UNCHANGED triggered
      OBVIOUS
    <2>1. phase # "trigger"
      BY DEF QueueInv
    <2>2. ~ StartCycle
      BY Zenon DEF StartCycle
    <2>3. QED
      BY <2>1, <2>2, OnlyTriggersAccept DEF TriggerAccepted, TriggerUnconfirmed
  <1>2. QED
    BY <1>1, Invariant, PTL DEF Spec, QuietOnceDispatched

(***************************************************************************)
(* Refinement.                                                              *)
(***************************************************************************)

\* The stall record is written only when every attempt was accepted.
LEMMA StallStep ==
  ASSUME TypeOK, QueueInv, NEW t \in Tasks, phase = "stall", Oldest(t)
  PROVE  accepted[t] = 1 .. MaxDispatches
  <1>1. markers[t] = MaxDispatches /\ AcceptedAttempts(t)
    BY DEF QueueInv, Decided, Oldest
  <1>2. QED
    BY <1>1, QueueAssumption DEF AcceptedAttempts

\* The markers, labels and cycles of the code implement the bounded retry.
THEOREM Implements == Spec => ImplementsBoundedRetry
  <1>1. Init => Promise!Init
    BY DEF Init, Promise!Init
  <1>2. TypeOK /\ QueueInv /\ [Next]_vars => [Promise!Next]_(Promise!vars)
    <2> SUFFICES ASSUME TypeOK, QueueInv, [Next]_vars
                 PROVE  [Promise!Next]_(Promise!vars)
      OBVIOUS
    <2> USE DEF github, agent
    <2>1. ASSUME NEW t \in Tasks, TriggerAccepted(t) \/ TriggerUnconfirmed(t)
          PROVE  [Promise!Next]_(Promise!vars)
      <3>1. phase = "trigger" /\ Oldest(t) /\ Accept(t) /\ UNCHANGED github
        BY <2>1 DEF TriggerAccepted, TriggerUnconfirmed
      <3>2. /\ accepted'[t] = 1 .. attempt /\ attempt = markers[t] + 1
            /\ accepted[t] = 1 .. attempt \/ accepted[t] = 1 .. markers[t]
        BY <3>1, AcceptStep
      <3>3. accepted' = [accepted EXCEPT ![t] = 1 .. attempt]
        BY <3>1, <3>2 DEF Accept, TypeOK
      <3>4. CASE accepted[t] = 1 .. attempt
        BY <3>1, <3>3, <3>4 DEF TypeOK, Promise!vars
      <3>5. CASE accepted[t] = 1 .. markers[t]
        <4>1. attempt \in 1 .. MaxDispatches /\ markers[t] = attempt - 1
          BY <3>2, QueueAssumption DEF TypeOK, Attempts
        <4>2. Promise!Attempt(t)
          BY <3>1, <3>3, <3>5, <4>1 DEF Promise!Attempt
        <4>3. QED
          BY <4>2 DEF Promise!Next
      <3>6. QED
        BY <3>2, <3>4, <3>5
    <2>2. ASSUME NEW t \in Tasks, RecordStall(t) \/ RecordStallUnseen(t)
          PROVE  [Promise!Next]_(Promise!vars)
      <3>1. Promise!GiveUp(t)
        BY <2>2, StallStep DEF RecordStall, RecordStallUnseen, Promise!GiveUp
      <3>2. QED
        BY <3>1 DEF Promise!Next
    <2>3. QED
      BY <2>1, <2>2
      DEF Next, Cycle, Surroundings, StartCycle, ListTasks, Examine, RequestFails,
          TriggerRefused, PostMarker, PostMarkerUnseen, PostDispatchedLabel,
          PostBlockedLabel, CycleDies, Tick, EnterQueue, LeaveQueue, Unblock,
          ChangePullRequest, vars, Promise!vars
  <1>3. QED
    BY <1>1, <1>2, Invariant, PTL DEF Spec, ImplementsBoundedRetry, Promise!Spec
================================================================================
