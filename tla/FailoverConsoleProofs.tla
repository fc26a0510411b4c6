------------------------ MODULE FailoverConsoleProofs ------------------------
(* Proofs about FailoverConsole, for any number of failovers, requests and
   runner tasks and any number of polls.                                   *)
EXTENDS FailoverConsole, TLAPS

-----------------------------------------------------------------------------
(* What the building blocks of the actions do.                             *)

Requests ==
    [kind : {"none", "failover", "destroy", "poll"},
     at : {"free", "sent", "answered"}, live : BOOLEAN,
     row : Failovers \cup {None}, mode : Modes,
     ok : BOOLEAN, seen : {"other", "destroyed", "destroy_failed"},
     polls : 0..(MaxPolls + 1)]
Jobs == [at : {"free", "queued", "done"}, row : Failovers \cup {None},
         action : {"apply", "destroy"}, ok : BOOLEAN]

LEMMA FreeIsRequest == Free \in Requests
BY FailoverAssumption DEF Free, Requests, Modes

LEMMA ReleaseEffect ==
    ASSUME CallOK, NEW c \in Calls, Release(c)
    PROVE  CallOK' /\ call'[c] = Free /\ \A d \in Calls \ {c} : call'[d] = call[d]
BY FreeIsRequest DEF CallOK, Requests, Release

LEMMA AnswerEffect ==
    ASSUME CallOK, NEW c \in Calls, NEW ok \in BOOLEAN,
           NEW f \in Failovers \cup {None},
           NEW seen \in {"other", "destroyed", "destroy_failed"},
           Answer(c, ok, f, seen)
    PROVE  /\ CallOK'
           /\ call'[c].seen \in {seen, "other"}
           /\ \A d \in Calls \ {c} : call'[d] = call[d]
<1>1. call[c] \in Requests
      BY DEF CallOK, Requests
<1>2. DEFINE answered == [call[c] EXCEPT !.at = "answered", !.ok = ok, !.row = f,
                                         !.seen = seen]
<1>3. answered \in Requests /\ answered.seen = seen
      BY <1>1 DEF Requests
<1>4. call' = [call EXCEPT ![c] = IF ~call[c].live THEN Free ELSE answered]
      BY DEF Answer
<1> HIDE DEF answered
<1> QED BY <1>3, <1>4, FreeIsRequest DEF CallOK, Requests, Free

LEMMA ReplyEffect ==
    ASSUME CallOK, NEW c \in Calls, NEW ok \in BOOLEAN, Reply(c, ok)
    PROVE  /\ CallOK'
           /\ call'[c].seen \in {call[c].seen, "other"}
           /\ \A d \in Calls \ {c} : call'[d] = call[d]
<1>1. /\ call[c].row \in Failovers \cup {None}
      /\ call[c].seen \in {"other", "destroyed", "destroy_failed"}
      BY DEF CallOK
<1> QED BY <1>1, AnswerEffect DEF Reply

LEMMA BecomesEffect ==
    ASSUME TableOK, NEW f \in Failovers \cup {None}, NEW s \in FoStatus, Becomes(f, s)
    PROVE  /\ TableOK'
           /\ reported' = reported \cup ({s} \cap {"failed", "destroyed"})
           /\ \A g \in Failovers \ {f} : fh'[g] = fh[g]
           /\ f \in Failovers => fh'[f].status = s /\ fh'[f].mode = fh[f].mode
BY FailoverAssumption DEF TableOK, Becomes

LEMMA QueueEffect ==
    ASSUME TaskOK, NEW f \in Failovers \cup {None},
           NEW action \in {"apply", "destroy"}, Queue(f, action), UNCHANGED resources
    PROVE  /\ TaskOK'
           /\ \A t \in Tasks : task'[t].row \in {task[t].row, f}
<1>1. PICK t \in Tasks : task' = [task EXCEPT ![t] =
              [Idle EXCEPT !.at = "queued", !.row = f, !.action = action]]
      BY DEF Queue
<1>2. DEFINE job == [Idle EXCEPT !.at = "queued", !.row = f, !.action = action]
<1>3. job \in Jobs /\ job.row = f
      BY DEF Idle, Jobs
<1>4. task' = [task EXCEPT ![t] = job]
      BY <1>1
<1> HIDE DEF job
<1> QED BY <1>3, <1>4 DEF TaskOK, Jobs

LEMMA IdleEffect ==
    ASSUME TaskOK, NEW t \in Tasks, task' = [task EXCEPT ![t] = Idle], UNCHANGED resources
    PROVE  /\ TaskOK'
           /\ \A u \in Tasks : task'[u].row \in {task[u].row, None}
<1>1. Idle \in Jobs /\ Idle.row = None
      BY DEF Idle, Jobs
<1> QED BY <1>1 DEF TaskOK, Jobs

LEMMA OutcomeRange ==
    ASSUME NEW t \in Tasks, NEW ok \in BOOLEAN
    PROVE  Outcome(t, ok) \in {"completed", "failed", "destroyed", "destroy_failed"}
BY DEF Outcome

-----------------------------------------------------------------------------
(* Type correctness *)

LEMMA UserType ==
    ASSUME TypeOK, User PROVE TypeOK'
<1>0. PageOK /\ CallOK /\ SocketOK /\ TableOK /\ TaskOK
      BY DEF TypeOK
<1>1. UNCHANGED backend => TableOK' /\ TaskOK'
      BY <1>0 DEF backend, TableOK, TaskOK
<1>2. UNCHANGED call => CallOK'
      BY <1>0 DEF CallOK
<1>3. UNCHANGED socket => SocketOK'
      BY <1>0 DEF SocketOK
<1>4. NoSocket \in [state : {"none", "connecting", "open", "dropped"},
                    stream : BOOLEAN, wire : Seq(Events)]
      BY DEF NoSocket, Events
<1>5. -1 \in -1..LastStep /\ (0 \in -1..LastStep)
      BY FailoverAssumption
<1> USE DEF UserSteps, TypeOK
<1>6. CASE GoBack
  <2>1. PICK some \in BOOLEAN : page' = [FailoverPage EXCEPT !.completedFailover = some]
        BY <1>6 DEF GoBack, get_failover_history
  <2>2. PageOK'
    <3>1. <<>> \in Seq(Events) /\ 0 \in Nat
          OBVIOUS
    <3> QED BY <2>1, <3>1, <1>5 DEF PageOK, FailoverPage, Modes
  <2>3. ASSUME NEW c \in Calls PROVE [call[c] EXCEPT !.live = FALSE] \in Requests
        BY <1>0 DEF CallOK, Requests
  <2>4. CallOK'
        BY <1>0, <1>6, <2>3, FreeIsRequest DEF GoBack, CallOK, Requests
  <2> QED BY <1>0, <1>1, <1>4, <1>6, <2>2, <2>4 DEF GoBack, SocketOK
<1>7. ASSUME NEW m \in Modes, SetMode(m) PROVE TypeOK'
      BY <1>0, <1>1, <1>2, <1>3, <1>7 DEF SetMode, PageOK
<1>8. CASE TypeName
      BY <1>0, <1>1, <1>2, <1>3, <1>8 DEF TypeName, PageOK
<1>9. CASE handleFailover
  <2>1. PageOK'
    <3>1. 0 \in Nat
          OBVIOUS
    <3>2. CASE NameMissing
          BY <1>0, <1>9, <3>2 DEF handleFailover, PageOK
    <3>3. CASE ~NameMissing
      <4>1. page' = [page EXCEPT
                !.error = "none", !.isRunning = TRUE, !.simStep = 0, !.logs = {},
                !.destroyStatus = "idle", !.processed = 0]
            BY <1>9, <3>3 DEF handleFailover
      <4> QED BY <1>0, <1>5, <3>1, <4>1 DEF PageOK
    <3> QED BY <3>2, <3>3
  <2>2. [Free EXCEPT !.kind = "failover", !.at = "sent", !.live = TRUE,
                     !.mode = page.mode] \in Requests
        BY <1>0, FreeIsRequest DEF PageOK, Requests
  <2>3. CallOK'
        BY <1>0, <1>9, <2>2 DEF handleFailover, CallOK, Requests
  <2> QED BY <1>1, <1>3, <1>9, <2>1, <2>3 DEF handleFailover
<1>10. CASE SimulateAgain
      BY <1>0, <1>1, <1>2, <1>4, <1>5, <1>10 DEF SimulateAgain, PageOK, SocketOK
<1>11. CASE RetryFailover
      BY <1>0, <1>1, <1>2, <1>4, <1>11 DEF RetryFailover, PageOK, SocketOK
<1>12. CASE AskDestroy \/ CancelDestroy
      BY <1>0, <1>1, <1>2, <1>3, <1>12 DEF AskDestroy, CancelDestroy, PageOK
<1>13. CASE handleDestroyGcp
  <2>1. PageOK'
        BY <1>0, <1>13 DEF handleDestroyGcp, PageOK
  <2>2. [Free EXCEPT !.kind = "destroy", !.at = "sent", !.live = TRUE,
                     !.row = page.failoverData] \in Requests
        BY <1>0, FreeIsRequest DEF PageOK, Requests
  <2>3. CallOK'
        BY <1>0, <1>13, <2>2 DEF handleDestroyGcp, CallOK, Requests
  <2> QED BY <1>1, <1>3, <1>13, <2>1, <2>3 DEF handleDestroyGcp
<1> QED BY <1>6, <1>7, <1>8, <1>9, <1>10, <1>11, <1>12, <1>13 DEF User
LEMMA SocketType ==
    ASSUME TypeOK,
           \/ SimulationTick \/ EventsEffect \/ SocketOpens \/ SocketReceives
           \/ SocketDrops \/ StreamOutcome \/ ProgressEvent
    PROVE  TypeOK'
<1>0. PageOK /\ CallOK /\ SocketOK /\ TableOK /\ TaskOK
      BY DEF TypeOK
<1>1. UNCHANGED backend => TableOK' /\ TaskOK'
      BY <1>0 DEF backend, TableOK, TaskOK
<1>2. UNCHANGED call => CallOK'
      BY <1>0 DEF CallOK
<1>3. UNCHANGED socket => SocketOK'
      BY <1>0 DEF SocketOK
<1>4. UNCHANGED page => PageOK'
      BY <1>0 DEF PageOK
<1> USE DEF UserSteps, SocketSteps, TypeOK
<1>5. CASE SimulationTick
  <2>1. page.simStep \in -1..LastStep
        BY <1>0 DEF PageOK
  <2>2. PageOK'
    <3>1. CASE page.simStep >= LastStep
          BY <1>0, <1>5, <3>1 DEF SimulationTick, PageOK
    <3>2. CASE ~(page.simStep >= LastStep)
      <4>1. page.simStep + 1 \in -1..LastStep
            BY <2>1, <3>2, FailoverAssumption
      <4> QED BY <1>0, <1>5, <3>2, <4>1 DEF SimulationTick, PageOK
    <3> QED BY <3>1, <3>2
  <2> QED BY <1>1, <1>2, <1>3, <1>5, <2>2 DEF SimulationTick
<1>6. ASSUME NEW lines \in SUBSET {"line", "done"}, Shows(lines) PROVE TypeOK'
  <2>1. Len(page.events) \in Nat
        BY <1>0 DEF PageOK
  <2>2. PageOK'
    <3>1. DEFINE logs == page.logs \cup lines
              \cup (IF "completed" \in NewEvents THEN {"done"} ELSE {})
              \cup (IF "failed" \in NewEvents THEN {"line"} ELSE {})
                 error == IF "failed" \in NewEvents THEN "failed" ELSE page.error
                 running == page.isRunning /\ NewEvents = {}
    <3>2. logs \in SUBSET {"line", "done"}
          BY <1>0 DEF PageOK
    <3>3. error \in {"none", "refused", "failed"} /\ running \in BOOLEAN
          BY <1>0 DEF PageOK
    <3>4. page' = [page EXCEPT
              !.processed = Len(page.events), !.changed = FALSE,
              !.isRunning = running, !.error = error, !.logs = logs]
          BY <1>6 DEF Shows
    <3> HIDE DEF logs, error, running
    <3> QED BY <1>0, <2>1, <3>2, <3>3, <3>4 DEF PageOK
  <2> QED BY <1>1, <1>2, <1>3, <1>6, <2>2 DEF Shows
<1>7. CASE EventsEffect
      BY <1>6, <1>7 DEF EventsEffect
<1>8. CASE ProgressEvent
      BY <1>6, <1>8 DEF ProgressEvent
<1>9. CASE SocketOpens
      BY <1>0, <1>1, <1>2, <1>4, <1>9 DEF SocketOpens, SocketOK
<1>10. CASE SocketDrops
  <2>1. <<>> \in Seq(Events)
        OBVIOUS
  <2> QED BY <1>0, <1>1, <1>2, <1>4, <1>10, <2>1 DEF SocketDrops, SocketOK, NoSocket
<1>11. CASE SocketReceives
  <2>1. socket.wire \in Seq(Events) /\ socket.wire # <<>> /\ page.events \in Seq(Events)
        BY <1>0, <1>11 DEF SocketReceives, SocketOK, PageOK
  <2>2. /\ Tail(socket.wire) \in Seq(Events)
        /\ Head(socket.wire) \in Events
        /\ Append(page.events, Head(socket.wire)) \in Seq(Events)
        BY <2>1
  <2> QED BY <1>0, <1>1, <1>2, <1>11, <2>2 DEF SocketReceives, SocketOK, PageOK
<1>12. CASE StreamOutcome
  <2>1. PICK event \in Events : Emit(event, FALSE)
        BY <1>12 DEF StreamOutcome, Events
  <2>2. Append(socket.wire, event) \in Seq(Events)
        BY <1>0 DEF SocketOK
  <2> QED BY <1>0, <1>1, <1>2, <1>4, <2>1, <2>2 DEF Emit, SocketOK
<1> QED BY <1>5, <1>7, <1>8, <1>9, <1>10, <1>11, <1>12

LEMMA AnswersType ==
    ASSUME TypeOK, NEW c \in Calls, Answers(c) PROVE TypeOK'
<1>0. PageOK /\ CallOK /\ SocketOK /\ TableOK /\ TaskOK
      BY DEF TypeOK
<1>1. UNCHANGED backend => TableOK' /\ TaskOK'
      BY <1>0 DEF backend, TableOK, TaskOK
<1>2. UNCHANGED socket => SocketOK'
      BY <1>0 DEF SocketOK
<1> USE DEF UserSteps, TypeOK
<1>3. ASSUME NEW s \in {"idle", "confirming", "destroying", "destroyed", "failed"},
             EndsWith(c, s)
      PROVE  TypeOK'
      BY <1>0, <1>1, <1>2, <1>3, ReleaseEffect DEF EndsWith, PageOK
<1>4. CASE FailoverAccepted(c)
  <2>1. call[c].row \in Failovers \cup {None}
        BY <1>0 DEF CallOK
  <2>2. [NoSocket EXCEPT !.state = "connecting"] \in
           [state : {"none", "connecting", "open", "dropped"},
            stream : BOOLEAN, wire : Seq(Events)]
    <3>1. <<>> \in Seq(Events)
          OBVIOUS
    <3> QED BY <3>1 DEF NoSocket
  <2> QED BY <1>0, <1>1, <1>4, <2>1, <2>2, ReleaseEffect
          DEF FailoverAccepted, PageOK, SocketOK
<1>5. CASE FailoverRejected(c)
  <2>1. -1 \in -1..LastStep
        BY FailoverAssumption
  <2> QED BY <1>0, <1>1, <1>2, <1>5, <2>1, ReleaseEffect DEF FailoverRejected, PageOK
<1>6. CASE PollAgain(c)
  <2>1. call[c] \in Requests /\ call[c].polls + 1 \in 0..(MaxPolls + 1)
        BY <1>0, <1>6, FailoverAssumption DEF PollAgain, CallOK, Requests
  <2>2. [call[c] EXCEPT !.kind = "poll", !.at = "sent", !.polls = call[c].polls + 1,
                        !.seen = "other"] \in Requests
        BY <2>1 DEF Requests
  <2>3. CallOK'
        BY <1>0, <1>6, <2>2 DEF PollAgain, CallOK, Requests
  <2> QED BY <1>0, <1>1, <1>2, <1>6, <2>3 DEF PollAgain, PageOK
<1>7. CASE \/ DestroyRejected(c) \/ PollsRunOut(c) \/ SeesDestroyed(c)
           \/ SeesDestroyFailed(c)
      BY <1>3, <1>7 DEF DestroyRejected, PollsRunOut, SeesDestroyed, SeesDestroyFailed
<1> QED BY <1>4, <1>5, <1>6, <1>7 DEF Answers

LEMMA HandlersType ==
    ASSUME TypeOK, NEW c \in Calls, Handlers(c) PROVE TypeOK'
<1>0. PageOK /\ CallOK /\ SocketOK /\ TableOK /\ TaskOK
      BY DEF TypeOK
<1>1. UNCHANGED <<page, socket>> => PageOK' /\ SocketOK'
      BY <1>0 DEF PageOK, SocketOK
<1>2. call[c] \in Requests
      BY <1>0 DEF CallOK, Requests
<1> USE DEF TypeOK
<1>3. CASE AcceptFailover(c)
  <2>1. PICK f \in Failovers :
           failover(f, call[c].mode) /\ \E ok \in BOOLEAN : Answer(c, ok, f, call[c].seen)
        BY <1>3 DEF AcceptFailover
  <2>2. CallOK'
        BY <1>0, <1>2, <2>1, AnswerEffect DEF Requests
  <2>3. TableOK'
        BY <1>0, <1>2, <2>1 DEF failover, TableOK, Requests, FoStatus
  <2>4. TaskOK'
        BY <1>0, <2>1, QueueEffect DEF failover, TaskOK
  <2> QED BY <1>1, <1>3, <2>2, <2>3, <2>4 DEF AcceptFailover
<1>4. CASE AcceptDestroy(c)
  <2>1. CallOK'
        BY <1>0, <1>4, ReplyEffect DEF AcceptDestroy
  <2>2. TableOK'
        BY <1>0, <1>4 DEF AcceptDestroy, destroy_gcp_resources, TableOK, FoStatus
  <2>3. TaskOK'
        BY <1>0, <1>2, <1>4, QueueEffect
           DEF AcceptDestroy, destroy_gcp_resources, Requests
  <2> QED BY <1>1, <1>4, <2>1, <2>2, <2>3 DEF AcceptDestroy
<1>5. CASE Refuse(c)
      BY <1>0, <1>1, <1>5, ReplyEffect DEF Refuse, backend, TableOK, TaskOK
<1>6. CASE get_failover_status(c)
  <2>1. CallOK'
        BY <1>0, <1>2, <1>6, AnswerEffect DEF get_failover_status, Requests
  <2> QED BY <1>0, <1>1, <1>6, <2>1 DEF get_failover_status, backend, TableOK, TaskOK
<1> QED BY <1>3, <1>4, <1>5, <1>6 DEF Handlers

LEMMA JobType ==
    ASSUME TypeOK,
           \/ \E t \in Tasks : Runner(t)
           \/ \E f \in Failovers : SimulationEnds(f)
    PROVE  TypeOK'
<1>0. PageOK /\ CallOK /\ SocketOK /\ TableOK /\ TaskOK
      BY DEF TypeOK
<1>1. JobSteps => PageOK' /\ SocketOK' /\ CallOK'
      BY <1>0 DEF PageOK, SocketOK, CallOK, JobSteps
<1> USE DEF TypeOK
<1>2. ASSUME NEW f \in Failovers, SimulationEnds(f) PROVE TypeOK'
      BY <1>0, <1>1, <1>2, BecomesEffect DEF SimulationEnds, FoStatus, TaskOK
<1>3. ASSUME NEW t \in Tasks, TaskNotStarted(t) PROVE TypeOK'
  <2>1. task[t].row \in Failovers \cup {None} /\ Outcome(t, FALSE) \in FoStatus
        BY <1>0, OutcomeRange DEF TaskOK, FoStatus
  <2> QED BY <1>0, <1>1, <1>3, <2>1, BecomesEffect, IdleEffect DEF TaskNotStarted
<1>4. ASSUME NEW t \in Tasks, RunTerraform(t) PROVE TypeOK'
  <2>1. PICK ok \in BOOLEAN :
           /\ task' = [task EXCEPT ![t].at = "done", ![t].ok = ok]
           /\ IF ok THEN resources' = (task[t].action = "apply")
              ELSE resources' \in {resources, resources \/ task[t].action = "apply"}
        BY <1>4 DEF RunTerraform
  <2>2. task[t] \in Jobs
        BY <1>0 DEF TaskOK, Jobs
  <2>3. [task[t] EXCEPT !.at = "done", !.ok = ok] \in Jobs
        BY <2>2 DEF Jobs
  <2>4. task' = [task EXCEPT ![t] = [task[t] EXCEPT !.at = "done", !.ok = ok]]
        BY <2>1
  <2>5. resources' \in BOOLEAN
        BY <1>0, <2>1 DEF TaskOK
  <2>6. TaskOK'
        BY <1>0, <2>3, <2>4, <2>5 DEF TaskOK, Jobs
  <2> QED BY <1>0, <1>1, <1>4, <2>6 DEF RunTerraform, TableOK
<1>5. ASSUME NEW t \in Tasks, TaskDies(t) PROVE TypeOK'
      BY <1>0, <1>1, <1>5, IdleEffect DEF TaskDies, TableOK
<1>6. ASSUME NEW t \in Tasks, internal_failover_complete(t) PROVE TypeOK'
  <2>1. /\ task[t].row \in Failovers \cup {None} /\ task[t].ok \in BOOLEAN
        /\ Outcome(t, task[t].ok) \in FoStatus
        BY <1>0, OutcomeRange DEF TaskOK, FoStatus
  <2> QED BY <1>0, <1>1, <1>6, <2>1, BecomesEffect, IdleEffect
          DEF internal_failover_complete
<1> QED BY <1>2, <1>3, <1>4, <1>5, <1>6 DEF Runner

LEMMA TypeInductive == TypeOK /\ [Next]_vars => TypeOK'
<1> SUFFICES ASSUME TypeOK, [Next]_vars PROVE TypeOK'
    OBVIOUS
<1>1. CASE Next
      BY <1>1, UserType, SocketType, AnswersType, HandlersType, JobType DEF Next
<1>2. CASE UNCHANGED vars
      BY <1>2 DEF vars, backend, TypeOK, PageOK, CallOK, SocketOK, TableOK, TaskOK
<1> QED BY <1>1, <1>2

LEMMA TypeInvariant == Spec => []TypeOK
<1>1. Init => TypeOK
  <2> SUFFICES ASSUME Init PROVE TypeOK
      OBVIOUS
  <2>1. <<>> \in Seq(Events) /\ 0 \in Nat /\ -1 \in -1..LastStep
        BY FailoverAssumption
  <2>2. PageOK
        BY <2>1 DEF Init, PageOK, FailoverPage, Modes
  <2>3. CallOK
        BY FreeIsRequest DEF Init, CallOK, Requests
  <2>4. SocketOK
        BY <2>1 DEF Init, SocketOK, NoSocket
  <2>5. TableOK /\ TaskOK
        BY DEF Init, TableOK, TaskOK, Modes, FoStatus, Idle
  <2> QED BY <2>2, <2>3, <2>4, <2>5 DEF TypeOK
<1> QED BY <1>1, TypeInductive, PTL DEF Spec

(* The page, its requests and the tables keep their shape, however many
   failovers, requests and tasks there are.                                *)
THEOREM TypeCorrect == Spec => []TypeOK
BY TypeInvariant
-----------------------------------------------------------------------------
(* Who writes the tables: the tab and its socket do not, and of the handlers
   only the two that start something.                                      *)

LEMMA TabKeepsTables ==
    ASSUME \/ User \/ SimulationTick \/ EventsEffect
           \/ SocketOpens \/ SocketReceives \/ SocketDrops \/ StreamOutcome
           \/ ProgressEvent
           \/ \E c \in Calls : \/ Answers(c) \/ Refuse(c)
                               \/ get_failover_status(c)
    PROVE  UNCHANGED backend
<1> USE DEF UserSteps, SocketSteps
<1>1. ASSUME User PROVE UNCHANGED backend
      BY <1>1 DEF User, GoBack, TypeName, handleFailover, SimulateAgain,
         RetryFailover, AskDestroy, CancelDestroy, handleDestroyGcp, SetMode
<1>2. ASSUME \/ SimulationTick \/ EventsEffect \/ SocketOpens \/ SocketReceives
             \/ SocketDrops \/ StreamOutcome \/ ProgressEvent
      PROVE  UNCHANGED backend
      BY <1>2 DEF SimulationTick, EventsEffect, Shows, SocketOpens,
         SocketReceives, SocketDrops, StreamOutcome, Emit, ProgressEvent
<1>3. ASSUME NEW c \in Calls, Answers(c) PROVE UNCHANGED backend
      BY <1>3 DEF Answers, FailoverAccepted, FailoverRejected, DestroyRejected,
         PollAgain, PollsRunOut, SeesDestroyed, SeesDestroyFailed, EndsWith
<1>4. ASSUME NEW c \in Calls, Refuse(c) \/ get_failover_status(c)
      PROVE  UNCHANGED backend
      BY <1>4 DEF Refuse, get_failover_status
<1> QED BY <1>1, <1>2, <1>3, <1>4

-----------------------------------------------------------------------------
(* SimulationIsSafe *)

(* A row that does not exist yet counts as a simulation's: it has no task, so
   the row a failover makes has none but its own.                          *)
SimulationInv ==
    /\ SimulationIsSafe
    /\ \A f \in Failovers : fh[f].status = "absent" => fh[f].mode = "simulation"

LEMMA SimulationInductive == TypeOK /\ SimulationInv /\ [Next]_vars => SimulationInv'
<1> SUFFICES ASSUME TypeOK, SimulationInv, [Next]_vars PROVE SimulationInv'
    OBVIOUS
<1>0. CallOK /\ TableOK /\ TaskOK
      BY DEF TypeOK
<1> USE FailoverAssumption DEF SimulationInv, SimulationIsSafe
<1>1. ASSUME UNCHANGED backend PROVE SimulationInv'
      BY <1>1 DEF backend
<1>2. ASSUME NEW c \in Calls, AcceptFailover(c) PROVE SimulationInv'
  <2>1. PICK f \in Failovers : failover(f, call[c].mode)
        BY <1>2 DEF AcceptFailover
  <2>2. call[c].mode \in Modes
        BY <1>0 DEF CallOK
  <2>3. /\ fh[f].status = "absent"
        /\ fh'[f].mode = call[c].mode /\ fh'[f].status = "running"
        /\ \A g \in Failovers \ {f} : fh'[g] = fh[g]
        BY <1>0, <2>1 DEF failover, New, TableOK
  <2>4. \A t \in Tasks : \/ task'[t].row = task[t].row
                         \/ call[c].mode = "actual" /\ task'[t].row = f
        BY <1>0, <2>1, QueueEffect DEF failover
  <2> QED BY <2>2, <2>3, <2>4 DEF Modes
<1>3. ASSUME NEW c \in Calls, AcceptDestroy(c) PROVE SimulationInv'
  <2>1. call[c].row \in Failovers \cup {None} /\ fh[call[c].row].mode = "actual"
        BY <1>0, <1>3 DEF AcceptDestroy, destroy_gcp_resources, CallOK
  <2>2. \A g \in Failovers : /\ fh'[g].mode = fh[g].mode
                             /\ g # call[c].row => fh'[g] = fh[g]
                             /\ g = call[c].row => fh'[g].status = "destroying"
        BY <1>0, <1>3 DEF AcceptDestroy, destroy_gcp_resources, TableOK
  <2>3. \A t \in Tasks : task'[t].row \in {task[t].row, call[c].row}
        BY <1>0, <1>3, <2>1, QueueEffect DEF AcceptDestroy, destroy_gcp_resources
  <2> QED BY <2>1, <2>2, <2>3
<1>4. ASSUME NEW f \in Failovers, SimulationEnds(f) PROVE SimulationInv'
  <2>1. UNCHANGED task
        BY <1>4 DEF SimulationEnds
  <2>2. /\ fh'[f].status = "completed" /\ fh'[f].mode = fh[f].mode
        /\ \A g \in Failovers \ {f} : fh'[g] = fh[g]
        BY <1>0, <1>4, BecomesEffect DEF SimulationEnds, FoStatus
  <2> QED BY <2>1, <2>2
<1>5. ASSUME NEW t \in Tasks, NEW s \in {"completed", "failed", "destroyed", "destroy_failed"},
             Becomes(task[t].row, s), task' = [task EXCEPT ![t] = Idle],
             UNCHANGED resources
      PROVE  SimulationInv'
  <2>1. task[t].row \in Failovers \cup {None} /\ s \in FoStatus
        BY <1>0 DEF TaskOK, FoStatus
  <2>2. /\ \A g \in Failovers \ {task[t].row} : fh'[g] = fh[g]
        /\ task[t].row \in Failovers =>
              /\ fh'[task[t].row].status = s
              /\ fh'[task[t].row].mode = fh[task[t].row].mode
        BY <1>0, <1>5, <2>1, BecomesEffect
  <2>3. \A u \in Tasks : task'[u].row \in {task[u].row, None}
        BY <1>0, <1>5, IdleEffect
  <2> QED BY <2>1, <2>2, <2>3
<1>6. ASSUME NEW t \in Tasks, Runner(t) PROVE SimulationInv'
  <2>1. CASE TaskNotStarted(t)
        BY <1>5, <2>1, OutcomeRange DEF TaskNotStarted
  <2>2. CASE RunTerraform(t)
    <3>1. \A u \in Tasks : task'[u].row = task[u].row
          BY <1>0, <2>2 DEF RunTerraform, TaskOK
    <3> QED BY <2>2, <3>1 DEF RunTerraform
  <2>3. CASE TaskDies(t)
    <3>1. \A u \in Tasks : task'[u].row \in {task[u].row, None}
          BY <1>0, <2>3, IdleEffect DEF TaskDies
    <3> QED BY <2>3, <3>1 DEF TaskDies
  <2>4. CASE internal_failover_complete(t)
    <3>1. task[t].ok \in BOOLEAN
          BY <1>0 DEF TaskOK
    <3> QED BY <1>5, <2>4, <3>1, OutcomeRange DEF internal_failover_complete
  <2> QED BY <1>6, <2>1, <2>2, <2>3, <2>4 DEF Runner
<1>7. CASE UNCHANGED vars
      BY <1>1, <1>7 DEF vars, backend
<1> QED BY <1>1, <1>2, <1>3, <1>4, <1>6, <1>7, TabKeepsTables DEF Next, Handlers

(* Whatever is started, polled and called back in whatever order: nothing is
   ever run in GCP for a simulation, and nobody can have it destroyed.     *)
THEOREM SimulationsAreSafe == Spec => []SimulationIsSafe
<1>1. Init => SimulationInv
      BY FailoverAssumption DEF Init, SimulationInv, SimulationIsSafe, Idle
<1>2. SimulationInv => SimulationIsSafe
      BY DEF SimulationInv
<1> QED BY <1>1, <1>2, TypeInvariant, SimulationInductive, PTL DEF Spec

-----------------------------------------------------------------------------
(* ShownIsReported *)

Said(s) == \A i \in 1..Len(s) : s[i] = "failed" => "failed" \in reported

(* What the backend has said, and all that is on its way to the page: rows,
   events on the wire and in the list, the answers of polls.               *)
ReportedInv ==
    /\ ShownIsReported
    /\ \A f \in Failovers : fh[f].status \in {"failed", "destroyed"} =>
                                 fh[f].status \in reported
    /\ Said(socket.wire) /\ Said(page.events)
    /\ \A c \in Calls : call[c].seen = "destroyed" => "destroyed" \in reported

(* What has been reported stays reported, so only new words are of interest. *)
LEMMA ReportedGrows ==
    ASSUME TypeOK, [Next]_vars
    PROVE  /\ reported \subseteq reported'
           /\ \A f \in Failovers : fh'[f].status \in {"failed", "destroyed"} =>
                 \/ fh'[f].status = fh[f].status
                 \/ fh'[f].status \in reported'
<1>0. CallOK /\ TableOK /\ TaskOK
      BY DEF TypeOK
<1> USE FailoverAssumption
<1> DEFINE Grows == /\ reported \subseteq reported'
                    /\ \A f \in Failovers : fh'[f].status \in {"failed", "destroyed"} =>
                          \/ fh'[f].status = fh[f].status
                          \/ fh'[f].status \in reported'
<1>1. ASSUME UNCHANGED backend PROVE Grows
      BY <1>1 DEF backend
<1>2. ASSUME NEW c \in Calls, AcceptFailover(c) \/ AcceptDestroy(c) PROVE Grows
      BY <1>0, <1>2 DEF AcceptFailover, failover, AcceptDestroy,
         destroy_gcp_resources, TableOK
<1>3. ASSUME NEW f \in Failovers \cup {None}, NEW s \in FoStatus, Becomes(f, s)
      PROVE  Grows
      BY <1>0, <1>3, BecomesEffect
<1>4. ASSUME NEW f \in Failovers, SimulationEnds(f) PROVE Grows
      BY <1>3, <1>4 DEF SimulationEnds, FoStatus
<1>5. ASSUME NEW t \in Tasks, Runner(t) PROVE Grows
  <2>1. task[t].row \in Failovers \cup {None} /\ task[t].ok \in BOOLEAN
        BY <1>0 DEF TaskOK
  <2>2. \A ok \in BOOLEAN : Outcome(t, ok) \in FoStatus
        BY OutcomeRange DEF FoStatus
  <2>3. CASE TaskNotStarted(t)
        BY <1>3, <2>1, <2>2, <2>3 DEF TaskNotStarted
  <2>4. CASE internal_failover_complete(t)
        BY <1>3, <2>1, <2>2, <2>4 DEF internal_failover_complete
  <2>5. CASE RunTerraform(t) \/ TaskDies(t)
        BY <2>5 DEF RunTerraform, TaskDies
  <2> QED BY <1>5, <2>3, <2>4, <2>5 DEF Runner
<1>6. CASE UNCHANGED vars
      BY <1>1, <1>6 DEF vars, backend
<1> QED BY <1>1, <1>2, <1>4, <1>5, <1>6, TabKeepsTables DEF Next, Handlers

(* A destroy and its polls name the failover they are about.               *)
CallsNameRows ==
    \A c \in Calls : call[c].kind \in {"destroy", "poll"} => call[c].row # None

LEMMA RowsNamed ==
    ASSUME TypeOK, CallsNameRows, [Next]_vars PROVE CallsNameRows'
<1>0. PageOK /\ CallOK
      BY DEF TypeOK
<1> USE DEF CallsNameRows
<1>1. ASSUME UNCHANGED call PROVE CallsNameRows'
      BY <1>1
<1>2. ASSUME NEW c \in Calls, NEW request,
             request.kind \in {"destroy", "poll"} => request.row # None,
             call' = [call EXCEPT ![c] = request]
      PROVE  CallsNameRows'
      BY <1>0, <1>2 DEF CallOK
<1>3. Free.kind = "none"
      BY DEF Free
<1>4. ASSUME User PROVE CallsNameRows'
  <2>1. CASE GoBack
    <3>1. ASSUME NEW c \in Calls
          PROVE  /\ [call[c] EXCEPT !.live = FALSE].kind = call[c].kind
                 /\ [call[c] EXCEPT !.live = FALSE].row = call[c].row
          BY <1>0 DEF CallOK
    <3> QED BY <1>3, <2>1, <3>1 DEF GoBack
  <2>2. CASE handleFailover
    <3>1. [Free EXCEPT !.kind = "failover", !.at = "sent", !.live = TRUE,
                       !.mode = page.mode].kind = "failover"
          BY DEF Free
    <3> QED BY <1>1, <1>2, <2>2, <3>1 DEF handleFailover
  <2>3. CASE handleDestroyGcp
    <3>1. [Free EXCEPT !.kind = "destroy", !.at = "sent", !.live = TRUE,
                       !.row = page.failoverData].row = page.failoverData
          BY DEF Free
    <3> QED BY <1>2, <2>3, <3>1 DEF handleDestroyGcp
  <2>4. CASE \/ TypeName \/ SimulateAgain \/ RetryFailover \/ AskDestroy
             \/ CancelDestroy \/ \E m \in Modes : SetMode(m)
        BY <1>1, <2>4 DEF TypeName, SimulateAgain, RetryFailover, AskDestroy,
           CancelDestroy, SetMode
  <2> QED BY <1>4, <2>1, <2>2, <2>3, <2>4 DEF User
<1>5. ASSUME NEW c \in Calls, Release(c) PROVE CallsNameRows'
      BY <1>2, <1>3, <1>5 DEF Release
<1>6. ASSUME NEW c \in Calls, NEW ok, NEW f, NEW seen, Answer(c, ok, f, seen),
             call[c].kind \in {"destroy", "poll"} => f = call[c].row
      PROVE  CallsNameRows'
  <2>1. [call[c] EXCEPT !.at = "answered", !.ok = ok, !.row = f, !.seen = seen].kind
            = call[c].kind
        BY <1>0 DEF CallOK
  <2>2. [call[c] EXCEPT !.at = "answered", !.ok = ok, !.row = f, !.seen = seen].row = f
        BY <1>0 DEF CallOK
  <2>3. CASE call[c].live
        BY <1>2, <1>6, <2>1, <2>2, <2>3 DEF Answer
  <2>4. CASE ~call[c].live
        BY <1>2, <1>3, <1>6, <2>4 DEF Answer
  <2> QED BY <2>3, <2>4
<1>7. ASSUME NEW c \in Calls, Answers(c) PROVE CallsNameRows'
  <2>1. CASE PollAgain(c)
    <3>1. [call[c] EXCEPT !.kind = "poll", !.at = "sent",
                          !.polls = call[c].polls + 1, !.seen = "other"].row = call[c].row
          BY <1>0 DEF CallOK
    <3>2. call[c].row # None
          BY <2>1 DEF PollAgain, Sleeps, Answered
    <3> QED BY <1>2, <2>1, <3>1, <3>2 DEF PollAgain
  <2> QED BY <1>5, <1>7, <2>1 DEF Answers, FailoverAccepted, FailoverRejected,
             DestroyRejected, PollsRunOut, SeesDestroyed, SeesDestroyFailed, EndsWith
<1>8. ASSUME NEW c \in Calls, Handlers(c) PROVE CallsNameRows'
  <2>1. CASE AcceptFailover(c)
        BY <1>6, <2>1 DEF AcceptFailover, Sent
  <2>2. CASE AcceptDestroy(c) \/ Refuse(c) \/ get_failover_status(c)
        BY <1>6, <2>2 DEF AcceptDestroy, Refuse, get_failover_status, Reply
  <2> QED BY <1>8, <2>1, <2>2 DEF Handlers
<1>9. ASSUME \/ SimulationTick \/ EventsEffect \/ SocketOpens \/ SocketReceives
             \/ SocketDrops \/ StreamOutcome \/ ProgressEvent
             \/ \E t \in Tasks : Runner(t)
             \/ \E f \in Failovers : SimulationEnds(f)
      PROVE  CallsNameRows'
      BY <1>1, <1>9 DEF SimulationTick, EventsEffect, Shows, SocketOpens,
         SocketReceives, SocketDrops, StreamOutcome, Emit, ProgressEvent,
         SocketSteps, Runner, TaskNotStarted, RunTerraform, TaskDies,
         internal_failover_complete, SimulationEnds, JobSteps
<1>10. CASE UNCHANGED vars
      BY <1>1, <1>10 DEF vars
<1> QED BY <1>4, <1>7, <1>8, <1>9, <1>10 DEF Next

(* The new words of each step are taken from what was said before.  A word of
   the page stays, goes, or is one that an event or an answer brought.     *)
WordsOfPage ==
    /\ page'.error = "failed" =>
          page.error = "failed" \/ \E i \in 1..Len(page.events) : page.events[i] = "failed"
    /\ page'.destroyStatus = "destroyed" =>
          \/ page.destroyStatus = "destroyed"
          \/ \E c \in Calls : call[c].seen = "destroyed"
WordsOfEvents ==
    /\ \A i \in 1..Len(socket'.wire) : socket'.wire[i] = "failed" =>
          \/ \E j \in 1..Len(socket.wire) : socket.wire[j] = "failed"
          \/ \E f \in Failovers : fh[f].status = "failed"
    /\ \A i \in 1..Len(page'.events) : page'.events[i] = "failed" =>
          \/ \E j \in 1..Len(page.events) : page.events[j] = "failed"
          \/ \E j \in 1..Len(socket.wire) : socket.wire[j] = "failed"
WordsOfCalls ==
    \A c \in Calls : call'[c].seen = "destroyed" =>
          \/ call[c].seen = "destroyed"
          \/ \E f \in Failovers : fh[f].status = "destroyed"
Words == WordsOfPage /\ WordsOfEvents /\ WordsOfCalls

LEMMA SentWords ==
    ASSUME CallOK, NEW c \in Calls, NEW request, request.seen = "other",
           call' = [call EXCEPT ![c] = request]
    PROVE  WordsOfCalls
BY DEF CallOK, WordsOfCalls

LEMMA UserWords == ASSUME TypeOK, User PROVE Words
<1>0. PageOK /\ CallOK /\ SocketOK
      BY DEF TypeOK
<1>1. UNCHANGED socket /\ page'.events = page.events => WordsOfEvents
      BY DEF WordsOfEvents
<1>2. socket'.wire = <<>> /\ page'.events \in {page.events, <<>>} => WordsOfEvents
      BY DEF WordsOfEvents
<1>3. UNCHANGED call => WordsOfCalls
      BY DEF WordsOfCalls
<1> USE DEF Words, NoSocket
<1>4. CASE GoBack
  <2>1. page'.error = "none" /\ page'.destroyStatus = "idle" /\ page'.events = <<>>
        BY <1>4 DEF GoBack, FailoverPage
  <2>2. WordsOfCalls
        BY <1>0, <1>4 DEF GoBack, WordsOfCalls, Free, CallOK
  <2> QED BY <1>2, <1>4, <2>1, <2>2 DEF GoBack, WordsOfPage
<1>5. ASSUME NEW m \in Modes, SetMode(m) PROVE Words
      BY <1>0, <1>1, <1>3, <1>5 DEF SetMode, WordsOfPage, PageOK
<1>6. CASE TypeName \/ AskDestroy \/ CancelDestroy
      BY <1>0, <1>1, <1>3, <1>6 DEF TypeName, AskDestroy, CancelDestroy,
         WordsOfPage, PageOK
<1>7. CASE handleFailover
  <2>1. WordsOfPage /\ page'.events = page.events
    <3>1. CASE NameMissing
          BY <1>0, <1>7, <3>1 DEF handleFailover, WordsOfPage, PageOK
    <3>2. CASE ~NameMissing
          BY <1>0, <1>7, <3>2 DEF handleFailover, WordsOfPage, PageOK
    <3> QED BY <3>1, <3>2
  <2>2. WordsOfCalls
    <3>1. CASE NameMissing
          BY <1>3, <1>7, <3>1 DEF handleFailover
    <3>2. CASE ~NameMissing
      <4>1. PICK c \in Calls : call' = [call EXCEPT ![c] = [Free EXCEPT
                     !.kind = "failover", !.at = "sent", !.live = TRUE,
                     !.mode = page.mode]]
            BY <1>7, <3>2 DEF handleFailover
      <4>2. [Free EXCEPT !.kind = "failover", !.at = "sent", !.live = TRUE,
                         !.mode = page.mode].seen = "other"
            BY DEF Free
      <4> QED BY <1>0, <4>1, <4>2, SentWords
    <3> QED BY <3>1, <3>2
  <2> QED BY <1>1, <1>7, <2>1, <2>2 DEF handleFailover
<1>8. CASE SimulateAgain \/ RetryFailover
  <2>1. /\ page'.error \in {page.error, "none"}
        /\ page'.destroyStatus \in {page.destroyStatus, "idle"}
        /\ page'.events = page.events
        BY <1>0, <1>8 DEF SimulateAgain, RetryFailover, PageOK
  <2>2. WordsOfPage
        BY <2>1 DEF WordsOfPage
  <2> QED BY <1>2, <1>3, <1>8, <2>1, <2>2 DEF SimulateAgain, RetryFailover
<1>9. CASE handleDestroyGcp
  <2>1. WordsOfCalls
        BY <1>0, <1>9 DEF handleDestroyGcp, WordsOfCalls, Free, CallOK
  <2> QED BY <1>0, <1>1, <1>9, <2>1 DEF handleDestroyGcp, WordsOfPage, PageOK
<1> QED BY <1>4, <1>5, <1>6, <1>7, <1>8, <1>9 DEF User

LEMMA SocketWords ==
    ASSUME TypeOK,
           \/ SimulationTick \/ EventsEffect \/ SocketOpens \/ SocketReceives
           \/ SocketDrops \/ StreamOutcome \/ ProgressEvent
    PROVE  Words
<1>0. PageOK /\ CallOK /\ SocketOK /\ TableOK
      BY DEF TypeOK
<1>1. UNCHANGED <<socket, call>> /\ page'.events = page.events =>
         WordsOfEvents /\ WordsOfCalls
      BY DEF WordsOfEvents, WordsOfCalls
<1>2. UNCHANGED page => WordsOfPage
      BY DEF WordsOfPage
<1>3. UNCHANGED call => WordsOfCalls
      BY DEF WordsOfCalls
<1> USE DEF Words, SocketSteps
<1>4. CASE SimulationTick
      BY <1>0, <1>1, <1>4 DEF SimulationTick, WordsOfPage, PageOK
<1>5. ASSUME NEW lines, Shows(lines) PROVE Words
  <2>1. /\ page'.events = page.events /\ page'.destroyStatus = page.destroyStatus
        /\ page'.error = IF "failed" \in NewEvents THEN "failed" ELSE page.error
        BY <1>0, <1>5 DEF Shows, PageOK
  <2>2. "failed" \in NewEvents =>
           \E i \in 1..Len(page.events) : page.events[i] = "failed"
        BY <1>0 DEF NewEvents, PageOK
  <2> QED BY <1>1, <1>5, <2>1, <2>2 DEF Shows, WordsOfPage
<1>6. CASE EventsEffect \/ ProgressEvent
      BY <1>5, <1>6 DEF EventsEffect, ProgressEvent
<1>7. CASE SocketOpens \/ SocketDrops
  <2>1. socket'.wire \in {socket.wire, <<>>} /\ UNCHANGED page
        BY <1>0, <1>7 DEF SocketOpens, SocketDrops, NoSocket, SocketOK
  <2>2. WordsOfEvents
        BY <2>1 DEF WordsOfEvents
  <2> QED BY <1>2, <1>3, <1>7, <2>1, <2>2 DEF SocketOpens, SocketDrops
<1>8. CASE SocketReceives
  <2>1. socket.wire \in Seq(Events) /\ socket.wire # <<>> /\ page.events \in Seq(Events)
        BY <1>0, <1>8 DEF SocketReceives, SocketOK, PageOK
  <2>2. /\ socket'.wire = Tail(socket.wire)
        /\ page'.events = Append(page.events, Head(socket.wire))
        /\ page'.error = page.error /\ page'.destroyStatus = page.destroyStatus
        BY <1>0, <1>8 DEF SocketReceives, SocketOK, PageOK
  <2>3. \A i \in 1..Len(socket'.wire) : socket'.wire[i] = "failed" =>
           \E j \in 1..Len(socket.wire) : socket.wire[j] = "failed"
    <3>1. /\ Len(socket'.wire) = Len(socket.wire) - 1
          /\ \A i \in 1..Len(socket'.wire) : socket'.wire[i] = socket.wire[i + 1]
          BY <2>1, <2>2
    <3> QED BY <2>1, <3>1
  <2>4. \A i \in 1..Len(page'.events) : page'.events[i] = "failed" =>
          \/ \E j \in 1..Len(page.events) : page.events[j] = "failed"
          \/ \E j \in 1..Len(socket.wire) : socket.wire[j] = "failed"
    <3>1. Head(socket.wire) = socket.wire[1] /\ 1 \in 1..Len(socket.wire)
          BY <2>1
    <3>2. \A i \in 1..Len(page'.events) :
             page'.events[i] = IF i <= Len(page.events) THEN page.events[i]
                               ELSE socket.wire[1]
          BY <2>1, <2>2, <3>1
    <3>3. Len(page'.events) = Len(page.events) + 1 /\ Len(page.events) \in Nat
          BY <2>1, <2>2
    <3> QED BY <3>1, <3>2, <3>3
  <2> QED BY <1>3, <1>8, <2>2, <2>3, <2>4 DEF SocketReceives, WordsOfPage, WordsOfEvents
<1>9. CASE StreamOutcome
  <2>1. page.failoverData \in Failovers
        BY <1>0, <1>9 DEF StreamOutcome, PageOK
  <2>2. PICK event \in Events :
           /\ Emit(event, FALSE)
           /\ fh[page.failoverData].status = event
        BY <1>9 DEF StreamOutcome, Events
  <2>3. socket'.wire = Append(socket.wire, event) /\ socket.wire \in Seq(Events)
        BY <1>0, <2>2 DEF Emit, SocketOK
  <2>4. \A i \in 1..Len(socket'.wire) : socket'.wire[i] = "failed" =>
          \/ \E j \in 1..Len(socket.wire) : socket.wire[j] = "failed"
          \/ event = "failed"
    <3>1. \A i \in 1..Len(socket'.wire) :
             socket'.wire[i] = IF i <= Len(socket.wire) THEN socket.wire[i] ELSE event
          BY <2>3
    <3>2. Len(socket'.wire) = Len(socket.wire) + 1 /\ Len(socket.wire) \in Nat
          BY <2>3
    <3> QED BY <3>1, <3>2
  <2>5. WordsOfEvents
        BY <2>1, <2>2, <2>4 DEF Emit, WordsOfEvents
  <2> QED BY <1>2, <1>3, <2>2, <2>5 DEF Emit
<1> QED BY <1>4, <1>6, <1>7, <1>8, <1>9

LEMMA AnswerWords == ASSUME TypeOK, NEW c \in Calls, Answers(c) PROVE Words
<1>0. PageOK /\ CallOK /\ SocketOK
      BY DEF TypeOK
<1>1. UNCHANGED socket /\ page'.events = page.events => WordsOfEvents
      BY DEF WordsOfEvents
<1>2. Release(c) => WordsOfCalls
      BY <1>0, ReleaseEffect DEF WordsOfCalls, Free
<1> USE DEF Words
<1>3. ASSUME NEW s \in {"idle", "confirming", "destroying", "destroyed", "failed"},
             EndsWith(c, s), s = "destroyed" => call[c].seen = "destroyed"
      PROVE  Words
      BY <1>0, <1>1, <1>2, <1>3 DEF EndsWith, WordsOfPage, PageOK
<1>4. CASE FailoverAccepted(c)
      BY <1>0, <1>2, <1>4 DEF FailoverAccepted, NoSocket, WordsOfPage, WordsOfEvents, PageOK
<1>5. CASE FailoverRejected(c)
      BY <1>0, <1>1, <1>2, <1>5 DEF FailoverRejected, WordsOfPage, PageOK
<1>6. CASE PollAgain(c)
  <2>1. WordsOfCalls
        BY <1>0, <1>6 DEF PollAgain, WordsOfCalls, CallOK
  <2> QED BY <1>1, <1>6, <2>1 DEF PollAgain, WordsOfPage
<1>7. CASE \/ DestroyRejected(c) \/ PollsRunOut(c) \/ SeesDestroyed(c)
           \/ SeesDestroyFailed(c)
      BY <1>3, <1>7 DEF DestroyRejected, PollsRunOut, SeesDestroyed, SeesDestroyFailed
<1> QED BY <1>4, <1>5, <1>6, <1>7 DEF Answers

LEMMA HandlerWords == ASSUME TypeOK, CallsNameRows, NEW c \in Calls, Handlers(c) PROVE Words
<1>0. CallOK /\ TableOK
      BY DEF TypeOK
<1>1. UNCHANGED <<page, socket>> => WordsOfPage /\ WordsOfEvents
      BY DEF WordsOfPage, WordsOfEvents
<1>2. call[c].seen \in {"other", "destroyed", "destroy_failed"}
      BY <1>0 DEF CallOK
<1> USE DEF Words
<1>3. CASE AcceptFailover(c)
  <2>1. PICK f \in Failovers, ok \in BOOLEAN : Answer(c, ok, f, call[c].seen)
        BY <1>3 DEF AcceptFailover
  <2>2. WordsOfCalls
        BY <1>0, <1>2, <2>1, AnswerEffect DEF WordsOfCalls
  <2> QED BY <1>1, <1>3, <2>2 DEF AcceptFailover
<1>4. CASE AcceptDestroy(c) \/ Refuse(c)
  <2>1. WordsOfCalls
        BY <1>0, <1>4, ReplyEffect DEF AcceptDestroy, Refuse, WordsOfCalls
  <2> QED BY <1>1, <1>4, <2>1 DEF AcceptDestroy, Refuse
<1>5. CASE get_failover_status(c)
  <2>1. DEFINE s == fh[call[c].row].status
               seen == IF s \in {"destroyed", "destroy_failed"} THEN s ELSE "other"
  <2>2. Answer(c, TRUE, call[c].row, seen)
        BY <1>5 DEF get_failover_status
  <2>3. call[c].row \in Failovers
        BY <1>0, <1>5 DEF get_failover_status, Sent, CallOK, CallsNameRows
  <2>4. WordsOfCalls
        BY <1>0, <2>2, <2>3, AnswerEffect DEF WordsOfCalls
  <2> QED BY <1>1, <1>5, <2>4 DEF get_failover_status
<1> QED BY <1>3, <1>4, <1>5 DEF Handlers

LEMMA JobWords ==
    ASSUME \/ \E t \in Tasks : Runner(t)
           \/ \E f \in Failovers : SimulationEnds(f)
           \/ UNCHANGED vars
    PROVE  Words
<1>1. UNCHANGED <<page, call, socket>>
      BY DEF vars, Runner, TaskNotStarted, RunTerraform, TaskDies,
         internal_failover_complete, SimulationEnds, JobSteps
<1> QED BY <1>1 DEF Words, WordsOfPage, WordsOfEvents, WordsOfCalls

LEMMA ReportedInductive ==
    TypeOK /\ CallsNameRows /\ ReportedInv /\ [Next]_vars => ReportedInv'
<1> SUFFICES ASSUME TypeOK, CallsNameRows, ReportedInv, [Next]_vars PROVE ReportedInv'
    OBVIOUS
<1>1. Words
      BY UserWords, SocketWords, AnswerWords, HandlerWords, JobWords DEF Next
<1>2. /\ reported \subseteq reported'
      /\ \A f \in Failovers : fh'[f].status \in {"failed", "destroyed"} =>
            fh'[f].status = fh[f].status \/ fh'[f].status \in reported'
      BY ReportedGrows
<1>3. (\A f \in Failovers : fh[f].status \in {"failed", "destroyed"} =>
                              fh[f].status \in reported)'
      BY <1>2 DEF ReportedInv
<1>4. Said(socket.wire)' /\ Said(page.events)'
      BY <1>1, <1>2 DEF Words, WordsOfEvents, ReportedInv, Said
<1>5. (\A c \in Calls : call[c].seen = "destroyed" => "destroyed" \in reported)'
      BY <1>1, <1>2 DEF Words, WordsOfCalls, ReportedInv
<1>6. ShownIsReported'
      BY <1>1, <1>2 DEF Words, WordsOfPage, ReportedInv, ShownIsReported, Said
<1> QED BY <1>3, <1>4, <1>5, <1>6 DEF ReportedInv

(* However long the events, answers and loops that carry a word are under way,
   and whichever failover the page shows by then: the page calls a failover
   failed, or the resources destroyed, only after the backend did.         *)
THEOREM ShownWordsAreReported == Spec => []ShownIsReported
<1>1. Init => ReportedInv
  <2>1. Len(<<>>) = 0
        OBVIOUS
  <2> QED BY <2>1 DEF Init, ReportedInv, ShownIsReported, Said, FailoverPage,
             NoSocket, Free
<1>2. Init => CallsNameRows
      BY DEF Init, CallsNameRows, Free
<1>3. ReportedInv => ShownIsReported
      BY DEF ReportedInv
<1>4. TypeOK /\ CallsNameRows /\ [Next]_vars => CallsNameRows'
      BY RowsNamed
<1> QED BY <1>1, <1>2, <1>3, <1>4, TypeInvariant, ReportedInductive, PTL DEF Spec
=============================================================================
