--------------------------- MODULE FailoverConsole ---------------------------
(***************************************************************************)
(* The failover page of one project in one tab, with its event socket      *)
(* (hooks/useWebSocket.ts, _stream_failover_logs in api/websocket.py), and  *)
(* what answers it: the failover endpoints of api/mirror.py, their          *)
(* background jobs and the tasks of failover-runner/entrypoint.sh.          *)
(*                                                                         *)
(* The handlers of the page are closures: what they await goes on after the *)
(* page has moved to another failover, and then writes into its state.      *)
(* All failovers of a project share one Terraform state in GCP.             *)
(***************************************************************************)
EXTENDS Integers, Sequences

CONSTANTS
    MaxFailovers, (* bound on the rows of failover_history                  *)
    Calls,        (* requests and loops of the tab that may be under way    *)
    Tasks,        (* runner tasks that may be under way at once             *)
    LastStep,     (* SIMULATION_STEPS.length - 1                            *)
    MaxPolls,     (* polls of a destroy before the page gives up            *)
    None          (* no failover                                            *)

Failovers == 1..MaxFailovers

ASSUME FailoverAssumption ==
    /\ {MaxFailovers, LastStep, MaxPolls} \subseteq Nat
    /\ None \notin Failovers

VARIABLES
    page,      (* the state of the page                                    *)
    call,      (* requests under way, and the loops that poll a destroy    *)
    socket,    (* the WebSocket, what it has delivered, what is shown      *)
    fh,        (* failover_history: mode and status of every row           *)
    task,      (* runner tasks, from background_tasks to their callback    *)
    resources, (* DR resources stand in GCP                                *)
    reported   (* history: the ends the page may show, once a row had them *)

backend == <<fh, task, resources, reported>>
vars    == <<page, call, socket, backend>>

Modes    == {"simulation", "actual"}
FoStatus == {"absent", "running", "completed", "failed",
             "destroying", "destroyed", "destroy_failed"}

Free == [kind |-> "none", at |-> "free", live |-> FALSE, row |-> None,
         mode |-> "simulation", ok |-> FALSE, seen |-> "other", polls |-> 0]
Idle == [at |-> "free", row |-> None, action |-> "apply", ok |-> FALSE]

(* useState defaults; events is the hook's list, of which only the outcomes
   are kept here, changed until the effect on it has run, and processed the
   page's processedEventsRef.  Of the log lines the page only asks whether one of
   them contains the word for "done".                                      *)
FailoverPage ==
    [mode |-> "simulation", confirmName |-> "empty", isRunning |-> FALSE,
     error |-> "none", failoverData |-> None, simStep |-> -1, logs |-> {},
     destroyStatus |-> "idle", completedFailover |-> FALSE,
     events |-> <<>>, changed |-> FALSE, processed |-> 0]
NoSocket == [state |-> "none", stream |-> FALSE, wire |-> <<>>]

Init ==
    /\ page = FailoverPage
    /\ call = [c \in Calls |-> Free]
    /\ socket = NoSocket
    /\ fh = [f \in Failovers |-> [mode |-> "simulation", status |-> "absent"]]
    /\ task = [t \in Tasks |-> Idle]
    /\ resources = FALSE
    /\ reported = {}

-----------------------------------------------------------------------------
(* Requests *)

Sent(c, kind)         == call[c].at = "sent" /\ call[c].kind = kind
Answered(c, kind, ok) == /\ call[c].at = "answered"
                         /\ call[c].kind = kind /\ call[c].ok = ok
Release(c)            == call' = [call EXCEPT ![c] = Free]
Answer(c, ok, f, seen) ==
    call' = [call EXCEPT ![c] =
               IF ~call[c].live THEN Free
               ELSE [@ EXCEPT !.at = "answered", !.ok = ok, !.row = f,
                              !.seen = seen]]
Reply(c, ok) == Answer(c, ok, call[c].row, call[c].seen)

-----------------------------------------------------------------------------
(* What the page shows *)

Done == "done" \in page.logs
Finished(m) == ~page.isRunning /\ page.mode = m
Simulated   == ~page.isRunning /\ page.simStep >= LastStep

ModeCard == ~page.isRunning /\ ~(page.mode = "actual" /\ page.error = "none" /\ Done)
ConfirmBlock    == ModeCard /\ page.mode = "actual"
SimulationCard  == page.mode = "simulation" /\ (page.isRunning \/ page.simStep >= 0)
SimulationOk    == SimulationCard /\ Simulated
Terminal        == page.isRunning /\ page.mode = "actual"
Result          == Finished("actual") /\ (page.logs # {} \/ page.completedFailover)
DangerZone(s)   == Result /\ page.destroyStatus = s
Footer          == Finished("actual") /\ (page.error # "none" \/ Done)

-----------------------------------------------------------------------------
(* The user.  Leaving the page, or loading it again, keeps nothing; what has
   been sent and changes something goes on without the page, as does what
   another tab has sent.                                                   *)

UserSteps == UNCHANGED backend

(* failover-history: any row, also that of a simulation.                   *)
get_failover_history ==
    \E f \in Failovers : fh[f].status \in {"completed", "destroy_failed", "destroying"}

GoBack ==
    /\ \E some \in {FALSE, get_failover_history} :
          page' = [FailoverPage EXCEPT !.completedFailover = some]
    /\ socket' = NoSocket
    /\ call' = [c \in Calls |->
                   IF call[c].at = "sent" /\ call[c].kind \in {"failover", "destroy"}
                   THEN [call[c] EXCEPT !.live = FALSE] ELSE Free]
    /\ UserSteps

SetMode(m) ==
    /\ ModeCard
    /\ page' = [page EXCEPT !.mode = m]
    /\ UNCHANGED <<call, socket>> /\ UserSteps

TypeName ==
    /\ ConfirmBlock
    /\ page' = [page EXCEPT !.confirmName = "typed"]
    /\ UNCHANGED <<call, socket>> /\ UserSteps

NameMissing == page.mode = "actual" /\ page.confirmName = "empty"

handleFailover ==
    /\ ModeCard
    /\ \/ /\ NameMissing
          /\ page' = [page EXCEPT !.error = "refused"]
          /\ UNCHANGED call
       \/ /\ ~NameMissing
          /\ page' = [page EXCEPT
                !.error = "none", !.isRunning = TRUE, !.simStep = 0, !.logs = {},
                !.destroyStatus = "idle", !.processed = 0]
          /\ \E c \in Calls :
                /\ call[c] = Free
                /\ call' = [call EXCEPT ![c] = [Free EXCEPT
                     !.kind = "failover", !.at = "sent", !.live = TRUE,
                     !.mode = page.mode]]
    /\ UNCHANGED socket /\ UserSteps

(* The new id closes the old socket and opens another; the events of the old
   one stay in the list.                                                   *)
FailoverAccepted(c) ==
    /\ Answered(c, "failover", TRUE)
    /\ page'   = [page EXCEPT !.failoverData = call[c].row]
    /\ socket' = [NoSocket EXCEPT !.state = "connecting"]
    /\ Release(c) /\ UserSteps

FailoverRejected(c) ==
    /\ Answered(c, "failover", FALSE)
    /\ page' = [page EXCEPT !.error = "refused", !.isRunning = FALSE,
                            !.simStep = -1]
    /\ Release(c) /\ UNCHANGED socket /\ UserSteps

(* The animation of a simulation knows nothing of the backend's.           *)
SimulationTick ==
    /\ page.isRunning /\ page.mode = "simulation"
    /\ page' = IF page.simStep >= LastStep
               THEN [page EXCEPT !.isRunning = FALSE]
               ELSE [page EXCEPT !.simStep = @ + 1]
    /\ UNCHANGED <<call, socket>> /\ UserSteps

SimulateAgain ==
    /\ Simulated
    /\ page' = [page EXCEPT !.simStep = -1, !.failoverData = None]
    /\ socket' = NoSocket
    /\ UNCHANGED call /\ UserSteps

RetryFailover ==
    /\ Footer /\ page.error # "none"
    /\ page' = [page EXCEPT !.error = "none", !.logs = {}, !.failoverData = None,
                            !.destroyStatus = "idle"]
    /\ socket' = NoSocket
    /\ UNCHANGED call /\ UserSteps

-----------------------------------------------------------------------------
(* Removing the DR resources *)

AskDestroy ==
    /\ DangerZone("idle") \/ DangerZone("failed")
    /\ page' = [page EXCEPT !.destroyStatus = "confirming"]
    /\ UNCHANGED <<call, socket>> /\ UserSteps

CancelDestroy ==
    /\ DangerZone("confirming")
    /\ page' = [page EXCEPT !.destroyStatus = "idle"]
    /\ UNCHANGED <<call, socket>> /\ UserSteps

(* The button does nothing when the failover is one of an earlier visit.   *)
handleDestroyGcp ==
    /\ DangerZone("confirming") /\ page.failoverData # None
    /\ page' = [page EXCEPT !.destroyStatus = "destroying"]
    /\ \E c \in Calls :
          /\ call[c] = Free
          /\ call' = [call EXCEPT ![c] = [Free EXCEPT
               !.kind = "destroy", !.at = "sent", !.live = TRUE,
               !.row = page.failoverData]]
    /\ UNCHANGED socket /\ UserSteps

EndsWith(c, s) ==
    /\ page' = [page EXCEPT !.destroyStatus = s]
    /\ Release(c) /\ UNCHANGED socket /\ UserSteps

DestroyRejected(c) == Answered(c, "destroy", FALSE) /\ EndsWith(c, "failed")

(* Ten seconds, then the row is asked for; the last time is after the loop. *)
Sleeps(c) ==
    \/ Answered(c, "destroy", TRUE)
    \/ Answered(c, "poll", FALSE)
    \/ Answered(c, "poll", TRUE) /\ call[c].seen = "other"
(* Mutant: the loop has no end. *)
PollAgain_NoBound(c) ==
    /\ Sleeps(c)
    /\ call' = [call EXCEPT ![c] = [@ EXCEPT !.kind = "poll", !.at = "sent",
                               !.polls = call[c].polls + 1, !.seen = "other"]]
    /\ UNCHANGED <<page, socket>> /\ UserSteps
PollAgain(c) ==
    /\ Sleeps(c) /\ call[c].polls <= MaxPolls
    /\ call' = [call EXCEPT ![c] = [@ EXCEPT !.kind = "poll", !.at = "sent",
                               !.polls = call[c].polls + 1, !.seen = "other"]]
    /\ UNCHANGED <<page, socket>> /\ UserSteps

(* Mutant: the loop takes any state but the failure for its end.           *)
SeesDestroyed_NotFailed(c) ==
    /\ Answered(c, "poll", TRUE) /\ call[c].seen # "destroy_failed"
    /\ EndsWith(c, "destroyed")
SeesDestroyed(c) ==
    /\ Answered(c, "poll", TRUE) /\ call[c].seen = "destroyed"
    /\ EndsWith(c, "destroyed")
SeesDestroyFailed(c) ==
    /\ Answered(c, "poll", TRUE) /\ call[c].seen = "destroy_failed"
    /\ EndsWith(c, "failed")

(* Mutant: after the last poll nothing is written.                         *)
PollsRunOut_Silent(c) ==
    /\ Sleeps(c) /\ call[c].polls > MaxPolls
    /\ Release(c) /\ UNCHANGED <<page, socket>> /\ UserSteps
PollsRunOut(c) ==
    /\ Sleeps(c) /\ call[c].polls > MaxPolls
    /\ EndsWith(c, "failed")

-----------------------------------------------------------------------------
(* The event socket.  The stream looks at the row every two seconds, sends
   the log lines of the whole group, then the outcome of the row.          *)

SocketSteps == UNCHANGED <<call, backend>>

SocketOpens ==
    /\ socket.state = "connecting"
    /\ socket' = [socket EXCEPT !.state = "open", !.stream = TRUE]
    /\ UNCHANGED page /\ SocketSteps

SocketDrops ==
    /\ socket.state \in {"connecting", "open"}
    /\ socket' = [NoSocket EXCEPT !.state = "dropped"]
    /\ UNCHANGED page /\ SocketSteps

Emit(event, stream) ==
    /\ socket.stream
    /\ socket' = [socket EXCEPT !.wire = Append(@, event), !.stream = stream]
    /\ UNCHANGED page /\ SocketSteps

(* Mutant: a failure does not end the loop and is not reported.            *)
StreamOutcome_OnlyCompleted ==
    /\ page.failoverData # None /\ fh[page.failoverData].status = "completed"
    /\ Emit("completed", FALSE)
StreamOutcome ==
    /\ page.failoverData # None
    /\ fh[page.failoverData].status \in {"completed", "failed"}
    /\ Emit(fh[page.failoverData].status, FALSE)

SocketReceives ==
    /\ socket.state = "open" /\ socket.wire # <<>>
    /\ socket' = [socket EXCEPT !.wire = Tail(@)]
    /\ page'   = [page EXCEPT !.events = Append(@, Head(socket.wire)),
                            !.changed = TRUE]
    /\ SocketSteps

(* Every event after the processed ones, in any mode; nobody asks to which
   failover it belongs.                                                    *)
NewEvents == {page.events[i] : i \in (page.processed + 1)..Len(page.events)}

Shows(lines) ==
    /\ page' = [page EXCEPT
          !.processed = Len(page.events), !.changed = FALSE,
          !.isRunning = @ /\ NewEvents = {},
          !.error     = IF "failed" \in NewEvents THEN "failed" ELSE @,
          !.logs      = @ \cup lines
              \cup (IF "completed" \in NewEvents THEN {"done"} ELSE {})
              \cup (IF "failed" \in NewEvents THEN {"line"} ELSE {})]
    /\ UNCHANGED <<call, socket, backend>>

EventsEffect == page.changed /\ Shows({})

(* A log line, which comes before the outcome.  It also shows whatever has
   not been processed.                                                     *)
ProgressEvent ==
    /\ socket.state = "open"
    /\ socket.stream \/ socket.wire # <<>>
    /\ Shows({"line"}) \/ Shows({"done"})

-----------------------------------------------------------------------------
(* The endpoints.  A started failover always has a new row; only an actual
   one gets a runner, in background_tasks after the answer.                *)

New(f) == fh[f].status = "absent" /\ \A g \in 1..(f - 1) : fh[g].status # "absent"
Queue(f, action) ==
    \E t \in Tasks :
        /\ task[t] = Idle
        /\ task' = [task EXCEPT ![t] = [Idle EXCEPT !.at = "queued", !.row = f,
                                                    !.action = action]]

failover(f, mode) ==
    /\ New(f)
    /\ fh' = [fh EXCEPT ![f] = [mode |-> mode, status |-> "running"]]
    /\ IF mode = "actual" THEN Queue(f, "apply") ELSE UNCHANGED task
    /\ UNCHANGED <<resources, reported>>

DestroyAllowed == {"completed", "failed", "running", "destroy_failed", "destroying"}

(* Mutant: the mode of the row is not looked at.                           *)
destroy_gcp_resources_AnyMode(f) ==
    /\ fh[f].status \in DestroyAllowed
    /\ fh' = [fh EXCEPT ![f].status = "destroying"]
    /\ Queue(f, "destroy")
    /\ UNCHANGED <<resources, reported>>
destroy_gcp_resources(f) ==
    /\ fh[f].mode = "actual"
    /\ fh[f].status \in DestroyAllowed
    /\ fh' = [fh EXCEPT ![f].status = "destroying"]
    /\ Queue(f, "destroy")
    /\ UNCHANGED <<resources, reported>>

(* The name that was typed may be the right one; the answer may be lost.   *)
AcceptFailover(c) ==
    /\ Sent(c, "failover")
    /\ \E f \in Failovers :
          /\ failover(f, call[c].mode)
          /\ \E ok \in BOOLEAN : Answer(c, ok, f, call[c].seen)
    /\ UNCHANGED <<page, socket>>

AcceptDestroy(c) ==
    /\ Sent(c, "destroy")
    /\ destroy_gcp_resources(call[c].row)
    /\ \E ok \in BOOLEAN : Reply(c, ok)
    /\ UNCHANGED <<page, socket>>

(* No GCP account, no package or none that is ready, a wrong name, a state
   that forbids it, no such row, a database error, no connection.          *)
Refuse(c) ==
    /\ call[c].at = "sent"
    /\ Reply(c, FALSE)
    /\ UNCHANGED <<page, socket, backend>>

get_failover_status(c) ==
    /\ Sent(c, "poll")
    /\ LET s == fh[call[c].row].status IN
       Answer(c, TRUE, call[c].row,
              IF s \in {"destroyed", "destroy_failed"} THEN s ELSE "other")
    /\ UNCHANGED <<page, socket, backend>>

-----------------------------------------------------------------------------
(* The jobs behind the endpoints *)

JobSteps == UNCHANGED <<page, call, socket>>
Becomes(f, s) ==
    /\ fh' = [fh EXCEPT ![f].status = s]
    /\ reported' = reported \cup ({s} \cap {"failed", "destroyed"})

(* Whatever the plan says. *)
SimulationEnds(f) ==
    /\ fh[f] = [mode |-> "simulation", status |-> "running"]
    /\ Becomes(f, "completed")
    /\ UNCHANGED <<task, resources>> /\ JobSteps

Outcome(t, ok) ==
    IF task[t].action = "destroy"
    THEN IF ok THEN "destroyed" ELSE "destroy_failed"
    ELSE IF ok THEN "completed" ELSE "failed"

(* run_task raised. *)
TaskNotStarted(t) ==
    /\ task[t].at = "queued"
    /\ Becomes(task[t].row, Outcome(t, FALSE))
    /\ task' = [task EXCEPT ![t] = Idle]
    /\ UNCHANGED resources /\ JobSteps

(* terraform apply or destroy; the state is locked while it runs.  When it
   fails, it may have changed nothing or nearly everything.                *)
RunTerraform(t) ==
    /\ task[t].at = "queued"
    /\ \E ok \in BOOLEAN :
          /\ task' = [task EXCEPT ![t].at = "done", ![t].ok = ok]
          /\ IF ok THEN resources' = (task[t].action = "apply")
             ELSE resources' \in {resources, resources \/ task[t].action = "apply"}
    /\ UNCHANGED <<fh, reported>> /\ JobSteps

(* set -e: a download, a credential or the callback itself fails.          *)
TaskDies(t) ==
    /\ task[t].at # "free"
    /\ task' = [task EXCEPT ![t] = Idle]
    /\ UNCHANGED <<fh, resources, reported>> /\ JobSteps

(* Whatever the row says by now. *)
internal_failover_complete(t) ==
    /\ task[t].at = "done"
    /\ Becomes(task[t].row, Outcome(t, task[t].ok))
    /\ task' = [task EXCEPT ![t] = Idle]
    /\ UNCHANGED resources /\ JobSteps

-----------------------------------------------------------------------------
User ==
    \/ GoBack \/ TypeName \/ handleFailover \/ SimulateAgain \/ RetryFailover
    \/ AskDestroy \/ CancelDestroy \/ handleDestroyGcp
    \/ \E m \in Modes : SetMode(m)

Answers(c) ==
    \/ FailoverAccepted(c) \/ FailoverRejected(c)
    \/ DestroyRejected(c)  \/ PollAgain(c)        \/ PollsRunOut(c)
    \/ SeesDestroyed(c)    \/ SeesDestroyFailed(c)

Handlers(c) ==
    \/ AcceptFailover(c) \/ AcceptDestroy(c) \/ Refuse(c)
    \/ get_failover_status(c)

Runner(t) == TaskNotStarted(t) \/ RunTerraform(t) \/ TaskDies(t)
                \/ internal_failover_complete(t)

Next ==
    \/ User \/ SimulationTick \/ EventsEffect
    \/ SocketOpens \/ SocketReceives \/ SocketDrops \/ StreamOutcome \/ ProgressEvent
    \/ \E c \in Calls : Answers(c) \/ Handlers(c)
    \/ \E t \in Tasks : Runner(t)
    \/ \E f \in Failovers : SimulationEnds(f)

Spec == Init /\ [][Next]_vars

(* Every request is answered or fails, React renders, the stream polls.  The
   user, other tabs and the runner owe nothing.  (A socket that is connecting
   receives nothing, and a request is with the page or with the backend: one
   condition for both is as strong as one for each.)                       *)
Fairness ==
    /\ WF_vars(SocketOpens \/ SocketReceives)
    /\ WF_vars(StreamOutcome) /\ WF_vars(EventsEffect)
    /\ \A c \in Calls : WF_vars(Answers(c) \/ Handlers(c))

FairSpec == Spec /\ Fairness

-----------------------------------------------------------------------------
(* Properties *)

Events == {"completed", "failed"}

PageOK ==
    page \in [mode : Modes, confirmName : {"empty", "typed"},
              isRunning : BOOLEAN,
              error : {"none", "refused", "failed"},
              failoverData : Failovers \cup {None},
              simStep : -1..LastStep, logs : SUBSET {"line", "done"},
              destroyStatus : {"idle", "confirming", "destroying",
                               "destroyed", "failed"},
              completedFailover : BOOLEAN, events : Seq(Events),
              changed : BOOLEAN, processed : Nat]
CallOK ==
    call \in [Calls -> [kind : {"none", "failover", "destroy", "poll"},
                        at : {"free", "sent", "answered"}, live : BOOLEAN,
                        row : Failovers \cup {None}, mode : Modes,
                        ok : BOOLEAN, seen : {"other", "destroyed", "destroy_failed"},
                        polls : 0..(MaxPolls + 1)]]
SocketOK ==
    socket \in [state : {"none", "connecting", "open", "dropped"},
                stream : BOOLEAN, wire : Seq(Events)]
TableOK ==
    /\ fh \in [Failovers -> [mode : Modes, status : FoStatus]]
    /\ reported \subseteq {"failed", "destroyed"}
TaskOK ==
    /\ task \in [Tasks -> [at : {"free", "queued", "done"},
                           row : Failovers \cup {None},
                           action : {"apply", "destroy"}, ok : BOOLEAN]]
    /\ resources \in BOOLEAN

(* The page, its requests, its socket and the tables keep the shapes that
   the types of the frontend and of the models declare.                    *)
TypeOK == PageOK /\ CallOK /\ SocketOK /\ TableOK /\ TaskOK

(* Whatever loops, replayed events and late answers write into the page: it
   shows a failed failover or destroyed resources only if the backend has
   said so of some failover of the project.                                *)
ShownIsReported ==
    /\ page.error = "failed" => "failed" \in reported
    /\ page.destroyStatus = "destroyed" => "destroyed" \in reported

(* mode option, failover/page.tsx: a simulation creates nothing.  No runner
   task is ever made for its row, and no destroy moves it.                 *)
SimulationIsSafe ==
    \A f \in Failovers : fh[f].mode = "simulation" =>
        /\ fh[f].status \in {"absent", "running", "completed"}
        /\ \A t \in Tasks : task[t].row # f

(* "Deleting" ends: the row says so, the request fails, or the polls run out,
   also when the runner died without a word.                               *)
DestroyLoopEnds ==
    page.destroyStatus = "destroying" ~> page.destroyStatus # "destroying"

Settled(f) == f # None /\ fh[f].status \in {"completed", "failed"}

(* The terminal of a failover that has settled goes away, unless a destroy
   moves the row before the stream looks, or the connection breaks.        *)
TerminalEnds ==
    Terminal /\ Settled(page.failoverData) ~>
        \/ ~Terminal \/ ~Settled(page.failoverData)
        \/ socket.state = "dropped"
=============================================================================
