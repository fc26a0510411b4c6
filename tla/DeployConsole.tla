---------------------------- MODULE DeployConsole ----------------------------
(***************************************************************************)
(* One browser tab on the deployments of one project: the deploy page with *)
(* its event socket (hooks/useWebSocket.ts, and the stream of              *)
(* api/websocket.py at the other end), the partial-failure page and the    *)
(* dashboard.  The tables behind them are those of DeploymentRecord, which *)
(* everybody else may change at any time.                                  *)
(*                                                                         *)
(* A page keeps its state while it is mounted and loses it when the user   *)
(* leaves; its requests and its timers go on without it.  Events that      *)
(* arrive before React renders are seen by one run of the effect.          *)
(***************************************************************************)
EXTENDS DeploymentRecord, Sequences

CONSTANTS
    Calls,     (* HTTP requests of the tab that may be under way at once   *)
    MaxWire,   (* bound on log events on their way to the page             *)
    None       (* no deployment: a null id, an address without one         *)

ASSUME ConsoleAssumption ==
    /\ MaxWire \in Nat
    /\ None \notin Deployments

VARIABLES
    page,      (* the page that is mounted                                 *)
    call,      (* the requests under way and their answers                 *)
    deploy,    (* the state of the deploy page                             *)
    socket,    (* its WebSocket and what useWebSocket has collected        *)
    failure,   (* the state of the partial-failure page                    *)
    dash,      (* the state of the dashboard                               *)
    toast,     (* localStorage.deploy_toast is set                         *)
    timers,    (* pages that a setTimeout is going to push                 *)
    failures   (* history: rows that have been reported failed             *)

tab  == <<page, call, deploy, socket, failure, dash, toast, timers>>
vars == <<record, tab, failures>>

Pages == {"dashboard", "project", "deploy", "partial-failure"}
Kinds == {"deploy", "action", "failure", "list", "delete"}
Rows  == Deployments \cup {None}

Free == [kind |-> "list", at |-> "free", live |-> FALSE, row |-> None,
         op |-> "none", ok |-> FALSE, seen |-> "deleted"]

(* useState defaults of the pages *)
DeployPage  == [deploymentId |-> None, isDeploying |-> FALSE,
                deployStatus |-> "idle", named |-> FALSE]
NoSocket    == [state |-> "none", stream |-> "off", wire |-> <<>>,
                latest |-> "none", rendered |-> TRUE]
FailurePage(d) == [deploymentId |-> d, deployment |-> "none",
                   isLoading |-> FALSE, actionResult |-> "none"]
Dashboard   == [project |-> "deleted", isLoading |-> TRUE, error |-> FALSE,
                deleting |-> FALSE, destroyAws |-> FALSE,
                toast |-> FALSE, loaded |-> FALSE]

Init ==
    /\ RecordInit
    /\ page     = "project"
    /\ call     = [c \in Calls |-> Free]
    /\ deploy   = DeployPage
    /\ socket   = NoSocket
    /\ failure  = FailurePage(None)
    /\ dash     = Dashboard
    /\ toast    = FALSE
    /\ timers   = {}
    /\ failures = {}

-----------------------------------------------------------------------------
(* Requests.  When the page is gone its requests go on, but nobody takes the
   answers (live is FALSE).                                                *)

Request(c, kind, row, op) ==
    [Free EXCEPT !.kind = kind, !.at = "sent", !.live = TRUE,
                 !.row = row, !.op = op]
Send(c, kind, row, op) ==
    /\ call[c].at = "free"
    /\ call' = [call EXCEPT ![c] = Request(c, kind, row, op)]
Orphans == [c \in Calls |-> IF call[c].at = "sent"
                            THEN [call[c] EXCEPT !.live = FALSE] ELSE Free]

Sent(c, kind) == call[c].at = "sent" /\ call[c].kind = kind
Answer(c, ok, row, seen) ==
    call' = [call EXCEPT ![c] =
               IF ~call[c].live THEN Free
               ELSE [call[c] EXCEPT !.at = "answered", !.ok = ok,
                                    !.row = row, !.seen = seen]]
Reply(c, ok) == Answer(c, ok, call[c].row, call[c].seen)

Answered(c, kind, ok) ==
    /\ call[c].at = "answered"
    /\ call[c].kind = kind /\ call[c].ok = ok
    /\ call' = [call EXCEPT ![c] = Free]

-----------------------------------------------------------------------------
(* Going from page to page: what is mounted starts from its defaults, the
   socket of what is unmounted is closed.                                  *)

Mount(p, d) ==
    /\ page'    = p
    /\ deploy'  = DeployPage
    /\ socket'  = NoSocket
    /\ failure' = FailurePage(d)

OpenPlain(p) ==
    /\ Mount(p, None)
    /\ call' = Orphans
    /\ dash' = Dashboard
    /\ UNCHANGED toast

(* The dashboard takes the toast out of localStorage and asks for the list. *)
OpenDashboard ==
    /\ Mount("dashboard", None)
    /\ \E c \in Calls :
          /\ Orphans[c] = Free
          /\ call' = [Orphans EXCEPT ![c] = Request(c, "list", None, "none")]
    /\ dash'  = [Dashboard EXCEPT !.toast = toast]
    /\ toast' = FALSE

(* By a link of the application (None), or by an address that names a row. *)
OpenPartialFailure(d) ==
    /\ Mount("partial-failure", d)
    /\ IF d = None
       THEN call' = Orphans
       ELSE \E c \in Calls :
               /\ Orphans[c] = Free
               /\ call' = [Orphans EXCEPT ![c] = Request(c, "failure", d, "none")]
    /\ dash' = Dashboard
    /\ UNCHANGED toast

(* The links of the project page, of the top bar of the deploy page and of a
   row of the dashboard; the browser's own back button and address bar.    *)
ProjectLinks    == page = "project" /\ (OpenPlain("deploy") \/ OpenDashboard)
BackToProject   == page = "deploy" /\ OpenPlain("project")
DashboardRow    == /\ page = "dashboard" /\ ~dash.isLoading /\ ~dash.deleting
                   /\ dash.project # "deleted"
                   /\ OpenPlain("project")
BrowserControls ==
    \/ page = "partial-failure" /\ OpenPlain("project")
    \/ page # "partial-failure" /\ \E d \in Deployments : OpenPartialFailure(d)

UserGoes ==
    /\ ProjectLinks \/ BackToProject \/ DashboardRow \/ BrowserControls
    /\ UNCHANGED <<record, timers, failures>>

(* The timers are never cleared: they push whatever page is mounted.       *)
TimerFires ==
    /\ \E p \in timers :
          /\ timers' = timers \ {p}
          /\ \/ p = "dashboard"       /\ OpenDashboard
             \/ p = "partial-failure" /\ OpenPartialFailure(None)
    /\ UNCHANGED <<record, failures>>

-----------------------------------------------------------------------------
(* The deploy page *)

OnDeploy(s) == page = "deploy" /\ deploy.deployStatus = s

(* What the page shows in each state; the strip of steps above them.       *)
IdleCard      == OnDeploy("idle")
TerminalPanel == OnDeploy("deploying")
CompletedCard == OnDeploy("completed")
FailedCard    == OnDeploy("failed")
StepStrip ==
    CASE CompletedCard -> "passed" [] FailedCard -> "failed"
      [] TerminalPanel -> "running" [] OTHER -> "current"

handleDeploy ==
    /\ IdleCard /\ ~deploy.isDeploying
    /\ \E c \in Calls : Send(c, "deploy", None, "none")
    /\ deploy' = [deploy EXCEPT !.isDeploying = TRUE]
    /\ UNCHANGED <<record, page, socket, failure, dash, toast, timers, failures>>

(* The new id mounts the socket. *)
DeployAccepted(c) ==
    /\ Answered(c, "deploy", TRUE)
    /\ deploy' = [deploy EXCEPT !.deploymentId = call[c].row,
                                !.isDeploying = FALSE,
                                !.deployStatus = "deploying"]
    /\ socket' = [NoSocket EXCEPT !.state = "connecting"]
    /\ UNCHANGED <<record, page, failure, dash, toast, timers, failures>>

DeployRejected(c) ==
    /\ Answered(c, "deploy", FALSE)
    /\ deploy' = [deploy EXCEPT !.isDeploying = FALSE]
    /\ UNCHANGED <<record, page, socket, failure, dash, toast, timers, failures>>

(* The project's name arrives; the event effect depends on it and runs
   again on the event it has already seen.                                 *)
NameArrives ==
    /\ page = "deploy" /\ ~deploy.named
    /\ deploy' = [deploy EXCEPT !.named = TRUE]
    /\ socket' = [socket EXCEPT !.rendered = (socket.latest = "none")]
    /\ UNCHANGED <<record, page, call, failure, dash, toast, timers, failures>>

(* Mutant: the status is taken from the event, whatever it is.             *)
EventsEffect_Raw ==
    /\ page = "deploy" /\ ~socket.rendered
    /\ socket' = [socket EXCEPT !.rendered = TRUE]
    /\ deploy' = [deploy EXCEPT !.deployStatus = socket.latest]
    /\ UNCHANGED <<record, page, call, failure, dash, toast, timers, failures>>

(* Only the last event is looked at: log lines that arrived together with a
   later event are not shown.                                              *)
EventsEffect ==
    /\ page = "deploy" /\ ~socket.rendered
    /\ socket' = [socket EXCEPT !.rendered = TRUE]
    /\ \/ /\ socket.latest \in {"progress", "error"}
          /\ UNCHANGED <<deploy, toast, timers>>
       \/ /\ socket.latest = "completed"
          /\ deploy' = [deploy EXCEPT !.deployStatus = "completed"]
          /\ toast'  = TRUE
          /\ timers' = timers \cup {"dashboard"}
       \/ /\ socket.latest = "failed"
          /\ deploy' = [deploy EXCEPT !.deployStatus = "failed"]
          /\ timers' = timers \cup {"partial-failure"}
          /\ UNCHANGED toast
    /\ UNCHANGED <<record, page, call, failure, dash, failures>>

-----------------------------------------------------------------------------
(* useWebSocket *)

SocketSteps == UNCHANGED <<record, page, call, deploy, failure, dash, toast,
                           timers, failures>>

SocketOpens ==
    /\ socket.state = "connecting"
    /\ socket' = [socket EXCEPT !.state = "open", !.stream = "polling"]
    /\ SocketSteps

SocketReceives ==
    /\ socket.state = "open" /\ socket.wire # <<>>
    /\ socket' = [socket EXCEPT !.wire = Tail(@), !.latest = Head(socket.wire),
                                !.rendered = FALSE]
    /\ SocketSteps

(* The stream has ended, and its events have been delivered. *)
SocketCloses ==
    /\ socket.state = "open" /\ socket.stream = "ended" /\ socket.wire = <<>>
    /\ socket' = [socket EXCEPT !.state = "closed"]
    /\ SocketSteps

(* The connection breaks, or is never made.  Nothing connects it again.    *)
SocketDrops ==
    /\ socket.state \in {"connecting", "open"}
    /\ socket' = [socket EXCEPT !.state = "dropped", !.stream = "off",
                                !.wire = <<>>]
    /\ SocketSteps

-----------------------------------------------------------------------------
(* websocket_events: every two seconds the new log lines, then the row.    *)

Emit(event, stream) ==
    /\ socket' = [socket EXCEPT !.wire = Append(@, event), !.stream = stream]
    /\ SocketSteps
Watched == status[deploy.deploymentId]

StreamLog ==
    /\ socket.stream = "polling"
    /\ Len(socket.wire) < MaxWire
    /\ Emit("progress", "polling")

(* Mutant: the loop also ends at the result of a destroy.                  *)
StreamCompleted_AnyResult ==
    /\ socket.stream = "polling"
    /\ Watched \in {"completed", "destroyed", "destroy_failed"}
    /\ Emit("completed", "ended")

(* Mutant: the outcome overtakes the last log lines.                       *)
StreamCompleted_LogsLast ==
    /\ socket.stream = "polling"
    /\ Watched = "completed"
    /\ socket' = [socket EXCEPT !.wire = @ \o <<"completed", "progress">>,
                                !.stream = "ended"]
    /\ SocketSteps

StreamCompleted ==
    /\ socket.stream = "polling"
    /\ Watched = "completed"
    /\ Emit("completed", "ended")

(* Mutant: only one of the two kinds of failure ends the loop.             *)
StreamFindsFailure_NotPartial ==
    /\ socket.stream = "polling"
    /\ Watched = "failed"
    /\ socket' = [socket EXCEPT !.stream = "counting"]
    /\ SocketSteps

StreamFindsFailure ==
    /\ socket.stream = "polling"
    /\ Watched \in {"failed", "partial_failed"}
    /\ socket' = [socket EXCEPT !.stream = "counting"]
    /\ SocketSteps

(* The row is read once more, for its count of resources. *)
StreamFailed ==
    /\ socket.stream = "counting"
    /\ InDatabase(deploy.deploymentId)
    /\ Emit("failed", "ended")

(* The query raised, or the row was gone the second time. *)
StreamError ==
    /\ socket.stream \in {"polling", "counting"}
    /\ Emit("error", "ended")

websocket_events ==
    \/ StreamCompleted \/ StreamFindsFailure \/ StreamFailed

-----------------------------------------------------------------------------
(* The partial-failure page *)

DeploymentArrives(c) ==
    /\ Answered(c, "failure", TRUE)
    /\ failure' = [failure EXCEPT !.deployment = call[c].seen]
    /\ UNCHANGED <<record, page, deploy, socket, dash, toast, timers, failures>>

(* The promise is rejected; nobody catches it. *)
DeploymentFails(c) ==
    /\ Answered(c, "failure", FALSE)
    /\ UNCHANGED <<record, page, deploy, socket, failure, dash, toast, timers,
                   failures>>

(* The three cards: one button each, open unless a request is under way.
   "retry" is resume and fix_retry, which differ in their parameters.      *)
ActionCards == {"retry", "full_destroy"}

handleAction ==
    /\ page = "partial-failure" /\ ~failure.isLoading
    /\ \E c \in Calls, op \in ActionCards :
          Send(c, "action", failure.deploymentId, op)
    /\ failure' = [failure EXCEPT !.isLoading = TRUE]
    /\ UNCHANGED <<record, page, deploy, socket, dash, toast, timers, failures>>

ActionAccepted(c) ==
    /\ Answered(c, "action", TRUE)
    /\ failure' = [failure EXCEPT !.isLoading = FALSE, !.actionResult = call[c].op]
    /\ UNCHANGED <<record, page, deploy, socket, dash, toast, timers, failures>>

ActionRejected(c) ==
    /\ Answered(c, "action", FALSE)
    /\ failure' = [failure EXCEPT !.isLoading = FALSE]
    /\ UNCHANGED <<record, page, deploy, socket, dash, toast, timers, failures>>

-----------------------------------------------------------------------------
(* The dashboard.  dash.project is its copy of projects.status, "deleted"
   when the project is not in its list; dash.loaded remembers that a list
   has arrived.                                                            *)

DashSteps == UNCHANGED <<record, page, deploy, socket, failure, toast, timers,
                         failures>>

FilterKeys == {"all", "active", "deploying", "failed"}

(* The chips above the table; the backend stores two of the states that
   they, STATUS_CONFIG and the KPIs know.                                  *)
Filtered(k) ==
    /\ dash.project # "deleted"
    /\ \/ k = "all"
       \/ k = "active"    /\ dash.project = "completed"
       \/ k = "deploying" /\ dash.project \in {"deploying", "destroying"}
       \/ k = "failed"    /\ dash.project \in {"failed", "partial_failed",
                                               "destroy_failed"}
KpiActive == Filtered("active")

Table     == page = "dashboard" /\ ~dash.isLoading
Header    == page = "dashboard" /\ ~dash.isLoading
TableRow  == Table /\ \E k \in FilterKeys : Filtered(k)
EmptyNote == Table /\ \A k \in FilterKeys : ~Filtered(k)
Confirm   == TableRow /\ dash.deleting

(* Refresh; the button is disabled while a list is on its way.             *)
fetchProjects ==
    /\ Header
    /\ \E c \in Calls : Send(c, "list", None, "none")
    /\ dash' = [dash EXCEPT !.isLoading = TRUE]
    /\ DashSteps

ListArrives(c) ==
    /\ Answered(c, "list", TRUE)
    /\ dash' = [dash EXCEPT !.isLoading = FALSE, !.project = call[c].seen,
                            !.loaded = TRUE]
    /\ DashSteps

ListFails(c) ==
    /\ Answered(c, "list", FALSE)
    /\ dash' = [dash EXCEPT !.isLoading = FALSE, !.error = TRUE]
    /\ DashSteps

(* The trash can, the tick and the cancel button of a row, the crosses of the
   alert and of the toast (or its four seconds).                           *)
OpenConfirm == TableRow /\ ~dash.deleting /\ dash' = [dash EXCEPT !.deleting = TRUE]
TickDestroy == Confirm /\ dash' = [dash EXCEPT !.destroyAws = ~@]
CancelDelete == Confirm /\ dash' = [dash EXCEPT !.deleting = FALSE, !.destroyAws = FALSE]
DismissAlert == dash.error /\ dash' = [dash EXCEPT !.error = FALSE]
DeployToast  == dash.toast /\ dash' = [dash EXCEPT !.toast = FALSE]

DashboardClicks ==
    /\ \/ OpenConfirm \/ TickDestroy \/ CancelDelete
       \/ DismissAlert \/ DeployToast
    /\ DashSteps /\ UNCHANGED call

(* Nothing disables the button while the request is under way.  Whether the
   tick starts a destroy task makes no difference to the tables.           *)
handleDelete ==
    /\ Confirm
    /\ \E c \in Calls :
          Send(c, "delete", None, "none")
    /\ UNCHANGED dash
    /\ DashSteps

DeleteSucceeds(c) ==
    /\ Answered(c, "delete", TRUE)
    /\ dash' = [dash EXCEPT !.project = "deleted", !.deleting = FALSE,
                            !.destroyAws = FALSE]
    /\ DashSteps

DeleteFails(c) ==
    /\ Answered(c, "delete", FALSE)
    /\ dash' = [dash EXCEPT !.error = TRUE, !.deleting = FALSE,
                            !.destroyAws = FALSE]
    /\ DashSteps

-----------------------------------------------------------------------------
(* The backend's side of the requests; what happens inside the handlers is
   in DeployLifecycle.                                                     *)

TabWaits == UNCHANGED <<page, deploy, socket, failure, dash, toast, timers>>

LatestDraft(d) ==
    /\ status[d] = "created"
    /\ \A e \in Deployments : status[e] = "created" => e <= d

(* Accepted; the answer may not come through. *)
AcceptDeploy(c, d) ==
    /\ Sent(c, "deploy")
    /\ LatestDraft(d)
    /\ \A e \in Deployments : status[e] # "deploying"
    /\ Start(d, "deploying")
    /\ \E ok \in BOOLEAN : Answer(c, ok, d, call[c].seen)
    /\ TabWaits /\ UNCHANGED failures

RetryAllowed   == {"partial_failed"}
DestroyAllowed == {"completed", "partial_failed", "failed", "destroy_failed"}

AcceptAction(c) ==
    LET d == call[c].row IN
    /\ Sent(c, "action") /\ d # None
    /\ \/ /\ call[c].op = "retry" /\ status[d] \in RetryAllowed
          /\ Start(d, "deploying")
       \/ /\ call[c].op = "full_destroy" /\ status[d] \in DestroyAllowed
          /\ Start(d, "destroying")
    /\ \E ok \in BOOLEAN : Reply(c, ok)
    /\ TabWaits /\ UNCHANGED failures

AcceptDelete(c) ==
    /\ Sent(c, "delete")
    /\ project # "deleted"
    /\ Purge
    /\ \E ok \in BOOLEAN : Reply(c, ok)
    /\ TabWaits /\ UNCHANGED failures

(* 400, 404, 409, 500, or the request never got there.  An action without a
   deployment id matches no route.                                         *)
Refuse(c) ==
    /\ call[c].at = "sent"
    /\ Reply(c, FALSE)
    /\ TabWaits /\ UNCHANGED <<record, failures>>

ReadProjects(c) ==
    /\ Sent(c, "list")
    /\ Answer(c, TRUE, None, project)
    /\ TabWaits /\ UNCHANGED <<record, failures>>

ReadDeployment(c) ==
    /\ Sent(c, "failure") /\ InDatabase(call[c].row)
    /\ Answer(c, TRUE, call[c].row, status[call[c].row])
    /\ TabWaits /\ UNCHANGED <<record, failures>>

(* The wizard, the runner and other tabs. *)
Elsewhere ==
    /\ \/ /\ UNCHANGED failures
          /\ \/ \E d \in Deployments :
                   Draft(d) \/ Apply(d) \/ \E s \in {"deploying", "destroying"} : Start(d, s)
             \/ Purge
       \/ \E d \in Deployments, result \in Results :
             /\ Report(d, result)
             /\ failures' = IF result \in {"failed", "partial_failed"}
                            THEN failures \cup {d} ELSE failures
    /\ TabWaits /\ UNCHANGED call

Answers(c) ==
    \/ DeployAccepted(c)    \/ DeployRejected(c)
    \/ DeploymentArrives(c) \/ DeploymentFails(c)
    \/ ActionAccepted(c)    \/ ActionRejected(c)
    \/ ListArrives(c)       \/ ListFails(c)
    \/ DeleteSucceeds(c)    \/ DeleteFails(c)

Handlers(c) ==
    \/ \E d \in Deployments : AcceptDeploy(c, d)
    \/ AcceptAction(c) \/ AcceptDelete(c) \/ Refuse(c)
    \/ ReadProjects(c) \/ ReadDeployment(c)

User == UserGoes \/ handleDeploy \/ handleAction \/ fetchProjects
            \/ DashboardClicks \/ handleDelete

Next ==
    \/ User \/ TimerFires \/ NameArrives \/ EventsEffect
    \/ SocketOpens \/ SocketReceives \/ SocketCloses \/ SocketDrops
    \/ StreamLog \/ StreamError \/ websocket_events
    \/ \E c \in Calls : Answers(c) \/ Handlers(c)
    \/ Elsewhere

Spec == Init /\ [][Next]_vars

(* The connection that is made is used: the stream polls, its events arrive,
   React renders.  Users, requests and other writers owe nothing.          *)
Fairness ==
    /\ WF_vars(SocketOpens)      /\ WF_vars(SocketReceives)
    /\ WF_vars(websocket_events) /\ WF_vars(EventsEffect)

FairSpec == Spec /\ Fairness

-----------------------------------------------------------------------------
(* Properties *)

Events == {"progress", "completed", "failed", "error"}

RecordOK ==
    /\ project \in ProjectStatus
    /\ status \in [Deployments -> DeploymentStatus]
    /\ applied \subseteq Deployments /\ published \subseteq Deployments
    /\ failures \subseteq Deployments
CallOK ==
    call \in [Calls ->
        [kind : Kinds, at : {"free", "sent", "answered"}, live : BOOLEAN, row : Rows,
         op : ActionCards \cup {"none"}, ok : BOOLEAN,
         seen : ProjectStatus \cup DeploymentStatus]]
DeployOK ==
    deploy \in [deploymentId : Rows, isDeploying : BOOLEAN,
                deployStatus : {"idle", "deploying", "completed", "failed"},
                named : BOOLEAN]
SocketOK ==
    socket \in [state : {"none", "connecting", "open", "closed", "dropped"},
                stream : {"off", "polling", "counting", "ended"},
                wire : Seq(Events), latest : Events \cup {"none"},
                rendered : BOOLEAN]
FailureOK ==
    failure \in [deploymentId : Rows, deployment : DeploymentStatus \cup {"none"},
                 isLoading : BOOLEAN, actionResult : ActionCards \cup {"none"}]
DashOK ==
    dash \in [project : ProjectStatus, isLoading : BOOLEAN, error : BOOLEAN,
              deleting : BOOLEAN, destroyAws : BOOLEAN,
              toast : BOOLEAN, loaded : BOOLEAN]
TabOK ==
    /\ page \in Pages
    /\ toast \in BOOLEAN
    /\ timers \subseteq {"dashboard", "partial-failure"}

(* The pages, requests and tables keep the shapes that the types of the
   frontend (types/index.ts) and the tables declare.                       *)
TypeOK == /\ RecordOK  /\ CallOK /\ DeployOK /\ SocketOK
          /\ FailureOK /\ DashOK /\ TabOK

(* What the tab says of a deployment is true of that deployment, however many
   writers, renders, pages and late answers are between the row and the words:
   the completed card, the toast that is carried over to the dashboard, the
   timer that leads there and the active count rest on an apply, the failed
   card and its timer on a reported failure, the announced action on a row; a
   project that a loaded list no longer has is gone.                       *)
ShownOutcomeIsReal ==
    /\ StepStrip = "passed" => deploy.deploymentId \in applied
    /\ StepStrip = "failed" => deploy.deploymentId \in failures
    /\ toast \/ dash.toast \/ "dashboard" \in timers \/ KpiActive => applied # {}
    /\ "partial-failure" \in timers => failures # {}
    /\ failure.actionResult # "none" => failure.deploymentId # None
    /\ EmptyNote /\ dash.loaded /\ dash.project = "deleted" => project = "deleted"

(* Looking only at the last event loses log lines but never the outcome: once
   a stream has closed by itself and the page has rendered, the page has left
   "deploying", unless the stream ended in an error.                       *)
OutcomeIsNotSkipped ==
    TerminalPanel /\ socket.state = "closed" /\ socket.rendered =>
        socket.latest = "error"

Settled(d) == status[d] \in {"completed", "failed", "partial_failed"}

(* A deploy page whose deployment settles comes to show an outcome, unless
   the row moves on before the stream looks at it again, the stream ends in an
   error or the connection breaks (no page connects again).                *)
OutcomeReachesPage ==
    TerminalPanel /\ Settled(deploy.deploymentId) ~>
        \/ ~TerminalPanel \/ ~Settled(deploy.deploymentId)
        \/ socket.state = "dropped" \/ socket.latest = "error"
        \/ socket.stream = "ended" /\ "error" \in {socket.wire[i] : i \in DOMAIN socket.wire}
=============================================================================
