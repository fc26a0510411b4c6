------------------------- MODULE DeployConsoleProofs -------------------------
(* Proofs about DeployConsole, for any number of deployments and requests. *)
EXTENDS DeployConsole, TLAPS

Requests ==
    [kind : Kinds, at : {"free", "sent", "answered"}, live : BOOLEAN, row : Rows,
     op : ActionCards \cup {"none"}, ok : BOOLEAN,
     seen : ProjectStatus \cup DeploymentStatus]

(* The page that makes a request, and waits for its answer. *)
HomeOf(kind) == CASE kind = "deploy" -> "deploy"
                  [] kind \in {"action", "failure"} -> "partial-failure"
                  [] OTHER -> "dashboard"
Live(c, kind) == call[c].live /\ call[c].kind = kind
Told(c, kind) == call[c].at = "answered" /\ call[c].kind = kind /\ call[c].ok

(* What the rows say has happened, and a deleted project has none.         *)
Tables ==
    /\ \A d \in Deployments :
          /\ status[d] = "completed" => d \in applied
          /\ status[d] \in {"failed", "partial_failed"} => d \in failures
          /\ project = "deleted" => status[d] = "absent"
    /\ project = "completed" => applied # {}

(* Only a live request is answered, and it is live on the page that made it. *)
WaitingOf(c) == /\ call[c].at = "answered" => call[c].live
                /\ call[c].live => page = HomeOf(call[c].kind)
Waiting == \A c \in Calls : WaitingOf(c)

(* What an answer says is of the right kind, and was and still is true.    *)
TellingOf(c) ==
    /\ Told(c, "deploy") => call[c].row \in Deployments
    /\ Told(c, "action") => call[c].row # None
    /\ Told(c, "failure") => call[c].seen \in DeploymentStatus
    /\ call[c].kind = "failure" => call[c].row \in Deployments
    /\ Told(c, "delete") => project = "deleted"
    /\ call[c].kind = "list" =>
          /\ call[c].seen \in ProjectStatus
          /\ call[c].seen = "completed" => applied # {}
          /\ Told(c, "list") /\ call[c].seen = "deleted" => project = "deleted"
Telling == \A c \in Calls : TellingOf(c)

(* A deploy page asks once, and an action is of the row of its page.       *)
AskingOf(c) ==
    /\ Live(c, "deploy") =>
          /\ deploy.isDeploying /\ deploy.deployStatus = "idle"
          /\ \A e \in Calls : Live(e, "deploy") => e = c
    /\ Live(c, "action") => call[c].row = failure.deploymentId
Asking == \A c \in Calls : AskingOf(c)

(* What the other pages and the timers remember. *)
Remembering ==
    /\ toast \/ dash.toast \/ "dashboard" \in timers => applied # {}
    /\ "partial-failure" \in timers => failures # {}
    /\ dash.project = "completed" => applied # {}
    /\ dash.loaded /\ dash.project = "deleted" => project = "deleted"
    /\ failure.actionResult # "none" => failure.deploymentId # None

(* What an event, or an outcome, says of the deployment of the page.       *)
True(event) ==
    /\ event = "completed" => deploy.deploymentId \in applied
    /\ event = "failed" => deploy.deploymentId \in failures
Ends == {"completed", "failed", "error"}

(* The socket is that of a deploy page with a deployment; its words are
   true; an ended stream has sent an outcome last, and what was rendered is
   what the page shows.                                                    *)
Streaming ==
    /\ socket.state = "none" <=> deploy.deployStatus = "idle"
    /\ socket.state # "none" => page = "deploy" /\ deploy.deploymentId \in Deployments
    /\ socket.state = "none" => socket.latest = "none"
    /\ socket.stream \in {"polling", "counting"} => socket.state = "open"
    /\ socket.stream = "ended" => socket.state \in {"open", "closed"}
    /\ True(deploy.deployStatus) /\ True(socket.latest)
    /\ \A i \in 1..Len(socket.wire) : True(socket.wire[i])
    /\ socket.stream = "counting" => True("failed")
    /\ ~socket.rendered => socket.latest # "none"
Ending ==
    /\ socket.state = "closed" => socket.stream = "ended" /\ socket.wire = <<>>
    /\ socket.stream = "ended" =>
          IF socket.wire = <<>> THEN socket.latest \in Ends
          ELSE socket.wire[Len(socket.wire)] \in Ends
    /\ socket.rendered /\ socket.latest \in {"completed", "failed"} =>
          deploy.deployStatus = socket.latest

Inv == /\ TypeOK /\ Tables /\ Waiting /\ Telling /\ Asking /\ Remembering
       /\ Streaming /\ Ending

Books == Waiting /\ Telling /\ Asking

(* What has happened stays so. *)
Grows == /\ applied \subseteq applied' /\ failures \subseteq failures'
         /\ project = "deleted" => project' = "deleted"

-----------------------------------------------------------------------------
(* What the building blocks of the actions do.                             *)

LEMMA HeadAndTail ==
    ASSUME NEW S, NEW s \in Seq(S), s # <<>>
    PROVE  /\ Head(s) = s[1] /\ Head(s) \in S /\ Tail(s) \in Seq(S) /\ 1 \in 1..Len(s)
           /\ Len(Tail(s)) = Len(s) - 1
           /\ \A i \in 1..(Len(s) - 1) : Tail(s)[i] = s[i + 1]
           /\ (Tail(s) = <<>> => Len(s) = 1)
           /\ (Tail(s) # <<>> => Len(s) - 1 \in 1..(Len(s) - 1))
<1>1. Len(s) \in Nat /\ Len(s) # 0
      OBVIOUS
<1>2. /\ Head(s) = s[1] /\ Head(s) \in S /\ Tail(s) \in Seq(S)
      /\ Len(Tail(s)) = Len(s) - 1
      OBVIOUS
<1>3. \A i \in 1..(Len(s) - 1) : Tail(s)[i] = s[i + 1]
      BY <1>1
<1>4. Tail(s) = <<>> => Len(s) = 1
  <2>1. Len(<<>>) = 0
        OBVIOUS
  <2> QED BY <1>1, <1>2, <2>1
<1>5. Tail(s) # <<>> => Len(s) - 1 # 0
      BY <1>2
<1> QED BY <1>1, <1>2, <1>3, <1>4, <1>5

LEMMA FreeIsRequest == Free \in Requests
BY DEF Free, Requests, Kinds, Rows, ProjectStatus

LEMMA SendEffect ==
    ASSUME CallOK, NEW c \in Calls, NEW kind \in Kinds, NEW row \in Rows,
           NEW op \in ActionCards \cup {"none"}, Send(c, kind, row, op)
    PROVE  /\ CallOK' /\ call[c].at = "free"
           /\ call'[c].kind = kind /\ call'[c].at = "sent" /\ call'[c].live
           /\ call'[c].row = row /\ ~call'[c].ok /\ call'[c].seen = "deleted"
           /\ \A e \in Calls \ {c} : call'[e] = call[e]
<1>1. DEFINE request == Request(c, kind, row, op)
<1>2. /\ request \in Requests
      /\ request.kind = kind /\ request.at = "sent" /\ request.live = TRUE
      /\ request.row = row /\ request.ok = FALSE /\ request.seen = "deleted"
      BY FreeIsRequest DEF Request, Requests, Free
<1>3. call' = [call EXCEPT ![c] = request] /\ call[c].at = "free"
      BY DEF Send
<1> HIDE DEF request
<1> QED BY <1>2, <1>3 DEF CallOK, Requests

LEMMA AnsweredEffect ==
    ASSUME CallOK, NEW c \in Calls, NEW kind, NEW ok, Answered(c, kind, ok)
    PROVE  /\ CallOK' /\ call[c].at = "answered" /\ call[c].kind = kind /\ call[c].ok = ok
           /\ call'[c] = Free
           /\ \A e \in Calls \ {c} : call'[e] = call[e]
BY FreeIsRequest DEF CallOK, Requests, Answered

LEMMA AnswerEffect ==
    ASSUME CallOK, NEW c \in Calls, NEW ok \in BOOLEAN, NEW row \in Rows,
           NEW seen \in ProjectStatus \cup DeploymentStatus, Answer(c, ok, row, seen)
    PROVE  /\ CallOK'
           /\ \/ ~call[c].live /\ call'[c] = Free
              \/ /\ call[c].live /\ call'[c].live /\ call'[c].kind = call[c].kind
                 /\ call'[c].at = "answered" /\ call'[c].ok = ok
                 /\ call'[c].row = row /\ call'[c].seen = seen
           /\ \A e \in Calls \ {c} : call'[e] = call[e]
<1>1. call[c] \in Requests
      BY DEF CallOK, Requests
<1>2. DEFINE answer == [call[c] EXCEPT !.at = "answered", !.ok = ok,
                                       !.row = row, !.seen = seen]
<1>3. /\ answer \in Requests /\ answer.live = call[c].live /\ answer.kind = call[c].kind
      /\ answer.at = "answered" /\ answer.ok = ok /\ answer.row = row /\ answer.seen = seen
      BY <1>1 DEF Requests
<1>4. call' = [call EXCEPT ![c] = IF ~call[c].live THEN Free ELSE answer]
      BY DEF Answer
<1> HIDE DEF answer
<1>5. CASE call[c].live
      BY <1>3, <1>4, <1>5 DEF CallOK, Requests
<1>6. CASE ~call[c].live
      BY <1>4, <1>6, FreeIsRequest DEF CallOK, Requests
<1> QED BY <1>5, <1>6

LEMMA ReplyEffect ==
    ASSUME CallOK, NEW c \in Calls, NEW ok \in BOOLEAN, Reply(c, ok)
    PROVE  /\ CallOK'
           /\ \/ ~call[c].live /\ call'[c] = Free
              \/ /\ call[c].live /\ call'[c].live /\ call'[c].kind = call[c].kind
                 /\ call'[c].at = "answered" /\ call'[c].ok = ok
                 /\ call'[c].row = call[c].row /\ call'[c].seen = call[c].seen
           /\ \A e \in Calls \ {c} : call'[e] = call[e]
<1>1. call[c].row \in Rows /\ call[c].seen \in ProjectStatus \cup DeploymentStatus
      BY DEF CallOK
<1> QED BY <1>1, AnswerEffect DEF Reply

LEMMA OrphansEffect ==
    ASSUME CallOK
    PROVE  /\ Orphans \in [Calls -> Requests]
           /\ \A c \in Calls : \/ Orphans[c] = Free
                               \/ /\ ~Orphans[c].live /\ Orphans[c].at = "sent"
                                  /\ Orphans[c].kind = call[c].kind
                                  /\ Orphans[c].seen = call[c].seen
                                  /\ Orphans[c].row = call[c].row
<1>1. ASSUME NEW c \in Calls
      PROVE  LET orphan == [call[c] EXCEPT !.live = FALSE] IN
             /\ orphan \in Requests /\ ~orphan.live
             /\ orphan.kind = call[c].kind /\ orphan.seen = call[c].seen
             /\ orphan.at = call[c].at /\ orphan.row = call[c].row
      BY DEF CallOK, Requests
<1> QED BY <1>1, FreeIsRequest DEF Orphans

LEMMA FreeIsQuiet ==
    ASSUME NEW c \in Calls, call'[c] = Free
    PROVE  WaitingOf(c)' /\ TellingOf(c)' /\ ~Live(c, "deploy")' /\ ~Live(c, "action")'
BY DEF WaitingOf, TellingOf, Live, Told, Free, ProjectStatus

(* What a request, a result or a writer elsewhere does to the tables.      *)
LEMMA RecordEffect ==
    ASSUME RecordOK, Tables,
           \/ UNCHANGED failures /\ \/ UNCHANGED record \/ Purge
                                    \/ \E d \in Deployments : Draft(d) \/ Apply(d)
                                          \/ \E s \in {"deploying", "destroying"} : Start(d, s)
           \/ \E d \in Deployments, result \in Results :
                 /\ Report(d, result)
                 /\ failures' = IF result \in {"failed", "partial_failed"}
                                THEN failures \cup {d} ELSE failures
    PROVE  RecordOK' /\ Tables' /\ Grows
<1> USE DEF RecordOK, Tables, Grows, ProjectStatus, DeploymentStatus, InDatabase
<1>1. CASE UNCHANGED failures /\ UNCHANGED record
      BY <1>1 DEF record
<1>2. CASE UNCHANGED failures /\ Purge
      BY <1>2 DEF Purge
<1>3. ASSUME UNCHANGED failures, NEW d \in Deployments, Draft(d)
      PROVE  RecordOK' /\ Tables' /\ Grows
      BY <1>3 DEF Draft
<1>4. ASSUME UNCHANGED failures, NEW d \in Deployments, Apply(d)
      PROVE  RecordOK' /\ Tables' /\ Grows
      BY <1>4 DEF Apply
<1>5. ASSUME UNCHANGED failures, NEW d \in Deployments,
             NEW s \in {"deploying", "destroying"}, Start(d, s)
      PROVE  RecordOK' /\ Tables' /\ Grows
      BY <1>5 DEF Start
<1>6. ASSUME NEW d \in Deployments, NEW result \in Results, Report(d, result),
             failures' = IF result \in {"failed", "partial_failed"}
                         THEN failures \cup {d} ELSE failures
      PROVE  RecordOK' /\ Tables' /\ Grows
      BY <1>6 DEF Report, Results
<1> QED BY <1>1, <1>2, <1>3, <1>4, <1>5, <1>6

LEMMA RecordStays ==
    ASSUME RecordOK, Tables, UNCHANGED <<record, failures>>
    PROVE  RecordOK' /\ Tables' /\ Grows
BY RecordEffect

(* When only one request changes, and the pages do not, that one decides.  *)
LEMMA BooksKept ==
    ASSUME Books, Grows, page' = page, failure'.deploymentId = failure.deploymentId,
           deploy'.isDeploying = deploy.isDeploying,
           deploy'.deployStatus = deploy.deployStatus,
           NEW c \in Calls, \A e \in Calls \ {c} : call'[e] = call[e],
           WaitingOf(c)', TellingOf(c)',
           Live(c, "deploy")' => Live(c, "deploy"),
           Live(c, "action")' => call'[c].row = failure.deploymentId
    PROVE  Books'
<1> USE DEF Books, Waiting, Telling, Asking, Grows
<1>1. ASSUME NEW e \in Calls PROVE WaitingOf(e)' /\ TellingOf(e)' /\ AskingOf(e)'
  <2>1. ASSUME NEW x \in Calls, Live(x, "deploy")' PROVE Live(x, "deploy")
        BY <2>1 DEF Live
  <2>2. CASE e = c
        BY <2>1, <2>2 DEF AskingOf
  <2>3. CASE e # c
    <3>1. call'[e] = call[e] /\ WaitingOf(e) /\ TellingOf(e) /\ AskingOf(e)
          BY <2>3
    <3>2. WaitingOf(e)'
          BY <3>1 DEF WaitingOf
    <3>3. TellingOf(e)'
          BY <3>1 DEF TellingOf, Told
    <3>4. AskingOf(e)'
          BY <3>1, <2>1 DEF AskingOf, Live
    <3> QED BY <3>2, <3>3, <3>4
  <2> QED BY <2>2, <2>3
<1> QED BY <1>1

LEMMA BooksStay ==
    ASSUME Books, Grows, UNCHANGED call, page' = page,
           failure'.deploymentId = failure.deploymentId,
           \/ deploy'.isDeploying = deploy.isDeploying
              /\ deploy'.deployStatus = deploy.deployStatus
           \/ deploy.deployStatus # "idle"
    PROVE  Books'
<1> USE DEF Books, Waiting, Telling, Asking, Grows
<1>1. ASSUME NEW e \in Calls PROVE WaitingOf(e)' /\ TellingOf(e)' /\ AskingOf(e)'
  <2>1. WaitingOf(e) /\ TellingOf(e) /\ AskingOf(e)
        OBVIOUS
  <2>2. WaitingOf(e)'
        BY <2>1 DEF WaitingOf
  <2>3. TellingOf(e)'
        BY <2>1 DEF TellingOf, Told
  <2>4. AskingOf(e)'
        BY <2>1 DEF AskingOf, Live
  <2> QED BY <2>2, <2>3, <2>4
<1> QED BY <1>1

(* The tab is left alone while the tables grow. *)
LEMMA TabKept ==
    ASSUME Remembering, Streaming, Ending, Grows,
           UNCHANGED <<page, deploy, socket, failure, dash, toast, timers>>
    PROVE  Remembering' /\ Streaming' /\ Ending'
<1>1. Remembering'
      BY DEF Remembering, Grows
<1>2. \A event : True(event) => True(event)'
      BY DEF True, Grows
<1>3. Streaming'
      BY <1>2 DEF Streaming
<1>4. Ending'
      BY DEF Ending
<1> QED BY <1>1, <1>3, <1>4

LEMMA ShapesKept ==
    /\ DeployOK /\ UNCHANGED deploy => DeployOK'
    /\ SocketOK /\ UNCHANGED socket => SocketOK'
    /\ FailureOK /\ UNCHANGED failure => FailureOK'
    /\ DashOK /\ UNCHANGED dash => DashOK'
    /\ TabOK /\ UNCHANGED <<page, toast, timers>> => TabOK'
    /\ CallOK /\ UNCHANGED call => CallOK'
BY DEF DeployOK, SocketOK, FailureOK, DashOK, TabOK, CallOK

-----------------------------------------------------------------------------
(* The invariant is kept by every kind of step.                            *)

(* Another writer of the tables. *)
LEMMA ElsewhereInv == ASSUME Inv, Elsewhere PROVE Inv'
<1> USE DEF Inv
<1>1. RecordOK /\ CallOK /\ DeployOK /\ SocketOK /\ FailureOK /\ DashOK /\ TabOK
      BY DEF TypeOK
<1>2. TabWaits /\ UNCHANGED call
      BY DEF Elsewhere
<1>3. RecordOK' /\ Tables' /\ Grows
      BY <1>1, RecordEffect DEF Elsewhere
<1>4. Books'
      BY <1>2, <1>3, BooksStay DEF TabWaits, Books
<1>5. Remembering' /\ Streaming' /\ Ending'
      BY <1>2, <1>3, TabKept DEF TabWaits
<1>6. TypeOK'
      BY <1>1, <1>2, <1>3, ShapesKept DEF TypeOK, TabWaits
<1> QED BY <1>3, <1>4, <1>5, <1>6 DEF Books

(* The backend has answered a request, and written something before or not. *)
LEMMA ServedInv ==
    ASSUME Inv, NEW c \in Calls, call[c].at = "sent", TabWaits,
           RecordOK', Tables', Grows, CallOK',
           \/ call'[c] = Free
           \/ /\ call'[c].live /\ call[c].live /\ call'[c].kind = call[c].kind
              /\ call'[c].kind = "action" => call'[c].row = call[c].row
              /\ TellingOf(c)',
           \A e \in Calls \ {c} : call'[e] = call[e]
    PROVE  Inv'
<1> USE DEF Inv
<1>1. DeployOK /\ SocketOK /\ FailureOK /\ DashOK /\ TabOK /\ WaitingOf(c) /\ AskingOf(c)
      BY DEF TypeOK, Waiting, Asking
<1>2. /\ WaitingOf(c)' /\ TellingOf(c)'
      /\ Live(c, "deploy")' => Live(c, "deploy")
      /\ Live(c, "action")' => call'[c].row = failure.deploymentId
  <2>1. CASE call'[c] = Free
        BY <2>1, FreeIsQuiet
  <2>2. CASE call'[c] # Free
        BY <1>1, <2>2 DEF WaitingOf, AskingOf, Live, TabWaits
  <2> QED BY <2>1, <2>2
<1>3. Books'
      BY <1>2, BooksKept DEF Books, TabWaits
<1>4. Remembering' /\ Streaming' /\ Ending'
      BY TabKept DEF TabWaits
<1>5. TypeOK'
      BY <1>1, ShapesKept DEF TypeOK, TabWaits
<1> QED BY <1>3, <1>4, <1>5 DEF Books

LEMMA HandlersInv == ASSUME Inv, NEW c \in Calls, Handlers(c) PROVE Inv'
<1> USE DEF Inv
<1>1. RecordOK /\ CallOK /\ Tables /\ TellingOf(c)
      BY DEF TypeOK, Telling
<1>2. call[c].row \in Rows /\ call[c].seen \in ProjectStatus \cup DeploymentStatus
      BY <1>1 DEF CallOK
<1>3. ASSUME NEW d \in Deployments, AcceptDeploy(c, d) PROVE Inv'
  <2>1. RecordOK' /\ Tables' /\ Grows
        BY <1>1, <1>3, RecordEffect DEF AcceptDeploy
  <2>2. PICK ok \in BOOLEAN : Answer(c, ok, d, call[c].seen)
        BY <1>3 DEF AcceptDeploy
  <2>3. CallOK'
        BY <1>1, <1>2, <2>2, AnswerEffect DEF Rows
  <2>4. call[c].at = "sent" /\ call[c].kind = "deploy" /\ TabWaits
        BY <1>3 DEF AcceptDeploy, Sent
  <2>5. \/ call'[c] = Free
        \/ /\ call'[c].live /\ call[c].live /\ call'[c].kind = "deploy"
           /\ call'[c].row = d
        BY <1>1, <1>2, <2>2, <2>4, AnswerEffect DEF Rows
  <2>6. \A e \in Calls \ {c} : call'[e] = call[e]
        BY <1>1, <1>2, <2>2, AnswerEffect DEF Rows
  <2>7. call'[c].kind = "deploy" /\ call'[c].row = d => TellingOf(c)'
        BY DEF TellingOf, Told
  <2> QED BY <2>1, <2>3, <2>4, <2>5, <2>6, <2>7, ServedInv
<1>4. ASSUME AcceptAction(c) PROVE Inv'
  <2>1. RecordOK' /\ Tables' /\ Grows
    <3>1. /\ call[c].row \in Deployments /\ UNCHANGED failures
          /\ \E s \in {"deploying", "destroying"} : Start(call[c].row, s)
          BY <1>2, <1>4 DEF AcceptAction, Rows
    <3> QED BY <1>1, <3>1, RecordEffect
  <2>2. PICK ok \in BOOLEAN : Reply(c, ok)
        BY <1>4 DEF AcceptAction
  <2>4. call[c].at = "sent" /\ call[c].kind = "action" /\ call[c].row # None /\ TabWaits
        BY <1>4 DEF AcceptAction, Sent
  <2>5. /\ CallOK' /\ \A e \in Calls \ {c} : call'[e] = call[e]
        /\ \/ call'[c] = Free
           \/ /\ call'[c].live /\ call[c].live /\ call'[c].kind = "action"
              /\ call'[c].row = call[c].row
        BY <1>1, <2>2, <2>4, ReplyEffect
  <2>6. call'[c].kind = "action" /\ call'[c].row = call[c].row => TellingOf(c)'
        BY <2>4 DEF TellingOf, Told
  <2> QED BY <2>1, <2>4, <2>5, <2>6, ServedInv
<1>5. ASSUME AcceptDelete(c) PROVE Inv'
  <2>1. RecordOK' /\ Tables' /\ Grows /\ project' = "deleted"
    <3>1. UNCHANGED failures /\ Purge
          BY <1>5 DEF AcceptDelete
    <3> QED BY <1>1, <3>1, RecordEffect DEF Purge
  <2>2. PICK ok \in BOOLEAN : Reply(c, ok)
        BY <1>5 DEF AcceptDelete
  <2>4. call[c].at = "sent" /\ call[c].kind = "delete" /\ TabWaits
        BY <1>5 DEF AcceptDelete, Sent
  <2>5. /\ CallOK' /\ \A e \in Calls \ {c} : call'[e] = call[e]
        /\ \/ call'[c] = Free
           \/ call'[c].live /\ call[c].live /\ call'[c].kind = "delete"
        BY <1>1, <2>2, <2>4, ReplyEffect
  <2>6. call'[c].kind = "delete" => TellingOf(c)'
        BY <2>1 DEF TellingOf, Told
  <2> QED BY <2>1, <2>4, <2>5, <2>6, ServedInv
<1>6. ASSUME Refuse(c) PROVE Inv'
  <2>1. RecordOK' /\ Tables' /\ Grows
        BY <1>1, <1>6, RecordStays DEF Refuse
  <2>4. call[c].at = "sent" /\ TabWaits /\ Reply(c, FALSE)
        BY <1>6 DEF Refuse
  <2>5. /\ CallOK' /\ \A e \in Calls \ {c} : call'[e] = call[e]
        /\ \/ call'[c] = Free
           \/ /\ call'[c].live /\ call[c].live /\ call'[c].kind = call[c].kind
              /\ call'[c].row = call[c].row /\ call'[c].ok = FALSE
              /\ call'[c].seen = call[c].seen
        BY <1>1, <2>4, ReplyEffect
  <2>6. ASSUME call'[c].kind = call[c].kind, call'[c].ok = FALSE,
               call'[c].row = call[c].row, call'[c].seen = call[c].seen
        PROVE  TellingOf(c)'
        BY <1>1, <2>1, <2>6 DEF TellingOf, Told, Grows
  <2> QED BY <2>1, <2>4, <2>5, <2>6, ServedInv
<1>7. ASSUME ReadProjects(c) PROVE Inv'
  <2>1. RecordOK' /\ Tables' /\ Grows /\ project' = project /\ applied' = applied
        BY <1>1, <1>7, RecordStays DEF ReadProjects, record
  <2>4. /\ call[c].at = "sent" /\ call[c].kind = "list" /\ TabWaits
        /\ Answer(c, TRUE, None, project)
        BY <1>7 DEF ReadProjects, Sent
  <2>5. /\ CallOK' /\ \A e \in Calls \ {c} : call'[e] = call[e]
        /\ \/ call'[c] = Free
           \/ /\ call'[c].live /\ call[c].live /\ call'[c].kind = "list"
              /\ call'[c].seen = project
    <3>1. None \in Rows /\ project \in ProjectStatus \cup DeploymentStatus
          BY <1>1 DEF Rows, RecordOK
    <3> QED BY <1>1, <2>4, <3>1, AnswerEffect
  <2>6. call'[c].kind = "list" /\ call'[c].seen = project => TellingOf(c)'
        BY <1>1, <2>1 DEF TellingOf, Told, Tables, RecordOK
  <2> QED BY <2>1, <2>4, <2>5, <2>6, ServedInv
<1>8. ASSUME ReadDeployment(c) PROVE Inv'
  <2>1. RecordOK' /\ Tables' /\ Grows
        BY <1>1, <1>8, RecordStays DEF ReadDeployment
  <2>2. PICK row \in Deployments, seen \in ProjectStatus \cup DeploymentStatus :
            /\ seen \in DeploymentStatus /\ call[c].at = "sent"
            /\ call[c].kind = "failure" /\ TabWaits /\ Answer(c, TRUE, row, seen)
    <3>1. /\ call[c].kind = "failure" /\ call[c].at = "sent" /\ TabWaits
          /\ Answer(c, TRUE, call[c].row, status[call[c].row])
          BY <1>8 DEF ReadDeployment, Sent
    <3>2. call[c].row \in Deployments => status[call[c].row] \in DeploymentStatus
          BY <1>1 DEF RecordOK
    <3> QED BY <1>1, <3>1, <3>2 DEF TellingOf, Rows
  <2>5. /\ CallOK' /\ \A e \in Calls \ {c} : call'[e] = call[e]
        /\ \/ call'[c] = Free
           \/ /\ call'[c].live /\ call[c].live /\ call'[c].kind = "failure"
              /\ call'[c].seen = seen /\ call'[c].row = row
        BY <1>1, <2>2, AnswerEffect DEF Rows
  <2>6. call'[c].kind = "failure" /\ call'[c].seen = seen /\ call'[c].row = row
            => TellingOf(c)'
        BY <2>2 DEF TellingOf, Told
  <2> QED BY <2>1, <2>2, <2>5, <2>6, ServedInv
<1> QED BY <1>3, <1>4, <1>5, <1>6, <1>7, <1>8 DEF Handlers

(* A page is opened: what is under way is nobody's, what is asked is its.  *)
LEMMA OrphanBooks ==
    ASSUME Inv, UNCHANGED record, page' \in Pages, call' = Orphans
    PROVE  CallOK' /\ Books'
<1> USE DEF Inv, record
<1>1. CallOK
      BY DEF TypeOK
<1>2. CallOK'
      BY <1>1, OrphansEffect DEF CallOK, Requests
<1>3. ASSUME NEW c \in Calls PROVE WaitingOf(c)' /\ TellingOf(c)' /\ AskingOf(c)'
  <2>1. TellingOf(c)
        BY DEF Telling
  <2>2. CASE call'[c] = Free
        BY <2>2, FreeIsQuiet DEF AskingOf
  <2>3. CASE /\ ~call'[c].live /\ call'[c].at = "sent"
             /\ call'[c].kind = call[c].kind /\ call'[c].seen = call[c].seen
             /\ call'[c].row = call[c].row
        BY <2>1, <2>3 DEF WaitingOf, TellingOf, AskingOf, Told, Live
  <2> QED BY <1>1, <2>2, <2>3, OrphansEffect
<1> QED BY <1>2, <1>3 DEF Books, Waiting, Telling, Asking

LEMMA AskingBooks ==
    ASSUME Inv, UNCHANGED record, NEW c \in Calls, Orphans[c] = Free,
           NEW kind \in {"list", "failure"}, NEW row \in Rows,
           kind = "failure" => row \in Deployments, page' = HomeOf(kind),
           call' = [Orphans EXCEPT ![c] = Request(c, kind, row, "none")]
    PROVE  CallOK' /\ Books'
<1> USE DEF Inv, record
<1>1. CallOK
      BY DEF TypeOK
<1>2. DEFINE request == Request(c, kind, row, "none")
<1>3. /\ request \in Requests
      /\ request.kind = kind /\ request.at = "sent" /\ request.live = TRUE
      /\ request.row = row /\ request.ok = FALSE /\ request.seen = "deleted"
      BY FreeIsRequest DEF Request, Requests, Free, Kinds
<1>4. call' = [Orphans EXCEPT ![c] = request]
      OBVIOUS
<1> HIDE DEF request
<1>5. Orphans \in [Calls -> Requests]
      BY <1>1, OrphansEffect
<1>6. CallOK'
      BY <1>3, <1>4, <1>5 DEF CallOK, Requests
<1>7. ASSUME NEW e \in Calls PROVE WaitingOf(e)' /\ TellingOf(e)' /\ AskingOf(e)'
  <2>1. TellingOf(e)
        BY DEF Telling
  <2>2. CASE e = c
    <3>1. call'[e] = request
          BY <1>4, <1>5, <2>2
    <3> QED BY <1>3, <3>1 DEF WaitingOf, TellingOf, AskingOf, Told, Live, ProjectStatus
  <2>3. CASE e # c
    <3>1. call'[e] = Orphans[e]
          BY <1>4, <1>5, <2>3
    <3>2. CASE call'[e] = Free
          BY <3>2, FreeIsQuiet DEF AskingOf
    <3>3. CASE /\ ~call'[e].live /\ call'[e].at = "sent"
               /\ call'[e].kind = call[e].kind /\ call'[e].seen = call[e].seen
               /\ call'[e].row = call[e].row
          BY <2>1, <3>3 DEF WaitingOf, TellingOf, AskingOf, Told, Live
    <3> QED BY <1>1, <3>1, <3>2, <3>3, OrphansEffect
  <2> QED BY <2>2, <2>3
<1> QED BY <1>6, <1>7 DEF Books, Waiting, Telling, Asking

LEMMA MountEffect ==
    ASSUME NEW p \in Pages, NEW d \in Rows, Mount(p, d)
    PROVE  DeployOK' /\ SocketOK' /\ FailureOK' /\ Streaming' /\ Ending'
           /\ failure'.actionResult = "none" /\ page' \in Pages
<1>1. <<>> \in Seq(Events) /\ Len(<<>>) = 0
      OBVIOUS
<1>2. DeployOK' /\ FailureOK'
      BY DEF Mount, DeployOK, FailureOK, DeployPage, FailurePage, Rows
<1>3. SocketOK'
      BY <1>1 DEF Mount, SocketOK, NoSocket
<1>4. socket' = NoSocket /\ deploy' = DeployPage
      BY DEF Mount
<1>5. Streaming' /\ Ending'
      BY <1>1, <1>4 DEF Streaming, Ending, True, NoSocket, DeployPage
<1> QED BY <1>2, <1>3, <1>5 DEF Mount, FailurePage

LEMMA OpenInv ==
    ASSUME Inv, UNCHANGED <<record, failures>>, timers' \subseteq timers,
           \/ OpenDashboard
           \/ \E p \in Pages \ {"dashboard"} : OpenPlain(p)
           \/ \E d \in Rows : OpenPartialFailure(d)
    PROVE  Inv'
<1> USE DEF Inv
<1>1. RecordOK /\ CallOK /\ DashOK /\ TabOK
      BY DEF TypeOK
<1>2. RecordOK' /\ Tables' /\ Grows
      BY <1>1, RecordStays
<1>3. Dashboard \in [project : ProjectStatus, isLoading : BOOLEAN, error : BOOLEAN,
              deleting : BOOLEAN, destroyAws : BOOLEAN,
              toast : BOOLEAN, loaded : BOOLEAN]
      BY DEF Dashboard, ProjectStatus
<1>4. CASE OpenDashboard
  <2>1. Mount("dashboard", None)
        BY <1>4 DEF OpenDashboard
  <2>2. DeployOK' /\ SocketOK' /\ FailureOK' /\ Streaming' /\ Ending'
        /\ failure'.actionResult = "none" /\ page' = "dashboard"
        BY <2>1, MountEffect DEF Pages, Rows, Mount
  <2>3. CallOK' /\ Books'
    <3>1. PICK c \in Calls : Orphans[c] = Free
             /\ call' = [Orphans EXCEPT ![c] = Request(c, "list", None, "none")]
          BY <1>4 DEF OpenDashboard
    <3> QED BY <2>2, <3>1, AskingBooks DEF record, HomeOf, Rows
  <2>4. DashOK' /\ TabOK' /\ Remembering'
        BY <1>1, <1>2, <1>3, <1>4, <2>2
           DEF OpenDashboard, DashOK, TabOK, Remembering, Dashboard, Grows, Pages
  <2> QED BY <1>2, <2>2, <2>3, <2>4 DEF TypeOK, Books
<1>5. ASSUME NEW p \in Pages, NEW d \in Rows, Mount(p, d), dash' = Dashboard,
             UNCHANGED toast, CallOK', Books'
      PROVE  Inv'
  <2>1. DeployOK' /\ SocketOK' /\ FailureOK' /\ Streaming' /\ Ending'
        /\ failure'.actionResult = "none" /\ page' \in Pages
        BY <1>5, MountEffect
  <2>2. DashOK' /\ TabOK' /\ Remembering'
        BY <1>1, <1>2, <1>3, <1>5, <2>1
           DEF DashOK, TabOK, Remembering, Dashboard, Grows
  <2> QED BY <1>2, <1>5, <2>1, <2>2 DEF TypeOK, Books
<1>6. ASSUME NEW p \in Pages, OpenPlain(p) PROVE Inv'
  <2>1. CallOK' /\ Books'
        BY <1>6, OrphanBooks DEF OpenPlain, Mount, record
  <2> QED BY <1>5, <1>6, <2>1 DEF OpenPlain, Rows
<1>7. ASSUME NEW d \in Rows, OpenPartialFailure(d) PROVE Inv'
  <2>0. page' = "partial-failure" /\ page' \in Pages
        BY <1>7 DEF OpenPartialFailure, Mount, Pages
  <2>1. CallOK' /\ Books'
    <3>1. CASE d = None
          BY <1>7, <2>0, <3>1, OrphanBooks DEF OpenPartialFailure, record
    <3>2. CASE d # None
      <4>1. PICK c \in Calls : Orphans[c] = Free
               /\ call' = [Orphans EXCEPT ![c] = Request(c, "failure", d, "none")]
            BY <1>7, <3>2 DEF OpenPartialFailure
      <4> QED BY <2>0, <3>2, <4>1, AskingBooks DEF record, HomeOf, Rows
    <3> QED BY <3>1, <3>2
  <2> QED BY <1>5, <1>7, <2>1 DEF OpenPartialFailure, Pages
<1> QED BY <1>4, <1>6, <1>7

LEMMA NavigationInv == ASSUME Inv, UserGoes \/ TimerFires PROVE Inv'
<1>1. CASE UserGoes
  <2>1. UNCHANGED <<record, failures>> /\ timers' \subseteq timers
        BY <1>1 DEF UserGoes
  <2> QED BY <1>1, <2>1, OpenInv
      DEF UserGoes, ProjectLinks, BackToProject, DashboardRow, BrowserControls, Pages, Rows
<1>2. CASE TimerFires
  <2>1. UNCHANGED <<record, failures>> /\ timers' \subseteq timers
        BY <1>2 DEF TimerFires
  <2> QED BY <1>2, <2>1, OpenInv DEF TimerFires, Rows
<1> QED BY <1>1, <1>2

(* The deploy page and its socket. *)
LEMMA HandleDeployInv == ASSUME Inv, handleDeploy PROVE Inv'
<1> USE DEF Inv
<1>1. RecordOK /\ CallOK /\ DeployOK /\ SocketOK /\ FailureOK /\ DashOK /\ TabOK
      BY DEF TypeOK
<1>2. /\ page = "deploy" /\ deploy.deployStatus = "idle" /\ ~deploy.isDeploying
      /\ UNCHANGED <<record, page, socket, failure, dash, toast, timers, failures>>
      /\ deploy' = [deploy EXCEPT !.isDeploying = TRUE]
      BY DEF handleDeploy, IdleCard, OnDeploy
<1>3. DeployOK' /\ /\ deploy'.isDeploying /\ deploy'.deployStatus = "idle"
                   /\ deploy'.deploymentId = deploy.deploymentId
      BY <1>1, <1>2 DEF DeployOK
<1>4. PICK c \in Calls : Send(c, "deploy", None, "none")
      BY DEF handleDeploy
<1>5. /\ CallOK' /\ call[c].at = "free"
      /\ call'[c].kind = "deploy" /\ call'[c].at = "sent" /\ call'[c].live
      /\ \A e \in Calls \ {c} : call'[e] = call[e]
      BY <1>1, <1>4, SendEffect DEF Kinds, Rows
<1>6. RecordOK' /\ Tables' /\ Grows
      BY <1>1, <1>2, RecordStays
<1>7. \A e \in Calls : ~Live(e, "deploy")
      BY <1>2 DEF Asking, AskingOf
<1>8. ASSUME NEW e \in Calls PROVE WaitingOf(e)' /\ TellingOf(e)' /\ AskingOf(e)'
  <2>1. CASE e = c
        BY <1>2, <1>3, <1>5, <1>7, <2>1 DEF WaitingOf, TellingOf, AskingOf, Told, Live, HomeOf
  <2>2. CASE e # c
    <3>1. call'[e] = call[e] /\ WaitingOf(e) /\ TellingOf(e) /\ AskingOf(e)
          BY <1>5, <2>2 DEF Waiting, Telling, Asking
    <3>2. WaitingOf(e)' /\ TellingOf(e)'
          BY <1>2, <1>6, <3>1 DEF WaitingOf, TellingOf, Told, Grows
    <3>3. AskingOf(e)'
          BY <1>2, <1>7, <3>1 DEF AskingOf, Live
    <3> QED BY <3>2, <3>3
  <2> QED BY <2>1, <2>2
<1>9. Remembering'
      BY <1>2 DEF Remembering, record
<1>10. Streaming' /\ Ending'
  <2>1. \A event : True(event)' = True(event)
        BY <1>2, <1>3 DEF True, record
  <2> QED BY <1>2, <1>3, <2>1 DEF Streaming, Ending, record
<1>11. TypeOK'
      BY <1>1, <1>2, <1>3, <1>5, <1>6, ShapesKept DEF TypeOK
<1> QED BY <1>5, <1>6, <1>8, <1>9, <1>10, <1>11 DEF Waiting, Telling, Asking

LEMMA DeployAnswerInv ==
    ASSUME Inv, NEW c \in Calls, DeployAccepted(c) \/ DeployRejected(c) PROVE Inv'
<1> USE DEF Inv
<1>1. RecordOK /\ CallOK /\ DeployOK /\ SocketOK /\ FailureOK /\ DashOK /\ TabOK
      BY DEF TypeOK
<1>2. UNCHANGED <<record, page, failure, dash, toast, timers, failures>>
      BY DEF DeployAccepted, DeployRejected
<1>3. /\ CallOK' /\ call[c].at = "answered" /\ call[c].kind = "deploy"
      /\ call'[c] = Free /\ \A e \in Calls \ {c} : call'[e] = call[e]
      BY <1>1, AnsweredEffect DEF DeployAccepted, DeployRejected
<1>4. /\ Live(c, "deploy") /\ page = "deploy" /\ deploy.deployStatus = "idle"
      /\ \A e \in Calls \ {c} : ~Live(e, "deploy")
      BY <1>3 DEF Waiting, WaitingOf, Asking, AskingOf, Live, HomeOf
<1>5. RecordOK' /\ Tables' /\ Grows
      BY <1>1, <1>2, RecordStays
<1>6. ASSUME NEW e \in Calls PROVE WaitingOf(e)' /\ TellingOf(e)' /\ AskingOf(e)'
  <2>1. CASE e = c
        BY <1>3, <2>1, FreeIsQuiet DEF AskingOf
  <2>2. CASE e # c
    <3>1. call'[e] = call[e] /\ WaitingOf(e) /\ TellingOf(e) /\ AskingOf(e)
          BY <1>3, <2>2 DEF Waiting, Telling, Asking
    <3>2. WaitingOf(e)' /\ TellingOf(e)'
          BY <1>2, <1>5, <3>1 DEF WaitingOf, TellingOf, Told, Grows
    <3>3. AskingOf(e)'
          BY <1>2, <1>4, <2>2, <3>1 DEF AskingOf, Live
    <3> QED BY <3>2, <3>3
  <2> QED BY <2>1, <2>2
<1>7. Remembering'
      BY <1>2 DEF Remembering, record
<1>8. CASE DeployAccepted(c)
  <2>1. call[c].row \in Deployments
    <3>1. TellingOf(c) /\ call[c].ok
          BY <1>1, <1>8, AnsweredEffect DEF Telling, DeployAccepted
    <3> QED BY <1>3, <3>1 DEF TellingOf, Told
  <2>2. /\ deploy' = [deploy EXCEPT !.deploymentId = call[c].row,
                         !.isDeploying = FALSE, !.deployStatus = "deploying"]
        /\ socket' = [NoSocket EXCEPT !.state = "connecting"]
        BY <1>8 DEF DeployAccepted
  <2>3. DeployOK' /\ deploy'.deploymentId = call[c].row /\ deploy'.deployStatus = "deploying"
        BY <1>1, <2>1, <2>2 DEF DeployOK, Rows
  <2>4. /\ socket'.state = "connecting" /\ socket'.stream = "off" /\ socket'.wire = <<>>
        /\ socket'.latest = "none" /\ socket'.rendered
        BY <2>2 DEF NoSocket
  <2>5. SocketOK'
    <3>1. <<>> \in Seq(Events)
          OBVIOUS
    <3> QED BY <2>2, <3>1 DEF SocketOK, NoSocket
  <2>6. Streaming' /\ Ending'
    <3>1. Len(<<>>) = 0
          OBVIOUS
    <3> QED BY <1>2, <1>4, <2>1, <2>3, <2>4, <3>1 DEF Streaming, Ending, True
  <2>7. TypeOK'
        BY <1>1, <1>2, <1>3, <1>5, <2>3, <2>5, ShapesKept DEF TypeOK
  <2> QED BY <1>5, <1>6, <1>7, <2>6, <2>7 DEF Waiting, Telling, Asking
<1>9. CASE DeployRejected(c)
  <2>1. deploy' = [deploy EXCEPT !.isDeploying = FALSE] /\ UNCHANGED socket
        BY <1>9 DEF DeployRejected
  <2>2. DeployOK' /\ deploy'.deploymentId = deploy.deploymentId
                  /\ deploy'.deployStatus = deploy.deployStatus
        BY <1>1, <2>1 DEF DeployOK
  <2>3. Streaming' /\ Ending'
    <3>1. \A event : True(event)' = True(event)
          BY <1>2, <2>2 DEF True, record
    <3> QED BY <1>2, <2>1, <2>2, <3>1 DEF Streaming, Ending, record
  <2>4. TypeOK'
        BY <1>1, <1>2, <1>3, <1>5, <2>1, <2>2, ShapesKept DEF TypeOK
  <2> QED BY <1>5, <1>6, <1>7, <2>3, <2>4 DEF Waiting, Telling, Asking
<1> QED BY <1>8, <1>9

LEMMA EffectInv == ASSUME Inv, NameArrives \/ EventsEffect PROVE Inv'
<1> USE DEF Inv
<1>1. RecordOK /\ CallOK /\ DeployOK /\ SocketOK /\ FailureOK /\ DashOK /\ TabOK
      BY DEF TypeOK
<1>2. UNCHANGED <<record, page, call, failure, dash, failures>>
      BY DEF NameArrives, EventsEffect
<1>3. RecordOK' /\ Tables' /\ Grows
      BY <1>1, <1>2, RecordStays
<1>4. CASE NameArrives
  <2>1. /\ deploy' = [deploy EXCEPT !.named = TRUE]
        /\ socket' = [socket EXCEPT !.rendered = (socket.latest = "none")]
        /\ UNCHANGED <<toast, timers>>
        BY <1>4 DEF NameArrives
  <2>2. DeployOK' /\ deploy'.deploymentId = deploy.deploymentId
        /\ deploy'.deployStatus = deploy.deployStatus
        /\ deploy'.isDeploying = deploy.isDeploying
        BY <1>1, <2>1 DEF DeployOK
  <2>3. SocketOK' /\ socket'.state = socket.state /\ socket'.stream = socket.stream
        /\ socket'.wire = socket.wire /\ socket'.latest = socket.latest
        /\ (socket'.rendered <=> socket.latest = "none")
        BY <1>1, <2>1 DEF SocketOK
  <2>4. Streaming' /\ Ending'
    <3>1. \A event : True(event)' = True(event)
          BY <1>2, <2>2 DEF True, record
    <3> QED BY <1>2, <2>2, <2>3, <3>1 DEF Streaming, Ending
  <2>5. Books' /\ Remembering'
        BY <1>2, <1>3, <2>1, <2>2, BooksStay DEF Books, Remembering, record
  <2>6. TypeOK'
        BY <1>1, <1>2, <1>3, <2>1, <2>2, <2>3, ShapesKept DEF TypeOK
  <2> QED BY <1>3, <2>4, <2>5, <2>6 DEF Books
<1>5. CASE EventsEffect
  <2>1. /\ ~socket.rendered /\ page = "deploy"
        /\ socket' = [socket EXCEPT !.rendered = TRUE]
        BY <1>5 DEF EventsEffect
  <2>2. SocketOK' /\ socket'.state = socket.state /\ socket'.stream = socket.stream
        /\ socket'.wire = socket.wire /\ socket'.latest = socket.latest /\ socket'.rendered
        BY <1>1, <2>1 DEF SocketOK
  <2>3. /\ socket.state # "none" /\ deploy.deployStatus # "idle" /\ True(socket.latest)
        BY <2>1 DEF Streaming
  <2>4. /\ DeployOK' /\ deploy'.deploymentId = deploy.deploymentId
        /\ deploy'.deployStatus \in {deploy.deployStatus, socket.latest}
        /\ deploy'.deployStatus # "idle"
        /\ socket.latest \in {"completed", "failed"} => deploy'.deployStatus = socket.latest
        BY <1>1, <1>5, <2>3 DEF EventsEffect, DeployOK
  <2>5. Streaming' /\ Ending'
    <3>1. \A event : True(event)' = True(event)
          BY <1>2, <2>4 DEF True, record
    <3> QED BY <1>2, <2>2, <2>3, <2>4, <3>1 DEF Streaming, Ending
  <2>6. Books'
        BY <1>2, <1>3, <2>3, BooksStay DEF Books
  <2>7. Remembering' /\ TabOK'
    <3>1. CASE UNCHANGED <<toast, timers>>
          BY <1>1, <1>2, <3>1, ShapesKept DEF Remembering, record
    <3>2. CASE socket.latest = "completed" /\ toast' = TRUE
               /\ timers' = timers \cup {"dashboard"}
      <4>1. applied # {}
            BY <2>3, <3>2 DEF True
      <4> QED BY <1>1, <1>2, <3>2, <4>1 DEF Remembering, TabOK, record
    <3>3. CASE socket.latest = "failed" /\ UNCHANGED toast
               /\ timers' = timers \cup {"partial-failure"}
      <4>1. failures # {}
            BY <2>3, <3>3 DEF True
      <4> QED BY <1>1, <1>2, <3>3, <4>1 DEF Remembering, TabOK, record
    <3> QED BY <1>5, <3>1, <3>2, <3>3 DEF EventsEffect
  <2>8. TypeOK'
        BY <1>1, <1>2, <1>3, <2>2, <2>4, <2>7, ShapesKept DEF TypeOK
  <2> QED BY <1>3, <2>5, <2>6, <2>7, <2>8 DEF Books
<1> QED BY <1>4, <1>5

LEMMA SocketInv ==
    ASSUME Inv, SocketSteps, SocketOK', Streaming', Ending' PROVE Inv'
<1> USE DEF Inv
<1>1. RecordOK /\ CallOK /\ DeployOK /\ FailureOK /\ DashOK /\ TabOK
      BY DEF TypeOK
<1>2. RecordOK' /\ Tables' /\ Grows
      BY <1>1, RecordStays DEF SocketSteps
<1>3. Books' /\ Remembering'
      BY <1>2, BooksStay DEF SocketSteps, Books, Remembering, record
<1> QED BY <1>1, <1>2, <1>3, ShapesKept DEF TypeOK, SocketSteps, Books

LEMMA EmitInv ==
    ASSUME Inv, NEW event \in Events, NEW stream \in {"polling", "ended"},
           socket.stream \in {"polling", "counting"}, Emit(event, stream), True(event),
           stream = "ended" => event \in Ends
    PROVE  Inv'
<1> USE DEF Inv
<1>1. SocketOK /\ SocketSteps
      BY DEF TypeOK, Emit
<1>2. socket.wire \in Seq(Events)
      BY <1>1 DEF SocketOK
<1>3. /\ Append(socket.wire, event) \in Seq(Events)
      /\ Append(socket.wire, event) # <<>>
      /\ Len(Append(socket.wire, event)) = Len(socket.wire) + 1
      /\ Append(socket.wire, event)[Len(socket.wire) + 1] = event
      /\ \A i \in 1..Len(socket.wire) : Append(socket.wire, event)[i] = socket.wire[i]
      BY <1>2
<1>4. PICK wire \in Seq(Events) : wire = Append(socket.wire, event)
      BY <1>3
<1>5. socket' = [socket EXCEPT !.wire = wire, !.stream = stream]
      BY <1>4 DEF Emit
<1>6. /\ SocketOK' /\ socket'.state = socket.state /\ socket'.stream = stream
      /\ socket'.wire = wire /\ socket'.latest = socket.latest
      /\ socket'.rendered = socket.rendered
      BY <1>1, <1>5 DEF SocketOK
<1>7. \A e : True(e)' = True(e)
      BY <1>1 DEF True, SocketSteps, record
<1>8. \A i \in 1..Len(wire) : True(wire[i])
      BY <1>2, <1>3, <1>4 DEF Streaming
<1>9. Streaming'
      BY <1>1, <1>6, <1>7, <1>8 DEF Streaming, SocketSteps, record
<1>10. Ending'
      BY <1>1, <1>3, <1>4, <1>6 DEF Streaming, Ending, SocketSteps
<1> QED BY <1>1, <1>6, <1>9, <1>10, SocketInv

LEMMA StreamInv ==
    ASSUME Inv, StreamLog \/ StreamError \/ websocket_events PROVE Inv'
<1> USE DEF Inv
<1>1. SocketOK
      BY DEF TypeOK
<1>2. ASSUME socket.stream = "polling" PROVE deploy.deploymentId \in Deployments
      BY <1>2 DEF Streaming
<1>3. CASE StreamLog
      BY <1>3, EmitInv DEF StreamLog, Events, True
<1>4. CASE StreamError
      BY <1>4, EmitInv DEF StreamError, Events, True, Ends
<1>5. CASE StreamCompleted
  <2>1. True("completed")
        BY <1>2, <1>5 DEF StreamCompleted, Watched, Tables, True
  <2> QED BY <1>5, <2>1, EmitInv DEF StreamCompleted, Events, Ends
<1>6. CASE StreamFailed
  <2>1. True("failed")
        BY <1>6 DEF StreamFailed, Streaming
  <2> QED BY <1>6, <2>1, EmitInv DEF StreamFailed, Events, Ends
<1>7. CASE StreamFindsFailure
  <2>1. True("failed")
        BY <1>2, <1>7 DEF StreamFindsFailure, Watched, Tables, True
  <2>2. SocketSteps /\ socket' = [socket EXCEPT !.stream = "counting"]
        /\ socket.stream = "polling"
        BY <1>7 DEF StreamFindsFailure
  <2>3. /\ SocketOK' /\ socket'.state = socket.state /\ socket'.stream = "counting"
        /\ socket'.wire = socket.wire /\ socket'.latest = socket.latest
        /\ socket'.rendered = socket.rendered
        BY <1>1, <2>2 DEF SocketOK
  <2>4. \A e : True(e)' = True(e)
        BY <2>2 DEF True, SocketSteps, record
  <2>5. Streaming'
        BY <2>1, <2>2, <2>3, <2>4 DEF Streaming, SocketSteps, record
  <2>6. Ending'
        BY <2>2, <2>3 DEF Streaming, Ending, SocketSteps
  <2> QED BY <2>2, <2>3, <2>5, <2>6, SocketInv
<1> QED BY <1>3, <1>4, <1>5, <1>6, <1>7 DEF websocket_events

LEMMA ConnectionInv ==
    ASSUME Inv, SocketOpens \/ SocketReceives \/ SocketCloses \/ SocketDrops PROVE Inv'
<1> USE DEF Inv
<1>1. SocketOK /\ SocketSteps
      BY DEF TypeOK, SocketOpens, SocketReceives, SocketCloses, SocketDrops
<1>2. \A e : True(e)' = True(e)
      BY <1>1 DEF True, SocketSteps, record
<1>3. CASE SocketOpens
  <2>1. /\ SocketOK' /\ socket.state = "connecting" /\ socket'.state = "open"
        /\ socket'.stream = "polling" /\ socket'.wire = socket.wire
        /\ socket'.latest = socket.latest /\ socket'.rendered = socket.rendered
        BY <1>1, <1>3 DEF SocketOpens, SocketOK
  <2>2. Streaming' /\ Ending'
        BY <1>1, <1>2, <2>1 DEF Streaming, Ending, SocketSteps, record
  <2> QED BY <1>1, <2>1, <2>2, SocketInv
<1>4. CASE SocketCloses
  <2>1. /\ SocketOK' /\ socket.state = "open" /\ socket'.state = "closed"
        /\ socket.stream = "ended" /\ socket.wire = <<>>
        /\ socket'.stream = "ended" /\ socket'.wire = <<>>
        /\ socket'.latest = socket.latest /\ socket'.rendered = socket.rendered
        BY <1>1, <1>4 DEF SocketCloses, SocketOK
  <2>2. Streaming' /\ Ending'
        BY <1>1, <1>2, <2>1 DEF Streaming, Ending, SocketSteps, record
  <2> QED BY <1>1, <2>1, <2>2, SocketInv
<1>5. CASE SocketDrops
  <2>0. <<>> \in Seq(Events) /\ Len(<<>>) = 0
        OBVIOUS
  <2>1. /\ SocketOK' /\ socket.state # "none" /\ socket'.state = "dropped"
        /\ socket'.stream = "off" /\ socket'.wire = <<>>
        /\ socket'.latest = socket.latest /\ socket'.rendered = socket.rendered
        BY <1>1, <1>5, <2>0 DEF SocketDrops, SocketOK
  <2>2. Streaming' /\ Ending'
        BY <1>1, <1>2, <2>0, <2>1 DEF Streaming, Ending, SocketSteps, record
  <2> QED BY <1>1, <2>1, <2>2, SocketInv
<1>6. CASE SocketReceives
  <2>1. socket.wire \in Seq(Events) /\ socket.wire # <<>> /\ socket.state = "open"
        BY <1>1, <1>6 DEF SocketReceives, SocketOK
  <2>2. /\ Head(socket.wire) = socket.wire[1] /\ Head(socket.wire) \in Events
        /\ Tail(socket.wire) \in Seq(Events) /\ 1 \in 1..Len(socket.wire)
        /\ Len(Tail(socket.wire)) = Len(socket.wire) - 1
        /\ \A i \in 1..(Len(socket.wire) - 1) : Tail(socket.wire)[i] = socket.wire[i + 1]
        /\ (Tail(socket.wire) = <<>> => Len(socket.wire) = 1)
        /\ (Tail(socket.wire) # <<>> =>
               Len(socket.wire) - 1 \in 1..(Len(socket.wire) - 1))
        BY <2>1, HeadAndTail
  <2>3. PICK event \in Events, wire \in Seq(Events) :
            event = Head(socket.wire) /\ wire = Tail(socket.wire)
        BY <2>2
  <2>4. socket' = [socket EXCEPT !.wire = wire, !.latest = event, !.rendered = FALSE]
        BY <1>6, <2>3 DEF SocketReceives
  <2>5. /\ SocketOK' /\ socket'.state = "open" /\ socket'.stream = socket.stream
        /\ socket'.wire = wire /\ socket'.latest = event /\ ~socket'.rendered
        BY <1>1, <2>1, <2>4 DEF SocketOK
  <2>6. True(event) /\ event # "none" /\ \A i \in 1..Len(wire) : True(wire[i])
    <3>1. \A i \in 1..Len(socket.wire) : True(socket.wire[i])
          BY DEF Streaming
    <3>2. \A i \in 1..(Len(socket.wire) - 1) : i + 1 \in 1..Len(socket.wire)
          BY <2>1
    <3> QED BY <2>2, <2>3, <3>1, <3>2 DEF Events
  <2>7. Streaming'
        BY <1>1, <1>2, <2>1, <2>5, <2>6 DEF Streaming, SocketSteps, record
  <2>8. socket.stream = "ended" => IF wire = <<>> THEN event \in Ends
                                   ELSE wire[Len(wire)] \in Ends
    <3>1. socket.stream = "ended" => socket.wire[Len(socket.wire)] \in Ends
          BY <2>1 DEF Ending
    <3>2. CASE wire = <<>>
          BY <2>2, <2>3, <3>1, <3>2
    <3>3. CASE wire # <<>>
      <4>1. wire[Len(wire)] = socket.wire[Len(socket.wire)]
        <5>1. /\ Len(wire) = Len(socket.wire) - 1 /\ Len(socket.wire) \in Nat
              /\ Len(wire) \in 1..(Len(socket.wire) - 1)
              BY <2>1, <2>2, <2>3, <3>3
        <5>2. wire[Len(wire)] = socket.wire[Len(wire) + 1]
              BY <2>2, <2>3, <5>1
        <5>3. Len(wire) + 1 = Len(socket.wire)
              BY <5>1
        <5> QED BY <5>2, <5>3
      <4> QED BY <3>1, <3>3, <4>1
    <3> QED BY <3>2, <3>3
  <2>9. Ending'
        BY <1>1, <2>1, <2>5, <2>8 DEF Ending, SocketSteps
  <2> QED BY <1>1, <2>5, <2>7, <2>9, SocketInv
<1> QED BY <1>3, <1>4, <1>5, <1>6

(* The partial-failure page and the dashboard take an answer, or ask.      *)
LEMMA TakenBooks ==
    ASSUME Inv, Grows, NEW c \in Calls, NEW kind, NEW ok, Answered(c, kind, ok),
           page' = page, deploy' = deploy, failure'.deploymentId = failure.deploymentId
    PROVE  /\ CallOK' /\ Books'
           /\ ok => Told(c, kind)
           /\ call[c].kind = kind /\ call[c].live
<1>1. /\ CallOK' /\ call[c].at = "answered" /\ call[c].kind = kind /\ call[c].ok = ok
      /\ call'[c] = Free /\ \A e \in Calls \ {c} : call'[e] = call[e]
      BY AnsweredEffect DEF Inv, TypeOK
<1>2. Books'
      BY <1>1, FreeIsQuiet, BooksKept DEF Inv, Books
<1> QED BY <1>1, <1>2 DEF Told, Inv, Waiting, WaitingOf

LEMMA AskedBooks ==
    ASSUME Inv, Grows, NEW c \in Calls, NEW kind \in {"action", "list", "delete"},
           NEW row \in Rows, NEW op \in ActionCards \cup {"none"},
           Send(c, kind, row, op), kind = "action" => row = failure.deploymentId,
           page = HomeOf(kind),
           page' = page, deploy' = deploy, failure'.deploymentId = failure.deploymentId
    PROVE  CallOK' /\ Books'
<1>1. /\ CallOK' /\ call'[c].kind = kind /\ call'[c].at = "sent" /\ call'[c].live
      /\ call'[c].row = row /\ ~call'[c].ok /\ call'[c].seen = "deleted"
      /\ \A e \in Calls \ {c} : call'[e] = call[e]
      BY SendEffect DEF Inv, TypeOK, Kinds
<1>2. WaitingOf(c)' /\ TellingOf(c)'
      BY <1>1 DEF WaitingOf, TellingOf, Told, ProjectStatus
<1>3. ~Live(c, "deploy")' /\ (Live(c, "action")' => call'[c].row = failure.deploymentId)
      BY <1>1 DEF Live
<1> QED BY <1>1, <1>2, <1>3, BooksKept DEF Inv, Books

LEMMA FailurePageInv ==
    ASSUME Inv,
           handleAction \/ \E c \in Calls :
              \/ DeploymentArrives(c) \/ DeploymentFails(c)
              \/ ActionAccepted(c)    \/ ActionRejected(c)
    PROVE  Inv'
<1> USE DEF Inv
<1>1. RecordOK /\ DeployOK /\ SocketOK /\ FailureOK /\ DashOK /\ TabOK
      BY DEF TypeOK
<1>2. UNCHANGED <<record, page, deploy, socket, dash, toast, timers, failures>>
      BY DEF handleAction, DeploymentArrives, DeploymentFails, ActionAccepted, ActionRejected
<1>3. RecordOK' /\ Tables' /\ Grows
      BY <1>1, <1>2, RecordStays
<1>4. SUFFICES /\ CallOK' /\ Books' /\ FailureOK'
               /\ failure'.deploymentId = failure.deploymentId
               /\ \/ failure'.actionResult = failure.actionResult
                  \/ failure.deploymentId # None
  <2>1. Remembering'
        BY <1>2, <1>3, <1>4 DEF Remembering, Grows
  <2>2. \A event : True(event)' = True(event)
        BY <1>2 DEF True, record
  <2>3. Streaming' /\ Ending'
        BY <1>2, <2>2 DEF Streaming, Ending
  <2>4. TypeOK'
        BY <1>1, <1>2, <1>3, <1>4, ShapesKept DEF TypeOK
  <2> QED BY <1>3, <1>4, <2>1, <2>3, <2>4 DEF Books
<1>5. CASE handleAction
  <2>1. /\ page = "partial-failure" /\ failure' = [failure EXCEPT !.isLoading = TRUE]
        /\ failure.deploymentId \in Rows
        BY <1>1, <1>5 DEF handleAction, FailureOK
  <2>2. /\ FailureOK' /\ failure'.deploymentId = failure.deploymentId
        /\ failure'.actionResult = failure.actionResult
        BY <1>1, <2>1 DEF FailureOK
  <2>3. PICK c \in Calls, op \in ActionCards : Send(c, "action", failure.deploymentId, op)
        BY <1>5 DEF handleAction
  <2>4. CallOK' /\ Books'
        BY <1>2, <1>3, <2>1, <2>2, <2>3, AskedBooks DEF HomeOf
  <2> QED BY <2>2, <2>4
<1>6. ASSUME NEW c \in Calls, DeploymentFails(c) PROVE CallOK' /\ Books' /\ UNCHANGED failure
      BY <1>2, <1>3, <1>6, TakenBooks DEF DeploymentFails
<1>7. ASSUME NEW c \in Calls, DeploymentArrives(c)
      PROVE  /\ CallOK' /\ Books' /\ FailureOK'
             /\ failure'.deploymentId = failure.deploymentId
             /\ failure'.actionResult = failure.actionResult
  <2>1. Answered(c, "failure", TRUE) /\ failure' = [failure EXCEPT !.deployment = call[c].seen]
        BY <1>7 DEF DeploymentArrives
  <2>2. /\ failure'.deploymentId = failure.deploymentId
        /\ failure'.actionResult = failure.actionResult
        BY <1>1, <2>1 DEF FailureOK
  <2>3. CallOK' /\ Books' /\ Told(c, "failure")
        BY <1>2, <1>3, <2>1, <2>2, TakenBooks
  <2>4. call[c].seen \in DeploymentStatus
        BY <2>3 DEF Telling, TellingOf
  <2>5. FailureOK'
        BY <1>1, <2>1, <2>4 DEF FailureOK
  <2> QED BY <2>2, <2>3, <2>5
<1>8. ASSUME NEW c \in Calls, ActionRejected(c)
      PROVE  /\ CallOK' /\ Books' /\ FailureOK'
             /\ failure'.deploymentId = failure.deploymentId
             /\ failure'.actionResult = failure.actionResult
  <2>1. Answered(c, "action", FALSE) /\ failure' = [failure EXCEPT !.isLoading = FALSE]
        BY <1>8 DEF ActionRejected
  <2>2. /\ FailureOK' /\ failure'.deploymentId = failure.deploymentId
        /\ failure'.actionResult = failure.actionResult
        BY <1>1, <2>1 DEF FailureOK
  <2> QED BY <1>2, <1>3, <2>1, <2>2, TakenBooks
<1>9. ASSUME NEW c \in Calls, ActionAccepted(c)
      PROVE  /\ CallOK' /\ Books' /\ FailureOK'
             /\ failure'.deploymentId = failure.deploymentId
             /\ failure.deploymentId # None
  <2>1. /\ Answered(c, "action", TRUE) /\ call[c].op \in ActionCards \cup {"none"}
        /\ failure' = [failure EXCEPT !.isLoading = FALSE, !.actionResult = call[c].op]
        BY <1>9 DEF ActionAccepted, TypeOK, CallOK
  <2>2. FailureOK' /\ failure'.deploymentId = failure.deploymentId
        BY <1>1, <2>1 DEF FailureOK
  <2>3. CallOK' /\ Books' /\ Told(c, "action") /\ call[c].live
        BY <1>2, <1>3, <2>1, <2>2, TakenBooks
  <2>4. failure.deploymentId # None
        BY <2>3 DEF Telling, TellingOf, Asking, AskingOf, Live, Told
  <2> QED BY <2>2, <2>3, <2>4
<1> QED BY <1>5, <1>6, <1>7, <1>8, <1>9, ShapesKept, <1>1

LEMMA DashboardInv ==
    ASSUME Inv,
           \/ fetchProjects \/ DashboardClicks \/ handleDelete
           \/ \E c \in Calls : \/ ListArrives(c)    \/ ListFails(c)
                               \/ DeleteSucceeds(c) \/ DeleteFails(c)
    PROVE  Inv'
<1> USE DEF Inv
<1>1. RecordOK /\ DeployOK /\ SocketOK /\ FailureOK /\ DashOK /\ TabOK
      BY DEF TypeOK
<1>2. DashSteps
      BY DEF fetchProjects, DashboardClicks, handleDelete, ListArrives, ListFails,
             DeleteSucceeds, DeleteFails
<1>3. UNCHANGED <<record, page, deploy, socket, failure, toast, timers, failures>>
      BY <1>2 DEF DashSteps
<1>4. RecordOK' /\ Tables' /\ Grows
      BY <1>1, <1>3, RecordStays
<1>5. SUFFICES /\ CallOK' /\ Books' /\ DashOK'
               /\ (dash'.toast => dash.toast)
               /\ (dash'.project = "completed" => applied # {})
               /\ (dash'.loaded /\ dash'.project = "deleted" => project = "deleted")
  <2>1. Remembering'
        BY <1>3, <1>5 DEF Remembering, record
  <2>2. \A event : True(event)' = True(event)
        BY <1>3 DEF True, record
  <2>3. Streaming' /\ Ending'
        BY <1>3, <2>2 DEF Streaming, Ending
  <2>4. TypeOK'
        BY <1>1, <1>3, <1>4, <1>5, ShapesKept DEF TypeOK
  <2> QED BY <1>4, <1>5, <2>1, <2>3, <2>4 DEF Books
<1>6. /\ (dash.project = "completed" => applied # {})
      /\ (dash.loaded /\ dash.project = "deleted" => project = "deleted")
      BY DEF Remembering
<1>7. CASE fetchProjects
  <2>1. PICK c \in Calls : Send(c, "list", None, "none")
        BY <1>7 DEF fetchProjects
  <2>2. page = "dashboard" /\ dash' = [dash EXCEPT !.isLoading = TRUE]
        BY <1>7 DEF fetchProjects, Header
  <2>3. CallOK' /\ Books'
        BY <1>3, <1>4, <2>1, <2>2, AskedBooks DEF HomeOf, Rows
  <2> QED BY <1>1, <1>6, <2>2, <2>3 DEF DashOK
<1>8. CASE handleDelete
  <2>1. PICK c \in Calls : Send(c, "delete", None, "none")
        BY <1>8 DEF handleDelete
  <2>2. page = "dashboard" /\ UNCHANGED dash
        BY <1>8 DEF handleDelete, Confirm, TableRow, Table
  <2>3. CallOK' /\ Books'
        BY <1>3, <1>4, <2>1, <2>2, AskedBooks DEF HomeOf, Rows
  <2> QED BY <1>1, <1>6, <2>2, <2>3, ShapesKept
<1>9. CASE DashboardClicks
  <2>1. CallOK' /\ Books'
        BY <1>3, <1>4, <1>9, BooksStay, ShapesKept DEF DashboardClicks, TypeOK, Books
  <2>2. DashOK' /\ dash'.project = dash.project /\ dash'.loaded = dash.loaded
        /\ (dash'.toast => dash.toast)
        BY <1>1, <1>9 DEF DashboardClicks, DashOK, OpenConfirm, TickDestroy, CancelDelete,
                          DismissAlert, DeployToast
  <2> QED BY <1>6, <2>1, <2>2
<1>10. ASSUME NEW c \in Calls, ListArrives(c)
       PROVE  /\ CallOK' /\ Books' /\ DashOK' /\ dash'.toast = dash.toast
              /\ (dash'.project = "completed" => applied # {})
              /\ (dash'.project = "deleted" => project = "deleted")
  <2>1. /\ Answered(c, "list", TRUE)
        /\ dash' = [dash EXCEPT !.isLoading = FALSE, !.project = call[c].seen,
                                !.loaded = TRUE]
        BY <1>10 DEF ListArrives
  <2>2. CallOK' /\ Books' /\ Told(c, "list")
        BY <1>3, <1>4, <2>1, TakenBooks
  <2>3. /\ call[c].seen \in ProjectStatus
        /\ (call[c].seen = "completed" => applied # {})
        /\ (call[c].seen = "deleted" => project = "deleted")
        BY <2>2 DEF Telling, TellingOf, Told
  <2>4. DashOK' /\ dash'.project = call[c].seen /\ dash'.toast = dash.toast
        BY <1>1, <2>1, <2>3 DEF DashOK
  <2> QED BY <2>2, <2>3, <2>4
<1>11. ASSUME NEW c \in Calls, ListFails(c) \/ DeleteFails(c)
       PROVE  /\ CallOK' /\ Books' /\ DashOK' /\ dash'.toast = dash.toast
              /\ dash'.project = dash.project /\ dash'.loaded = dash.loaded
  <2>1. CallOK' /\ Books'
        BY <1>3, <1>4, <1>11, TakenBooks DEF ListFails, DeleteFails
  <2>2. /\ DashOK' /\ dash'.toast = dash.toast
        /\ dash'.project = dash.project /\ dash'.loaded = dash.loaded
        BY <1>1, <1>11 DEF ListFails, DeleteFails, DashOK
  <2> QED BY <2>1, <2>2
<1>12. ASSUME NEW c \in Calls, DeleteSucceeds(c)
       PROVE  /\ CallOK' /\ Books' /\ DashOK' /\ dash'.toast = dash.toast
              /\ dash'.project = "deleted" /\ project = "deleted"
  <2>1. /\ Answered(c, "delete", TRUE)
        /\ dash' = [dash EXCEPT !.project = "deleted", !.deleting = FALSE,
                                !.destroyAws = FALSE]
        BY <1>12 DEF DeleteSucceeds
  <2>2. CallOK' /\ Books' /\ Told(c, "delete")
        BY <1>3, <1>4, <2>1, TakenBooks
  <2>3. DashOK' /\ dash'.project = "deleted" /\ dash'.toast = dash.toast
        BY <1>1, <2>1 DEF DashOK, ProjectStatus
  <2> QED BY <2>2, <2>3 DEF Telling, TellingOf
<1> QED BY <1>6, <1>7, <1>8, <1>9, <1>10, <1>11, <1>12

-----------------------------------------------------------------------------
(* The theorems *)

LEMMA InvInit == Init => Inv
<1> SUFFICES ASSUME Init PROVE Inv
    OBVIOUS
<1>1. <<>> \in Seq(Events) /\ Len(<<>>) = 0
      OBVIOUS
<1>2. /\ project = "created" /\ status = [d \in Deployments |-> "absent"]
      /\ applied = {} /\ published = {} /\ failures = {} /\ toast = FALSE /\ timers = {}
      /\ page = "project" /\ deploy = DeployPage /\ socket = NoSocket
      /\ failure = FailurePage(None) /\ dash = Dashboard
      /\ call = [c \in Calls |-> Free]
      BY DEF Init, RecordInit
<1>3. RecordOK /\ Tables
      BY <1>2 DEF RecordOK, Tables, ProjectStatus, DeploymentStatus
<1>4. CallOK
      BY <1>2, FreeIsRequest DEF CallOK, Requests
<1>5. DeployOK /\ FailureOK /\ DashOK /\ TabOK
      BY <1>2 DEF DeployOK, FailureOK, DashOK, TabOK, DeployPage, FailurePage, Dashboard,
                  Rows, Pages, ProjectStatus
<1>6. SocketOK
      BY <1>1, <1>2 DEF SocketOK, NoSocket
<1>7. Waiting /\ Telling /\ Asking
      BY <1>2 DEF Waiting, Telling, Asking, WaitingOf, TellingOf, AskingOf, Told, Live, Free,
                  ProjectStatus
<1>8. Remembering
      BY <1>2 DEF Remembering, Dashboard, FailurePage
<1>9. Streaming /\ Ending
      BY <1>1, <1>2 DEF Streaming, Ending, True, NoSocket, DeployPage
<1> QED BY <1>3, <1>4, <1>5, <1>6, <1>7, <1>8, <1>9 DEF Inv, TypeOK

LEMMA InvInductive == Inv /\ [Next]_vars => Inv'
<1> SUFFICES ASSUME Inv, [Next]_vars PROVE Inv'
    OBVIOUS
<1>1. CASE User
      BY <1>1, NavigationInv, HandleDeployInv, FailurePageInv, DashboardInv DEF User
<1>2. CASE TimerFires \/ NameArrives \/ EventsEffect
      BY <1>2, NavigationInv, EffectInv
<1>3. CASE SocketOpens \/ SocketReceives \/ SocketCloses \/ SocketDrops
      BY <1>3, ConnectionInv
<1>4. CASE StreamLog \/ StreamError \/ websocket_events
      BY <1>4, StreamInv
<1>5. ASSUME NEW c \in Calls, Answers(c) PROVE Inv'
      BY <1>5, DeployAnswerInv, FailurePageInv, DashboardInv DEF Answers
<1>6. ASSUME NEW c \in Calls, Handlers(c) PROVE Inv'
      BY <1>6, HandlersInv
<1>7. CASE Elsewhere
      BY <1>7, ElsewhereInv
<1>8. CASE UNCHANGED vars
  <2>1. /\ UNCHANGED <<record, failures>> /\ UNCHANGED call
        /\ UNCHANGED <<page, deploy, socket, failure, dash, toast, timers>>
        BY <1>8 DEF vars, tab
  <2>2. RecordOK' /\ Tables' /\ Grows
        BY <2>1, RecordStays DEF Inv, TypeOK
  <2>3. Books'
        BY <2>1, <2>2, BooksStay DEF Inv, Books
  <2>4. Remembering' /\ Streaming' /\ Ending'
        BY <2>1, <2>2, TabKept DEF Inv
  <2>5. TypeOK'
        BY <2>1, <2>2, ShapesKept DEF Inv, TypeOK
  <2> QED BY <2>2, <2>3, <2>4, <2>5 DEF Inv, Books
<1> QED BY <1>1, <1>2, <1>3, <1>4, <1>5, <1>6, <1>7, <1>8 DEF Next

LEMMA Invariance == Spec => []Inv
BY InvInit, InvInductive, PTL DEF Spec

(* The pages, requests and tables keep their shapes: no late answer, event
   or push of a timer puts something into a page that its type excludes.   *)
THEOREM TypeCorrect == Spec => []TypeOK
<1>1. Inv => TypeOK
      BY DEF Inv
<1> QED BY <1>1, Invariance, PTL

(* Whatever the other writers, renders and late answers do, the completed
   card, the toast, the timers, the active count, the failed card and the
   announced action of the tab rest on something that happened.            *)
THEOREM ShownOutcomesAreReal == Spec => []ShownOutcomeIsReal
<1>1. Inv => ShownOutcomeIsReal
  <2> SUFFICES ASSUME Inv PROVE ShownOutcomeIsReal
      OBVIOUS
  <2> USE DEF Inv
  <2>1. /\ StepStrip = "passed" => deploy.deployStatus = "completed"
        /\ StepStrip = "failed" => deploy.deployStatus = "failed"
        BY DEF StepStrip, CompletedCard, FailedCard, TerminalPanel, OnDeploy
  <2>2. True(deploy.deployStatus)
        BY DEF Streaming
  <2>3. KpiActive => dash.project = "completed"
        BY DEF KpiActive, Filtered
  <2>4. toast \/ dash.toast \/ "dashboard" \in timers \/ KpiActive => applied # {}
        BY <2>3 DEF Remembering
  <2> QED BY <2>1, <2>2, <2>4 DEF True, Remembering, ShownOutcomeIsReal
<1> QED BY <1>1, Invariance, PTL

(* An effect that looks only at the last event never skips the outcome: a
   stream that has closed by itself, and was not ended by an error, has told
   the page how the deployment ended.                                      *)
THEOREM OutcomesAreNotSkipped == Spec => []OutcomeIsNotSkipped
<1>1. Inv => OutcomeIsNotSkipped
  <2> SUFFICES ASSUME Inv, TerminalPanel, socket.state = "closed", socket.rendered
               PROVE  socket.latest = "error"
      BY DEF OutcomeIsNotSkipped
  <2>1. deploy.deployStatus = "deploying" /\ socket.latest \in Ends
        BY DEF Inv, Ending, TerminalPanel, OnDeploy
  <2> QED BY <2>1 DEF Inv, Ending, Ends
<1> QED BY <1>1, Invariance, PTL

=============================================================================
