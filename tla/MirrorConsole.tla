--------------------------- MODULE MirrorConsole ---------------------------
(***************************************************************************)
(* The MirrorOps pages of one project in one tab: the dashboard with its    *)
(* poll (mirror/page.tsx, hooks/useMirrorOps.ts), the resource mappings,    *)
(* the package, and the page that connects a GCP account; with what answers *)
(* them (api/mirror.py, api/gcp_connect.py) and, seen from here, the        *)
(* pipeline that MirrorPipeline models.                                     *)
(*                                                                         *)
(* One page is mounted at a time and starts from nothing.  A request that    *)
(* changes something goes on when its page is left.  A terraform code is     *)
(* named by the mapping it was generated for.                                *)
(***************************************************************************)
EXTENDS Naturals, FiniteSets

CONSTANTS
    Rows,      (* the mappings one pipeline run makes                       *)
    Reviewed,  (* those with the confidence "review"                        *)
    Calls,     (* requests of the tab that may be under way                 *)
    MaxPolls,  (* answers to the status poll that may be under way          *)
    None

ASSUME ConsoleAssumption ==
    /\ MaxPolls \in Nat
    /\ Reviewed \subseteq Rows
    /\ None \notin Rows

VARIABLES
    page,      (* the mounted page and its state                            *)
    polls,     (* answers to the status poll on their way                   *)
    call,      (* the other requests                                        *)
    dr_status, (* projects.dr_status                                        *)
    status,    (* projects.status: "completed" or not                       *)
    run,       (* a pipeline run that was started                           *)
    mapped,    (* whether gcp_mappings has Rows, or has had them            *)
    code,      (* the terraform_code of each                                *)
    connected  (* whether the columns of the GCP account are set; GcpAccount
                  has them one by one, and how requests that overlap leave
                  some set and others not                                   *)

pipeline == <<dr_status, run, mapped, code>>
vars     == <<page, polls, call, status, pipeline, connected>>

DrStatus      == {"not_ready", "syncing", "ready"}
PackageStatus == {"none", "preparing", "ready"}

Free == [kind |-> "none", at |-> "free", live |-> FALSE, ok |-> FALSE,
         bad |-> FALSE, row |-> None, text |-> None]

-----------------------------------------------------------------------------
(* The pages as they are mounted *)

Away == [at |-> "away"]

MirrorDashboardPage ==
    [at |-> "mirror", drStatus |-> "none", error |-> FALSE,
     project |-> "other", isConnected |-> "unknown",
     showNotConnected |-> FALSE, isSyncing |-> FALSE]

ResourceMappingsPage ==
    [at |-> "resources", isLoading |-> TRUE, error |-> FALSE,
     mappings |-> <<>>, selectedMapping |-> None,
     confirmedIds |-> {}, isEditing |-> FALSE, editedCode |-> None]

DRPackagePage ==
    [at |-> "package", isLoading |-> TRUE, error |-> FALSE, latest |-> "none"]

GcpConnectPage ==
    [at |-> "gcp", gcpProjectId |-> "empty", keyData |-> FALSE,
     status |-> "idle", reading |-> "none"]

Pages == {Away, MirrorDashboardPage, ResourceMappingsPage, DRPackagePage,
          GcpConnectPage}

Init ==
    /\ page = Away
    /\ polls = {}
    /\ call = [c \in Calls |-> Free]
    /\ dr_status = "not_ready"
    /\ status \in {"completed", "other"}
    /\ run = "none"
    /\ mapped = "no"
    /\ code = [r \in Rows |-> None]
    /\ connected = FALSE

On(p) == page.at = p

-----------------------------------------------------------------------------
(* What the pages show *)

MirrorLoading == On("mirror") /\ page.drStatus = "none" /\ ~page.error
MirrorError   == On("mirror") /\ page.error
Dashboard     == On("mirror") /\ page.drStatus # "none" /\ ~page.error
ShownStatus   == page.drStatus

SyncButton ==
    /\ Dashboard
    /\ ~page.isSyncing /\ page.project = "completed"
    /\ page.isConnected # "no" /\ page.drStatus # "syncing"
SyncHint      == Dashboard /\ page.isConnected = "no"
GcpBanner     == Dashboard /\ page.showNotConnected

ResourcesError   == On("resources") /\ page.error
MappingTable     == On("resources") /\ ~page.isLoading /\ ~page.error
isConfirmed(r)   == r \in page.confirmedIds
ConfirmButton(r) == /\ MappingTable /\ page.selectedMapping = None
                    /\ r \in DOMAIN page.mappings /\ r \in Reviewed
                    /\ ~isConfirmed(r)
Modal            == MappingTable /\ page.selectedMapping # None
CodeEditor       == Modal /\ page.isEditing
CodeView         == Modal /\ ~page.isEditing

PackageError == On("package") /\ page.error
PackageShown == On("package") /\ ~page.isLoading /\ ~page.error

ConnectForm    == On("gcp") /\ page.status # "success"
ConnectError   == On("gcp") /\ page.status = "error"
ConnectSuccess == On("gcp") /\ page.status = "success"
canConnect     == /\ ConnectForm /\ page.status \notin {"error", "validating"}
                  /\ page.gcpProjectId # "empty" /\ page.keyData

-----------------------------------------------------------------------------
(* Navigation: any page may be left, opened by its address, or loaded again,
   and these are the links the pages have.                                 *)

TabSteps == UNCHANGED <<status, pipeline, connected>>

Open(p) ==
    /\ page' = p
    /\ polls' = {}
    /\ call' = [c \in Calls |->
                   IF call[c].at = "sent"
                   THEN [call[c] EXCEPT !.live = FALSE] ELSE Free]
    /\ TabSteps

OpenByAddress == \/ On("away") /\ \E p \in Pages \ {Away} : Open(p)
                 \/ ~On("away") /\ Open(Away)

GoToMirror   == /\ ConnectSuccess \/ ConnectForm \/ MappingTable \/ PackageShown
                /\ Open(MirrorDashboardPage)
GoToConnect  == (SyncHint \/ GcpBanner) /\ Open(GcpConnectPage)
GoToDetails  == /\ Dashboard
                /\ Open(ResourceMappingsPage) \/ Open(DRPackagePage)
GoToFailover == Dashboard /\ page.drStatus = "ready" /\ Open(Away)
BackToDashboard == (Dashboard \/ MirrorError) /\ Open(Away)

-----------------------------------------------------------------------------
(* The status poll.  The interval does not wait for an answer, so answers may
   be under way together and arrive in any order.                          *)

get_dr_status ==
    /\ Cardinality(polls \cup {dr_status}) <= MaxPolls
    /\ polls' = polls \cup {dr_status}
    /\ UNCHANGED <<page, call>> /\ TabSteps
StatusFails ==
    /\ Cardinality(polls \cup {"failed"}) <= MaxPolls
    /\ polls' = polls \cup {"failed"}
    /\ UNCHANGED <<page, call>> /\ TabSteps

(* Mutant: the interval is cleared by an error.                            *)
PollTick_StopsOnError == On("mirror") /\ ~page.error /\ get_dr_status
PollTick      == On("mirror") /\ get_dr_status
PollTickFails == On("mirror") /\ StatusFails

RefetchStatus == MirrorError /\ (get_dr_status \/ StatusFails)

(* Mutant: the text of an error is taken for the status.                   *)
StatusArrives_AnyIsStatus(s) ==
    /\ On("mirror") /\ s \in polls
    /\ polls' = polls \ {s}
    /\ page'  = [page EXCEPT !.drStatus = s, !.error = FALSE]
    /\ UNCHANGED call /\ TabSteps
StatusArrives(s) ==
    /\ On("mirror") /\ s \in polls
    /\ polls' = polls \ {s}
    /\ page'  = IF s = "failed" THEN [page EXCEPT !.error = TRUE]
                ELSE [page EXCEPT !.drStatus = s, !.error = FALSE]
    /\ UNCHANGED call /\ TabSteps

-----------------------------------------------------------------------------
(* The dashboard *)

PageSteps == UNCHANGED <<polls, call>> /\ TabSteps

(* Asked for once; until it has answered, the page is as for "other".      *)
FetchProject ==
    /\ MirrorLoading
    /\ page' = [page EXCEPT !.project = status]
    /\ PageSteps

(* A failure counts as not connected. *)
get_gcp_status == {IF connected THEN "yes" ELSE "no", "no"}
FetchGcpStatus ==
    /\ On("mirror")
    /\ page.isConnected = "unknown"
    /\ \E is \in get_gcp_status : page' = [page EXCEPT !.isConnected = is]
    /\ PageSteps

Send(request) ==
    \E c \in Calls : /\ call[c] = Free
                     /\ call' = [call EXCEPT ![c] = request]
Release(c) == call' = [call EXCEPT ![c] = Free]
Answered(c, kind) == call[c].at = "answered" /\ call[c].kind = kind
Request(kind) == [Free EXCEPT !.kind = kind, !.at = "sent", !.live = TRUE]

handleManualSync ==
    /\ SyncButton
    /\ page' = [page EXCEPT !.isSyncing = TRUE]
    /\ Send(Request("sync"))
    /\ UNCHANGED polls /\ TabSteps

(* refetch is called, and its answer not awaited.                          *)
SyncAccepted(c) ==
    /\ Answered(c, "sync") /\ call[c].ok
    /\ page' = [page EXCEPT !.isSyncing = FALSE]
    /\ \/ polls' = IF Cardinality(polls) < MaxPolls THEN polls \cup {dr_status}
                   ELSE polls
       \/ Cardinality(polls) < MaxPolls /\ polls' = polls \cup {"failed"}
    /\ Release(c) /\ TabSteps

(* Any 400 is taken for a missing GCP account.                             *)
SyncRejected(c) ==
    /\ Answered(c, "sync") /\ ~call[c].ok
    /\ page' = [page EXCEPT
          !.isSyncing = FALSE,
          !.isConnected = IF call[c].bad THEN "no" ELSE @,
          !.showNotConnected = @ \/ call[c].bad]
    /\ Release(c) /\ UNCHANGED polls /\ TabSteps

CloseBanner ==
    /\ GcpBanner
    /\ page' = [page EXCEPT !.showNotConnected = FALSE]
    /\ PageSteps

-----------------------------------------------------------------------------
(* The mappings.  They are fetched once: what is saved, or what a pipeline run
   makes meanwhile, is not seen until the page is opened again.            *)

useResourceMappings ==
    /\ On("resources") /\ page.isLoading
    /\ \E ok \in BOOLEAN :
          page' = [page EXCEPT !.isLoading = FALSE, !.error = ~ok,
                               !.mappings = IF ok /\ mapped = "yes" THEN code ELSE @]
    /\ PageSteps

SelectMapping(r) ==
    /\ ConfirmButton(r)
    /\ page' = [page EXCEPT !.selectedMapping = r]
    /\ PageSteps

handleConfirm ==
    /\ CodeView
    /\ page' = [page EXCEPT !.confirmedIds = @ \cup {page.selectedMapping},
                            !.selectedMapping = None, !.isEditing = FALSE]
    /\ PageSteps

(* Mutant: the editor stays open behind the modal.                         *)
CloseModal_KeepsEditing ==
    /\ Modal
    /\ page' = [page EXCEPT !.selectedMapping = None]
    /\ PageSteps
CloseModal ==
    /\ Modal
    /\ page' = [page EXCEPT !.selectedMapping = None, !.isEditing = FALSE]
    /\ PageSteps

handleOpenEdit ==
    /\ CodeView
    /\ page' = [page EXCEPT !.isEditing = TRUE,
                            !.editedCode = page.mappings[page.selectedMapping]]
    /\ PageSteps

CancelEdit ==
    /\ CodeEditor
    /\ page' = [page EXCEPT !.isEditing = FALSE]
    /\ PageSteps

handleSaveEdit ==
    /\ CodeEditor
    /\ Send([Request("patch") EXCEPT !.row = page.selectedMapping,
                                     !.text = page.editedCode])
    /\ UNCHANGED <<page, polls>> /\ TabSteps

(* A failure is only logged.  The answer closes the editor of whatever mapping
   is open by now.                                                         *)
SaveAnswered(c) ==
    /\ Answered(c, "patch")
    /\ page' = [page EXCEPT !.isEditing = @ /\ ~call[c].ok]
    /\ Release(c) /\ UNCHANGED polls /\ TabSteps

-----------------------------------------------------------------------------
(* The package page: MirrorPipeline says which package is the latest.       *)

useDRPackage ==
    /\ On("package") /\ (page.isLoading \/ PackageError)
    /\ \/ page' = [page EXCEPT !.isLoading = FALSE, !.error = TRUE]
       \/ \E latest \in PackageStatus :
             page' = [page EXCEPT !.isLoading = FALSE, !.error = FALSE,
                                  !.latest = latest]
    /\ PageSteps

-----------------------------------------------------------------------------
(* Connecting a GCP account *)

TypeProjectId ==
    /\ ConnectForm
    /\ \E id \in {"empty", "typed"} : page' = [page EXCEPT !.gcpProjectId = id]
    /\ PageSteps

(* A file, dropped or selected, is read later, by a closure that knows whether
   the project id was empty when the reading began; at most one is read at a
   time here.  What is no key file takes the key away.                     *)
parseKeyFile ==
    \/ page' = [page EXCEPT !.keyData = FALSE]
    \/ page' = [page EXCEPT !.reading =
                    IF page.gcpProjectId = "empty" THEN "untitled" ELSE "titled"]
UploadZone == ConnectForm /\ page.reading = "none"
handleDrop == UploadZone /\ parseKeyFile /\ PageSteps

(* A key, with or without a project id; no key; or an error of the reader.  *)
KeyFileRead ==
    /\ On("gcp") /\ page.reading # "none"
    /\ LET read == [page EXCEPT !.reading = "none"] IN
       \/ \E named \in BOOLEAN :
             page' = [read EXCEPT !.keyData = TRUE,
                        !.gcpProjectId = IF page.reading = "untitled" /\ named
                                         THEN "ofKey" ELSE @]
       \/ page' = [read EXCEPT !.keyData = FALSE]
       \/ page' = read
    /\ PageSteps

handleConnect ==
    /\ canConnect
    /\ page' = [page EXCEPT !.status = "validating"]
    /\ Send(Request("connect"))
    /\ UNCHANGED polls /\ TabSteps

ConnectAnswered(c) ==
    /\ Answered(c, "connect")
    /\ page' = [page EXCEPT !.status = IF call[c].ok THEN "success" ELSE "error"]
    /\ Release(c) /\ UNCHANGED polls /\ TabSteps

handleRetry ==
    /\ ConnectError
    /\ page' = [page EXCEPT !.status = "idle"]
    /\ PageSteps

-----------------------------------------------------------------------------
(* The endpoints that change something *)

Sent(c, kind) == call[c].at = "sent" /\ call[c].kind = kind
Answer(c, ok, bad) ==
    call' = [call EXCEPT ![c] = IF @.live THEN [@ EXCEPT !.at = "answered",
                                                   !.ok = ok, !.bad = bad] ELSE Free]
(* The answer of a call that was carried out may still be lost.            *)
Done(c) == \E ok \in BOOLEAN : Answer(c, ok, FALSE)

(* Refused, with no table changed: a state that forbids it, a key that is not
   valid, no such mapping, no connection, a commit that fails.             *)
Refuse(c) ==
    /\ call[c].at = "sent"
    /\ Answer(c, FALSE, Sent(c, "sync") /\ (status # "completed" \/ ~connected))
    /\ UNCHANGED <<page, polls, status, pipeline, connected>>

manual_sync(c) ==
    /\ Sent(c, "sync")
    /\ status = "completed" /\ connected
    /\ run = "none"
    /\ run' = "queued"
    /\ Done(c)
    /\ UNCHANGED <<page, polls, status, dr_status, mapped, code, connected>>

update_terraform_code(c) ==
    /\ Sent(c, "patch")
    /\ mapped = "yes"
    /\ code' = [code EXCEPT ![call[c].row] = call[c].text]
    /\ Done(c)
    /\ UNCHANGED <<page, polls, status, dr_status, run, mapped, connected>>

(* The commit of the columns: what comes before it is in GcpAccount.        *)
connect_gcp(c) ==
    /\ Sent(c, "connect")
    /\ connected' = TRUE
    /\ Done(c)
    /\ UNCHANGED <<page, polls, status, pipeline>>

-----------------------------------------------------------------------------
(* The project and its pipeline runs, seen from here *)

Surroundings == UNCHANGED <<page, polls, call, connected>>

(* Asked for by no page.                                                    *)
disconnect_gcp ==
    /\ connected' = FALSE
    /\ UNCHANGED <<page, polls, call, status, pipeline>>

(* A deployment completes, or the project is deleted; a completed deployment
   and a change that was detected start runs of their own.                 *)
StatusChanges ==
    /\ status' \in {"completed", "other"} \ {status}
    /\ UNCHANGED pipeline /\ Surroundings
SyncTriggered ==
    /\ run = "none"
    /\ run' = "queued"
    /\ UNCHANGED <<status, dr_status, mapped, code>> /\ Surroundings

(* Both tables are cleared; the mappings it makes have ids of their own.    *)
PipelineBegins ==
    /\ run = "queued"
    /\ run' = "running"
    /\ dr_status' = "syncing"
    /\ mapped' = IF mapped = "yes" THEN "deleted" ELSE mapped
    /\ UNCHANGED <<status, code>> /\ Surroundings

PipelineMaps ==
    /\ run = "running" /\ mapped = "no"
    /\ mapped' = "yes"
    /\ code' = [r \in Rows |-> r]
    /\ UNCHANGED <<status, dr_status, run>> /\ Surroundings

(* With a package whose snapshot is still to come, or without one; with the
   ready package there was; with an error; or the process ends.            *)
PipelineEnds ==
    /\ run = "running"
    /\ run' = "none"
    /\ dr_status' \in {dr_status, "ready", "not_ready"}
    /\ UNCHANGED <<status, mapped, code>> /\ Surroundings

SnapshotReady ==
    /\ dr_status' = "ready"
    /\ UNCHANGED <<status, run, mapped, code>> /\ Surroundings

-----------------------------------------------------------------------------
Navigate == OpenByAddress \/ GoToMirror \/ GoToConnect \/ GoToDetails
                \/ GoToFailover \/ BackToDashboard

Dash ==
    \/ PollTick \/ PollTickFails \/ RefetchStatus
    \/ FetchProject \/ FetchGcpStatus \/ handleManualSync \/ CloseBanner
    \/ \E s \in DrStatus \cup {"failed"} : StatusArrives(s)

Details ==
    \/ useResourceMappings \/ handleConfirm \/ CloseModal \/ handleOpenEdit
    \/ CancelEdit \/ handleSaveEdit \/ useDRPackage
    \/ \E r \in Rows : SelectMapping(r)

Connect ==
    \/ TypeProjectId \/ handleDrop \/ KeyFileRead
    \/ handleConnect \/ handleRetry

Answers(c) == SyncAccepted(c) \/ SyncRejected(c) \/ SaveAnswered(c) \/ ConnectAnswered(c)

Endpoints(c) == Refuse(c) \/ manual_sync(c) \/ update_terraform_code(c)
                    \/ connect_gcp(c)

Project == StatusChanges \/ SyncTriggered \/ PipelineBegins \/ PipelineEnds
               \/ PipelineMaps \/ SnapshotReady \/ disconnect_gcp

Next ==
    \/ Navigate \/ Dash \/ Details \/ Connect \/ Project
    \/ \E c \in Calls : Answers(c) \/ Endpoints(c)

Spec == Init /\ [][Next]_vars

(* The interval fires while the page is mounted, answers arrive, and a poll
   does not fail for ever.                                                 *)
Fairness ==
    /\ SF_vars(PollTick)
    /\ \A s \in DrStatus \cup {"failed"} : WF_vars(StatusArrives(s))

FairSpec == Spec /\ Fairness

-----------------------------------------------------------------------------
(* Properties *)

CodeOf == Rows \cup {None}

MirrorPages ==
    [at : {"mirror"}, drStatus : DrStatus \cup {"none"}, error : BOOLEAN,
     project : {"completed", "other"}, isConnected : {"unknown", "yes", "no"},
     showNotConnected : BOOLEAN, isSyncing : BOOLEAN]
ResourcePages ==
    [at : {"resources"}, isLoading : BOOLEAN, error : BOOLEAN,
     mappings : {<<>>} \cup [Rows -> CodeOf], selectedMapping : CodeOf,
     confirmedIds : SUBSET Rows, isEditing : BOOLEAN, editedCode : CodeOf]
PackagePages ==
    [at : {"package"}, isLoading : BOOLEAN, error : BOOLEAN, latest : PackageStatus]
ConnectPages ==
    [at : {"gcp"}, gcpProjectId : {"empty", "typed", "ofKey"}, keyData : BOOLEAN,
     status : {"idle", "validating", "success", "error"},
     reading : {"none", "titled", "untitled"}]

PageOK == \/ page = Away          \/ page \in MirrorPages
          \/ page \in ResourcePages \/ page \in PackagePages
          \/ page \in ConnectPages
PollsOK == polls \subseteq DrStatus \cup {"failed"} /\ Cardinality(polls) <= MaxPolls
CallOK ==
    call \in [Calls -> [kind : {"none", "sync", "patch", "connect"},
                        at : {"free", "sent", "answered"},
                        live : BOOLEAN, ok : BOOLEAN, bad : BOOLEAN,
                        row : CodeOf, text : CodeOf]]
TableOK ==
    /\ dr_status \in DrStatus /\ status \in {"completed", "other"}
    /\ run \in {"none", "queued", "running"}
    /\ mapped \in {"no", "yes", "deleted"} /\ code \in [Rows -> CodeOf]
    /\ connected \in BOOLEAN

(* Pages, requests and tables have the shapes the frontend's types and the
   models declare.                                                         *)
TypeOK == PageOK /\ PollsOK /\ CallOK /\ TableOK

(* mirror/page.tsx and useDRStatus: a status that stays is shown in the end,
   also after answers that failed or came in the wrong order.              *)
StatusCatchesUp ==
    \A s \in DrStatus :
        On("mirror") /\ dr_status = s ~>
            \/ ~On("mirror") \/ dr_status # s
            \/ Dashboard /\ ShownStatus = s

(* resources/page.tsx: one editor serves every mapping, and is opened, closed
   and saved by separate handlers.  The code of one mapping is never saved as
   that of another.                                                        *)
EditsStayHome ==
    \A r \in Rows : code[r] \in {r, None}
=============================================================================
