------------------------- MODULE MirrorConsoleProofs -------------------------
(* Proofs about MirrorConsole, for any mappings and any number of requests
   and status answers under way.                                           *)
EXTENDS MirrorConsole, FiniteSetTheorems, TLAPS

-----------------------------------------------------------------------------
(* What the building blocks of the actions do.                             *)

Requests ==
    [kind : {"none", "sync", "patch", "connect"},
     at : {"free", "sent", "answered"},
     live : BOOLEAN, ok : BOOLEAN, bad : BOOLEAN, row : CodeOf, text : CodeOf]

(* The page that waits for the answer of a request. *)
PageOf(kind) == CASE kind = "sync"    -> "mirror"
                  [] kind = "patch"   -> "resources"
                  [] kind = "connect" -> "gcp"
                  [] OTHER            -> "none"

(* A request is live only while the page that made it is mounted, and only the
   answer of a live one is waited for.                                     *)
Mounted ==
    \A c \in Calls : /\ call[c].live => On(PageOf(call[c].kind))
                     /\ call[c].at = "answered" => call[c].live

LEMMA FreeIsRequest == Free \in Requests
BY DEF Free, Requests, CodeOf

LEMMA RequestIsRequest ==
    ASSUME NEW kind \in {"sync", "patch", "connect"}
    PROVE  /\ Request(kind) \in Requests
           /\ Request(kind).kind = kind /\ Request(kind).at = "sent"
           /\ Request(kind).live
BY DEF Free, Request, Requests, CodeOf

LEMMA SendEffect ==
    ASSUME CallOK, NEW request \in Requests, Send(request)
    PROVE  /\ CallOK'
           /\ \A c \in Calls : call'[c] = call[c] \/ call'[c] = request
BY DEF CallOK, Requests, Send

LEMMA ReleaseEffect ==
    ASSUME CallOK, NEW c \in Calls, Release(c)
    PROVE  CallOK' /\ \A d \in Calls : call'[d] = IF d = c THEN Free ELSE call[d]
BY FreeIsRequest DEF CallOK, Requests, Release

LEMMA AnswerEffect ==
    ASSUME CallOK, NEW c \in Calls, NEW ok \in BOOLEAN, NEW bad \in BOOLEAN,
           Answer(c, ok, bad)
    PROVE  /\ CallOK'
           /\ \A d \in Calls \ {c} : call'[d] = call[d]
           /\ \/ call'[c] = Free
              \/ /\ call[c].live /\ call'[c].live /\ call'[c].at = "answered"
                 /\ call'[c].kind = call[c].kind
                 /\ call'[c].row = call[c].row /\ call'[c].text = call[c].text
<1>1. call[c] \in Requests
      BY DEF CallOK, Requests
<1>2. DEFINE answered == [call[c] EXCEPT !.at = "answered", !.ok = ok, !.bad = bad]
<1>3. /\ answered \in Requests
      /\ answered.live = call[c].live /\ answered.at = "answered"
      /\ answered.kind = call[c].kind
      /\ answered.row = call[c].row /\ answered.text = call[c].text
      BY <1>1 DEF Requests
<1>4. call' = [call EXCEPT ![c] = IF call[c].live THEN answered ELSE Free]
      BY DEF Answer
<1> HIDE DEF answered
<1> QED BY <1>3, <1>4, FreeIsRequest DEF CallOK, Requests

LEMMA DoneEffect ==
    ASSUME CallOK, NEW c \in Calls, Done(c)
    PROVE  /\ CallOK'
           /\ \A d \in Calls \ {c} : call'[d] = call[d]
           /\ \/ call'[c] = Free
              \/ /\ call[c].live /\ call'[c].live /\ call'[c].at = "answered"
                 /\ call'[c].kind = call[c].kind
                 /\ call'[c].row = call[c].row /\ call'[c].text = call[c].text
<1>1. PICK ok \in BOOLEAN : Answer(c, ok, FALSE)
      BY DEF Done
<1> QED BY <1>1, AnswerEffect

LEMMA RefuseEffect ==
    ASSUME CallOK, NEW c \in Calls, Refuse(c)
    PROVE  /\ CallOK'
           /\ \A d \in Calls \ {c} : call'[d] = call[d]
           /\ \/ call'[c] = Free
              \/ /\ call[c].live /\ call'[c].live /\ call'[c].at = "answered"
                 /\ call'[c].kind = call[c].kind
                 /\ call'[c].row = call[c].row /\ call'[c].text = call[c].text
<1>1. DEFINE bad == Sent(c, "sync") /\ (status # "completed" \/ ~connected)
<1>2. bad \in BOOLEAN /\ Answer(c, FALSE, bad)
      BY DEF Refuse
<1> HIDE DEF bad
<1> QED BY <1>2, AnswerEffect

(* What is opened waits for nothing that was asked for before.             *)
LEMMA OpenEffect ==
    ASSUME CallOK, NEW p \in Pages, Open(p)
    PROVE  /\ CallOK'
           /\ \A c \in Calls : /\ ~call'[c].live /\ call'[c].at # "answered"
                               /\ \/ call'[c] = Free
                                  \/ /\ call'[c].kind = call[c].kind
                                     /\ call'[c].at = call[c].at
                                     /\ call'[c].row = call[c].row
                                     /\ call'[c].text = call[c].text
<1>1. \A c \in Calls : call[c] \in Requests
      BY DEF CallOK, Requests
<1>2. DEFINE left(c) == [call[c] EXCEPT !.live = FALSE]
<1>3. \A c \in Calls : /\ left(c) \in Requests /\ ~left(c).live
                       /\ left(c).kind = call[c].kind /\ left(c).at = call[c].at
                       /\ left(c).row = call[c].row /\ left(c).text = call[c].text
      BY <1>1 DEF Requests
<1>4. call' = [c \in Calls |-> IF call[c].at = "sent"
                               THEN left(c) ELSE Free]
      BY DEF Open
<1>5. ~Free.live /\ Free.at = "free"
      BY DEF Free
<1> HIDE DEF left
<1> QED BY <1>3, <1>4, <1>5, FreeIsRequest DEF CallOK, Requests

LEMMA NavigateOpens ==
    Navigate => \E p \in Pages : Open(p)
BY DEF Navigate, OpenByAddress, GoToMirror, GoToConnect, GoToDetails, GoToFailover,
       BackToDashboard, Pages

(* The answers on their way are a set of at most five values. *)
LEMMA PollsEffect ==
    ASSUME PollsOK, NEW s \in DrStatus \cup {"failed"}
    PROVE  /\ Cardinality(polls \cup {s}) <= MaxPolls => PollsOK' \/ polls' # polls \cup {s}
           /\ Cardinality(polls) < MaxPolls => PollsOK' \/ polls' # polls \cup {s}
           /\ PollsOK' \/ polls' # polls \ {s}
<1>1. IsFiniteSet({"not_ready", "syncing", "ready", "failed"})
  <2>1. IsFiniteSet({}) /\ IsFiniteSet({"not_ready"})
        BY FS_EmptySet, FS_Singleton
  <2>2. IsFiniteSet({"not_ready"} \cup {"syncing"})
        BY <2>1, FS_AddElement
  <2>3. IsFiniteSet(({"not_ready"} \cup {"syncing"}) \cup {"ready"})
        BY <2>2, FS_AddElement
  <2>4. IsFiniteSet((({"not_ready"} \cup {"syncing"}) \cup {"ready"}) \cup {"failed"})
        BY <2>3, FS_AddElement
  <2>5. (({"not_ready"} \cup {"syncing"}) \cup {"ready"}) \cup {"failed"}
            = {"not_ready", "syncing", "ready", "failed"}
        OBVIOUS
  <2> QED BY <2>4, <2>5
<1>2. IsFiniteSet(polls)
  <2>1. polls \subseteq {"not_ready", "syncing", "ready", "failed"}
        BY DEF PollsOK, DrStatus
  <2> QED BY <1>1, <2>1, FS_Subset
<1>3. Cardinality(polls) \in Nat
      BY <1>2, FS_CardinalityType
<1>4. Cardinality(polls \cup {s}) \in {Cardinality(polls), Cardinality(polls) + 1}
      BY <1>2, FS_AddElement
<1>5. Cardinality(polls \ {s}) \in {Cardinality(polls), Cardinality(polls) - 1}
      BY <1>2, FS_RemoveElement
<1>6. Cardinality(polls) <= MaxPolls /\ polls \subseteq DrStatus \cup {"failed"}
      BY DEF PollsOK
<1>7. polls \cup {s} \subseteq DrStatus \cup {"failed"}
      BY <1>6
<1>8. polls \ {s} \subseteq DrStatus \cup {"failed"}
      BY <1>6
<1>9. Cardinality(polls) < MaxPolls => Cardinality(polls \cup {s}) <= MaxPolls
      BY <1>3, <1>4, ConsoleAssumption
<1>10. Cardinality(polls \ {s}) <= MaxPolls
      BY <1>3, <1>5, <1>6, ConsoleAssumption
<1> QED BY <1>7, <1>8, <1>9, <1>10 DEF PollsOK

-----------------------------------------------------------------------------
(* Type correctness *)

(* A mapping is open only after the mappings were fetched. *)
Chosen == On("resources") => \/ page.selectedMapping = None
                             \/ page.mappings \in [Rows -> CodeOf]

Shapes == TypeOK /\ Mounted /\ Chosen

(* What changes neither a request nor which page is mounted. *)
LEMMA MountedStays ==
    ASSUME Mounted, UNCHANGED call, page'.at = page.at
    PROVE  Mounted'
BY DEF Mounted, On

(* An answered request stays with its page, the others are not touched.    *)
LEMMA MountedAnswer ==
    ASSUME Mounted, NEW c \in Calls, page'.at = page.at,
           \A d \in Calls \ {c} : call'[d] = call[d],
           \/ call'[c] = Free
           \/ /\ call[c].live /\ call'[c].live /\ call'[c].at = "answered"
              /\ call'[c].kind = call[c].kind
    PROVE  Mounted'
<1>1. ~Free.live /\ Free.at = "free"
      BY DEF Free
<1> QED BY <1>1 DEF Mounted, On

LEMMA AtOfPage ==
    /\ Away.at = "away"
    /\ \A p \in MirrorPages : p.at = "mirror"
    /\ \A p \in ResourcePages : p.at = "resources"
    /\ \A p \in PackagePages : p.at = "package"
    /\ \A p \in ConnectPages : p.at = "gcp"
BY DEF Away, MirrorPages, ResourcePages, PackagePages, ConnectPages

LEMMA OnePage ==
    ASSUME PageOK
    PROVE  /\ On("mirror") => page \in MirrorPages
           /\ On("resources") => page \in ResourcePages
           /\ On("package") => page \in PackagePages
           /\ On("gcp") => page \in ConnectPages
BY AtOfPage DEF PageOK, On

LEMMA TablesStay ==
    ASSUME TableOK, TabSteps PROVE TableOK'
BY DEF TableOK, TabSteps, pipeline

LEMMA OpenShapes ==
    ASSUME Shapes, NEW p \in Pages, Open(p) PROVE Shapes'
<1>1. PageOK'
  <2>1. {} \in SUBSET Rows
        OBVIOUS
  <2>2. /\ MirrorDashboardPage \in MirrorPages
        /\ ResourceMappingsPage \in ResourcePages
        /\ DRPackagePage \in PackagePages
        /\ GcpConnectPage \in ConnectPages
        BY <2>1 DEF MirrorDashboardPage, ResourceMappingsPage, DRPackagePage,
                    GcpConnectPage, MirrorPages, ResourcePages, PackagePages,
                    ConnectPages, PackageStatus, CodeOf
  <2>3. page' = p
        BY DEF Open
  <2> QED BY <2>2, <2>3 DEF Pages, PageOK
<1>2. PollsOK'
  <2>1. Cardinality({}) = 0
        BY FS_EmptySet
  <2> QED BY <2>1, ConsoleAssumption DEF PollsOK, Open
<1>3. CallOK' /\ Mounted'
      BY OpenEffect DEF Shapes, TypeOK, Mounted
<1>4. TableOK'
      BY TablesStay DEF Open, Shapes, TypeOK
<1>5. Chosen'
  <2>1. page' \in Pages
        BY DEF Open
  <2> QED BY <2>1 DEF Chosen, On, Pages, Away, MirrorDashboardPage, ResourceMappingsPage,
                      DRPackagePage, GcpConnectPage
<1> QED BY <1>1, <1>2, <1>3, <1>4, <1>5 DEF Shapes, TypeOK

(* What only the page sees. *)
LEMMA PageShapes ==
    ASSUME Shapes, PageSteps, PageOK', page'.at = page.at,
           page'.at = "resources" => Chosen'
    PROVE  Shapes'
<1>1. TableOK'
      BY TablesStay DEF PageSteps, Shapes, TypeOK
<1>2. CallOK' /\ PollsOK'
      BY DEF PageSteps, Shapes, TypeOK, CallOK, PollsOK
<1>3. Mounted'
      BY MountedStays DEF PageSteps, Shapes
<1>4. Chosen'
      BY DEF Chosen, On
<1> QED BY <1>1, <1>2, <1>3, <1>4 DEF Shapes, TypeOK

LEMMA DashShapes ==
    ASSUME Shapes, Dash PROVE Shapes'
<1>0. PageOK /\ PollsOK /\ CallOK /\ TableOK /\ Mounted
      BY DEF Shapes, TypeOK
<1>a. UNCHANGED page => Chosen'
      BY DEF Shapes, Chosen, On
<1>b. page' \in MirrorPages => Chosen'
      BY AtOfPage DEF Chosen, On
<1>1. ASSUME get_dr_status \/ StatusFails PROVE Shapes'
  <2>1. UNCHANGED <<page, call>> /\ TabSteps
        BY <1>1 DEF get_dr_status, StatusFails
  <2>2. dr_status \in DrStatus \cup {"failed"} /\ "failed" \in DrStatus \cup {"failed"}
        BY <1>0 DEF TableOK
  <2>3. PollsOK'
        BY <1>0, <1>1, <2>2, PollsEffect DEF get_dr_status, StatusFails
  <2>4. PageOK' /\ CallOK'
        BY <1>0, <2>1 DEF PageOK, CallOK
  <2> QED BY <1>0, <1>a, <2>1, <2>3, <2>4, TablesStay, MountedStays DEF Shapes, TypeOK
<1>2. CASE PollTick \/ PollTickFails \/ RefetchStatus
      BY <1>1, <1>2 DEF PollTick, PollTickFails, RefetchStatus
<1>3. CASE FetchProject
  <2>1. page \in MirrorPages /\ status \in {"completed", "other"}
        BY <1>0, <1>3, OnePage DEF FetchProject, MirrorLoading, TableOK
  <2>2. page' = [page EXCEPT !.project = status] /\ PageSteps
        BY <1>3 DEF FetchProject
  <2>3. page' \in MirrorPages
        BY <2>1, <2>2 DEF MirrorPages
  <2> QED BY <2>1, <2>2, <2>3, AtOfPage, PageShapes DEF PageOK
<1>4. CASE FetchGcpStatus
  <2>1. page \in MirrorPages
        BY <1>0, <1>4, OnePage DEF FetchGcpStatus
  <2>2. PICK is \in {"yes", "no"} : page' = [page EXCEPT !.isConnected = is]
        BY <1>4 DEF FetchGcpStatus, get_gcp_status
  <2>3. page' \in MirrorPages
        BY <2>1, <2>2 DEF MirrorPages
  <2> QED BY <1>4, <2>1, <2>3, AtOfPage, PageShapes DEF PageOK, FetchGcpStatus
<1>5. CASE handleManualSync
  <2>1. page \in MirrorPages
        BY <1>0, <1>5, OnePage DEF handleManualSync, SyncButton, Dashboard
  <2>2. page' = [page EXCEPT !.isSyncing = TRUE] /\ Send(Request("sync"))
        BY <1>5 DEF handleManualSync
  <2>3. page' \in MirrorPages
        BY <2>1, <2>2 DEF MirrorPages
  <2>4. CallOK' /\ \A c \in Calls : call'[c] = call[c] \/ call'[c] = Request("sync")
        BY <1>0, <2>2, SendEffect, RequestIsRequest
  <2>5. page.at = "mirror" /\ page'.at = "mirror"
        BY <2>1, <2>3, AtOfPage
  <2>6. Mounted'
        BY <1>0, <2>4, <2>5, RequestIsRequest DEF Mounted, On, PageOf
  <2>7. PollsOK' /\ TabSteps
        BY <1>0, <1>5 DEF handleManualSync, PollsOK
  <2> QED BY <1>0, <1>b, <2>3, <2>4, <2>6, <2>7, TablesStay DEF PageOK, Shapes, TypeOK
<1>6. CASE CloseBanner
  <2>1. page \in MirrorPages
        BY <1>0, <1>6, OnePage DEF CloseBanner, GcpBanner, Dashboard
  <2>2. page' = [page EXCEPT !.showNotConnected = FALSE] /\ PageSteps
        BY <1>6 DEF CloseBanner
  <2>3. page' \in MirrorPages
        BY <2>1, <2>2 DEF MirrorPages
  <2> QED BY <2>1, <2>2, <2>3, AtOfPage, PageShapes DEF PageOK
<1>7. ASSUME NEW s \in DrStatus \cup {"failed"}, StatusArrives(s) PROVE Shapes'
  <2>1. page \in MirrorPages
        BY <1>0, <1>7, OnePage DEF StatusArrives
  <2>2. page' \in MirrorPages
    <3>1. CASE s = "failed"
      <4>1. page' = [page EXCEPT !.error = TRUE]
            BY <1>7, <3>1 DEF StatusArrives
      <4> QED BY <2>1, <4>1 DEF MirrorPages
    <3>2. CASE s # "failed"
      <4>1. page' = [page EXCEPT !.drStatus = s, !.error = FALSE]
            BY <1>7, <3>2 DEF StatusArrives
      <4>2. s \in DrStatus
            BY <3>2
      <4> QED BY <2>1, <4>1, <4>2 DEF MirrorPages
    <3> QED BY <3>1, <3>2
  <2>3. PollsOK'
        BY <1>0, <1>7, PollsEffect DEF StatusArrives
  <2>4. CallOK' /\ TabSteps /\ UNCHANGED call
        BY <1>0, <1>7 DEF StatusArrives, CallOK
  <2>5. page'.at = page.at
        BY <2>1, <2>2, AtOfPage
  <2> QED BY <1>0, <1>b, <2>2, <2>3, <2>4, <2>5, TablesStay, MountedStays
          DEF PageOK, Shapes, TypeOK
<1> QED BY <1>2, <1>3, <1>4, <1>5, <1>6, <1>7 DEF Dash

LEMMA DetailsShapes ==
    ASSUME Shapes, Details PROVE Shapes'
<1>0. PageOK /\ PollsOK /\ CallOK /\ TableOK /\ Mounted
      BY DEF Shapes, TypeOK
<1>1. CASE useResourceMappings
  <2>1. page \in ResourcePages
        BY <1>0, <1>1, OnePage DEF useResourceMappings
  <2>2. PICK ok \in BOOLEAN :
           page' = [page EXCEPT !.isLoading = FALSE, !.error = ~ok,
                       !.mappings = IF ok /\ mapped = "yes" THEN code ELSE page.mappings]
        BY <1>1 DEF useResourceMappings
  <2>3. code \in [Rows -> CodeOf]
        BY <1>0 DEF TableOK
  <2>4. page' \in ResourcePages
        BY <2>1, <2>2, <2>3 DEF ResourcePages
  <2>5. page.mappings \in [Rows -> CodeOf] => page'.mappings \in [Rows -> CodeOf]
        BY <2>1, <2>2, <2>3 DEF ResourcePages
  <2>6. page'.selectedMapping = page.selectedMapping
        BY <2>1, <2>2 DEF ResourcePages
  <2>7. Chosen'
        BY <2>1, <2>5, <2>6, AtOfPage DEF Shapes, Chosen, On
  <2> QED BY <1>1, <2>1, <2>4, <2>7, AtOfPage, PageShapes DEF PageOK, useResourceMappings
<1>2. ASSUME NEW r \in Rows, SelectMapping(r) PROVE Shapes'
  <2>1. page \in ResourcePages
        BY <1>0, <1>2, OnePage DEF SelectMapping, ConfirmButton, MappingTable
  <2>2. page' \in ResourcePages
        BY <1>2, <2>1 DEF SelectMapping, ResourcePages, CodeOf
  <2>3. page'.mappings \in [Rows -> CodeOf]
    <3>1. r \in DOMAIN page.mappings
          BY <1>2 DEF SelectMapping, ConfirmButton
    <3>2. page.mappings \in [Rows -> CodeOf]
          BY <2>1, <3>1 DEF ResourcePages
    <3> QED BY <1>2, <2>1, <3>2 DEF SelectMapping, ResourcePages
  <2> QED BY <1>2, <2>1, <2>2, <2>3, AtOfPage, PageShapes
          DEF PageOK, SelectMapping, Chosen
<1>3. ASSUME Modal
      PROVE  page \in ResourcePages /\ page.selectedMapping \in Rows
      BY <1>0, <1>3, OnePage DEF Modal, MappingTable, ResourcePages, CodeOf
<1>4. CASE handleConfirm
  <2>1. page \in ResourcePages /\ page.selectedMapping \in Rows
        BY <1>3, <1>4 DEF handleConfirm, CodeView
  <2>2. page.confirmedIds \in SUBSET Rows
        BY <2>1 DEF ResourcePages
  <2>3. DEFINE ids == page.confirmedIds \cup {page.selectedMapping}
  <2>4. ids \in SUBSET Rows
        BY <2>1, <2>2
  <2>5. page' = [page EXCEPT !.confirmedIds = ids,
                             !.selectedMapping = None, !.isEditing = FALSE]
        BY <1>4 DEF handleConfirm
  <2> HIDE DEF ids
  <2>6. page' \in ResourcePages
        BY <2>1, <2>4, <2>5 DEF ResourcePages, CodeOf
  <2>7. page'.selectedMapping = None
        BY <2>1, <2>5 DEF ResourcePages
  <2> QED BY <1>4, <2>1, <2>6, <2>7, AtOfPage, PageShapes
          DEF PageOK, handleConfirm, Chosen
<1>5. CASE CloseModal
  <2>1. page \in ResourcePages
        BY <1>3, <1>5 DEF CloseModal
  <2>2. page' \in ResourcePages
        BY <1>5, <2>1 DEF CloseModal, ResourcePages, CodeOf
  <2>3. page'.selectedMapping = None
        BY <1>5, <2>1 DEF CloseModal, ResourcePages
  <2> QED BY <1>5, <2>1, <2>2, <2>3, AtOfPage, PageShapes DEF PageOK, CloseModal, Chosen
<1>6. CASE handleOpenEdit
  <2>1. page \in ResourcePages /\ page.selectedMapping \in Rows
        BY <1>3, <1>6 DEF handleOpenEdit, CodeView
  <2>2. page.mappings \in [Rows -> CodeOf] /\ page.selectedMapping # None
        BY <2>1, AtOfPage, ConsoleAssumption DEF Shapes, Chosen, On
  <2>3. DEFINE text == page.mappings[page.selectedMapping]
  <2>4. text \in CodeOf
        BY <2>1, <2>2
  <2>5. page' = [page EXCEPT !.isEditing = TRUE, !.editedCode = text]
        BY <1>6 DEF handleOpenEdit
  <2> HIDE DEF text
  <2>6. page' \in ResourcePages /\ page'.mappings = page.mappings
        BY <2>1, <2>4, <2>5 DEF ResourcePages
  <2> QED BY <1>6, <2>1, <2>2, <2>6, AtOfPage, PageShapes
          DEF PageOK, handleOpenEdit, Chosen
<1>7. CASE CancelEdit
  <2>1. page \in ResourcePages
        BY <1>3, <1>7 DEF CancelEdit, CodeEditor
  <2>2. page' = [page EXCEPT !.isEditing = FALSE] /\ PageSteps
        BY <1>7 DEF CancelEdit
  <2>3. /\ page' \in ResourcePages /\ page'.mappings = page.mappings
        /\ page'.selectedMapping = page.selectedMapping
        BY <2>1, <2>2 DEF ResourcePages
  <2>4. Chosen'
        BY <2>1, <2>3, AtOfPage DEF Shapes, Chosen, On
  <2> QED BY <2>1, <2>2, <2>3, <2>4, AtOfPage, PageShapes DEF PageOK
<1>8. CASE handleSaveEdit
  <2>1. page \in ResourcePages /\ page.selectedMapping \in Rows
        BY <1>3, <1>8 DEF handleSaveEdit, CodeEditor
  <2>2. DEFINE save == [Request("patch") EXCEPT !.row = page.selectedMapping,
                                               !.text = page.editedCode]
  <2>3. save \in Requests /\ save.kind = "patch" /\ save.at = "sent"
    <3>1. page.editedCode \in CodeOf /\ page.selectedMapping \in CodeOf
          BY <2>1 DEF ResourcePages, CodeOf
    <3> QED BY <3>1, RequestIsRequest DEF Requests
  <2>4. Send(save)
        BY <1>8 DEF handleSaveEdit
  <2> HIDE DEF save
  <2>5. CallOK' /\ \A c \in Calls : call'[c] = call[c] \/ call'[c] = save
        BY <1>0, <2>3, <2>4, SendEffect
  <2>6. UNCHANGED <<page, polls>> /\ TabSteps /\ page.at = "resources"
        BY <1>8, <2>1, AtOfPage DEF handleSaveEdit
  <2>7. Mounted'
        BY <1>0, <2>3, <2>5, <2>6 DEF Mounted, On, PageOf
  <2>8. PageOK' /\ PollsOK' /\ Chosen'
        BY <1>0, <2>6 DEF PageOK, PollsOK, Shapes, Chosen, On
  <2> QED BY <1>0, <2>5, <2>6, <2>7, <2>8, TablesStay DEF Shapes, TypeOK
<1>9. CASE useDRPackage
  <2>1. page \in PackagePages
        BY <1>0, <1>9, OnePage DEF useDRPackage
  <2>2. page' \in PackagePages
        BY <1>9, <2>1 DEF useDRPackage, PackagePages
  <2> QED BY <1>9, <2>1, <2>2, AtOfPage, PageShapes DEF PageOK, useDRPackage
<1> QED BY <1>1, <1>2, <1>4, <1>5, <1>6, <1>7, <1>8, <1>9 DEF Details

LEMMA ConnectShapes ==
    ASSUME Shapes, Connect PROVE Shapes'
<1>0. PageOK /\ PollsOK /\ CallOK /\ TableOK /\ Mounted
      BY DEF Shapes, TypeOK
<1>1. ASSUME ConnectForm PROVE page \in ConnectPages
      BY <1>0, <1>1, OnePage DEF ConnectForm
<1>2. CASE TypeProjectId
  <2>1. page \in ConnectPages
        BY <1>1, <1>2 DEF TypeProjectId
  <2>2. page' \in ConnectPages
        BY <1>2, <2>1 DEF TypeProjectId, ConnectPages
  <2> QED BY <1>2, <2>1, <2>2, AtOfPage, PageShapes DEF PageOK, TypeProjectId
<1>3. CASE handleDrop
  <2>1. page \in ConnectPages
        BY <1>1, <1>3 DEF handleDrop, UploadZone
  <2>2. page' \in ConnectPages
        BY <1>3, <2>1 DEF handleDrop, parseKeyFile, ConnectPages
  <2> QED BY <1>3, <2>1, <2>2, AtOfPage, PageShapes DEF PageOK, handleDrop
<1>4. CASE KeyFileRead
  <2>1. page \in ConnectPages
        BY <1>0, <1>4, OnePage DEF KeyFileRead
  <2>2. DEFINE read == [page EXCEPT !.reading = "none"]
  <2>3. read \in ConnectPages
        BY <2>1 DEF ConnectPages
  <2>4. \/ page' = read
        \/ page' = [read EXCEPT !.keyData = FALSE]
        \/ \E id \in {"ofKey", read.gcpProjectId} :
              page' = [read EXCEPT !.keyData = TRUE, !.gcpProjectId = id]
        BY <1>4 DEF KeyFileRead
  <2> HIDE DEF read
  <2>5. page' \in ConnectPages
        BY <2>3, <2>4 DEF ConnectPages
  <2> QED BY <1>4, <2>1, <2>5, AtOfPage, PageShapes DEF PageOK, KeyFileRead
<1>5. CASE handleConnect
  <2>1. page \in ConnectPages
        BY <1>1, <1>5 DEF handleConnect, canConnect
  <2>2. page' = [page EXCEPT !.status = "validating"] /\ Send(Request("connect"))
        BY <1>5 DEF handleConnect
  <2>3. page' \in ConnectPages
        BY <2>1, <2>2 DEF ConnectPages
  <2>4. CallOK' /\ \A c \in Calls : call'[c] = call[c] \/ call'[c] = Request("connect")
        BY <1>0, <2>2, SendEffect, RequestIsRequest
  <2>5. page.at = "gcp" /\ page'.at = "gcp"
        BY <2>1, <2>3, AtOfPage
  <2>6. Mounted'
        BY <1>0, <2>4, <2>5, RequestIsRequest DEF Mounted, On, PageOf
  <2>7. PollsOK' /\ TabSteps /\ Chosen'
        BY <1>0, <1>5, <2>5 DEF handleConnect, PollsOK, Chosen, On
  <2> QED BY <1>0, <2>3, <2>4, <2>6, <2>7, TablesStay DEF PageOK, Shapes, TypeOK
<1>6. CASE handleRetry
  <2>1. page \in ConnectPages
        BY <1>0, <1>6, OnePage DEF handleRetry, ConnectError
  <2>2. page' \in ConnectPages
        BY <1>6, <2>1 DEF handleRetry, ConnectPages
  <2> QED BY <1>6, <2>1, <2>2, AtOfPage, PageShapes DEF PageOK, handleRetry
<1> QED BY <1>2, <1>3, <1>4, <1>5, <1>6 DEF Connect

(* An answer is taken by the page that waits for it. *)
LEMMA AnsweredOnPage ==
    ASSUME Mounted, NEW c \in Calls, call[c].at = "answered"
    PROVE  On(PageOf(call[c].kind))
BY DEF Mounted

LEMMA AnswersShapes ==
    ASSUME Shapes, NEW c \in Calls, Answers(c) PROVE Shapes'
<1>0. PageOK /\ PollsOK /\ CallOK /\ TableOK /\ Mounted
      BY DEF Shapes, TypeOK
<1>1. ASSUME Release(c), page'.at = page.at
      PROVE  CallOK' /\ Mounted'
  <2>1. CallOK' /\ \A d \in Calls : call'[d] = IF d = c THEN Free ELSE call[d]
        BY <1>0, <1>1, ReleaseEffect
  <2> QED BY <1>0, <1>1, <2>1, MountedAnswer
<1>2. CASE SyncAccepted(c)
  <2>1. page \in MirrorPages
        BY <1>0, <1>2, OnePage, AnsweredOnPage DEF SyncAccepted, Answered, PageOf
  <2>2. page' = [page EXCEPT !.isSyncing = FALSE] /\ Release(c) /\ TabSteps
        BY <1>2 DEF SyncAccepted
  <2>3. page' \in MirrorPages
        BY <2>1, <2>2 DEF MirrorPages
  <2>4. PollsOK'
    <3>1. dr_status \in DrStatus \cup {"failed"} /\ "failed" \in DrStatus \cup {"failed"}
          BY <1>0 DEF TableOK
    <3>2. CASE UNCHANGED polls
          BY <1>0, <3>2 DEF PollsOK
    <3>3. CASE Cardinality(polls) < MaxPolls /\ polls' = polls \cup {dr_status}
          BY <1>0, <3>1, <3>3, PollsEffect
    <3>4. CASE Cardinality(polls) < MaxPolls /\ polls' = polls \cup {"failed"}
          BY <1>0, <3>1, <3>4, PollsEffect
    <3> QED BY <1>2, <3>2, <3>3, <3>4 DEF SyncAccepted
  <2>5. page'.at = "mirror" /\ page'.at = page.at
        BY <2>1, <2>3, AtOfPage
  <2> QED BY <1>0, <1>1, <2>2, <2>3, <2>4, <2>5, TablesStay
          DEF PageOK, Shapes, TypeOK, Chosen, On
<1>3. CASE SyncRejected(c)
  <2>1. page \in MirrorPages /\ call[c].bad \in BOOLEAN
        BY <1>0, <1>3, OnePage, AnsweredOnPage DEF SyncRejected, Answered, PageOf, CallOK
  <2>2. Release(c) /\ UNCHANGED polls /\ TabSteps
        BY <1>3 DEF SyncRejected
  <2>3. page' \in MirrorPages
        BY <1>3, <2>1 DEF SyncRejected, MirrorPages
  <2>4. PollsOK'
        BY <1>0, <2>2 DEF PollsOK
  <2>5. page'.at = "mirror" /\ page'.at = page.at
        BY <2>1, <2>3, AtOfPage
  <2> QED BY <1>0, <1>1, <2>2, <2>3, <2>4, <2>5, TablesStay
          DEF PageOK, Shapes, TypeOK, Chosen, On
<1>4. CASE SaveAnswered(c)
  <2>1. page \in ResourcePages /\ call[c].ok \in BOOLEAN
        BY <1>0, <1>4, OnePage, AnsweredOnPage DEF SaveAnswered, Answered, PageOf, CallOK
  <2>2. /\ page' = [page EXCEPT !.isEditing = page.isEditing /\ ~call[c].ok]
        /\ Release(c) /\ UNCHANGED polls /\ TabSteps
        BY <1>4 DEF SaveAnswered
  <2>3. /\ page' \in ResourcePages /\ page'.mappings = page.mappings
        /\ page'.selectedMapping = page.selectedMapping
        BY <2>1, <2>2 DEF ResourcePages
  <2>4. PollsOK'
        BY <1>0, <2>2 DEF PollsOK
  <2>5. page'.at = page.at
        BY <2>1, <2>3, AtOfPage
  <2>6. Chosen'
        BY <2>3, <2>5 DEF Shapes, Chosen, On
  <2> QED BY <1>0, <1>1, <2>2, <2>3, <2>4, <2>5, <2>6, TablesStay
          DEF PageOK, Shapes, TypeOK
<1>5. CASE ConnectAnswered(c)
  <2>1. page \in ConnectPages
        BY <1>0, <1>5, OnePage, AnsweredOnPage DEF ConnectAnswered, Answered, PageOf
  <2>2. Release(c) /\ UNCHANGED polls /\ TabSteps
        BY <1>5 DEF ConnectAnswered
  <2>3. page' \in ConnectPages
        BY <1>5, <2>1 DEF ConnectAnswered, ConnectPages
  <2>4. PollsOK'
        BY <1>0, <2>2 DEF PollsOK
  <2>5. page'.at = "gcp" /\ page'.at = page.at
        BY <2>1, <2>3, AtOfPage
  <2> QED BY <1>0, <1>1, <2>2, <2>3, <2>4, <2>5, TablesStay
          DEF PageOK, Shapes, TypeOK, Chosen, On
<1> QED BY <1>2, <1>3, <1>4, <1>5 DEF Answers

(* An endpoint leaves the page alone, answers one request, and goes through
   the tables.                                                             *)
LEMMA EndpointsShapes ==
    ASSUME Shapes, NEW c \in Calls, Endpoints(c) PROVE Shapes'
<1>0. PageOK /\ PollsOK /\ CallOK /\ TableOK /\ Mounted /\ Chosen
      BY DEF Shapes, TypeOK
<1>1. UNCHANGED <<page, polls>>
      BY DEF Endpoints, Refuse, manual_sync, update_terraform_code,
             connect_gcp
<1>2. PageOK' /\ PollsOK' /\ Chosen' /\ page'.at = page.at
      BY <1>0, <1>1 DEF PageOK, PollsOK, Chosen, On
<1>3. CallOK' /\ Mounted'
  <2>1. CASE Refuse(c)
        BY <1>0, <1>2, <2>1, RefuseEffect, MountedAnswer
  <2>2. CASE manual_sync(c) \/ update_terraform_code(c) \/ connect_gcp(c)
    <3>1. Done(c)
          BY <2>2 DEF manual_sync, update_terraform_code, connect_gcp
    <3> QED BY <1>0, <1>2, <3>1, DoneEffect, MountedAnswer
  <2> QED BY <2>1, <2>2 DEF Endpoints
<1>4. TableOK'
  <2>1. CASE update_terraform_code(c)
    <3>1. call[c].text \in CodeOf
          BY <1>0 DEF CallOK
    <3>2. code' \in [Rows -> CodeOf]
          BY <1>0, <2>1, <3>1 DEF update_terraform_code, TableOK
    <3> QED BY <1>0, <2>1, <3>2 DEF update_terraform_code, TableOK
  <2>2. CASE ~update_terraform_code(c)
        BY <1>0, <2>2 DEF Endpoints, Refuse, manual_sync, connect_gcp, TableOK, pipeline
  <2> QED BY <2>1, <2>2
<1> QED BY <1>2, <1>3, <1>4 DEF Shapes, TypeOK

LEMMA ProjectShapes ==
    ASSUME Shapes, Project PROVE Shapes'
<1>0. PageOK /\ PollsOK /\ CallOK /\ TableOK /\ Mounted /\ Chosen
      BY DEF Shapes, TypeOK
<1>1. UNCHANGED <<page, polls, call>> /\ connected' \in BOOLEAN
      BY <1>0 DEF Project, StatusChanges, SyncTriggered, PipelineBegins, PipelineEnds,
             PipelineMaps, SnapshotReady, disconnect_gcp, Surroundings, TableOK
<1>2. PageOK' /\ PollsOK' /\ CallOK' /\ Mounted' /\ Chosen'
      BY <1>0, <1>1 DEF PageOK, PollsOK, CallOK, Mounted, Chosen, On
<1>3. code' \in [Rows -> CodeOf]
  <2>1. [r \in Rows |-> r] \in [Rows -> CodeOf]
        BY DEF CodeOf
  <2> QED BY <1>0, <2>1 DEF Project, StatusChanges, SyncTriggered, PipelineBegins,
             PipelineEnds, PipelineMaps, SnapshotReady, disconnect_gcp, TableOK, pipeline
<1>4. TableOK'
      BY <1>0, <1>1, <1>3 DEF Project, StatusChanges, SyncTriggered, PipelineBegins,
         PipelineEnds, PipelineMaps, SnapshotReady, disconnect_gcp, TableOK,
         pipeline, Surroundings, DrStatus
<1> QED BY <1>2, <1>4 DEF Shapes, TypeOK

LEMMA ShapesInductive ==
    Shapes /\ [Next]_vars => Shapes'
<1> SUFFICES ASSUME Shapes, [Next]_vars PROVE Shapes'
    OBVIOUS
<1>1. CASE Navigate
      BY <1>1, NavigateOpens, OpenShapes
<1>2. CASE UNCHANGED vars
      BY <1>2 DEF vars, pipeline, Shapes, TypeOK, PageOK, PollsOK, CallOK,
                  TableOK, Mounted, Chosen, On
<1> QED BY <1>1, <1>2, DashShapes, DetailsShapes, ConnectShapes, ProjectShapes,
           AnswersShapes, EndpointsShapes DEF Next

LEMMA ShapesInvariant == Spec => []Shapes
<1>1. Init => Shapes
  <2> SUFFICES ASSUME Init PROVE Shapes
      OBVIOUS
  <2>1. PollsOK
        BY FS_EmptySet, ConsoleAssumption DEF Init, PollsOK
  <2>2. CallOK /\ Mounted
        BY FreeIsRequest DEF Init, CallOK, Requests, Mounted, Free
  <2>3. TableOK
        BY DEF Init, TableOK, DrStatus, CodeOf
  <2>4. PageOK /\ Chosen
        BY DEF Init, PageOK, Chosen, On, Away
  <2> QED BY <2>1, <2>2, <2>3, <2>4 DEF Shapes, TypeOK
<1> QED BY <1>1, ShapesInductive, PTL DEF Spec

(* The page, its requests and the tables keep their shapes, and an answer is
   only ever taken by the page that asked.                                 *)
THEOREM TypeCorrect == Spec => []TypeOK
<1>1. Shapes => TypeOK
      BY DEF Shapes
<1> QED BY <1>1, ShapesInvariant, PTL

-----------------------------------------------------------------------------
(* An edit stays with its mapping *)

(* The mappings the page fetched, and the one text its editor holds.       *)
PageEdits ==
    page \in ResourcePages =>
        /\ page.mappings \in [Rows -> CodeOf] =>
              \A r \in Rows : page.mappings[r] \in {r, None}
        /\ page.isEditing => /\ page.selectedMapping # None
                             /\ page.editedCode \in {page.selectedMapping, None}

(* What a save under way carries. *)
CallEdits ==
    \A c \in Calls : call[c].kind = "patch" =>
        call[c].row \in Rows /\ call[c].text \in {call[c].row, None}

EditInv == EditsStayHome /\ PageEdits /\ CallEdits

LEMMA PageEditsKept ==
    ASSUME Shapes, EditInv, [Next]_vars
    PROVE  PageEdits'
<1>0. PageOK /\ CallOK /\ TableOK /\ Mounted /\ Chosen /\ EditsStayHome /\ PageEdits
      BY DEF Shapes, TypeOK, EditInv
<1>1. UNCHANGED page => PageEdits'
      BY <1>0 DEF PageEdits
<1>2. page'.at # "resources" => PageEdits'
      BY AtOfPage DEF PageEdits
<1>3. CASE Navigate
  <2>1. PICK p \in Pages : page' = p
        BY <1>3, NavigateOpens DEF Open
  <2>2. CASE p = ResourceMappingsPage
    <3>1. page'.mappings = <<>> /\ ~page'.isEditing
          BY <2>1, <2>2 DEF ResourceMappingsPage
    <3>2. page'.mappings \in [Rows -> CodeOf] => Rows = {}
          BY <3>1
    <3> QED BY <3>1, <3>2 DEF PageEdits
  <2>3. CASE p # ResourceMappingsPage
        BY <1>2, <2>1, <2>3 DEF Pages, Away, MirrorDashboardPage, DRPackagePage,
                                GcpConnectPage
  <2> QED BY <2>2, <2>3
<1>4. CASE Dash
  <2>1. UNCHANGED page \/ On("mirror")
        BY <1>4 DEF Dash, PollTick, PollTickFails, RefetchStatus, get_dr_status,
           StatusFails, StatusArrives, FetchProject, FetchGcpStatus, handleManualSync,
           CloseBanner, MirrorLoading, SyncButton, GcpBanner, Dashboard
  <2>2. On("mirror") => page' \in MirrorPages
    <3>1. Shapes'
          BY <1>4, DashShapes
    <3>2. On("mirror") => page'.at = "mirror"
      <4>1. On("mirror") => page \in MirrorPages
            BY <1>0, OnePage
      <4> QED BY <1>4, <4>1 DEF Dash, PollTick, PollTickFails, RefetchStatus,
           get_dr_status, StatusFails, StatusArrives, FetchProject, FetchGcpStatus,
           handleManualSync, CloseBanner, MirrorPages, On
    <3> QED BY <3>1, <3>2, OnePage, AtOfPage DEF Shapes, TypeOK, PageOK, On
  <2> QED BY <1>1, <1>2, <2>1, <2>2, AtOfPage
<1>5. CASE useResourceMappings
  <2>1. page \in ResourcePages
        BY <1>0, <1>5, OnePage DEF useResourceMappings
  <2>2. PICK ok \in BOOLEAN :
           page' = [page EXCEPT !.isLoading = FALSE, !.error = ~ok,
                       !.mappings = IF ok /\ mapped = "yes" THEN code ELSE page.mappings]
        BY <1>5 DEF useResourceMappings
  <2>3. /\ page'.mappings \in {code, page.mappings}
        /\ page'.isEditing = page.isEditing /\ page'.editedCode = page.editedCode
        /\ page'.selectedMapping = page.selectedMapping
        BY <2>1, <2>2 DEF ResourcePages
  <2> QED BY <1>0, <2>1, <2>3 DEF PageEdits, EditsStayHome
<1>6. ASSUME NEW r \in Rows, SelectMapping(r) PROVE PageEdits'
  <2>1. page \in ResourcePages /\ page.selectedMapping = None
        BY <1>0, <1>6, OnePage DEF SelectMapping, ConfirmButton, MappingTable
  <2>2. /\ page'.mappings = page.mappings /\ page'.isEditing = page.isEditing
        BY <1>6, <2>1 DEF SelectMapping, ResourcePages
  <2>3. ~page.isEditing
        BY <1>0, <2>1 DEF PageEdits
  <2> QED BY <1>0, <2>1, <2>2, <2>3 DEF PageEdits
<1>7. ASSUME Modal PROVE page \in ResourcePages /\ page.selectedMapping \in Rows
      BY <1>0, <1>7, OnePage DEF Modal, MappingTable, ResourcePages, CodeOf
<1>8. CASE handleConfirm \/ CloseModal
  <2>1. page \in ResourcePages
        BY <1>7, <1>8 DEF handleConfirm, CodeView, CloseModal
  <2>2. page'.mappings = page.mappings /\ ~page'.isEditing
        BY <1>8, <2>1 DEF handleConfirm, CloseModal, ResourcePages
  <2> QED BY <1>0, <2>1, <2>2 DEF PageEdits
<1>9. CASE handleOpenEdit
  <2>1. page \in ResourcePages /\ page.selectedMapping \in Rows
        BY <1>7, <1>9 DEF handleOpenEdit, CodeView
  <2>2. page.mappings \in [Rows -> CodeOf]
        BY <1>0, <2>1, AtOfPage, ConsoleAssumption DEF Chosen, On
  <2>3. page.mappings[page.selectedMapping] \in {page.selectedMapping, None}
        BY <1>0, <2>1, <2>2 DEF PageEdits
  <2>4. /\ page'.mappings = page.mappings
        /\ page'.selectedMapping = page.selectedMapping
        /\ page'.editedCode = page.mappings[page.selectedMapping]
        BY <1>9, <2>1 DEF handleOpenEdit, ResourcePages
  <2>5. page.selectedMapping # None
        BY <2>1, ConsoleAssumption
  <2> QED BY <1>0, <2>1, <2>3, <2>4, <2>5 DEF PageEdits
<1>10. CASE CancelEdit
  <2>1. page \in ResourcePages
        BY <1>7, <1>10 DEF CancelEdit, CodeEditor
  <2>2. page'.mappings = page.mappings /\ ~page'.isEditing
        BY <1>10, <2>1 DEF CancelEdit, ResourcePages
  <2> QED BY <1>0, <2>1, <2>2 DEF PageEdits
<1>11. CASE handleSaveEdit
      BY <1>1, <1>11 DEF handleSaveEdit
<1>12. CASE useDRPackage
  <2>1. page \in PackagePages
        BY <1>0, <1>12, OnePage DEF useDRPackage
  <2>2. page'.at = "package"
        BY <1>12, <2>1 DEF useDRPackage, PackagePages
  <2> QED BY <1>2, <2>2
<1>13. CASE Connect
  <2>1. page \in ConnectPages
        BY <1>0, <1>13, OnePage DEF Connect, TypeProjectId, handleDrop, UploadZone,
           KeyFileRead, handleConnect, canConnect, handleRetry, ConnectForm, ConnectError
  <2>2. page'.at = "gcp"
        BY <1>13, <2>1 DEF Connect, TypeProjectId, handleDrop, parseKeyFile,
           KeyFileRead, handleConnect, handleRetry, ConnectPages
  <2> QED BY <1>2, <2>2
<1>14. ASSUME NEW c \in Calls, Answers(c) PROVE PageEdits'
  <2>1. CASE SyncAccepted(c) \/ SyncRejected(c)
    <3>1. page \in MirrorPages
          BY <1>0, <2>1, OnePage, AnsweredOnPage
          DEF SyncAccepted, SyncRejected, Answered, PageOf
    <3>2. page'.at = "mirror"
          BY <2>1, <3>1 DEF SyncAccepted, SyncRejected, MirrorPages
    <3> QED BY <1>2, <3>2
  <2>2. CASE SaveAnswered(c)
    <3>1. page \in ResourcePages
          BY <1>0, <2>2, OnePage, AnsweredOnPage DEF SaveAnswered, Answered, PageOf
    <3>2. page' = [page EXCEPT !.isEditing = page.isEditing /\ ~call[c].ok]
          BY <2>2 DEF SaveAnswered
    <3>3. /\ page'.mappings = page.mappings /\ page'.editedCode = page.editedCode
          /\ page'.selectedMapping = page.selectedMapping
          /\ page'.isEditing => page.isEditing
          BY <3>1, <3>2 DEF ResourcePages
    <3> QED BY <1>0, <3>1, <3>3 DEF PageEdits
  <2>3. CASE ConnectAnswered(c)
    <3>1. page \in ConnectPages
          BY <1>0, <2>3, OnePage, AnsweredOnPage DEF ConnectAnswered, Answered, PageOf
    <3>2. page'.at = "gcp"
          BY <2>3, <3>1 DEF ConnectAnswered, ConnectPages
    <3> QED BY <1>2, <3>2
  <2> QED BY <1>14, <2>1, <2>2, <2>3 DEF Answers
<1>15. CASE Project \/ (\E c \in Calls : Endpoints(c)) \/ UNCHANGED vars
  <2>1. UNCHANGED page
        BY <1>15 DEF Project, StatusChanges, SyncTriggered, PipelineBegins, PipelineEnds,
           PipelineMaps, SnapshotReady, disconnect_gcp, Surroundings, Endpoints, Refuse,
           manual_sync, update_terraform_code, connect_gcp, vars
  <2> QED BY <1>1, <2>1
<1> QED BY <1>3, <1>4, <1>5, <1>6, <1>8, <1>9, <1>10, <1>11, <1>12, <1>13, <1>14, <1>15
        DEF Next, Details

LEMMA CallEditsKept ==
    ASSUME Shapes, EditInv, [Next]_vars
    PROVE  CallEdits'
<1>0. PageOK /\ CallOK /\ Mounted /\ PageEdits /\ CallEdits
      BY DEF Shapes, TypeOK, EditInv
<1>1. Free.kind = "none"
      BY DEF Free
<1>2. CASE Navigate
      BY <1>0, <1>1, <1>2, NavigateOpens, OpenEffect DEF CallEdits
<1>3. ASSUME NEW kind \in {"sync", "connect"}, Send(Request(kind)) PROVE CallEdits'
      BY <1>0, <1>3, SendEffect, RequestIsRequest DEF CallEdits
<1>4. CASE handleSaveEdit
  <2>1. page \in ResourcePages /\ page.isEditing
        BY <1>0, <1>4, OnePage DEF handleSaveEdit, CodeEditor, Modal, MappingTable
  <2>2. /\ page.selectedMapping \in Rows
        /\ page.editedCode \in {page.selectedMapping, None}
        BY <1>0, <2>1 DEF PageEdits, ResourcePages, CodeOf
  <2>3. DEFINE save == [Request("patch") EXCEPT !.row = page.selectedMapping,
                                               !.text = page.editedCode]
  <2>4. save.row = page.selectedMapping /\ save.text = page.editedCode
        BY RequestIsRequest DEF Requests
  <2>5. PICK d \in Calls : call' = [call EXCEPT ![d] = save]
        BY <1>4 DEF handleSaveEdit, Send
  <2> HIDE DEF save
  <2> QED BY <1>0, <2>2, <2>4, <2>5 DEF CallEdits, CallOK
<1>5. ASSUME NEW c \in Calls, Answers(c) PROVE CallEdits'
  <2>1. Release(c)
        BY <1>5 DEF Answers, SyncAccepted, SyncRejected, SaveAnswered, ConnectAnswered
  <2> QED BY <1>0, <1>1, <2>1, ReleaseEffect DEF CallEdits
<1>6. ASSUME NEW c \in Calls, Endpoints(c) PROVE CallEdits'
  <2>1. CASE Refuse(c)
        BY <1>0, <1>1, <2>1, RefuseEffect DEF CallEdits
  <2>2. CASE Done(c)
        BY <1>0, <1>1, <2>2, DoneEffect DEF CallEdits
  <2> QED BY <1>6, <2>1, <2>2
          DEF Endpoints, manual_sync, update_terraform_code, connect_gcp
<1>7. CASE UNCHANGED call
      BY <1>0, <1>7 DEF CallEdits
<1>8. \/ UNCHANGED call \/ Navigate \/ handleSaveEdit
      \/ handleManualSync \/ handleConnect
      \/ \E d \in Calls : Answers(d) \/ Endpoints(d)
      BY DEF Next, Dash, Details, Connect, Project, vars, PollTick, PollTickFails,
         RefetchStatus, get_dr_status, StatusFails, StatusArrives, FetchProject,
         FetchGcpStatus, CloseBanner, useResourceMappings, SelectMapping,
         handleConfirm, CloseModal, handleOpenEdit, CancelEdit, useDRPackage,
         TypeProjectId, handleDrop, KeyFileRead, handleRetry, PageSteps,
         StatusChanges, SyncTriggered, PipelineBegins, PipelineMaps, PipelineEnds,
         SnapshotReady, disconnect_gcp, Surroundings
<1> QED BY <1>2, <1>3, <1>4, <1>5, <1>6, <1>7, <1>8 DEF handleManualSync, handleConnect

LEMMA CodeKept ==
    ASSUME Shapes, EditInv, [Next]_vars
    PROVE  EditsStayHome'
<1>0. TableOK /\ EditsStayHome /\ CallEdits
      BY DEF Shapes, TypeOK, EditInv
<1>1. ASSUME NEW c \in Calls, update_terraform_code(c) PROVE EditsStayHome'
  <2>1. /\ code' = [code EXCEPT ![call[c].row] = call[c].text]
        /\ call[c].row \in Rows /\ call[c].text \in {call[c].row, None}
        BY <1>0, <1>1 DEF update_terraform_code, Sent, CallEdits
  <2> QED BY <1>0, <2>1 DEF EditsStayHome, TableOK
<1>2. CASE PipelineMaps
      BY <1>2 DEF PipelineMaps, EditsStayHome
<1>3. CASE UNCHANGED code
      BY <1>0, <1>3 DEF EditsStayHome
<1>4. Navigate => UNCHANGED code
      BY NavigateOpens DEF Open, TabSteps, pipeline
<1>5. \/ UNCHANGED code \/ PipelineMaps \/ \E d \in Calls : update_terraform_code(d)
      BY <1>4 DEF Next, Dash, Details, Connect, Project, vars, PollTick, PollTickFails,
         RefetchStatus, get_dr_status, StatusFails, StatusArrives, FetchProject,
         FetchGcpStatus, CloseBanner, useResourceMappings, SelectMapping,
         handleConfirm, CloseModal, handleOpenEdit, CancelEdit, useDRPackage,
         TypeProjectId, handleDrop, KeyFileRead, handleRetry, PageSteps,
         StatusChanges, SyncTriggered, PipelineBegins, PipelineEnds,
         SnapshotReady, disconnect_gcp, Surroundings, handleManualSync, handleConnect,
         handleSaveEdit, Answers, SyncAccepted, SyncRejected, SaveAnswered,
         ConnectAnswered, TabSteps, Endpoints, Refuse, manual_sync, connect_gcp,
         pipeline
<1> QED BY <1>1, <1>2, <1>3, <1>5

(* One editor serves all mappings, answers close it late, and runs replace the
   rows meanwhile: the code stored for a mapping is never another's.       *)
THEOREM SavedEditsStayHome == Spec => []EditsStayHome
<1>1. Init => EditInv
      BY AtOfPage DEF Init, EditInv, EditsStayHome, PageEdits, CallEdits, Free, Away
<1>2. Shapes /\ EditInv /\ [Next]_vars => EditInv'
      BY PageEditsKept, CallEditsKept, CodeKept DEF EditInv
<1>3. EditInv => EditsStayHome
      BY DEF EditInv
<1> QED BY <1>1, <1>2, <1>3, ShapesInvariant, PTL DEF Spec
=============================================================================
