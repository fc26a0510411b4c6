----------------------------- MODULE WizardProofs -----------------------------
(* Proofs about Wizard: the pages only use CraftGate as its specification
   says, so that what is proved of the gate holds behind them, and the summary
   shows what the draft holds.                                             *)
EXTENDS Wizard, CraftGateProofs

-----------------------------------------------------------------------------
(* What the pages and the request hold                                     *)

(* A page has only texts that its fields take, and ids that were handed out. *)
NewOK(p) == p \in NewPages /\ \A s \in InputSteps : p.stepConfigs[s] \in Texts(s)
ValidateOK(p, ids) == p \in ValidatePages /\ p.result \in ids
DeployOK(p, ids)   == p \in DeployPages /\ p.validationId \in ids
PageOK(p, ids) == p = Away \/ NewOK(p) \/ ValidateOK(p, ids) \/ DeployOK(p, ids)

RequestOK ==
    /\ request \in Requests
    /\ request.kind = "save" => request.config \in Configs
    /\ request.kind = "none" => request = NoRequest

(* The page that waits for the request is the one that has sent it.        *)
WaitingOK ==
    request.live =>
        \/ request.kind = "create" /\ ProjectForm
        \/ request.kind = "save" /\ Phase("wizard") /\ page.isSubmitting
        \/ request.kind = "validate" /\ OnValidate

WizardInv ==
    /\ TypeOK
    /\ PageOK(page, ClientIds)
    /\ RequestOK
    /\ WaitingOK
    /\ project \in {"none", "exists"}

(* Each page is told by its "at".                                          *)
LEMMA PageAt ==
    ASSUME NEW p, NEW ids, PageOK(p, ids)
    PROVE  /\ p.at = "away" => p = Away
           /\ p.at = "new" => NewOK(p)
           /\ p.at = "validate" => ValidateOK(p, ids)
           /\ p.at = "deploy" => DeployOK(p, ids)
           /\ p.at \in {"away", "new", "validate", "deploy"}
BY DEF PageOK, NewOK, ValidateOK, DeployOK, Away, NewPages, ValidatePages, DeployPages

LEMMA FreshPages ==
    ASSUME NEW ids, NoId \in ids
    PROVE  /\ PageOK(Away, ids) /\ Away.at = "away"
           /\ \A b \in BOOLEAN : /\ NewOK(NewProjectPage(b))
                                  /\ PageOK(NewProjectPage(b), ids)
           /\ ValidateOK(ValidatePage, ids) /\ PageOK(ValidatePage, ids)
           /\ \A id \in ids : id \in ValidationIds \cup {NoId} =>
                 DeployOK(DeployPage(id), ids) /\ PageOK(DeployPage(id), ids)
<1>2. ASSUME NEW b \in BOOLEAN PROVE NewOK(NewProjectPage(b))
      BY IdleType DEF NewProjectPage, NewOK, NewPages, Texts
<1>3. ValidateOK(ValidatePage, ids)
      BY DEF ValidatePage, ValidateOK, ValidatePages
<1>4. ASSUME NEW id \in ids, id \in ValidationIds \cup {NoId}
      PROVE  DeployOK(DeployPage(id), ids)
      BY <1>4 DEF DeployPage, DeployOK, DeployPages
<1>5. Away.at = "away"
      BY DEF Away
<1> QED BY <1>2, <1>3, <1>4, <1>5 DEF PageOK

LEMMA NoRequestType ==
    /\ NoRequest \in Requests /\ NoRequest.kind = "none"
    /\ ~NoRequest.live /\ ~NoRequest.served
BY IdleType DEF NoRequest, Requests

(* What a step is saved with is an entry: never empty, never a bad CIDR.   *)
LEMMA ShownIsAnEntry ==
    ASSUME NewOK(page), NEW s \in Steps
    PROVE  /\ Shown(s) \in Configs \cup {Bad}
           /\ s # CidrStep \/ validateCIDR(Shown(CidrStep)) => Shown(s) \in Configs
<1>1. CASE s \in InputSteps
      BY <1>1, WizardAssumption DEF NewOK, Texts, Shown, validateCIDR
<1>2. CASE s \notin InputSteps
      BY <1>2, WizardAssumption DEF Shown, validateCIDR
<1> QED BY <1>1, <1>2

-----------------------------------------------------------------------------
(* The pages use the gate as it is specified                               *)

(* Everything a tab makes the backend do is a step of CraftGate.           *)
LEMMA WizardStepsGate ==
    ASSUME WizardInv, [WizardNext]_wvars PROVE [Next]_vars
<1> USE DEF Serve, Finish, wizard
<1>1. CASE Navigate \/ Pages \/ ProjectCreated \/ CreateRefused
      BY <1>1 DEF Navigate, OpenByAddress, ExitWizard, GoToValidation, EditSettings, GoToDeploy,
         Open, Pages, TypeForm, handleCreateProject, handleAnalyze, AnalysisEnds, onComplete,
         PressPrev, handleSaveStep, CidrRejected, handleValidate, RequestFails, TypeStep,
         ProjectCreated, CreateRefused
<1>2. CASE Callback
      BY <1>2 DEF Callback, Next
<1>3. ASSUME NEW t \in Threads, Endpoints(t) PROVE [Next]_vars
  <2>1. CASE ServeSave(t)
    <3>1. request.config \in Configs /\ request.step \in Steps
          BY <2>1 DEF ServeSave, Asked, WizardInv, RequestOK, Requests
    <3>2. save_config(t)
          BY <2>1, <3>1 DEF ServeSave, save_config
    <3> QED BY <3>2 DEF Next
  <2>2. CASE SaveRefused(t) \/ ValidateRefused(t)
        BY <2>2 DEF SaveRefused, ValidateRefused
  <2>3. CASE SaveAnswered(t)
        BY <2>3 DEF SaveAnswered, save_config, Next
  <2>4. CASE ServeValidate(t)
        BY <2>4 DEF ServeValidate, validate, Next
  <2>5. CASE ValidateAnswered(t)
        BY <2>5 DEF ValidateAnswered, validate, Next
  <2>6. CASE handleDeploy(t)
    <3>1. page.validationId \in ClientIds
          BY <2>6, PageAt DEF handleDeploy, WizardInv, DeployOK
    <3>2. deploy(t)
          BY <2>6, <3>1 DEF handleDeploy, deploy
    <3> QED BY <3>2 DEF Next
  <2>7. CASE Backend(t)
        BY <2>7 DEF Backend, save_config, deploy, Next
  <2> QED BY <1>3, <2>1, <2>2, <2>3, <2>4, <2>5, <2>6, <2>7 DEF Endpoints
<1>4. CASE UNCHANGED wvars
      BY <1>4 DEF wvars
<1> QED BY <1>1, <1>2, <1>3, <1>4 DEF WizardNext

(* Ids that were handed out stay so. *)
LEMMA ClientIdsGrow == ASSUME [Next]_vars PROVE ClientIds \subseteq ClientIds'
<1>1. scans \subseteq scans'
      BY DEF Next, save_config, SaveRead, SaveReadNoDraft, create_initial_deployment,
         SaveRefresh, SaveWrite, validate, ValidateRead, ValidatePass, ValidateManualEdit,
         ValidateReject, deploy, DeployRead, DeployCheck, DeployUpload, DeployUploadFails,
         DeployCommit, DeploySpawn, DeploySpawnFails, deployment_complete_callback, vars
<1> QED BY <1>1 DEF ClientIds

LEMMA PageStaysOK ==
    ASSUME NEW ids, NEW more, ids \subseteq more, NEW p, PageOK(p, ids)
    PROVE  PageOK(p, more)
BY DEF PageOK, ValidateOK, DeployOK

-----------------------------------------------------------------------------
(* Type correctness                                                        *)

(* Leaving a page for a new one. *)
LEMMA OpenOK ==
    ASSUME WizardInv, NEW p, PageOK(p, ClientIds), Open(p) PROVE WizardInv'
<1>1. /\ page' = p /\ request' = [request EXCEPT !.live = FALSE]
      /\ UNCHANGED <<vars, project>>
      BY DEF Open
<1>2. /\ request' \in Requests /\ ~request'.live /\ request'.kind = request.kind
      /\ request'.config = request.config
      BY <1>1 DEF WizardInv, RequestOK, Requests
<1>3. ASSUME request.kind = "none" PROVE request' = NoRequest
  <2>1. request' = [NoRequest EXCEPT !.live = FALSE]
        BY <1>1, <1>3 DEF WizardInv, RequestOK
  <2> QED BY <2>1 DEF NoRequest
<1>4. RequestOK'
      BY <1>2, <1>3 DEF WizardInv, RequestOK
<1>5. WaitingOK'
      BY <1>2 DEF WaitingOK
<1>6. TypeOK' /\ PageOK(page, ClientIds)' /\ project' \in {"none", "exists"}
      BY <1>1 DEF WizardInv, TypeOK, vars, ClientIds
<1> QED BY <1>4, <1>5, <1>6 DEF WizardInv

LEMMA NavigateOK == ASSUME WizardInv, Navigate PROVE WizardInv'
<1>0. NoId \in ClientIds
      BY DEF ClientIds
<1>1. CASE OpenByAddress
  <2>1. \E p \in {Away, NewProjectPage(FALSE), NewProjectPage(TRUE), ValidatePage,
                  DeployPage(NoId)} : Open(p)
        BY <1>1 DEF OpenByAddress
  <2>2. PageOK(DeployPage(NoId), ClientIds)
        BY <1>0, FreshPages
  <2> QED BY <1>0, <2>1, <2>2, FreshPages, OpenOK
<1>2. CASE ExitWizard \/ GoToValidation \/ EditSettings
  <2>1. \E p \in {Away, NewProjectPage(FALSE), ValidatePage} : Open(p)
        BY <1>2 DEF ExitWizard, GoToValidation, EditSettings
  <2> QED BY <1>0, <2>1, FreshPages, OpenOK
<1>3. CASE GoToDeploy
  <2>1. ValidateOK(page, ClientIds)
        BY <1>3, PageAt DEF GoToDeploy, ResultShown, OnValidate, WizardInv
  <2>2. page.result \in ClientIds /\ page.result \in ValidationIds \cup {NoId}
        BY <2>1 DEF ValidateOK, ValidatePages
  <2>3. PageOK(DeployPage(page.result), ClientIds)
        BY <1>0, <2>2, FreshPages
  <2> QED BY <1>3, <2>3, OpenOK DEF GoToDeploy
<1> QED BY <1>1, <1>2, <1>3 DEF Navigate

(* A step within the page, while the backend and the request rest. *)
LEMMA WithinOK ==
    ASSUME WizardInv, UNCHANGED <<vars, request, project>>, PageOK(page', ClientIds),
           WaitingOK'
    PROVE  WizardInv'
<1>1. TypeOK' /\ ClientIds' = ClientIds /\ RequestOK'
      BY DEF WizardInv, TypeOK, RequestOK, vars, ClientIds
<1> QED BY <1>1 DEF WizardInv

LEMMA OnNew ==
    ASSUME WizardInv, page.at = "new" PROVE NewOK(page)
BY PageAt DEF WizardInv

LEMMA EarlierStep == ASSUME NEW s \in Steps, s # 1 PROVE s - 1 \in Steps
BY GateAssumption DEF Steps

LEMMA LaterStep == ASSUME NEW s \in Steps, s # NumSteps PROVE s + 1 \in Steps
BY GateAssumption DEF Steps

(* The steps of the wizard that send nothing.                              *)
LEMMA TypingOK ==
    ASSUME WizardInv,
           \/ TypeForm \/ handleAnalyze \/ AnalysisEnds \/ onComplete
           \/ PressPrev \/ CidrRejected
           \/ \E s \in InputSteps : \E text \in Texts(s) : TypeStep(s, text)
    PROVE  WizardInv'
<1>1. page.at = "new"
      BY DEF TypeForm, ProjectForm, handleAnalyze, AnalyzeButton, IntentAnalysis, AnalysisEnds,
         onComplete, AnalysisResult, PressPrev, PrevButton, StepView, NamingStep, NetworkStep,
         FixedStep, ContainerStep, DatabaseStep, Summary, CidrRejected, TypeStep, OnStep, Phase
<1>2. NewOK(page)
      BY <1>1, OnNew
<1>3. UNCHANGED <<vars, request, project>>
      BY DEF TypeForm, handleAnalyze, AnalysisEnds, onComplete, PressPrev, CidrRejected,
         TypeStep
<1>4. SUFFICES NewOK(page') /\ WaitingOK'
      BY <1>3, WithinOK DEF PageOK
<1> USE <1>2 DEF NewOK, NewPages
<1> USE DEF WizardInv, WaitingOK, ProjectForm, Phase, OnValidate
<1>5. CASE TypeForm
      BY <1>3, <1>5 DEF TypeForm
<1>6. CASE handleAnalyze
      BY <1>3, <1>6 DEF handleAnalyze, AnalyzeButton, IntentAnalysis
<1>7. CASE AnalysisEnds
      BY <1>3, <1>7 DEF AnalysisEnds, IntentAnalysis
<1>8. CASE onComplete
      BY <1>3, <1>8, IdleType DEF onComplete, AnalysisResult, IntentAnalysis
<1>9. CASE PressPrev
  <2>1. CASE PrevButton /\ page' = [page EXCEPT !.step = @ - 1]
    <3>1. page.phase = "wizard" /\ page.step # 1
          BY <2>1 DEF PrevButton, StepView, NamingStep, NetworkStep, FixedStep,
                      ContainerStep, DatabaseStep, OnStep
    <3>2. page.step \in Steps
          OBVIOUS
    <3>3. page.step - 1 \in Steps
          BY <3>1, <3>2, EarlierStep
    <3> QED BY <1>3, <2>1, <3>1, <3>3
  <2>2. CASE Summary /\ page' = [page EXCEPT !.phase = "wizard"]
        BY <1>3, <2>2 DEF Summary
  <2> QED BY <1>9, <2>1, <2>2 DEF PressPrev
<1>10. CASE CidrRejected
      BY <1>3, <1>10 DEF CidrRejected
<1>11. ASSUME NEW s \in InputSteps, NEW text \in Texts(s), TypeStep(s, text)
       PROVE  NewOK(page') /\ WaitingOK'
  <2>1. PICK b \in BOOLEAN, aside \in SUBSET InputSteps :
           page' = [page EXCEPT !.stepConfigs[s] = text, !.cidrError = b, !.aside = aside]
    <3>1. DEFINE b == page.cidrError /\ (s = CidrStep => ~validateCIDR(text))
                 aside == IF page.isSubmitting /\ request.step # s
                          THEN page.aside \cup {s} ELSE page.aside
    <3>2. b \in BOOLEAN /\ aside \in SUBSET InputSteps
          OBVIOUS
    <3>3. page' = [page EXCEPT !.stepConfigs[s] = text, !.cidrError = b, !.aside = aside]
          BY <1>11, Zenon DEF TypeStep
    <3> HIDE DEF b, aside
    <3> QED BY <3>2, <3>3
  <2>2. text \in Configs \cup {Unset, Bad}
        BY DEF Texts
  <2>3. page.phase = "wizard"
        BY <1>11 DEF TypeStep, OnStep
  <2>4. /\ page' \in NewPages /\ page'.phase = page.phase
        /\ page'.isSubmitting = page.isSubmitting
        /\ page'.stepConfigs = [page.stepConfigs EXCEPT ![s] = text]
        BY <2>1, <2>2
  <2>5. NewOK(page')
        BY <2>4
  <2> QED BY <1>3, <2>3, <2>4, <2>5
<1> QED BY <1>5, <1>6, <1>7, <1>8, <1>9, <1>10, <1>11

(* A request is sent by the page that will wait for it. *)
LEMMA SendOK ==
    ASSUME WizardInv, UNCHANGED <<vars, project>>, PageOK(page', ClientIds),
           NEW kind \in {"create", "save", "validate"}, NEW step \in Steps,
           NEW config \in Configs \cup {Unset}, Send(kind, step, config),
           kind = "save" => config \in Configs, WaitingOK'
    PROVE  WizardInv'
<1>1. request' = [kind |-> kind, served |-> FALSE, live |-> TRUE, step |-> step,
                  config |-> config]
      BY DEF Send
<1>2. RequestOK'
      BY <1>1 DEF RequestOK, Requests
<1>3. TypeOK' /\ ClientIds' = ClientIds
      BY DEF WizardInv, TypeOK, vars, ClientIds
<1> QED BY <1>2, <1>3 DEF WizardInv

LEMMA SendingOK ==
    ASSUME WizardInv, handleCreateProject \/ handleSaveStep \/ handleValidate
    PROVE  WizardInv'
<1> USE DEF WaitingOK, Phase, OnValidate
<1>1. CASE handleCreateProject
  <2>1. NewOK(page) /\ page' = [page EXCEPT !.isSubmitting = TRUE]
        /\ page.phase = "project-create"
        BY <1>1, OnNew DEF handleCreateProject, ProjectForm
  <2>2. NewOK(page') /\ page'.at = "new" /\ page'.phase = "project-create"
        BY <2>1 DEF NewOK, NewPages
  <2>3. Send("create", 1, Unset) /\ UNCHANGED <<vars, project>>
        BY <1>1 DEF handleCreateProject
  <2>4. WaitingOK'
        BY <2>2, <2>3 DEF Send, ProjectForm
  <2>5. 1 \in Steps
        BY IdleType
  <2> QED BY <2>2, <2>3, <2>4, <2>5, SendOK DEF PageOK
<1>2. CASE handleSaveStep
  <2>1. page.at = "new" /\ page.phase = "wizard"
        BY <1>2 DEF handleSaveStep, NextButton, StepView, NamingStep, NetworkStep, FixedStep,
                    ContainerStep, DatabaseStep, OnStep
  <2>2. DEFINE b == page.cidrError /\ ~NetworkStep
  <2>3. NewOK(page) /\ page' = [page EXCEPT !.isSubmitting = TRUE, !.cidrError = b]
        BY <1>2, <2>1, OnNew DEF handleSaveStep
  <2>4. b \in BOOLEAN
        BY <2>3 DEF NewOK, NewPages
  <2> HIDE DEF b
  <2>5. NewOK(page') /\ page'.at = "new" /\ page'.phase = "wizard" /\ page'.isSubmitting
        BY <2>1, <2>3, <2>4 DEF NewOK, NewPages
  <2>6. Send("save", page.step, Shown(page.step)) /\ UNCHANGED <<vars, project>>
        BY <1>2 DEF handleSaveStep
  <2>7. page.step \in Steps /\ Shown(page.step) \in Configs
    <3>1. page.step \in Steps
          BY <2>3 DEF NewOK, NewPages
    <3>2. page.step = CidrStep => validateCIDR(Shown(CidrStep))
          BY <1>2, <2>1 DEF handleSaveStep, NetworkStep, OnStep
    <3> QED BY <2>3, <3>1, <3>2, ShownIsAnEntry
  <2>8. WaitingOK'
        BY <2>5, <2>6 DEF Send
  <2> QED BY <2>5, <2>6, <2>7, <2>8, SendOK DEF PageOK
<1>3. CASE handleValidate
  <2>1. page.at = "validate"
        BY <1>3 DEF handleValidate, StartButton, ReapplyFix, RetryButton
  <2>2. ValidateOK(page, ClientIds)
        /\ page' = [page EXCEPT !.isValidating = TRUE, !.error = "none"]
        BY <1>3, <2>1, PageAt DEF handleValidate, WizardInv
  <2>3. ValidateOK(page', ClientIds) /\ page'.at = "validate"
        BY <2>2 DEF ValidateOK, ValidatePages
  <2>4. Send("validate", 1, Unset) /\ UNCHANGED <<vars, project>>
        BY <1>3 DEF handleValidate
  <2>5. WaitingOK'
        BY <2>3, <2>4 DEF Send
  <2>6. 1 \in Steps
        BY IdleType
  <2> QED BY <2>3, <2>4, <2>5, <2>6, SendOK DEF PageOK
<1> QED BY <1>1, <1>2, <1>3

(* What a failed request leaves the page that waits for it with.           *)
LEMMA FailedOK ==
    ASSUME WizardInv, request.live,
           NEW e \in {"TIMEOUT", "other", "manual_edit", "TERRAFORM_ERROR"}
    PROVE  /\ PageOK(Failed(e), ClientIds)
           /\ Failed(e).at = page.at
           /\ page.at = "new" => /\ NewOK(Failed(e)) /\ Failed(e).phase = page.phase
                                 /\ Failed(e).step = page.step
                                 /\ Failed(e).stepConfigs = page.stepConfigs
                                 /\ Failed(e).projectForm = page.projectForm
                                 /\ Failed(e).aside = page.aside
<1>1. page.at \in {"new", "validate"}
      BY DEF WizardInv, WaitingOK, ProjectForm, Phase, OnValidate
<1>2. CASE page.at = "new"
  <2>1. NewOK(page) /\ Failed(e) = [page EXCEPT !.isSubmitting = FALSE]
        BY <1>2, OnNew DEF Failed, OnValidate
  <2> QED BY <2>1 DEF NewOK, NewPages, PageOK
<1>3. CASE page.at = "validate"
  <2>1. ValidateOK(page, ClientIds)
        /\ Failed(e) = [page EXCEPT !.isValidating = FALSE, !.error = e]
        BY <1>3, PageAt DEF WizardInv, Failed, OnValidate
  <2>2. ValidateOK(Failed(e), ClientIds) /\ Failed(e).at = "validate"
        BY <2>1 DEF ValidateOK, ValidatePages
  <2> QED BY <1>3, <2>2 DEF PageOK
<1> QED BY <1>1, <1>2, <1>3

LEMMA RequestFailsOK == ASSUME WizardInv, RequestFails PROVE WizardInv'
<1>1. PICK e \in {"TIMEOUT", "other"} :
         /\ page' = Failed(e) /\ request.live
         /\ request' = [request EXCEPT !.live = FALSE]
         /\ UNCHANGED <<vars, project>>
      BY DEF RequestFails
<1>2. request' \in Requests /\ ~request'.live /\ request'.kind = request.kind
      /\ request'.config = request.config /\ request.kind # "none"
      BY <1>1, NoRequestType DEF WizardInv, RequestOK, Requests
<1>3. RequestOK' /\ WaitingOK'
      BY <1>2 DEF WizardInv, RequestOK, WaitingOK
<1>4. PageOK(page', ClientIds)
      BY <1>1, FailedOK
<1>5. TypeOK' /\ ClientIds' = ClientIds
      BY <1>1 DEF WizardInv, TypeOK, vars, ClientIds
<1> QED BY <1>1, <1>3, <1>4, <1>5 DEF WizardInv

-----------------------------------------------------------------------------
(* The answers                                                             *)

(* An answer ends the request; its page takes it if it still waits.        *)
LEMMA AnswerOK ==
    ASSUME WizardInv, TypeOK', ClientIds \subseteq ClientIds', NEW p, Show(p), Finish,
           request.live => PageOK(p, ClientIds'), project' \in {"none", "exists"}
    PROVE  WizardInv'
<1>1. request' = NoRequest
      BY DEF Finish
<1>2. RequestOK' /\ WaitingOK'
      BY <1>1, NoRequestType DEF RequestOK, WaitingOK
<1>3. PageOK(page', ClientIds')
      BY PageStaysOK DEF WizardInv, Show
<1> QED BY <1>2, <1>3 DEF WizardInv

(* A handler takes the request up. *)
LEMMA ServeOK ==
    ASSUME WizardInv, TypeOK', ClientIds \subseteq ClientIds', Serve,
           request.kind # "none"
    PROVE  WizardInv'
<1>1. request' = [request EXCEPT !.served = TRUE] /\ UNCHANGED <<page, project>>
      BY DEF Serve
<1>2. /\ request' \in Requests /\ request'.live = request.live
      /\ request'.kind = request.kind /\ request'.config = request.config
      BY <1>1 DEF WizardInv, RequestOK, Requests
<1>3. RequestOK'
      BY <1>2 DEF WizardInv, RequestOK
<1>4. WaitingOK'
      BY <1>1, <1>2 DEF WizardInv, WaitingOK, ProjectForm, Phase, OnValidate
<1> QED BY <1>1, <1>3, <1>4, PageStaysOK DEF WizardInv

LEMMA CreateAnswersOK ==
    ASSUME WizardInv, TypeOK', ClientIds \subseteq ClientIds',
           ProjectCreated \/ CreateRefused
    PROVE  WizardInv'
<1>1. CASE ProjectCreated
  <2>1. PICK p : /\ Show(p) /\ Finish /\ project' = "exists"
                 /\ p \in {Away, [page EXCEPT !.isSubmitting = FALSE, !.phase = "step1"]}
        BY <1>1 DEF ProjectCreated
  <2>2. ASSUME request.live PROVE PageOK(p, ClientIds')
    <3>1. page.at = "new"
          BY <1>1, <2>2 DEF ProjectCreated, Asked, WizardInv, WaitingOK, ProjectForm, Phase
    <3>2. NewOK(page)
          BY <3>1, OnNew
    <3>3. NewOK([page EXCEPT !.isSubmitting = FALSE, !.phase = "step1"])
          BY <3>2 DEF NewOK, NewPages
    <3> QED BY <2>1, <3>3 DEF PageOK
  <2> QED BY <2>1, <2>2, AnswerOK
<1>2. CASE CreateRefused
  <2>1. Show(Failed("other")) /\ Finish /\ project' = project
        BY <1>2 DEF CreateRefused
  <2>2. request.live => PageOK(Failed("other"), ClientIds')
        BY FailedOK, PageStaysOK
  <2> QED BY <2>1, <2>2, AnswerOK DEF WizardInv
<1> QED BY <1>1, <1>2

(* The page after a step was saved. *)
LEMMA AfterSaveOK ==
    ASSUME WizardInv, request.live, request.kind = "save",
           NEW done \in SUBSET Steps, NEW p,
           p = [AfterSave(request.step) EXCEPT !.isSubmitting = FALSE,
                                               !.completedSteps = done]
    PROVE  /\ NewOK(p) /\ p.projectForm = page.projectForm
           /\ request.step \in InputSteps => p.stepConfigs[request.step] = request.config
           /\ \A s \in InputSteps \ {request.step} :
                 p.stepConfigs[s] = page.stepConfigs[s]
           /\ p.aside = page.aside \ {request.step}
           /\ IF request.step = NumSteps THEN p.phase = "summary"
              ELSE p.phase = "wizard" /\ p.step = request.step + 1
<1>1. NewOK(page)
      BY OnNew DEF WizardInv, WaitingOK, Phase
<1>2. request.config \in Configs /\ request.step \in Steps
      BY DEF WizardInv, RequestOK, Requests
<1>3. DEFINE configs == [s \in InputSteps |-> IF s = request.step THEN request.config
                                              ELSE page.stepConfigs[s]]
             saved == [page EXCEPT !.stepConfigs = configs, !.aside = @ \ {request.step}]
<1>4. /\ configs \in [InputSteps -> Configs \cup {Unset, Bad}]
      /\ \A s \in InputSteps :
            /\ configs[s] \in Texts(s)
            /\ configs[s] = IF s = request.step THEN request.config
                            ELSE page.stepConfigs[s]
      BY <1>1, <1>2 DEF NewOK, NewPages, Texts
<1>5. AfterSave(request.step) =
         IF request.step = NumSteps THEN [saved EXCEPT !.phase = "summary"]
         ELSE [saved EXCEPT !.phase = "wizard", !.step = request.step + 1]
      BY DEF AfterSave
<1> HIDE DEF configs
<1>6. /\ saved \in NewPages /\ saved.stepConfigs = configs
      /\ saved.projectForm = page.projectForm
      /\ saved.aside = page.aside \ {request.step}
      BY <1>1, <1>4 DEF NewOK, NewPages
<1> HIDE DEF saved
<1>7. CASE request.step = NumSteps
  <2>1. p = [saved EXCEPT !.phase = "summary", !.isSubmitting = FALSE,
                          !.completedSteps = done]
        BY <1>5, <1>7
  <2>2. /\ p \in NewPages /\ p.stepConfigs = configs
        /\ p.projectForm = page.projectForm /\ p.phase = "summary"
        /\ p.aside = page.aside \ {request.step}
        BY <1>6, <2>1 DEF NewPages
  <2> QED BY <1>4, <1>7, <2>2 DEF NewOK
<1>8. CASE request.step # NumSteps
  <2>1. p = [saved EXCEPT !.phase = "wizard", !.step = request.step + 1,
                          !.isSubmitting = FALSE, !.completedSteps = done]
        BY <1>5, <1>8
  <2>2. request.step + 1 \in Steps
        BY <1>2, <1>8, LaterStep
  <2>3. /\ p \in NewPages /\ p.stepConfigs = configs
        /\ p.projectForm = page.projectForm /\ p.phase = "wizard"
        /\ p.aside = page.aside \ {request.step} /\ p.step = request.step + 1
        BY <1>6, <2>1, <2>2 DEF NewPages
  <2> QED BY <1>4, <1>8, <2>3 DEF NewOK
<1> QED BY <1>7, <1>8

LEMMA EndpointsOK ==
    ASSUME WizardInv, TypeOK', ClientIds \subseteq ClientIds', NEW t \in Threads,
           Endpoints(t)
    PROVE  WizardInv'
<1>1. CASE ServeSave(t) \/ ServeValidate(t)
      BY <1>1, ServeOK DEF ServeSave, ServeValidate, Asked
<1>2. CASE SaveRefused(t) \/ ValidateRefused(t)
  <2>1. Show(Failed("other")) /\ Finish /\ project' = project
        BY <1>2 DEF SaveRefused, ValidateRefused
  <2>2. request.live => PageOK(Failed("other"), ClientIds')
        BY FailedOK, PageStaysOK
  <2> QED BY <2>1, <2>2, AnswerOK DEF WizardInv
<1>3. CASE SaveAnswered(t)
  <2>1. DEFINE done == completed_steps(config_snapshot'[thread[t].row])
               p == [AfterSave(request.step) EXCEPT !.isSubmitting = FALSE,
                                                    !.completedSteps = done]
  <2>2. request.kind = "save" /\ Show(p) /\ Finish /\ project' = project
        BY <1>3 DEF SaveAnswered, Serving
  <2>3. done \in SUBSET Steps
        BY DEF completed_steps
  <2> HIDE DEF done
  <2>4. request.live => PageOK(p, ClientIds')
        BY <2>2, <2>3, AfterSaveOK DEF PageOK
  <2> HIDE DEF p
  <2> QED BY <2>2, <2>4, AnswerOK DEF WizardInv
<1>4. CASE ValidateAnswered(t)
  <2>0. request.kind = "validate" /\ Finish /\ project' = project
        BY <1>4 DEF ValidateAnswered, Serving
  <2>1. ASSUME NEW id \in ValidationIds, ValidatePass(t, id),
               Show([page EXCEPT !.isValidating = FALSE, !.result = id])
        PROVE  WizardInv'
    <3>1. id \in ClientIds'
      <4>1. PICK scan : scan.id = id /\ scans' = scans \cup {scan}
            BY <2>1 DEF ValidatePass
      <4> QED BY <4>1 DEF ClientIds
    <3>2. ASSUME request.live
          PROVE  PageOK([page EXCEPT !.isValidating = FALSE, !.result = id], ClientIds')
      <4>1. ValidateOK(page, ClientIds)
            BY <2>0, <3>2, PageAt DEF WizardInv, WaitingOK, OnValidate
      <4> QED BY <3>1, <4>1 DEF ValidateOK, ValidatePages, PageOK
    <3>3. PICK p : /\ p = [page EXCEPT !.isValidating = FALSE, !.result = id]
                   /\ Show(p)
          BY <2>1
    <3> QED BY <2>0, <3>2, <3>3, AnswerOK DEF WizardInv
  <2>2. ASSUME NEW e \in {"manual_edit", "TERRAFORM_ERROR", "other"}, Show(Failed(e))
        PROVE  WizardInv'
    <3>1. request.live => PageOK(Failed(e), ClientIds')
          BY FailedOK, PageStaysOK
    <3> QED BY <2>0, <2>2, <3>1, AnswerOK DEF WizardInv
  <2> QED BY <1>4, <2>1, <2>2 DEF ValidateAnswered
<1>5. CASE UNCHANGED wizard
  <2>1. RequestOK' /\ WaitingOK'
        BY <1>5 DEF wizard, WizardInv, RequestOK, WaitingOK, ProjectForm, Phase, OnValidate
  <2> QED BY <1>5, <2>1, PageStaysOK DEF wizard, WizardInv
<1> QED BY <1>1, <1>2, <1>3, <1>4, <1>5 DEF Endpoints, handleDeploy, Backend

LEMMA WizardInductive ==
    ASSUME WizardInv, [WizardNext]_wvars PROVE WizardInv'
<1>1. [Next]_vars
      BY WizardStepsGate
<1>2. TypeOK' /\ ClientIds \subseteq ClientIds'
      BY <1>1, TypeInductive, ClientIdsGrow DEF WizardInv
<1>3. CASE Navigate
      BY <1>3, NavigateOK
<1>4. CASE Pages
      BY <1>4, TypingOK, SendingOK, RequestFailsOK DEF Pages
<1>5. CASE ProjectCreated \/ CreateRefused
      BY <1>2, <1>5, CreateAnswersOK
<1>6. CASE UNCHANGED wizard
  <2>1. RequestOK' /\ WaitingOK'
        BY <1>6 DEF wizard, WizardInv, RequestOK, WaitingOK, ProjectForm, Phase, OnValidate
  <2> QED BY <1>2, <1>6, <2>1, PageStaysOK DEF wizard, WizardInv
<1>7. ASSUME NEW t \in Threads, Endpoints(t) PROVE WizardInv'
      BY <1>2, <1>7, EndpointsOK
<1> QED BY <1>3, <1>4, <1>5, <1>6, <1>7 DEF WizardNext, Callback, wvars, wizard

LEMMA WizardInvariant == WizardSpec => []WizardInv
<1>1. WizardInit => WizardInv
  <2> SUFFICES ASSUME WizardInit PROVE WizardInv
      OBVIOUS
  <2>1. TypeOK
        BY InitType DEF WizardInit
  <2> QED BY <2>1, NoRequestType
          DEF WizardInit, WizardInv, PageOK, RequestOK, WaitingOK
<1> QED BY <1>1, WizardInductive, PTL DEF WizardSpec

(* Pages and request keep their shape, and every id a page holds is one the
   backend has handed out.                                                 *)
THEOREM WizardTypeCorrect == WizardSpec => []WizardTypeOK
<1>1. WizardInv => WizardTypeOK
      BY DEF WizardInv, WizardTypeOK, PageOK, NewOK, ValidateOK, DeployOK, RequestOK
<1> QED BY <1>1, WizardInvariant, PTL

(* The pages implement the clients that CraftGate allows: whatever the user
   does, loses or leaves behind, the backend sees a behaviour of CraftGate, so
   that each of its theorems holds behind the pages.                       *)
THEOREM WizardImplementsGate == WizardSpec => Spec
<1>1. WizardInit => Init
      BY DEF WizardInit
<1>2. WizardInv /\ [WizardNext]_wvars => [Next]_vars
      BY WizardStepsGate
<1> QED BY <1>1, <1>2, WizardInvariant, PTL DEF WizardSpec, Spec

-----------------------------------------------------------------------------
(* The saves of a tab do not meet                                          *)

(* Only the thread that serves the tab's request saves, and there is one.  *)
TabSaves ==
    \A t \in Threads : Saving(t) =>
        /\ request.kind = "save" /\ request.served
        /\ \A s \in Threads : Saving(s) => s = t

NoneMet == raced.saves = {}

TabInv == TabSaves /\ NoneMet

(* Steps that start no save and leave the request in hand.                 *)
LEMMA NoSaveStarts ==
    ASSUME TabInv, \A t \in Threads : Saving(t)' => Saving(t), raced'.saves = raced.saves,
           (\E t \in Threads : Saving(t)') => request'.kind = "save" /\ request'.served
    PROVE  TabInv'
BY DEF TabInv, TabSaves, NoneMet

(* The steps of the tab alone.                                             *)
LEMMA PageKeepsTab ==
    ASSUME WizardInv, TabInv,
           Navigate \/ Pages \/ ProjectCreated \/ CreateRefused \/ UNCHANGED wvars
    PROVE  TabInv'
<1>1. UNCHANGED vars
      BY DEF Navigate, OpenByAddress, ExitWizard, GoToValidation, EditSettings, GoToDeploy,
             Open, Pages, TypeForm, handleCreateProject, handleAnalyze, AnalysisEnds,
             onComplete, PressPrev, handleSaveStep, CidrRejected, handleValidate,
             RequestFails, TypeStep, ProjectCreated, CreateRefused, wvars
<1>2. request.kind = "save" /\ request.served =>
          request'.kind = "save" /\ request'.served
  <2> SUFFICES ASSUME request.kind = "save", request.served
               PROVE  request'.kind = "save" /\ request'.served
      OBVIOUS
  <2>1. request \in Requests /\ request # NoRequest
        BY NoRequestType DEF WizardInv, RequestOK
  <2>2. request' = request \/ request' = [request EXCEPT !.live = FALSE]
        BY <2>1 DEF Navigate, OpenByAddress, ExitWizard, GoToValidation, EditSettings,
             GoToDeploy, Open, Pages, TypeForm, handleCreateProject, handleAnalyze,
             AnalysisEnds, onComplete, PressPrev, handleSaveStep, CidrRejected,
             handleValidate, RequestFails, TypeStep, ProjectCreated, CreateRefused,
             Asked, Send, wvars, wizard
  <2> QED BY <2>1, <2>2 DEF Requests
<1>3. UNCHANGED <<thread, raced>>
      BY <1>1 DEF vars
<1> QED BY <1>2, <1>3, NoSaveStarts DEF TabInv, TabSaves, Saving

(* A request is served only once, so no other save is under way when one
   begins.                                                                 *)
LEMMA SaveBeginsAlone ==
    ASSUME WizardInv, TabInv, RowsExist, NEW t \in Threads, ServeSave(t) PROVE TabInv'
<1>1. /\ request.kind = "save" /\ ~request.served
      /\ request' = [request EXCEPT !.served = TRUE]
      BY DEF ServeSave, Asked, Serve
<1>2. request'.kind = "save" /\ request'.served
      BY <1>1 DEF WizardInv, RequestOK, Requests
<1>3. \A s \in Threads : ~Saving(s)
      BY <1>1 DEF TabInv, TabSaves
<1>4. \A d \in Deployments : Met(d, Saves(d)) = {}
      BY <1>3 DEF Met, Saves, Saving
<1>5. /\ \A e \in Threads \ {t} : thread'[e] = thread[e]
      /\ raced'.saves = raced.saves
  <2>1. ASSUME NEW d \in Deployments, SaveRead(t, d, request.step, request.config)
        PROVE  /\ \A e \in Threads \ {t} : thread'[e] = thread[e]
               /\ raced'.saves = raced.saves
    <3>1. \A e \in Threads \ {t} : thread'[e] = thread[e]
          BY <2>1 DEF SaveRead, Goto, WizardInv, TypeOK
    <3>2. raced' = [raced EXCEPT !.saves = @ \cup Met(d, Saves(d))]
          BY <2>1 DEF SaveRead
    <3> QED BY <1>4, <3>1, <3>2, MarkType DEF WizardInv
  <2>2. ASSUME NEW d \in Deployments, SaveReadNoDraft(t, d, request.config)
        PROVE  /\ \A e \in Threads \ {t} : thread'[e] = thread[e]
               /\ raced'.saves = raced.saves
        BY <2>2 DEF SaveReadNoDraft, Goto, WizardInv, TypeOK
  <2> QED BY <2>1, <2>2 DEF ServeSave
<1> QED BY <1>2, <1>3, <1>5 DEF TabInv, TabSaves, NoneMet, Saving

(* The other steps of a request.                                           *)
LEMMA EndpointsKeepTab ==
    ASSUME WizardInv, TabInv, RowsExist, NEW t \in Threads, Endpoints(t) PROVE TabInv'
<1> USE DEF WizardInv
<1>1. CASE ServeSave(t)
      BY <1>1, SaveBeginsAlone
<1>2. CASE SaveRefused(t) \/ ValidateRefused(t)
  <2>1. /\ request.kind = "save" => ~request.served
        /\ UNCHANGED vars
        BY <1>2 DEF SaveRefused, ValidateRefused, Asked
  <2>2. UNCHANGED <<thread, raced>>
        BY <2>1 DEF vars
  <2> QED BY <2>1, <2>2, NoSaveStarts DEF TabInv, TabSaves, Saving
<1>3. CASE SaveAnswered(t)
  <2>1. SaveWrite(t) /\ Saving(t)
        BY <1>3 DEF SaveAnswered, SaveWrite, Saving, Busy
  <2>2. Proceeds(t)
        BY <2>1, SaveProceeds
  <2>3. thread'[t].pc = "idle"
        BY <2>1, IdleType DEF SaveWrite, Return, Goto, TypeOK
  <2>4. \A s \in Threads : ~Saving(s)'
        BY <2>1, <2>2, <2>3 DEF Proceeds, TabInv, TabSaves, Saving
  <2> QED BY <2>2, <2>4, NoSaveStarts DEF Proceeds
<1>4. CASE ServeValidate(t) \/ ValidateAnswered(t)
  <2>1. validate(t) /\ request.kind = "validate"
        BY <1>4 DEF ServeValidate, ValidateAnswered, validate, Asked, Serving
  <2>2. Proceeds(t)
        BY <2>1, ValidateProceeds
  <2>3. \A s \in Threads : ~Saving(s)
        BY <2>1 DEF TabInv, TabSaves
  <2>4. \A s \in Threads : ~Saving(s)'
        BY <2>2, <2>3 DEF Proceeds, Saving
  <2> QED BY <2>2, <2>4, NoSaveStarts DEF Proceeds
<1>5. CASE create_initial_deployment(t) /\ UNCHANGED wizard
  <2>1. /\ thread[t].pc = "save_create" /\ raced' = raced /\ request' = request
        /\ \A e \in Threads \ {t} : thread'[e] = thread[e]
        BY <1>5 DEF create_initial_deployment, Busy, Goto, wizard, TypeOK
  <2> QED BY <2>1, NoSaveStarts DEF TabInv, TabSaves, Saving
<1>6. CASE (handleDeploy(t) \/ Backend(t)) /\ ~create_initial_deployment(t)
  <2>1. (deploy(t) \/ SaveRefresh(t)) /\ request' = request
    <3>1. CASE handleDeploy(t)
      <4>1. page.validationId \in ClientIds
            BY <3>1, PageAt DEF handleDeploy, DeployOK
      <4>2. deploy(t)
            BY <3>1, <4>1 DEF handleDeploy, deploy
      <4> QED BY <3>1, <4>2 DEF handleDeploy, wizard
    <3>2. CASE Backend(t)
          BY <1>6, <3>2 DEF Backend, deploy, wizard
    <3> QED BY <1>6, <3>1, <3>2
  <2>2. Proceeds(t)
        BY <2>1, SaveProceeds, DeployProceeds
  <2>3. \A s \in Threads : Saving(s)' => Saving(s)
        BY <2>2, IdleType DEF Proceeds, Saving
  <2> QED BY <2>1, <2>2, <2>3, NoSaveStarts DEF Proceeds, TabInv, TabSaves
<1> QED BY <1>1, <1>2, <1>3, <1>4, <1>5, <1>6 DEF Endpoints, handleDeploy, Backend

LEMMA TabInductive == ASSUME WizardInv, TabInv, RowsExist, [WizardNext]_wvars PROVE TabInv'
<1>1. CASE Callback
  <2>1. UNCHANGED <<thread, raced, request>>
        BY <1>1 DEF Callback, deployment_complete_callback, wizard
  <2> QED BY <2>1, NoSaveStarts DEF TabInv, TabSaves, Saving
<1> QED BY <1>1, PageKeepsTab, EndpointsKeepTab DEF WizardNext

(* So nothing that a tab does loses a saved step or deploys an incomplete
   configuration, however many threads serve it: the saves of a tab do not
   meet, also when one whose answer was given up on is still under way.    *)
THEOREM TabsLoseNoStep ==
    WizardSpec => SavesAccumulate /\ []DeployedHclIsComplete /\ []NoneMet
<1>1. WizardInit => TabInv
  <2> SUFFICES ASSUME WizardInit PROVE TabInv
      OBVIOUS
  <2>1. NoneMet
        BY DEF WizardInit, Init, NoneMet
  <2>2. thread = [t \in Threads |-> Idle]
        BY DEF WizardInit, Init
  <2>3. \A t \in Threads : ~Saving(t)
        BY <2>2, IdleType DEF Saving
  <2> QED BY <2>1, <2>3 DEF TabInv, TabSaves
<1>2. WizardInv /\ TabInv /\ SaveInv /\ [WizardNext]_wvars => TabInv'
      BY TabInductive DEF SaveInv
<1>3. TabInv => NoneMet
      BY DEF TabInv
<1>4. WizardSpec => [](TypeOK /\ PrefixInv /\ GateInv /\ SaveInv)
      BY WizardImplementsGate, SavesAlways
<1>5. WizardSpec => SavesAccumulate /\ []DeployedHclIsComplete
      BY WizardImplementsGate, StepsAreNotLost, UploadsAreComplete
<1> QED BY <1>1, <1>2, <1>3, <1>4, <1>5, WizardInvariant, PTL DEF WizardSpec

-----------------------------------------------------------------------------
(* The summary, with requests served one at a time                         *)

OneAtATime == \A s, t \in Threads : s = t

(* The page shows step s as done: it lies before the step it is at, or will
   after the save it waits for.                                            *)
Behind(s) ==
    \/ Summary
    \/ /\ Phase("wizard")
       /\ \/ s < page.step
          \/ request.live /\ request.kind = "save" /\ s < request.step

(* The draft holds what the page shows, or the field was typed into while
   another step was being saved.                                           *)
Clean(d, s) ==
    config_snapshot[d][s] \in {Shown(s)} \cup IF s \in page.aside THEN Configs ELSE {}

BehindIsSaved ==
    (\E s \in Steps : Behind(s)) =>
        \E d \in Deployments :
            LatestDraft(d) /\ \A s \in Steps : Behind(s) => Clean(d, s)

(* What is under way serves the tab's request, and keeps the draft.        *)
ServesTab(t) ==
    /\ thread[t].pc = "save_create" => Drafts = {} /\ status[thread[t].row] = "absent"
    /\ thread[t].pc \in {"save_refresh", "save_write"} => LatestDraft(thread[t].row)
    /\ thread[t].pc \in {"save_create", "save_refresh", "save_write"} =>
          /\ request.kind = "save" /\ request.served
          /\ thread[t].step = request.step /\ thread[t].config = request.config
    /\ Deploying(t) => \A s \in Steps : ~Behind(s)
    /\ thread[t].pc = "deploy_spawn" => status[thread[t].row] \notin {"absent", "created"}

(* A row with a task is no draft any more. *)
TasksLeftDraft == \A d \in Deployments : tasks[d] > 0 => status[d] \notin {"absent", "created"}

(* The wizard never runs ahead of the step that is being saved.            *)
SaveIsNotBehind ==
    /\ request.kind = "save" /\ page.at = "new" =>
          page.phase # "summary" /\ page.step <= request.step
    /\ request.kind = "save" /\ request.live /\ request.step \notin InputSteps =>
          request.config = Shown(request.step)

SummaryInv ==
    /\ BehindIsSaved
    /\ \A t \in Threads : ServesTab(t)
    /\ TasksLeftDraft
    /\ SaveIsNotBehind

(* What the page shows of a step keeps being what the draft holds.         *)
PageKeeps ==
    \A s \in Steps : Behind(s)' =>
        Behind(s) /\ \A d \in Deployments : Clean(d, s) => Clean(d, s)'

LEMMA DraftStaysShown ==
    ASSUME BehindIsSaved, PageKeeps, Drafts' = Drafts PROVE BehindIsSaved'
<1> SUFFICES ASSUME \E s \in Steps : Behind(s)'
             PROVE  \E d \in Deployments :
                        LatestDraft(d)' /\ \A s \in Steps : Behind(s)' => Clean(d, s)'
    BY Zenon DEF BehindIsSaved
<1>1. \E s \in Steps : Behind(s)
      BY DEF PageKeeps
<1>2. PICK d \in Deployments :
         LatestDraft(d) /\ \A s \in Steps : Behind(s) => Clean(d, s)
      BY <1>1 DEF BehindIsSaved
<1>3. LatestDraft(d)'
      BY <1>2 DEF LatestDraft
<1>4. ASSUME NEW s \in Steps, Behind(s)' PROVE Clean(d, s)'
      BY <1>2, <1>4 DEF PageKeeps
<1> QED BY <1>3, <1>4

(* The fields in which the page tells what it shows.                       *)
SamePage ==
    /\ page'.at = "new" => page.at = "new"
    /\ page'.at = "new" =>
          /\ page'.phase = page.phase /\ page'.step = page.step
          /\ page'.projectForm = page.projectForm
          /\ page'.stepConfigs = page.stepConfigs
          /\ page'.aside = page.aside

LEMMA SamePageKeeps ==
    ASSUME SamePage, UNCHANGED config_snapshot,
           request'.live => request.live /\ UNCHANGED <<request.kind, request.step>>
    PROVE  PageKeeps
<1> SUFFICES ASSUME NEW s \in Steps, Behind(s)'
             PROVE  Behind(s) /\ \A d \in Deployments : Clean(d, s) => Clean(d, s)'
    BY DEF PageKeeps
<1>1. page'.at = "new" /\ page.at = "new"
      BY DEF SamePage, Behind, Summary, Phase
<1>2. /\ page'.phase = page.phase /\ page'.step = page.step
      /\ page'.projectForm = page.projectForm
      /\ page'.stepConfigs = page.stepConfigs /\ page'.aside = page.aside
      BY <1>1 DEF SamePage
<1>3. Behind(s)
      BY <1>1, <1>2 DEF Behind, Summary, Phase
<1>4. Shown(s)' = Shown(s)
      BY <1>2 DEF Shown
<1>5. \A d \in Deployments : Clean(d, s) => Clean(d, s)'
      BY <1>2, <1>4 DEF Clean
<1> QED BY <1>3, <1>5

(* A page on which no step counts as done.                                 *)
LEMMA NothingBehind ==
    ASSUME page'.at = "new" => page'.phase \notin {"wizard", "summary"}
    PROVE  PageKeeps /\ \A s \in Steps : ~Behind(s)'
<1>1. \A s \in Steps : ~Behind(s)'
      BY DEF Behind, Summary, Phase
<1> QED BY <1>1 DEF PageKeeps

-----------------------------------------------------------------------------
(* Steps of the page, while the backend rests                              *)

(* A request that a thread works on keeps what it asked for.               *)
RequestKept ==
    request.kind = "save" /\ request.served =>
        /\ request'.kind = "save" /\ request'.served
        /\ UNCHANGED <<request.step, request.config>>

LEMMA RestingOK ==
    ASSUME SummaryInv, UNCHANGED vars, RequestKept, PageKeeps, SaveIsNotBehind'
    PROVE  SummaryInv'
<1>1. UNCHANGED <<status, config_snapshot, tasks, thread>>
      BY DEF vars
<1>2. Drafts' = Drafts /\ \A d \in Deployments : LatestDraft(d)' = LatestDraft(d)
      BY <1>1 DEF Drafts, LatestDraft
<1>3. BehindIsSaved'
      BY <1>2, DraftStaysShown DEF SummaryInv
<1>4. ASSUME NEW t \in Threads PROVE ServesTab(t)'
  <2>1. thread[t].pc = "save_create" => Drafts' = {} /\ status'[thread'[t].row] = "absent"
        BY <1>1, <1>2 DEF SummaryInv, ServesTab
  <2>2. thread[t].pc \in {"save_refresh", "save_write"} => LatestDraft(thread[t].row)'
        BY <1>1, <1>2 DEF SummaryInv, ServesTab, LatestDraft
  <2>3. thread[t].pc \in {"save_create", "save_refresh", "save_write"} =>
          /\ request'.kind = "save" /\ request'.served
          /\ thread[t].step = request'.step /\ thread[t].config = request'.config
        BY DEF SummaryInv, ServesTab, RequestKept
  <2>4. Deploying(t) => \A s \in Steps : ~Behind(s)'
        BY DEF SummaryInv, ServesTab, PageKeeps
  <2>5. thread[t].pc = "deploy_spawn" => status[thread[t].row] \notin {"absent", "created"}
        BY DEF SummaryInv, ServesTab
  <2> QED BY <1>1, <2>1, <2>2, <2>3, <2>4, <2>5 DEF ServesTab, Deploying
<1>5. TasksLeftDraft'
      BY <1>1 DEF SummaryInv, TasksLeftDraft
<1> QED BY <1>3, <1>4, <1>5 DEF SummaryInv

LEMMA OpenKeepsSummary ==
    ASSUME WizardInv, SummaryInv, NEW p, Open(p), p.at = "new" =>
              p.phase \in {"project-create", "step1"} /\ p.step = 1
    PROVE  SummaryInv'
<1>1. /\ page' = p /\ UNCHANGED vars /\ request' = [request EXCEPT !.live = FALSE]
      BY DEF Open
<1>2. /\ request'.kind = request.kind /\ request'.served = request.served
      /\ ~request'.live /\ request'.step = request.step
      /\ request'.config = request.config /\ request.step \in Steps
      BY <1>1 DEF WizardInv, RequestOK, Requests
<1>3. PageKeeps
      BY <1>1, NothingBehind
<1>4. SaveIsNotBehind'
      BY <1>1, <1>2, GateAssumption DEF SaveIsNotBehind, Steps
<1> QED BY <1>1, <1>2, <1>3, <1>4, RestingOK DEF RequestKept

LEMMA NavigateKeepsSummary == ASSUME WizardInv, SummaryInv, Navigate PROVE SummaryInv'
<1>1. \E p \in {Away, NewProjectPage(TRUE), NewProjectPage(FALSE), ValidatePage,
               DeployPage(NoId), DeployPage(page.result)} : Open(p)
      BY DEF Navigate, OpenByAddress, ExitWizard, GoToValidation, EditSettings, GoToDeploy
<1>2. \A b \in BOOLEAN : NewProjectPage(b).phase \in {"project-create", "step1"}
                            /\ NewProjectPage(b).step = 1
      BY DEF NewProjectPage
<1>3. /\ Away.at # "new" /\ ValidatePage.at # "new"
      /\ \A id : DeployPage(id).at # "new"
      BY DEF Away, ValidatePage, DeployPage
<1> QED BY <1>1, <1>2, <1>3, OpenKeepsSummary

(* A page that is not in the wizard has nothing to lose.                   *)
LEMMA OutsideWizard ==
    ASSUME WizardInv, request.live, request.kind = "save" PROVE Phase("wizard")
BY DEF WizardInv, WaitingOK

(* The steps of the wizard that send nothing.                              *)
LEMMA TypingKeepsSummary ==
    ASSUME WizardInv, SummaryInv,
           \/ TypeForm \/ handleAnalyze \/ AnalysisEnds \/ onComplete
           \/ PressPrev \/ CidrRejected
    PROVE  SummaryInv'
<1>1. page.at = "new"
      BY DEF TypeForm, ProjectForm, handleAnalyze, AnalyzeButton, IntentAnalysis, AnalysisEnds,
         onComplete, AnalysisResult, PressPrev, PrevButton, StepView, NamingStep, NetworkStep,
         FixedStep, ContainerStep, DatabaseStep, Summary, CidrRejected, OnStep, Phase
<1>2. NewOK(page)
      BY <1>1, OnNew
<1>3. UNCHANGED <<vars, request>> /\ UNCHANGED config_snapshot
      BY DEF TypeForm, handleAnalyze, AnalysisEnds, onComplete, PressPrev, CidrRejected, vars
<1>4. RequestKept
      BY <1>3 DEF RequestKept
<1>5. request.step \in Steps /\ page.step \in Steps
      BY <1>2 DEF WizardInv, RequestOK, Requests, NewOK, NewPages
<1>6. SUFFICES PageKeeps /\ SaveIsNotBehind'
      BY <1>3, <1>4, RestingOK
<1> USE <1>2 DEF NewOK, NewPages
<1>7. CASE TypeForm
  <2>1. /\ page'.at = "new" /\ page'.phase = "project-create" /\ page'.step = page.step
        /\ page.phase = "project-create"
        BY <1>7 DEF TypeForm, ProjectForm, Phase
  <2>2. ~(request.kind = "save" /\ request.live)
        BY <2>1, OutsideWizard DEF Phase
  <2>3. SaveIsNotBehind'
        BY <1>1, <1>3, <2>1, <2>2 DEF SummaryInv, SaveIsNotBehind
  <2> QED BY <2>1, <2>3, NothingBehind
<1>8. CASE handleAnalyze \/ AnalysisEnds \/ CidrRejected
  <2>1. /\ page'.at = "new" /\ page'.phase = page.phase /\ page'.step = page.step
        /\ page'.projectForm = page.projectForm /\ page'.stepConfigs = page.stepConfigs
        /\ page'.aside = page.aside
        BY <1>1, <1>8 DEF handleAnalyze, AnalysisEnds, CidrRejected
  <2>2. SamePage /\ Shown(request.step)' = Shown(request.step)
        BY <1>1, <1>3, <2>1 DEF SamePage, Shown
  <2>3. SaveIsNotBehind'
        BY <1>1, <1>3, <2>1, <2>2 DEF SummaryInv, SaveIsNotBehind, Shown
  <2> QED BY <1>3, <2>2, <2>3, SamePageKeeps
<1>9. CASE onComplete
  <2>1. /\ page'.at = "new" /\ page'.phase = "wizard" /\ page'.step = 1
        /\ page.phase = "step1"
        BY <1>9 DEF onComplete, AnalysisResult, IntentAnalysis, Phase
  <2>2. ~(request.kind = "save" /\ request.live)
        BY <2>1, OutsideWizard DEF Phase
  <2>3. \A s \in Steps : ~Behind(s)'
        BY <1>3, <2>1, <2>2, GateAssumption DEF Behind, Summary, Phase, Steps
  <2>4. SaveIsNotBehind'
        BY <1>3, <1>5, <2>1, <2>2, GateAssumption DEF SaveIsNotBehind, Steps
  <2> QED BY <2>3, <2>4 DEF PageKeeps
<1>10. CASE PressPrev
  <2>1. /\ page'.at = "new" /\ page'.projectForm = page.projectForm
        /\ page'.stepConfigs = page.stepConfigs /\ page'.aside = page.aside
        BY <1>1, <1>10 DEF PressPrev
  <2>2. Shown(request.step)' = Shown(request.step)
        /\ \A s \in Steps : Shown(s)' = Shown(s)
        BY <1>3, <2>1 DEF Shown
  <2>3. ASSUME NEW s \in Steps, NEW d \in Deployments, Clean(d, s) PROVE Clean(d, s)'
        BY <1>3, <2>1, <2>2, <2>3 DEF Clean
  <2>4. CASE PrevButton /\ page' = [page EXCEPT !.step = @ - 1]
    <3>1. page.phase = "wizard" /\ page'.phase = "wizard" /\ page'.step = page.step - 1
          BY <2>4 DEF PrevButton, StepView, NamingStep, NetworkStep, FixedStep,
                      ContainerStep, DatabaseStep, OnStep, Phase
    <3>2. \A s \in Steps : Behind(s)' => Behind(s)
          BY <1>1, <1>3, <1>5, <2>1, <3>1, GateAssumption DEF Behind, Summary, Phase, Steps
    <3>3. SaveIsNotBehind'
          BY <1>1, <1>3, <1>5, <2>1, <2>2, <3>1, GateAssumption
             DEF SummaryInv, SaveIsNotBehind, Steps
    <3> QED BY <2>3, <3>2, <3>3 DEF PageKeeps
  <2>5. CASE Summary /\ page' = [page EXCEPT !.phase = "wizard"]
    <3>1. request.kind # "save"
          BY <2>5 DEF Summary, Phase, SummaryInv, SaveIsNotBehind
    <3>2. \A s \in Steps : Behind(s)
          BY <2>5 DEF Behind
    <3>3. SaveIsNotBehind'
          BY <1>3, <3>1 DEF SaveIsNotBehind
    <3> QED BY <2>3, <3>2, <3>3 DEF PageKeeps
  <2> QED BY <1>10, <2>4, <2>5 DEF PressPrev
<1> QED BY <1>7, <1>8, <1>9, <1>10

(* What is typed while another step is saved is put aside; what is typed into
   the step that the page is at is not behind.                             *)
LEMMA TypeStepKeepsSummary ==
    ASSUME WizardInv, SummaryInv, NEW s \in InputSteps, NEW text \in Texts(s),
           TypeStep(s, text)
    PROVE  SummaryInv'
<1>1. page.at = "new" /\ page.phase = "wizard" /\ page.step = s
      BY DEF TypeStep, OnStep, Phase
<1>2. NewOK(page)
      BY <1>1, OnNew
<1>3. UNCHANGED <<vars, request>> /\ UNCHANGED config_snapshot
      BY DEF TypeStep, vars
<1>4. DEFINE aside == IF page.isSubmitting /\ request.step # s
                      THEN page.aside \cup {s} ELSE page.aside
<1>5. PICK b \in BOOLEAN :
         page' = [page EXCEPT !.stepConfigs[s] = text, !.cidrError = b, !.aside = aside]
  <2>1. DEFINE c == page.cidrError /\ (s = CidrStep => ~validateCIDR(text))
  <2>2. c \in BOOLEAN
        BY <1>2 DEF NewOK, NewPages
  <2>3. page' = [page EXCEPT !.stepConfigs[s] = text, !.cidrError = c, !.aside = aside]
        BY Zenon DEF TypeStep
  <2> HIDE DEF c
  <2> QED BY <2>2, <2>3
<1> HIDE DEF aside
<1>6. /\ page'.at = "new" /\ page'.phase = "wizard" /\ page'.step = s
      /\ page'.projectForm = page.projectForm /\ page'.aside = aside
      /\ page'.stepConfigs = [page.stepConfigs EXCEPT ![s] = text]
      BY <1>1, <1>2, <1>5 DEF NewOK, NewPages
<1>7. /\ \A x \in InputSteps \ {s} : page'.stepConfigs[x] = page.stepConfigs[x]
      /\ s # 1 /\ s \in Steps /\ request.step \in Steps /\ page.aside \subseteq aside
      BY <1>2, <1>6, WizardAssumption
         DEF NewOK, NewPages, WizardInv, RequestOK, Requests, aside
<1>8. \A x \in Steps \ {s} : Shown(x)' = Shown(x)
      BY <1>6, <1>7 DEF Shown
<1>9. \A x \in Steps : Behind(x)' => Behind(x)
      BY <1>1, <1>3, <1>6 DEF Behind, Summary, Phase
<1>10. ASSUME NEW x \in Steps, Behind(x), NEW d \in Deployments, Clean(d, x)
       PROVE  Clean(d, x)'
  <2>1. CASE x # s
        BY <1>3, <1>6, <1>7, <1>8, <1>10, <2>1 DEF Clean
  <2>2. CASE x = s
    <3>1. request.live /\ request.kind = "save" /\ s < request.step
          BY <1>1, <1>7, <1>10, <2>2, GateAssumption DEF Behind, Summary, Phase, Steps
    <3>2. page.isSubmitting /\ request.step # s
          BY <1>1, <1>7, <3>1, GateAssumption
             DEF WizardInv, WaitingOK, Phase, OnValidate, Steps
    <3>3. s \in aside
          BY <3>2 DEF aside
    <3>4. config_snapshot[d][s] \in Configs \cup {Unset}
          BY <1>7 DEF WizardInv, TypeOK, Snapshots
    <3>5. Shown(s) \in Configs \cup {Bad}
          BY <1>2, <1>7, ShownIsAnEntry
    <3>6. config_snapshot[d][s] \in Configs
          BY <1>10, <2>2, <3>4, <3>5, WizardAssumption, GateAssumption DEF Clean
    <3> QED BY <1>3, <1>6, <2>2, <3>3, <3>6 DEF Clean
  <2> QED BY <2>1, <2>2
<1>11. PageKeeps
       BY <1>9, <1>10 DEF PageKeeps
<1>12. SaveIsNotBehind'
  <2>1. ASSUME request.step \notin InputSteps PROVE Shown(request.step)' = Shown(request.step)
        BY <1>3, <1>6, <2>1 DEF Shown
  <2> QED BY <1>1, <1>3, <1>6, <2>1 DEF SummaryInv, SaveIsNotBehind
<1>13. RequestKept
       BY <1>3 DEF RequestKept
<1> QED BY <1>3, <1>11, <1>12, <1>13, RestingOK

(* Sending a request, and giving it up.                                    *)
LEMMA SendingKeepsSummary ==
    ASSUME WizardInv, SummaryInv,
           handleCreateProject \/ handleSaveStep \/ handleValidate
    PROVE  SummaryInv'
<1>1. /\ UNCHANGED vars /\ request = NoRequest
      /\ \E kind \in {"create", "save", "validate"} :
            \E step, config : Send(kind, step, config)
      BY DEF handleCreateProject, handleSaveStep, handleValidate, Send
<1>2. RequestKept
      BY <1>1, NoRequestType DEF RequestKept
<1>3. SUFFICES PageKeeps /\ SaveIsNotBehind'
      BY <1>1, <1>2, RestingOK
<1>4. CASE handleCreateProject
  <2>1. /\ page.at = "new" /\ page.phase = "project-create" /\ request'.kind = "create"
        /\ page' = [page EXCEPT !.isSubmitting = TRUE]
        BY <1>4 DEF handleCreateProject, ProjectForm, Phase, Send
  <2>2. page'.phase = "project-create"
        BY <2>1, OnNew DEF NewOK, NewPages
  <2> QED BY <2>1, <2>2, NothingBehind DEF SaveIsNotBehind
<1>5. CASE handleSaveStep
  <2>1. page.at = "new" /\ page.phase = "wizard"
        BY <1>5 DEF handleSaveStep, NextButton, StepView, NamingStep, NetworkStep, FixedStep,
                    ContainerStep, DatabaseStep, OnStep, Phase
  <2>2. DEFINE b == page.cidrError /\ ~NetworkStep
  <2>3. NewOK(page) /\ page' = [page EXCEPT !.isSubmitting = TRUE, !.cidrError = b]
        BY <1>5, <2>1, OnNew DEF handleSaveStep
  <2> HIDE DEF b
  <2>4. /\ page'.at = "new" /\ page'.phase = "wizard" /\ page'.step = page.step
        /\ page'.projectForm = page.projectForm /\ page'.aside = page.aside
        /\ page'.stepConfigs = page.stepConfigs /\ page.step \in Steps
        BY <2>1, <2>3 DEF NewOK, NewPages
  <2>5. request' = [kind |-> "save", served |-> FALSE, live |-> TRUE, step |-> page.step,
                    config |-> Shown(page.step)]
        BY <1>5 DEF handleSaveStep, Send
  <2>6. \A s \in Steps : Behind(s)' => Behind(s)
        BY <2>1, <2>4, <2>5 DEF Behind, Summary, Phase
  <2>7. \A s : Shown(s)' = Shown(s)
        BY <2>4 DEF Shown
  <2>8. \A s \in Steps, d \in Deployments : Clean(d, s) => Clean(d, s)'
        BY <1>1, <2>4, <2>7 DEF Clean, vars
  <2>9. SaveIsNotBehind'
        BY <2>4, <2>5, <2>7, GateAssumption DEF SaveIsNotBehind, Steps
  <2> QED BY <2>6, <2>8, <2>9 DEF PageKeeps
<1>6. CASE handleValidate
  <2>1. page.at = "validate" /\ request'.kind = "validate"
        BY <1>6 DEF handleValidate, StartButton, ReapplyFix, RetryButton, OnValidate, Send
  <2>2. page'.at = "validate"
        BY <1>6, <2>1, PageAt
           DEF handleValidate, WizardInv, ValidateOK, ValidatePages
  <2> QED BY <2>1, <2>2, NothingBehind DEF SaveIsNotBehind
<1> QED BY <1>4, <1>5, <1>6

LEMMA RequestFailsKeepsSummary ==
    ASSUME WizardInv, SummaryInv, RequestFails PROVE SummaryInv'
<1>1. PICK e \in {"TIMEOUT", "other"} :
         /\ page' = Failed(e) /\ request.live
         /\ request' = [request EXCEPT !.live = FALSE]
         /\ UNCHANGED vars
      BY DEF RequestFails
<1>2. /\ request'.kind = request.kind /\ request'.served = request.served
      /\ ~request'.live /\ request'.step = request.step
      /\ request'.config = request.config
      BY <1>1 DEF WizardInv, RequestOK, Requests
<1>3. SamePage
      BY <1>1, FailedOK DEF SamePage
<1>4. PageKeeps
      BY <1>1, <1>2, <1>3, SamePageKeeps DEF vars
<1>5. SaveIsNotBehind'
      BY <1>2, <1>3 DEF SummaryInv, SaveIsNotBehind, SamePage
<1> QED BY <1>1, <1>2, <1>4, <1>5, RestingOK DEF RequestKept

(* The answer to a request that no thread works on any more ends it.       *)
LEMMA UnservedAnswerKeepsSummary ==
    ASSUME WizardInv, SummaryInv, UNCHANGED vars, Finish, NEW p, Show(p),
           ~(request.kind = "save" /\ request.served),
           request.live =>
               \/ p.at = "new" => p.phase \notin {"wizard", "summary"}
               \/ \E e \in {"manual_edit", "other"} : p = Failed(e)
    PROVE  SummaryInv'
<1>1. request'.kind = "none" /\ ~request'.live
      BY NoRequestType DEF Finish
<1>2. PageKeeps
  <2>1. CASE request.live /\ (p.at = "new" => p.phase \notin {"wizard", "summary"})
        BY <2>1, NothingBehind DEF Show
  <2>2. ASSUME request.live, NEW e \in {"manual_edit", "other"}, p = Failed(e)
        PROVE  PageKeeps
    <3>1. SamePage
          BY <2>2, FailedOK DEF SamePage, Show
    <3> QED BY <1>1, <3>1, SamePageKeeps DEF vars
  <2>3. CASE ~request.live
    <3>1. SamePage
          BY <2>3 DEF SamePage, Show
    <3> QED BY <1>1, <3>1, SamePageKeeps DEF vars
  <2> QED BY <2>1, <2>2, <2>3
<1> QED BY <1>1, <1>2, RestingOK DEF RequestKept, SaveIsNotBehind

LEMMA CreateAnswersKeepSummary ==
    ASSUME WizardInv, SummaryInv, ProjectCreated \/ CreateRefused PROVE SummaryInv'
<1>1. UNCHANGED vars /\ Finish /\ request.kind = "create"
      BY DEF ProjectCreated, CreateRefused, Asked
<1>2. CASE ProjectCreated
  <2>1. PICK p : /\ Show(p)
                 /\ p \in {Away, [page EXCEPT !.isSubmitting = FALSE, !.phase = "step1"]}
        BY <1>2 DEF ProjectCreated
  <2>2. ASSUME request.live PROVE p.at = "new" => p.phase \notin {"wizard", "summary"}
    <3>1. NewOK(page)
          BY <1>1, <2>2, OnNew DEF WizardInv, WaitingOK, ProjectForm, Phase
    <3>2. CASE p = Away
          BY <3>2 DEF Away
    <3>3. CASE p = [page EXCEPT !.isSubmitting = FALSE, !.phase = "step1"]
      <4>1. p.phase = "step1"
            BY <3>1, <3>3 DEF NewOK, NewPages
      <4> QED BY <4>1
    <3> QED BY <2>1, <3>2, <3>3
  <2> QED BY <1>1, <2>1, <2>2, UnservedAnswerKeepsSummary
<1>3. CASE CreateRefused
      BY <1>1, <1>3, UnservedAnswerKeepsSummary DEF CreateRefused
<1> QED BY <1>2, <1>3

LEMMA RefusedKeepsSummary ==
    ASSUME WizardInv, SummaryInv, NEW t \in Threads, SaveRefused(t) \/ ValidateRefused(t)
    PROVE  SummaryInv'
<1>1. /\ UNCHANGED vars /\ Finish /\ Show(Failed("other"))
      /\ ~(request.kind = "save" /\ request.served)
      BY DEF SaveRefused, ValidateRefused, Asked
<1> QED BY <1>1, UnservedAnswerKeepsSummary

-----------------------------------------------------------------------------
(* Steps of the backend                                                    *)

LEMMA OneDraft ==
    ASSUME NEW d \in Deployments, NEW e \in Deployments, LatestDraft(d), LatestDraft(e)
    PROVE  d = e
<1>1. d <= e /\ e <= d
      BY DEF LatestDraft
<1> QED BY <1>1, GateAssumption DEF Deployments

LEMMA NoDraftNothingBehind ==
    ASSUME SummaryInv, Drafts = {} PROVE \A s \in Steps : ~Behind(s)
BY DEF SummaryInv, BehindIsSaved, LatestDraft

LEMMA ServeKeepsSummary ==
    ASSUME OneAtATime, WizardInv, SummaryInv, NEW t \in Threads,
           ServeSave(t) \/ ServeValidate(t)
    PROVE  SummaryInv'
<1>1. /\ request' = [request EXCEPT !.served = TRUE]
      /\ UNCHANGED <<page, status, config_snapshot, tasks>>
      BY DEF ServeSave, ServeValidate, Serve, SaveRead, SaveReadNoDraft, ValidateRead, rows
<1>2. /\ request'.kind = request.kind /\ request'.served
      /\ request'.live = request.live /\ request'.step = request.step
      /\ request'.config = request.config
      BY <1>1 DEF WizardInv, RequestOK, Requests
<1>3. SamePage /\ Drafts' = Drafts /\ \A s : Shown(s)' = Shown(s)
      BY <1>1 DEF SamePage, Drafts, Shown
<1>4. BehindIsSaved'
      BY <1>1, <1>2, <1>3, SamePageKeeps, DraftStaysShown DEF SummaryInv
<1>5. SaveIsNotBehind' /\ TasksLeftDraft'
      BY <1>1, <1>2, <1>3 DEF SummaryInv, SaveIsNotBehind, TasksLeftDraft
<1>6. \A d \in Deployments : LatestDraft(d)' = LatestDraft(d)
      BY <1>3 DEF LatestDraft
<1>7. ServesTab(t)'
  <2> USE DEF Goto, Busy, TypeOK, Idle
  <2>0. thread \in [Threads -> ThreadStates] /\ Idle.step = 1
        BY DEF WizardInv
  <2>1. ASSUME NEW d \in Deployments, SaveRead(t, d, request.step, request.config),
               request.kind = "save"
        PROVE  ServesTab(t)'
    <3>1. /\ thread'[t].pc = "save_write" /\ thread'[t].row = d
          /\ thread'[t].step = request.step /\ thread'[t].config = request.config
          /\ LatestDraft(d)
          BY <2>0, <2>1 DEF SaveRead
    <3> QED BY <1>2, <1>6, <2>1, <3>1 DEF ServesTab, Deploying
  <2>2. ASSUME NEW d \in Deployments, SaveReadNoDraft(t, d, request.config),
               request.kind = "save", request.step = 1
        PROVE  ServesTab(t)'
    <3>1. /\ thread'[t].pc = "save_create" /\ thread'[t].row = d
          /\ thread'[t].step = 1 /\ thread'[t].config = request.config
          /\ Drafts = {} /\ status[d] = "absent"
          BY <2>0, <2>2 DEF SaveReadNoDraft, NextRow, Taken
    <3> QED BY <1>1, <1>2, <1>3, <2>2, <3>1 DEF ServesTab, Deploying
  <2>3. ASSUME NEW d \in Deployments, ValidateRead(t, d)
        PROVE  ServesTab(t)'
    <3>1. thread'[t].pc = "validating"
          BY <2>0, <2>3 DEF ValidateRead
    <3> QED BY <3>1 DEF ServesTab, Deploying
  <2> QED BY <2>1, <2>2, <2>3 DEF ServeSave, ServeValidate, Asked
<1> QED BY <1>4, <1>5, <1>7 DEF SummaryInv, OneAtATime

(* The answer to a save: what was saved is what the page shows by now.     *)
LEMMA SaveAnsweredKeepsSummary ==
    ASSUME OneAtATime, WizardInv, PrefixInv, SaveInv, NoneMet, SummaryInv,
           NEW t \in Threads, SaveAnswered(t)
    PROVE  SummaryInv'
<1>0. PICK row, k : row = thread[t].row /\ k = request.step
      OBVIOUS
<1>1. /\ thread[t].pc = "save_write" /\ request.kind = "save"
      /\ thread' = [thread EXCEPT ![t] = Idle] /\ request' = NoRequest
      /\ config_snapshot' = [config_snapshot EXCEPT
              ![row] = [thread[t].snap EXCEPT ![thread[t].step] = thread[t].config]]
      /\ UNCHANGED <<status, tasks>>
      BY <1>0 DEF SaveAnswered, SaveWrite, Serving, Busy, Return, Goto, Finish
<1>2. /\ LatestDraft(row) /\ thread[t].step = k /\ thread[t].config = request.config
      /\ thread[t].snap = config_snapshot[row]
      BY <1>0, <1>1 DEF SummaryInv, ServesTab, SaveInv, SaveAlone, NoneMet
<1>3. /\ row \in Deployments /\ k \in Steps /\ request.config \in Configs
      /\ config_snapshot[row] \in Snapshots
  <2>1. row \in Deployments
        BY <1>2 DEF LatestDraft, Drafts
  <2> QED BY <1>0, <1>1, <2>1 DEF WizardInv, RequestOK, Requests, TypeOK
<1>4. /\ config_snapshot'[row][k] = request.config
      /\ \A s \in Steps \ {k} : config_snapshot'[row][s] = config_snapshot[row][s]
  <2>1. config_snapshot' = [config_snapshot EXCEPT
                               ![row] = [config_snapshot[row] EXCEPT ![k] = request.config]]
        BY <1>1, <1>2
  <2>2. config_snapshot'[row] = [config_snapshot[row] EXCEPT ![k] = request.config]
        BY <1>3, <2>1 DEF WizardInv, TypeOK
  <2> QED BY <1>3, <2>2 DEF Snapshots
<1>5. Drafts' = Drafts /\ LatestDraft(row)'
      BY <1>1, <1>2 DEF Drafts, LatestDraft
<1>6. ASSUME \E s \in Steps : Behind(s)
      PROVE  \A s \in Steps : Behind(s) => Clean(row, s)
      BY <1>2, <1>3, <1>6, OneDraft DEF SummaryInv, BehindIsSaved
<1>7. ~request'.live /\ request'.kind = "none"
      BY <1>1, NoRequestType
<1>8. ASSUME NEW s \in Steps, Behind(s)' PROVE Clean(row, s)'
  <2>1. CASE ~request.live
    <3>1. page' = page
          BY <2>1 DEF SaveAnswered, Show
    <3>2. Behind(s) /\ s # k
      <4>1. page.at = "new" /\ ~Summary
            BY <1>1, <1>8, <3>1 DEF Behind, Summary, Phase, SummaryInv, SaveIsNotBehind
      <4>2. s < page.step /\ Phase("wizard") /\ page.step <= k
            BY <1>0, <1>1, <1>7, <1>8, <3>1, <4>1
               DEF Behind, Summary, Phase, SummaryInv, SaveIsNotBehind
      <4>3. page.step \in Steps
            BY <4>1, OnNew DEF NewOK, NewPages
      <4> QED BY <1>3, <4>2, <4>3, GateAssumption DEF Behind, Steps
    <3>3. Clean(row, s) /\ config_snapshot'[row][s] = config_snapshot[row][s]
          BY <1>4, <1>6, <3>2
    <3>4. Shown(s)' = Shown(s)
          BY <3>1 DEF Shown
    <3> QED BY <3>1, <3>3, <3>4 DEF Clean
  <2>2. CASE request.live
    <3>0. PICK p : page' = p
          OBVIOUS
    <3>1. PICK done \in SUBSET Steps :
             p = [AfterSave(request.step) EXCEPT !.isSubmitting = FALSE,
                                                !.completedSteps = done]
      <4>1. completed_steps(config_snapshot'[row]) \in SUBSET Steps
            BY DEF completed_steps
      <4>2. page' = [AfterSave(request.step) EXCEPT
                        !.isSubmitting = FALSE,
                        !.completedSteps = completed_steps(config_snapshot'[row])]
            BY <1>0, <2>2 DEF SaveAnswered, Show
      <4> QED BY <3>0, <4>1, <4>2
    <3>2. /\ NewOK(p) /\ p.projectForm = page.projectForm
          /\ k \in InputSteps => p.stepConfigs[k] = request.config
          /\ \A x \in InputSteps \ {k} : p.stepConfigs[x] = page.stepConfigs[x]
          /\ p.aside = page.aside \ {k}
          /\ IF k = NumSteps THEN p.phase = "summary"
             ELSE p.phase = "wizard" /\ p.step = k + 1
      <4>1. request.kind = "save"
            BY <1>1
      <4>2. /\ NewOK(p) /\ p.projectForm = page.projectForm
            /\ request.step \in InputSteps => p.stepConfigs[request.step] = request.config
            /\ \A x \in InputSteps \ {request.step} :
                  p.stepConfigs[x] = page.stepConfigs[x]
            /\ p.aside = page.aside \ {request.step}
            /\ IF request.step = NumSteps THEN p.phase = "summary"
               ELSE p.phase = "wizard" /\ p.step = request.step + 1
            BY <2>2, <3>1, <4>1, AfterSaveOK
      <4> QED BY <1>0, <4>2
    <3>3. s <= k
          BY <1>3, <1>7, <1>8, <3>0, <3>2, GateAssumption DEF Behind, Summary, Phase, Steps
    <3>4. CASE s = k
      <4>1. CASE k \in InputSteps
        <5>1. page'.stepConfigs[k] = request.config /\ request.config # Unset /\ k # 1
              BY <1>3, <3>0, <3>2, <4>1, WizardAssumption, GateAssumption
        <5> QED BY <1>4, <3>4, <4>1, <5>1 DEF Clean, Shown
      <4>2. CASE k \notin InputSteps
        <5>1. Shown(k)' = Shown(k)
              BY <3>0, <3>2, <4>2 DEF Shown
        <5>2. request.config = Shown(k)
              BY <1>0, <1>1, <2>2, <4>2 DEF SummaryInv, SaveIsNotBehind
        <5> QED BY <1>4, <3>4, <5>1, <5>2 DEF Clean
      <4> QED BY <4>1, <4>2
    <3>5. CASE s # k
      <4>1. s < k
            BY <1>3, <3>3, <3>5, GateAssumption DEF Steps
      <4>2. Behind(s)
            BY <1>0, <1>1, <2>2, <4>1, OutsideWizard DEF Behind
      <4>3. Clean(row, s) /\ config_snapshot'[row][s] = config_snapshot[row][s]
            BY <1>4, <1>6, <3>5, <4>2
      <4>4. Shown(s)' = Shown(s)
            BY <3>0, <3>2, <3>5 DEF Shown
      <4>5. s \in page.aside => s \in page'.aside
            BY <3>0, <3>2, <3>5
      <4> QED BY <4>3, <4>4, <4>5 DEF Clean
    <3> QED BY <3>4, <3>5
  <2> QED BY <2>1, <2>2
<1>9. BehindIsSaved'
      BY <1>3, <1>5, <1>8 DEF BehindIsSaved
<1>10. ServesTab(t)'
  <2>1. thread'[t].pc = "idle"
        BY <1>1, IdleType DEF WizardInv, TypeOK
  <2> QED BY <2>1 DEF ServesTab, Deploying
<1>11. TasksLeftDraft' /\ SaveIsNotBehind'
       BY <1>1, <1>7 DEF SummaryInv, TasksLeftDraft, SaveIsNotBehind
<1> QED BY <1>9, <1>10, <1>11 DEF SummaryInv, OneAtATime

LEMMA ValidateAnsweredKeepsSummary ==
    ASSUME OneAtATime, WizardInv, SummaryInv, NEW t \in Threads, ValidateAnswered(t)
    PROVE  SummaryInv'
<1>1. /\ thread' = [thread EXCEPT ![t] = Idle] /\ request' = NoRequest
      /\ request.kind = "validate" /\ UNCHANGED <<status, config_snapshot, tasks>>
      BY DEF ValidateAnswered, ValidatePass, ValidateManualEdit, ValidateReject, Serving,
             Return, Goto, Finish, rows
<1>2. ~request'.live /\ request'.kind = "none"
      BY <1>1, NoRequestType
<1>3. PageKeeps
  <2>1. CASE ~request.live
    <3>1. SamePage
          BY <2>1 DEF ValidateAnswered, Show, SamePage
    <3> QED BY <1>1, <1>2, <3>1, SamePageKeeps
  <2>2. CASE request.live
    <3>1. page.at = "validate"
          BY <1>1, <2>2 DEF WizardInv, WaitingOK, OnValidate
    <3>2. ValidateOK(page, ClientIds)
          BY <3>1, PageAt DEF WizardInv
    <3>3. \/ \E id : page' = [page EXCEPT !.isValidating = FALSE, !.result = id]
          \/ \E e : page' = [page EXCEPT !.isValidating = FALSE, !.error = e]
          BY <2>2, <3>1 DEF ValidateAnswered, Show, Failed, OnValidate
    <3>4. page'.at = "validate"
          BY <3>1, <3>2, <3>3 DEF ValidateOK, ValidatePages
    <3> QED BY <3>4, NothingBehind
  <2> QED BY <2>1, <2>2
<1>4. Drafts' = Drafts
      BY <1>1 DEF Drafts
<1>5. BehindIsSaved'
      BY <1>3, <1>4, DraftStaysShown DEF SummaryInv
<1>6. ServesTab(t)'
  <2>1. thread'[t].pc = "idle"
        BY <1>1, IdleType DEF WizardInv, TypeOK
  <2> QED BY <2>1 DEF ServesTab, Deploying
<1>7. TasksLeftDraft' /\ SaveIsNotBehind'
      BY <1>1, <1>2 DEF SummaryInv, TasksLeftDraft, SaveIsNotBehind
<1> QED BY <1>5, <1>6, <1>7 DEF SummaryInv, OneAtATime

(* While the page rests, only the draft can change what it stands for.     *)
LEMMA PageRests ==
    ASSUME SummaryInv, UNCHANGED wizard, UNCHANGED config_snapshot
    PROVE  /\ PageKeeps /\ SaveIsNotBehind'
           /\ \A s \in Steps : Behind(s)' = Behind(s)
<1>1. SamePage /\ UNCHANGED <<page, request>> /\ \A s : Shown(s)' = Shown(s)
      BY DEF wizard, SamePage, Shown
<1>2. \A s \in Steps : Behind(s)' = Behind(s)
      BY <1>1 DEF Behind, Summary, Phase
<1> QED BY <1>1, <1>2, SamePageKeeps DEF SummaryInv, SaveIsNotBehind

(* The first save inserts the row, when no step can be behind.             *)
LEMMA CreateKeepsSummary ==
    ASSUME OneAtATime, WizardInv, SummaryInv, NEW t \in Threads,
           create_initial_deployment(t), UNCHANGED wizard
    PROVE  SummaryInv'
<1>0. PICK row : row = thread[t].row
      OBVIOUS
<1>1. /\ thread[t].pc = "save_create" /\ status' = [status EXCEPT ![row] = "created"]
      /\ thread' = [thread EXCEPT ![t] = [thread[t] EXCEPT !.pc = "save_refresh"]]
      /\ UNCHANGED <<config_snapshot, tasks, page, request>>
      BY <1>0 DEF create_initial_deployment, Busy, Goto, wizard
<1>2. /\ Drafts = {} /\ status[row] = "absent"
      /\ request.kind = "save" /\ request.served
      /\ thread[t].step = request.step /\ thread[t].config = request.config
      BY <1>0, <1>1 DEF SummaryInv, ServesTab
<1>3. thread[t] \in BusyStates
      BY <1>1, IdleType DEF WizardInv, TypeOK, ThreadStates
<1>4. row \in Deployments
      BY <1>0, <1>3 DEF BusyStates
<1>5. /\ thread'[t].pc = "save_refresh" /\ thread'[t].row = row
      /\ thread'[t].step = request.step /\ thread'[t].config = request.config
      BY <1>0, <1>1, <1>2, <1>3 DEF WizardInv, TypeOK, BusyStates
<1>6. PageKeeps /\ SaveIsNotBehind' /\ \A s \in Steps : ~Behind(s)'
      BY <1>1, <1>2, PageRests, NoDraftNothingBehind
<1>7. LatestDraft(row)'
  <2>1. status'[row] = "created" /\ \A d \in Deployments \ {row} : status'[d] = status[d]
        BY <1>1, <1>4 DEF WizardInv, TypeOK
  <2>2. Drafts' = {row}
        BY <1>2, <1>4, <2>1 DEF Drafts
  <2> QED BY <1>4, <2>2, GateAssumption DEF LatestDraft, Deployments
<1>8. ServesTab(t)'
      BY <1>1, <1>2, <1>5, <1>7 DEF ServesTab, Deploying
<1>9. TasksLeftDraft'
      BY <1>1, <1>2, <1>4 DEF SummaryInv, TasksLeftDraft, WizardInv, TypeOK
<1> QED BY <1>6, <1>8, <1>9 DEF SummaryInv, BehindIsSaved, OneAtATime

LEMMA RefreshKeepsSummary ==
    ASSUME OneAtATime, WizardInv, SummaryInv, NEW t \in Threads, SaveRefresh(t),
           UNCHANGED wizard
    PROVE  SummaryInv'
<1>1. /\ thread[t].pc = "save_refresh"
      /\ thread' = [thread EXCEPT ![t] = [thread[t] EXCEPT
                       !.pc = "save_write", !.snap = config_snapshot[thread[t].row]]]
      /\ UNCHANGED <<status, config_snapshot, tasks, page, request>>
      BY DEF SaveRefresh, Busy, Goto, wizard, rows
<1>2. thread[t] \in BusyStates
      BY <1>1, IdleType DEF WizardInv, TypeOK, ThreadStates
<1>3. /\ thread'[t].pc = "save_write" /\ thread'[t].row = thread[t].row
      /\ thread'[t].step = thread[t].step /\ thread'[t].config = thread[t].config
      BY <1>1, <1>2 DEF WizardInv, TypeOK, BusyStates
<1>4. Drafts' = Drafts /\ (LatestDraft(thread[t].row) => LatestDraft(thread[t].row)')
  <2>1. Drafts' = Drafts
        BY <1>1 DEF Drafts
  <2> QED BY <1>3, <2>1 DEF LatestDraft
<1>5. ServesTab(t)'
      BY <1>1, <1>3, <1>4 DEF SummaryInv, ServesTab, Deploying
<1>6. BehindIsSaved' /\ SaveIsNotBehind' /\ TasksLeftDraft'
      BY <1>1, <1>4, PageRests, DraftStaysShown DEF SummaryInv, TasksLeftDraft
<1> QED BY <1>5, <1>6 DEF SummaryInv, OneAtATime

(* A deploy is asked for on another page: until it is over no step is behind. *)
LEMMA DeployKeepsSummary ==
    ASSUME OneAtATime, WizardInv, SummaryInv, NEW t \in Threads, UNCHANGED wizard,
           \/ handleDeploy(t) \/ DeployCheck(t) \/ DeployUpload(t)
           \/ DeployUploadFails(t) \/ DeployCommit(t) \/ DeploySpawn(t)
           \/ DeploySpawnFails(t)
    PROVE  SummaryInv'
<1> USE DEF Goto, Return, Busy, rows
<1>0. thread \in [Threads -> ThreadStates]
      BY DEF WizardInv, TypeOK
<1>1. \A s \in Steps : ~Behind(s)
  <2>1. CASE handleDeploy(t)
        BY <2>1 DEF handleDeploy, Behind, Summary, Phase
  <2>2. CASE ~handleDeploy(t)
    <3>1. Deploying(t)
          BY <2>2 DEF DeployCheck, DeployUpload, DeployUploadFails, DeployCommit, DeploySpawn,
                      DeploySpawnFails, Deploying
    <3> QED BY <3>1 DEF SummaryInv, ServesTab
  <2> QED BY <2>1, <2>2
<1>2. UNCHANGED config_snapshot
      BY DEF handleDeploy, DeployRead, DeployCheck, DeployUpload, DeployUploadFails,
             DeployCommit, DeploySpawn, DeploySpawnFails
<1>3. SaveIsNotBehind' /\ \A s \in Steps : ~Behind(s)'
      BY <1>1, <1>2, PageRests
<1>4. SUFFICES ServesTab(t)' /\ TasksLeftDraft'
      BY <1>3 DEF SummaryInv, BehindIsSaved, OneAtATime
<1>5. CASE thread'[t] = Idle /\ UNCHANGED <<status, tasks>>
  <2>1. thread'[t].pc = "idle"
        BY <1>5, IdleType
  <2> QED BY <1>5, <2>1 DEF SummaryInv, ServesTab, Deploying, TasksLeftDraft
<1>6. ASSUME NEW d \in Deployments, DeployRead(t, d, page.validationId)
      PROVE  ServesTab(t)' /\ TasksLeftDraft'
  <2>1. thread'[t].pc = "deploy_check" /\ UNCHANGED <<status, tasks>>
        BY <1>0, <1>6, IdleType DEF DeployRead
  <2> QED BY <1>3, <2>1 DEF SummaryInv, ServesTab, TasksLeftDraft
<1>7. ASSUME thread[t].pc \in {"deploy_check", "deploy_upload", "deploy_commit",
                               "deploy_spawn"}
      PROVE  thread[t] \in BusyStates /\ thread[t].row \in Deployments
  <2>1. thread[t] \in BusyStates
        BY <1>0, <1>7, IdleType DEF ThreadStates
  <2> QED BY <2>1 DEF BusyStates
<1>8. CASE (DeployCheck(t) /\ thread'[t] # Idle) \/ DeployUpload(t)
  <2>1. thread[t] \in BusyStates
        BY <1>7, <1>8 DEF DeployCheck, DeployUpload
  <2>2. thread'[t].pc \in {"deploy_upload", "deploy_commit"} /\ UNCHANGED <<status, tasks>>
        BY <1>0, <1>8, <2>1 DEF DeployCheck, DeployUpload, BusyStates
  <2> QED BY <1>3, <2>2 DEF SummaryInv, ServesTab, TasksLeftDraft
<1>9. CASE DeployCommit(t)
  <2>1. PICK row \in Deployments :
           /\ row = thread[t].row
           /\ thread' = [thread EXCEPT ![t] = [thread[t] EXCEPT !.pc = "deploy_spawn"]]
           /\ status' = [status EXCEPT ![row] = "deploying"] /\ UNCHANGED tasks
           /\ thread[t] \in BusyStates
        BY <1>7, <1>9 DEF DeployCommit
  <2>2. /\ thread'[t].pc = "deploy_spawn" /\ thread'[t].row = row
        /\ status'[row] = "deploying"
        /\ \A d \in Deployments \ {row} : status'[d] = status[d]
        BY <1>0, <2>1 DEF BusyStates, WizardInv, TypeOK
  <2>3. ServesTab(t)'
        BY <1>3, <2>2 DEF ServesTab
  <2>4. TasksLeftDraft'
        BY <2>1, <2>2 DEF SummaryInv, TasksLeftDraft
  <2> QED BY <2>3, <2>4
<1>10. CASE DeploySpawn(t) \/ DeploySpawnFails(t)
  <2>1. PICK row \in Deployments :
           /\ row = thread[t].row /\ thread' = [thread EXCEPT ![t] = Idle]
           /\ status[row] \notin {"absent", "created"}
           /\ \/ status' = [status EXCEPT ![row] = "failed"] /\ UNCHANGED tasks
              \/ tasks' = [tasks EXCEPT ![row] = @ + 1] /\ UNCHANGED status
        BY <1>7, <1>10 DEF DeploySpawn, DeploySpawnFails, SummaryInv, ServesTab
  <2>2. /\ thread'[t].pc = "idle"
        /\ \A d \in Deployments \ {row} : status'[d] = status[d] /\ tasks'[d] = tasks[d]
        /\ status'[row] \notin {"absent", "created"}
        BY <1>0, <2>1, IdleType DEF WizardInv, TypeOK
  <2>3. ServesTab(t)'
        BY <2>2 DEF ServesTab, Deploying
  <2>4. TasksLeftDraft'
        BY <2>2 DEF SummaryInv, TasksLeftDraft
  <2> QED BY <2>3, <2>4
<1>11. DeployUploadFails(t) => thread'[t] = Idle /\ UNCHANGED <<status, tasks>>
       BY <1>0 DEF DeployUploadFails
<1>12. DeployCheck(t) => UNCHANGED <<status, tasks>>
       BY DEF DeployCheck
<1> QED BY <1>5, <1>6, <1>8, <1>9, <1>10, <1>11, <1>12 DEF handleDeploy

(* A task that reports belongs to a row that is no draft any more.         *)
LEMMA CallbackKeepsSummary ==
    ASSUME OneAtATime, WizardInv, SummaryInv, Callback PROVE SummaryInv'
<1>1. PICK d \in Deployments, r \in {"completed", "partial_failed", "failed"} :
         /\ tasks[d] > 0 /\ tasks' = [tasks EXCEPT ![d] = @ - 1]
         /\ status' = [status EXCEPT ![d] = r]
         /\ UNCHANGED <<config_snapshot, thread>> /\ UNCHANGED wizard
      BY DEF Callback, deployment_complete_callback
<1>2. /\ status[d] \notin {"absent", "created"} /\ status'[d] \notin {"absent", "created"}
      /\ \A e \in Deployments \ {d} : status'[e] = status[e] /\ tasks'[e] = tasks[e]
      BY <1>1 DEF SummaryInv, TasksLeftDraft, WizardInv, TypeOK
<1>3. Drafts' = Drafts
      BY <1>2 DEF Drafts
<1>4. \A e : LatestDraft(e)' = LatestDraft(e)
      BY <1>3 DEF LatestDraft
<1>5. PageKeeps /\ SaveIsNotBehind' /\ \A s \in Steps : Behind(s)' = Behind(s)
      BY <1>1, PageRests
<1>6. BehindIsSaved'
      BY <1>3, <1>5, DraftStaysShown DEF SummaryInv
<1>7. ASSUME NEW t \in Threads PROVE ServesTab(t)'
  <2>1. thread' = thread /\ request' = request
        BY <1>1 DEF wizard
  <2>2. PICK row : row = thread[t].row
        OBVIOUS
  <2>3. thread[t].pc # "idle" => row \in Deployments
    <3>1. ASSUME thread[t].pc # "idle" PROVE thread[t] \in BusyStates
          BY <3>1, IdleType DEF WizardInv, TypeOK, ThreadStates
    <3> QED BY <2>2, <3>1 DEF BusyStates
  <2>4. row \in Deployments => (status[row] = "absent" => status'[row] = "absent")
           /\ (status[row] \notin {"absent", "created"}
                  => status'[row] \notin {"absent", "created"})
        BY <1>2
  <2>5. ServesTab(t)
        BY DEF SummaryInv
  <2> QED BY <1>3, <1>4, <1>5, <2>1, <2>2, <2>3, <2>4, <2>5 DEF ServesTab, Deploying
<1>8. TasksLeftDraft'
      BY <1>2 DEF SummaryInv, TasksLeftDraft
<1> QED BY <1>5, <1>6, <1>7, <1>8 DEF SummaryInv

-----------------------------------------------------------------------------
LEMMA SummaryInductive ==
    ASSUME OneAtATime, WizardInv, PrefixInv, SaveInv, NoneMet, SummaryInv,
           [WizardNext]_wvars
    PROVE  SummaryInv'
<1>1. CASE Navigate
      BY <1>1, NavigateKeepsSummary
<1>2. CASE Pages
      BY <1>2, TypingKeepsSummary, TypeStepKeepsSummary, SendingKeepsSummary,
         RequestFailsKeepsSummary DEF Pages
<1>3. CASE ProjectCreated \/ CreateRefused
      BY <1>3, CreateAnswersKeepSummary
<1>4. CASE Callback
      BY <1>4, CallbackKeepsSummary
<1>5. ASSUME NEW t \in Threads, Endpoints(t) PROVE SummaryInv'
  <2>1. CASE ServeSave(t) \/ ServeValidate(t)
        BY <2>1, ServeKeepsSummary
  <2>2. CASE SaveRefused(t) \/ ValidateRefused(t)
        BY <2>2, RefusedKeepsSummary
  <2>3. CASE SaveAnswered(t)
        BY <2>3, SaveAnsweredKeepsSummary
  <2>4. CASE ValidateAnswered(t)
        BY <2>4, ValidateAnsweredKeepsSummary
  <2>5. CASE handleDeploy(t)
        BY <2>5, DeployKeepsSummary DEF handleDeploy
  <2>6. CASE Backend(t)
        BY <2>6, CreateKeepsSummary, RefreshKeepsSummary, DeployKeepsSummary DEF Backend
  <2> QED BY <1>5, <2>1, <2>2, <2>3, <2>4, <2>5, <2>6 DEF Endpoints
<1>6. CASE UNCHANGED wvars
  <2>1. SamePage /\ PageKeeps
        BY <1>6, SamePageKeeps DEF wvars, wizard, vars, SamePage
  <2>2. \A s : Shown(s)' = Shown(s)
        BY <1>6 DEF wvars, wizard, Shown
  <2> QED BY <1>6, <2>1, <2>2, RestingOK
          DEF wvars, wizard, RequestKept, SaveIsNotBehind, SummaryInv
<1> QED BY <1>1, <1>2, <1>3, <1>4, <1>5, <1>6 DEF WizardNext

LEMMA SummaryInit == ASSUME WizardInit PROVE SummaryInv
<1>1. BehindIsSaved
      BY DEF WizardInit, BehindIsSaved, Behind, Summary, Phase, Away
<1>2. ASSUME NEW t \in Threads PROVE ServesTab(t)
      BY IdleType DEF WizardInit, Init, ServesTab, Deploying
<1>3. TasksLeftDraft
      BY GateAssumption DEF WizardInit, Init, TasksLeftDraft
<1>4. SaveIsNotBehind
      BY NoRequestType DEF WizardInit, SaveIsNotBehind
<1> QED BY <1>1, <1>2, <1>3, <1>4 DEF SummaryInv

(* The last look before a deployment shows what will be deployed: whatever
   answers were lost and whatever was edited while a step was saved, the
   summary only stands when every step is in the draft, with the value that it
   shows.  One tab sends one request at a time.                            *)
THEOREM SummaryShowsTheDraft ==
    ASSUME OneAtATime PROVE WizardSpec => []SummaryShowsSaved
<1>1. SummaryInv => SummaryShowsSaved
  <2> SUFFICES ASSUME SummaryInv, Summary PROVE SummaryShowsSaved
      BY DEF SummaryShowsSaved
  <2>1. \A s \in Steps : Behind(s)
        BY DEF Behind
  <2>2. PICK d \in Deployments :
           LatestDraft(d) /\ \A s \in Steps : Behind(s) => Clean(d, s)
        BY <2>1, IdleType DEF SummaryInv, BehindIsSaved
  <2> QED BY <2>1, <2>2 DEF SummaryShowsSaved, Clean
<1>2. WizardInit => SummaryInv
      BY SummaryInit
<1>3. WizardInv /\ PrefixInv /\ SaveInv /\ NoneMet /\ SummaryInv /\ [WizardNext]_wvars
         => SummaryInv'
      BY SummaryInductive
<1>4. WizardSpec => [](TypeOK /\ PrefixInv /\ GateInv /\ SaveInv) /\ []NoneMet
      BY WizardImplementsGate, SavesAlways, TabsLoseNoStep
<1> QED BY <1>1, <1>2, <1>3, <1>4, WizardInvariant, PTL DEF WizardSpec
=============================================================================
