-------------------------------- MODULE Wizard --------------------------------
(***************************************************************************)
(* The pages in front of a deployment in one tab, and the handlers of       *)
(* CraftGate they call: the wizard (projects/new/NewProjectPageContent.tsx  *)
(* with IntentAnalysis.tsx and WizardLayout.tsx), which creates the project *)
(* and saves one step after another, and the validation page                *)
(* ([id]/validate/page.tsx).  Of the deploy page only the request it sends  *)
(* is here; the page itself is in DeployConsole.                            *)
(*                                                                         *)
(* One request of the tab is under way at a time, also one that a page left *)
(* behind; CraftGate has the interleavings of several.                      *)
(***************************************************************************)
EXTENDS CraftGate

CONSTANTS
    InputSteps,   (* the steps that have a field: "2-2" and "2-5"           *)
    CidrStep,     (* the one whose field must be a CIDR: "2-2"              *)
    Default,      (* what a step is saved with when nothing was typed       *)
    Blank,        (* what step "2-1" is saved with without a project form   *)
    Bad           (* a text that is not a CIDR                              *)

ASSUME WizardAssumption ==
    /\ InputSteps \subseteq Steps \ {1}
    /\ CidrStep \in InputSteps
    /\ {Default, Blank} \subseteq Configs
    /\ Bad \notin Configs \cup {Unset}

VARIABLES
    page,      (* the mounted page and its state                            *)
    request,   (* the request under way, and whether its page waits for it  *)
    project    (* whether the project exists                                *)

wizard == <<page, request, project>>
wvars  == <<vars, wizard>>

NoRequest == [kind |-> "none", served |-> FALSE, live |-> FALSE,
              step |-> 1, config |-> Unset]

(* The pages as they are mounted.  aside is of the model: the steps whose
   field was typed into while another step was being saved.                *)
Away == [at |-> "away"]
NewProjectPage(hasId) ==
    [at |-> "new", phase |-> IF hasId THEN "step1" ELSE "project-create",
     step |-> 1, projectForm |-> "blank", completedSteps |-> {},
     isSubmitting |-> FALSE, stepConfigs |-> [s \in InputSteps |-> Unset],
     cidrError |-> FALSE, isAnalyzing |-> FALSE, analysis |-> "none",
     aside |-> {}]
ValidatePage ==
    [at |-> "validate", isValidating |-> FALSE, result |-> NoId, error |-> "none"]
DeployPage(id) == [at |-> "deploy", validationId |-> id]

WizardInit ==
    /\ Init
    /\ page = Away
    /\ request = NoRequest
    /\ project = "none"

-----------------------------------------------------------------------------
(* What the pages show *)

Phase(p)       == page.at = "new" /\ page.phase = p
ProjectForm    == Phase("project-create")
IntentAnalysis == Phase("step1")
Summary        == Phase("summary")

(* The views of the steps: "2-1", "2-2", those without a field ("2-3" and
   "2-4"), "2-5" and "2-6".                                                *)
OnStep(s)     == Phase("wizard") /\ page.step = s
NamingStep    == OnStep(1)
NetworkStep   == OnStep(CidrStep)
FixedStep     == \E s \in Steps \ InputSteps : OnStep(s)
ContainerStep == \E s \in InputSteps \ {CidrStep} : OnStep(s)
DatabaseStep  == OnStep(NumSteps)
StepView      == NamingStep \/ NetworkStep \/ FixedStep \/ ContainerStep
                     \/ DatabaseStep
NextButton    == StepView /\ ~page.isSubmitting
PrevButton    == StepView /\ ~NamingStep
isDone(s)     == s \in page.completedSteps

(* The value of a step, on the page and in the summary: an empty text counts
   as none, the steps without a field have fixed values.                   *)
Shown(s) == IF s = 1 THEN IF page.projectForm = "filled" THEN Default ELSE Blank
            ELSE IF s \in InputSteps /\ page.stepConfigs[s] # Unset
            THEN page.stepConfigs[s] ELSE Default

OnValidate   == page.at = "validate"
StartButton  == OnValidate /\ page.result = NoId /\ page.error = "none"
                    /\ ~page.isValidating
ManualEdit   == OnValidate /\ page.error = "manual_edit"
ReapplyFix   == OnValidate /\ page.error = "TERRAFORM_ERROR"
RetryButton  == OnValidate /\ page.error \in {"TIMEOUT", "other"}
ResultShown  == OnValidate /\ page.result # NoId
StageRunning == OnValidate /\ page.isValidating /\ page.result = NoId

-----------------------------------------------------------------------------
(* Navigation: a page that is left no longer waits for its request.        *)

Open(p) ==
    /\ page' = p
    /\ request' = [request EXCEPT !.live = FALSE]
    /\ UNCHANGED <<vars, project>>

OpenByAddress ==
    \/ page # Away /\ Open(Away)
    \/ page = Away /\ Open(NewProjectPage(FALSE))
    \/ page = Away /\ project = "exists"
          /\ \E p \in {NewProjectPage(TRUE), ValidatePage, DeployPage(NoId)} : Open(p)

ExitWizard     == (ProjectForm \/ IntentAnalysis \/ StepView) /\ Open(Away)
GoToValidation == Summary /\ Open(ValidatePage)
(* The link does not name the project.                                     *)
EditSettings   == ResultShown /\ Open(NewProjectPage(FALSE))
GoToDeploy     == ResultShown /\ Open(DeployPage(page.result))

-----------------------------------------------------------------------------
(* Requests.  RequestFails: a timeout or a lost answer; the backend goes on. *)

Send(kind, step, config) ==
    /\ request = NoRequest
    /\ request' = [kind |-> kind, served |-> FALSE, live |-> TRUE,
                   step |-> step, config |-> config]
Asked(kind)   == request.kind = kind /\ ~request.served
Serving(kind) == request.kind = kind /\ request.served
Serve         == request' = [request EXCEPT !.served = TRUE] /\ UNCHANGED <<page, project>>
Finish        == request' = NoRequest
Show(p)       == page' = IF request.live THEN p ELSE page

(* The two finally clauses; the wizard shows no error.                     *)
Failed(error) == IF OnValidate
                 THEN [page EXCEPT !.isValidating = FALSE, !.error = error]
                 ELSE [page EXCEPT !.isSubmitting = FALSE]

RequestFails ==
    /\ request.live
    /\ \E e \in {"TIMEOUT", "other"} : page' = Failed(e)
    /\ request' = [request EXCEPT !.live = FALSE]
    /\ UNCHANGED <<vars, project>>

-----------------------------------------------------------------------------
(* Creating the project: its fields can be edited while it is created.      *)

TypeForm ==
    /\ ProjectForm
    /\ page' = [page EXCEPT !.projectForm = IF @ = "blank" THEN "filled" ELSE "blank"]
    /\ UNCHANGED <<vars, request, project>>

handleCreateProject ==
    /\ ProjectForm /\ ~page.isSubmitting /\ page.projectForm = "filled"
    /\ page' = [page EXCEPT !.isSubmitting = TRUE]
    /\ Send("create", 1, Unset)
    /\ UNCHANGED <<vars, project>>

(* Each request makes a project; the wizard of another one is left out.    *)
ProjectCreated ==
    /\ Asked("create")
    /\ project' = "exists"
    /\ Show(IF project = "none"
            THEN [page EXCEPT !.isSubmitting = FALSE, !.phase = "step1"]
            ELSE Away)
    /\ Finish /\ UNCHANGED vars
CreateRefused ==
    /\ Asked("create")
    /\ Show(Failed("other"))
    /\ Finish /\ UNCHANGED <<vars, project>>

-----------------------------------------------------------------------------
(* The analysis, which may be repeated, and its result taken meanwhile.     *)

AnalyzeButton  == IntentAnalysis /\ ~page.isAnalyzing
AnalysisResult == IntentAnalysis /\ page.analysis = "result"
handleAnalyze ==
    /\ AnalyzeButton
    /\ page' = [page EXCEPT !.isAnalyzing = TRUE]
    /\ UNCHANGED <<vars, request, project>>
AnalysisEnds ==
    /\ IntentAnalysis /\ page.isAnalyzing
    /\ \E r \in {page.analysis, "result"} :
          page' = [page EXCEPT !.isAnalyzing = FALSE, !.analysis = r]
    /\ UNCHANGED <<vars, request, project>>
onComplete ==
    /\ AnalysisResult
    /\ page' = [page EXCEPT !.phase = "wizard", !.step = 1,
                            !.isAnalyzing = FALSE, !.analysis = "none"]
    /\ UNCHANGED <<vars, request, project>>

-----------------------------------------------------------------------------
(* The steps.  While one is saved its fields, and with Prev those of the
   others, can be edited.                                                  *)

Texts(s) == Configs \cup {Unset} \cup IF s = CidrStep THEN {Bad} ELSE {}
validateCIDR(text) == text \in Configs

TypeStep(s, text) ==
    /\ OnStep(s) /\ text \in Texts(s) \ {page.stepConfigs[s]}
    /\ page' = [page EXCEPT
          !.stepConfigs[s] = text,
          !.cidrError = @ /\ (s = CidrStep => ~validateCIDR(text)),
          !.aside = IF page.isSubmitting /\ request.step # s THEN @ \cup {s} ELSE @]
    /\ UNCHANGED <<vars, request, project>>

PressPrev ==
    /\ \/ PrevButton /\ page' = [page EXCEPT !.step = @ - 1]
       \/ Summary /\ page' = [page EXCEPT !.phase = "wizard"]
    /\ UNCHANGED <<vars, request, project>>

handleSaveStep ==
    /\ NextButton
    /\ NetworkStep => validateCIDR(Shown(CidrStep))
    /\ page' = [page EXCEPT !.isSubmitting = TRUE,
                            !.cidrError = @ /\ ~NetworkStep]
    /\ Send("save", page.step, Shown(page.step))
    /\ UNCHANGED <<vars, project>>
CidrRejected ==
    /\ NextButton
    /\ NetworkStep /\ ~validateCIDR(Shown(CidrStep))
    /\ page' = [page EXCEPT !.cidrError = TRUE]
    /\ UNCHANGED <<vars, request, project>>

(* save_config takes the request, or refuses it.                           *)
ServeSave(t) ==
    /\ Asked("save")
    /\ \/ \E d \in Deployments : SaveRead(t, d, request.step, request.config)
       \/ request.step = 1
             /\ \E d \in Deployments : SaveReadNoDraft(t, d, request.config)
    /\ Serve
SaveRefused(t) ==
    /\ Asked("save") /\ Busy(t, "idle")
    /\ \/ Drafts = {} /\ request.step # 1
       \/ \E d \in Deployments : LatestDraft(d)
             /\ ~validate_step_prerequisites(request.step, config_snapshot[d])
    /\ Show(Failed("other"))
    /\ Finish /\ UNCHANGED <<vars, project>>

(* Mutant: the step that follows the last is one more.                     *)
AfterSave_Past(step) ==
    [page EXCEPT !.step = step + 1, !.phase = "wizard",
                 !.stepConfigs = [s \in InputSteps |->
                                     IF s = step THEN request.config ELSE @[s]],
                 !.aside = @ \ {step}]
(* Mutant: what was saved is not put into the page's state.                *)
AfterSave_KeepsTyped(step) ==
    LET saved == [page EXCEPT !.aside = @ \ {step}] IN
    IF step = NumSteps THEN [saved EXCEPT !.phase = "summary"]
    ELSE [saved EXCEPT !.phase = "wizard", !.step = step + 1]
(* Wherever the user is by now: the saved value replaces what was typed since,
   and the page goes to the step after the saved one.                      *)
AfterSave(step) ==
    LET saved == [page EXCEPT
                     !.stepConfigs = [s \in InputSteps |->
                                         IF s = step THEN request.config ELSE @[s]],
                     !.aside = @ \ {step}] IN
    IF step = NumSteps THEN [saved EXCEPT !.phase = "summary"]
    ELSE [saved EXCEPT !.phase = "wizard", !.step = step + 1]

SaveAnswered(t) ==
    /\ Serving("save")
    /\ SaveWrite(t)
    /\ Show([AfterSave(request.step) EXCEPT
                !.isSubmitting = FALSE,
                !.completedSteps = completed_steps(config_snapshot'[thread[t].row])])
    /\ Finish /\ UNCHANGED project

-----------------------------------------------------------------------------
(* The validation page: a result stays when a later run fails.             *)

handleValidate ==
    /\ StartButton \/ ReapplyFix \/ RetryButton
    /\ page' = [page EXCEPT !.isValidating = TRUE, !.error = "none"]
    /\ Send("validate", 1, Unset)
    /\ UNCHANGED <<vars, project>>

ServeValidate(t) ==
    /\ Asked("validate")
    /\ \E d \in Deployments : ValidateRead(t, d)
    /\ Serve
ValidateRefused(t) ==
    /\ Asked("validate") /\ Busy(t, "idle")
    /\ \A d \in Drafts : LatestDraft(d) => ~AllStepsDone(config_snapshot[d])
    /\ Show(Failed("other"))
    /\ Finish /\ UNCHANGED <<vars, project>>
ValidateAnswered(t) ==
    /\ Serving("validate")
    /\ \/ \E id \in ValidationIds :
             /\ ValidatePass(t, id)
             /\ Show([page EXCEPT !.isValidating = FALSE, !.result = id])
       \/ ValidateManualEdit(t) /\ Show(Failed("manual_edit"))
       \/ /\ ValidateReject(t)
          /\ \E e \in {"TERRAFORM_ERROR", "other"} : Show(Failed(e))
    /\ Finish /\ UNCHANGED project

-----------------------------------------------------------------------------
(* The deploy page's request, which carries the id of its address.         *)

handleDeploy(t) ==
    /\ page.at = "deploy"
    /\ \E d \in Deployments : DeployRead(t, d, page.validationId)
    /\ UNCHANGED wizard

Backend(t) ==
    /\ \/ create_initial_deployment(t) \/ SaveRefresh(t)
       \/ DeployCheck(t) \/ DeployUpload(t) \/ DeployUploadFails(t)
       \/ DeployCommit(t) \/ DeploySpawn(t) \/ DeploySpawnFails(t)
    /\ UNCHANGED wizard

Callback ==
    /\ \E d \in Deployments, r \in {"completed", "partial_failed", "failed"} :
          deployment_complete_callback(d, r)
    /\ UNCHANGED wizard

-----------------------------------------------------------------------------
Navigate == OpenByAddress \/ ExitWizard \/ GoToValidation \/ EditSettings
                \/ GoToDeploy

Pages ==
    \/ TypeForm \/ handleCreateProject \/ handleAnalyze \/ AnalysisEnds
    \/ onComplete \/ PressPrev \/ handleSaveStep \/ CidrRejected
    \/ handleValidate \/ RequestFails
    \/ \E s \in InputSteps : \E text \in Texts(s) : TypeStep(s, text)

Endpoints(t) ==
    \/ ServeSave(t) \/ SaveRefused(t) \/ SaveAnswered(t)
    \/ ServeValidate(t) \/ ValidateRefused(t) \/ ValidateAnswered(t)
    \/ handleDeploy(t) \/ Backend(t)

WizardNext ==
    \/ Navigate \/ Pages \/ ProjectCreated \/ CreateRefused \/ Callback
    \/ \E t \in Threads : Endpoints(t)

WizardSpec == WizardInit /\ [][WizardNext]_wvars

-----------------------------------------------------------------------------
(* Properties *)

NewPages ==
    [at : {"new"}, phase : {"project-create", "step1", "wizard", "summary"},
     step : Steps, projectForm : {"blank", "filled"},
     completedSteps : SUBSET Steps, isSubmitting : BOOLEAN,
     stepConfigs : [InputSteps -> Configs \cup {Unset, Bad}],
     cidrError : BOOLEAN, isAnalyzing : BOOLEAN,
     analysis : {"none", "result"}, aside : SUBSET InputSteps]
ValidatePages ==
    [at : {"validate"}, isValidating : BOOLEAN, result : ValidationIds \cup {NoId},
     error : {"none", "TIMEOUT", "other", "manual_edit", "TERRAFORM_ERROR"}]
DeployPages == [at : {"deploy"}, validationId : ValidationIds \cup {NoId}]
Requests ==
    [kind : {"none", "create", "save", "validate"}, served : BOOLEAN,
     live : BOOLEAN, step : Steps, config : Configs \cup {Unset}]

(* The pages and the request have the shapes the components declare.        *)
WizardTypeOK ==
    /\ TypeOK
    /\ page \in {Away} \cup NewPages \cup ValidatePages \cup DeployPages
    /\ request \in Requests
    /\ project \in {"none", "exists"}

(* NewProjectPageContent.tsx calls the summary the last check before a
   deployment.  It is only shown when every step is in the draft, and shows
   what the draft holds, also after answers that were lost and with edits made
   while a step was saved, except for a field that was typed into while another
   step was being saved.                                                    *)
SummaryShowsSaved ==
    Summary =>
        \E d \in Deployments :
            /\ LatestDraft(d)
            /\ \A s \in Steps : config_snapshot[d][s] \in {Shown(s)} \cup
                   IF s \in page.aside THEN Configs ELSE {}
=============================================================================
