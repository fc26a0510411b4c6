------------------------------ MODULE CraftGate ------------------------------
(***************************************************************************)
(* The CraftOps wizard and the gate in front of a deployment, for one      *)
(* project: POST /api/craft/config (save_config), /api/craft/validate and  *)
(* /api/craft/deploy, as the synchronous handlers of                       *)
(* backend/app/api/craft.py run them.  FastAPI runs such handlers on a     *)
(* pool of threads, each with a SQLAlchemy session at READ COMMITTED and   *)
(* without row locks, so a handler is split where it reads or commits.     *)
(*                                                                         *)
(* The project row exists throughout, and of a Terraform task only its     *)
(* callback is seen; what the tasks do, the operations on a row that left  *)
(* the draft stage and the deletion of the project are in DeployLifecycle. *)
(***************************************************************************)
EXTENDS Naturals

CONSTANTS
    Threads,         (* handler threads of the backend's pool              *)
    Configs,         (* what a user may enter at one wizard step           *)
    NumSteps,        (* wizard steps; 6 in the code, "2-1" .. "2-6"        *)
    MaxDeployments,  (* bound on deployment rows                           *)
    MaxValidations,  (* bound on validation ids handed out                 *)
    Unset,           (* a wizard step that is not in the snapshot          *)
    NoHcl            (* the empty terraform_code, or no object in S3       *)

Steps       == 1 .. NumSteps
Deployments == 1 .. MaxDeployments   \* in the order of started_at
NoRow       == 0

(* config_snapshot: what each completed step holds.  completed_steps is the
   set of steps that hold something, as both are written together.         *)
Snapshots     == [Steps -> Configs \cup {Unset}]
EmptySnapshot == [s \in Steps |-> Unset]
completed_steps(snap) == {s \in Steps : snap[s] # Unset}
AllStepsDone(snap)    == completed_steps(snap) = Steps

(* HCLGenerator renders a snapshot deterministically, so the HCL text is
   represented by the snapshot it was rendered from.                       *)
Hcl == Snapshots \cup {NoHcl}

ASSUME GateAssumption ==
    /\ NumSteps \in Nat \ {0}
    /\ MaxDeployments \in Nat
    /\ MaxValidations \in Nat
    /\ Unset \notin Configs
    /\ NoHcl \notin Snapshots

ValidationIds == 1 .. MaxValidations
NoId          == 0                   \* validation_id absent, or sent as ""

Statuses == {"absent", "created", "deploying",
             "completed", "partial_failed", "failed"}

VARIABLES
    status,          (* deployments.status; "absent": no such row          *)
    config_snapshot, (* deployments.config_snapshot                        *)
    validation_id,   (* validation_result["validation_id"], NoId if none   *)
    terraform_code,  (* deployments.terraform_code                         *)
    main_tf,         (* S3 projects/{pid}/deployments/{did}/main.tf        *)
    tasks,           (* apply tasks of the row that have yet to report     *)
    scans,           (* the passing validations so far: id, row and HCL    *)
    raced,           (* the rows two saves, or two validations, of which
                        have been under way at once                        *)
    thread           (* what each thread is doing, with what it has read   *)

rows == <<status, config_snapshot, validation_id, terraform_code>>
vars == <<status, config_snapshot, validation_id, terraform_code,
          main_tf, tasks, scans, raced, thread>>

Idle == [pc |-> "idle", row |-> NoRow, snap |-> EmptySnapshot,
         step |-> 1, config |-> Unset, id |-> NoId, code |-> NoHcl]

BusyStates ==
    [pc : {"save_create", "save_refresh", "save_write", "validating",
           "deploy_check", "deploy_upload", "deploy_commit", "deploy_spawn"},
     row : Deployments, snap : Snapshots,
     step : Steps, config : Configs \cup {Unset},
     id : ValidationIds \cup {NoId}, code : Hcl]
ThreadStates == {Idle} \cup BusyStates

Busy(t, pc)  == thread[t].pc = pc
Goto(t, st)  == thread' = [thread EXCEPT ![t] = st]
Return(t)    == Goto(t, Idle)

(* The newest row still in the draft stage, which all three handlers take. *)
Drafts         == {d \in Deployments : status[d] = "created"}
LatestDraft(d) == d \in Drafts /\ \A e \in Drafts : e <= d

Init ==
    /\ status          = [d \in Deployments |-> "absent"]
    /\ config_snapshot = [d \in Deployments |-> EmptySnapshot]
    /\ validation_id   = [d \in Deployments |-> NoId]
    /\ terraform_code  = [d \in Deployments |-> NoHcl]
    /\ main_tf         = [d \in Deployments |-> NoHcl]
    /\ tasks           = [d \in Deployments |-> 0]
    /\ scans           = {}
    /\ raced           = [saves |-> {}, validations |-> {}]
    /\ thread          = [t \in Threads |-> Idle]

-----------------------------------------------------------------------------
(* save_config *)

(* Mutant: the range of required steps stops one short.                    *)
validate_step_prerequisites_Short(step, snap) ==
    1 .. (step - 2) \subseteq completed_steps(snap)

(* DAGEngine.validate_step_prerequisites: every earlier step is done.      *)
validate_step_prerequisites(step, snap) ==
    1 .. (step - 1) \subseteq completed_steps(snap)

(* The requests that save a step of the row, and those that validate it.   *)
Saves(d)       == {t \in Threads : thread[t].row = d /\ thread[t].pc \in
                       {"save_create", "save_refresh", "save_write"}}
Validations(d) == {t \in Threads : thread[t].row = d /\ thread[t].pc = "validating"}
Met(d, others) == IF others = {} THEN {} ELSE {d}

(* A draft exists: its snapshot is read and the prerequisites are checked
   against what was read (a 400 leaves no trace).                          *)
SaveRead(t, d, step, config) ==
    /\ Busy(t, "idle")
    /\ LatestDraft(d)
    /\ validate_step_prerequisites(step, config_snapshot[d])
    /\ Goto(t, [Idle EXCEPT !.pc = "save_write", !.row = d,
                            !.snap = config_snapshot[d],
                            !.step = step, !.config = config])
    /\ raced' = [raced EXCEPT !.saves = @ \cup Met(d, Saves(d))]
    /\ UNCHANGED <<rows, main_tf, tasks, scans>>

(* The next started_at: neither a row nor a request about to insert one has
   it, and all earlier ones are taken.                                     *)
Taken(d)   == status[d] # "absent"
                \/ \E t \in Threads : Busy(t, "save_create") /\ thread[t].row = d
NextRow(d) == ~Taken(d) /\ \A e \in Deployments : e < d => Taken(e)

(* No draft: only step "2-1" may go on, to create one.                     *)
SaveReadNoDraft(t, d, config) ==
    /\ Busy(t, "idle")
    /\ Drafts = {}
    /\ NextRow(d)
    /\ Goto(t, [Idle EXCEPT !.pc = "save_create", !.row = d, !.config = config])
    /\ UNCHANGED <<rows, main_tf, tasks, scans, raced>>

(* The row is inserted and committed without another look: two requests may
   each insert one, and the one with the earlier started_at may come last.  *)
create_initial_deployment(t) ==
    /\ Busy(t, "save_create")
    /\ status' = [status EXCEPT ![thread[t].row] = "created"]
    /\ Goto(t, [thread[t] EXCEPT !.pc = "save_refresh"])
    /\ UNCHANGED <<config_snapshot, validation_id, terraform_code,
                   main_tf, tasks, scans, raced>>

(* db.refresh reads the new row back; step "2-1" has no prerequisites.     *)
SaveRefresh(t) ==
    /\ Busy(t, "save_refresh")
    /\ Goto(t, [thread[t] EXCEPT !.pc = "save_write",
                                 !.snap = config_snapshot[thread[t].row]])
    /\ UNCHANGED <<rows, main_tf, tasks, scans, raced>>

(* Mutant: the step is written into a snapshot started afresh.             *)
SaveWrite_Afresh(t) ==
    LET me == thread[t] IN
    /\ Busy(t, "save_write")
    /\ config_snapshot' = [config_snapshot EXCEPT
            ![me.row] = [EmptySnapshot EXCEPT ![me.step] = me.config]]
    /\ Return(t)
    /\ UNCHANGED <<status, validation_id, terraform_code, main_tf, tasks, scans, raced>>

(* The whole snapshot that was read, with this step's entry replaced, is
   written back whatever the row holds by now; neither terraform_code nor
   validation_result is touched.                                           *)
SaveWrite(t) ==
    LET me == thread[t] IN
    /\ Busy(t, "save_write")
    /\ config_snapshot' = [config_snapshot EXCEPT
            ![me.row] = [me.snap EXCEPT ![me.step] = me.config]]
    /\ Return(t)
    /\ UNCHANGED <<status, validation_id, terraform_code, main_tf, tasks, scans, raced>>

-----------------------------------------------------------------------------
(* validate *)

(* Mutant: missing steps are not looked for.                               *)
ValidateRead_Incomplete(t, d) ==
    /\ Busy(t, "idle")
    /\ LatestDraft(d)
    /\ Goto(t, [Idle EXCEPT !.pc = "validating", !.row = d,
                            !.snap = config_snapshot[d],
                            !.code = terraform_code[d]])
    /\ raced' = [raced EXCEPT !.validations = @ \cup Met(d, Validations(d))]
    /\ UNCHANGED <<rows, main_tf, tasks, scans>>

(* All steps must be done in the snapshot that is read, with the row's other
   columns; the HCL is rendered from it and handed to the validation loop,
   which runs for minutes.                                                 *)
ValidateRead(t, d) ==
    /\ Busy(t, "idle")
    /\ LatestDraft(d)
    /\ AllStepsDone(config_snapshot[d])
    /\ Goto(t, [Idle EXCEPT !.pc = "validating", !.row = d,
                            !.snap = config_snapshot[d],
                            !.code = terraform_code[d]])
    /\ raced' = [raced EXCEPT !.validations = @ \cup Met(d, Validations(d))]
    /\ UNCHANGED <<rows, main_tf, tasks, scans>>

(* Mutant: the code that is stored is rendered again when the loop ends.   *)
ValidatePass_Rerendered(t, id) ==
    LET me == thread[t] IN
    /\ Busy(t, "validating")
    /\ id \notin {s.id : s \in scans}
    /\ 1 .. (id - 1) \subseteq {s.id : s \in scans}
    /\ terraform_code' = [terraform_code EXCEPT
            ![me.row] = IF config_snapshot[me.row] = me.code
                        THEN @ ELSE config_snapshot[me.row]]
    /\ validation_id'  = [validation_id EXCEPT ![me.row] = id]
    /\ scans' = scans \cup {[id |-> id, row |-> me.row, hcl |-> me.snap]}
    /\ Return(t)
    /\ UNCHANGED <<status, config_snapshot, main_tf, tasks, raced>>

(* The loop passed: code, a new id and the report are committed in one
   UPDATE.  SQLAlchemy leaves a column out of it whose new value equals the
   one that was loaded, so code that was stored before is not stored again,
   whatever the row holds by now; the report with the id is always new.    *)
ValidatePass(t, id) ==
    LET me == thread[t] IN
    /\ Busy(t, "validating")
    /\ id \notin {s.id : s \in scans}
    /\ 1 .. (id - 1) \subseteq {s.id : s \in scans}
    /\ terraform_code' = [terraform_code EXCEPT
            ![me.row] = IF me.snap = me.code THEN @ ELSE me.snap]
    /\ validation_id'  = [validation_id EXCEPT ![me.row] = id]
    /\ scans' = scans \cup {[id |-> id, row |-> me.row, hcl |-> me.snap]}
    /\ Return(t)
    /\ UNCHANGED <<status, config_snapshot, main_tf, tasks, raced>>

(* terraform init or validate failed: validation_result is replaced by one
   without an id, terraform_code keeps what an earlier pass stored.        *)
ValidateManualEdit(t) ==
    /\ Busy(t, "validating")
    /\ validation_id' = [validation_id EXCEPT ![thread[t].row] = NoId]
    /\ Return(t)
    /\ UNCHANGED <<status, config_snapshot, terraform_code, main_tf, tasks, scans, raced>>

(* A CRITICAL finding or an exception: an error answer, nothing is stored. *)
ValidateReject(t) ==
    /\ Busy(t, "validating")
    /\ Return(t)
    /\ UNCHANGED <<rows, main_tf, tasks, scans, raced>>

-----------------------------------------------------------------------------
(* deploy, and the callback of the task it starts *)

(* The ids a client can send: those it was given, or "" (the deploy page's
   default when its URL carries none).                                     *)
ClientIds == {s.id : s \in scans} \cup {NoId}

(* Mutant: the comparison of ids is taken to imply that there is code.     *)
DeployRead_NoCode(t, d, id) ==
    /\ Busy(t, "idle")
    /\ LatestDraft(d)
    /\ validation_id[d] = id
    /\ Goto(t, [Idle EXCEPT !.pc = "deploy_check", !.row = d,
                            !.snap = config_snapshot[d], !.id = id])
    /\ UNCHANGED <<rows, main_tf, tasks, scans, raced>>

(* The gate: the id equals the one saved in the draft, and there is code.   *)
DeployRead(t, d, id) ==
    /\ Busy(t, "idle")
    /\ LatestDraft(d)
    /\ validation_id[d] = id
    /\ terraform_code[d] # NoHcl
    /\ Goto(t, [Idle EXCEPT !.pc = "deploy_check", !.row = d,
                            !.snap = config_snapshot[d], !.id = id])
    /\ UNCHANGED <<rows, main_tf, tasks, scans, raced>>

(* A second query: is any row of the project deploying?  If so, a 409.     *)
DeployCheck(t) ==
    /\ Busy(t, "deploy_check")
    /\ \/ /\ \A e \in Deployments : status[e] # "deploying"
          /\ Goto(t, [thread[t] EXCEPT !.pc = "deploy_upload"])
       \/ /\ \E e \in Deployments : status[e] = "deploying"
          /\ Return(t)
    /\ UNCHANGED <<rows, main_tf, tasks, scans, raced>>

(* generate_for_deploy renders the snapshot as read by this handler, and
   upload_hcl_to_s3 stores it under the deployment's own key.              *)
DeployUpload(t) ==
    /\ Busy(t, "deploy_upload")
    /\ main_tf' = [main_tf EXCEPT ![thread[t].row] = thread[t].snap]
    /\ Goto(t, [thread[t] EXCEPT !.pc = "deploy_commit"])
    /\ UNCHANGED <<rows, tasks, scans, raced>>

(* The upload raised: a 500, nothing is stored.                            *)
DeployUploadFails(t) ==
    /\ Busy(t, "deploy_upload")
    /\ Return(t)
    /\ UNCHANGED <<rows, main_tf, tasks, scans, raced>>

(* deployment.status = "deploying": an UPDATE of that column by primary
   key, whatever the status is by now.                                     *)
DeployCommit(t) ==
    /\ Busy(t, "deploy_commit")
    /\ status' = [status EXCEPT ![thread[t].row] = "deploying"]
    /\ Goto(t, [thread[t] EXCEPT !.pc = "deploy_spawn"])
    /\ UNCHANGED <<config_snapshot, validation_id, terraform_code,
                   main_tf, tasks, scans, raced>>

(* spawn_apply_task starts an ECS task. *)
DeploySpawn(t) ==
    /\ Busy(t, "deploy_spawn")
    /\ tasks' = [tasks EXCEPT ![thread[t].row] = @ + 1]
    /\ Return(t)
    /\ UNCHANGED <<rows, main_tf, scans, raced>>

(* ECS started none: the row is marked failed. *)
DeploySpawnFails(t) ==
    /\ Busy(t, "deploy_spawn")
    /\ status' = [status EXCEPT ![thread[t].row] = "failed"]
    /\ Return(t)
    /\ UNCHANGED <<config_snapshot, validation_id, terraform_code,
                   main_tf, tasks, scans, raced>>

(* Mutant: a callback that was handled before is handled again.            *)
deployment_complete_callback_Again(d, result) ==
    /\ tasks' = [tasks EXCEPT ![d] = @ - 1]
    /\ status' = [status EXCEPT ![d] = result]
    /\ UNCHANGED <<config_snapshot, validation_id, terraform_code,
                   main_tf, scans, raced, thread>>

(* A task reports: the row takes the status it sends, whatever it holds.   *)
deployment_complete_callback(d, result) ==
    /\ tasks[d] > 0
    /\ tasks' = [tasks EXCEPT ![d] = @ - 1]
    /\ status' = [status EXCEPT ![d] = result]
    /\ UNCHANGED <<config_snapshot, validation_id, terraform_code,
                   main_tf, scans, raced, thread>>

-----------------------------------------------------------------------------
save_config(t) ==
    \/ \E d \in Deployments, step \in Steps, config \in Configs :
          SaveRead(t, d, step, config)
    \/ \E d \in Deployments, config \in Configs : SaveReadNoDraft(t, d, config)
    \/ create_initial_deployment(t)
    \/ SaveRefresh(t)
    \/ SaveWrite(t)

validate(t) ==
    \/ \E d \in Deployments : ValidateRead(t, d)
    \/ \E id \in ValidationIds : ValidatePass(t, id)
    \/ ValidateManualEdit(t)
    \/ ValidateReject(t)

deploy(t) ==
    \/ \E d \in Deployments, id \in ClientIds : DeployRead(t, d, id)
    \/ DeployCheck(t)
    \/ DeployUpload(t)
    \/ DeployUploadFails(t)
    \/ DeployCommit(t)
    \/ DeploySpawn(t)
    \/ DeploySpawnFails(t)

Next ==
    \/ \E t \in Threads : save_config(t) \/ validate(t) \/ deploy(t)
    \/ \E d \in Deployments, r \in {"completed", "partial_failed", "failed"} :
          deployment_complete_callback(d, r)

Spec == Init /\ [][Next]_vars

-----------------------------------------------------------------------------
(* Properties *)

(* Every variable keeps the shape the database and S3 give it.             *)
TypeOK ==
    /\ status \in [Deployments -> Statuses]
    /\ config_snapshot \in [Deployments -> Snapshots]
    /\ validation_id \in [Deployments -> ValidationIds \cup {NoId}]
    /\ terraform_code \in [Deployments -> Hcl]
    /\ main_tf \in [Deployments -> Hcl]
    /\ tasks \in [Deployments -> Nat]
    /\ scans \subseteq [id : ValidationIds, row : Deployments, hcl : Snapshots]
    /\ raced \in [saves : SUBSET Deployments, validations : SUBSET Deployments]
    /\ thread \in [Threads -> ThreadStates]

(* The completed steps of a snapshot are the first ones, without a hole.   *)
IsPrefix(snap) ==
    \A s \in Steps : snap[s] # Unset => \A e \in 1 .. s : snap[e] # Unset

(* Two requests that save steps of one draft at once overwrite each other's
   whole snapshot, and may drop steps that were saved, but they never leave
   a later step filled while an earlier one is empty (save_config checks the
   prerequisites on what it read, and writes back what it read).           *)
StepsArePrefix == \A d \in Deployments : IsPrefix(config_snapshot[d])

(* The stored code is HCL that passed a validation of this very row, and the
   stored id is that of a passing validation of this row, however validations
   overlap saves and each other.  Both are of one and the same validation,
   unless two validations of the row have been under way at once (validate
   writes the code only where it differs from what it loaded minutes ago, the
   id in any case).                                                        *)
IdNamesTheCode ==
    \A d \in Deployments :
        /\ terraform_code[d] # NoHcl =>
              \E s \in scans : s.row = d /\ s.hcl = terraform_code[d]
        /\ validation_id[d] # NoId =>
              \E s \in scans :
                  /\ s.row = d /\ s.id = validation_id[d]
                  /\ s.hcl = terraform_code[d] \/ d \in raced.validations

(* A row that has left the draft stage went through the gate: its main.tf
   is in S3, and some validation of this very row passed with all wizard
   steps done, whatever ids the client sent and whatever ran meanwhile.    *)
DeployedRowWasValidated ==
    \A d \in Deployments : status[d] \notin {"absent", "created"} =>
        /\ main_tf[d] # NoHcl
        /\ \E s \in scans : s.row = d /\ AllStepsDone(s.hcl)

(* The thread serves a deploy request that has passed the gate.            *)
Deploying(t) ==
    thread[t].pc \in {"deploy_check", "deploy_upload", "deploy_commit",
                      "deploy_spawn"}

(* A draft never loses a step that was saved, whatever validations, deploys
   and saves of other drafts run meanwhile: editing an early step keeps the
   later ones.  Only two saves of the same draft at once can lose one
   (save_config writes the whole snapshot it has read).                    *)
SavesAccumulate ==
    [][\A d \in Deployments \ raced.saves :
          completed_steps(config_snapshot[d])
              \subseteq completed_steps(config_snapshot'[d])]_vars

(* Nor does HCL reach S3 without every wizard step, although deploy itself
   never looks at completed_steps and renders whatever the snapshot holds by
   then, unless two saves of the draft have been under way at once.        *)
DeployedHclIsComplete ==
    \A d \in Deployments \ raced.saves :
        main_tf[d] # NoHcl => AllStepsDone(main_tf[d])

(* An accepted id is one of the row that is about to be deployed: with two
   drafts about (two requests for step "2-1" at once), the id of the older
   one does not deploy the newer one (deploy compares it with the row it
   takes, the newest draft).                                               *)
AcceptedIdIsOfThisRow ==
    \A t \in Threads :
        Deploying(t) /\ thread[t].id # NoId =>
            \E s \in scans : s.id = thread[t].id /\ s.row = thread[t].row
=============================================================================
