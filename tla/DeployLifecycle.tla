--------------------------- MODULE DeployLifecycle ---------------------------
(***************************************************************************)
(* The life of one project's deployments once the wizard has a draft:      *)
(* POST /deploy, /deployments/{id}/action and DELETE /projects/{id} of the *)
(* backend, the ephemeral ECS tasks that run Terraform                     *)
(* (terraform-runner/entrypoint.sh) and the callback each of them sends    *)
(* (deployment_complete_callback).                                         *)
(*                                                                         *)
(* Handlers run concurrently and take no row locks, so each is split where *)
(* it reads, commits or starts a task.  Any of them may die with the       *)
(* backend between two steps, a task may be stopped, and a callback may be *)
(* lost: curl is tried once.                                               *)
(*                                                                         *)
(* One element of Requests is one HTTP call; it starts at most one task,   *)
(* so the task is named by the request that started it.                    *)
(***************************************************************************)
EXTENDS Naturals, FiniteSets

CONSTANTS
    Requests,        (* the HTTP calls users make, at most one task each   *)
    MaxDeployments,  (* bound on deployment rows                           *)
    MaxActive,       (* how many handlers may run at once                  *)
    NoRequest        (* nobody holds the Terraform state lock              *)

ASSUME LifecycleAssumption ==
    /\ MaxDeployments \in Nat
    /\ MaxActive \in Nat
    /\ NoRequest \notin Requests

Deployments == 1 .. MaxDeployments   \* in the order of started_at
NoRow       == 0

VARIABLES
    project,    (* projects.status, or "deleted" when the row is gone      *)
    status,     (* deployments.status, or "absent"                         *)
    main_tf,    (* deployments whose main.tf is in S3                      *)
    req,        (* each request: operation, row it works on, where it is   *)
    task,       (* the ECS task a request started, and what it reports     *)
    tf_lock,    (* holder of the project's lock in autoops-terraform-lock  *)
    aws,        (* what the project's Terraform state holds in AWS         *)
    applied,    (* deployments for which terraform apply has succeeded     *)
    published,  (* deployments announced to MirrorOps on EventBridge       *)
    stranded    (* deployments hit by a fault that nothing repairs         *)

vars == <<project, status, main_tf, req, task, tf_lock, aws,
          applied, published, stranded>>
database == <<project, status>>
runner   == <<task, tf_lock, aws, applied>>

Statuses == {"absent", "created", "deploying", "completed", "partial_failed",
             "failed", "destroying", "destroy_failed", "destroyed"}

(* "retry" is both resume and fix_retry: they differ in fix_params only.   *)
Operations == {"none", "deploy", "retry", "full_destroy", "delete"}
IsApply(r) == req[r].op \in {"deploy", "retry"}

Results == {"completed", "partial_failed", "failed",
            "destroyed", "destroy_failed"}

RequestStates ==
    [op : Operations, row : Deployments \cup {NoRow},
     pc : {"waiting", "check", "upload", "commit", "spawn", "purge", "done"}]
TaskStates ==
    [phase : {"none", "starting", "terraform", "reporting",
              "publishing", "purging", "ended"},
     result : Results]

Waiting == [op |-> "none", row |-> NoRow, pc |-> "waiting"]
NoTask  == [phase |-> "none", result |-> "failed"]

Active(r) == req[r].pc \notin {"waiting", "done"}
At(r, op, pc) == req[r].op = op /\ req[r].pc = pc
Present(d)    == status[d] # "absent"
RowOf(r)      == req[r].row

(* The request enters its handler, goes on, or is answered.                *)
Begin(r, op, d, pc) ==
    /\ req[r].pc = "waiting"
    /\ Cardinality({q \in Requests : Active(q)}) < MaxActive
    /\ req' = [req EXCEPT ![r] = [op |-> op, row |-> d, pc |-> pc]]
Goto(r, pc) == req' = [req EXCEPT ![r].pc = pc]
Return(r)   == Goto(r, "done")

StartTask(r) ==
    task' = [task EXCEPT ![r] = [NoTask EXCEPT !.phase = "starting"]]
SetStatus(d, s) == status' = [status EXCEPT ![d] = s]
Strand(d)       == stranded' = stranded \cup {d}

Init ==
    /\ project   = "created"
    /\ status    = [d \in Deployments |-> "absent"]
    /\ main_tf   = {}
    /\ req       = [r \in Requests |-> Waiting]
    /\ task      = [r \in Requests |-> NoTask]
    /\ tf_lock   = NoRequest
    /\ aws       = "none"
    /\ applied   = {}
    /\ published = {}
    /\ stranded  = {}

-----------------------------------------------------------------------------
(* The wizard: save_config inserts a draft, which the steps of CraftGate
   make ready for deploy.  Two such requests at once insert two drafts, and
   the one with the earlier started_at may be committed last.              *)
create_initial_deployment(d) ==
    /\ project # "deleted"
    /\ ~Present(d)
    /\ SetStatus(d, "created")
    /\ UNCHANGED <<project, main_tf, req, runner, published, stranded>>

-----------------------------------------------------------------------------
(* deploy *)

LatestDraft(d) ==
    /\ status[d] = "created"
    /\ \A e \in Deployments : status[e] = "created" => e <= d

(* The newest draft is taken. *)
DeployRead(r, d) ==
    /\ project # "deleted"
    /\ LatestDraft(d)
    /\ Begin(r, "deploy", d, "check")
    /\ UNCHANGED <<database, main_tf, runner, published, stranded>>

(* A second query: a row of the project that is deploying means a 409.     *)
DeployCheck(r) ==
    /\ At(r, "deploy", "check")
    /\ \/ (\A e \in Deployments : status[e] # "deploying") /\ Goto(r, "upload")
       \/ (\E e \in Deployments : status[e] = "deploying") /\ Return(r)
    /\ UNCHANGED <<database, main_tf, runner, published, stranded>>

DeployUpload(r) ==
    /\ At(r, "deploy", "upload")
    /\ main_tf' = main_tf \cup {RowOf(r)}
    /\ Goto(r, "commit")
    /\ UNCHANGED <<database, runner, published, stranded>>

(* Mutant: a failed upload is logged and the handler goes on.              *)
DeployUploadFails_Ignored(r) ==
    /\ At(r, "deploy", "upload")
    /\ Goto(r, "commit")
    /\ UNCHANGED <<database, main_tf, runner, published, stranded>>

(* The upload raised: a 500. *)
DeployUploadFails(r) ==
    /\ At(r, "deploy", "upload")
    /\ Return(r)
    /\ UNCHANGED <<database, main_tf, runner, published, stranded>>

(* The status is overwritten whatever it is by now; if the row has been
   deleted, SQLAlchemy raises and the request ends.                        *)
DeployCommit(r) ==
    /\ At(r, "deploy", "commit")
    /\ \/ Present(RowOf(r)) /\ SetStatus(RowOf(r), "deploying")
                            /\ Goto(r, "spawn")
       \/ ~Present(RowOf(r)) /\ UNCHANGED status /\ Return(r)
    /\ UNCHANGED <<project, main_tf, runner, published, stranded>>

(* The commit expired the session's objects: building the arguments of
   run_task reads the rows again, so nothing is started once they are gone. *)
DeploySpawn(r) ==
    /\ At(r, "deploy", "spawn")
    /\ Present(RowOf(r))
    /\ StartTask(r)
    /\ Return(r)
    /\ UNCHANGED <<database, main_tf, tf_lock, aws, applied, published,
                   stranded>>

(* Mutant: the failure is answered, and the row left as it was committed.  *)
DeploySpawnFails_RowLeft(r) ==
    /\ At(r, "deploy", "spawn")
    /\ Return(r)
    /\ UNCHANGED <<database, main_tf, runner, published, stranded>>

(* run_task failed, or the rows are gone: the row, if any, becomes failed. *)
DeploySpawnFails(r) ==
    /\ At(r, "deploy", "spawn")
    /\ IF Present(RowOf(r)) THEN SetStatus(RowOf(r), "failed")
                            ELSE UNCHANGED status
    /\ Return(r)
    /\ UNCHANGED <<project, main_tf, runner, published, stranded>>

-----------------------------------------------------------------------------
(* deployment_action *)

RetryAllowed   == {"partial_failed"}
(* Mutants: a destroy may be repeated, or cut a deployment short.          *)
DestroyAllowed_Repeated ==
    {"completed", "partial_failed", "failed", "destroy_failed", "destroying"}
DestroyAllowed_Deploying ==
    {"completed", "partial_failed", "failed", "destroy_failed", "deploying"}

DestroyAllowed == {"completed", "partial_failed", "failed", "destroy_failed"}

ActionCheck(r, op, d) ==
    /\ project # "deleted"
    /\ op = "retry"        => status[d] \in RetryAllowed
    /\ op = "full_destroy" => status[d] \in DestroyAllowed
    /\ Begin(r, op, d, "commit")
    /\ UNCHANGED <<database, main_tf, runner, published, stranded>>

(* resume, fix_retry: the new status is committed first. *)
RetryCommit(r) ==
    /\ At(r, "retry", "commit")
    /\ \/ Present(RowOf(r)) /\ SetStatus(RowOf(r), "deploying")
                            /\ Goto(r, "upload")
       \/ ~Present(RowOf(r)) /\ UNCHANGED status /\ Return(r)
    /\ UNCHANGED <<project, main_tf, runner, published, stranded>>

RetryUpload(r) ==
    /\ At(r, "retry", "upload")
    /\ Present(RowOf(r))
    /\ main_tf' = main_tf \cup {RowOf(r)}
    /\ Goto(r, "spawn")
    /\ UNCHANGED <<database, runner, published, stranded>>

DestroyCommit(r) ==
    /\ At(r, "full_destroy", "commit")
    /\ \/ Present(RowOf(r)) /\ SetStatus(RowOf(r), "destroying")
                            /\ Goto(r, "spawn")
       \/ ~Present(RowOf(r)) /\ UNCHANGED status /\ Return(r)
    /\ UNCHANGED <<project, main_tf, runner, published, stranded>>

(* full_destroy reads the account and project again after its commit; retry
   has done so before the upload.                                          *)
ActionSpawn(r) ==
    /\ \/ At(r, "retry", "spawn")
       \/ At(r, "full_destroy", "spawn") /\ Present(RowOf(r))
    /\ StartTask(r)
    /\ Return(r)
    /\ UNCHANGED <<database, main_tf, tf_lock, aws, applied, published,
                   stranded>>

(* The upload or run_task raises (or the rows are gone): unlike deploy, no
   handler catches it, and the row keeps the status that was committed.    *)
ActionRaises(r) ==
    /\ At(r, "retry", "upload") \/ At(r, "retry", "spawn")
        \/ At(r, "full_destroy", "spawn")
    /\ Strand(RowOf(r))
    /\ Return(r)
    /\ UNCHANGED <<database, main_tf, runner, published>>

-----------------------------------------------------------------------------
(* delete_project *)

NewestRow(d) == Present(d) /\ \A e \in Deployments : Present(e) => e <= d

(* A task is only started if the box is ticked, the project's status is one
   of four, and there is a row; it is given the newest row.                *)
DeleteReadDestroy(r, d) ==
    /\ project \in {"completed", "partial_failed", "failed", "destroy_failed"}
    /\ NewestRow(d)
    /\ Begin(r, "delete", d, "spawn")
    /\ UNCHANGED <<database, main_tf, runner, published, stranded>>

(* The box ticked or not, no task is started. *)
DeleteReadKeep(r) ==
    /\ project # "deleted"
    /\ Begin(r, "delete", NoRow, "purge")
    /\ UNCHANGED <<database, main_tf, runner, published, stranded>>

(* Fire and forget: nobody waits for the callback. *)
DeleteSpawn(r) ==
    /\ At(r, "delete", "spawn")
    /\ StartTask(r)
    /\ Goto(r, "purge")
    /\ UNCHANGED <<database, main_tf, tf_lock, aws, applied, published,
                   stranded>>

DeleteSpawnFails(r) ==
    /\ At(r, "delete", "spawn")
    /\ Return(r)
    /\ UNCHANGED <<database, main_tf, runner, published, stranded>>

(* One transaction removes every row of the project and the project.       *)
_delete_project_records ==
    /\ project' = "deleted"
    /\ status'  = [d \in Deployments |-> "absent"]

(* A draft committed between the DELETE of the deployments and that of the
   project: the foreign key makes the transaction fail.                    *)
DeleteRacesInsert(d) ==
    /\ project # "deleted"
    /\ ~Present(d)
    /\ SetStatus(d, "created")
    /\ UNCHANGED project

DeletePurge(r) ==
    /\ At(r, "delete", "purge")
    /\ _delete_project_records \/ \E d \in Deployments : DeleteRacesInsert(d)
    /\ Return(r)
    /\ UNCHANGED <<main_tf, runner, published, stranded>>

-----------------------------------------------------------------------------
(* The ECS task: terraform-runner/entrypoint.sh *)

Report(r, result) ==
    task' = [task EXCEPT ![r] = [phase |-> "reporting", result |-> result]]
InPhase(r, phase) == task[r].phase = phase

(* Mutant: the script exits on an early error without its callback.        *)
TaskStartFails_Silent(r) ==
    /\ InPhase(r, "starting")
    /\ task' = [task EXCEPT ![r].phase = "ended"]
    /\ UNCHANGED <<database, main_tf, req, tf_lock, aws, applied, published,
                   stranded>>

(* main.tf cannot be copied, the role cannot be assumed, or init fails.    *)
TaskStartFails(r) ==
    /\ InPhase(r, "starting")
    /\ \/ Report(r, "failed")
       \/ /\ RowOf(r) \in main_tf
          /\ ~IsApply(r)
          /\ Report(r, "destroy_failed")
    /\ UNCHANGED <<database, main_tf, req, tf_lock, aws, applied, published,
                   stranded>>

(* Terraform takes the lock on the project's state: one state and one lock
   for all deployments of a project.                                       *)
TaskLocks(r) ==
    /\ InPhase(r, "starting")
    /\ RowOf(r) \in main_tf
    /\ tf_lock = NoRequest
    /\ tf_lock' = r
    /\ task' = [task EXCEPT ![r].phase = "terraform"]
    /\ UNCHANGED <<database, main_tf, req, aws, applied, published, stranded>>

(* Without -lock-timeout a held lock is an error at once. *)
TaskFindsLock(r) ==
    /\ InPhase(r, "starting")
    /\ RowOf(r) \in main_tf
    /\ tf_lock # NoRequest
    /\ Report(r, IF IsApply(r) THEN "partial_failed" ELSE "destroy_failed")
    /\ UNCHANGED <<database, main_tf, req, tf_lock, aws, applied, published,
                   stranded>>

TaskApplies(r) ==
    /\ InPhase(r, "terraform")
    /\ IsApply(r)
    /\ aws' = "full"
    /\ applied' = applied \cup {RowOf(r)}
    /\ tf_lock' = NoRequest
    /\ Report(r, "completed")
    /\ UNCHANGED <<database, main_tf, req, published, stranded>>

TaskDestroys(r) ==
    /\ InPhase(r, "terraform")
    /\ ~IsApply(r)
    /\ aws' = "none"
    /\ tf_lock' = NoRequest
    /\ Report(r, "destroyed")
    /\ UNCHANGED <<database, main_tf, req, applied, published, stranded>>

(* Mutant: the exit code of terraform apply is not looked at.              *)
TaskTerraformFails_Unnoticed(r) ==
    /\ InPhase(r, "terraform")
    /\ aws' \in {aws, "partial"}
    /\ tf_lock' = NoRequest
    /\ Report(r, IF IsApply(r) THEN "completed" ELSE "destroyed")
    /\ UNCHANGED <<database, main_tf, req, applied, published, stranded>>

(* Terraform gives up, before or after it has changed something. *)
TaskTerraformFails(r) ==
    /\ InPhase(r, "terraform")
    /\ aws' \in {aws, "partial"}
    /\ tf_lock' = NoRequest
    /\ Report(r, IF IsApply(r) THEN "partial_failed" ELSE "destroy_failed")
    /\ UNCHANGED <<database, main_tf, req, applied, published, stranded>>

Alive(r) == task[r].phase \in {"starting", "terraform", "reporting"}
End(r)   == task' = [task EXCEPT ![r].phase = "ended"]

(* The task is stopped, or its only curl does not get through.  A lock it
   held stays in DynamoDB.                                                 *)
TaskIsLost(r) ==
    /\ Alive(r)
    /\ End(r)
    /\ Strand(RowOf(r))
    /\ aws' \in IF InPhase(r, "terraform") THEN {aws, "partial"} ELSE {aws}
    /\ UNCHANGED <<database, main_tf, req, tf_lock, applied, published>>

-----------------------------------------------------------------------------
(* deployment_complete_callback *)

(* 404: the row has been deleted. *)
CallbackNotFound(r) ==
    /\ InPhase(r, "reporting")
    /\ ~Present(RowOf(r))
    /\ End(r)
    /\ UNCHANGED <<database, main_tf, req, tf_lock, aws, applied, published,
                   stranded>>

(* Mutant: the row is written (merged) whether or not it still exists.     *)
CallbackCommit_Upsert(r) ==
    LET result == task[r].result IN
    /\ InPhase(r, "reporting")
    /\ RowOf(r) # NoRow
    /\ SetStatus(RowOf(r), result)
    /\ task' = [task EXCEPT ![r].phase = "ended"]
    /\ UNCHANGED <<project, main_tf, req, tf_lock, aws, applied, published,
                   stranded>>

(* Mutant: the project takes every status a row takes.                     *)
CallbackCommit_ProjectToo(r) ==
    LET result == task[r].result IN
    /\ InPhase(r, "reporting")
    /\ Present(RowOf(r))
    /\ SetStatus(RowOf(r), result)
    /\ project' = result
    /\ End(r)
    /\ UNCHANGED <<main_tf, req, tf_lock, aws, applied, published, stranded>>

(* The row takes the reported status, whatever it holds; "completed" and
   "destroyed" have more to do.                                            *)
CallbackCommit(r) ==
    LET result == task[r].result IN
    /\ InPhase(r, "reporting")
    /\ Present(RowOf(r))
    /\ SetStatus(RowOf(r), result)
    /\ project' = IF result = "completed" THEN "completed" ELSE project
    /\ task' = [task EXCEPT ![r].phase =
                  CASE result = "completed" -> "publishing"
                    [] result = "destroyed" -> "purging"
                    [] OTHER                -> "ended"]
    /\ UNCHANGED <<main_tf, req, tf_lock, aws, applied, published, stranded>>

(* InfraDeploymentCompleted goes to EventBridge. *)
CallbackPublish(r) ==
    /\ InPhase(r, "publishing")
    /\ project # "deleted"
    /\ published' = published \cup {RowOf(r)}
    /\ End(r)
    /\ UNCHANGED <<database, main_tf, req, tf_lock, aws, applied, stranded>>

(* put_events raises, which is only logged (or the project is gone). *)
CallbackPublishFails(r) ==
    /\ InPhase(r, "publishing")
    /\ End(r)
    /\ UNCHANGED <<database, main_tf, req, tf_lock, aws, applied, published,
                   stranded>>

CallbackPurge(r) ==
    /\ InPhase(r, "purging")
    /\ _delete_project_records \/ \E d \in Deployments : DeleteRacesInsert(d)
    /\ End(r)
    /\ UNCHANGED <<main_tf, req, tf_lock, aws, applied, published, stranded>>

-----------------------------------------------------------------------------
(* The handler has committed "deploying" or "destroying" and has yet to
   start the task.                                                         *)
OwesTask(r) ==
    \/ At(r, "deploy", "spawn")
    \/ At(r, "retry", "upload") \/ At(r, "retry", "spawn")
    \/ At(r, "full_destroy", "spawn")

(* The backend restarts: every handler under way is gone, callbacks too.   *)
Restart ==
    /\ \E r \in Requests :
          Active(r) \/ InPhase(r, "publishing") \/ InPhase(r, "purging")
    /\ req'  = [r \in Requests |->
                  IF Active(r) THEN [req[r] EXCEPT !.pc = "done"] ELSE req[r]]
    /\ task' = [r \in Requests |->
                  IF InPhase(r, "publishing") \/ InPhase(r, "purging")
                  THEN [task[r] EXCEPT !.phase = "ended"] ELSE task[r]]
    /\ stranded' = stranded \cup {RowOf(r) : r \in {q \in Requests : OwesTask(q)}}
    /\ UNCHANGED <<database, main_tf, tf_lock, aws, applied, published>>

Arrive(r) ==
    \/ \E d \in Deployments :
          \/ DeployRead(r, d)
          \/ \E op \in {"retry", "full_destroy"} : ActionCheck(r, op, d)
          \/ DeleteReadDestroy(r, d)
    \/ DeleteReadKeep(r)

Handle(r) ==
    \/ DeployCheck(r)  \/ DeployUpload(r) \/ DeployUploadFails(r)
    \/ DeployCommit(r)
    \/ DeploySpawn(r)  \/ DeploySpawnFails(r)
    \/ RetryCommit(r)  \/ RetryUpload(r)
    \/ DestroyCommit(r)
    \/ ActionSpawn(r)  \/ ActionRaises(r)
    \/ DeleteSpawn(r)  \/ DeleteSpawnFails(r) \/ DeletePurge(r)

RunTask(r) ==
    \/ TaskStartFails(r) \/ TaskLocks(r) \/ TaskFindsLock(r)
    \/ TaskApplies(r) \/ TaskDestroys(r) \/ TaskTerraformFails(r)

deployment_complete_callback(r) ==
    \/ CallbackNotFound(r) \/ CallbackCommit(r)
    \/ CallbackPublish(r)  \/ CallbackPublishFails(r)
    \/ CallbackPurge(r)

Next ==
    \/ \E d \in Deployments : create_initial_deployment(d)
    \/ \E r \in Requests :
          \/ Arrive(r) \/ Handle(r) \/ RunTask(r)
          \/ deployment_complete_callback(r)
          \/ TaskIsLost(r)
    \/ Restart

Spec == Init /\ [][Next]_vars

(* A handler that has begun, a task that runs and a callback that was sent
   go on; users, faults and restarts owe nothing.                          *)
Fairness ==
    \A r \in Requests :
        /\ WF_vars(Handle(r))
        /\ WF_vars(RunTask(r))
        /\ WF_vars(deployment_complete_callback(r))

FairSpec == Spec /\ Fairness

-----------------------------------------------------------------------------
(* Properties *)

(* Every variable keeps the shape the database, S3 and ECS give it.        *)
TypeOK ==
    /\ project \in {"created", "completed", "deleted"}
    /\ status \in [Deployments -> Statuses]
    /\ main_tf \subseteq Deployments
    /\ req \in [Requests -> RequestStates]
    /\ task \in [Requests -> TaskStates]
    /\ tf_lock \in Requests \cup {NoRequest}
    /\ aws \in {"none", "partial", "full"}
    /\ applied \subseteq Deployments
    /\ published \subseteq Deployments
    /\ stranded \subseteq Deployments

(* Once a project is deleted, nothing brings a row of it back: neither a
   deploy or action that had read its row before, nor a late callback, nor a
   draft inserted meanwhile (the foreign key, and UPDATEs by primary key).  *)
DeletedProjectHasNoRows ==
    project = "deleted" => \A d \in Deployments : ~Present(d)

(* A task that applies finds the main.tf of its deployment in S3, whichever
   way the row got there: deploy uploads before it commits the status, and a
   row only becomes partial_failed, which retry requires, after an apply.  *)
ApplyFindsItsHcl ==
    \A r \in Requests :
        task[r].phase # "none" /\ IsApply(r) => RowOf(r) \in main_tf

(* "completed" is never claimed of what was not built: a completed row, an
   announcement to MirrorOps and a completed project each rest on a
   terraform apply that succeeded, for that very row in the first two.     *)
CompletionIsReal ==
    /\ \A d \in Deployments : status[d] = "completed" => d \in applied
    /\ published \subseteq applied
    /\ project = "completed" => applied # {}

(* Somebody will still write the row's outcome: a handler that owes the
   task, the task, or its callback.                                        *)
InProgress(d) ==
    \E r \in Requests :
        RowOf(r) = d /\ req[r].op # "delete" /\ (OwesTask(r) \/ Alive(r))

InFlight(d) == status[d] \in {"deploying", "destroying"}

(* A row that says deploying or destroying while nothing is in progress got
   there by a fault the code leaves unrepaired: a restart after the commit,
   an action whose upload or run_task raised, a lost task or callback.  No
   order of requests, tasks and callbacks alone leaves a row stuck.        *)
OnlyFaultsStrand ==
    \A d \in Deployments : InFlight(d) /\ ~InProgress(d) => d \in stranded

(* The same seen from the user: a deployment under way comes to an end (the
   runner reports whatever happens to it), unless a fault strands it.      *)
InFlightEnds ==
    \A d \in Deployments : InFlight(d) ~> (~InFlight(d) \/ d \in stranded)

(* delete_project has started a task: it reports on the newest row too.    *)
DeleteHasTask ==
    \E r \in Requests : req[r].op = "delete" /\ task[r].phase # "none"

(* With one request served at a time a row never has two tasks under way,
   however slow the tasks and callbacks are and whatever is lost; only a
   delete_project that started a task and did not get to purge breaks this. *)
OneTaskPerRow ==
    \A q, r \in Requests :
        ~DeleteHasTask /\ Alive(q) /\ Alive(r) /\ RowOf(q) = RowOf(r) => q = r

(* Nor is a row shown as settled, and open to further actions, while a task
   works on it: no callback of an earlier task arrives late.               *)
RunningRowsSaySo ==
    \A r \in Requests :
        ~DeleteHasTask /\ Alive(r) /\ Present(RowOf(r)) =>
            status[RowOf(r)] = IF IsApply(r) THEN "deploying" ELSE "destroying"

(* The abstract record that the pages, the event stream and MirrorOps read. *)
Record == INSTANCE DeploymentRecord
              WITH project <- project, status <- status,
                   applied <- applied, published <- published

(* Whatever handlers, tasks, callbacks and faults do, the tables change only
   as DeploymentRecord says: a draft stays in its past, a result is never
   written to a row that is gone nor "completed" to one that was not applied,
   and rows and project disappear in one step.                             *)
ImplementsRecord == Record!RecordSpec

(* When a destroy reports success the project's records go (craft.py:617):
   nothing of the project is left in AWS then, and nothing is being built.  *)
RecordsOutliveResources ==
    (\E r \in Requests : InPhase(r, "purging")) => aws = "none"
=============================================================================
