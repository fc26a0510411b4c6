------------------------ MODULE DeployLifecycleProofs ------------------------
(* Proofs about DeployLifecycle: its invariants hold for any number of
   requests, deployments and concurrent handlers.                          *)
EXTENDS DeployLifecycle, FiniteSetTheorems, TLAPS

USE DEF Deployments, NoRow

-----------------------------------------------------------------------------
(* What the building blocks of the actions do to requests and tasks.       *)

ReqType  == req \in [Requests -> RequestStates]
TaskType == task \in [Requests -> TaskStates]

(* Everybody but r is left alone.                                          *)
OnlyReq(r)  == \A q \in Requests \ {r} : req'[q] = req[q]
OnlyTask(r) == \A q \in Requests \ {r} : task'[q] = task[q]

LEMMA BeginEffect ==
    ASSUME ReqType, NEW r \in Requests,
           NEW op \in Operations, NEW d \in Deployments \cup {NoRow},
           NEW pc \in {"check", "commit", "spawn", "purge"}, Begin(r, op, d, pc)
    PROVE  /\ ReqType' /\ OnlyReq(r) /\ req[r].pc = "waiting"
           /\ req'[r].pc = pc /\ req'[r].row = d /\ req'[r].op = op
BY DEF ReqType, RequestStates, Begin, OnlyReq

LEMMA GotoEffect ==
    ASSUME ReqType, NEW r \in Requests,
           NEW pc \in {"upload", "commit", "spawn", "purge", "done"}, Goto(r, pc)
    PROVE  /\ ReqType' /\ OnlyReq(r)
           /\ req'[r].pc = pc /\ req'[r].row = req[r].row /\ req'[r].op = req[r].op
<1>1. req[r] \in RequestStates
      BY DEF ReqType
<1>2. req' = [req EXCEPT ![r] = [req[r] EXCEPT !.pc = pc]]
      BY DEF Goto
<1>3. [req[r] EXCEPT !.pc = pc] \in RequestStates
      BY <1>1 DEF RequestStates
<1> QED BY <1>1, <1>2, <1>3 DEF ReqType, RequestStates, OnlyReq

LEMMA StartTaskEffect ==
    ASSUME TaskType, NEW r \in Requests, StartTask(r)
    PROVE  TaskType' /\ OnlyTask(r) /\ task'[r].phase = "starting"
BY DEF TaskType, TaskStates, StartTask, NoTask, Results, OnlyTask

LEMMA ReportEffect ==
    ASSUME TaskType, NEW r \in Requests, NEW result \in Results, Report(r, result)
    PROVE  /\ TaskType' /\ OnlyTask(r)
           /\ task'[r].phase = "reporting" /\ task'[r].result = result
BY DEF TaskType, TaskStates, Report, OnlyTask

LEMMA PhaseEffect ==
    ASSUME TaskType, NEW r \in Requests,
           NEW phase \in {"terraform", "publishing", "purging", "ended"},
           task' = [task EXCEPT ![r].phase = phase]
    PROVE  /\ TaskType' /\ OnlyTask(r)
           /\ task'[r].phase = phase /\ task'[r].result = task[r].result
<1>1. task[r] \in TaskStates
      BY DEF TaskType
<1>2. [task[r] EXCEPT !.phase = phase] \in TaskStates
      BY <1>1 DEF TaskStates
<1> QED BY <1>1, <1>2 DEF TaskType, TaskStates, OnlyTask

LEMMA EndEffect ==
    ASSUME TaskType, NEW r \in Requests, End(r)
    PROVE  TaskType' /\ OnlyTask(r) /\ task'[r].phase = "ended"
BY PhaseEffect DEF End

LEMMA StatusEffect ==
    ASSUME status \in [Deployments -> Statuses], NEW d \in Deployments,
           NEW s, SetStatus(d, s)
    PROVE  status'[d] = s /\ \A e \in Deployments \ {d} : status'[e] = status[e]
BY DEF SetStatus

LEMMA ReturnEffect ==
    ASSUME ReqType, NEW r \in Requests, Return(r)
    PROVE  /\ ReqType' /\ OnlyReq(r)
           /\ req'[r].pc = "done" /\ req'[r].row = req[r].row /\ req'[r].op = req[r].op
BY GotoEffect DEF Return

-----------------------------------------------------------------------------
(* Type correctness *)

(* A request works on a row from the time it has read one, and so does its
   task; a request that has not arrived has neither.                       *)
RequestOK(r) ==
    /\ req[r].pc \in {"check", "upload", "commit", "spawn"}
          \/ task[r].phase # "none" => RowOf(r) \in Deployments
    /\ req[r].pc = "waiting" => RowOf(r) = NoRow /\ task[r].phase = "none"

TypeInv == TypeOK /\ \A r \in Requests : RequestOK(r)

LEMMA TypeInductive == TypeInv /\ [Next]_vars => TypeInv'
<1> SUFFICES ASSUME TypeInv, [Next]_vars PROVE TypeInv'
    OBVIOUS
<1>0. ReqType /\ TaskType
      BY DEF TypeInv, TypeOK, ReqType, TaskType
<1> USE LifecycleAssumption
    DEF TypeOK, TypeInv, RequestOK, ReqType, TaskType, OnlyReq, OnlyTask,
        database, runner, RowOf, SetStatus, Strand, At, InPhase
<1>1. ASSUME NEW d \in Deployments, create_initial_deployment(d) PROVE TypeInv'
      BY <1>1 DEF create_initial_deployment, Statuses, Present
<1>2. ASSUME NEW r \in Requests, Arrive(r) PROVE TypeInv'
  <2>1. ASSUME NEW d \in Deployments, DeployRead(r, d) PROVE TypeInv'
        BY <2>1, BeginEffect, <1>0 DEF DeployRead, Operations
  <2>2. ASSUME NEW d \in Deployments, NEW op \in {"retry", "full_destroy"},
               ActionCheck(r, op, d) PROVE TypeInv'
        BY <2>2, BeginEffect, <1>0 DEF ActionCheck, Operations
  <2>3. ASSUME NEW d \in Deployments, DeleteReadDestroy(r, d) PROVE TypeInv'
        BY <2>3, BeginEffect, <1>0 DEF DeleteReadDestroy, Operations
  <2>4. CASE DeleteReadKeep(r)
        BY <2>4, BeginEffect, <1>0 DEF DeleteReadKeep, Operations
  <2> QED BY <1>2, <2>1, <2>2, <2>3, <2>4 DEF Arrive
<1>3. ASSUME NEW r \in Requests, Handle(r) PROVE TypeInv'
  <2>1. CASE DeployCheck(r)
        BY <2>1, GotoEffect, ReturnEffect, <1>0 DEF DeployCheck
  <2>2. CASE DeployUpload(r)
        BY <2>2, GotoEffect, <1>0, ZenonT(60) DEF DeployUpload
  <2>3. CASE DeployUploadFails(r)
        BY <2>3, ReturnEffect, <1>0 DEF DeployUploadFails
  <2>4. CASE DeployCommit(r)
        BY <2>4, GotoEffect, ReturnEffect, <1>0 DEF DeployCommit, Statuses
  <2>5. CASE DeploySpawn(r)
        BY <2>5, StartTaskEffect, ReturnEffect, <1>0 DEF DeploySpawn
  <2>6. CASE DeploySpawnFails(r)
        BY <2>6, ReturnEffect, <1>0 DEF DeploySpawnFails, Statuses
  <2>7. CASE RetryCommit(r)
        BY <2>7, GotoEffect, ReturnEffect, <1>0 DEF RetryCommit, Statuses
  <2>8. CASE RetryUpload(r)
        BY <2>8, GotoEffect, <1>0, ZenonT(60) DEF RetryUpload
  <2>9. CASE DestroyCommit(r)
        BY <2>9, GotoEffect, ReturnEffect, <1>0 DEF DestroyCommit, Statuses
  <2>10. CASE ActionSpawn(r)
        BY <2>10, StartTaskEffect, ReturnEffect, <1>0 DEF ActionSpawn
  <2>11. CASE ActionRaises(r)
        BY <2>11, ReturnEffect, <1>0, ZenonT(60) DEF ActionRaises
  <2>12. CASE DeleteSpawn(r)
        BY <2>12, StartTaskEffect, GotoEffect, <1>0 DEF DeleteSpawn
  <2>13. CASE DeleteSpawnFails(r)
        BY <2>13, ReturnEffect, <1>0 DEF DeleteSpawnFails
  <2>14. CASE DeletePurge(r)
    <3>1. CASE _delete_project_records
          BY <2>14, <3>1, ReturnEffect, <1>0 DEF DeletePurge, Statuses, _delete_project_records
    <3>2. ASSUME NEW d \in Deployments, DeleteRacesInsert(d) PROVE TypeInv'
          BY <2>14, <3>2, ReturnEffect, <1>0 DEF DeletePurge, Statuses, DeleteRacesInsert
    <3> QED BY <2>14, <3>1, <3>2 DEF DeletePurge
  <2> QED BY <1>3, <2>1, <2>2, <2>3, <2>4, <2>5, <2>6, <2>7, <2>8, <2>9,
             <2>10, <2>11, <2>12, <2>13, <2>14 DEF Handle
<1>4. ASSUME NEW r \in Requests, RunTask(r) PROVE TypeInv'
  <2>1. CASE TaskStartFails(r)
        BY <2>1, ReportEffect, <1>0 DEF TaskStartFails, Results
  <2>2. CASE TaskLocks(r)
        BY <2>2, PhaseEffect, <1>0 DEF TaskLocks
  <2>3. CASE TaskFindsLock(r)
        BY <2>3, ReportEffect, <1>0 DEF TaskFindsLock, Results
  <2>4. CASE TaskApplies(r)
        BY <2>4, ReportEffect, <1>0, ZenonT(60) DEF TaskApplies, Results
  <2>5. CASE TaskDestroys(r)
        BY <2>5, ReportEffect, <1>0 DEF TaskDestroys, Results
  <2>6. CASE TaskTerraformFails(r)
        BY <2>6, ReportEffect, <1>0 DEF TaskTerraformFails, Results
  <2> QED BY <1>4, <2>1, <2>2, <2>3, <2>4, <2>5, <2>6 DEF RunTask
<1>5. ASSUME NEW r \in Requests, deployment_complete_callback(r) PROVE TypeInv'
  <2>1. CASE CallbackNotFound(r)
        BY <2>1, EndEffect, <1>0 DEF CallbackNotFound
  <2>2. CASE CallbackCommit(r)
        BY <2>2, PhaseEffect, <1>0 DEF CallbackCommit, Statuses, Results, TaskType, TaskStates
  <2>3. CASE CallbackPublish(r)
        BY <2>3, EndEffect, <1>0 DEF CallbackPublish
  <2>4. CASE CallbackPublishFails(r)
        BY <2>4, EndEffect, <1>0 DEF CallbackPublishFails
  <2>5. CASE CallbackPurge(r)
        BY <2>5, EndEffect, <1>0 DEF CallbackPurge, Statuses, _delete_project_records, DeleteRacesInsert
  <2> QED BY <1>5, <2>1, <2>2, <2>3, <2>4, <2>5
         DEF deployment_complete_callback
<1>6. ASSUME NEW r \in Requests, TaskIsLost(r) PROVE TypeInv'
      BY <1>6, EndEffect, <1>0, ZenonT(60) DEF TaskIsLost, Alive
<1>7. CASE Restart
  <2>1. ASSUME NEW r \in Requests
        PROVE  /\ req'[r] \in RequestStates /\ req'[r].row = req[r].row
               /\ req'[r].pc \in {req[r].pc, "done"}
               /\ req[r].pc = "waiting" => req'[r].pc = "waiting"
               /\ task'[r] \in TaskStates
               /\ task'[r].phase # "none" => task[r].phase # "none"
               /\ req[r].pc = "waiting" => task'[r] = task[r]
        BY <1>7, <1>0, ZenonT(60) DEF Restart, RequestStates, TaskStates, Active
  <2>2. \A r \in Requests : OwesTask(r) => RowOf(r) \in Deployments
        BY DEF OwesTask
  <2>3. req' \in [Requests -> RequestStates] /\ task' \in [Requests -> TaskStates]
        BY <1>7, <2>1 DEF Restart
  <2> QED BY <1>7, <2>1, <2>2, <2>3 DEF Restart
<1>8. CASE UNCHANGED vars
      BY <1>8 DEF vars
<1> QED BY <1>1, <1>2, <1>3, <1>4, <1>5, <1>6, <1>7, <1>8 DEF Next

LEMMA TypeInvariant == Spec => []TypeInv
<1>1. Init => TypeInv
      BY DEF Init, TypeInv, TypeOK, RequestOK, Statuses, Results, Operations,
             Waiting, NoTask, RowOf, RequestStates, TaskStates
<1> QED BY <1>1, TypeInductive, PTL DEF Spec

(* The state keeps its shape, for every value of the constants.            *)
THEOREM TypeCorrect == Spec => []TypeOK
<1>1. TypeInv => TypeOK
      BY DEF TypeInv
<1> QED BY <1>1, TypeInvariant, PTL

-----------------------------------------------------------------------------
(* DeletedProjectHasNoRows *)

LEMMA DeletedInductive ==
    TypeInv /\ DeletedProjectHasNoRows /\ [Next]_vars => DeletedProjectHasNoRows'
<1> SUFFICES ASSUME TypeInv, DeletedProjectHasNoRows, [Next]_vars
             PROVE  DeletedProjectHasNoRows'
    OBVIOUS
<1> USE DEF TypeInv, TypeOK, DeletedProjectHasNoRows, Present, SetStatus
<1>1. ASSUME NEW d \in Deployments, create_initial_deployment(d) PROVE DeletedProjectHasNoRows'
      BY <1>1 DEF create_initial_deployment
<1>2. ASSUME NEW r \in Requests, Arrive(r) PROVE DeletedProjectHasNoRows'
      BY <1>2 DEF Arrive,
          DeployRead, ActionCheck, DeleteReadDestroy, DeleteReadKeep,
          database
<1>3. ASSUME NEW r \in Requests, Handle(r) PROVE DeletedProjectHasNoRows'
  <2>1. CASE DeployCheck(r)
        BY <2>1 DEF DeployCheck, database
  <2>2. CASE DeployUpload(r)
        BY <2>2 DEF DeployUpload, database
  <2>3. CASE DeployUploadFails(r)
        BY <2>3 DEF DeployUploadFails, database
  <2>4. CASE DeployCommit(r)
        BY <2>4 DEF DeployCommit, RequestOK, At
  <2>5. CASE DeploySpawn(r)
        BY <2>5 DEF DeploySpawn, database
  <2>6. CASE DeploySpawnFails(r)
        BY <2>6 DEF DeploySpawnFails, database
  <2>7. CASE RetryCommit(r)
        BY <2>7 DEF RetryCommit, RequestOK, At
  <2>8. CASE RetryUpload(r)
        BY <2>8 DEF RetryUpload, database
  <2>9. CASE DestroyCommit(r)
        BY <2>9 DEF DestroyCommit, RequestOK, At
  <2>10. CASE ActionSpawn(r)
        BY <2>10 DEF ActionSpawn, database
  <2>11. CASE ActionRaises(r)
        BY <2>11 DEF ActionRaises, database
  <2>12. CASE DeleteSpawn(r)
        BY <2>12 DEF DeleteSpawn, database
  <2>13. CASE DeleteSpawnFails(r)
        BY <2>13 DEF DeleteSpawnFails, database
  <2>14. CASE DeletePurge(r)
        BY <2>14 DEF DeletePurge, _delete_project_records, DeleteRacesInsert
  <2> QED BY <1>3, <2>1, <2>2, <2>3, <2>4, <2>5, <2>6, <2>7, <2>8, <2>9,
             <2>10, <2>11, <2>12, <2>13, <2>14 DEF Handle
<1>4. ASSUME NEW r \in Requests, RunTask(r) PROVE DeletedProjectHasNoRows'
      BY <1>4 DEF RunTask,
          TaskStartFails, TaskLocks, TaskFindsLock, TaskApplies,
          TaskDestroys, TaskTerraformFails, database
<1>5. ASSUME NEW r \in Requests, deployment_complete_callback(r) PROVE DeletedProjectHasNoRows'
  <2>1. CASE CallbackNotFound(r)
        BY <2>1 DEF CallbackNotFound, database
  <2>2. CASE CallbackCommit(r)
        BY <2>2 DEF CallbackCommit, database
  <2>3. CASE CallbackPublish(r)
        BY <2>3 DEF CallbackPublish, database
  <2>4. CASE CallbackPublishFails(r)
        BY <2>4 DEF CallbackPublishFails, database
  <2>5. CASE CallbackPurge(r)
        BY <2>5 DEF CallbackPurge, _delete_project_records, DeleteRacesInsert
  <2> QED BY <1>5, <2>1, <2>2, <2>3, <2>4, <2>5
         DEF deployment_complete_callback
<1>6. ASSUME NEW r \in Requests, TaskIsLost(r) PROVE DeletedProjectHasNoRows'
      BY <1>6 DEF TaskIsLost, database
<1>7. CASE Restart
      BY <1>7 DEF Restart, database
<1>8. CASE UNCHANGED vars
      BY <1>8 DEF vars
<1> QED BY <1>1, <1>2, <1>3, <1>4, <1>5, <1>6, <1>7, <1>8 DEF Next

(* Nothing that was under way when a project was deleted brings a row of it
   back: no handler, no late callback, no insert that raced the deletion.  *)
THEOREM DeletedProjectsStayEmpty == Spec => []DeletedProjectHasNoRows
<1>1. Init => DeletedProjectHasNoRows
      BY DEF Init, DeletedProjectHasNoRows
<1> QED BY <1>1, TypeInvariant, DeletedInductive, PTL DEF Spec

-----------------------------------------------------------------------------
(* ApplyFindsItsHcl *)

(* A deploy request past its upload, and every retry, works on a row whose
   main.tf is there: retry requires partial_failed, which only a task that
   has fetched a main.tf reports.                                          *)
HclInv ==
    /\ ApplyFindsItsHcl
    /\ \A d \in Deployments : status[d] = "partial_failed" => d \in main_tf
    /\ \A r \in Requests :
          /\ \/ At(r, "deploy", "commit") \/ At(r, "deploy", "spawn")
             \/ req[r].op = "retry"
             \/ InPhase(r, "reporting") /\ task[r].result = "partial_failed"
             => RowOf(r) \in main_tf

LEMMA HclInductive == TypeInv /\ HclInv /\ [Next]_vars => HclInv'
<1> SUFFICES ASSUME TypeInv, HclInv, [Next]_vars PROVE HclInv'
    OBVIOUS
<1>0. ReqType /\ TaskType
      BY DEF TypeInv, TypeOK, ReqType, TaskType
<1> USE DEF HclInv, ApplyFindsItsHcl
<1> USE
    DEF ReqType, TaskType, TypeInv, TypeOK, RequestOK, OnlyReq, OnlyTask, database,
        runner, RowOf, Present, SetStatus, Strand, At, InPhase, IsApply
<1>1. ASSUME NEW d \in Deployments, create_initial_deployment(d) PROVE HclInv'
      BY <1>1 DEF create_initial_deployment
<1>2. ASSUME NEW r \in Requests, Arrive(r) PROVE HclInv'
  <2>1. ASSUME NEW d \in Deployments, DeployRead(r, d) PROVE HclInv'
        BY <2>1, BeginEffect, <1>0 DEF DeployRead, Operations
  <2>2. ASSUME NEW d \in Deployments, NEW op \in {"retry", "full_destroy"},
               ActionCheck(r, op, d) PROVE HclInv'
        BY <2>2, BeginEffect, <1>0 DEF ActionCheck, Operations, RetryAllowed
  <2>3. ASSUME NEW d \in Deployments, DeleteReadDestroy(r, d) PROVE HclInv'
        BY <2>3, BeginEffect, <1>0 DEF DeleteReadDestroy, Operations
  <2>4. CASE DeleteReadKeep(r)
        BY <2>4, BeginEffect, <1>0 DEF DeleteReadKeep, Operations
  <2> QED BY <1>2, <2>1, <2>2, <2>3, <2>4 DEF Arrive
<1>3. ASSUME NEW r \in Requests, Handle(r) PROVE HclInv'
  <2>1. CASE DeployCheck(r)
        BY <2>1, GotoEffect, ReturnEffect, <1>0 DEF DeployCheck
  <2>2. CASE DeployUpload(r)
        BY <2>2, GotoEffect, <1>0 DEF DeployUpload
  <2>3. CASE DeployUploadFails(r)
        BY <2>3, ReturnEffect, <1>0 DEF DeployUploadFails
  <2>4. CASE DeployCommit(r)
    <3>1. RowOf(r) \in Deployments
          BY <2>4 DEF DeployCommit
    <3>2. CASE Present(RowOf(r))
      <4>1. req'[r].pc = "spawn" /\ OnlyReq(r)
            /\ req'[r].row = req[r].row /\ req'[r].op = req[r].op
            BY <2>4, <3>2, GotoEffect, <1>0 DEF DeployCommit
      <4>2. /\ status'[RowOf(r)] = "deploying"
            /\ \A e \in Deployments \ {RowOf(r)} : status'[e] = status[e]
            BY <2>4, <3>1, <3>2, StatusEffect DEF DeployCommit
      <4>3. UNCHANGED <<task, main_tf>>
            BY <2>4 DEF DeployCommit
      <4> QED BY <2>4, <4>1, <4>2, <4>3 DEF DeployCommit
    <3>3. CASE ~Present(RowOf(r))
          BY <2>4, <3>3, ReturnEffect, <1>0, ZenonT(60) DEF DeployCommit
    <3> QED BY <3>2, <3>3
  <2>5. CASE DeploySpawn(r)
        BY <2>5, StartTaskEffect, ReturnEffect, <1>0 DEF DeploySpawn
  <2>6. CASE DeploySpawnFails(r)
        BY <2>6, ReturnEffect, <1>0, ZenonT(60) DEF DeploySpawnFails
  <2>7. CASE RetryCommit(r)
    <3>1. RowOf(r) \in Deployments
          BY <2>7 DEF RetryCommit
    <3>2. CASE Present(RowOf(r))
      <4>1. req'[r].pc = "upload" /\ OnlyReq(r)
            /\ req'[r].row = req[r].row /\ req'[r].op = req[r].op
            BY <2>7, <3>2, GotoEffect, <1>0 DEF RetryCommit
      <4>2. /\ status'[RowOf(r)] = "deploying"
            /\ \A e \in Deployments \ {RowOf(r)} : status'[e] = status[e]
            BY <2>7, <3>1, <3>2, StatusEffect DEF RetryCommit
      <4>3. UNCHANGED <<task, main_tf>>
            BY <2>7 DEF RetryCommit
      <4> QED BY <2>7, <4>1, <4>2, <4>3 DEF RetryCommit
    <3>3. CASE ~Present(RowOf(r))
          BY <2>7, <3>3, ReturnEffect, <1>0, ZenonT(60) DEF RetryCommit
    <3> QED BY <3>2, <3>3
  <2>8. CASE RetryUpload(r)
        BY <2>8, GotoEffect, <1>0 DEF RetryUpload
  <2>9. CASE DestroyCommit(r)
    <3>1. RowOf(r) \in Deployments
          BY <2>9 DEF DestroyCommit
    <3>2. CASE Present(RowOf(r))
      <4>1. req'[r].pc = "spawn" /\ OnlyReq(r)
            /\ req'[r].row = req[r].row /\ req'[r].op = req[r].op
            BY <2>9, <3>2, GotoEffect, <1>0 DEF DestroyCommit
      <4>2. /\ status'[RowOf(r)] = "destroying"
            /\ \A e \in Deployments \ {RowOf(r)} : status'[e] = status[e]
            BY <2>9, <3>1, <3>2, StatusEffect DEF DestroyCommit
      <4>3. UNCHANGED <<task, main_tf>>
            BY <2>9 DEF DestroyCommit
      <4> QED BY <2>9, <4>1, <4>2, <4>3 DEF DestroyCommit
    <3>3. CASE ~Present(RowOf(r))
          BY <2>9, <3>3, ReturnEffect, <1>0, ZenonT(60) DEF DestroyCommit
    <3> QED BY <3>2, <3>3
  <2>10. CASE ActionSpawn(r)
        BY <2>10, StartTaskEffect, ReturnEffect, <1>0 DEF ActionSpawn
  <2>11. CASE ActionRaises(r)
        BY <2>11, ReturnEffect, <1>0 DEF ActionRaises
  <2>12. CASE DeleteSpawn(r)
        BY <2>12, StartTaskEffect, GotoEffect, <1>0 DEF DeleteSpawn
  <2>13. CASE DeleteSpawnFails(r)
        BY <2>13, ReturnEffect, <1>0 DEF DeleteSpawnFails
  <2>14. CASE DeletePurge(r)
    <3>1. CASE _delete_project_records
          BY <2>14, <3>1, ReturnEffect, <1>0 DEF DeletePurge, _delete_project_records
    <3>2. ASSUME NEW d \in Deployments, DeleteRacesInsert(d) PROVE HclInv'
          BY <2>14, <3>2, ReturnEffect, <1>0 DEF DeletePurge, DeleteRacesInsert
    <3> QED BY <2>14, <3>1, <3>2 DEF DeletePurge
  <2> QED BY <1>3, <2>1, <2>2, <2>3, <2>4, <2>5, <2>6, <2>7, <2>8, <2>9,
             <2>10, <2>11, <2>12, <2>13, <2>14 DEF Handle
<1>4. ASSUME NEW r \in Requests, RunTask(r) PROVE HclInv'
  <2>1. CASE TaskStartFails(r)
        BY <2>1, ReportEffect, <1>0 DEF TaskStartFails, Results
  <2>2. CASE TaskLocks(r)
        BY <2>2, PhaseEffect, <1>0 DEF TaskLocks
  <2>3. CASE TaskFindsLock(r)
        BY <2>3, ReportEffect, <1>0 DEF TaskFindsLock, Results
  <2>4. CASE TaskApplies(r)
        BY <2>4, ReportEffect, <1>0 DEF TaskApplies, Results
  <2>5. CASE TaskDestroys(r)
        BY <2>5, ReportEffect, <1>0 DEF TaskDestroys, Results
  <2>6. CASE TaskTerraformFails(r)
        BY <2>6, ReportEffect, <1>0 DEF TaskTerraformFails, Results
  <2> QED BY <1>4, <2>1, <2>2, <2>3, <2>4, <2>5, <2>6 DEF RunTask
<1>5. ASSUME NEW r \in Requests, deployment_complete_callback(r) PROVE HclInv'
  <2>1. CASE CallbackNotFound(r)
        BY <2>1, EndEffect, <1>0 DEF CallbackNotFound
  <2>2. CASE CallbackCommit(r)
        BY <2>2, PhaseEffect, <1>0 DEF CallbackCommit, Results, TaskStates
  <2>3. CASE CallbackPublish(r)
        BY <2>3, EndEffect, <1>0 DEF CallbackPublish
  <2>4. CASE CallbackPublishFails(r)
        BY <2>4, EndEffect, <1>0 DEF CallbackPublishFails
  <2>5. CASE CallbackPurge(r)
    <3>1. CASE _delete_project_records
          BY <2>5, <3>1, EndEffect, <1>0 DEF CallbackPurge, _delete_project_records
    <3>2. ASSUME NEW d \in Deployments, DeleteRacesInsert(d) PROVE HclInv'
          BY <2>5, <3>2, EndEffect, <1>0 DEF CallbackPurge, DeleteRacesInsert
    <3> QED BY <2>5, <3>1, <3>2 DEF CallbackPurge
  <2> QED BY <1>5, <2>1, <2>2, <2>3, <2>4, <2>5
         DEF deployment_complete_callback
<1>6. ASSUME NEW r \in Requests, TaskIsLost(r) PROVE HclInv'
  <2>1. UNCHANGED <<status, req, main_tf>> /\ task'[r].phase = "ended"
        BY <1>6, EndEffect, <1>0 DEF TaskIsLost
  <2>2. OnlyTask(r) /\ task[r].phase # "none"
        BY <1>6, EndEffect, <1>0 DEF TaskIsLost, Alive
  <2> QED BY <2>1, <2>2
<1>7. CASE Restart
  <2>1. \A r \in Requests :
           /\ req'[r].row = req[r].row /\ req'[r].op = req[r].op
           /\ req'[r].pc \in {req[r].pc, "done"}
           /\ task'[r].phase # "none" => task[r].phase # "none"
           /\ task'[r].phase \notin {"none", "ended"} => task'[r] = task[r]
        BY <1>7, <1>0 DEF Restart, RequestStates, TaskStates
  <2> QED BY <1>7, <2>1 DEF Restart
<1>8. CASE UNCHANGED vars
      BY <1>8 DEF vars
<1> QED BY <1>1, <1>2, <1>3, <1>4, <1>5, <1>6, <1>7, <1>8 DEF Next

(* No apply task is started for a row whose main.tf is not in S3.          *)
THEOREM AppliesFindTheirHcl == Spec => []ApplyFindsItsHcl
<1>1. Init => HclInv
      BY DEF Init, HclInv, ApplyFindsItsHcl, At, InPhase, Waiting, NoTask
<1>2. HclInv => ApplyFindsItsHcl
      BY DEF HclInv
<1> QED BY <1>1, <1>2, TypeInvariant, HclInductive, PTL DEF Spec

-----------------------------------------------------------------------------
(* CompletionIsReal *)

(* A task that reports success, and the callback that goes on to announce
   it, stand for a terraform apply of the row that has succeeded.          *)
CompletionInv ==
    /\ CompletionIsReal
    /\ \A r \in Requests :
          \/ InPhase(r, "publishing")
          \/ InPhase(r, "reporting") /\ task[r].result = "completed"
          => RowOf(r) \in applied

LEMMA CompletionInductive ==
    TypeInv /\ CompletionInv /\ [Next]_vars => CompletionInv'
<1> SUFFICES ASSUME TypeInv, CompletionInv, [Next]_vars PROVE CompletionInv'
    OBVIOUS
<1>0. ReqType /\ TaskType
      BY DEF TypeInv, TypeOK, ReqType, TaskType
<1> USE DEF CompletionInv, CompletionIsReal
<1> USE
    DEF ReqType, TaskType, TypeInv, TypeOK, RequestOK, OnlyReq, OnlyTask, database,
        runner, RowOf, Present, SetStatus, Strand, At, InPhase, IsApply
<1>1. ASSUME NEW d \in Deployments, create_initial_deployment(d) PROVE CompletionInv'
      BY <1>1 DEF create_initial_deployment
<1>2. ASSUME NEW r \in Requests, Arrive(r) PROVE CompletionInv'
  <2>1. ASSUME NEW d \in Deployments, DeployRead(r, d) PROVE CompletionInv'
        BY <2>1, BeginEffect, <1>0 DEF DeployRead, Operations
  <2>2. ASSUME NEW d \in Deployments, NEW op \in {"retry", "full_destroy"},
               ActionCheck(r, op, d) PROVE CompletionInv'
        BY <2>2, BeginEffect, <1>0 DEF ActionCheck, Operations
  <2>3. ASSUME NEW d \in Deployments, DeleteReadDestroy(r, d) PROVE CompletionInv'
        BY <2>3, BeginEffect, <1>0 DEF DeleteReadDestroy, Operations
  <2>4. CASE DeleteReadKeep(r)
        BY <2>4, BeginEffect, <1>0 DEF DeleteReadKeep, Operations
  <2> QED BY <1>2, <2>1, <2>2, <2>3, <2>4 DEF Arrive
<1>3. ASSUME NEW r \in Requests, Handle(r) PROVE CompletionInv'
  <2>1. CASE DeployCheck(r)
        BY <2>1, GotoEffect, ReturnEffect, <1>0 DEF DeployCheck
  <2>2. CASE DeployUpload(r)
        BY <2>2, GotoEffect, <1>0 DEF DeployUpload
  <2>3. CASE DeployUploadFails(r)
        BY <2>3, ReturnEffect, <1>0 DEF DeployUploadFails
  <2>4. CASE DeployCommit(r)
    <3>1. CASE Present(RowOf(r))
          BY <2>4, <3>1, GotoEffect, <1>0, ZenonT(60) DEF DeployCommit
    <3>2. CASE ~Present(RowOf(r))
          BY <2>4, <3>2, ReturnEffect, <1>0 DEF DeployCommit
    <3> QED BY <3>1, <3>2
  <2>5. CASE DeploySpawn(r)
        BY <2>5, StartTaskEffect, ReturnEffect, <1>0 DEF DeploySpawn
  <2>6. CASE DeploySpawnFails(r)
        BY <2>6, ReturnEffect, <1>0 DEF DeploySpawnFails
  <2>7. CASE RetryCommit(r)
    <3>1. CASE Present(RowOf(r))
          BY <2>7, <3>1, GotoEffect, <1>0, ZenonT(60) DEF RetryCommit
    <3>2. CASE ~Present(RowOf(r))
          BY <2>7, <3>2, ReturnEffect, <1>0 DEF RetryCommit
    <3> QED BY <3>1, <3>2
  <2>8. CASE RetryUpload(r)
        BY <2>8, GotoEffect, <1>0 DEF RetryUpload
  <2>9. CASE DestroyCommit(r)
    <3>1. CASE Present(RowOf(r))
          BY <2>9, <3>1, GotoEffect, <1>0, ZenonT(60) DEF DestroyCommit
    <3>2. CASE ~Present(RowOf(r))
          BY <2>9, <3>2, ReturnEffect, <1>0 DEF DestroyCommit
    <3> QED BY <3>1, <3>2
  <2>10. CASE ActionSpawn(r)
        BY <2>10, StartTaskEffect, ReturnEffect, <1>0 DEF ActionSpawn
  <2>11. CASE ActionRaises(r)
        BY <2>11, ReturnEffect, <1>0 DEF ActionRaises
  <2>12. CASE DeleteSpawn(r)
        BY <2>12, StartTaskEffect, GotoEffect, <1>0 DEF DeleteSpawn
  <2>13. CASE DeleteSpawnFails(r)
        BY <2>13, ReturnEffect, <1>0 DEF DeleteSpawnFails
  <2>14. CASE DeletePurge(r)
    <3>1. CASE _delete_project_records
          BY <2>14, <3>1, ReturnEffect, <1>0 DEF DeletePurge, _delete_project_records
    <3>2. ASSUME NEW d \in Deployments, DeleteRacesInsert(d) PROVE CompletionInv'
          BY <2>14, <3>2, ReturnEffect, <1>0 DEF DeletePurge, DeleteRacesInsert
    <3> QED BY <2>14, <3>1, <3>2 DEF DeletePurge
  <2> QED BY <1>3, <2>1, <2>2, <2>3, <2>4, <2>5, <2>6, <2>7, <2>8, <2>9,
             <2>10, <2>11, <2>12, <2>13, <2>14 DEF Handle
<1>4. ASSUME NEW r \in Requests, RunTask(r) PROVE CompletionInv'
  <2>1. CASE TaskStartFails(r)
        BY <2>1, ReportEffect, <1>0 DEF TaskStartFails, Results
  <2>2. CASE TaskLocks(r)
        BY <2>2, PhaseEffect, <1>0 DEF TaskLocks
  <2>3. CASE TaskFindsLock(r)
        BY <2>3, ReportEffect, <1>0 DEF TaskFindsLock, Results
  <2>4. CASE TaskApplies(r)
        BY <2>4, ReportEffect, <1>0 DEF TaskApplies, Results
  <2>5. CASE TaskDestroys(r)
        BY <2>5, ReportEffect, <1>0 DEF TaskDestroys, Results
  <2>6. CASE TaskTerraformFails(r)
        BY <2>6, ReportEffect, <1>0 DEF TaskTerraformFails, Results
  <2> QED BY <1>4, <2>1, <2>2, <2>3, <2>4, <2>5, <2>6 DEF RunTask
<1>5. ASSUME NEW r \in Requests, deployment_complete_callback(r) PROVE CompletionInv'
  <2>1. CASE CallbackNotFound(r)
        BY <2>1, EndEffect, <1>0 DEF CallbackNotFound
  <2>2. CASE CallbackCommit(r)
        BY <2>2, PhaseEffect, <1>0 DEF CallbackCommit, Results, TaskStates
  <2>3. CASE CallbackPublish(r)
        BY <2>3, EndEffect, <1>0 DEF CallbackPublish
  <2>4. CASE CallbackPublishFails(r)
        BY <2>4, EndEffect, <1>0 DEF CallbackPublishFails
  <2>5. CASE CallbackPurge(r)
    <3>1. CASE _delete_project_records
          BY <2>5, <3>1, EndEffect, <1>0 DEF CallbackPurge, _delete_project_records
    <3>2. ASSUME NEW d \in Deployments, DeleteRacesInsert(d) PROVE CompletionInv'
          BY <2>5, <3>2, EndEffect, <1>0 DEF CallbackPurge, DeleteRacesInsert
    <3> QED BY <2>5, <3>1, <3>2 DEF CallbackPurge
  <2> QED BY <1>5, <2>1, <2>2, <2>3, <2>4, <2>5
         DEF deployment_complete_callback
<1>6. ASSUME NEW r \in Requests, TaskIsLost(r) PROVE CompletionInv'
      BY <1>6, EndEffect, <1>0 DEF TaskIsLost
<1>7. CASE Restart
  <2>1. \A r \in Requests :
           /\ req'[r].row = req[r].row /\ req'[r].op = req[r].op
           /\ task'[r].phase \notin {"none", "ended"} => task'[r] = task[r]
        BY <1>7, <1>0 DEF Restart, RequestStates, TaskStates
  <2> QED BY <1>7, <2>1 DEF Restart
<1>8. CASE UNCHANGED vars
      BY <1>8 DEF vars
<1> QED BY <1>1, <1>2, <1>3, <1>4, <1>5, <1>6, <1>7, <1>8 DEF Next

(* Neither a row, nor the project, nor MirrorOps is told of a completion
   that no terraform apply stands behind.                                  *)
THEOREM CompletionsAreReal == Spec => []CompletionIsReal
<1>1. Init => CompletionInv
      BY DEF Init, CompletionInv, CompletionIsReal, InPhase, Waiting, NoTask
<1>2. CompletionInv => CompletionIsReal
      BY DEF CompletionInv
<1> QED BY <1>1, <1>2, TypeInvariant, CompletionInductive, PTL DEF Spec

-----------------------------------------------------------------------------
(* OnlyFaultsStrand *)

LEMMA StrandInductive ==
    TypeInv /\ OnlyFaultsStrand /\ [Next]_vars => OnlyFaultsStrand'
<1> SUFFICES ASSUME TypeInv, OnlyFaultsStrand, [Next]_vars PROVE OnlyFaultsStrand'
    OBVIOUS
<1>0. ReqType /\ TaskType
      BY DEF TypeInv, TypeOK, ReqType, TaskType
<1> USE DEF OnlyFaultsStrand, InFlight, InProgress, OwesTask, Alive
<1> USE
    DEF ReqType, TaskType, TypeInv, TypeOK, RequestOK, OnlyReq, OnlyTask, database,
        runner, RowOf, Present, SetStatus, Strand, At, InPhase, IsApply
<1>1. ASSUME NEW d \in Deployments, create_initial_deployment(d) PROVE OnlyFaultsStrand'
      BY <1>1 DEF create_initial_deployment
<1>2. ASSUME NEW r \in Requests, Arrive(r) PROVE OnlyFaultsStrand'
  <2>1. ASSUME NEW d \in Deployments, DeployRead(r, d) PROVE OnlyFaultsStrand'
        BY <2>1, BeginEffect, <1>0 DEF DeployRead, Operations
  <2>2. ASSUME NEW d \in Deployments, NEW op \in {"retry", "full_destroy"},
               ActionCheck(r, op, d) PROVE OnlyFaultsStrand'
        BY <2>2, BeginEffect, <1>0 DEF ActionCheck, Operations
  <2>3. ASSUME NEW d \in Deployments, DeleteReadDestroy(r, d) PROVE OnlyFaultsStrand'
        BY <2>3, BeginEffect, <1>0 DEF DeleteReadDestroy, Operations
  <2>4. CASE DeleteReadKeep(r)
        BY <2>4, BeginEffect, <1>0 DEF DeleteReadKeep, Operations
  <2> QED BY <1>2, <2>1, <2>2, <2>3, <2>4 DEF Arrive
<1>3. ASSUME NEW r \in Requests, Handle(r) PROVE OnlyFaultsStrand'
  <2>1. CASE DeployCheck(r)
        BY <2>1, GotoEffect, ReturnEffect, <1>0 DEF DeployCheck
  <2>2. CASE DeployUpload(r)
        BY <2>2, GotoEffect, <1>0 DEF DeployUpload
  <2>3. CASE DeployUploadFails(r)
        BY <2>3, ReturnEffect, <1>0 DEF DeployUploadFails
  <2>4. CASE DeployCommit(r)
    <3>1. RowOf(r) \in Deployments
          BY <2>4 DEF DeployCommit
    <3>2. CASE Present(RowOf(r))
      <4>1. req'[r].pc = "spawn" /\ OnlyReq(r) /\ task' = task
            /\ req'[r].row = req[r].row /\ req'[r].op = req[r].op
            /\ ~OwesTask(r)
            BY <2>4, <3>2, GotoEffect, <1>0 DEF DeployCommit
      <4>2. /\ \A e \in Deployments \ {RowOf(r)} : status'[e] = status[e]
            /\ stranded' = stranded
            BY <2>4, <3>1, <3>2, StatusEffect DEF DeployCommit
      <4>3. \A d \in Deployments : InProgress(d) => InProgress(d)'
            BY <4>1
      <4>4. ASSUME NEW d \in Deployments, d = RowOf(r) PROVE InProgress(d)'
            BY <2>4, <4>1, <4>4 DEF DeployCommit
      <4> SUFFICES ASSUME NEW d \in Deployments, InFlight(d)', ~InProgress(d)'
                   PROVE  d \in stranded'
          OBVIOUS
      <4> HIDE DEF InProgress
      <4>5. d # RowOf(r)
            BY <4>4
      <4> QED BY <4>2, <4>3, <4>5
    <3>3. CASE ~Present(RowOf(r))
      <4>1. OnlyReq(r) /\ UNCHANGED <<task, status, stranded>> /\ ~OwesTask(r)
            /\ req'[r].row = req[r].row /\ req'[r].op = req[r].op
            BY <2>4, <3>3, ReturnEffect, <1>0 DEF DeployCommit
      <4>2. \A d \in Deployments : InProgress(d) => InProgress(d)'
            BY <4>1
      <4> QED BY <4>1, <4>2
    <3> QED BY <3>2, <3>3
  <2>5. CASE DeploySpawn(r)
        BY <2>5, StartTaskEffect, ReturnEffect, <1>0 DEF DeploySpawn
  <2>6. CASE DeploySpawnFails(r)
    <3>1. RowOf(r) \in Deployments
          BY <2>6 DEF DeploySpawnFails
    <3>2. OnlyReq(r) /\ UNCHANGED <<task, stranded>> /\ req'[r].row = req[r].row
          BY <2>6, ReturnEffect, <1>0 DEF DeploySpawnFails
    <3>3. \A d \in Deployments \ {RowOf(r)} : InProgress(d) => InProgress(d)'
          BY <3>2
    <3>4. /\ status'[RowOf(r)] \in {"failed", "absent"}
          /\ \A e \in Deployments \ {RowOf(r)} : status'[e] = status[e]
      <4>1. CASE Present(RowOf(r))
            BY <2>6, <3>1, <4>1, StatusEffect DEF DeploySpawnFails
      <4>2. CASE ~Present(RowOf(r))
            BY <2>6, <4>2 DEF DeploySpawnFails
      <4> QED BY <4>1, <4>2
    <3> HIDE DEF InProgress
    <3> QED BY <3>2, <3>3, <3>4
  <2>7. CASE RetryCommit(r)
    <3>1. RowOf(r) \in Deployments
          BY <2>7 DEF RetryCommit
    <3>2. CASE Present(RowOf(r))
      <4>1. req'[r].pc = "upload" /\ OnlyReq(r) /\ task' = task
            /\ req'[r].row = req[r].row /\ req'[r].op = req[r].op
            /\ ~OwesTask(r)
            BY <2>7, <3>2, GotoEffect, <1>0 DEF RetryCommit
      <4>2. /\ \A e \in Deployments \ {RowOf(r)} : status'[e] = status[e]
            /\ stranded' = stranded
            BY <2>7, <3>1, <3>2, StatusEffect DEF RetryCommit
      <4>3. \A d \in Deployments : InProgress(d) => InProgress(d)'
            BY <4>1
      <4>4. ASSUME NEW d \in Deployments, d = RowOf(r) PROVE InProgress(d)'
            BY <2>7, <4>1, <4>4 DEF RetryCommit
      <4> SUFFICES ASSUME NEW d \in Deployments, InFlight(d)', ~InProgress(d)'
                   PROVE  d \in stranded'
          OBVIOUS
      <4> HIDE DEF InProgress
      <4>5. d # RowOf(r)
            BY <4>4
      <4> QED BY <4>2, <4>3, <4>5
    <3>3. CASE ~Present(RowOf(r))
      <4>1. OnlyReq(r) /\ UNCHANGED <<task, status, stranded>> /\ ~OwesTask(r)
            /\ req'[r].row = req[r].row /\ req'[r].op = req[r].op
            BY <2>7, <3>3, ReturnEffect, <1>0 DEF RetryCommit
      <4>2. \A d \in Deployments : InProgress(d) => InProgress(d)'
            BY <4>1
      <4> QED BY <4>1, <4>2
    <3> QED BY <3>2, <3>3
  <2>8. CASE RetryUpload(r)
        BY <2>8, GotoEffect, <1>0 DEF RetryUpload
  <2>9. CASE DestroyCommit(r)
    <3>1. RowOf(r) \in Deployments
          BY <2>9 DEF DestroyCommit
    <3>2. CASE Present(RowOf(r))
      <4>1. req'[r].pc = "spawn" /\ OnlyReq(r) /\ task' = task
            /\ req'[r].row = req[r].row /\ req'[r].op = req[r].op
            /\ ~OwesTask(r)
            BY <2>9, <3>2, GotoEffect, <1>0 DEF DestroyCommit
      <4>2. /\ \A e \in Deployments \ {RowOf(r)} : status'[e] = status[e]
            /\ stranded' = stranded
            BY <2>9, <3>1, <3>2, StatusEffect DEF DestroyCommit
      <4>3. \A d \in Deployments : InProgress(d) => InProgress(d)'
            BY <4>1
      <4>4. ASSUME NEW d \in Deployments, d = RowOf(r) PROVE InProgress(d)'
            BY <2>9, <4>1, <4>4 DEF DestroyCommit
      <4> SUFFICES ASSUME NEW d \in Deployments, InFlight(d)', ~InProgress(d)'
                   PROVE  d \in stranded'
          OBVIOUS
      <4> HIDE DEF InProgress
      <4>5. d # RowOf(r)
            BY <4>4
      <4> QED BY <4>2, <4>3, <4>5
    <3>3. CASE ~Present(RowOf(r))
      <4>1. OnlyReq(r) /\ UNCHANGED <<task, status, stranded>> /\ ~OwesTask(r)
            /\ req'[r].row = req[r].row /\ req'[r].op = req[r].op
            BY <2>9, <3>3, ReturnEffect, <1>0 DEF DestroyCommit
      <4>2. \A d \in Deployments : InProgress(d) => InProgress(d)'
            BY <4>1
      <4> QED BY <4>1, <4>2
    <3> QED BY <3>2, <3>3
  <2>10. CASE ActionSpawn(r)
        BY <2>10, StartTaskEffect, ReturnEffect, <1>0 DEF ActionSpawn
  <2>11. CASE ActionRaises(r)
        BY <2>11, ReturnEffect, <1>0 DEF ActionRaises
  <2>12. CASE DeleteSpawn(r)
        BY <2>12, StartTaskEffect, GotoEffect, <1>0 DEF DeleteSpawn
  <2>13. CASE DeleteSpawnFails(r)
        BY <2>13, ReturnEffect, <1>0 DEF DeleteSpawnFails
  <2>14. CASE DeletePurge(r)
    <3>1. CASE _delete_project_records
          BY <2>14, <3>1, ReturnEffect, <1>0 DEF DeletePurge, _delete_project_records
    <3>2. ASSUME NEW d \in Deployments, DeleteRacesInsert(d) PROVE OnlyFaultsStrand'
          BY <2>14, <3>2, ReturnEffect, <1>0 DEF DeletePurge, DeleteRacesInsert
    <3> QED BY <2>14, <3>1, <3>2 DEF DeletePurge
  <2> QED BY <1>3, <2>1, <2>2, <2>3, <2>4, <2>5, <2>6, <2>7, <2>8, <2>9,
             <2>10, <2>11, <2>12, <2>13, <2>14 DEF Handle
<1>4. ASSUME NEW r \in Requests, RunTask(r) PROVE OnlyFaultsStrand'
  <2>1. CASE TaskStartFails(r)
        BY <2>1, ReportEffect, <1>0 DEF TaskStartFails, Results
  <2>2. CASE TaskLocks(r)
        BY <2>2, PhaseEffect, <1>0 DEF TaskLocks
  <2>3. CASE TaskFindsLock(r)
        BY <2>3, ReportEffect, <1>0 DEF TaskFindsLock, Results
  <2>4. CASE TaskApplies(r)
        BY <2>4, ReportEffect, <1>0 DEF TaskApplies, Results
  <2>5. CASE TaskDestroys(r)
        BY <2>5, ReportEffect, <1>0 DEF TaskDestroys, Results
  <2>6. CASE TaskTerraformFails(r)
        BY <2>6, ReportEffect, <1>0 DEF TaskTerraformFails, Results
  <2> QED BY <1>4, <2>1, <2>2, <2>3, <2>4, <2>5, <2>6 DEF RunTask
<1>5. ASSUME NEW r \in Requests, deployment_complete_callback(r) PROVE OnlyFaultsStrand'
  <2>1. CASE CallbackNotFound(r)
        BY <2>1, EndEffect, <1>0 DEF CallbackNotFound
  <2>2. CASE CallbackCommit(r)
        BY <2>2, PhaseEffect, <1>0 DEF CallbackCommit, Results, TaskStates
  <2>3. CASE CallbackPublish(r)
        BY <2>3, EndEffect, <1>0 DEF CallbackPublish
  <2>4. CASE CallbackPublishFails(r)
        BY <2>4, EndEffect, <1>0 DEF CallbackPublishFails
  <2>5. CASE CallbackPurge(r)
    <3>1. CASE _delete_project_records
          BY <2>5, <3>1, EndEffect, <1>0 DEF CallbackPurge, _delete_project_records
    <3>2. ASSUME NEW d \in Deployments, DeleteRacesInsert(d) PROVE OnlyFaultsStrand'
          BY <2>5, <3>2, EndEffect, <1>0 DEF CallbackPurge, DeleteRacesInsert
    <3> QED BY <2>5, <3>1, <3>2 DEF CallbackPurge
  <2> QED BY <1>5, <2>1, <2>2, <2>3, <2>4, <2>5
         DEF deployment_complete_callback
<1>6. ASSUME NEW r \in Requests, TaskIsLost(r) PROVE OnlyFaultsStrand'
      BY <1>6, EndEffect, <1>0 DEF TaskIsLost, Alive
<1>7. CASE Restart
  <2>1. \A r \in Requests :
           /\ req'[r].row = req[r].row /\ req'[r].op = req[r].op
           /\ Alive(r) => task'[r].phase = task[r].phase
        BY <1>7, <1>0 DEF Restart, RequestStates, TaskStates
  <2>2. \A d \in Deployments : InProgress(d) => InProgress(d)' \/ d \in stranded'
        BY <1>7, <2>1 DEF Restart
  <2> QED BY <1>7, <2>2 DEF Restart
<1>8. CASE UNCHANGED vars
      BY <1>8 DEF vars
<1> QED BY <1>1, <1>2, <1>3, <1>4, <1>5, <1>6, <1>7, <1>8 DEF Next

(* A row shown as deploying or destroying with nobody working on it was hit
   by a fault; no interleaving of requests, tasks and callbacks alone, for
   any number of them, leaves a row stuck.                                 *)
THEOREM OnlyFaultsStrandRows == Spec => []OnlyFaultsStrand
<1>1. Init => OnlyFaultsStrand
      BY DEF Init, OnlyFaultsStrand, InFlight
<1> QED BY <1>1, TypeInvariant, StrandInductive, PTL DEF Spec

-----------------------------------------------------------------------------
(* OneTaskPerRow and RunningRowsSaySo, when one request is served at a time *)

(* Without a delete that has a task, the request that works on a row: it has
   read it, has committed, or has a task under way.                        *)
Working(r) == req[r].op # "delete" /\ (OwesTask(r) \/ Alive(r))
Engaged(r) ==
    \/ Working(r)
    \/ req[r].op = "deploy" /\ req[r].pc \in {"check", "upload", "commit"}
    \/ req[r].op \in {"retry", "full_destroy"} /\ req[r].pc = "commit"

OneHandler     == \A q, r \in Requests : Active(q) /\ Active(r) => q = r
TasksComeLast  == \A r \in Requests : task[r].phase # "none" =>
                                          req[r].pc \in {"purge", "done"}
EngagedPresent == project # "deleted" =>
                      \A r \in Requests : Engaged(r) => Present(RowOf(r))
Exclusive      == \A q, r \in Requests :
                      Engaged(q) /\ Engaged(r) /\ RowOf(q) = RowOf(r) => q = r
SaySo          == \A r \in Requests :
                      Working(r) /\ Present(RowOf(r)) =>
                          status[RowOf(r)] = IF IsApply(r) THEN "deploying" ELSE "destroying"

(* A settled row has no task, because the row of a task says so; hence the
   request that starts one finds no other.  A row that is gone stays gone, or
   a new draft could take the place of one that a task works on.           *)
SerialInv == /\ DeletedProjectHasNoRows /\ OneHandler /\ TasksComeLast /\ EngagedPresent
             /\ ~DeleteHasTask => Exclusive /\ SaySo

(* A step after which nobody is more engaged than before, the rows of the
   engaged are left alone, and no row disappears but with the project.     *)
Recedes ==
    \A q \in Requests :
        /\ RowOf(q)' = RowOf(q) /\ req'[q].op = req[q].op
        /\ Engaged(q)' => Engaged(q)
        /\ Working(q)' => Working(q)
        /\ Active(q)' => Active(q)
        /\ task[q].phase # "none" => task'[q].phase # "none"
        /\ task'[q].phase # "none" => req'[q].pc \in {"purge", "done"}
LeavesRows ==
    \A d \in Deployments : status'[d] # status[d] =>
        \/ status'[d] = "absent"
        \/ DeleteHasTask \/ \A q \in Requests : Engaged(q)' => RowOf(q) # d
KeepsRows ==
    project' # "deleted" =>
        project # "deleted" /\ \A d \in Deployments : Present(d) => Present(d)'

LEMMA EngagedRow ==
    ASSUME TypeInv, NEW r \in Requests, Engaged(r) PROVE RowOf(r) \in Deployments
BY DEF TypeInv, RequestOK, Engaged, Working, OwesTask, Alive, At

LEMMA QuietStep ==
    ASSUME TypeInv, TypeInv', SerialInv, DeletedProjectHasNoRows',
           Recedes, LeavesRows, KeepsRows
    PROVE  SerialInv'
<1> USE DEF SerialInv
<1>1. OneHandler' /\ TasksComeLast'
      BY DEF OneHandler, TasksComeLast, Recedes
<1>2. EngagedPresent'
  <2> SUFFICES ASSUME project' # "deleted", NEW r \in Requests, Engaged(r)'
               PROVE  Present(RowOf(r))'
      BY DEF EngagedPresent
  <2>1. Engaged(r) /\ RowOf(r)' = RowOf(r) /\ project # "deleted"
        BY DEF Recedes, KeepsRows
  <2>2. Present(RowOf(r)) /\ RowOf(r) \in Deployments
        BY <2>1, EngagedRow DEF EngagedPresent
  <2> QED BY <2>1, <2>2 DEF KeepsRows, Present
<1>3. ASSUME ~DeleteHasTask' PROVE ~DeleteHasTask
      BY <1>3 DEF DeleteHasTask, Recedes
<1>4. ASSUME ~DeleteHasTask' PROVE Exclusive'
      BY <1>3, <1>4 DEF Exclusive, Recedes
<1>5. ASSUME ~DeleteHasTask' PROVE SaySo'
  <2> SUFFICES ASSUME NEW r \in Requests, Working(r)', Present(RowOf(r))'
               PROVE  status'[RowOf(r)'] = IF IsApply(r)' THEN "deploying" ELSE "destroying"
      BY DEF SaySo
  <2>1. /\ Working(r) /\ Engaged(r) /\ Engaged(r)' /\ RowOf(r)' = RowOf(r)
        /\ IsApply(r)' = IsApply(r)
        BY DEF Recedes, Engaged, IsApply
  <2>2. RowOf(r) \in Deployments /\ status'[RowOf(r)] # "absent"
        BY <2>1, EngagedRow DEF Present
  <2>3. status'[RowOf(r)] = status[RowOf(r)]
        BY <1>3, <1>5, <2>1, <2>2 DEF LeavesRows
  <2> QED BY <1>3, <1>5, <2>1, <2>2, <2>3 DEF SaySo, Present
<1> QED BY <1>1, <1>2, <1>3, <1>4, <1>5

(* A request arrives for a row that is not in flight. *)
LEMMA ArrivalStep ==
    ASSUME MaxActive <= 1, TypeInv, SerialInv, DeletedProjectHasNoRows',
           NEW r \in Requests, NEW op \in {"deploy", "retry", "full_destroy", "delete"},
           NEW d \in Deployments \cup {NoRow},
           NEW pc \in {"check", "commit", "spawn", "purge"}, Begin(r, op, d, pc),
           pc = "spawn" => op = "delete",
           op # "delete" => Present(d) /\ ~InFlight(d),
           UNCHANGED <<database, task>>
    PROVE  SerialInv'
<1> USE LifecycleAssumption DEF SerialInv, database
<1>0. ReqType
      BY DEF TypeInv, TypeOK, ReqType
<1>1. /\ OnlyReq(r) /\ req[r].pc = "waiting"
      /\ req'[r].pc = pc /\ req'[r].row = d /\ req'[r].op = op
      BY <1>0, BeginEffect DEF Operations
<1>2. task[r].phase = "none"
      BY <1>1 DEF TypeInv, RequestOK
<1>3. \A q \in Requests : ~Active(q)
  <2> SUFFICES ASSUME NEW a \in Requests, Active(a) PROVE FALSE
      OBVIOUS
  <2>1. {q \in Requests : Active(q)} = {a}
        BY DEF OneHandler
  <2>2. Cardinality({q \in Requests : Active(q)}) = 1
        BY <2>1, FS_Singleton
  <2> QED BY <2>2 DEF Begin
<1>4. \A q \in Requests \ {r} :
         /\ Engaged(q)' = Engaged(q) /\ Working(q)' = Working(q)
         /\ Active(q)' = Active(q) /\ RowOf(q)' = RowOf(q) /\ IsApply(q)' = IsApply(q)
      BY <1>1 DEF OnlyReq, Engaged, Working, OwesTask, Alive, At, Active, RowOf, IsApply
<1>5. OneHandler'
      BY <1>3, <1>4 DEF OneHandler
<1>6. TasksComeLast'
      BY <1>1, <1>2 DEF TasksComeLast, OnlyReq
<1>7. ~Working(r)' /\ (Engaged(r)' => op # "delete") /\ RowOf(r)' = d
      BY <1>1, <1>2 DEF Engaged, Working, OwesTask, Alive, At, RowOf
<1>8. EngagedPresent'
      BY <1>4, <1>7 DEF EngagedPresent, Present
<1>9. ASSUME ~DeleteHasTask' PROVE ~DeleteHasTask
      BY <1>1, <1>2, <1>9 DEF DeleteHasTask, OnlyReq
<1>10. ASSUME ~DeleteHasTask' PROVE SaySo'
       BY <1>4, <1>7, <1>9, <1>10 DEF SaySo, Present
<1>11. ASSUME ~DeleteHasTask', op # "delete", NEW q \in Requests, q # r, Engaged(q)
       PROVE  RowOf(q) # d
  <2>1. Working(q)
        BY <1>3, <1>11 DEF Engaged, Active
  <2> QED BY <1>9, <1>11, <2>1 DEF SaySo, InFlight
<1>12. ASSUME ~DeleteHasTask' PROVE Exclusive'
       BY <1>4, <1>7, <1>9, <1>11, <1>12 DEF Exclusive
<1> QED BY <1>5, <1>6, <1>8, <1>9, <1>10, <1>12

(* The one handler commits the new status of its row. *)
LEMMA CommitStep ==
    ASSUME TypeInv, SerialInv, DeletedProjectHasNoRows',
           NEW r \in Requests, NEW op \in {"deploy", "retry", "full_destroy"},
           At(r, op, "commit"), Present(RowOf(r)),
           SetStatus(RowOf(r), IF IsApply(r) THEN "deploying" ELSE "destroying"),
           NEW pc \in {"upload", "spawn"}, Goto(r, pc), op = "deploy" => pc = "spawn",
           UNCHANGED <<project, task>>
    PROVE  SerialInv'
<1> USE DEF SerialInv
<1>0. ReqType
      BY DEF TypeInv, TypeOK, ReqType
<1>1. /\ OnlyReq(r) /\ req'[r].pc = pc /\ req'[r].row = req[r].row
      /\ req'[r].op = op /\ req[r].op = op /\ req[r].pc = "commit"
      BY <1>0, GotoEffect DEF At
<1>2. /\ task[r].phase = "none" /\ Engaged(r) /\ RowOf(r) \in Deployments
      BY <1>1, EngagedRow DEF TasksComeLast, Engaged
<1>3. \A q \in Requests \ {r} :
         /\ Engaged(q)' = Engaged(q) /\ Working(q)' = Working(q)
         /\ Active(q)' = Active(q) /\ RowOf(q)' = RowOf(q) /\ IsApply(q)' = IsApply(q)
      BY <1>1 DEF OnlyReq, Engaged, Working, OwesTask, Alive, At, Active, RowOf, IsApply
<1>4. RowOf(r)' = RowOf(r) /\ IsApply(r)' = IsApply(r) /\ Active(r)
      BY <1>1 DEF RowOf, IsApply, Active
<1>5. /\ status'[RowOf(r)] = IF IsApply(r) THEN "deploying" ELSE "destroying"
      /\ \A e \in Deployments \ {RowOf(r)} : status'[e] = status[e]
      BY <1>2, StatusEffect DEF TypeInv, TypeOK
<1>6. OneHandler' /\ TasksComeLast'
      BY <1>1, <1>2, <1>3, <1>4 DEF OneHandler, TasksComeLast, OnlyReq
<1>7. \A q \in Requests : Engaged(q)' => Engaged(q) /\ RowOf(q) \in Deployments
      BY <1>2, <1>3, EngagedRow
<1>8. EngagedPresent'
      BY <1>3, <1>4, <1>5, <1>7 DEF EngagedPresent, Present
<1>9. ASSUME ~DeleteHasTask' PROVE ~DeleteHasTask
      BY <1>1, <1>9 DEF DeleteHasTask, OnlyReq
<1>10. ASSUME ~DeleteHasTask' PROVE Exclusive'
       BY <1>2, <1>3, <1>4, <1>9, <1>10 DEF Exclusive
<1>11. ASSUME ~DeleteHasTask' PROVE SaySo'
  <2> SUFFICES ASSUME NEW q \in Requests, Working(q)', Present(RowOf(q))'
               PROVE  status'[RowOf(q)'] = IF IsApply(q)' THEN "deploying" ELSE "destroying"
      BY DEF SaySo
  <2>1. CASE q = r
        BY <1>4, <1>5, <2>1
  <2>2. CASE q # r
    <3>1. /\ Working(q) /\ Engaged(q) /\ RowOf(q) \in Deployments
          /\ RowOf(q)' = RowOf(q) /\ IsApply(q)' = IsApply(q)
          BY <1>3, <1>7, <2>2 DEF Engaged
    <3>2. RowOf(q) # RowOf(r)
          BY <1>2, <1>9, <1>11, <2>2, <3>1 DEF Exclusive
    <3>3. status'[RowOf(q)] = status[RowOf(q)]
          BY <1>5, <3>1, <3>2
    <3> QED BY <1>9, <1>11, <3>1, <3>3 DEF SaySo, Present
  <2> QED BY <2>1, <2>2
<1> QED BY <1>6, <1>8, <1>9, <1>10, <1>11

(* What is quiet about a step of one handler, and about one of one task.   *)
LEMMA HandlerRecedes ==
    ASSUME SerialInv, NEW r \in Requests, OnlyReq(r),
           req'[r].row = req[r].row, req'[r].op = req[r].op,
           Active(r), Engaged(r)' => Engaged(r), Working(r)' => Working(r),
           OnlyTask(r), task[r].phase # "none" => task'[r].phase # "none",
           task'[r].phase # "none" => req'[r].pc \in {"purge", "done"}
    PROVE  Recedes
<1>1. \A q \in Requests \ {r} :
         /\ Engaged(q)' = Engaged(q) /\ Working(q)' = Working(q)
         /\ Active(q)' = Active(q) /\ RowOf(q)' = RowOf(q)
         /\ req'[q] = req[q] /\ task'[q] = task[q]
      BY DEF OnlyReq, OnlyTask, Engaged, Working, OwesTask, Alive, At, Active, RowOf
<1> QED BY <1>1 DEF Recedes, SerialInv, TasksComeLast, RowOf

LEMMA TaskRecedes ==
    ASSUME SerialInv, UNCHANGED req, NEW r \in Requests, OnlyTask(r),
           task[r].phase # "none", task'[r].phase # "none", Alive(r)' => Alive(r)
    PROVE  Recedes
<1>1. \A q \in Requests \ {r} :
         /\ Engaged(q)' = Engaged(q) /\ Working(q)' = Working(q)
         /\ Active(q)' = Active(q) /\ RowOf(q)' = RowOf(q)
         /\ req'[q] = req[q] /\ task'[q] = task[q]
      BY DEF OnlyTask, Engaged, Working, OwesTask, Alive, At, Active, RowOf
<1>2. /\ (Engaged(r)' => Engaged(r)) /\ (Working(r)' => Working(r))
      /\ Active(r)' = Active(r) /\ RowOf(r)' = RowOf(r)
      BY DEF Engaged, Working, OwesTask, At, Active, RowOf
<1> QED BY <1>1, <1>2 DEF Recedes, SerialInv, TasksComeLast

LEMMA SameRows == UNCHANGED database => LeavesRows /\ KeepsRows
BY DEF database, LeavesRows, KeepsRows, Present

(* The records go, or a draft takes a row that nobody is engaged in.       *)
LEMMA PurgedRows ==
    ASSUME TypeInv, SerialInv, Recedes,
           \/ _delete_project_records
           \/ \E d \in Deployments :
                 project # "deleted" /\ ~Present(d) /\ SetStatus(d, "created")
                    /\ UNCHANGED project
    PROVE  LeavesRows /\ KeepsRows
<1>1. CASE _delete_project_records
      BY <1>1 DEF _delete_project_records, LeavesRows, KeepsRows
<1>2. ASSUME NEW d \in Deployments, project # "deleted", ~Present(d),
             SetStatus(d, "created"), UNCHANGED project
      PROVE  LeavesRows /\ KeepsRows
  <2>1. status'[d] = "created" /\ \A e \in Deployments \ {d} : status'[e] = status[e]
        BY <1>2, StatusEffect DEF TypeInv, TypeOK
  <2>2. \A q \in Requests : Engaged(q)' => RowOf(q) # d
        BY <1>2 DEF Recedes, SerialInv, EngagedPresent
  <2> QED BY <1>2, <2>1, <2>2 DEF LeavesRows, KeepsRows, Present
<1> QED BY <1>1, <1>2

(* The outcome of a row is written by the last one who was engaged in it.  *)
LEMMA WrittenRow ==
    ASSUME TypeInv, SerialInv, DeletedProjectHasNoRows', Recedes,
           NEW r \in Requests, NEW s, Present(RowOf(r)), RowOf(r) \in Deployments,
           SetStatus(RowOf(r), s), s # "absent",
           ~DeleteHasTask => Engaged(r), ~Engaged(r)',
           project' \in {project, "completed"}
    PROVE  LeavesRows /\ KeepsRows
<1>1. status'[RowOf(r)] = s /\ \A e \in Deployments \ {RowOf(r)} : status'[e] = status[e]
      BY StatusEffect DEF TypeInv, TypeOK
<1>2. project # "deleted"
      BY DEF SerialInv, DeletedProjectHasNoRows
<1>3. ~DeleteHasTask => \A q \in Requests : Engaged(q)' => RowOf(q) # RowOf(r)
      BY DEF SerialInv, Exclusive, Recedes
<1> QED BY <1>1, <1>2, <1>3 DEF LeavesRows, KeepsRows, Present

LEMMA SerialInductive ==
    ASSUME MaxActive <= 1
    PROVE  TypeInv /\ SerialInv /\ [Next]_vars => SerialInv'
<1> SUFFICES ASSUME TypeInv, SerialInv, [Next]_vars PROVE SerialInv'
    OBVIOUS
<1>0. ReqType /\ TaskType /\ TypeInv' /\ DeletedProjectHasNoRows'
      BY TypeInductive, DeletedInductive DEF TypeInv, TypeOK, ReqType, TaskType, SerialInv
<1>q. ASSUME Recedes, LeavesRows, KeepsRows PROVE SerialInv'
      BY <1>0, <1>q, QuietStep
<1>n. \A r \in Requests : Active(r) /\ req[r].pc # "purge" => task[r].phase = "none"
      BY DEF SerialInv, TasksComeLast, Active
<1>r. \A r \in Requests :
         req[r].pc \in {"check", "upload", "commit", "spawn"} \/ task[r].phase # "none"
            => RowOf(r) \in Deployments
      BY DEF TypeInv, RequestOK
<1>1. ASSUME NEW d \in Deployments, create_initial_deployment(d) PROVE SerialInv'
  <2>1. Recedes
        BY <1>1 DEF create_initial_deployment, runner, Recedes, SerialInv, TasksComeLast,
                    Engaged, Working, OwesTask, Alive, At, Active, RowOf
  <2> QED BY <1>1, <1>q, <2>1, PurgedRows DEF create_initial_deployment
<1>2. ASSUME NEW r \in Requests, Arrive(r) PROVE SerialInv'
  <2>1. ASSUME NEW d \in Deployments, DeployRead(r, d) PROVE SerialInv'
        BY <1>0, <2>1, ArrivalStep DEF DeployRead, LatestDraft, Present, InFlight, runner
  <2>2. ASSUME NEW d \in Deployments, NEW op \in {"retry", "full_destroy"},
               ActionCheck(r, op, d) PROVE SerialInv'
        BY <1>0, <2>2, ArrivalStep
           DEF ActionCheck, RetryAllowed, DestroyAllowed, Present, InFlight, runner
  <2>3. ASSUME NEW d \in Deployments, DeleteReadDestroy(r, d) PROVE SerialInv'
        BY <1>0, <2>3, ArrivalStep DEF DeleteReadDestroy, runner
  <2>4. CASE DeleteReadKeep(r)
        BY <1>0, <2>4, ArrivalStep DEF DeleteReadKeep, runner
  <2> QED BY <1>2, <2>1, <2>2, <2>3, <2>4 DEF Arrive
<1>3. ASSUME NEW r \in Requests, Handle(r) PROVE SerialInv'
  <2>a. ASSUME OnlyReq(r), req'[r].row = req[r].row, req'[r].op = req[r].op, Active(r),
               Engaged(r)' => Engaged(r), Working(r)' => Working(r), OnlyTask(r),
               task[r].phase # "none" => task'[r].phase # "none",
               task'[r].phase # "none" => req'[r].pc \in {"purge", "done"}
        PROVE  Recedes
        BY <2>a, HandlerRecedes
  <2> USE DEF Engaged, Working, OwesTask, Alive, At, Active, OnlyTask
  <2>1. CASE DeployCheck(r)
        BY <2>1, <2>a, <1>0, <1>n, <1>q, GotoEffect, ReturnEffect, SameRows
           DEF DeployCheck, runner
  <2>2. CASE DeployUpload(r)
        BY <2>2, <2>a, <1>0, <1>n, <1>q, GotoEffect, SameRows DEF DeployUpload, runner
  <2>3. CASE DeployUploadFails(r)
        BY <2>3, <2>a, <1>0, <1>n, <1>q, ReturnEffect, SameRows
           DEF DeployUploadFails, runner
  <2>4. CASE DeployCommit(r)
    <3>1. CASE Present(RowOf(r))
          BY <1>0, <2>4, <3>1, CommitStep DEF DeployCommit, IsApply, runner
    <3>2. CASE ~Present(RowOf(r))
          BY <2>4, <3>2, <2>a, <1>0, <1>n, <1>q, ReturnEffect, SameRows
             DEF DeployCommit, runner, database
    <3> QED BY <3>1, <3>2
  <2>5. CASE DeploySpawn(r)
        BY <2>5, <2>a, <1>0, <1>q, ReturnEffect, StartTaskEffect, SameRows DEF DeploySpawn
  <2>6. CASE DeploySpawnFails(r)
    <3>1. Recedes /\ ~Engaged(r)' /\ Engaged(r) /\ RowOf(r) \in Deployments
          BY <2>6, <2>a, <1>0, <1>n, <1>r, ReturnEffect DEF DeploySpawnFails, runner
    <3>2. CASE Present(RowOf(r))
      <4>1. SetStatus(RowOf(r), "failed") /\ project' = project
            BY <2>6, <3>2 DEF DeploySpawnFails
      <4> QED BY <1>0, <1>q, <3>1, <3>2, <4>1, WrittenRow
    <3>3. CASE ~Present(RowOf(r))
          BY <2>6, <3>1, <3>3, <1>q, SameRows DEF DeploySpawnFails, database
    <3> QED BY <3>2, <3>3
  <2>7. CASE RetryCommit(r)
    <3>1. CASE Present(RowOf(r))
          BY <1>0, <2>7, <3>1, CommitStep DEF RetryCommit, IsApply, runner
    <3>2. CASE ~Present(RowOf(r))
          BY <2>7, <3>2, <2>a, <1>0, <1>n, <1>q, ReturnEffect, SameRows
             DEF RetryCommit, runner, database
    <3> QED BY <3>1, <3>2
  <2>8. CASE RetryUpload(r)
        BY <2>8, <2>a, <1>0, <1>n, <1>q, GotoEffect, SameRows DEF RetryUpload, runner
  <2>9. CASE DestroyCommit(r)
    <3>1. CASE Present(RowOf(r))
          BY <1>0, <2>9, <3>1, CommitStep DEF DestroyCommit, IsApply, runner
    <3>2. CASE ~Present(RowOf(r))
          BY <2>9, <3>2, <2>a, <1>0, <1>n, <1>q, ReturnEffect, SameRows
             DEF DestroyCommit, runner, database
    <3> QED BY <3>1, <3>2
  <2>10. CASE ActionSpawn(r)
        BY <2>10, <2>a, <1>0, <1>q, ReturnEffect, StartTaskEffect, SameRows DEF ActionSpawn
  <2>11. CASE ActionRaises(r)
        BY <2>11, <2>a, <1>0, <1>n, <1>q, ReturnEffect, SameRows DEF ActionRaises, runner
  <2>12. CASE DeleteSpawn(r)
        BY <2>12, <2>a, <1>0, <1>q, GotoEffect, StartTaskEffect, SameRows DEF DeleteSpawn
  <2>13. CASE DeleteSpawnFails(r)
        BY <2>13, <2>a, <1>0, <1>n, <1>q, ReturnEffect, SameRows
           DEF DeleteSpawnFails, runner
  <2>14. CASE DeletePurge(r)
    <3>1. Recedes
          BY <2>14, <2>a, <1>0, ReturnEffect DEF DeletePurge, runner
    <3> QED BY <2>14, <3>1, <1>q, PurgedRows DEF DeletePurge, DeleteRacesInsert
  <2> QED BY <1>3, <2>1, <2>2, <2>3, <2>4, <2>5, <2>6, <2>7, <2>8, <2>9,
             <2>10, <2>11, <2>12, <2>13, <2>14 DEF Handle
<1>4. ASSUME NEW r \in Requests, RunTask(r) PROVE SerialInv'
  <2>1. UNCHANGED <<database, req>>
        BY <1>4 DEF RunTask, TaskStartFails, TaskLocks, TaskFindsLock, TaskApplies,
                    TaskDestroys, TaskTerraformFails
  <2>2. Alive(r) /\ Alive(r)' /\ OnlyTask(r)
    <3>1. ASSUME NEW result \in Results, Report(r, result)
          PROVE  OnlyTask(r) /\ task'[r].phase = "reporting"
          BY <1>0, <3>1, ReportEffect
    <3>2. ASSUME task' = [task EXCEPT ![r].phase = "terraform"]
          PROVE  OnlyTask(r) /\ task'[r].phase = "terraform"
          BY <1>0, <3>2, PhaseEffect
    <3> QED BY <1>4, <3>1, <3>2
            DEF RunTask, TaskStartFails, TaskLocks, TaskFindsLock, TaskApplies,
                TaskDestroys, TaskTerraformFails, Results, Alive, InPhase
  <2>3. Recedes
        BY <2>1, <2>2, TaskRecedes DEF Alive
  <2> QED BY <1>q, <2>1, <2>3, SameRows
<1>5. ASSUME NEW r \in Requests, deployment_complete_callback(r) \/ TaskIsLost(r)
      PROVE  SerialInv'
  <2>1. /\ UNCHANGED req /\ OnlyTask(r) /\ task[r].phase # "none"
        /\ task'[r].phase \in {"publishing", "purging", "ended"}
    <3>1. ASSUME NEW phase \in {"publishing", "purging", "ended"},
                 task' = [task EXCEPT ![r].phase = phase]
          PROVE  OnlyTask(r) /\ task'[r].phase = phase
          BY <1>0, <3>1, PhaseEffect
    <3> QED BY <1>5, <3>1
            DEF deployment_complete_callback, CallbackNotFound, CallbackCommit,
                CallbackPublish, CallbackPublishFails, CallbackPurge, TaskIsLost,
                End, Alive, InPhase
  <2>2. Recedes
        BY <2>1, TaskRecedes DEF Alive
  <2>3. CASE CallbackCommit(r)
    <3>1. /\ InPhase(r, "reporting") /\ Present(RowOf(r)) /\ RowOf(r) \in Deployments
          /\ SetStatus(RowOf(r), task[r].result) /\ project' \in {project, "completed"}
          BY <2>3, <1>r, <2>1 DEF CallbackCommit
    <3>2. task[r].result # "absent"
          BY <1>0 DEF TaskType, TaskStates, Results
    <3>3. ~DeleteHasTask => Engaged(r)
          BY <2>1, <3>1 DEF DeleteHasTask, Engaged, Working, Alive, InPhase
    <3>4. ~Engaged(r)'
          BY <2>1 DEF SerialInv, TasksComeLast, Engaged, Working, OwesTask, At, Alive
    <3> QED BY <1>0, <1>q, <2>2, <3>1, <3>2, <3>3, <3>4, WrittenRow
  <2>4. CASE CallbackPurge(r)
        BY <1>q, <2>2, <2>4, PurgedRows DEF CallbackPurge, DeleteRacesInsert
  <2>5. CASE UNCHANGED database
        BY <1>q, <2>2, <2>5, SameRows
  <2> QED BY <1>5, <2>3, <2>4, <2>5
          DEF deployment_complete_callback, CallbackNotFound, CallbackPublish,
              CallbackPublishFails, TaskIsLost
<1>6. CASE Restart
  <2>1. \A q \in Requests :
           /\ req'[q].row = req[q].row /\ req'[q].op = req[q].op
           /\ req'[q].pc = IF Active(q) THEN "done" ELSE req[q].pc
           /\ task[q].phase # "none" => task'[q].phase # "none"
           /\ task'[q].phase # "none" => task[q].phase # "none"
           /\ Alive(q)' => Alive(q)
        BY <1>6, <1>0 DEF Restart, ReqType, TaskType, RequestStates, TaskStates, Alive, InPhase
  <2>2. Recedes
        BY <2>1 DEF Recedes, SerialInv, TasksComeLast, Engaged, Working, OwesTask, At,
                    Active, RowOf
  <2> QED BY <1>6, <1>q, <2>2, SameRows DEF Restart
<1>7. CASE UNCHANGED vars
  <2>1. Recedes
        BY <1>7 DEF vars, Recedes, SerialInv, TasksComeLast, Engaged, Working, OwesTask,
                    Alive, At, Active, RowOf
  <2> QED BY <1>7, <1>q, <2>1, SameRows DEF vars, database
<1> QED BY <1>1, <1>2, <1>3, <1>4, <1>5, <1>6, <1>7 DEF Next

LEMMA SerialInvariant == ASSUME MaxActive <= 1 PROVE Spec => []SerialInv
<1>1. Init => SerialInv
      BY DEF Init, SerialInv, DeletedProjectHasNoRows, OneHandler, TasksComeLast,
             EngagedPresent, Exclusive, SaySo, Engaged, Working, OwesTask, Alive, At,
             Active, Waiting, NoTask
<1>2. TypeInv /\ SerialInv /\ [Next]_vars => SerialInv'
      BY SerialInductive
<1> QED BY <1>1, <1>2, TypeInvariant, PTL DEF Spec

(* While requests are served one at a time, a row never has two tasks under
   way, for any number of requests and rows, whatever is slow, lost or
   restarted; until a delete_project has started a task.                   *)
THEOREM OneTaskForARow == ASSUME MaxActive <= 1 PROVE Spec => []OneTaskPerRow
<1>1. SerialInv => OneTaskPerRow
      BY DEF SerialInv, OneTaskPerRow, Exclusive, Engaged, Working, DeleteHasTask, Alive
<1> QED BY <1>1, SerialInvariant, PTL

(* Nor is a row shown as settled, and open to further actions, while a task
   works on it.                                                            *)
THEOREM RowsWithTasksSaySo == ASSUME MaxActive <= 1 PROVE Spec => []RunningRowsSaySo
<1>1. SerialInv => RunningRowsSaySo
      BY DEF SerialInv, RunningRowsSaySo, SaySo, Working, DeleteHasTask, Alive
<1> QED BY <1>1, SerialInvariant, PTL

-----------------------------------------------------------------------------
(* ImplementsRecord *)

(* Each write that the tables see is one of the abstract record's, and the
   other steps of handlers, tasks and faults leave the record alone.       *)
RecordStep == [Record!RecordNext]_(Record!record)

LEMMA SilentStep ==
    ASSUME UNCHANGED <<project, status, applied, published>>
    PROVE  RecordStep
BY DEF RecordStep, Record!record

LEMMA DraftStep ==
    ASSUME NEW d \in Deployments, project # "deleted", ~Present(d),
           SetStatus(d, "created"), UNCHANGED <<project, applied, published>>
    PROVE  RecordStep
BY DEF RecordStep, Record!RecordNext, Record!Draft, Record!InDatabase,
       Present, SetStatus

LEMMA StartStep ==
    ASSUME NEW d \in Deployments, Present(d),
           NEW s \in {"deploying", "destroying"},
           SetStatus(d, s), UNCHANGED <<project, applied, published>>
    PROVE  RecordStep
BY DEF RecordStep, Record!RecordNext, Record!Start, Record!InDatabase,
       Present, SetStatus

LEMMA ResultStep ==
    ASSUME NEW d \in Deployments, Present(d), NEW result \in Results,
           result = "completed" => d \in applied,
           SetStatus(d, result),
           project' = IF result = "completed" THEN "completed" ELSE project,
           UNCHANGED <<applied, published>>
    PROVE  RecordStep
BY DEF RecordStep, Record!RecordNext, Record!Report, Record!Results, Results,
       Record!InDatabase, Present, SetStatus

LEMMA PurgeStep ==
    ASSUME \/ _delete_project_records
           \/ \E d \in Deployments : DeleteRacesInsert(d),
           UNCHANGED <<applied, published>>
    PROVE  RecordStep
<1>1. CASE _delete_project_records
      BY <1>1 DEF _delete_project_records, RecordStep, Record!RecordNext,
                  Record!Purge
<1>2. ASSUME NEW d \in Deployments, DeleteRacesInsert(d) PROVE RecordStep
      BY <1>2, DraftStep DEF DeleteRacesInsert
<1> QED BY <1>1, <1>2

LEMMA RecordStepSimulation == TypeInv /\ CompletionInv /\ [Next]_vars => RecordStep
<1> SUFFICES ASSUME TypeInv, CompletionInv, [Next]_vars PROVE RecordStep
    OBVIOUS
<1> USE DEF database, runner
<1>0. \A r \in Requests : RequestOK(r)
      BY DEF TypeInv
<1>1. ASSUME NEW d \in Deployments, create_initial_deployment(d) PROVE RecordStep
      BY <1>1, DraftStep DEF create_initial_deployment
<1>2. ASSUME NEW r \in Requests, Arrive(r) PROVE RecordStep
      BY <1>2, SilentStep DEF Arrive, DeployRead, ActionCheck,
         DeleteReadDestroy, DeleteReadKeep
<1>3. ASSUME NEW r \in Requests, Handle(r) PROVE RecordStep
  <2>1. CASE \/ DeployCheck(r) \/ DeployUpload(r) \/ DeployUploadFails(r)
             \/ DeploySpawn(r) \/ RetryUpload(r) \/ ActionSpawn(r)
             \/ ActionRaises(r) \/ DeleteSpawn(r) \/ DeleteSpawnFails(r)
        BY <2>1, SilentStep DEF DeployCheck, DeployUpload, DeployUploadFails,
           DeploySpawn, RetryUpload, ActionSpawn, ActionRaises, DeleteSpawn,
           DeleteSpawnFails
  <2>2. CASE DeployCommit(r)
    <3>1. RowOf(r) \in Deployments
          BY <1>0, <2>2 DEF DeployCommit, At, RequestOK
    <3> QED BY <2>2, <3>1, StartStep, SilentStep DEF DeployCommit
  <2>3. CASE DeploySpawnFails(r)
    <3>1. RowOf(r) \in Deployments
          BY <1>0, <2>3 DEF DeploySpawnFails, At, RequestOK
    <3>2. CASE Present(RowOf(r))
          BY <2>3, <3>1, <3>2, ResultStep DEF DeploySpawnFails, Results
    <3>3. CASE ~Present(RowOf(r))
          BY <2>3, <3>3, SilentStep DEF DeploySpawnFails
    <3> QED BY <3>2, <3>3
  <2>4. CASE RetryCommit(r)
    <3>1. RowOf(r) \in Deployments
          BY <1>0, <2>4 DEF RetryCommit, At, RequestOK
    <3> QED BY <2>4, <3>1, StartStep, SilentStep DEF RetryCommit
  <2>5. CASE DestroyCommit(r)
    <3>1. RowOf(r) \in Deployments
          BY <1>0, <2>5 DEF DestroyCommit, At, RequestOK
    <3> QED BY <2>5, <3>1, StartStep, SilentStep DEF DestroyCommit
  <2>6. CASE DeletePurge(r)
        BY <2>6, PurgeStep DEF DeletePurge
  <2> QED BY <1>3, <2>1, <2>2, <2>3, <2>4, <2>5, <2>6 DEF Handle
<1>4. ASSUME NEW r \in Requests, RunTask(r) PROVE RecordStep
  <2>1. CASE TaskApplies(r)
    <3>1. RowOf(r) \in Deployments
          BY <1>0, <2>1 DEF TaskApplies, InPhase, RequestOK
    <3> QED BY <2>1, <3>1 DEF TaskApplies, RecordStep, Record!RecordNext,
               Record!Apply
  <2>2. CASE \/ TaskStartFails(r) \/ TaskLocks(r) \/ TaskFindsLock(r)
             \/ TaskDestroys(r) \/ TaskTerraformFails(r)
        BY <2>2, SilentStep DEF TaskStartFails, TaskLocks, TaskFindsLock,
           TaskDestroys, TaskTerraformFails
  <2> QED BY <1>4, <2>1, <2>2 DEF RunTask
<1>5. ASSUME NEW r \in Requests, deployment_complete_callback(r) PROVE RecordStep
  <2>1. CASE CallbackCommit(r)
    <3>1. RowOf(r) \in Deployments
          BY <1>0, <2>1 DEF CallbackCommit, InPhase, RequestOK
    <3>2. task[r].result \in Results
          BY DEF TypeInv, TypeOK, TaskStates
    <3>3. task[r].result = "completed" => RowOf(r) \in applied
          BY <2>1 DEF CompletionInv, CallbackCommit, InPhase
    <3> QED BY <2>1, <3>1, <3>2, <3>3, ResultStep DEF CallbackCommit
  <2>2. CASE CallbackPublish(r)
    <3>1. RowOf(r) \in Deployments /\ RowOf(r) \in applied
          BY <1>0, <2>2 DEF CallbackPublish, InPhase, RequestOK, CompletionInv
    <3> QED BY <2>2, <3>1 DEF CallbackPublish, RecordStep, Record!RecordNext,
               Record!Announce
  <2>3. CASE CallbackPurge(r)
        BY <2>3, PurgeStep DEF CallbackPurge
  <2>4. CASE CallbackNotFound(r) \/ CallbackPublishFails(r)
        BY <2>4, SilentStep DEF CallbackNotFound, CallbackPublishFails
  <2> QED BY <1>5, <2>1, <2>2, <2>3, <2>4 DEF deployment_complete_callback
<1>6. ASSUME NEW r \in Requests, TaskIsLost(r) PROVE RecordStep
      BY <1>6, SilentStep DEF TaskIsLost
<1>7. CASE Restart
      BY <1>7, SilentStep DEF Restart
<1>8. CASE UNCHANGED vars
      BY <1>8, SilentStep DEF vars
<1> QED BY <1>1, <1>2, <1>3, <1>4, <1>5, <1>6, <1>7, <1>8 DEF Next

(* The handlers, tasks, callbacks and faults implement the record that the
   pages, the event stream and MirrorOps read, whatever their number.      *)
THEOREM LifecycleImplementsRecord == Spec => ImplementsRecord
<1>1. Init => Record!RecordInit
      BY DEF Init, Record!RecordInit
<1>2. Init => CompletionInv
      BY DEF Init, CompletionInv, CompletionIsReal, InPhase, Waiting, NoTask
<1>3. TypeInv /\ CompletionInv /\ [Next]_vars => [Record!RecordNext]_(Record!record)
      BY RecordStepSimulation DEF RecordStep
<1> QED BY <1>1, <1>2, <1>3, TypeInvariant, CompletionInductive, PTL
        DEF Spec, ImplementsRecord, Record!RecordSpec
=============================================================================
