------------------------ MODULE MirrorPipelineProofs ------------------------
(* Proofs about MirrorPipeline: its invariants hold for any number of
   projects, workers, messages and runs under way at once; then what the runs
   of a project leave behind when they never overlap.                      *)
EXTENDS MirrorPipeline, FiniteSetTheorems, TLAPS

USE DEF Syncs, NoSync

RunStates  == [pc : Steps \cup {"none", "ended"}, by : Workers \cup {Manual},
               found : SUBSET Resources]
SyncRows   == [project : Projects \cup {"none"},
               status : {"none", "running", "completed", "failed"},
               trigger : Messages \cup {NoMessage}]
Packages   == [at : Nat, latest : BOOLEAN, ready : BOOLEAN]
WorkerStates == [pc : {"idle", "run", "phase2", "ready", "delete"},
                 msg : Messages \cup {NoMessage}, pkg : Syncs \cup {NoSync}]

RunType    == run \in [Syncs -> RunStates]
SyncType   == sync \in [Syncs -> SyncRows]
WorkerType == worker \in [Workers -> WorkerStates]
PackageType == package \in [Syncs -> Packages]

-----------------------------------------------------------------------------
(* What the building blocks of the actions do.                             *)

OnlyRun(s)  == \A t \in Syncs \ {s} : run'[t] = run[t]
OnlySync(s) == \A t \in Syncs \ {s} : sync'[t] = sync[t]

LEMMA GotoEffect ==
    ASSUME RunType, NEW s \in Syncs, NEW pc \in Steps \cup {"ended"}, Goto(s, pc)
    PROVE  /\ RunType' /\ OnlyRun(s)
           /\ run'[s].pc = pc /\ run'[s].by = run[s].by
           /\ run'[s].found = run[s].found
<1>1. run[s] \in RunStates
      BY DEF RunType
<1>2. run' = [run EXCEPT ![s] = [run[s] EXCEPT !.pc = pc]]
      BY DEF Goto
<1>3. [run[s] EXCEPT !.pc = pc] \in RunStates
      BY <1>1 DEF RunStates
<1> QED BY <1>1, <1>2, <1>3 DEF RunType, RunStates, OnlyRun

LEMMA DetectEffect ==
    ASSUME RunType, NEW s \in Syncs, NEW found \in SUBSET Resources,
           run' = [run EXCEPT ![s].pc = "map", ![s].found = found]
    PROVE  /\ RunType' /\ OnlyRun(s)
           /\ run'[s].pc = "map" /\ run'[s].found = found /\ run'[s].by = run[s].by
<1>1. run[s] \in RunStates
      BY DEF RunType
<1>2. run' = [run EXCEPT ![s] = [[run[s] EXCEPT !.pc = "map"] EXCEPT !.found = found]]
      BY <1>1 DEF RunType
<1>3. [[run[s] EXCEPT !.pc = "map"] EXCEPT !.found = found] \in RunStates
      BY <1>1 DEF RunStates, Steps
<1> QED BY <1>1, <1>2, <1>3 DEF RunType, RunStates, OnlyRun

LEMMA StatusEffect ==
    ASSUME SyncType, NEW s \in Syncs,
           NEW status \in {"completed", "failed"},
           sync' = [sync EXCEPT ![s].status = status]
    PROVE  /\ SyncType' /\ OnlySync(s) /\ sync'[s].status = status
           /\ sync'[s].project = sync[s].project
           /\ sync'[s].trigger = sync[s].trigger
<1>1. sync[s] \in SyncRows
      BY DEF SyncType
<1>2. [sync[s] EXCEPT !.status = status] \in SyncRows
      BY <1>1 DEF SyncRows
<1> QED BY <1>1, <1>2 DEF SyncType, SyncRows, OnlySync

(* The row a new run gets, and what is written to it.                      *)
StartsAs(s, p, by, trigger) ==
    /\ run[s].pc = "none"
    /\ \A t \in Syncs : t < s => run[t].pc # "none"
    /\ OnlyRun(s) /\ OnlySync(s)
    /\ run'[s].pc = "begin" /\ run'[s].by = by /\ run'[s].found = {}
    /\ sync'[s].project = p /\ sync'[s].status = "running"
    /\ sync'[s].trigger = trigger

LEMMA StartEffect ==
    ASSUME RunType, SyncType, NEW p \in Projects \cup {"none"},
           NEW by \in Workers \cup {Manual},
           NEW trigger \in Messages \cup {NoMessage}, StartRun(p, by, trigger)
    PROVE  RunType' /\ SyncType' /\ \E s \in Syncs : StartsAs(s, p, by, trigger)
<1>1. PICK s \in Syncs :
          /\ run[s].pc = "none"
          /\ \A t \in Syncs : t < s => run[t].pc # "none"
          /\ run' = [run EXCEPT ![s] =
                        [pc |-> "begin", by |-> by, found |-> {}]]
          /\ sync' = [sync EXCEPT ![s] =
                        [project |-> p, status |-> "running", trigger |-> trigger]]
      BY DEF StartRun
<1>2. [pc |-> "begin", by |-> by, found |-> {}] \in RunStates
      BY DEF RunStates, Steps
<1>3. [project |-> p, status |-> "running", trigger |-> trigger] \in SyncRows
      BY DEF SyncRows
<1>4. RunType' /\ SyncType'
      BY <1>1, <1>2, <1>3 DEF RunType, SyncType
<1>5. StartsAs(s, p, by, trigger)
      BY <1>1 DEF StartsAs, OnlyRun, OnlySync, RunType, SyncType
<1> QED BY <1>4, <1>5

OnlyWorker(w) == \A v \in Workers \ {w} : worker'[v] = worker[v]

LEMMA ReceiveEffect ==
    ASSUME WorkerType, NEW w \in Workers, NEW m \in Messages,
           NEW pc \in {"run", "phase2", "delete"}, NEW pkg \in Syncs \cup {NoSync},
           Receive(w, m, pc, pkg)
    PROVE  /\ WorkerType' /\ OnlyWorker(w) /\ worker[w].pc = "idle"
           /\ worker'[w].pc = pc /\ worker'[w].msg = m /\ worker'[w].pkg = pkg
<1>1. [pc |-> pc, msg |-> m, pkg |-> pkg] \in WorkerStates
      BY DEF WorkerStates
<1> QED BY <1>1 DEF Receive, Holds, WorkerType, OnlyWorker

LEMMA IdleType == Idle \in WorkerStates
BY DEF Idle, WorkerStates

LEMMA ReleaseEffect ==
    ASSUME WorkerType, NEW w \in Workers, Release(w)
    PROVE  WorkerType' /\ OnlyWorker(w) /\ worker'[w].pc = "idle"
BY IdleType DEF Release, WorkerType, OnlyWorker, Idle

LEMMA WorkerGotoEffect ==
    ASSUME WorkerType, NEW w \in Workers, NEW pc \in {"ready", "delete"},
           worker' = [worker EXCEPT ![w].pc = pc]
    PROVE  /\ WorkerType' /\ OnlyWorker(w) /\ worker'[w].pc = pc
           /\ worker'[w].msg = worker[w].msg /\ worker'[w].pkg = worker[w].pkg
<1>1. worker[w] \in WorkerStates
      BY DEF WorkerType
<1>2. [worker[w] EXCEPT !.pc = pc] \in WorkerStates
      BY <1>1 DEF WorkerStates
<1> QED BY <1>1, <1>2 DEF WorkerType, WorkerStates, OnlyWorker

(* A run that completes sends its worker on to delete the message.         *)
LEMMA CompleteEffect ==
    ASSUME WorkerType, NEW s \in Syncs, Complete(s)
    PROVE  /\ WorkerType'
           /\ \A w \in Workers : w # run[s].by => worker'[w] = worker[w]
           /\ \A w \in Workers : w = run[s].by =>
                 /\ worker'[w].pc = "delete"
                 /\ worker'[w].msg = worker[w].msg
<1>1. \A w \in Workers : /\ worker[w] \in WorkerStates
                         /\ [worker[w] EXCEPT !.pc = "delete"] \in WorkerStates
      BY DEF WorkerType, WorkerStates
<1> QED BY <1>1 DEF Complete, WorkerType, WorkerStates

LEMMA AbandonEffect ==
    ASSUME RunType, WorkerType, NEW s \in Syncs, Abandon(s)
    PROVE  /\ RunType' /\ OnlyRun(s) /\ run'[s].pc = "ended"
           /\ run'[s].by = run[s].by /\ run'[s].found = run[s].found
           /\ WorkerType'
           /\ \A w \in Workers : w # run[s].by => worker'[w] = worker[w]
           /\ \A w \in Workers : w = run[s].by => worker'[w] = Idle
<1>1. Goto(s, "ended")
      BY DEF Abandon
<1>2. WorkerType'
      BY IdleType DEF Abandon, WorkerType
<1> QED BY <1>1, <1>2, GotoEffect DEF Abandon

-----------------------------------------------------------------------------
(* Type correctness *)

LEMMA TypeParts ==
    ASSUME TypeOK
    PROVE  RunType /\ SyncType /\ WorkerType /\ PackageType
BY DEF TypeOK, RunType, SyncType, WorkerType, PackageType,
       RunStates, SyncRows, WorkerStates, Packages

LEMMA MessageTypes ==
    /\ \A d \in Deployments : DeploymentMessage(d) \in Messages
    /\ \A s \in Syncs : SnapshotMessage(s) \in Messages
BY DEF Messages

LEMMA MessagesDiffer ==
    /\ \A d, e : DeploymentMessage(d) = DeploymentMessage(e) => d = e
    /\ \A d, s : DeploymentMessage(d) # SnapshotMessage(s)
    /\ \A d : DeploymentMessage(d) # NoMessage
BY DEF DeploymentMessage, SnapshotMessage, NoMessage

(* Only announced deployments have a message.                              *)
Announced == \A d \in Deployments :
    announces[d] = "none" => queue[DeploymentMessage(d)] # "sent"

(* What remains of the type when run, sync and worker are dealt with.      *)
RestType ==
    /\ dr_status \in [Projects -> {"not_ready", "syncing", "ready"}]
    /\ aws_rows \subseteq Syncs \X Resources
    /\ gcp_rows \subseteq Syncs \X Resources
    /\ PackageType
    /\ main_tf \in [Projects -> Syncs \cup {NoSync}]
    /\ queue \in [Messages -> {"unsent", "sent", "deleted"}]
    /\ announces \in [Deployments -> Projects \cup {"none"}]
    /\ skipped \subseteq Deployments
    /\ overlapped \subseteq Projects
    /\ stranded \subseteq Syncs

LEMMA TypeSplit ==
    /\ TypeOK <=> RunType /\ SyncType /\ WorkerType /\ RestType
    /\ TypeOK' <=> RunType' /\ SyncType' /\ WorkerType' /\ RestType'
BY DEF TypeOK, RunType, SyncType, WorkerType, PackageType, RestType,
       RunStates, SyncRows, WorkerStates, Packages

LEMMA TypeInit == Init => TypeOK
<1> SUFFICES ASSUME Init PROVE TypeOK
    OBVIOUS
<1>1. RunType
      BY DEF Init, RunType, RunStates, NoRun
<1>2. SyncType
      BY DEF Init, SyncType, SyncRows, NoRow
<1>3. WorkerType
      BY IdleType DEF Init, WorkerType
<1>4. PackageType
      BY DEF Init, PackageType, Packages, NoPackage
<1>5. RestType
      BY <1>4 DEF Init, RestType
<1> QED BY <1>1, <1>2, <1>3, <1>5, TypeSplit

LEMMA RunStepType ==
    ASSUME TypeOK, NEW s \in Syncs, RunStep(s)
    PROVE  TypeOK'
<1> USE DEF RestType, history, tables
<1>0. RunType /\ SyncType /\ WorkerType /\ RestType
      BY TypeSplit
<1>1. CASE MarkSyncing(s)
  <2>1. RunType'
        BY <1>0, <1>1, GotoEffect DEF MarkSyncing, Steps
  <2> QED BY <1>0, <1>1, <2>1, TypeSplit
          DEF MarkSyncing, SyncType, WorkerType, PackageType
<1>2. CASE ClearRows(s)
  <2>1. RunType'
        BY <1>0, <1>2, GotoEffect DEF ClearRows, Steps
  <2> QED BY <1>0, <1>2, <2>1, TypeSplit
          DEF ClearRows, SyncType, WorkerType, PackageType
<1>3. CASE detect_all(s)
  <2>1. PICK found \in SUBSET Resources :
            /\ run' = [run EXCEPT ![s].pc = "map", ![s].found = found]
            /\ aws_rows' = aws_rows \cup ({s} \X found)
        BY <1>3 DEF detect_all
  <2>2. RunType'
        BY <1>0, <2>1, DetectEffect
  <2> QED BY <1>0, <1>3, <2>1, <2>2, TypeSplit
          DEF detect_all, SyncType, WorkerType, PackageType
<1>4. CASE map_all(s)
  <2>1. RunType'
        BY <1>0, <1>4, GotoEffect DEF map_all, Steps
  <2>2. run[s].found \subseteq Resources
        BY <1>0 DEF RunType, RunStates
  <2> QED BY <1>0, <1>4, <2>1, <2>2, TypeSplit
          DEF map_all, SyncType, WorkerType, PackageType
<1>5. CASE RetirePackage(s)
  <2>1. RunType'
        BY <1>0, <1>5, GotoEffect DEF RetirePackage, Steps
  <2>2. \A t \in Syncs : /\ package[t] \in Packages
                         /\ [package[t] EXCEPT !.latest = FALSE] \in Packages
        BY <1>0 DEF PackageType, Packages
  <2>3. PackageType'
        BY <1>5, <2>2 DEF RetirePackage, PackageType
  <2> QED BY <1>0, <1>5, <2>1, <2>3, TypeSplit
          DEF RetirePackage, SyncType, WorkerType
<1>6. CASE KeepPackage(s)
  <2>1. RunType'
        BY <1>0, <1>6, GotoEffect DEF KeepPackage, Steps
  <2>2. dr_status' \in [Projects -> {"not_ready", "syncing", "ready"}]
    <3>1. dr_status' \in {dr_status, [dr_status EXCEPT ![ProjectOf(s)] = "ready"]}
          BY <1>6 DEF KeepPackage
    <3> QED BY <1>0, <3>1
  <2> QED BY <1>0, <1>6, <2>1, <2>2, TypeSplit
          DEF KeepPackage, SyncType, WorkerType, PackageType
<1>7. CASE CreateSnapshot(s)
  <2>1. RunType'
        BY <1>0, <1>7, GotoEffect DEF CreateSnapshot, Steps
  <2> QED BY <1>0, <1>7, <2>1, TypeSplit
          DEF CreateSnapshot, SyncType, WorkerType, PackageType
<1>8. CASE UploadCode(s)
  <2>1. RunType'
        BY <1>0, <1>8, GotoEffect DEF UploadCode, Steps
  <2> QED BY <1>0, <1>8, <2>1, TypeSplit
          DEF UploadCode, SyncType, WorkerType, PackageType
<1>9. CASE RecordPackage(s)
  <2>1. RunType'
        BY <1>0, <1>9, GotoEffect DEF RecordPackage, Steps
  <2> DEFINE n == Cardinality({t \in Syncs : Packaged(t)})
  <2>2. n \in Nat
    <3>1. IsFiniteSet(Syncs)
          BY FS_Interval, MirrorAssumption
    <3>2. IsFiniteSet({t \in Syncs : Packaged(t)})
          BY <3>1, FS_Subset
    <3> QED BY <3>2, FS_CardinalityType
  <2>3. [at |-> n + 1, latest |-> TRUE, ready |-> FALSE] \in Packages
        BY <2>2 DEF Packages
  <2>4. PackageType'
        BY <1>0, <1>9, <2>3 DEF RecordPackage, PackageType
  <2> QED BY <1>0, <1>9, <2>1, <2>4, TypeSplit
          DEF RecordPackage, SyncType, WorkerType
<1>10. CASE Complete(s)
  <2>1. RunType'
        BY <1>0, <1>10, GotoEffect DEF Complete
  <2>2. SyncType'
        BY <1>0, <1>10, StatusEffect DEF Complete
  <2>3. WorkerType'
        BY <1>0, <1>10, CompleteEffect
  <2> QED BY <1>0, <1>10, <2>1, <2>2, <2>3, TypeSplit
          DEF Complete, PackageType
<1>11. CASE RunFails(s)
  <2>1. RunType' /\ WorkerType'
        BY <1>0, <1>11, AbandonEffect DEF RunFails
  <2>2. SyncType'
        BY <1>0, <1>11, StatusEffect DEF RunFails
  <2> QED BY <1>0, <1>11, <2>1, <2>2, TypeSplit
          DEF RunFails, PackageType
<1>12. CASE RunIsLost(s)
  <2>1. RunType' /\ WorkerType'
        BY <1>0, <1>12, AbandonEffect DEF RunIsLost
  <2> QED BY <1>0, <1>12, <2>1, TypeSplit
          DEF RunIsLost, SyncType, PackageType
<1> QED BY <1>1, <1>2, <1>3, <1>4, <1>5, <1>6, <1>7, <1>8, <1>9, <1>10,
           <1>11, <1>12 DEF RunStep

LEMMA WorkerStepType ==
    ASSUME TypeOK, Announced, NEW w \in Workers, WorkerStep(w)
    PROVE  TypeOK'
<1> USE DEF RestType, history, tables
<1>0. RunType /\ SyncType /\ WorkerType /\ RestType
      BY TypeSplit
<1>1. ASSUME NEW d \in Deployments, SkipDeployment(w, d) PROVE TypeOK'
  <2>1. WorkerType'
        BY <1>0, <1>1, ReceiveEffect, MessageTypes DEF SkipDeployment
  <2> QED BY <1>0, <1>1, <2>1, TypeSplit
          DEF SkipDeployment, RunType, SyncType, PackageType
<1>2. ASSUME NEW d \in Deployments, RunDeployment(w, d) PROVE TypeOK'
  <2>1. WorkerType'
        BY <1>0, <1>2, ReceiveEffect, MessageTypes DEF RunDeployment
  <2>2. RunType' /\ SyncType'
        BY <1>0, <1>2, StartEffect, MessageTypes DEF RunDeployment
  <2>3. overlapped' \subseteq Projects
    <3>1. announces[d] # "none"
          BY <1>2 DEF RunDeployment, Receive, Announced
    <3> QED BY <1>0, <1>2, <3>1 DEF RunDeployment, StartRun
  <2> QED BY <1>0, <1>2, <2>1, <2>2, <2>3, TypeSplit
          DEF RunDeployment, StartRun, PackageType
<1>3. ASSUME NEW s \in Syncs, ChoosePackage(w, s) PROVE TypeOK'
  <2>1. WorkerType'
    <3>1. ASSUME NEW q \in Newest(Pending), Receive(w, SnapshotMessage(s), "phase2", q)
          PROVE  WorkerType'
          BY <1>0, <3>1, ReceiveEffect, MessageTypes DEF Newest, Pending
    <3>2. CASE Receive(w, SnapshotMessage(s), "delete", NoSync)
          BY <1>0, <3>2, ReceiveEffect, MessageTypes
    <3> QED BY <1>3, <3>1, <3>2 DEF ChoosePackage
  <2> QED BY <1>0, <1>3, <2>1, TypeSplit
          DEF ChoosePackage, RunType, SyncType, PackageType
<1>4. CASE run_phase2(w)
  <2>1. WorkerType'
        BY <1>0, <1>4, WorkerGotoEffect DEF run_phase2
  <2>2. \A t \in Syncs : /\ package[t] \in Packages
                         /\ [package[t] EXCEPT !.ready = TRUE] \in Packages
        BY <1>0 DEF PackageType, Packages
  <2>3. PackageType'
        BY <1>0, <1>4, <2>2 DEF run_phase2, PackageType
  <2> QED BY <1>0, <1>4, <2>1, <2>3, TypeSplit
          DEF run_phase2, RunType, SyncType
<1>5. CASE MarkReady(w)
  <2>1. WorkerType'
        BY <1>0, <1>5, WorkerGotoEffect DEF MarkReady
  <2> QED BY <1>0, <1>5, <2>1, TypeSplit
          DEF MarkReady, RunType, SyncType, PackageType
<1>6. CASE delete_message(w)
  <2>1. WorkerType'
        BY <1>0, <1>6, ReleaseEffect DEF delete_message
  <2> QED BY <1>0, <1>6, <2>1, TypeSplit
          DEF delete_message, RunType, SyncType, PackageType
<1>7. CASE HandlerFails(w)
  <2>1. WorkerType'
        BY <1>0, <1>7, ReleaseEffect DEF HandlerFails
  <2> QED BY <1>0, <1>7, <2>1, TypeSplit
          DEF HandlerFails, RunType, SyncType, PackageType
<1> QED BY <1>1, <1>2, <1>3, <1>4, <1>5, <1>6, <1>7 DEF WorkerStep

LEMMA SurroundingsType ==
    ASSUME TypeOK, Surroundings
    PROVE  TypeOK'
<1> USE DEF RestType, history, tables
<1>0. RunType /\ SyncType /\ WorkerType /\ RestType
      BY TypeSplit
<1>1. ASSUME NEW p \in Projects, manual_sync(p) PROVE TypeOK'
  <2>1. RunType' /\ SyncType'
        BY <1>0, <1>1, StartEffect DEF manual_sync
  <2>2. overlapped' \subseteq Projects
        BY <1>0, <1>1 DEF manual_sync, StartRun
  <2> QED BY <1>0, <1>1, <2>1, <2>2, TypeSplit
          DEF manual_sync, StartRun, WorkerType, PackageType
<1>2. ASSUME NEW d \in Deployments, NEW p \in Projects, put_events(d, p)
      PROVE  TypeOK'
      BY <1>0, <1>2, TypeSplit
      DEF put_events, RunType, SyncType, WorkerType, PackageType
<1> QED BY <1>1, <1>2 DEF Surroundings

LEMMA AnnouncedInductive ==
    ASSUME TypeOK, Announced, [Next]_vars
    PROVE  Announced'
<1> USE DEF Announced, history, tables
<1>0. /\ queue \in [Messages -> {"unsent", "sent", "deleted"}]
      /\ announces \in [Deployments -> Projects \cup {"none"}]
      BY DEF TypeOK
<1>1. ASSUME NEW s \in Syncs, RunStep(s) PROVE Announced'
  <2>1. CASE CreateSnapshot(s)
        BY <1>0, <2>1, MessagesDiffer, MessageTypes DEF CreateSnapshot
  <2>2. CASE UNCHANGED <<queue, announces>>
        BY <2>2
  <2> QED BY <1>1, <2>1, <2>2
          DEF RunStep, MarkSyncing, ClearRows, detect_all, map_all,
              RetirePackage, KeepPackage, UploadCode, RecordPackage,
              Complete, RunFails, RunIsLost
<1>2. ASSUME NEW w \in Workers, WorkerStep(w) PROVE Announced'
  <2>1. CASE delete_message(w)
        BY <1>0, <2>1, MessageTypes DEF delete_message
  <2>2. CASE UNCHANGED <<queue, announces>>
        BY <2>2
  <2> QED BY <1>2, <2>1, <2>2
          DEF WorkerStep, SkipDeployment, RunDeployment, StartRun,
              ChoosePackage, run_phase2, MarkReady, HandlerFails
<1>3. CASE Surroundings
  <2>1. ASSUME NEW d \in Deployments, NEW p \in Projects, put_events(d, p)
        PROVE  Announced'
        BY <1>0, <2>1, MessagesDiffer, MessageTypes, MirrorAssumption
        DEF put_events
  <2>2. CASE UNCHANGED <<queue, announces>>
        BY <2>2
  <2> QED BY <1>3, <2>1, <2>2 DEF Surroundings, manual_sync, StartRun
<1>4. CASE UNCHANGED vars
      BY <1>4 DEF vars
<1> QED BY <1>1, <1>2, <1>3, <1>4 DEF Next

LEMMA TypeInductive ==
    TypeOK /\ Announced /\ [Next]_vars => TypeOK' /\ Announced'
<1> SUFFICES ASSUME TypeOK, Announced, [Next]_vars PROVE TypeOK' /\ Announced'
    OBVIOUS
<1>1. CASE UNCHANGED vars
      BY <1>1, AnnouncedInductive DEF vars, TypeOK
<1>2. CASE Next
      BY <1>2, RunStepType, WorkerStepType, SurroundingsType,
         AnnouncedInductive DEF Next
<1> QED BY <1>1, <1>2

(* Every variable keeps its type, for any constants.                       *)
THEOREM TypeCorrect == Spec => []TypeOK
<1>1. Init => TypeOK /\ Announced
      BY TypeInit, MessageTypes DEF Init, Announced
<1> QED BY <1>1, TypeInductive, PTL DEF Spec

-----------------------------------------------------------------------------
(* The books: what the row, the run and the package of a number say of one
   another, and what a worker in phase 2 may rely on.                      *)

BookRow(s) ==
    /\ sync[s].status = "none" <=> run[s].pc = "none"
    /\ Running(s) => sync[s].status = "running"
    /\ sync[s].status = "running" => Running(s) \/ s \in stranded
    /\ run[s].pc # "none" => ProjectOf(s) \in Projects
    /\ Packaged(s) => run[s].pc \in {"finish", "ended"}
    /\ package[s].ready => Packaged(s)
BookWorker(w) ==
    /\ worker[w].pc \in {"phase2", "ready"} =>
          worker[w].pkg \in Syncs /\ Packaged(worker[w].pkg)
    /\ worker[w].pc = "ready" => package[worker[w].pkg].ready

Books == /\ \A s \in Syncs : BookRow(s)
         /\ \A w \in Workers : BookWorker(w)

(* A package, once there, stays; once exported, it stays exported.         *)
PackagesGrow == \A s \in Syncs : /\ Packaged(s) => Packaged(s)'
                                 /\ package[s].ready => package'[s].ready

LEMMA GrowEffect ==
    ASSUME TypeOK, Books, [Next]_vars
    PROVE  PackagesGrow
<1> USE DEF PackagesGrow, Packaged, tables
<1>0. PackageType
      BY TypeSplit DEF RestType
<1>1. ASSUME NEW s \in Syncs, RetirePackage(s) PROVE PackagesGrow
      BY <1>0, <1>1 DEF RetirePackage, PackageType, Packages
<1>2. ASSUME NEW s \in Syncs, RecordPackage(s) PROVE PackagesGrow
  <2>1. ~package[s].ready
        BY <1>2 DEF Books, BookRow, RecordPackage, At
  <2> DEFINE n == Cardinality({t \in Syncs : package[t].at > 0})
  <2>2. n \in Nat
    <3>1. IsFiniteSet(Syncs)
          BY FS_Interval, MirrorAssumption
    <3>2. IsFiniteSet({t \in Syncs : package[t].at > 0})
          BY <3>1, FS_Subset
    <3> QED BY <3>2, FS_CardinalityType
  <2>3. package' = [package EXCEPT ![s] =
                       [at |-> n + 1, latest |-> TRUE, ready |-> FALSE]]
        BY <1>2 DEF RecordPackage
  <2>4. n + 1 > 0
        BY <2>2
  <2> HIDE DEF n
  <2> QED BY <1>0, <2>1, <2>3, <2>4 DEF PackageType, Packages
<1>3. ASSUME NEW w \in Workers, run_phase2(w) PROVE PackagesGrow
      BY <1>0, <1>3 DEF run_phase2, PackageType, Packages
<1>4. CASE UNCHANGED package
      BY <1>4
<1> QED BY <1>1, <1>2, <1>3, <1>4
        DEF Next, vars, RunStep, MarkSyncing, ClearRows, detect_all, map_all,
            KeepPackage, CreateSnapshot, UploadCode, Complete, RunFails,
            RunIsLost, WorkerStep, SkipDeployment, RunDeployment, StartRun,
            ChoosePackage, MarkReady, delete_message, HandlerFails,
            Surroundings, manual_sync, put_events

(* The rows whose run does not move keep their book.                       *)
LEMMA BookOthers ==
    ASSUME Books, NEW s \in Syncs, OnlyRun(s), OnlySync(s),
           \A t \in Syncs \ {s} : /\ package'[t].at = package[t].at
                                  /\ package'[t].ready = package[t].ready,
           stranded \subseteq stranded'
    PROVE  \A t \in Syncs \ {s} : BookRow(t)'
BY DEF Books, BookRow, OnlyRun, OnlySync, Running, ProjectOf, Packaged

LEMMA BookStart ==
    ASSUME TypeOK, Books, NEW p \in Projects, NEW by \in Workers \cup {Manual},
           NEW trigger \in Messages \cup {NoMessage}, StartRun(p, by, trigger)
    PROVE  \A t \in Syncs : BookRow(t)'
<1>1. PICK s \in Syncs : StartsAs(s, p, by, trigger)
      BY StartEffect, TypeSplit
<1>2. \A t \in Syncs \ {s} : BookRow(t)'
      BY <1>1, BookOthers DEF StartsAs, StartRun, tables
<1>3. BookRow(s)'
      BY <1>1 DEF Books, BookRow, StartsAs, StartRun, tables, Running, Steps,
                  ProjectOf, Packaged
<1> QED BY <1>2, <1>3

LEMMA BookRun ==
    ASSUME TypeOK, Books, NEW s \in Syncs, RunStep(s)
    PROVE  \A t \in Syncs : BookRow(t)'
<1> USE DEF tables, history
<1>0. RunType /\ SyncType /\ WorkerType /\ PackageType /\ BookRow(s)
      BY TypeParts DEF Books
<1>1. CASE \/ MarkSyncing(s) \/ ClearRows(s) \/ detect_all(s) \/ map_all(s)
           \/ CreateSnapshot(s) \/ UploadCode(s) \/ KeepPackage(s)
  <2>1. /\ OnlyRun(s) /\ Running(s) /\ ~At(s, "finish") /\ run'[s].pc \in Steps
        /\ UNCHANGED <<sync, package, stranded>>
    <3>1. CASE detect_all(s)
          BY <1>0, <3>1, DetectEffect DEF detect_all, Running, At, Steps
    <3>2. CASE MarkSyncing(s)
          BY <1>0, <3>2, GotoEffect DEF MarkSyncing, Running, At, Steps
    <3>3. CASE ClearRows(s)
          BY <1>0, <3>3, GotoEffect DEF ClearRows, Running, At, Steps
    <3>4. CASE map_all(s)
          BY <1>0, <3>4, GotoEffect DEF map_all, Running, At, Steps
    <3>5. CASE CreateSnapshot(s)
          BY <1>0, <3>5, GotoEffect DEF CreateSnapshot, Running, At, Steps
    <3>6. CASE UploadCode(s)
          BY <1>0, <3>6, GotoEffect DEF UploadCode, Running, At, Steps
    <3>7. CASE KeepPackage(s)
          BY <1>0, <3>7, GotoEffect DEF KeepPackage, Running, At, Steps
    <3> QED BY <1>1, <3>1, <3>2, <3>3, <3>4, <3>5, <3>6, <3>7
  <2>2. \A t \in Syncs \ {s} : BookRow(t)'
        BY <2>1, BookOthers DEF OnlySync
  <2>3. BookRow(s)'
        BY <1>0, <2>1 DEF BookRow, Running, At, Steps, ProjectOf, Packaged
  <2> QED BY <2>2, <2>3
<1>2. CASE RetirePackage(s)
  <2>1. OnlyRun(s) /\ run'[s].pc = "snapshot" /\ run[s].pc = "compare"
        BY <1>0, <1>2, GotoEffect DEF RetirePackage, At, Steps
  <2>2. \A t \in Syncs : /\ package'[t].at = package[t].at
                         /\ package'[t].ready = package[t].ready
        BY <1>0, <1>2 DEF RetirePackage, PackageType, Packages
  <2>3. UNCHANGED <<sync, stranded>>
        BY <1>2 DEF RetirePackage
  <2>4. \A t \in Syncs \ {s} : BookRow(t)'
        BY <2>1, <2>2, <2>3, BookOthers DEF OnlySync
  <2>5. BookRow(s)'
        BY <1>0, <2>1, <2>2, <2>3
        DEF BookRow, Running, Steps, ProjectOf, Packaged
  <2> QED BY <2>4, <2>5
<1>3. CASE RecordPackage(s)
  <2>1. OnlyRun(s) /\ run'[s].pc = "finish" /\ run[s].pc = "record"
        BY <1>0, <1>3, GotoEffect DEF RecordPackage, At, Steps
  <2>2. /\ \A t \in Syncs \ {s} : package'[t] = package[t]
        /\ ~package'[s].ready
        BY <1>0, <1>3 DEF RecordPackage, PackageType
  <2>3. UNCHANGED <<sync, stranded>>
        BY <1>3 DEF RecordPackage
  <2>4. \A t \in Syncs \ {s} : BookRow(t)'
        BY <2>1, <2>2, <2>3, BookOthers DEF OnlySync
  <2>5. BookRow(s)'
        BY <1>0, <2>1, <2>2, <2>3
        DEF BookRow, Running, Steps, ProjectOf, Packaged
  <2> QED BY <2>4, <2>5
<1>4. CASE Complete(s)
  <2>1. /\ OnlyRun(s) /\ run'[s].pc = "ended" /\ run[s].pc = "finish"
        /\ OnlySync(s) /\ sync'[s].status = "completed"
        /\ sync'[s].project = sync[s].project
    <3>1. /\ run[s].pc = "finish" /\ Goto(s, "ended")
          /\ sync' = [sync EXCEPT ![s].status = "completed"]
          BY <1>4 DEF Complete, At
    <3>2. OnlyRun(s) /\ run'[s].pc = "ended"
          BY <1>0, <3>1, GotoEffect
    <3>3. /\ OnlySync(s) /\ sync'[s].status = "completed"
          /\ sync'[s].project = sync[s].project
          BY <1>0, <3>1, StatusEffect
    <3> QED BY <3>1, <3>2, <3>3
  <2>2. UNCHANGED <<package, stranded>>
        BY <1>4 DEF Complete
  <2>3. \A t \in Syncs \ {s} : BookRow(t)'
        BY <2>1, <2>2, BookOthers
  <2>4. BookRow(s)'
        BY <1>0, <2>1, <2>2
        DEF BookRow, Running, Steps, ProjectOf, Packaged
  <2> QED BY <2>3, <2>4
<1>5. CASE RunFails(s)
  <2>1. /\ OnlyRun(s) /\ run'[s].pc = "ended" /\ run[s].pc \in Fallible
        /\ OnlySync(s) /\ sync'[s].status = "failed"
        /\ sync'[s].project = sync[s].project
        BY <1>0, <1>5, AbandonEffect, StatusEffect DEF RunFails
  <2>2. UNCHANGED <<package, stranded>>
        BY <1>5 DEF RunFails
  <2>3. \A t \in Syncs \ {s} : BookRow(t)'
        BY <2>1, <2>2, BookOthers
  <2>4. BookRow(s)'
        BY <1>0, <2>1, <2>2
        DEF BookRow, Running, Steps, Fallible, ProjectOf, Packaged
  <2> QED BY <2>3, <2>4
<1>6. CASE RunIsLost(s)
  <2>1. OnlyRun(s) /\ run'[s].pc = "ended" /\ Running(s)
        BY <1>0, <1>6, AbandonEffect DEF RunIsLost
  <2>2. UNCHANGED <<sync, package>> /\ stranded' = stranded \cup {s}
        BY <1>6 DEF RunIsLost
  <2>3. \A t \in Syncs \ {s} : BookRow(t)'
        BY <2>1, <2>2, BookOthers DEF OnlySync
  <2>4. BookRow(s)'
        BY <1>0, <2>1, <2>2
        DEF BookRow, Running, Steps, ProjectOf, Packaged
  <2> QED BY <2>3, <2>4
<1> QED BY <1>1, <1>2, <1>3, <1>4, <1>5, <1>6 DEF RunStep

(* A worker that is not turned to phase 2 keeps its book.                  *)
LEMMA BookStays ==
    ASSUME Books, PackagesGrow, NEW w \in Workers,
           worker'[w] = worker[w] \/ worker'[w].pc \notin {"phase2", "ready"}
    PROVE  BookWorker(w)'
BY DEF Books, BookWorker, PackagesGrow

LEMMA BookWorkersRun ==
    ASSUME TypeOK, Books, PackagesGrow, NEW s \in Syncs, RunStep(s)
    PROVE  \A w \in Workers : BookWorker(w)'
<1>0. RunType /\ WorkerType
      BY TypeParts
<1>1. CASE Complete(s)
      BY <1>0, <1>1, CompleteEffect, BookStays
<1>2. CASE RunFails(s) \/ RunIsLost(s)
  <2>1. Abandon(s)
        BY <1>2 DEF RunFails, RunIsLost
  <2> QED BY <1>0, <2>1, AbandonEffect, BookStays DEF Idle
<1>3. CASE worker' = worker
      BY <1>3, BookStays
<1> QED BY <1>1, <1>2, <1>3
        DEF RunStep, MarkSyncing, ClearRows, detect_all, map_all,
            RetirePackage, KeepPackage, CreateSnapshot, UploadCode,
            RecordPackage

LEMMA BookWorkerStep ==
    ASSUME TypeOK, Announced, Books, PackagesGrow, NEW w \in Workers, WorkerStep(w)
    PROVE  Books'
<1> USE DEF tables, history
<1>0. WorkerType /\ PackageType
      BY TypeParts
<1>1. SUFFICES OnlyWorker(w) /\ BookWorker(w)' /\ \A t \in Syncs : BookRow(t)'
      BY BookStays DEF OnlyWorker, Books
<1>2. ASSUME UNCHANGED <<sync, run, package, stranded>>
      PROVE  \A t \in Syncs : BookRow(t)'
      BY <1>2 DEF Books, BookRow, Running, ProjectOf, Packaged
<1>3. ASSUME NEW d \in Deployments, SkipDeployment(w, d)
      PROVE  OnlyWorker(w) /\ BookWorker(w)' /\ \A t \in Syncs : BookRow(t)'
  <2>1. OnlyWorker(w) /\ worker'[w].pc = "delete"
        BY <1>0, <1>3, ReceiveEffect, MessageTypes DEF SkipDeployment
  <2> QED BY <1>2, <1>3, <2>1, BookStays DEF SkipDeployment
<1>4. ASSUME NEW d \in Deployments, RunDeployment(w, d)
      PROVE  OnlyWorker(w) /\ BookWorker(w)' /\ \A t \in Syncs : BookRow(t)'
  <2>1. OnlyWorker(w) /\ worker'[w].pc = "run"
        BY <1>0, <1>4, ReceiveEffect, MessageTypes DEF RunDeployment
  <2>2. announces[d] \in Projects
        BY <1>4 DEF RunDeployment, Receive, Announced, TypeOK
  <2>3. \A t \in Syncs : BookRow(t)'
        BY <1>4, <2>2, BookStart, MessageTypes DEF RunDeployment
  <2> QED BY <2>1, <2>3, BookStays
<1>5. ASSUME NEW s \in Syncs, ChoosePackage(w, s)
      PROVE  OnlyWorker(w) /\ BookWorker(w)' /\ \A t \in Syncs : BookRow(t)'
  <2>1. OnlyWorker(w) /\ BookWorker(w)'
    <3>1. ASSUME NEW q \in Newest(Pending), Receive(w, SnapshotMessage(s), "phase2", q)
          PROVE  OnlyWorker(w) /\ BookWorker(w)'
      <4>1. q \in Syncs /\ Packaged(q)
            BY DEF Newest, Pending
      <4>2. OnlyWorker(w) /\ worker'[w].pc = "phase2" /\ worker'[w].pkg = q
            BY <1>0, <3>1, <4>1, ReceiveEffect, MessageTypes
      <4> QED BY <4>1, <4>2 DEF BookWorker, PackagesGrow
    <3>2. CASE Receive(w, SnapshotMessage(s), "delete", NoSync)
      <4>1. OnlyWorker(w) /\ worker'[w].pc = "delete"
            BY <1>0, <3>2, ReceiveEffect, MessageTypes
      <4> QED BY <4>1, BookStays
    <3> QED BY <1>5, <3>1, <3>2 DEF ChoosePackage
  <2> QED BY <1>2, <1>5, <2>1 DEF ChoosePackage
<1>6. CASE run_phase2(w)
  <2>1. /\ worker[w].pkg \in Syncs /\ Packaged(worker[w].pkg)
        BY <1>6 DEF Books, BookWorker, run_phase2, Holds
  <2>2. OnlyWorker(w) /\ worker'[w].pc = "ready" /\ worker'[w].pkg = worker[w].pkg
        BY <1>0, <1>6, WorkerGotoEffect DEF run_phase2
  <2>3. /\ package'[worker[w].pkg].ready
        /\ \A t \in Syncs : package'[t].at = package[t].at
        /\ \A t \in Syncs \ {worker[w].pkg} : package'[t] = package[t]
        BY <1>0, <1>6, <2>1 DEF run_phase2, PackageType, Packages
  <2>4. BookWorker(w)'
        BY <2>1, <2>2, <2>3 DEF BookWorker, Packaged
  <2>5. UNCHANGED <<sync, run, stranded>>
        BY <1>6 DEF run_phase2
  <2>6. \A t \in Syncs : BookRow(t)'
        BY <2>1, <2>3, <2>5 DEF Books, BookRow, Running, ProjectOf, Packaged
  <2> QED BY <2>2, <2>4, <2>6
<1>7. CASE MarkReady(w)
  <2>1. OnlyWorker(w) /\ worker'[w].pc = "delete"
        BY <1>0, <1>7, WorkerGotoEffect DEF MarkReady
  <2> QED BY <1>2, <1>7, <2>1, BookStays DEF MarkReady
<1>8. CASE delete_message(w)
  <2>1. OnlyWorker(w) /\ worker'[w].pc = "idle"
        BY <1>0, <1>8, ReleaseEffect DEF delete_message
  <2> QED BY <1>2, <1>8, <2>1, BookStays DEF delete_message
<1>9. CASE HandlerFails(w)
  <2>1. OnlyWorker(w) /\ worker'[w].pc = "idle"
        BY <1>0, <1>9, ReleaseEffect DEF HandlerFails
  <2> QED BY <1>2, <1>9, <2>1, BookStays DEF HandlerFails
<1> QED BY <1>3, <1>4, <1>5, <1>6, <1>7, <1>8, <1>9 DEF WorkerStep

LEMMA BooksInductive ==
    TypeOK /\ Announced /\ Books /\ [Next]_vars => Books'
<1> SUFFICES ASSUME TypeOK, Announced, Books, [Next]_vars PROVE Books'
    OBVIOUS
<1>0. PackagesGrow
      BY GrowEffect
<1>1. ASSUME NEW s \in Syncs, RunStep(s) PROVE Books'
      BY <1>0, <1>1, BookRun, BookWorkersRun DEF Books
<1>2. ASSUME NEW w \in Workers, WorkerStep(w) PROVE Books'
      BY <1>0, <1>2, BookWorkerStep
<1>3. ASSUME NEW p \in Projects, manual_sync(p) PROVE Books'
      BY <1>0, <1>3, BookStart, BookStays DEF manual_sync, Books
<1>4. ASSUME NEW d \in Deployments, NEW p \in Projects, put_events(d, p)
      PROVE  Books'
      BY <1>0, <1>4, BookStays DEF put_events, Books, BookRow, BookWorker,
         Running, ProjectOf, Packaged, tables
<1>5. CASE UNCHANGED vars
      BY <1>5 DEF vars, Books, BookRow, BookWorker, Running, ProjectOf, Packaged
<1> QED BY <1>1, <1>2, <1>3, <1>4, <1>5 DEF Next, Surroundings

LEMMA BooksInit == Init => Books
BY DEF Init, Books, BookRow, BookWorker, NoRun, NoRow, NoPackage, Idle,
       Running, Steps, Packaged

LEMMA MirrorBase == Spec => [](TypeOK /\ Announced /\ Books)
<1>1. Init => TypeOK /\ Announced /\ Books
      BY TypeInit, BooksInit, MessageTypes DEF Init, Announced
<1> QED BY <1>1, TypeInductive, BooksInductive, PTL DEF Spec

(* However a run ends, only the loss of its process or of its transaction
   leaves its sync_history row running.                                    *)
THEOREM OnlyLossLeavesRows == Spec => []OnlyLossLeavesRunning
<1>1. Books => OnlyLossLeavesRunning
      BY DEF Books, BookRow, OnlyLossLeavesRunning
<1> QED BY <1>1, MirrorBase, PTL

-----------------------------------------------------------------------------
(* No deployment is lost *)

Done(d) == d \in skipped \/ \E s \in Syncs :
    sync[s].trigger = DeploymentMessage(d) /\ sync[s].status = "completed"

(* A worker about to delete a deployment's message has dealt with it, one in
   phase 2 holds no such message, and the worker of a run under way holds
   the message that started it and has no other run.                       *)
Justified(w) == \A d \in Deployments : worker[w].msg = DeploymentMessage(d) =>
    /\ worker[w].pc \notin {"phase2", "ready"}
    /\ worker[w].pc = "delete" => Done(d)
Held(s) == run[s].pc \in Steps /\ run[s].by \in Workers =>
    /\ worker[run[s].by].pc = "run"
    /\ worker[run[s].by].msg = sync[s].trigger
Alone(s, t) == /\ run[s].pc \in Steps /\ run[t].pc \in Steps
               /\ run[s].by = run[t].by /\ run[s].by \in Workers
               => s = t
HeldMessages == /\ \A w \in Workers : Justified(w)
                /\ \A s \in Syncs : Held(s)
                /\ \A s, t \in Syncs : Alone(s, t)

DoneGrows == \A d \in Deployments : Done(d) => Done(d)'

LEMMA DoneEffect ==
    ASSUME TypeOK, Announced, Books, [Next]_vars
    PROVE  DoneGrows
<1> USE DEF history
<1>0. RunType /\ SyncType
      BY TypeParts
<1>1. SUFFICES /\ skipped \subseteq skipped'
               /\ \A s \in Syncs : sync[s].status = "completed" => sync'[s] = sync[s]
      BY DEF DoneGrows, Done
<1>2. ASSUME NEW s \in Syncs, RunStep(s)
      PROVE  /\ skipped \subseteq skipped'
             /\ \A t \in Syncs : sync[t].status = "completed" => sync'[t] = sync[t]
  <2>1. CASE Complete(s) \/ RunFails(s)
    <3>1. sync[s].status = "running"
          BY <2>1 DEF Complete, RunFails, At, Fallible, Books, BookRow, Running, Steps
    <3>2. OnlySync(s) /\ skipped' = skipped
          BY <1>0, <2>1, StatusEffect DEF Complete, RunFails
    <3> QED BY <3>1, <3>2 DEF OnlySync
  <2>2. CASE UNCHANGED <<sync, skipped>>
        BY <2>2
  <2> QED BY <1>2, <2>1, <2>2
          DEF RunStep, MarkSyncing, ClearRows, detect_all, map_all,
              RetirePackage, KeepPackage, CreateSnapshot, UploadCode,
              RecordPackage, RunIsLost
<1>3. ASSUME NEW p \in Projects, NEW by \in Workers \cup {Manual},
             NEW trigger \in Messages \cup {NoMessage}, StartRun(p, by, trigger)
      PROVE  /\ skipped \subseteq skipped'
             /\ \A t \in Syncs : sync[t].status = "completed" => sync'[t] = sync[t]
  <2>1. PICK s \in Syncs : StartsAs(s, p, by, trigger)
        BY <1>0, <1>3, StartEffect
  <2>2. sync[s].status = "none" /\ OnlySync(s)
        BY <2>1 DEF StartsAs, Books, BookRow
  <2> QED BY <1>3, <2>2 DEF StartRun, OnlySync
<1>4. ASSUME NEW w \in Workers, WorkerStep(w)
      PROVE  /\ skipped \subseteq skipped'
             /\ \A t \in Syncs : sync[t].status = "completed" => sync'[t] = sync[t]
  <2>1. ASSUME NEW d \in Deployments, RunDeployment(w, d)
        PROVE  /\ skipped \subseteq skipped'
               /\ \A t \in Syncs : sync[t].status = "completed" => sync'[t] = sync[t]
    <3>1. announces[d] \in Projects
          BY <2>1 DEF RunDeployment, Receive, Announced, TypeOK
    <3> QED BY <1>3, <2>1, <3>1, MessageTypes DEF RunDeployment
  <2>2. CASE sync' = sync /\ skipped \subseteq skipped'
        BY <2>2
  <2> QED BY <1>4, <2>1, <2>2
          DEF WorkerStep, SkipDeployment, ChoosePackage, run_phase2, MarkReady,
              delete_message, HandlerFails
<1>5. ASSUME NEW p \in Projects, manual_sync(p)
      PROVE  /\ skipped \subseteq skipped'
             /\ \A t \in Syncs : sync[t].status = "completed" => sync'[t] = sync[t]
      BY <1>3, <1>5 DEF manual_sync
<1>6. CASE UNCHANGED <<sync, skipped>>
      BY <1>6
<1> QED BY <1>2, <1>4, <1>5, <1>6 DEF Next, Surroundings, put_events, vars

LEMMA JustifiedStays ==
    ASSUME HeldMessages, DoneGrows, NEW w \in Workers,
           \/ worker'[w] = worker[w]
           \/ worker'[w].pc \notin {"phase2", "ready", "delete"}
    PROVE  Justified(w)'
BY DEF HeldMessages, Justified, DoneGrows

LEMMA HeldStart ==
    ASSUME TypeOK, HeldMessages, NEW p \in Projects, NEW by \in Workers \cup {Manual},
           NEW trigger \in Messages \cup {NoMessage}, StartRun(p, by, trigger),
           \/ by = Manual /\ worker' = worker
           \/ /\ by \in Workers /\ OnlyWorker(by) /\ worker[by].pc = "idle"
              /\ worker'[by].pc = "run" /\ worker'[by].msg = trigger
    PROVE  /\ \A s \in Syncs : Held(s)'
           /\ \A s, t \in Syncs : Alone(s, t)'
<1>1. PICK s \in Syncs : StartsAs(s, p, by, trigger)
      BY StartEffect, TypeParts
<1>2. Held(s)'
      BY <1>1, MirrorAssumption DEF StartsAs, Held
<1>3. \A t \in Syncs \ {s} : run'[t] = run[t] /\ sync'[t] = sync[t]
      BY <1>1 DEF StartsAs, OnlyRun, OnlySync
<1>4. \A t \in Syncs \ {s} : Held(t)'
      BY <1>3 DEF HeldMessages, Held, OnlyWorker
<1>5. ASSUME NEW t \in Syncs \ {s}, run[t].pc \in Steps, run[t].by = by, by \in Workers
      PROVE  FALSE
      BY <1>5, MirrorAssumption DEF HeldMessages, Held
<1>6. \A t, u \in Syncs : Alone(t, u)'
      BY <1>1, <1>3, <1>5 DEF HeldMessages, Alone, StartsAs
<1> QED BY <1>2, <1>4, <1>6

LEMMA HeldRun ==
    ASSUME TypeOK, Books, HeldMessages, DoneGrows, NEW s \in Syncs, RunStep(s)
    PROVE  HeldMessages'
<1> USE DEF tables, history
<1>0. RunType /\ SyncType /\ WorkerType
      BY TypeParts
<1>1. CASE Complete(s) \/ RunFails(s) \/ RunIsLost(s)
  <2>1. run'[s].pc = "ended" /\ OnlyRun(s)
    <3>1. Goto(s, "ended")
          BY <1>1 DEF Complete, RunFails, RunIsLost, Abandon
    <3> QED BY <1>0, <3>1, GotoEffect
  <2>2. run[s].pc \in Steps
        BY <1>1 DEF Complete, RunFails, RunIsLost, At, Steps, Fallible, Running
  <2>3. /\ \A t \in Syncs : sync'[t].trigger = sync[t].trigger
        /\ Complete(s) => sync'[s].status = "completed"
    <3>1. ASSUME NEW st \in {"completed", "failed"},
                 sync' = [sync EXCEPT ![s].status = st]
          PROVE  /\ \A t \in Syncs : sync'[t].trigger = sync[t].trigger
                 /\ sync'[s].status = st
          BY <1>0, <3>1, StatusEffect DEF OnlySync
    <3>2. CASE Complete(s)
          BY <3>1, <3>2 DEF Complete
    <3>3. CASE RunFails(s)
          BY <3>1, <3>3 DEF RunFails, Complete, At, Fallible
    <3>4. CASE RunIsLost(s)
      <4>1. run'[s].pc = "ended" /\ sync' = sync /\ stranded' = stranded \cup {s}
            BY <2>1, <3>4 DEF RunIsLost
      <4>2. ~Complete(s) \/ sync'[s].status = "completed"
            BY <1>0, StatusEffect DEF Complete
      <4> QED BY <4>1, <4>2
    <3> QED BY <1>1, <3>2, <3>3, <3>4
  <2>4. /\ \A w \in Workers : w # run[s].by => worker'[w] = worker[w]
        /\ \A w \in Workers : w = run[s].by =>
              \/ worker'[w].pc = "idle"
              \/ /\ Complete(s) /\ worker'[w].pc = "delete"
                 /\ worker'[w].msg = worker[w].msg
    <3>1. CASE Complete(s)
          BY <1>0, <3>1, CompleteEffect
    <3>2. CASE Abandon(s)
          BY <1>0, <3>2, AbandonEffect DEF Idle
    <3> QED BY <1>1, <3>1, <3>2 DEF RunFails, RunIsLost
  <2>5. \A t \in Syncs \ {s} : run'[t] = run[t]
        BY <2>1 DEF OnlyRun
  <2>6. \A t \in Syncs : Held(t)'
    <3>1. Held(s)'
          BY <2>1 DEF Held, Steps
    <3>2. ASSUME NEW t \in Syncs \ {s} PROVE Held(t)'
          BY <2>2, <2>3, <2>4, <2>5 DEF HeldMessages, Held, Alone
    <3> QED BY <3>1, <3>2
  <2>7. \A t, u \in Syncs : Alone(t, u)'
        BY <2>1, <2>5 DEF HeldMessages, Alone, Steps
  <2>8. ASSUME NEW w \in Workers PROVE Justified(w)'
    <3>1. CASE w # run[s].by \/ worker'[w].pc = "idle"
          BY <2>4, <3>1, JustifiedStays
    <3>2. CASE /\ w = run[s].by /\ Complete(s) /\ worker'[w].pc = "delete"
               /\ worker'[w].msg = worker[w].msg
      <4>1. worker[w].msg = sync[s].trigger
            BY <2>2, <3>2 DEF HeldMessages, Held
      <4> QED BY <2>3, <3>2, <4>1 DEF Justified, Done
    <3> QED BY <2>4, <3>1, <3>2
  <2> QED BY <2>6, <2>7, <2>8 DEF HeldMessages
<1>2. ASSUME worker' = worker, sync' = sync, run[s].pc \in Steps,
             OnlyRun(s), run'[s].by = run[s].by
      PROVE  HeldMessages'
  <2>1. \A t \in Syncs : Held(t)' /\ \A u \in Syncs : Alone(t, u)'
        BY <1>2 DEF HeldMessages, Held, Alone, OnlyRun
  <2> QED BY <1>2, <2>1, JustifiedStays DEF HeldMessages
<1>3. CASE detect_all(s)
  <2>1. PICK found \in SUBSET Resources :
            run' = [run EXCEPT ![s].pc = "map", ![s].found = found]
        BY <1>3 DEF detect_all
  <2>2. OnlyRun(s) /\ run'[s].by = run[s].by
        BY <1>0, <2>1, DetectEffect
  <2> QED BY <1>2, <1>3, <2>2 DEF detect_all, At, Steps
<1>4. ASSUME NEW pc \in Steps, Goto(s, pc), worker' = worker, sync' = sync,
             run[s].pc \in Steps
      PROVE  HeldMessages'
      BY <1>0, <1>2, <1>4, GotoEffect
<1>5. CASE MarkSyncing(s)
      BY <1>4, <1>5 DEF MarkSyncing, At, Steps
<1>6. CASE ClearRows(s)
      BY <1>4, <1>6 DEF ClearRows, At, Steps
<1>7. CASE map_all(s)
      BY <1>4, <1>7 DEF map_all, At, Steps
<1>8. CASE RetirePackage(s)
      BY <1>4, <1>8 DEF RetirePackage, At, Steps
<1>9. CASE KeepPackage(s)
      BY <1>4, <1>9 DEF KeepPackage, At, Steps
<1>10. CASE CreateSnapshot(s)
      BY <1>4, <1>10 DEF CreateSnapshot, At, Steps
<1>11. CASE UploadCode(s)
      BY <1>4, <1>11 DEF UploadCode, At, Steps
<1>12. CASE RecordPackage(s)
      BY <1>4, <1>12 DEF RecordPackage, At, Steps
<1> QED BY <1>1, <1>3, <1>5, <1>6, <1>7, <1>8, <1>9, <1>10, <1>11, <1>12
        DEF RunStep

LEMMA HeldWorkerStep ==
    ASSUME TypeOK, Announced, Books, HeldMessages, DoneGrows,
           NEW w \in Workers, WorkerStep(w)
    PROVE  HeldMessages'
<1> USE DEF tables, history
<1>0. WorkerType
      BY TypeParts
<1>1. ASSUME OnlyWorker(w), Justified(w)', worker[w].pc # "run",
             UNCHANGED <<run, sync>>
      PROVE  HeldMessages'
  <2>1. \A s \in Syncs : Held(s)' /\ \A t \in Syncs : Alone(s, t)'
        BY <1>1 DEF HeldMessages, Held, Alone, OnlyWorker
  <2>2. \A v \in Workers : Justified(v)'
        BY <1>1, JustifiedStays DEF OnlyWorker
  <2> QED BY <2>1, <2>2 DEF HeldMessages
<1>2. ASSUME NEW d \in Deployments, SkipDeployment(w, d) PROVE HeldMessages'
  <2>1. /\ OnlyWorker(w) /\ worker[w].pc = "idle" /\ worker'[w].pc = "delete"
        /\ worker'[w].msg = DeploymentMessage(d)
        BY <1>0, <1>2, ReceiveEffect, MessageTypes DEF SkipDeployment
  <2>2. Justified(w)'
        BY <1>2, <2>1, MessagesDiffer DEF Justified, Done, SkipDeployment
  <2> QED BY <1>1, <1>2, <2>1, <2>2 DEF SkipDeployment
<1>3. ASSUME NEW d \in Deployments, RunDeployment(w, d) PROVE HeldMessages'
  <2>1. /\ OnlyWorker(w) /\ worker[w].pc = "idle" /\ worker'[w].pc = "run"
        /\ worker'[w].msg = DeploymentMessage(d)
        BY <1>0, <1>3, ReceiveEffect, MessageTypes DEF RunDeployment
  <2>2. announces[d] \in Projects
        BY <1>3 DEF RunDeployment, Receive, Announced, TypeOK
  <2>3. \A s \in Syncs : Held(s)' /\ \A t \in Syncs : Alone(s, t)'
        BY <1>3, <2>1, <2>2, HeldStart, MessageTypes DEF RunDeployment
  <2>4. \A v \in Workers : Justified(v)'
        BY <2>1, JustifiedStays DEF OnlyWorker
  <2> QED BY <2>3, <2>4 DEF HeldMessages
<1>4. ASSUME NEW s \in Syncs, ChoosePackage(w, s) PROVE HeldMessages'
  <2>1. OnlyWorker(w) /\ worker[w].pc = "idle" /\ worker'[w].msg = SnapshotMessage(s)
    <3>1. ASSUME NEW q \in Newest(Pending), Receive(w, SnapshotMessage(s), "phase2", q)
          PROVE  /\ OnlyWorker(w) /\ worker[w].pc = "idle"
                 /\ worker'[w].msg = SnapshotMessage(s)
          BY <1>0, <3>1, ReceiveEffect, MessageTypes DEF Newest, Pending
    <3>2. CASE Receive(w, SnapshotMessage(s), "delete", NoSync)
          BY <1>0, <3>2, ReceiveEffect, MessageTypes
    <3> QED BY <1>4, <3>1, <3>2 DEF ChoosePackage
  <2>2. Justified(w)'
        BY <2>1, MessagesDiffer DEF Justified
  <2> QED BY <1>1, <1>4, <2>1, <2>2 DEF ChoosePackage
<1>5. CASE run_phase2(w) \/ MarkReady(w)
  <2>1. /\ OnlyWorker(w) /\ worker[w].pc \in {"phase2", "ready"}
        /\ worker'[w].msg = worker[w].msg
        BY <1>0, <1>5, WorkerGotoEffect DEF run_phase2, MarkReady, Holds
  <2>2. Justified(w)'
        BY <2>1 DEF HeldMessages, Justified
  <2> QED BY <1>1, <1>5, <2>1, <2>2 DEF run_phase2, MarkReady
<1>6. CASE delete_message(w) \/ HandlerFails(w)
  <2>1. /\ OnlyWorker(w) /\ worker[w].pc # "run" /\ worker'[w].pc = "idle"
        BY <1>0, <1>6, ReleaseEffect DEF delete_message, HandlerFails, Holds
  <2>2. Justified(w)'
        BY <2>1, JustifiedStays
  <2> QED BY <1>1, <1>6, <2>1, <2>2 DEF delete_message, HandlerFails
<1> QED BY <1>2, <1>3, <1>4, <1>5, <1>6 DEF WorkerStep

LEMMA HeldInductive ==
    TypeOK /\ Announced /\ Books /\ HeldMessages /\ [Next]_vars => HeldMessages'
<1> SUFFICES ASSUME TypeOK, Announced, Books, HeldMessages, [Next]_vars
             PROVE  HeldMessages'
    OBVIOUS
<1>0. DoneGrows
      BY DoneEffect
<1>1. ASSUME NEW s \in Syncs, RunStep(s) PROVE HeldMessages'
      BY <1>0, <1>1, HeldRun
<1>2. ASSUME NEW w \in Workers, WorkerStep(w) PROVE HeldMessages'
      BY <1>0, <1>2, HeldWorkerStep
<1>3. ASSUME NEW p \in Projects, manual_sync(p) PROVE HeldMessages'
      BY <1>0, <1>3, HeldStart, JustifiedStays DEF manual_sync, HeldMessages
<1>4. CASE UNCHANGED <<worker, run, sync>>
      BY <1>0, <1>4, JustifiedStays DEF HeldMessages, Held, Alone
<1> QED BY <1>1, <1>2, <1>3, <1>4 DEF Next, Surroundings, put_events, vars

(* A message is deleted by a worker that has dealt with it.                *)
LEMMA DeletedInductive ==
    TypeOK /\ Announced /\ Books /\ HeldMessages /\ DeletedMeansSynced
        /\ [Next]_vars => DeletedMeansSynced'
<1> SUFFICES ASSUME TypeOK, Announced, Books, HeldMessages, DeletedMeansSynced,
                    [Next]_vars
             PROVE  DeletedMeansSynced'
    OBVIOUS
<1>0. DoneGrows
      BY DoneEffect
<1>1. SUFFICES ASSUME NEW d \in Deployments,
                      queue'[DeploymentMessage(d)] = "deleted",
                      queue[DeploymentMessage(d)] # "deleted"
               PROVE  Done(d)
      BY <1>0 DEF DeletedMeansSynced, Done, DoneGrows
<1>2. queue \in [Messages -> {"unsent", "sent", "deleted"}]
      BY DEF TypeOK
<1>3. PICK w \in Workers : delete_message(w)
      BY <1>1, <1>2, MessageTypes
      DEF Next, RunStep, MarkSyncing, ClearRows, detect_all, map_all,
          RetirePackage, KeepPackage, CreateSnapshot, UploadCode,
          RecordPackage, Complete, RunFails, RunIsLost, WorkerStep,
          SkipDeployment, RunDeployment, StartRun, ChoosePackage, run_phase2,
          MarkReady, HandlerFails, Surroundings, manual_sync, put_events, vars
<1>4. worker[w].pc = "delete" /\ worker[w].msg = DeploymentMessage(d)
      BY <1>1, <1>2, <1>3, MessageTypes DEF delete_message, Holds, MessageOf
<1> QED BY <1>4 DEF HeldMessages, Justified

LEMMA HeldInit == Init => HeldMessages
BY MessagesDiffer DEF Init, HeldMessages, Justified, Held, Alone, Idle, NoRun, Steps

(* A deployment's message leaves the queue only when a sync it triggered has
   completed or its project was not connected, for any number of workers.  *)
THEOREM NoDeploymentIsLost == Spec => []DeletedMeansSynced
<1>1. Init => DeletedMeansSynced
      BY MessageTypes DEF Init, DeletedMeansSynced
<1> QED BY <1>1, HeldInit, MirrorBase, HeldInductive, DeletedInductive, PTL DEF Spec

-----------------------------------------------------------------------------
(* Whose a run is never changes *)

LEMMA RunStepFrame ==
    ASSUME TypeOK, NEW s \in Syncs, RunStep(s)
    PROVE  /\ OnlyRun(s) /\ run[s].pc \in Steps /\ run'[s].pc # "none"
           /\ \A t \in Syncs : ProjectOf(t)' = ProjectOf(t)
           /\ \A p : Of(p)' = Of(p)
           /\ overlapped' = overlapped
<1> USE DEF tables, history
<1>0. RunType /\ SyncType /\ WorkerType
      BY TypeParts
<1>1. OnlyRun(s) /\ run[s].pc \in Steps /\ run'[s].pc # "none"
  <2>1. ASSUME NEW pc \in Steps \cup {"ended"}, Goto(s, pc)
        PROVE  OnlyRun(s) /\ run'[s].pc # "none"
        BY <1>0, <2>1, GotoEffect DEF Steps
  <2>2. CASE detect_all(s)
    <3>1. PICK found \in SUBSET Resources :
              run' = [run EXCEPT ![s].pc = "map", ![s].found = found]
          BY <2>2 DEF detect_all
    <3>2. OnlyRun(s) /\ run'[s].pc = "map"
          BY <1>0, <3>1, DetectEffect
    <3> QED BY <2>2, <3>2 DEF detect_all, At, Steps
  <2>3. CASE \/ MarkSyncing(s) \/ ClearRows(s) \/ map_all(s) \/ RetirePackage(s)
             \/ KeepPackage(s) \/ CreateSnapshot(s) \/ UploadCode(s)
             \/ RecordPackage(s)
        BY <2>1, <2>3
        DEF MarkSyncing, ClearRows, map_all, RetirePackage, KeepPackage,
            CreateSnapshot, UploadCode, RecordPackage, At, Steps
  <2>4. CASE Complete(s) \/ RunFails(s) \/ RunIsLost(s)
        BY <2>1, <2>4
        DEF Complete, RunFails, RunIsLost, Abandon, At, Steps, Running, Fallible
  <2> QED BY <2>2, <2>3, <2>4 DEF RunStep
<1>2. \A t \in Syncs : ProjectOf(t)' = ProjectOf(t)
  <2>1. CASE Complete(s)
        BY <1>0, <2>1, StatusEffect DEF Complete, OnlySync, ProjectOf
  <2>2. CASE RunFails(s)
        BY <1>0, <2>2, StatusEffect DEF RunFails, OnlySync, ProjectOf
  <2>3. CASE sync' = sync
        BY <2>3 DEF ProjectOf
  <2> QED BY <2>1, <2>2, <2>3
          DEF RunStep, MarkSyncing, ClearRows, detect_all, map_all,
              RetirePackage, KeepPackage, CreateSnapshot, UploadCode,
              RecordPackage, RunIsLost
<1>3. \A p : Of(p)' = Of(p)
      BY <1>1, <1>2 DEF Of, OnlyRun, Steps
<1>4. overlapped' = overlapped
      BY DEF RunStep, MarkSyncing, ClearRows, detect_all, map_all,
             RetirePackage, KeepPackage, CreateSnapshot, UploadCode,
             RecordPackage, Complete, RunFails, RunIsLost
<1> QED BY <1>1, <1>2, <1>3, <1>4

(* A new run is added to those of its project, the others stay.            *)
LEMMA StartFrame ==
    ASSUME TypeOK, NEW p \in Projects, NEW by \in Workers \cup {Manual},
           NEW trigger \in Messages \cup {NoMessage}, StartRun(p, by, trigger)
    PROVE  \E s \in Syncs : /\ StartsAs(s, p, by, trigger)
                            /\ s \notin Of(p)
                            /\ Of(p)' = Of(p) \cup {s}
                            /\ \A q \in Projects \ {p} : Of(q)' = Of(q)
                            /\ \A t \in Syncs \ {s} : ProjectOf(t)' = ProjectOf(t)
<1>1. PICK s \in Syncs : StartsAs(s, p, by, trigger)
      BY StartEffect, TypeParts
<1>2. \A t \in Syncs \ {s} : run'[t] = run[t] /\ sync'[t] = sync[t]
      BY <1>1 DEF StartsAs, OnlyRun, OnlySync
<1>3. /\ run[s].pc = "none" /\ run'[s].pc = "begin" /\ sync'[s].project = p
      BY <1>1 DEF StartsAs
<1>4. s \notin Of(p) /\ Of(p)' = Of(p) \cup {s}
      BY <1>2, <1>3 DEF Of, ProjectOf
<1>5. \A q \in Projects \ {p} : Of(q)' = Of(q)
      BY <1>2, <1>3 DEF Of, ProjectOf
<1> QED BY <1>1, <1>2, <1>4, <1>5 DEF ProjectOf

(* Every step is one of a run, the start of a run, or leaves the runs be.  *)
LEMMA StepKinds ==
    ASSUME TypeOK, Announced, [Next]_vars
    PROVE  \/ \E s \in Syncs : RunStep(s)
           \/ \E p \in Projects, by \in Workers \cup {Manual},
                 trigger \in Messages \cup {NoMessage} : StartRun(p, by, trigger)
           \/ \E w \in Workers : run_phase2(w)
           \/ \E w \in Workers : MarkReady(w)
           \/ UNCHANGED <<dr_status, sync, run, aws_rows, gcp_rows, package,
                          main_tf, overlapped>>
<1> USE DEF tables, history
<1>1. ASSUME NEW w \in Workers, NEW d \in Deployments, RunDeployment(w, d)
      PROVE  \E p \in Projects, by \in Workers \cup {Manual},
                 trigger \in Messages \cup {NoMessage} : StartRun(p, by, trigger)
  <2>1. announces[d] \in Projects
        BY <1>1 DEF RunDeployment, Receive, Announced, TypeOK
  <2> QED BY <1>1, <2>1, MessageTypes DEF RunDeployment
<1>2. ASSUME NEW p \in Projects, manual_sync(p)
      PROVE  \E q \in Projects, by \in Workers \cup {Manual},
                 trigger \in Messages \cup {NoMessage} : StartRun(q, by, trigger)
      BY <1>2 DEF manual_sync
<1>3. CASE UNCHANGED vars
      BY <1>3 DEF vars
<1>4. CASE Next
      BY <1>1, <1>2, <1>4
      DEF Next, WorkerStep, Surroundings, SkipDeployment, ChoosePackage,
          delete_message, HandlerFails, put_events
<1> QED BY <1>3, <1>4

-----------------------------------------------------------------------------
(* A project that says ready has an exported package *)

LEMMA ReadyInductive ==
    TypeOK /\ Announced /\ Books /\ ReadyWasExported /\ [Next]_vars
        => ReadyWasExported'
<1> SUFFICES ASSUME TypeOK, Announced, Books, ReadyWasExported, [Next]_vars
             PROVE  ReadyWasExported'
    OBVIOUS
<1> USE DEF tables, history
<1>0. /\ PackagesGrow
      /\ dr_status \in [Projects -> {"not_ready", "syncing", "ready"}]
      BY GrowEffect DEF TypeOK
<1>1. ASSUME NEW s \in Syncs, RunStep(s) PROVE ReadyWasExported'
  <2>1. \A p : Of(p)' = Of(p)
        BY <1>1, RunStepFrame
  <2>2. SUFFICES ASSUME NEW p \in Projects, dr_status'[p] = "ready",
                        dr_status[p] # "ready"
                 PROVE  \E t \in Of(p) : package[t].ready
        BY <1>0, <2>1 DEF ReadyWasExported, PackagesGrow, Of
  <2>3. KeepPackage(s)
        BY <1>0, <1>1, <2>2
        DEF RunStep, MarkSyncing, ClearRows, detect_all, map_all, RetirePackage,
            CreateSnapshot, UploadCode, RecordPackage, Complete, RunFails,
            RunIsLost
  <2>4. PICK t \in Latest(ProjectOf(s)) :
            /\ package[t].ready
            /\ dr_status' = [dr_status EXCEPT ![ProjectOf(s)] = "ready"]
        BY <2>2, <2>3 DEF KeepPackage
  <2>5. p = ProjectOf(s)
        BY <1>0, <2>2, <2>4
  <2> QED BY <2>4, <2>5 DEF Latest
<1>2. ASSUME NEW p \in Projects, NEW by \in Workers \cup {Manual},
             NEW trigger \in Messages \cup {NoMessage}, StartRun(p, by, trigger)
      PROVE  ReadyWasExported'
  <2>1. \A q \in Projects : Of(q) \subseteq Of(q)'
        BY <1>2, StartFrame
  <2>2. dr_status' = dr_status /\ package' = package
        BY <1>2 DEF StartRun
  <2> QED BY <2>1, <2>2 DEF ReadyWasExported
<1>3. ASSUME NEW w \in Workers, run_phase2(w) PROVE ReadyWasExported'
  <2>1. UNCHANGED <<dr_status, run, sync>>
        BY <1>3 DEF run_phase2
  <2> QED BY <1>0, <2>1 DEF ReadyWasExported, PackagesGrow, Of, ProjectOf
<1>4. ASSUME NEW w \in Workers, MarkReady(w) PROVE ReadyWasExported'
  <2> DEFINE q == worker[w].pkg
  <2>1. q \in Syncs /\ Packaged(q) /\ package[q].ready
        BY <1>4 DEF Books, BookWorker, MarkReady, Holds
  <2>2. q \in Of(ProjectOf(q))
        BY <2>1 DEF Books, BookRow, Of
  <2>3. /\ dr_status' = [dr_status EXCEPT ![ProjectOf(q)] = "ready"]
        /\ UNCHANGED <<sync, run, package>>
        BY <1>4 DEF MarkReady
  <2> QED BY <1>0, <2>1, <2>2, <2>3 DEF ReadyWasExported, Of, ProjectOf
<1>5. CASE UNCHANGED <<dr_status, sync, run, package>>
      BY <1>5 DEF ReadyWasExported, Of, ProjectOf
<1> QED BY <1>1, <1>2, <1>3, <1>4, <1>5, StepKinds

(* However runs, events and redeliveries interleave, a project that says
   ready has a package whose snapshot has been exported.                   *)
THEOREM ReadyIsEarned == Spec => []ReadyWasExported
<1>1. Init => ReadyWasExported
      BY DEF Init, ReadyWasExported
<1> QED BY <1>1, MirrorBase, ReadyInductive, PTL DEF Spec

-----------------------------------------------------------------------------
(* What the pipeline runs of a project leave behind when they never overlap:
   one latest package, whose main.tf is the one in S3.                     *)

(* While a run is making a package there is none, and from the upload on it
   is this run's main.tf that the next package will be recorded for.       *)
Single(p)  == \A s, t \in Of(p) : Running(s) /\ Running(t) => s = t
Making(s)  == run[s].pc \in {"snapshot", "upload", "record"}
OwnerOk(p) ==
    /\ \A s \in Of(p) : Making(s) => Latest(p) = {}
    /\ \A s \in Of(p) : At(s, "record") => main_tf[p] = s
    /\ \A s \in Latest(p) : main_tf[p] = s
OwnerInv   == \A p \in Projects \ overlapped : Single(p) /\ OwnerOk(p)

LEMMA LatestFrame ==
    ASSUME NEW p, Of(p)' = Of(p),
           \A t \in Of(p) : /\ package'[t].at = package[t].at
                            /\ package'[t].latest = package[t].latest
    PROVE  Latest(p)' = Latest(p)
BY DEF Latest, Packaged

(* Nothing of a project changes whose runs, packages and main.tf stay.     *)
LEMMA OwnerFrame ==
    ASSUME NEW p, Single(p), OwnerOk(p), Of(p)' = Of(p),
           \A t \in Of(p) : run'[t] = run[t],
           \A t \in Of(p) : /\ package'[t].at = package[t].at
                            /\ package'[t].latest = package[t].latest,
           main_tf'[p] = main_tf[p]
    PROVE  Single(p)' /\ OwnerOk(p)'
<1>1. Latest(p)' = Latest(p)
      BY LatestFrame
<1>2. Single(p)'
      BY DEF Single, Running
<1>3. OwnerOk(p)'
      BY <1>1 DEF OwnerOk, Making, At
<1> QED BY <1>2, <1>3

(* Where a step leads that neither retires, uploads nor records.           *)
LEMMA QuietMoves ==
    ASSUME TypeOK, NEW s \in Syncs, RunStep(s)
    PROVE  \/ RetirePackage(s) \/ UploadCode(s) \/ RecordPackage(s)
           \/ /\ UNCHANGED <<package, main_tf>>
              /\ run'[s].pc # "record"
              /\ run'[s].pc \in {"snapshot", "upload"} => run[s].pc = "snapshot"
<1> USE DEF tables
<1>0. RunType /\ WorkerType
      BY TypeParts
<1>1. CASE detect_all(s)
  <2>1. run'[s].pc = "map"
        BY <1>0, <1>1, DetectEffect DEF detect_all
  <2> QED BY <1>1, <2>1 DEF detect_all
<1>2. CASE MarkSyncing(s) \/ ClearRows(s) \/ map_all(s) \/ KeepPackage(s)
      BY <1>0, <1>2, GotoEffect
      DEF MarkSyncing, ClearRows, map_all, KeepPackage, Steps
<1>3. CASE CreateSnapshot(s)
      BY <1>0, <1>3, GotoEffect DEF CreateSnapshot, Steps, At
<1>4. CASE Complete(s)
      BY <1>0, <1>4, GotoEffect DEF Complete
<1>5. CASE RunFails(s) \/ RunIsLost(s)
      BY <1>0, <1>5, AbandonEffect DEF RunFails, RunIsLost
<1> QED BY <1>1, <1>2, <1>3, <1>4, <1>5 DEF RunStep

LEMMA OwnerRun ==
    ASSUME TypeOK, OwnerInv, NEW s \in Syncs, RunStep(s)
    PROVE  OwnerInv'
<1> USE DEF tables
<1>0. /\ RunType /\ PackageType
      /\ main_tf \in [Projects -> Syncs \cup {NoSync}]
      BY TypeParts DEF TypeOK
<1>1. /\ OnlyRun(s) /\ run[s].pc \in Steps /\ overlapped' = overlapped
      /\ \A q : Of(q)' = Of(q)
      BY RunStepFrame
<1>2. SUFFICES ASSUME NEW p \in Projects \ overlapped
               PROVE  Single(p)' /\ OwnerOk(p)'
      BY <1>1 DEF OwnerInv
<1>3. Single(p) /\ OwnerOk(p)
      BY DEF OwnerInv
<1>4. CASE s \notin Of(p)
  <2>1. p # ProjectOf(s)
        BY <1>1, <1>4 DEF Of, Steps
  <2>2. \A t \in Of(p) : run'[t] = run[t]
        BY <1>1, <1>4 DEF OnlyRun, Of
  <2>3. CASE RetirePackage(s)
    <3>1. \A t \in Of(p) : package'[t] = package[t]
          BY <1>0, <2>1, <2>3 DEF RetirePackage, Latest, Of
    <3> QED BY <1>1, <1>3, <2>2, <2>3, <3>1, OwnerFrame DEF RetirePackage
  <2>4. CASE UploadCode(s)
        BY <1>0, <1>1, <1>3, <2>1, <2>2, <2>4, OwnerFrame DEF UploadCode
  <2>5. CASE RecordPackage(s)
    <3>1. \A t \in Of(p) : package'[t] = package[t]
          BY <1>0, <1>4, <2>5 DEF RecordPackage, PackageType, Of
    <3> QED BY <1>1, <1>3, <2>2, <2>5, <3>1, OwnerFrame DEF RecordPackage
  <2>6. CASE UNCHANGED <<package, main_tf>>
        BY <1>1, <1>3, <2>2, <2>6, OwnerFrame
  <2> QED BY <2>3, <2>4, <2>5, <2>6, QuietMoves
<1>5. CASE s \in Of(p)
  <2>1. p = ProjectOf(s)
        BY <1>5 DEF Of
  <2>2. \A t \in Of(p) : t # s => run'[t] = run[t] /\ ~Running(t)
        BY <1>1, <1>3, <1>5 DEF OnlyRun, Of, Single, Running
  <2>3. Single(p)'
        BY <1>1, <2>2 DEF Single, Running
  <2>4. \A t \in Of(p) : t # s => ~Making(t)' /\ ~At(t, "record")'
        BY <2>2 DEF Making, At, Running, Steps
  <2>5. CASE RetirePackage(s)
    <3>1. run'[s].pc = "snapshot"
          BY <1>0, <2>5, GotoEffect DEF RetirePackage, Steps
    <3>2. \A t \in Syncs : t \in Latest(p) => ~package'[t].latest
          BY <1>0, <2>1, <2>5 DEF RetirePackage, PackageType, Packages
    <3>3. \A t \in Syncs : t \notin Latest(p) => package'[t] = package[t]
          BY <2>1, <2>5 DEF RetirePackage
    <3>4. Latest(p)' = {}
          BY <1>1, <3>2, <3>3 DEF Latest, Packaged, Of
    <3> QED BY <1>1, <2>3, <2>4, <3>1, <3>4 DEF OwnerOk, At
  <2>6. CASE UploadCode(s)
    <3>1. Latest(p) = {}
          BY <1>3, <1>5, <2>6 DEF OwnerOk, UploadCode, At, Making
    <3>2. Latest(p)' = {}
          BY <1>1, <2>6, <3>1, LatestFrame DEF UploadCode
    <3>3. main_tf'[p] = s
          BY <1>0, <2>1, <2>6 DEF UploadCode
    <3> QED BY <1>1, <2>3, <2>4, <3>2, <3>3 DEF OwnerOk
  <2>7. CASE RecordPackage(s)
    <3>1. run[s].pc = "record" /\ run'[s].pc = "finish"
          BY <1>0, <2>7, GotoEffect DEF RecordPackage, Steps, At
    <3>2. Latest(p) = {} /\ main_tf[p] = s
          BY <1>3, <1>5, <3>1 DEF OwnerOk, At, Making
    <3>3. \A t \in Syncs \ {s} : package'[t] = package[t]
          BY <1>0, <2>7 DEF RecordPackage, PackageType
    <3>4. Latest(p)' \subseteq {s}
          BY <1>1, <3>2, <3>3 DEF Latest, Packaged, Of
    <3>5. main_tf' = main_tf
          BY <2>7 DEF RecordPackage
    <3> QED BY <1>1, <2>3, <2>4, <3>1, <3>2, <3>4, <3>5
            DEF OwnerOk, Making, At
  <2>8. CASE /\ UNCHANGED <<package, main_tf>>
             /\ run'[s].pc # "record"
             /\ run'[s].pc \in {"snapshot", "upload"} => run[s].pc = "snapshot"
    <3>1. Latest(p)' = Latest(p)
          BY <1>1, <2>8, LatestFrame
    <3>2. Making(s)' => Making(s)
          BY <2>8 DEF Making
    <3> QED BY <1>1, <1>3, <1>5, <2>3, <2>4, <2>8, <3>1, <3>2
            DEF OwnerOk, At
  <2> QED BY <2>5, <2>6, <2>7, <2>8, QuietMoves
<1> QED BY <1>4, <1>5

LEMMA OwnerStart ==
    ASSUME TypeOK, Books, OwnerInv, NEW p \in Projects,
           NEW by \in Workers \cup {Manual},
           NEW trigger \in Messages \cup {NoMessage}, StartRun(p, by, trigger)
    PROVE  OwnerInv'
<1> USE DEF tables
<1>1. PICK s \in Syncs : /\ StartsAs(s, p, by, trigger)
                         /\ s \notin Of(p)
                         /\ Of(p)' = Of(p) \cup {s}
                         /\ \A q \in Projects \ {p} : Of(q)' = Of(q)
      BY StartFrame
<1>2. /\ UNCHANGED <<package, main_tf>>
      /\ overlapped \subseteq overlapped'
      /\ p \notin overlapped' => \A t \in Of(p) : ~Running(t)
      BY DEF StartRun, Overlaps
<1>3. /\ \A t \in Syncs \ {s} : run'[t] = run[t]
      /\ run[s].pc = "none" /\ run'[s].pc = "begin"
      BY <1>1 DEF StartsAs, OnlyRun
<1>4. SUFFICES ASSUME NEW q \in Projects \ overlapped'
               PROVE  Single(q)' /\ OwnerOk(q)'
      BY DEF OwnerInv
<1>5. Single(q) /\ OwnerOk(q)
      BY <1>2 DEF OwnerInv
<1>6. CASE q # p
  <2>1. Of(q)' = Of(q) /\ \A t \in Of(q) : run'[t] = run[t]
        BY <1>1, <1>3, <1>6 DEF Of
  <2> QED BY <1>2, <1>5, <2>1, OwnerFrame
<1>7. CASE q = p
  <2>1. ~Packaged(s)
        BY <1>3 DEF Books, BookRow
  <2>2. Latest(p)' = Latest(p)
        BY <1>1, <1>2, <2>1 DEF Latest, Packaged
  <2>3. \A t \in Of(p) : run'[t] = run[t] /\ ~Running(t)
        BY <1>1, <1>2, <1>3, <1>7 DEF Of
  <2>4. Single(p)'
        BY <1>1, <2>3 DEF Single, Running
  <2>5. \A t \in Of(p) : ~Making(t)' /\ ~At(t, "record")'
        BY <2>3 DEF Making, At, Running, Steps
  <2>6. OwnerOk(p)'
        BY <1>1, <1>2, <1>3, <1>5, <1>7, <2>2, <2>5 DEF OwnerOk, Making, At
  <2> QED BY <1>7, <2>4, <2>6
<1> QED BY <1>6, <1>7

LEMMA OwnerInductive ==
    TypeOK /\ Announced /\ Books /\ OwnerInv /\ [Next]_vars => OwnerInv'
<1> SUFFICES ASSUME TypeOK, Announced, Books, OwnerInv, [Next]_vars
             PROVE  OwnerInv'
    OBVIOUS
<1>1. ASSUME NEW w \in Workers, run_phase2(w) PROVE OwnerInv'
  <2>1. UNCHANGED <<sync, run, main_tf, overlapped>>
        BY <1>1 DEF run_phase2, history
  <2>2. \A t \in Syncs : /\ package'[t].at = package[t].at
                         /\ package'[t].latest = package[t].latest
        BY <1>1, TypeParts DEF run_phase2, PackageType, Packages
  <2>3. \A p : Of(p)' = Of(p)
        BY <2>1 DEF Of, ProjectOf
  <2>4. \A p \in Projects \ overlapped : Single(p)' /\ OwnerOk(p)'
        BY <2>1, <2>2, <2>3, OwnerFrame DEF OwnerInv, Of
  <2> QED BY <2>1, <2>4 DEF OwnerInv
<1>2. CASE UNCHANGED <<sync, run, package, main_tf, overlapped>>
  <2>1. \A p : Of(p)' = Of(p)
        BY <1>2 DEF Of, ProjectOf
  <2>2. \A p \in Projects \ overlapped : Single(p)' /\ OwnerOk(p)'
        BY <1>2, <2>1, OwnerFrame DEF OwnerInv
  <2> QED BY <1>2, <2>2 DEF OwnerInv
<1>3. ASSUME NEW w \in Workers, MarkReady(w) PROVE OwnerInv'
      BY <1>2, <1>3 DEF MarkReady, tables, history
<1> QED BY <1>1, <1>2, <1>3, OwnerRun, OwnerStart, StepKinds

(* While the runs of a project do not overlap, the main.tf in S3 is that of
   its latest package, for any number of projects, runs and workers.       *)
THEOREM LatestPackageIsInS3 == Spec => []LatestPackageOwnsMainTf
<1>1. Init => OwnerInv
      BY DEF Init, OwnerInv, Single, OwnerOk, Latest, Of, NoRun
<1>2. OwnerInv => LatestPackageOwnsMainTf
      BY DEF OwnerInv, OwnerOk, LatestPackageOwnsMainTf
<1> QED BY <1>1, <1>2, MirrorBase, OwnerInductive, PTL DEF Spec
-----------------------------------------------------------------------------
(* The rows of resources and mappings                                      *)

(* What the tables hold of a project follows its newest run: nothing when
   it has cleared them, then what it detected, then also the mappings.     *)
OfRows(rows, p)  == {row \in rows : ProjectOf(row[1]) = p}
RowsAre(p, A, G) == OfRows(aws_rows, p) = A /\ OfRows(gcp_rows, p) = G
Mine(s)          == {s} \X run[s].found
IsLast(s, p)     == \A t \in Of(p) : t <= s
Mapped(s) ==
    \/ run[s].pc \in {"compare", "snapshot", "upload", "record", "finish"}
    \/ sync[s].status = "completed"

RowsOf(s, p) == /\ At(s, "detect") => RowsAre(p, {}, {})
                /\ At(s, "map") => RowsAre(p, Mine(s), {})
                /\ Mapped(s) => RowsAre(p, Mine(s), Mine(s))
RowsOk(p)    == \A s \in Of(p) : /\ Running(s) => IsLast(s, p)
                                 /\ IsLast(s, p) => RowsOf(s, p)

(* Numbers are given out in order, and only a run that began has rows.     *)
UsedPrefix == \A s, t \in Syncs :
    run[s].pc # "none" /\ t < s => run[t].pc # "none"
RowsInUse  == \A row \in aws_rows \cup gcp_rows :
    row[1] \in Syncs /\ run[row[1]].pc # "none"

RowsInv == /\ UsedPrefix /\ RowsInUse
           /\ \A p \in Projects \ overlapped : RowsOk(p)

(* Nothing of a project changes whose runs, syncs and rows stay.           *)
LEMMA RowsFrame ==
    ASSUME NEW p, RowsOk(p), Of(p)' = Of(p),
           \A t \in Of(p) : run'[t] = run[t] /\ sync'[t] = sync[t],
           OfRows(aws_rows, p)' = OfRows(aws_rows, p),
           OfRows(gcp_rows, p)' = OfRows(gcp_rows, p)
    PROVE  RowsOk(p)'
<1>1. \A t \in Of(p) : /\ RowsOf(t, p)' <=> RowsOf(t, p)
                       /\ IsLast(t, p)' <=> IsLast(t, p)
                       /\ Running(t)' <=> Running(t)
      BY DEF RowsOf, RowsAre, Mine, Mapped, At, IsLast, Running
<1> QED BY <1>1 DEF RowsOk

(* Where a step leads that neither clears, detects nor maps.               *)
LEMMA RowlessMoves ==
    ASSUME TypeOK, Books, NEW s \in Syncs, RunStep(s)
    PROVE  \/ ClearRows(s) \/ detect_all(s) \/ map_all(s)
           \/ /\ UNCHANGED <<aws_rows, gcp_rows>>
              /\ run'[s].found = run[s].found
              /\ run'[s].pc \notin {"detect", "map"}
              /\ Mapped(s)' => Mapped(s)
<1> USE DEF tables
<1>0. RunType /\ WorkerType /\ SyncType /\ BookRow(s)
      BY TypeParts DEF Books
<1>1. CASE MarkSyncing(s)
      BY <1>0, <1>1, GotoEffect
      DEF MarkSyncing, Steps, Mapped, BookRow, Running, At
<1>2. CASE RetirePackage(s) \/ KeepPackage(s) \/ CreateSnapshot(s)
           \/ UploadCode(s) \/ RecordPackage(s)
      BY <1>0, <1>2, GotoEffect
      DEF RetirePackage, KeepPackage, CreateSnapshot, UploadCode, RecordPackage,
          Steps, Mapped, At
<1>3. CASE Complete(s)
      BY <1>0, <1>3, GotoEffect DEF Complete, Mapped, At
<1>4. CASE RunFails(s)
  <2>1. /\ run'[s].pc = "ended" /\ run'[s].found = run[s].found
        /\ sync'[s].status = "failed"
        BY <1>0, <1>4, AbandonEffect, StatusEffect DEF RunFails
  <2> QED BY <1>4, <2>1 DEF RunFails, Mapped
<1>5. CASE RunIsLost(s)
  <2>1. run'[s].pc = "ended" /\ run'[s].found = run[s].found
        BY <1>0, <1>5, AbandonEffect DEF RunIsLost
  <2> QED BY <1>5, <2>1 DEF RunIsLost, Mapped
<1> QED BY <1>1, <1>2, <1>3, <1>4, <1>5 DEF RunStep

(* What a step does to the rows: those of other projects stay.             *)
LEMMA RowsOfOthers ==
    ASSUME TypeOK, Books, RowsInUse, NEW s \in Syncs, RunStep(s),
           NEW p, p # ProjectOf(s)
    PROVE  /\ OfRows(aws_rows, p)' = OfRows(aws_rows, p)
           /\ OfRows(gcp_rows, p)' = OfRows(gcp_rows, p)
<1>1. \A t \in Syncs : ProjectOf(t)' = ProjectOf(t)
      BY RunStepFrame
<1>2. /\ \A row \in aws_rows : ProjectOf(row[1])' = ProjectOf(row[1])
      /\ \A row \in gcp_rows : ProjectOf(row[1])' = ProjectOf(row[1])
      BY <1>1 DEF RowsInUse
<1>3. CASE ClearRows(s)
      BY <1>2, <1>3 DEF ClearRows, OfRows
<1>4. CASE detect_all(s)
  <2>1. PICK found \in SUBSET Resources : aws_rows' = aws_rows \cup ({s} \X found)
        BY <1>4 DEF detect_all
  <2>2. \A row \in {s} \X found : ProjectOf(row[1])' # p
        BY <1>1
  <2> QED BY <1>2, <1>4, <2>1, <2>2 DEF detect_all, OfRows
<1>5. CASE map_all(s)
  <2>1. \A row \in {s} \X run[s].found : ProjectOf(row[1])' # p
        BY <1>1
  <2> QED BY <1>2, <1>5, <2>1 DEF map_all, OfRows
<1>6. CASE UNCHANGED <<aws_rows, gcp_rows>>
      BY <1>2, <1>6 DEF OfRows
<1> QED BY <1>3, <1>4, <1>5, <1>6, RowlessMoves

(* What a step of the newest run of a project does to its rows.            *)
LEMMA RowsOfLast ==
    ASSUME TypeOK, Books, RowsInUse, NEW s \in Syncs, RunStep(s),
           RowsOf(s, ProjectOf(s))
    PROVE  RowsOf(s, ProjectOf(s))'
<1> DEFINE p == ProjectOf(s)
<1>0. RunType /\ SyncType /\ BookRow(s)
      BY TypeParts DEF Books
<1>1. /\ \A t \in Syncs : ProjectOf(t)' = ProjectOf(t)
      /\ OnlyRun(s) /\ run[s].pc \in Steps
      BY RunStepFrame
<1>2. /\ \A row \in aws_rows : ProjectOf(row[1])' = ProjectOf(row[1])
      /\ \A row \in gcp_rows : ProjectOf(row[1])' = ProjectOf(row[1])
      BY <1>1 DEF RowsInUse
<1>3. CASE ClearRows(s)
  <2>1. run'[s].pc = "detect" /\ sync' = sync
        BY <1>0, <1>3, GotoEffect DEF ClearRows, Steps
  <2>2. ~Mapped(s)'
        BY <1>0, <1>1, <2>1 DEF Mapped, BookRow, Running
  <2>3. RowsAre(p, {}, {})'
        BY <1>1, <1>2, <1>3 DEF ClearRows, RowsAre, OfRows
  <2> QED BY <2>1, <2>2, <2>3 DEF RowsOf, At
<1>4. CASE detect_all(s)
  <2>1. PICK found \in SUBSET Resources :
            /\ run' = [run EXCEPT ![s].pc = "map", ![s].found = found]
            /\ aws_rows' = aws_rows \cup ({s} \X found)
        BY <1>4 DEF detect_all
  <2>2. run'[s].pc = "map" /\ run'[s].found = found
        BY <1>0, <2>1, DetectEffect
  <2>3. run[s].pc = "detect" /\ UNCHANGED <<sync, gcp_rows>>
        BY <1>4 DEF detect_all, At
  <2>4. ~Mapped(s)'
        BY <1>0, <1>1, <2>2, <2>3 DEF Mapped, BookRow, Running
  <2>5. OfRows(aws_rows, p) = {} /\ OfRows(gcp_rows, p) = {}
        BY <2>3 DEF RowsOf, RowsAre, At
  <2>6. \A row \in {s} \X found : ProjectOf(row[1])' = p
        BY <1>1
  <2>7. OfRows(aws_rows, p)' = {s} \X found
        BY <1>1, <1>2, <2>1, <2>5, <2>6 DEF OfRows
  <2>8. OfRows(gcp_rows, p)' = {}
        BY <1>1, <1>2, <2>3, <2>5 DEF OfRows
  <2> QED BY <2>2, <2>4, <2>7, <2>8 DEF RowsOf, RowsAre, Mine, At
<1>5. CASE map_all(s)
  <2>1. /\ run'[s].pc = "compare" /\ run'[s].found = run[s].found
        /\ run[s].pc = "map"
        BY <1>0, <1>5, GotoEffect DEF map_all, Steps, At
  <2>2. /\ gcp_rows' = gcp_rows \cup ({s} \X run[s].found)
        /\ aws_rows' = aws_rows
        BY <1>5 DEF map_all
  <2>3. OfRows(aws_rows, p) = {s} \X run[s].found /\ OfRows(gcp_rows, p) = {}
        BY <2>1 DEF RowsOf, RowsAre, Mine, At
  <2>4. \A row \in {s} \X run[s].found : ProjectOf(row[1])' = p
        BY <1>1
  <2>5. OfRows(gcp_rows, p)' = {s} \X run[s].found
        BY <1>1, <1>2, <2>2, <2>3, <2>4 DEF OfRows
  <2>6. OfRows(aws_rows, p)' = {s} \X run[s].found
        BY <1>1, <1>2, <2>2, <2>3 DEF OfRows
  <2> QED BY <2>1, <2>5, <2>6 DEF RowsOf, RowsAre, Mine, At
<1>6. CASE /\ UNCHANGED <<aws_rows, gcp_rows>>
           /\ run'[s].found = run[s].found
           /\ run'[s].pc \notin {"detect", "map"}
           /\ Mapped(s)' => Mapped(s)
  <2>1. /\ OfRows(aws_rows, p)' = OfRows(aws_rows, p)
        /\ OfRows(gcp_rows, p)' = OfRows(gcp_rows, p)
        BY <1>1, <1>2, <1>6 DEF OfRows
  <2> QED BY <1>6, <2>1 DEF RowsOf, RowsAre, Mine, At
<1> QED BY <1>3, <1>4, <1>5, <1>6, RowlessMoves

LEMMA RowsRun ==
    ASSUME TypeOK, Books, RowsInv, NEW s \in Syncs, RunStep(s)
    PROVE  \A p \in Projects \ overlapped' : RowsOk(p)'
<1>1. /\ OnlyRun(s) /\ run[s].pc \in Steps /\ overlapped' = overlapped
      /\ \A q : Of(q)' = Of(q)
      /\ ProjectOf(s)' = ProjectOf(s)
      BY RunStepFrame
<1>2. SUFFICES ASSUME NEW p \in Projects \ overlapped PROVE RowsOk(p)'
      BY <1>1
<1>3. RowsOk(p)
      BY DEF RowsInv
<1>4. \A t \in Syncs \ {s} : sync'[t] = sync[t]
  <2>1. SyncType
        BY TypeParts
  <2>2. CASE Complete(s)
        BY <2>1, <2>2, StatusEffect DEF Complete, OnlySync
  <2>3. CASE RunFails(s)
        BY <2>1, <2>3, StatusEffect DEF RunFails, OnlySync
  <2>4. CASE sync' = sync
        BY <2>4
  <2> QED BY <2>2, <2>3, <2>4
          DEF RunStep, MarkSyncing, ClearRows, detect_all, map_all,
              RetirePackage, KeepPackage, CreateSnapshot, UploadCode,
              RecordPackage, RunIsLost
<1>5. CASE s \notin Of(p)
  <2>1. p # ProjectOf(s)
        BY <1>1, <1>5 DEF Of, Steps
  <2>2. \A t \in Of(p) : run'[t] = run[t] /\ sync'[t] = sync[t]
        BY <1>1, <1>4, <1>5 DEF OnlyRun, Of
  <2> QED BY <1>1, <1>3, <2>1, <2>2, RowsOfOthers, RowsFrame DEF RowsInv
<1>6. CASE s \in Of(p)
  <2>1. p = ProjectOf(s) /\ IsLast(s, p)
        BY <1>1, <1>3, <1>6 DEF Of, RowsOk, Running
  <2>2. RowsOf(s, p)'
        BY <1>1, <1>3, <1>6, <2>1, RowsOfLast DEF RowsOk, RowsInv
  <2>3. \A t \in Of(p) : IsLast(t, p) => t = s
        BY <1>6, <2>1, MirrorAssumption DEF IsLast, Of
  <2>4. \A t \in Of(p) : IsLast(t, p)' <=> IsLast(t, p)
        BY <1>1 DEF IsLast
  <2>5. \A t \in Of(p) : t # s => (Running(t)' <=> Running(t))
        BY <1>1 DEF OnlyRun, Of, Running
  <2> QED BY <1>1, <1>3, <2>1, <2>2, <2>3, <2>4, <2>5 DEF RowsOk
<1> QED BY <1>5, <1>6

LEMMA UseRun ==
    ASSUME TypeOK, Books, RowsInv, NEW s \in Syncs, RunStep(s)
    PROVE  UsedPrefix' /\ RowsInUse'
<1> USE DEF tables
<1>1. OnlyRun(s) /\ run[s].pc \in Steps /\ run'[s].pc # "none"
      BY RunStepFrame
<1>2. UsedPrefix'
      BY <1>1 DEF RowsInv, UsedPrefix, OnlyRun, Steps
<1>3. \A t \in Syncs : run[t].pc # "none" => run'[t].pc # "none"
      BY <1>1 DEF OnlyRun
<1>4. \A row \in aws_rows' \cup gcp_rows' : row \in aws_rows \cup gcp_rows \/ row[1] = s
  <2>1. CASE detect_all(s)
    <3>1. PICK found \in SUBSET Resources : aws_rows' = aws_rows \cup ({s} \X found)
          BY <2>1 DEF detect_all
    <3> QED BY <2>1, <3>1 DEF detect_all
  <2>2. CASE ClearRows(s)
        BY <2>2 DEF ClearRows
  <2>3. CASE map_all(s)
        BY <2>3 DEF map_all
  <2> QED BY <2>1, <2>2, <2>3, RowlessMoves
<1> QED BY <1>1, <1>2, <1>3, <1>4 DEF RowsInv, RowsInUse

LEMMA RowsStart ==
    ASSUME TypeOK, Books, RowsInv, NEW p \in Projects,
           NEW by \in Workers \cup {Manual},
           NEW trigger \in Messages \cup {NoMessage}, StartRun(p, by, trigger)
    PROVE  RowsInv'
<1> USE DEF tables
<1>1. PICK s \in Syncs :
          /\ StartsAs(s, p, by, trigger)
          /\ s \notin Of(p)
          /\ Of(p)' = Of(p) \cup {s}
          /\ \A q \in Projects \ {p} : Of(q)' = Of(q)
          /\ \A t \in Syncs \ {s} : ProjectOf(t)' = ProjectOf(t)
      BY StartFrame
<1>2. /\ UNCHANGED <<aws_rows, gcp_rows>>
      /\ overlapped \subseteq overlapped'
      /\ p \notin overlapped' => \A t \in Of(p) : ~Running(t)
      BY DEF StartRun, Overlaps
<1>3. /\ \A t \in Syncs \ {s} : run'[t] = run[t] /\ sync'[t] = sync[t]
      /\ \A t \in Syncs : t < s => run[t].pc # "none"
      /\ run[s].pc = "none" /\ run'[s].pc = "begin"
      /\ sync'[s].status = "running"
      BY <1>1 DEF StartsAs, OnlyRun, OnlySync
<1>4. \A t \in Syncs : run[t].pc # "none" => t < s
  <2> SUFFICES ASSUME NEW t \in Syncs, run[t].pc # "none", ~(t < s) PROVE FALSE
      OBVIOUS
  <2>1. s < t
        BY <1>3, MirrorAssumption
  <2> QED BY <1>3, <2>1 DEF RowsInv, UsedPrefix
<1>5. UsedPrefix'
      BY <1>3, <1>4, MirrorAssumption DEF RowsInv, UsedPrefix
<1>6. \A row \in aws_rows \cup gcp_rows : row[1] \in Syncs \ {s}
      BY <1>3 DEF RowsInv, RowsInUse
<1>7. RowsInUse'
      BY <1>2, <1>3, <1>6 DEF RowsInv, RowsInUse
<1>8. \A q : /\ OfRows(aws_rows, q)' = OfRows(aws_rows, q)
             /\ OfRows(gcp_rows, q)' = OfRows(gcp_rows, q)
  <2>1. /\ \A row \in aws_rows : ProjectOf(row[1])' = ProjectOf(row[1])
        /\ \A row \in gcp_rows : ProjectOf(row[1])' = ProjectOf(row[1])
        BY <1>1, <1>6
  <2> QED BY <1>2, <2>1 DEF OfRows
<1>9. ASSUME NEW q \in Projects \ overlapped' PROVE RowsOk(q)'
  <2>1. RowsOk(q)
        BY <1>2 DEF RowsInv
  <2>2. CASE q # p
    <3>1. /\ Of(q)' = Of(q)
          /\ \A t \in Of(q) : run'[t] = run[t] /\ sync'[t] = sync[t]
          BY <1>1, <1>3, <2>2 DEF Of
    <3> QED BY <1>8, <2>1, <3>1, RowsFrame
  <2>3. CASE q = p
    <3>1. \A t \in Of(p) : t < s /\ ~Running(t) /\ run'[t] = run[t]
          BY <1>1, <1>2, <1>3, <1>4, <2>3, <1>9 DEF Of
    <3>2. IsLast(s, p)'
          BY <1>1, <3>1, MirrorAssumption DEF IsLast, Of
    <3>3. \A t \in Of(p) : ~IsLast(t, p)' /\ ~Running(t)'
          BY <1>1, <3>1, MirrorAssumption DEF IsLast, Of, Running
    <3>4. RowsOf(s, p)'
          BY <1>3 DEF RowsOf, At, Mapped
    <3> QED BY <1>1, <2>3, <3>2, <3>3, <3>4 DEF RowsOk
  <2> QED BY <2>2, <2>3
<1> QED BY <1>5, <1>7, <1>9 DEF RowsInv

LEMMA RowsInductive ==
    TypeOK /\ Announced /\ Books /\ RowsInv /\ [Next]_vars => RowsInv'
<1> SUFFICES ASSUME TypeOK, Announced, Books, RowsInv, [Next]_vars
             PROVE  RowsInv'
    OBVIOUS
<1>1. ASSUME NEW s \in Syncs, RunStep(s) PROVE RowsInv'
      BY <1>1, RowsRun, UseRun DEF RowsInv
<1>2. CASE UNCHANGED <<sync, run, aws_rows, gcp_rows, overlapped>>
  <2>1. \A p : Of(p)' = Of(p)
        BY <1>2 DEF Of, ProjectOf
  <2>2. \A p : /\ OfRows(aws_rows, p)' = OfRows(aws_rows, p)
               /\ OfRows(gcp_rows, p)' = OfRows(gcp_rows, p)
        BY <1>2 DEF OfRows, ProjectOf
  <2>3. \A p \in Projects \ overlapped : RowsOk(p)'
        BY <1>2, <2>1, <2>2, RowsFrame DEF RowsInv
  <2>4. UsedPrefix' /\ RowsInUse'
        BY <1>2 DEF RowsInv, UsedPrefix, RowsInUse
  <2> QED BY <1>2, <2>3, <2>4 DEF RowsInv
<1>3. ASSUME NEW w \in Workers, run_phase2(w) \/ MarkReady(w) PROVE RowsInv'
      BY <1>2, <1>3 DEF run_phase2, MarkReady, tables, history
<1> QED BY <1>1, <1>2, <1>3, RowsStart, StepKinds

(* While the runs of a project do not overlap, its resources and mappings
   after a completed run are those the run detected, for any number of
   projects, runs and workers and whatever is detected.                    *)
THEOREM RowsFollowTheLastRun == Spec => []RowsAreOfLastRun
<1>1. Init => RowsInv
      BY DEF Init, RowsInv, UsedPrefix, RowsInUse, RowsOk, Of, NoRun
<1>2. RowsInv => RowsAreOfLastRun
  <2> SUFFICES ASSUME RowsInv, NEW p \in Projects \ overlapped,
                      NEW s \in Completed(p), \A t \in Of(p) : t <= s
               PROVE  /\ OfRows(aws_rows, p) = {s} \X run[s].found
                      /\ OfRows(gcp_rows, p) = {s} \X run[s].found
      BY DEF RowsAreOfLastRun, OfRows
  <2>1. s \in Of(p) /\ Mapped(s) /\ IsLast(s, p)
        BY DEF Completed, Mapped, IsLast
  <2>2. RowsOf(s, p)
        BY <2>1 DEF RowsInv, RowsOk
  <2> QED BY <2>1, <2>2 DEF RowsOf, RowsAre, Mine
<1> QED BY <1>1, <1>2, MirrorBase, RowsInductive, PTL DEF Spec
-----------------------------------------------------------------------------
(* The pipeline implements the record *)

(* A deployment that has not been announced has no message, and no worker
   holds one: what has left the queue is not sent again.                   *)
Unannounced(d) == announces[d] = "none" =>
    /\ queue[DeploymentMessage(d)] = "unsent"
    /\ \A w \in Workers : worker[w].msg # DeploymentMessage(d)
SentOnce == \A d \in Deployments : Unannounced(d)

LEMMA ReceivedWasSent ==
    ASSUME SentOnce, WorkerType, NEW w \in Workers, NEW m \in Messages,
           NEW pc \in {"run", "phase2", "delete"}, NEW pkg \in Syncs \cup {NoSync},
           Receive(w, m, pc, pkg), UNCHANGED <<queue, announces>>
    PROVE  SentOnce'
<1>1. OnlyWorker(w) /\ worker'[w].msg = m /\ queue[m] = "sent"
      BY ReceiveEffect DEF Receive
<1> QED BY <1>1 DEF SentOnce, Unannounced, OnlyWorker

LEMMA SentOnceRun ==
    ASSUME TypeOK, SentOnce, NEW s \in Syncs, RunStep(s)
    PROVE  SentOnce'
<1>0. WorkerType /\ RunType /\ queue \in [Messages -> {"unsent", "sent", "deleted"}]
      BY TypeParts DEF TypeOK
<1>1. announces' = announces
      BY DEF RunStep, MarkSyncing, ClearRows, detect_all, map_all, RetirePackage,
             KeepPackage, CreateSnapshot, UploadCode, RecordPackage, Complete,
             RunFails, RunIsLost
<1>2. \A d \in Deployments : queue'[DeploymentMessage(d)] = queue[DeploymentMessage(d)]
      BY <1>0, MessageTypes, MessagesDiffer
      DEF RunStep, MarkSyncing, ClearRows, detect_all, map_all, RetirePackage,
          KeepPackage, CreateSnapshot, UploadCode, RecordPackage, Complete,
          RunFails, RunIsLost
<1>3. \A w \in Workers : worker'[w].msg \in {worker[w].msg, NoMessage}
  <2>1. CASE Complete(s)
        BY <1>0, <2>1, CompleteEffect
  <2>2. CASE RunFails(s) \/ RunIsLost(s)
        BY <1>0, <2>2, AbandonEffect DEF RunFails, RunIsLost, Idle
  <2>3. CASE worker' = worker
        BY <2>3
  <2> QED BY <2>1, <2>2, <2>3
          DEF RunStep, MarkSyncing, ClearRows, detect_all, map_all, RetirePackage,
              KeepPackage, CreateSnapshot, UploadCode, RecordPackage
<1> QED BY <1>1, <1>2, <1>3, MessagesDiffer DEF SentOnce, Unannounced

LEMMA SentOnceWorker ==
    ASSUME TypeOK, SentOnce, NEW w \in Workers, WorkerStep(w)
    PROVE  SentOnce'
<1>0. WorkerType /\ queue \in [Messages -> {"unsent", "sent", "deleted"}]
      BY TypeParts DEF TypeOK
<1>1. ASSUME NEW d \in Deployments, SkipDeployment(w, d) \/ RunDeployment(w, d)
      PROVE  SentOnce'
      BY <1>0, <1>1, ReceivedWasSent, MessageTypes
      DEF SkipDeployment, RunDeployment, StartRun
<1>2. ASSUME NEW s \in Syncs, ChoosePackage(w, s) PROVE SentOnce'
      BY <1>0, <1>2, ReceivedWasSent, MessageTypes DEF ChoosePackage, Newest, Pending
<1>3. CASE run_phase2(w) \/ MarkReady(w)
  <2>1. OnlyWorker(w) /\ worker'[w].msg = worker[w].msg
        BY <1>0, <1>3, WorkerGotoEffect DEF run_phase2, MarkReady
  <2> QED BY <1>3, <2>1 DEF run_phase2, MarkReady, SentOnce, Unannounced, OnlyWorker
<1>4. CASE delete_message(w) \/ HandlerFails(w)
  <2>1. OnlyWorker(w) /\ worker'[w].msg = NoMessage
        BY <1>0, <1>4, IdleType DEF delete_message, HandlerFails, Release, WorkerType,
                                    OnlyWorker, Idle
  <2>2. ASSUME NEW d \in Deployments, announces[d] = "none"
        PROVE  queue'[DeploymentMessage(d)] = queue[DeploymentMessage(d)]
        BY <1>0, <1>4, <2>2, MessageTypes
        DEF delete_message, HandlerFails, MessageOf, SentOnce, Unannounced
  <2>3. announces' = announces
        BY <1>4 DEF delete_message, HandlerFails
  <2> QED BY <2>1, <2>2, <2>3, MessagesDiffer DEF SentOnce, Unannounced, OnlyWorker
<1> QED BY <1>1, <1>2, <1>3, <1>4 DEF WorkerStep

LEMMA SentOnceInductive == TypeOK /\ SentOnce /\ [Next]_vars => SentOnce'
<1> SUFFICES ASSUME TypeOK, SentOnce, [Next]_vars PROVE SentOnce'
    OBVIOUS
<1>1. ASSUME NEW d \in Deployments, NEW p \in Projects, put_events(d, p)
      PROVE  SentOnce'
  <2>1. /\ announces \in [Deployments -> Projects \cup {"none"}]
        /\ queue \in [Messages -> {"unsent", "sent", "deleted"}]
        BY DEF TypeOK
  <2>2. announces'[d] = p /\ \A e \in Deployments \ {d} : announces'[e] = announces[e]
        BY <1>1, <2>1 DEF put_events
  <2>3. \A e \in Deployments \ {d} :
            queue'[DeploymentMessage(e)] = queue[DeploymentMessage(e)]
        BY <1>1, <2>1, MessageTypes, MessagesDiffer DEF put_events
  <2>4. worker' = worker
        BY <1>1 DEF put_events
  <2> QED BY <2>2, <2>3, <2>4, MirrorAssumption DEF SentOnce, Unannounced
<1>2. CASE UNCHANGED <<announces, queue, worker>>
      BY <1>2 DEF SentOnce, Unannounced
<1> QED BY <1>1, <1>2, SentOnceRun, SentOnceWorker
        DEF Next, Surroundings, manual_sync, StartRun, vars

LEMMA MessagesInvariant == Spec => [](HeldMessages /\ SentOnce)
<1>1. Init => SentOnce
      BY MessageTypes, MessagesDiffer DEF Init, SentOnce, Unannounced, Idle
<1> QED BY <1>1, HeldInit, MirrorBase, HeldInductive, SentOnceInductive, PTL DEF Spec

(* What the refinement mapping makes of the packages and of the queue.     *)
Recorded  == {s \in Syncs : Packaged(s)}
Exported  == {s \in Syncs : package[s].ready}
Forgotten == {d \in Deployments : queue[DeploymentMessage(d)] = "deleted"}

RecordStep == [Record!RecordNext]_(Record!record)

USE DEF Recorded, Exported, Forgotten

LEMMA QueueKept ==
    ASSUME \A d \in Deployments :
               queue'[DeploymentMessage(d)] = queue[DeploymentMessage(d)]
    PROVE  Forgotten' = Forgotten
OBVIOUS

LEMMA PackagesKept ==
    ASSUME \A t \in Syncs : /\ package'[t].at = package[t].at
                            /\ package'[t].ready = package[t].ready
    PROVE  Recorded' = Recorded /\ Exported' = Exported
BY DEF Packaged

LEMMA SilentStep ==
    ASSUME UNCHANGED <<dr_status, sync, Recorded, Exported, skipped, Forgotten>>
    PROVE  RecordStep
BY DEF RecordStep, Record!record

LEMMA InsertStep ==
    ASSUME Books, NEW p \in Projects, NEW by \in Workers \cup {Manual},
           NEW trigger \in Messages \cup {NoMessage}, StartRun(p, by, trigger)
    PROVE  RecordStep
<1>1. PICK s \in Syncs :
          /\ run[s].pc = "none"
          /\ sync' = [sync EXCEPT ![s] =
                        [project |-> p, status |-> "running", trigger |-> trigger]]
      BY DEF StartRun
<1>2. Record!Is(s, "none")
      BY <1>1 DEF Record!Is, Books, BookRow
<1>3. UNCHANGED <<dr_status, package, queue, skipped>>
      BY DEF StartRun, tables
<1>4. Record!Insert(s, p, trigger)
      BY <1>1, <1>2, <1>3, PackagesKept, QueueKept DEF Record!Insert
<1> QED BY <1>4 DEF RecordStep, Record!RecordNext

LEMMA PackageStep ==
    ASSUME TypeOK, Books, NEW s \in Syncs, RecordPackage(s)
    PROVE  RecordStep
<1>0. PackageType /\ RunType
      BY TypeParts
<1> DEFINE n == Cardinality({t \in Syncs : Packaged(t)})
<1>1. n \in Nat
  <2>1. IsFiniteSet(Syncs)
        BY FS_Interval, MirrorAssumption
  <2>2. IsFiniteSet({t \in Syncs : Packaged(t)})
        BY <2>1, FS_Subset
  <2> QED BY <2>2, FS_CardinalityType
<1>2. package' = [package EXCEPT ![s] = [at |-> n + 1, latest |-> TRUE, ready |-> FALSE]]
      BY DEF RecordPackage
<1>3. n + 1 > 0
      BY <1>1
<1> HIDE DEF n
<1>4. /\ package'[s].at = n + 1 /\ package'[s].ready = FALSE
      /\ \A t \in Syncs \ {s} : package'[t] = package[t]
      BY <1>0, <1>2 DEF PackageType
<1>5. ~Packaged(s) /\ ~package[s].ready /\ Record!Is(s, "running")
      BY DEF Books, BookRow, RecordPackage, At, Running, Steps, Record!Is
<1>6. Recorded' = Recorded \cup {s} /\ Exported' = Exported /\ s \notin Recorded
      BY <1>3, <1>4, <1>5 DEF Packaged
<1>7. UNCHANGED <<dr_status, sync, queue, skipped>>
      BY DEF RecordPackage, history
<1>8. Record!Package(s)
      BY <1>5, <1>6, <1>7, QueueKept DEF Record!Package
<1> QED BY <1>8 DEF RecordStep, Record!RecordNext

LEMMA RunSteps ==
    ASSUME TypeOK, Books, NEW s \in Syncs, RunStep(s)
    PROVE  RecordStep
<1> USE DEF tables, history
<1>0. /\ PackageType
      /\ run[s].pc \in Steps => Record!Is(s, "running")
      BY TypeParts DEF Books, BookRow, Running, Record!Is
<1>1. CASE MarkSyncing(s)
  <2>1. Record!Syncing(s)
        BY <1>0, <1>1, PackagesKept, QueueKept
        DEF MarkSyncing, Record!Syncing, Record!Says, ProjectOf, At, Steps
  <2> QED BY <2>1 DEF RecordStep, Record!RecordNext
<1>2. CASE ClearRows(s) \/ detect_all(s) \/ map_all(s) \/ UploadCode(s) \/ RunIsLost(s)
      BY <1>2, PackagesKept, QueueKept, SilentStep
      DEF ClearRows, detect_all, map_all, UploadCode, RunIsLost
<1>3. CASE RetirePackage(s)
  <2>1. \A t \in Syncs : /\ package'[t].at = package[t].at
                         /\ package'[t].ready = package[t].ready
        BY <1>0, <1>3 DEF RetirePackage, PackageType, Packages
  <2> QED BY <1>3, <2>1, PackagesKept, QueueKept, SilentStep DEF RetirePackage
<1>4. CASE CreateSnapshot(s)
  <2>1. \A d \in Deployments :
            queue'[DeploymentMessage(d)] = queue[DeploymentMessage(d)]
        BY <1>4, MessageTypes, MessagesDiffer DEF CreateSnapshot, TypeOK
  <2> QED BY <1>4, <2>1, PackagesKept, QueueKept, SilentStep DEF CreateSnapshot
<1>5. CASE RecordPackage(s)
      BY <1>5, PackageStep
<1>6. CASE KeepPackage(s)
  <2>1. CASE UNCHANGED dr_status
        BY <1>6, <2>1, PackagesKept, QueueKept, SilentStep DEF KeepPackage
  <2>2. CASE dr_status' # dr_status
    <3>1. PICK t \in Latest(ProjectOf(s)) :
              /\ package[t].ready
              /\ dr_status' = [dr_status EXCEPT ![ProjectOf(s)] = "ready"]
          BY <1>6, <2>2 DEF KeepPackage
    <3>2. t \in Syncs /\ t \in Exported /\ ProjectOf(t) = ProjectOf(s)
          BY <3>1 DEF Latest, Of
    <3>3. Record!Ready(t)
          BY <1>6, <3>1, <3>2, PackagesKept, QueueKept
          DEF KeepPackage, Record!Ready, Record!Says, ProjectOf
    <3> QED BY <3>2, <3>3 DEF RecordStep, Record!RecordNext
  <2> QED BY <2>1, <2>2
<1>7. CASE Complete(s)
  <2>1. Record!Succeed(s)
        BY <1>0, <1>7, PackagesKept, QueueKept
        DEF Complete, Record!Succeed, Record!Becomes, At, Steps
  <2> QED BY <2>1 DEF RecordStep, Record!RecordNext
<1>8. CASE RunFails(s)
  <2>1. Record!Fail(s)
        BY <1>0, <1>8, PackagesKept, QueueKept
        DEF RunFails, Record!Fail, Record!Becomes, Record!Says, ProjectOf, Fallible, Steps
  <2> QED BY <2>1 DEF RecordStep, Record!RecordNext
<1> QED BY <1>1, <1>2, <1>3, <1>4, <1>5, <1>6, <1>7, <1>8 DEF RunStep

LEMMA WorkerSteps ==
    ASSUME TypeOK, Announced, Books, HeldMessages, NEW w \in Workers, WorkerStep(w)
    PROVE  RecordStep
<1> USE DEF tables, history
<1>0. /\ PackageType /\ queue \in [Messages -> {"unsent", "sent", "deleted"}]
      BY TypeParts DEF TypeOK
<1>1. ASSUME NEW d \in Deployments, SkipDeployment(w, d) PROVE RecordStep
  <2>1. Record!Skip(d)
        BY <1>1, PackagesKept, QueueKept DEF SkipDeployment, Record!Skip
  <2> QED BY <2>1 DEF RecordStep, Record!RecordNext
<1>2. ASSUME NEW d \in Deployments, RunDeployment(w, d) PROVE RecordStep
  <2>1. announces[d] \in Projects
        BY <1>2 DEF RunDeployment, Receive, Announced, TypeOK
  <2> QED BY <1>2, <2>1, InsertStep, MessageTypes DEF RunDeployment
<1>3. ASSUME NEW s \in Syncs, ChoosePackage(w, s) PROVE RecordStep
      BY <1>3, PackagesKept, QueueKept, SilentStep DEF ChoosePackage
<1>4. CASE run_phase2(w)
  <2>1. PICK q \in Syncs : q = worker[w].pkg /\ Packaged(q)
        BY <1>4 DEF Books, BookWorker, run_phase2, Holds
  <2>2. /\ package'[q].ready /\ package'[q].at = package[q].at
        /\ \A t \in Syncs \ {q} : package'[t] = package[t]
        BY <1>0, <1>4, <2>1 DEF run_phase2, PackageType, Packages
  <2>3. Recorded' = Recorded /\ Exported' = Exported \cup {q} /\ q \in Recorded
        BY <2>1, <2>2 DEF Packaged
  <2>4. Record!Export(q)
        BY <1>4, <2>3, QueueKept DEF run_phase2, Record!Export
  <2> QED BY <2>4 DEF RecordStep, Record!RecordNext
<1>5. CASE MarkReady(w)
  <2>1. PICK q \in Syncs : q = worker[w].pkg /\ package[q].ready
        BY <1>5 DEF Books, BookWorker, MarkReady, Holds
  <2>2. Record!Ready(q)
        BY <1>5, <2>1, PackagesKept, QueueKept
        DEF MarkReady, Record!Ready, Record!Says, ProjectOf
  <2> QED BY <2>2 DEF RecordStep, Record!RecordNext
<1>6. CASE delete_message(w)
  <2>1. /\ queue' = [queue EXCEPT ![worker[w].msg] = "deleted"]
        /\ worker[w].pc = "delete" /\ UNCHANGED <<dr_status, sync, package, skipped>>
        BY <1>6 DEF delete_message, MessageOf, Holds
  <2>2. CASE \A d \in Deployments : worker[w].msg # DeploymentMessage(d)
        BY <1>0, <2>1, <2>2, MessageTypes, PackagesKept, QueueKept, SilentStep
  <2>3. ASSUME NEW d \in Deployments, worker[w].msg = DeploymentMessage(d)
        PROVE  RecordStep
    <3>1. Done(d)
          BY <2>1, <2>3 DEF HeldMessages, Justified
    <3>2. Forgotten' = Forgotten \cup {d}
          BY <1>0, <2>1, <2>3, MessageTypes, MessagesDiffer
    <3>3. Record!Forget(d)
          BY <2>1, <3>1, <3>2, PackagesKept DEF Record!Forget, Record!Is, Done
    <3> QED BY <3>3 DEF RecordStep, Record!RecordNext
  <2> QED BY <2>2, <2>3
<1>7. CASE HandlerFails(w)
      BY <1>7, PackagesKept, QueueKept, SilentStep DEF HandlerFails
<1> QED BY <1>1, <1>2, <1>3, <1>4, <1>5, <1>6, <1>7 DEF WorkerStep

LEMMA RecordStepSimulation ==
    TypeOK /\ Announced /\ Books /\ HeldMessages /\ SentOnce /\ [Next]_vars => RecordStep
<1> SUFFICES ASSUME TypeOK, Announced, Books, HeldMessages, SentOnce, [Next]_vars
             PROVE  RecordStep
    OBVIOUS
<1>1. ASSUME NEW p \in Projects, manual_sync(p) PROVE RecordStep
      BY <1>1, InsertStep DEF manual_sync
<1>2. ASSUME NEW d \in Deployments, NEW p \in Projects, put_events(d, p)
      PROVE  RecordStep
  <2>1. Forgotten' = Forgotten
        BY <1>2, MessageTypes, MessagesDiffer
        DEF put_events, TypeOK, SentOnce, Unannounced
  <2> QED BY <1>2, <2>1, PackagesKept, SilentStep DEF put_events, tables, history
<1>3. CASE UNCHANGED vars
      BY <1>3, PackagesKept, QueueKept, SilentStep DEF vars
<1> QED BY <1>1, <1>2, <1>3, RunSteps, WorkerSteps DEF Next, Surroundings

(* The runs, workers, redeliveries and losses of MirrorOps, whatever their
   number, implement the record that its pages, the failover and CraftOps
   see: one outcome for a sync, a package exported before its project is
   ready, and no deployment that leaves the queue before it is dealt with. *)
THEOREM PipelineImplementsRecord == Spec => ImplementsMirrorRecord
<1>1. Init => Record!RecordInit
      BY MessageTypes DEF Init, Record!RecordInit, Record!Is, NoRow, NoPackage, Packaged
<1>2. TypeOK /\ Announced /\ Books /\ HeldMessages /\ SentOnce /\ [Next]_vars
          => [Record!RecordNext]_(Record!record)
      BY RecordStepSimulation DEF RecordStep
<1> QED BY <1>1, <1>2, MirrorBase, MessagesInvariant, PTL
        DEF Spec, ImplementsMirrorRecord, Record!RecordSpec
=============================================================================
