--------------------------- MODULE MirrorPipeline ---------------------------
(***************************************************************************)
(* MirrorOps: the worker that takes messages from the SQS queue            *)
(* (sqs_worker.py), the pipeline it or a manual sync runs (pipeline.py),   *)
(* and the two phases in which a disaster-recovery package is made         *)
(* (dr_packager.py).                                                       *)
(*                                                                         *)
(* Pipeline runs of one project are not serialised: the worker runs them   *)
(* one at a time, but POST /mirror/{id}/sync starts another in a thread of *)
(* its own, and a message whose visibility timeout has passed is received  *)
(* again by the next backend process.  Each run is split where it commits  *)
(* or calls AWS or GCP.  A run ends badly in two ways: an exception the    *)
(* handler records, or the loss of its process or database transaction,    *)
(* after which nothing more is written.                                    *)
(*                                                                         *)
(* A sync_history row, the run that inserted it, the package and the RDS   *)
(* snapshot the run may make all go by one number, in the order of         *)
(* started_at.                                                             *)
(***************************************************************************)
EXTENDS Naturals, FiniteSets

CONSTANTS
    Projects,
    Resources,      (* what detection may find of a project in AWS         *)
    Workers,        (* backend processes, each with one queue worker       *)
    Manual,         (* stands for the worker of a run a user started       *)
    Deployments,    (* completed deployments announced on EventBridge      *)
    MaxSyncs,       (* bound on sync_history rows                          *)
    MaxRunning      (* bound on pipeline runs under way at once            *)

ASSUME MirrorAssumption ==
    /\ MaxSyncs \in Nat
    /\ MaxRunning \in Nat
    /\ Manual \notin Workers
    /\ "none" \notin Projects

Syncs  == 1 .. MaxSyncs
NoSync == 0

VARIABLES
    dr_status,  (* projects.dr_status                                      *)
    sync,       (* the rows of sync_history                                *)
    run,        (* where each run is, who runs it, what it detected        *)
    aws_rows,   (* aws_resources: the run that inserted a row, the resource *)
    gcp_rows,   (* gcp_mappings: the run, and the resource the row maps    *)
    package,    (* dr_packages: one per run at most                        *)
    main_tf,    (* S3 projects/{id}/latest/infrastructure/main.tf: by whom *)
    queue,      (* the SQS messages                                        *)
    announces,  (* the project each announced deployment belongs to        *)
    worker,     (* what each queue worker is doing                         *)
    skipped,    (* deployments whose project was found not connected       *)
    overlapped, (* projects two runs of which were under way at once       *)
    stranded    (* runs whose process or transaction was lost              *)

vars == <<dr_status, sync, run, aws_rows, gcp_rows, package,
          main_tf, queue, announces, worker, skipped, overlapped, stranded>>
tables  == <<aws_rows, gcp_rows, package>>
history == <<skipped, overlapped>>

(* The messages: a deployment has completed; the snapshot of a run has.    *)
DeploymentMessage(d) == <<"InfraDeploymentCompleted", d>>
SnapshotMessage(s)   == <<"RDS DB Snapshot Event", s>>
Messages == {DeploymentMessage(d) : d \in Deployments}
            \cup {SnapshotMessage(s) : s \in Syncs}
NoMessage == <<"none", NoSync>>

Steps == {"begin", "clear", "detect", "map", "compare", "snapshot", "upload",
          "record", "finish"}

NoRun     == [pc |-> "none", by |-> Manual, found |-> {}]
NoRow     == [project |-> "none", status |-> "none", trigger |-> NoMessage]
NoPackage == [at |-> 0, latest |-> FALSE, ready |-> FALSE]
Idle      == [pc |-> "idle", msg |-> NoMessage, pkg |-> NoSync]

Running(s)   == run[s].pc \in Steps
ProjectOf(s) == sync[s].project
Of(p)        == {s \in Syncs : run[s].pc # "none" /\ ProjectOf(s) = p}
Packaged(s)  == package[s].at > 0
Latest(p)    == {s \in Of(p) : Packaged(s) /\ package[s].latest}
At(s, pc)    == run[s].pc = pc
Goto(s, pc)  == run' = [run EXCEPT ![s].pc = pc]

Init ==
    /\ dr_status  = [p \in Projects |-> "not_ready"]
    /\ sync       = [s \in Syncs |-> NoRow]
    /\ run        = [s \in Syncs |-> NoRun]
    /\ aws_rows   = {}
    /\ gcp_rows   = {}
    /\ package    = [s \in Syncs |-> NoPackage]
    /\ main_tf    = [p \in Projects |-> NoSync]
    /\ queue      = [m \in Messages |-> "unsent"]
    /\ announces  = [d \in Deployments |-> "none"]
    /\ worker     = [w \in Workers |-> Idle]
    /\ skipped    = {}
    /\ overlapped = {}
    /\ stranded   = {}

-----------------------------------------------------------------------------
(* The surroundings *)

(* CraftOps announces a completed deployment of the project.               *)
put_events(d, p) ==
    /\ announces[d] = "none"
    /\ announces' = [announces EXCEPT ![d] = p]
    /\ queue' = [queue EXCEPT ![DeploymentMessage(d)] = "sent"]
    /\ UNCHANGED <<dr_status, sync, run, tables, main_tf,
                   worker, history, stranded>>

-----------------------------------------------------------------------------
(* The queue worker *)

Release(w)     == worker' = [worker EXCEPT ![w] = Idle]
Holds(w, pc)   == worker[w].pc = pc
MessageOf(w)   == worker[w].msg

(* A message is received and its handler entered.  It stays hidden from
   others for 300 seconds, which a run may outlast: a message that has been
   sent and not deleted may be received by any worker that is free.        *)
Receive(w, m, pc, pkg) ==
    /\ Holds(w, "idle")
    /\ queue[m] = "sent"
    /\ worker' = [worker EXCEPT ![w] = [pc |-> pc, msg |-> m, pkg |-> pkg]]

(* The handler returned. *)
delete_message(w) ==
    /\ Holds(w, "delete")
    /\ queue' = [queue EXCEPT ![MessageOf(w)] = "deleted"]
    /\ Release(w)
    /\ UNCHANGED <<dr_status, sync, run, tables, main_tf,
                   announces, history, stranded>>

(* The handler raised, or the process ended, outside of a pipeline run: the
   message is left to be received again.                                   *)
HandlerFails(w) ==
    /\ worker[w].pc \in {"phase2", "ready", "delete"}
    /\ Release(w)
    /\ UNCHANGED <<dr_status, sync, run, tables, main_tf, queue,
                   announces, history, stranded>>

(* The user may connect or disconnect the GCP account of the project at any
   time, so each handler may find it connected or not.  When it is not,
   nothing is made for this deployment.                                    *)
SkipDeployment(w, d) ==
    /\ Receive(w, DeploymentMessage(d), "delete", NoSync)
    /\ skipped' = skipped \cup {d}
    /\ UNCHANGED <<dr_status, sync, run, tables, main_tf, queue,
                   announces, overlapped, stranded>>

-----------------------------------------------------------------------------
(* pipeline.run *)

Overlaps(p) == \E s \in Of(p) : Running(s)

(* The run reads its project, sets up the GCP credentials and inserts its
   sync_history row.  If that raises there is no row, and the message is
   received again: nothing has happened.                                   *)
StartRun(p, by, trigger) ==
    /\ Cardinality({s \in Syncs : Running(s)}) < MaxRunning
    /\ \E s \in Syncs :
          /\ run[s].pc = "none"
          /\ \A t \in Syncs : t < s => run[t].pc # "none"
          /\ run' = [run EXCEPT ![s] =
                        [pc |-> "begin", by |-> by, found |-> {}]]
          /\ sync' = [sync EXCEPT ![s] =
                        [project |-> p, status |-> "running", trigger |-> trigger]]
    /\ overlapped' = IF Overlaps(p) THEN overlapped \cup {p} ELSE overlapped
    /\ UNCHANGED <<dr_status, tables, main_tf, queue, announces,
                   skipped, stranded>>

RunDeployment(w, d) ==
    /\ Receive(w, DeploymentMessage(d), "run", NoSync)
    /\ StartRun(announces[d], w, DeploymentMessage(d))

(* The button of the MirrorOps page, for a project that is deployed and
   connected.  Nothing looks for a run under way.                          *)
manual_sync(p) ==
    /\ StartRun(p, Manual, NoMessage)
    /\ UNCHANGED worker

(* Mutant: the status of the sync is written, not that of the project.     *)
MarkSyncing_Running(s) ==
    /\ At(s, "begin")
    /\ dr_status' = [dr_status EXCEPT ![ProjectOf(s)] = "running"]
    /\ Goto(s, "clear")
    /\ UNCHANGED <<sync, tables, main_tf, queue, announces,
                   worker, history, stranded>>

MarkSyncing(s) ==
    /\ At(s, "begin")
    /\ dr_status' = [dr_status EXCEPT ![ProjectOf(s)] = "syncing"]
    /\ Goto(s, "clear")
    /\ UNCHANGED <<sync, tables, main_tf, queue, announces,
                   worker, history, stranded>>

(* Mutant: the rows of the last run are left where they are.               *)
ClearRows_Skipped(s) ==
    /\ At(s, "clear")
    /\ Goto(s, "detect")
    /\ UNCHANGED <<dr_status, sync, tables, main_tf, queue,
                   announces, worker, history, stranded>>

(* Every mapping and every resource of the project goes.                   *)
ClearRows(s) ==
    /\ At(s, "clear")
    /\ gcp_rows' = {row \in gcp_rows : ProjectOf(row[1]) # ProjectOf(s)}
    /\ aws_rows' = {row \in aws_rows : ProjectOf(row[1]) # ProjectOf(s)}
    /\ Goto(s, "detect")
    /\ UNCHANGED <<dr_status, sync, package, main_tf, queue,
                   announces, worker, history, stranded>>

(* A type that cannot be listed is skipped, so any part of what exists may
   be found; all of it is inserted in one commit.                          *)
detect_all(s) ==
    /\ At(s, "detect")
    /\ \E found \in SUBSET Resources :
          /\ run' = [run EXCEPT ![s].pc = "map", ![s].found = found]
          /\ aws_rows' = aws_rows \cup ({s} \X found)
    /\ UNCHANGED <<dr_status, sync, gcp_rows, package, main_tf,
                   queue, announces, worker, history, stranded>>

(* One mapping for each resource, in one commit.  A row another run has
   deleted in between cannot be read or referred to: the run fails.        *)
map_all(s) ==
    /\ At(s, "map")
    /\ {s} \X run[s].found \subseteq aws_rows
    /\ gcp_rows' = gcp_rows \cup ({s} \X run[s].found)
    /\ Goto(s, "compare")
    /\ UNCHANGED <<dr_status, sync, aws_rows, package, main_tf,
                   queue, announces, worker, history, stranded>>

(* The last completed sync before this one is looked for by started_at.    *)
Completed(p)   == {s \in Of(p) : sync[s].status = "completed"}
PreviousOf(s)  == {t \in Completed(ProjectOf(s)) \ {s} :
                     \A u \in Completed(ProjectOf(s)) \ {s} : u <= t}

(* What counts as a change is a different number of resources.             *)
Unchanged(s) == \E t \in PreviousOf(s) :
    /\ Cardinality(run[t].found) = Cardinality(run[s].found)
    /\ run[s].found # {}

(* Mutant: the update of is_latest is not committed.                       *)
RetirePackage_Forgotten(s) ==
    /\ At(s, "compare")
    /\ ~Unchanged(s)
    /\ Goto(s, "snapshot")
    /\ UNCHANGED <<dr_status, sync, tables, main_tf, queue,
                   announces, worker, history, stranded>>

(* A change: the old package is retired, and that is committed, before the
   HCL is generated and validated, which may fail.                         *)
RetirePackage(s) ==
    /\ At(s, "compare")
    /\ ~Unchanged(s)
    /\ package' = [t \in Syncs |-> IF t \in Latest(ProjectOf(s))
                                   THEN [package[t] EXCEPT !.latest = FALSE]
                                   ELSE package[t]]
    /\ Goto(s, "snapshot")
    /\ UNCHANGED <<dr_status, sync, aws_rows, gcp_rows, main_tf,
                   queue, announces, worker, history, stranded>>

(* run_phase1: the image is copied and a snapshot of the database asked for.
   RDS reports it at any later time; without a database it never does, which
   is a message nobody receives.                                           *)
CreateSnapshot(s) ==
    /\ At(s, "snapshot")
    /\ queue' = [queue EXCEPT ![SnapshotMessage(s)] = "sent"]
    /\ Goto(s, "upload")
    /\ UNCHANGED <<dr_status, sync, tables, main_tf, announces,
                   worker, history, stranded>>

(* run_phase1: main.tf and the report replace those of the run before.     *)
UploadCode(s) ==
    /\ At(s, "upload")
    /\ main_tf' = [main_tf EXCEPT ![ProjectOf(s)] = s]
    /\ Goto(s, "record")
    /\ UNCHANGED <<dr_status, sync, tables, queue, announces,
                   worker, history, stranded>>

(* run_phase1: only now is there a package row.                            *)
RecordPackage(s) ==
    /\ At(s, "record")
    /\ package' = [package EXCEPT ![s] =
          [at |-> Cardinality({t \in Syncs : Packaged(t)}) + 1,
           latest |-> TRUE, ready |-> FALSE]]
    /\ Goto(s, "finish")
    /\ UNCHANGED <<dr_status, sync, aws_rows, gcp_rows, main_tf,
                   queue, announces, worker, history, stranded>>

(* Mutant: having a package is taken for having a ready one.               *)
KeepPackage_Unready(s) ==
    /\ At(s, "compare")
    /\ Unchanged(s)
    /\ dr_status' = [dr_status EXCEPT ![ProjectOf(s)] = "ready"]
    /\ Goto(s, "finish")
    /\ UNCHANGED <<sync, tables, main_tf, queue, announces,
                   worker, history, stranded>>

(* No change: a package that is ready makes the project ready again.       *)
KeepPackage(s) ==
    /\ At(s, "compare")
    /\ Unchanged(s)
    /\ \/ \E t \in Latest(ProjectOf(s)) :
             IF package[t].ready
             THEN dr_status' = [dr_status EXCEPT ![ProjectOf(s)] = "ready"]
             ELSE UNCHANGED dr_status
       \/ Latest(ProjectOf(s)) = {} /\ UNCHANGED dr_status
    /\ Goto(s, "finish")
    /\ UNCHANGED <<sync, tables, main_tf, queue, announces,
                   worker, history, stranded>>

Complete(s) ==
    /\ At(s, "finish")
    /\ sync' = [sync EXCEPT ![s].status = "completed"]
    /\ Goto(s, "ended")
    /\ worker' = [w \in Workers |-> IF w = run[s].by
                                    THEN [worker[w] EXCEPT !.pc = "delete"]
                                    ELSE worker[w]]
    /\ UNCHANGED <<dr_status, tables, main_tf, queue, announces,
                   history, stranded>>

(* The run ends and, when a worker runs it, the worker turns to the next
   message without deleting this one.                                      *)
Abandon(s) ==
    /\ Goto(s, "ended")
    /\ worker' = [w \in Workers |-> IF w = run[s].by THEN Idle ELSE worker[w]]

(* What calls AWS, GCP or terraform, or reads rows another run may delete;
   the other steps only use the database.                                  *)
Fallible == {"detect", "map", "snapshot", "upload", "record"}

(* Mutant: the failure is logged and not raised again.                     *)
RunFails_Swallowed(s) ==
    /\ run[s].pc \in Fallible
    /\ sync' = [sync EXCEPT ![s].status = "failed"]
    /\ dr_status' = [dr_status EXCEPT ![ProjectOf(s)] = "not_ready"]
    /\ Goto(s, "ended")
    /\ worker' = [w \in Workers |-> IF w = run[s].by
                                    THEN [worker[w] EXCEPT !.pc = "delete"]
                                    ELSE worker[w]]
    /\ UNCHANGED <<tables, main_tf, queue, announces, history,
                   stranded>>

(* Mutant: the except clause resets dr_status and forgets the row.         *)
RunFails_Unrecorded(s) ==
    /\ run[s].pc \in Fallible
    /\ dr_status' = [dr_status EXCEPT ![ProjectOf(s)] = "not_ready"]
    /\ Abandon(s)
    /\ UNCHANGED <<sync, tables, main_tf, queue, announces,
                   history, stranded>>

(* An exception, which the except clause records.                          *)
RunFails(s) ==
    /\ run[s].pc \in Fallible
    /\ sync' = [sync EXCEPT ![s].status = "failed"]
    /\ dr_status' = [dr_status EXCEPT ![ProjectOf(s)] = "not_ready"]
    /\ Abandon(s)
    /\ UNCHANGED <<tables, main_tf, queue, announces, history,
                   stranded>>

(* The process ends, or the database refuses a statement: the transaction is
   aborted and the commit in the except clause raises as well.             *)
RunIsLost(s) ==
    /\ Running(s)
    /\ Abandon(s)
    /\ stranded' = stranded \cup {s}
    /\ UNCHANGED <<dr_status, sync, tables, main_tf, queue,
                   announces, history>>

-----------------------------------------------------------------------------
(* Phase 2, when RDS reports a snapshot *)

Pending == {s \in Syncs : Packaged(s) /\ ~package[s].ready}
Newest(S) == {s \in S : \A t \in S : package[t].at <= package[s].at}

(* The newest package whose snapshot is pending is taken, whatever project
   it is of and whatever snapshot the event reports.                       *)
ChoosePackage(w, s) ==
    /\ \/ \E q \in Newest(Pending) : Receive(w, SnapshotMessage(s), "phase2", q)
       \/ Pending = {} /\ Receive(w, SnapshotMessage(s), "delete", NoSync)
    /\ UNCHANGED <<dr_status, sync, run, tables, main_tf, queue,
                   announces, history, stranded>>

(* The snapshot is waited for and its export started.                      *)
run_phase2(w) ==
    /\ Holds(w, "phase2")
    /\ package' = [package EXCEPT ![worker[w].pkg].ready = TRUE]
    /\ worker' = [worker EXCEPT ![w].pc = "ready"]
    /\ UNCHANGED <<dr_status, sync, run, aws_rows, gcp_rows,
                   main_tf, queue, announces, history, stranded>>

MarkReady(w) ==
    /\ Holds(w, "ready")
    /\ dr_status' = [dr_status EXCEPT ![ProjectOf(worker[w].pkg)] = "ready"]
    /\ worker' = [worker EXCEPT ![w].pc = "delete"]
    /\ UNCHANGED <<sync, run, tables, main_tf, queue, announces,
                   history, stranded>>

-----------------------------------------------------------------------------
RunStep(s) ==
    \/ MarkSyncing(s) \/ ClearRows(s) \/ detect_all(s) \/ map_all(s)
    \/ RetirePackage(s) \/ KeepPackage(s) \/ CreateSnapshot(s)
    \/ UploadCode(s) \/ RecordPackage(s) \/ Complete(s) \/ RunFails(s) \/ RunIsLost(s)

WorkerStep(w) ==
    \/ \E d \in Deployments : SkipDeployment(w, d) \/ RunDeployment(w, d)
    \/ \E s \in Syncs : ChoosePackage(w, s)
    \/ run_phase2(w) \/ MarkReady(w) \/ delete_message(w) \/ HandlerFails(w)

Surroundings ==
    \/ \E p \in Projects : manual_sync(p)
    \/ \E d \in Deployments, p \in Projects : put_events(d, p)

Next ==
    \/ \E s \in Syncs : RunStep(s)
    \/ \E w \in Workers : WorkerStep(w)
    \/ Surroundings

Spec == Init /\ [][Next]_vars

-----------------------------------------------------------------------------
(* Properties *)

(* Every variable keeps its type. *)
TypeOK ==
    /\ dr_status \in [Projects -> {"not_ready", "syncing", "ready"}]
    /\ sync \in [Syncs ->
          [project : Projects \cup {"none"},
           status : {"none", "running", "completed", "failed"},
           trigger : Messages \cup {NoMessage}]]
    /\ run \in [Syncs -> [pc : Steps \cup {"none", "ended"},
                          by : Workers \cup {Manual}, found : SUBSET Resources]]
    /\ aws_rows \subseteq Syncs \X Resources
    /\ gcp_rows \subseteq Syncs \X Resources
    /\ package \in [Syncs -> [at : Nat, latest : BOOLEAN, ready : BOOLEAN]]
    /\ main_tf \in [Projects -> Syncs \cup {NoSync}]
    /\ queue \in [Messages -> {"unsent", "sent", "deleted"}]
    /\ announces \in [Deployments -> Projects \cup {"none"}]
    /\ worker \in [Workers ->
          [pc : {"idle", "run", "phase2", "ready", "delete"},
           msg : Messages \cup {NoMessage}, pkg : Syncs \cup {NoSync}]]
    /\ skipped \subseteq Deployments
    /\ overlapped \subseteq Projects
    /\ stranded \subseteq Syncs

(* A sync whose run has ended says how, unless its process or transaction
   was lost: no other way through the pipeline leaves the row running.     *)
OnlyLossLeavesRunning ==
    \A s \in Syncs : sync[s].status = "running" => Running(s) \/ s \in stranded

(* A deployment leaves the queue only after a sync it triggered has
   completed, or its project was not connected: no failure, redelivery or
   second worker loses one.                                                *)
DeletedMeansSynced ==
    \A d \in Deployments : queue[DeploymentMessage(d)] = "deleted" =>
        \/ d \in skipped
        \/ \E s \in Syncs : /\ sync[s].trigger = DeploymentMessage(d)
                             /\ sync[s].status = "completed"

(* As long as the runs of a project never overlapped, the main.tf under
   latest/, which a failover applies, is the one of its latest package, also
   while a run is on its way and after one has failed half-way.  So there is
   one latest package at most: failover and the next run take the first.    *)
LatestPackageOwnsMainTf ==
    \A p \in Projects \ overlapped :
        \A s \in Latest(p) : main_tf[p] = s

(* As long as the runs of a project never overlapped, after a completed run
   its resources are the ones that run detected, each with its mapping.    *)
RowsAreOfLastRun ==
    \A p \in Projects \ overlapped : \A s \in Completed(p) :
        (\A t \in Of(p) : t <= s) =>
            LET rows == {row \in aws_rows : ProjectOf(row[1]) = p}
            IN  /\ rows = {s} \X run[s].found
                /\ rows = {row \in gcp_rows : ProjectOf(row[1]) = p}

(* A project that says ready has a package that went through phase 2,
   however runs, events and redeliveries interleave.                       *)
ReadyWasExported ==
    \A p \in Projects : dr_status[p] = "ready" =>
        \E s \in Of(p) : package[s].ready

(* MirrorOps keeps a package at hand (README.md:88): after a completed sync
   no other run has touched, the project has a latest package.             *)
CompletedSyncLeavesPackage ==
    \A p \in Projects \ overlapped : \A s \in Completed(p) :
        (\A t \in Of(p) : t <= s) => Latest(p) # {}

(* What the rest of the system sees of the runs, workers and redeliveries: a
   sync has one outcome and at most one package, a package is exported before
   its project is ready, nothing recorded is lost, and a deployment leaves the
   queue once, when it has been dealt with.                                *)
Record == INSTANCE MirrorRecord WITH
    Triggers     <- Messages \cup {NoMessage},
    Announcement <- [d \in Deployments |-> DeploymentMessage(d)],
    recorded     <- {s \in Syncs : Packaged(s)},
    exported     <- {s \in Syncs : package[s].ready},
    forgotten    <- {d \in Deployments : queue[DeploymentMessage(d)] = "deleted"}

ImplementsMirrorRecord == Record!RecordSpec
=============================================================================
