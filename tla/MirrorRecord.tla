---------------------------- MODULE MirrorRecord ----------------------------
(***************************************************************************)
(* What the tables and the queue of MirrorOps promise to those outside it: *)
(* the status, the syncs and the packages to the MirrorOps pages and to    *)
(* the failover, and to CraftOps that the deployments it announces are     *)
(* dealt with.  The workers, runs and redeliveries behind them are in      *)
(* MirrorPipeline, which implements this module; here a sync is one row    *)
(* with one outcome, and a package is there or not.                        *)
(***************************************************************************)

CONSTANTS
    Projects,
    Syncs,         (* rows of sync_history                                 *)
    Deployments,   (* completed deployments announced to MirrorOps         *)
    Triggers,      (* what may have started a sync                         *)
    Announcement   (* the trigger that announces each deployment           *)

VARIABLES
    dr_status,  (* projects.dr_status                                      *)
    sync,       (* the rows of sync_history, status "none" before the INSERT *)
    recorded,   (* the syncs that have a row in dr_packages                *)
    exported,   (* those whose package went through phase 2                *)
    skipped,    (* deployments whose project was found not connected       *)
    forgotten   (* deployments whose message has left the queue            *)

record == <<dr_status, sync, recorded, exported, skipped, forgotten>>

Is(s, status)      == sync[s].status = status
Becomes(s, status) == sync' = [sync EXCEPT ![s].status = status]
Says(s, status)    == dr_status' = [dr_status EXCEPT ![sync[s].project] = status]

RecordInit ==
    /\ dr_status = [p \in Projects |-> "not_ready"]
    /\ \A s \in Syncs : Is(s, "none")
    /\ recorded = {} /\ exported = {}
    /\ skipped  = {} /\ forgotten = {}

Insert(s, p, trigger) ==
    /\ Is(s, "none")
    /\ sync' = [sync EXCEPT ![s] =
                   [project |-> p, status |-> "running", trigger |-> trigger]]
    /\ UNCHANGED <<dr_status, recorded, exported, skipped, forgotten>>

(* Only a sync that has no outcome yet says that its project is syncing, or
   records a package, once.                                                *)
Syncing(s) ==
    /\ Is(s, "running")
    /\ Says(s, "syncing")
    /\ UNCHANGED <<sync, recorded, exported, skipped, forgotten>>

Package(s) ==
    /\ Is(s, "running") /\ s \notin recorded
    /\ recorded' = recorded \cup {s}
    /\ UNCHANGED <<dr_status, sync, exported, skipped, forgotten>>

(* An outcome is written once, and never taken back.                       *)
Succeed(s) ==
    /\ Is(s, "running")
    /\ Becomes(s, "completed")
    /\ UNCHANGED <<dr_status, recorded, exported, skipped, forgotten>>

Fail(s) ==
    /\ Is(s, "running")
    /\ Becomes(s, "failed")
    /\ Says(s, "not_ready")
    /\ UNCHANGED <<recorded, exported, skipped, forgotten>>

(* A package is exported after it is recorded, and only an exported package
   of a project makes it ready, at any later time.  Neither is ever lost.  *)
Export(s) ==
    /\ s \in recorded
    /\ exported' = exported \cup {s}
    /\ UNCHANGED <<dr_status, sync, recorded, skipped, forgotten>>

Ready(s) ==
    /\ s \in exported
    /\ Says(s, "ready")
    /\ UNCHANGED <<sync, recorded, exported, skipped, forgotten>>

(* A deployment leaves the queue for good, when it has been skipped or a
   sync it triggered has completed.                                        *)
Skip(d) ==
    /\ skipped' = skipped \cup {d}
    /\ UNCHANGED <<dr_status, sync, recorded, exported, forgotten>>

Forget(d) ==
    /\ \/ d \in skipped
       \/ \E s \in Syncs : sync[s].trigger = Announcement[d] /\ Is(s, "completed")
    /\ forgotten' = forgotten \cup {d}
    /\ UNCHANGED <<dr_status, sync, recorded, exported, skipped>>

RecordNext ==
    \/ \E s \in Syncs :
          \/ \E p \in Projects, trigger \in Triggers : Insert(s, p, trigger)
          \/ Syncing(s) \/ Package(s) \/ Succeed(s) \/ Fail(s)
          \/ Export(s) \/ Ready(s)
    \/ \E d \in Deployments : Skip(d) \/ Forget(d)

RecordSpec == RecordInit /\ [][RecordNext]_record
=============================================================================
