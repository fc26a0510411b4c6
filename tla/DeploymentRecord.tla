-------------------------- MODULE DeploymentRecord --------------------------
(***************************************************************************)
(* What the deployments and projects tables promise to whoever reads them: *)
(* the pages of the frontend, the event stream, MirrorOps.  The handlers,  *)
(* runner tasks and callbacks that write the rows are in DeployLifecycle,  *)
(* which implements this module; here only their writes are left.          *)
(***************************************************************************)
EXTENDS Naturals

CONSTANT Deployments    (* deployment rows, numbered by started_at         *)

VARIABLES
    project,    (* projects.status, or "deleted" when the row is gone      *)
    status,     (* deployments.status, or "absent"                         *)
    applied,    (* deployments for which terraform apply has succeeded     *)
    published   (* deployments announced to MirrorOps                      *)

record == <<project, status, applied, published>>

ProjectStatus    == {"created", "completed", "deleted"}
DeploymentStatus == {"absent", "created", "deploying", "completed",
                     "partial_failed", "failed", "destroying",
                     "destroy_failed", "destroyed"}
Results == {"completed", "partial_failed", "failed",
            "destroyed", "destroy_failed"}

InDatabase(d) == status[d] # "absent"

RecordInit ==
    /\ project   = "created"
    /\ status    = [d \in Deployments |-> "absent"]
    /\ applied   = {}
    /\ published = {}

(* A row appears as a draft, and never becomes one again.                  *)
Draft(d) ==
    /\ project # "deleted"
    /\ ~InDatabase(d)
    /\ status' = [status EXCEPT ![d] = "created"]
    /\ UNCHANGED <<project, applied, published>>

(* A request puts a row in flight, whatever it holds by the time the
   UPDATE is executed.                                                     *)
Start(d, s) ==
    /\ InDatabase(d)
    /\ s \in {"deploying", "destroying"}
    /\ status' = [status EXCEPT ![d] = s]
    /\ UNCHANGED <<project, applied, published>>

Apply(d) ==
    /\ applied' = applied \cup {d}
    /\ UNCHANGED <<project, status, published>>

(* A result is written; only a real success is called completed.           *)
Report(d, result) ==
    /\ InDatabase(d)
    /\ result \in Results
    /\ result = "completed" => d \in applied
    /\ status'  = [status EXCEPT ![d] = result]
    /\ project' = IF result = "completed" THEN "completed" ELSE project
    /\ UNCHANGED <<applied, published>>

Announce(d) ==
    /\ project # "deleted"
    /\ d \in applied
    /\ published' = published \cup {d}
    /\ UNCHANGED <<project, status, applied>>

(* The project and its rows go together. *)
Purge ==
    /\ project' = "deleted"
    /\ status'  = [d \in Deployments |-> "absent"]
    /\ UNCHANGED <<applied, published>>

RecordNext ==
    \/ \E d \in Deployments :
          \/ Draft(d) \/ Apply(d) \/ Announce(d)
          \/ \E s \in {"deploying", "destroying"} : Start(d, s)
          \/ \E result \in Results : Report(d, result)
    \/ Purge

RecordSpec == RecordInit /\ [][RecordNext]_record
=============================================================================
