----------------------------- MODULE GcpAccount -----------------------------
(***************************************************************************)
(* The GCP account of one project: the requests that connect and disconnect *)
(* it (api/gcp_connect.py), the columns of the project, and its secret in   *)
(* Secrets Manager, which the pipeline authenticates with (gcp_auth.py).    *)
(*                                                                         *)
(* A request reads the row, changes the secret and then commits the four    *)
(* columns, each in a transaction or a call of its own; requests overlap,    *)
(* and each may end after any of its steps.  An UPDATE has the columns whose *)
(* value is not the one the request has loaded.  An account stands for what  *)
(* one connection is given: a GCP project and the key of a service account.  *)
(***************************************************************************)
EXTENDS Naturals

CONSTANTS
    Accounts,  (* accounts the user may connect                             *)
    Requests,  (* requests that may be under way at once                    *)
    MaxArns,   (* secrets that are ever created; an ARN is their number     *)
    None

VARIABLES
    row,      (* the columns of projects                                    *)
    secret,   (* the secret with the project's name                         *)
    arns,     (* secrets created so far                                     *)
    req,      (* the requests                                               *)
    suspect   (* history: a request met another, or was cut short after its
                 first write, and none has gone through undisturbed since    *)

stores == <<row, secret, arns>>
vars   == <<stores, req, suspect>>

NoSecret     == [arn |-> 0, key |-> None]
Unconnected  == [gcp_project_id |-> None, gcp_secret_arn |-> 0,
                 gcp_sa_email |-> None, gcp_connected_at |-> FALSE]
Idle         == [at |-> "idle", account |-> None, loaded |-> Unconnected,
                 arn |-> 0, crossed |-> FALSE]

Init ==
    /\ row = Unconnected /\ secret = NoSecret /\ arns = 0
    /\ req = [q \in Requests |-> Idle]
    /\ suspect = FALSE

-----------------------------------------------------------------------------
(* The steps of a request.  crossed says that another has changed the row or
   the secret since the request read the row.                              *)

At(q, at)   == req[q].at = at
Goes(q, me) == req' = [req EXCEPT ![q] = me]
Writes(q, me) ==
    LET changed == <<row, secret>>' # <<row, secret>> IN
    req' = [r \in Requests |->
              IF r = q THEN me
              ELSE [req[r] EXCEPT !.crossed = @ \/ (changed /\ ~At(r, "idle"))]]

(* project = db.query(Project)...first() of either request.                *)
Reads(q, me) ==
    /\ At(q, "idle")
    /\ Goes(q, [me EXCEPT !.loaded = row])
    /\ UNCHANGED <<stores, suspect>>

ConnectReads(q) ==
    \E a \in Accounts : Reads(q, [Idle EXCEPT !.at = "connect", !.account = a])
DisconnectReads(q) == Reads(q, [Idle EXCEPT !.at = "disconnect"])

(* After the key was found valid and the registry made, in minutes.         *)
Stores(q) ==
    /\ UNCHANGED <<row, suspect>>
    /\ Writes(q, [req[q] EXCEPT !.at = "stored", !.arn = secret'.arn])
PutSecretValue(q) ==
    /\ At(q, "connect") /\ secret # NoSecret
    /\ secret' = [secret EXCEPT !.key = req[q].account]
    /\ Stores(q)
    /\ UNCHANGED arns
SecretNotFound(q) ==
    /\ At(q, "connect") /\ secret = NoSecret
    /\ Goes(q, [req[q] EXCEPT !.at = "missing"])
    /\ UNCHANGED <<stores, suspect>>
(* The name must be free: a request that has created it meanwhile makes this
   one fail.                                                               *)
CreateSecret(q) ==
    /\ At(q, "missing") /\ secret = NoSecret
    /\ arns < MaxArns
    /\ arns' = arns + 1
    /\ secret' = [arn |-> arns', key |-> req[q].account]
    /\ Stores(q)

(* What an UPDATE leaves out.  The time of a connection is always a new one. *)
Omitted(loaded, columns) ==
    {c \in DOMAIN columns : columns[c] = loaded[c]}
        \ {c \in {"gcp_connected_at"} : columns[c]}
Commits(q, columns) ==
    /\ row' = [c \in DOMAIN row |-> IF c \in Omitted(req[q].loaded, columns)
                                    THEN row[c] ELSE columns[c]]
    /\ UNCHANGED <<secret, arns>>
    /\ Writes(q, Idle)
    /\ suspect' = req[q].crossed

(* Mutant: an ARN that is there is kept.                                    *)
connect_gcp_KeepsArn(q) ==
    /\ At(q, "stored")
    /\ Commits(q, [gcp_project_id   |-> req[q].account,
                   gcp_secret_arn   |-> IF req[q].loaded.gcp_secret_arn = 0 THEN req[q].arn
                                        ELSE req[q].loaded.gcp_secret_arn,
                   gcp_sa_email     |-> req[q].account,
                   gcp_connected_at |-> TRUE])
connect_gcp(q) ==
    /\ At(q, "stored")
    /\ Commits(q, [gcp_project_id   |-> req[q].account,
                   gcp_secret_arn   |-> req[q].arn,
                   gcp_sa_email     |-> req[q].account,
                   gcp_connected_at |-> TRUE])

(* Only the secret with the ARN that was loaded is deleted; that there is no
   such secret, and any other failure, is ignored.                          *)
DeleteSecret(q) ==
    /\ At(q, "disconnect")
    /\ \/ UNCHANGED secret
       \/ /\ req[q].loaded.gcp_secret_arn = secret.arn
          /\ secret' = NoSecret
    /\ UNCHANGED <<row, arns, suspect>>
    /\ Writes(q, [req[q] EXCEPT !.at = "deleted"])
disconnect_gcp(q) ==
    /\ At(q, "deleted")
    /\ Commits(q, Unconnected)

(* A key that is refused, a call or a commit that raises, or the end of the
   process, after any step.                                                *)
CutShort(q) ==
    /\ ~At(q, "idle")
    /\ Goes(q, Idle)
    /\ suspect' = (suspect \/ At(q, "stored") \/ At(q, "deleted"))
    /\ UNCHANGED stores

-----------------------------------------------------------------------------
Request(q) ==
    \/ ConnectReads(q) \/ PutSecretValue(q) \/ SecretNotFound(q) \/ CreateSecret(q)
    \/ connect_gcp(q)
    \/ DisconnectReads(q) \/ DeleteSecret(q) \/ disconnect_gcp(q)
    \/ CutShort(q)

Next == \E q \in Requests : Request(q)

Spec == Init /\ [][Next]_vars

-----------------------------------------------------------------------------
(* Properties *)

BetweenWrites == \E q \in Requests : At(q, "stored") \/ At(q, "deleted")

(* gcp_connect.py: whatever requests that overlapped, failed half way or could
   not delete a secret have left behind, the next that goes through undisturbed
   puts right.  A project that says it is connected (to the page, by the time
   of the connection) then names a secret that exists, with the key of the
   account its other columns name; one that does not has all four columns
   empty, so that a sync, which looks at another of them, is refused as well. *)
KeyOfTheAccount ==
    ~suspect /\ ~BetweenWrites =>
        \/ row = Unconnected
        \/ /\ row.gcp_connected_at
           /\ secret # NoSecret /\ row.gcp_secret_arn = secret.arn
           /\ {row.gcp_project_id, row.gcp_sa_email} = {secret.key}
=============================================================================
