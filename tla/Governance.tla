------------------------------ MODULE Governance ------------------------------
(***************************************************************************)
(* The governance pages of an onboarded project (the hub, its metrics      *)
(* panel, the drift page and the audit page under                          *)
(* frontend/app/projects/[id]), with the drift worker, the drift decisions *)
(* and the rescan of the backend, after the journey of Onboarding.         *)
(*                                                                         *)
(* The pages read lists again and again: when they are opened, after every *)
(* decision, when a timer fires, when a filter changes.  An answer         *)
(* overwrites what is shown, whichever request it belongs to, so what is   *)
(* shown in the end depends on the order of the answers.  A read is sent,  *)
(* looks at the database later, and is answered later still.               *)
(*                                                                         *)
(* The pages also open /ws/events/{project} and wait for drift_detected;   *)
(* without a deployment_id the server answers with an error and closes, so *)
(* no list is ever refreshed that way and the socket is left out.          *)
(*                                                                         *)
(* The metrics panel is mounted on the hub and shares nothing with it but  *)
(* the project's id; it is a page of its own here.                         *)
(***************************************************************************)
EXTENDS Onboarding, Sequences, SequencesExt

CONSTANTS Events,      \* rows of drift_events
          Critical,    \* those of severity CRITICAL
          Decisions,   \* the decision requests that are made
          Layers,      \* filters of the audit page
          Periods,     \* periods of the metrics panel
          MaxReads,    \* reads of a page that may be in flight at once
          MaxChanges   \* changes of a resource that AWS Config reports

(* The pages open with the filter "all" and the period "1h", and read at once. *)
ASSUME GovernanceAssumption ==
    /\ Critical \subseteq Events
    /\ IsFiniteSet(Events) /\ IsFiniteSet(Confirms)
    /\ MaxReads \in Nat \ {0} /\ MaxChanges \in Nat
    /\ "all" \in Layers /\ "1h" \in Periods

VARIABLES event,      \* drift_events.status
          audit,      \* the actions in the audit log, per drift event
          queue,      \* messages in the drift queue
          todo,       \* baselines the worker has still to compare with
          changes,    \* changes reported so far
          decisions   \* the decision requests

drift == <<event, audit>>
worker == <<queue, todo, changes>>
governance == <<drift, worker, decisions>>
vars == <<onboardingVars, governance>>

NoDecision == [event |-> None, to |-> None, live |-> FALSE]
Over       == [NoDecision EXCEPT !.to = "over"]
Unserved   == [e \in Events |-> None]
NoEvents   == [e \in Events |-> "absent"]
Severities == {"all", "CRITICAL"}

Read(why) == [why |-> why, seen |-> Unserved]

GovernancePage == [name |-> "hub", loaded |-> FALSE, shown |-> NoEvents, actionId |-> None,
                   filter |-> "all", regenerating |-> FALSE, reads |-> <<Read("open")>>,
                   slipped |-> FALSE]
DriftPage == [GovernancePage EXCEPT !.name = "drift"]
ChoicePage(name, choice) ==
    [name |-> name, choice |-> choice, shown |-> None, loading |-> TRUE, scanning |-> None,
     reads |-> <<choice>>, slipped |-> FALSE]
AuditLogPage == ChoicePage("audit", "all")
InfraMetrics == ChoicePage("metrics", "1h")

OnEvents == page.name \in {"hub", "drift"}
OnChoice == page.name \in {"audit", "metrics"}

GovernanceInit ==
    /\ OnboardingInit
    /\ event = NoEvents
    /\ audit = [e \in Events |-> {}]
    /\ queue = 0 /\ todo = 0 /\ changes = 0
    /\ decisions = [d \in Decisions |-> NoDecision]

-----------------------------------------------------------------------------
(* The drift worker.                                                       *)

Registered == \E s \in Scans : registered[s] > 0

(* AWS Config reports a change of the resource (external).                 *)
ConfigChange ==
    /\ Registered /\ changes < MaxChanges
    /\ changes' = changes + 1 /\ queue' = queue + 1
    /\ UNCHANGED <<todo, event>>

(* How many baselines of the resource there are: what a confirm registered  *)
(* and what the last detection of CraftOps wrote, if any.  A detection      *)
(* (_run_detect_all) deletes its own first and writes them anew in a later  *)
(* transaction, so that a message may find any part of them.               *)
Baselines == 0..2

(* _poll_drift_sqs takes a message and compares with every baseline there  *)
(* is; a resource without a baseline is taken for a new one and ignored.   *)
_poll_drift_sqs ==
    /\ queue > 0 /\ todo = 0
    /\ queue' = queue - 1 /\ todo' \in Baselines
    /\ UNCHANGED <<changes, event>>

(* process_drift_event: one event and one commit per baseline that differs. *)
process_drift_event ==
    /\ todo > 0 /\ todo' = todo - 1
    /\ \/ \E e \in Events : event[e] = "absent"
                            /\ event' = [event EXCEPT ![e] = "detected"]
       \/ UNCHANGED event
    /\ UNCHANGED <<queue, changes>>

(* An exception ends the comparison; the message is deleted all the same.  *)
ComparisonFails == todo > 0 /\ todo' = 0 /\ UNCHANGED <<queue, changes, event>>

(* The backend stops before the message is deleted: it comes again.        *)
MessageComesAgain ==
    todo > 0 /\ todo' = 0 /\ queue' = queue + 1 /\ UNCHANGED <<changes, event>>

Worker == ConfigChange \/ _poll_drift_sqs \/ process_drift_event \/ ComparisonFails
          \/ MessageComesAgain

-----------------------------------------------------------------------------
(* The hub and the drift page.                                             *)

(* The tab turns to the project when the account's scans are all done (a    *)
(* bound: the project's pages share nothing with a scan that is under way). *)
Rest ==
    /\ \A s \in Scans : scans[s] \in {"failed", "gone"}
    /\ \A c \in Confirms : confirms[c] = NoConfirm
    /\ ~late

HubLinks == {"hub", "drift", "audit", "metrics"}
OpenProject ==
    /\ Registered /\ Rest
    /\ page.name \in HubLinks \cup {"dashboard"}
    /\ page' \in {GovernancePage, DriftPage, AuditLogPage, InfraMetrics}
    /\ decisions' = [d \in Decisions |-> [decisions[d] EXCEPT !.live = FALSE]]
    /\ UNCHANGED confirms

ListedOnHub(e)  == On("hub") /\ page.shown[e] = "detected"
ListedOnPage(e) == On("drift") /\ page.shown[e] = "detected"
                   /\ (page.filter = "all" \/ e \in Critical)
SetFilter(f) == On("drift") /\ page.filter # f /\ page' = [page EXCEPT !.filter = f]

(* Both handlers: one actionId, of the decision made last.                 *)
Decide(d, e, to) ==
    /\ ListedOnHub(e) \/ ListedOnPage(e)
    /\ page.actionId # e
    /\ decisions[d] = NoDecision
    /\ decisions' = [decisions EXCEPT ![d] = [event |-> e, to |-> to, live |-> TRUE]]
    /\ page' = [page EXCEPT !.actionId = e]
    /\ UNCHANGED drift
handleApprove(d, e) == Decide(d, e, "accepted")
handleReject(d, e)  == Decide(d, e, "guided")

Room == Len(page.reads) < MaxReads
Refetch_Nothing(p, why) == p
Refetch(p, why) == [p EXCEPT !.reads = Append(@, Read(why))]

(* approve and reject: neither looks at the status of the event.           *)
approve_drift(e) ==
    /\ event' = [event EXCEPT ![e] = "accepted"]
    /\ audit' = [audit EXCEPT ![e] = @ \cup {"drift_approve"}]
reject_drift(e) ==
    /\ event' = [event EXCEPT ![e] = "guided"]
    /\ audit' = [audit EXCEPT ![e] = @ \cup {"drift_reject"}]
DecisionMade(d) ==
    LET e == decisions[d].event
    IN  \/ decisions[d].to = "accepted" /\ approve_drift(e)
        \/ decisions[d].to = "guided" /\ reject_drift(e)

(* A page that may have been misled, by an answer that overtook another, a
   read or a decision that failed, a decision made from a page that was left,
   or the timer of a rescan.                                               *)
Slip(p) == [p EXCEPT !.slipped = TRUE]
Finally(p) == [p EXCEPT !.actionId = None]

(* The decision is answered and the handler fetches everything again.      *)
DecisionServed(d) ==
    /\ decisions[d].event # None
    /\ DecisionMade(d)
    /\ decisions' = [decisions EXCEPT ![d] = Over]
    /\ IF decisions[d].live THEN Room /\ page' = Refetch(page, "decision")
       ELSE page' = IF OnEvents THEN Slip(page) ELSE page

(* Its answer is lost, whether it was made or not: nothing is fetched.     *)
DecisionFails(d) ==
    /\ decisions[d].event # None
    /\ DecisionMade(d) \/ UNCHANGED drift
    /\ decisions' = [decisions EXCEPT ![d] = Over]
    /\ page' = IF decisions[d].live THEN Slip(Finally(page))
               ELSE IF OnEvents THEN Slip(page) ELSE page

RegenButton == On("hub") /\ page.loaded /\ ~page.regenerating
handleRegenDiagram == RegenButton /\ page' = [page EXCEPT !.regenerating = TRUE]
RegenFails  == On("hub") /\ page.regenerating /\ page' = [page EXCEPT !.regenerating = FALSE]
RegenTimer  == On("hub") /\ page.regenerating /\ Room
               /\ page' = [Refetch(page, "timer") EXCEPT !.regenerating = FALSE]

(* An answer that is not that of the oldest read has overtaken another.    *)
Overtakes(p, k) == IF k = 1 THEN p ELSE Slip(p)
Taken(p, k) == [p EXCEPT !.reads = RemoveAt(@, k)]
Settle(k) == IF page.reads[k].why = "decision" THEN Finally(page) ELSE page

FetchServed(k) ==
    page.reads[k].seen = Unserved /\ page' = [page EXCEPT !.reads[k].seen = event]
(* fetchAll and fetchEvents: the answer replaces the list.                 *)
fetchAll(k) ==
    /\ page.reads[k].seen # Unserved
    /\ page' = [Taken(Overtakes(Settle(k), k), k) EXCEPT
                  !.shown = page.reads[k].seen, !.loaded = TRUE]
FetchFails(k) == page' = Taken(Slip(Settle(k)), k)

totalDriftAll == Cardinality({e \in Events : page.shown[e] = "detected"})

EventPages ==
    \/ \E d \in Decisions, e \in Events : handleApprove(d, e) \/ handleReject(d, e)
    \/ \E d \in Decisions : token /\ (DecisionServed(d) \/ DecisionFails(d))
    \/ /\ \/ handleRegenDiagram \/ RegenFails \/ RegenTimer
          \/ \E f \in Severities : SetFilter(f)
          \/ OnEvents /\ \E k \in DOMAIN page.reads :
                (token /\ FetchServed(k)) \/ fetchAll(k) \/ FetchFails(k)
       /\ UNCHANGED <<drift, decisions>>

-----------------------------------------------------------------------------
(* The audit page and the metrics panel: a choice, and a list fetched for   *)
(* it.  The first answer to arrive ends "loading".                         *)

Fetch(p, choice) == [p EXCEPT !.reads = Append(@, choice), !.loading = TRUE]
Choose(choices, choice) ==
    /\ choice \in choices /\ choice # page.choice /\ Room
    /\ page' = Fetch([page EXCEPT !.choice = choice], choice)
SetLayer(l)  == On("audit") /\ Choose(Layers, l)
SetPeriod(p) == On("metrics") /\ Choose(Periods, p)
Refresh == On("metrics") /\ ~page.loading /\ Room /\ page' = Fetch(page, page.choice)

(* What is drawn: the log hides while it loads, the charts do not.         *)
LogList == IF page.loading THEN None ELSE page.shown
Charts == page.shown

Answered(k) == [Taken(page, k) EXCEPT !.loading = FALSE]
listAnswered(k) == page' = [Overtakes(Answered(k), k) EXCEPT !.shown = page.reads[k]]
ListFails(k)    == page' = Slip(Answered(k))

RescanButton == On("metrics") /\ page.scanning = None
(* handleRescan: its timer fetches the period of the moment it was pressed. *)
handleRescan ==
    /\ RescanButton
    /\ page' = [page EXCEPT !.scanning = page.choice]
RescanTimer ==
    /\ On("metrics") /\ page.scanning # None /\ Room
    /\ page' = [Fetch(IF page.scanning = page.choice THEN page ELSE Slip(page),
                      page.scanning) EXCEPT !.scanning = None]

ChoicePages ==
    \/ \E l \in Layers : SetLayer(l)
    \/ \E p \in Periods : SetPeriod(p)
    \/ Refresh \/ (handleRescan /\ token) \/ RescanTimer
    \/ OnChoice /\ \E k \in DOMAIN page.reads : (token /\ listAnswered(k)) \/ ListFails(k)

-----------------------------------------------------------------------------
HubAsks == \/ (OnEvents \/ OnChoice) /\ page.reads # <<>>
           \/ \E d \in Decisions : decisions[d].live
HubUnauthorized ==
    /\ HubAsks
    /\ token' = FALSE
    /\ page' = LoginPage
    /\ decisions' = [d \in Decisions |-> [decisions[d] EXCEPT !.live = FALSE]]
    /\ UNCHANGED confirms

(* Onboarding's steps, with the decisions of a page that is left let go.   *)
Journey ==
    /\ OnboardingNext
    /\ decisions' = IF page'.name \in HubLinks THEN decisions
                    ELSE [d \in Decisions |-> [decisions[d] EXCEPT !.live = FALSE]]
    /\ UNCHANGED <<drift, worker>>

GovernanceNext ==
    \/ Journey
    \/ /\ Worker
       /\ UNCHANGED <<onboardingVars, audit, decisions>>
    \/ /\ (OpenProject /\ UNCHANGED token) \/ HubUnauthorized
       /\ UNCHANGED <<signedUp, db, late, drift, worker>>
    \/ /\ EventPages
       /\ UNCHANGED <<signedUp, token, db, confirms, late, worker>>
    \/ /\ ChoicePages
       /\ UNCHANGED <<signedUp, token, db, confirms, late, drift, worker, decisions>>

GovernanceSpec == GovernanceInit /\ [][GovernanceNext]_vars

-----------------------------------------------------------------------------
Statuses == {"absent", "detected", "accepted", "guided"}

PageOK ==
    CASE OnEvents -> /\ page.shown \in [Events -> Statuses]
                     /\ page.actionId \in Events \cup {None}
                     /\ Len(page.reads) <= MaxReads
      [] OnChoice -> /\ page.choice \in Layers \cup Periods
                     /\ page.scanning \in Periods \cup {None}
                     /\ Len(page.reads) <= MaxReads
      [] On("onboarding") -> /\ page.scanId \in Scans \cup {None}
                             /\ page.interval => page.scanId # None
      [] OTHER -> TRUE

(* Every variable has its type; a confirm in flight names a scan.          *)
GovernanceTypeOK ==
    /\ {signedUp, token, account, late} \subseteq BOOLEAN
    /\ scans \in [Scans -> {"absent", "scanning", "pending_confirm", "failed", "gone"}]
    /\ registered \in [Scans -> 0..Cardinality(Confirms)]
    /\ newest \in Scans \cup {None, Confirmed}
    /\ \A c \in Confirms : confirms[c] = NoConfirm \/ confirms[c].scan \in Scans
    /\ event \in [Events -> Statuses]
    /\ audit \in [Events -> SUBSET {"drift_approve", "drift_reject"}]
    /\ todo \in Baselines
    /\ queue \in 0..MaxChanges /\ changes \in 0..MaxChanges
    /\ \A d \in Decisions : decisions[d] \in {NoDecision, Over} \/ decisions[d].event \in Events
    /\ PageOK

Settled == page.reads = <<>> /\ ~\E d \in Decisions : decisions[d].live

(* fetchAll, fetchEvents, the effects of the audit page and of InfraMetrics:
   once a page waits for nothing, what it shows is current.  Every event it
   shows has the status of the database, so a decided one is not offered for
   decision again, and the list is that of the filter that is selected.  What
   can mislead a page is only an answer that overtook another, a failed read
   or decision, a decision made from a page that was left, and the timer of a
   rescan, which fetches the period of half a minute ago.                  *)
ShownIsCurrent ==
    /\ OnEvents /\ Settled /\ ~page.slipped =>
          /\ \A e \in Events : page.shown[e] \in {"absent", event[e]}
          /\ totalDriftAll <= Cardinality({e \in Events : event[e] = "detected"})
    /\ On("audit") /\ page.reads = <<>> /\ ~page.slipped => LogList = page.choice
    /\ On("metrics") /\ page.reads = <<>> /\ ~page.slipped => Charts = page.choice
=============================================================================
