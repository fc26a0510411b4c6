------------------------------ MODULE Onboarding ------------------------------
(***************************************************************************)
(* Becoming a customer, in one browser tab: the sign-up, login, account    *)
(* and onboarding pages (frontend/app/(auth), frontend/app/onboarding) and *)
(* the handlers they call (api/auth.py, accounts.py, onboarding.py).       *)
(*                                                                         *)
(* The onboarding page polls every three seconds whether or not the last   *)
(* poll was answered, so a poll may be answered after its interval was     *)
(* cleared.  The handler of a confirm tests the scan and deletes it later, *)
(* so two confirms may both pass.  A request of a page that was left goes  *)
(* on in the backend; its answer reaches nobody.                           *)
(*                                                                         *)
(* `page' is the mounted page.  A session may expire at any time: the next *)
(* request then gets 401 and the tab is sent to the login page.  The       *)
(* redirects 1.5 s after a success happen while the page is mounted.       *)
(***************************************************************************)
EXTENDS Naturals, FiniteSets

CONSTANTS Scans,     \* the onboarding scans that may be started
          Confirms,  \* confirm requests that may be in flight at once
          Polls,     \* polls that may be in flight at once
          None,
          Confirmed  \* as `newest': a project that a confirm has created

ASSUME OnboardingAssumption == None \notin Scans /\ Confirmed \notin Scans

VARIABLES signedUp,    \* Cognito has the user
          token,       \* the access token in localStorage is there and valid
          account,     \* a connected row in aws_accounts
          scans,       \* onboarding_scans.status
          registered,  \* how often the groups of a scan were made projects
          newest,      \* what the newest onboarding project of the account is
          confirms,    \* confirm requests in flight
          late,        \* a poll was answered after its interval was cleared
          page         \* the mounted page

db == <<account, scans, registered, newest>>
onboardingVars == <<signedUp, token, db, confirms, late, page>>

NoConfirm == [scan |-> None, at |-> "idle", live |-> FALSE]
NoPoll    == [seen |-> "idle", old |-> FALSE]

LandingPage == [name |-> "landing"]
LoginPage   == [name |-> "login", isSubmitting |-> FALSE]
SignupPage  == [name |-> "signup", isSubmitting |-> FALSE]
ConnectPage == [name |-> "connect", userId |-> FALSE, status |-> "idle",
                leaving |-> FALSE]
OnboardingPage == [name |-> "onboarding", accountId |-> FALSE, starting |-> FALSE,
                   scanId |-> None, status |-> "idle", interval |-> FALSE,
                   polls |-> [p \in Polls |-> NoPoll], leaving |-> FALSE]
DashboardPage == [name |-> "dashboard"]

On(name) == page.name = name

OnboardingInit ==
    /\ signedUp = FALSE /\ token = FALSE /\ account = FALSE
    /\ scans = [s \in Scans |-> "absent"]
    /\ registered = [s \in Scans |-> 0]
    /\ newest = None
    /\ confirms = [c \in Confirms |-> NoConfirm]
    /\ late = FALSE
    /\ page = LandingPage

(* Requests of a page that is left are no longer waited for.               *)
Abandoned(c) == [c EXCEPT !.live = FALSE]
Mount(p) ==
    /\ page' = p
    /\ confirms' = [c \in Confirms |->
                      IF confirms[c].live THEN Abandoned(confirms[c]) ELSE confirms[c]]

-----------------------------------------------------------------------------
(* Landing, login and sign-up.                                             *)

StartFree == On("landing") /\ \E p \in {LoginPage, SignupPage} : page' = p
SwitchForm ==
    \/ On("login") /\ page' = SignupPage
    \/ On("signup") /\ page' = LoginPage

LoginForm  == On("login") /\ ~page.isSubmitting
SignupForm == On("signup") /\ ~page.isSubmitting
Submit == (LoginForm \/ SignupForm) /\ page' = [page EXCEPT !.isSubmitting = TRUE]
SubmitFails == [page EXCEPT !.isSubmitting = FALSE]

(* login: the answer says whether an account is connected, and decides     *)
(* where the page goes.  A wrong password is a 401 as well, so the response *)
(* interceptor loads the login page afresh.                                *)
setAuth == token' = TRUE
LoginAnswered ==
    /\ On("login") /\ page.isSubmitting
    /\ \/ signedUp /\ setAuth
          /\ page' = IF account THEN DashboardPage ELSE ConnectPage
       \/ token' = FALSE /\ page' = LoginPage
       \/ UNCHANGED token /\ page' = SubmitFails

SignupAnswered ==
    /\ On("signup") /\ page.isSubmitting
    /\ \/ ~signedUp /\ signedUp' = TRUE /\ page' = LoginPage
       \/ signedUp' \in {signedUp, TRUE} /\ page' = SubmitFails

Enter ==
    \/ StartFree /\ UNCHANGED <<signedUp, token>>
    \/ SwitchForm /\ UNCHANGED <<signedUp, token>>
    \/ Submit /\ UNCHANGED <<signedUp, token>>
    \/ LoginAnswered /\ UNCHANGED signedUp
    \/ SignupAnswered /\ UNCHANGED token

-----------------------------------------------------------------------------
(* Connecting an AWS account.                                              *)

UserLoaded == On("connect") /\ ~page.userId /\ page' = [page EXCEPT !.userId = TRUE]

ConnectButton == On("connect") /\ page.status # "verifying"
handleConnect == ConnectButton /\ page' = [page EXCEPT !.status = "verifying"]

(* connect_account: one connected row per AWS account, else 409.           *)
connect_account ==
    /\ On("connect") /\ page.status = "verifying"
    /\ IF account THEN page' = [page EXCEPT !.status = "error"] /\ UNCHANGED account
                  ELSE account' = TRUE
                       /\ page' = [page EXCEPT !.status = "success", !.leaving = TRUE]
ConnectFails ==
    /\ On("connect") /\ page.status = "verifying"
    /\ account' \in {account, TRUE}
    /\ page' = [page EXCEPT !.status = "error"]

Connect ==
    \/ UserLoaded /\ token /\ UNCHANGED account
    \/ handleConnect /\ UNCHANGED account
    \/ connect_account /\ token
    \/ ConnectFails /\ token

-----------------------------------------------------------------------------
(* The onboarding page.                                                    *)

AccountsAnswered ==
    On("onboarding") /\ ~page.accountId /\ account /\ page' = [page EXCEPT !.accountId = TRUE]

ScanPanel == On("onboarding") /\ page.status = "idle"
handleStartScan ==
    /\ ScanPanel /\ page.accountId
    /\ page' = [page EXCEPT !.status = "scanning", !.starting = TRUE]

start_onboard(s) ==
    /\ scans[s] = "absent"
    /\ scans' = [scans EXCEPT ![s] = "scanning"]
    /\ newest' = s
StartAnswered_KeepsScanId(s) ==
    /\ On("onboarding") /\ page.starting
    /\ start_onboard(s)
    /\ page' = [page EXCEPT !.starting = FALSE, !.interval = TRUE]
StartAnswered(s) ==
    /\ On("onboarding") /\ page.starting
    /\ start_onboard(s)
    /\ page' = [page EXCEPT !.starting = FALSE, !.scanId = s, !.interval = TRUE]
StartFails ==
    /\ On("onboarding") /\ page.starting
    /\ UNCHANGED <<scans, newest>> \/ \E s \in Scans : start_onboard(s)
    /\ page' = [page EXCEPT !.starting = FALSE, !.status = "failed"]

ScanningNote == On("onboarding") /\ page.status = "scanning"
pollStatus(p) ==
    /\ On("onboarding") /\ page.interval /\ page.polls[p] = NoPoll
    /\ page' = [page EXCEPT !.polls[p].seen = "asked"]

(* get_onboard_status: the scan of the newest onboarding project of the    *)
(* account, which after a confirm is one that the confirm has created.     *)
get_onboard_status ==
    IF newest = Confirmed THEN "completed"
    ELSE IF newest = None THEN "error" ELSE scans[newest]
PollServed(p) ==
    /\ On("onboarding") /\ page.polls[p].seen = "asked"
    /\ page' = [page EXCEPT !.polls[p].seen = get_onboard_status]

(* clearInterval: the polls of that interval that are still out turn old.  *)
Without(p) == [page.polls EXCEPT ![p] = NoPoll]
clearInterval(p) ==
    IF page.polls[p].old THEN [page EXCEPT !.polls = Without(p)]
    ELSE [page EXCEPT !.interval = FALSE,
                      !.polls = [q \in Polls |->
                          IF Without(p)[q] = NoPoll THEN NoPoll
                          ELSE [Without(p)[q] EXCEPT !.old = TRUE]]]
PollAnswered(p) ==
    /\ On("onboarding") /\ page.polls[p].seen \notin {"idle", "asked"}
    /\ late' = (late \/ page.polls[p].old)
    /\ page' = CASE page.polls[p].seen \in {"pending_confirm", "failed"} ->
                        [clearInterval(p) EXCEPT !.status = page.polls[p].seen]
                 [] page.polls[p].seen = "error" -> clearInterval(p)
                 [] OTHER -> [page EXCEPT !.polls = Without(p)]
PollFails(p) ==
    /\ On("onboarding") /\ page.polls[p].seen = "asked"
    /\ page' = clearInterval(p)

ConfirmPanel_WhileConfirming ==
    On("onboarding") /\ page.status \in {"pending_confirm", "confirming"}
ConfirmPanel == On("onboarding") /\ page.status = "pending_confirm"
handleConfirm(c) ==
    /\ ConfirmPanel /\ confirms[c] = NoConfirm
    /\ page' = [page EXCEPT !.status = "confirming"]
    /\ confirms' = [confirms EXCEPT ![c] = [scan |-> page.scanId, at |-> "sent", live |-> TRUE]]

(* The answer of a confirm, where its page still waits for it.             *)
ConfirmAnswer(c, status) ==
    /\ confirms' = [confirms EXCEPT ![c] = NoConfirm]
    /\ page' = IF ~confirms[c].live THEN page
               ELSE [page EXCEPT !.status = status, !.leaving = @ \/ status = "completed"]

ConfirmRead(c) ==
    /\ confirms[c].at = "sent"
    /\ IF scans[confirms[c].scan] = "pending_confirm"
       THEN confirms' = [confirms EXCEPT ![c].at = "checked"] /\ UNCHANGED page
       ELSE ConfirmAnswer(c, "failed")
    /\ UNCHANGED db
confirm_onboard(c) ==
    /\ confirms[c].at = "checked"
    /\ scans' = [scans EXCEPT ![confirms[c].scan] = "gone"]
    /\ registered' = [registered EXCEPT ![confirms[c].scan] = @ + 1]
    /\ newest' = Confirmed
    /\ UNCHANGED account
    /\ \E status \in {"completed", "failed"} : ConfirmAnswer(c, status)
ConfirmFails(c) == confirms[c].at # "idle" /\ ConfirmAnswer(c, "failed") /\ UNCHANGED db

CompletedNote == page.name \in {"connect", "onboarding"} /\ page.leaving
FailedPanel   == On("onboarding") /\ page.status = "failed"
TryAgain == FailedPanel /\ page' = [page EXCEPT !.status = "idle"]

Onboard ==
    \/ /\ \/ AccountsAnswered /\ token
          \/ handleStartScan
          \/ TryAgain
          \/ \E p \in Polls : pollStatus(p) \/ (PollServed(p) /\ token) \/ PollFails(p)
       /\ UNCHANGED <<db, confirms, late>>
    \/ /\ StartFails \/ \E s \in Scans : StartAnswered(s)
       /\ token
       /\ UNCHANGED <<account, registered, confirms, late>>
    \/ \E p \in Polls : PollAnswered(p) /\ UNCHANGED <<db, confirms>>
    \/ \E c \in Confirms :
          \/ handleConfirm(c) /\ UNCHANGED <<db, late>>
          \/ ConfirmRead(c) /\ token /\ UNCHANGED late
          \/ (confirm_onboard(c) \/ ConfirmFails(c)) /\ UNCHANGED late

(* _run_scan: a background task; a restart of the backend loses it and the *)
(* scan stays as it is.                                                    *)
_run_scan ==
    /\ \E s \in Scans, status \in {"pending_confirm", "failed"} :
          scans[s] = "scanning" /\ scans' = [scans EXCEPT ![s] = status]
    /\ UNCHANGED <<account, registered, newest, confirms, late, page>>

-----------------------------------------------------------------------------
(* Moving about.                                                           *)

Redirect == CompletedNote /\ Mount(DashboardPage)
Visit == page.name # "landing" /\ \E p \in {DashboardPage, ConnectPage, OnboardingPage} : Mount(p)

(* The response interceptor: a session has expired by the time a request of *)
(* the page is looked at, which gets 401.                                  *)
Asks ==
    \/ On("connect") /\ (~page.userId \/ page.status = "verifying")
    \/ On("onboarding") /\ \/ ~page.accountId \/ page.starting \/ page.status = "confirming"
                           \/ \E p \in Polls : page.polls[p].seen = "asked"
Unauthorized == Asks /\ token' = FALSE /\ Mount(LoginPage)

Move ==
    /\ ((Redirect \/ Visit) /\ UNCHANGED token) \/ Unauthorized
    /\ UNCHANGED <<signedUp, db, late>>

OnboardingNext ==
    \/ Enter /\ UNCHANGED <<db, confirms, late>>
    \/ Connect /\ UNCHANGED <<signedUp, token, scans, registered, newest, confirms, late>>
    \/ Onboard /\ UNCHANGED <<signedUp, token>>
    \/ _run_scan /\ UNCHANGED <<signedUp, token>>
    \/ Move

-----------------------------------------------------------------------------
(* onboarding.py:155, "no scan to confirm": what a scan found is registered
   as projects once, although a confirm tests the scan and deletes it in two
   steps: a page that is confirming shows no button.  A poll answered after
   its interval was cleared brings the button back while the confirm is out. *)
ConfirmedOnce == \A s \in Scans : registered[s] > 1 => late
=============================================================================
