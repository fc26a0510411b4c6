--------------------------- MODULE GovernanceProofs ---------------------------
(* Proofs about the onboarding and about the pages of a project, for any number
   of scans, polls, confirms, events, decisions and reads that are out: that
   what a scan found is registered once, that every page has its type, and that
   a page that waits for nothing shows what is so.                         *)
EXTENDS Governance, SequenceTheorems, FiniteSetTheorems, TLAPS

-----------------------------------------------------------------------------
(* The inductive invariant.  It is claimed until a poll is answered late, and
   as that is never forgotten, a step from or to such a state needs nothing. *)

ScanStatus == {"absent", "scanning", "pending_confirm", "failed", "gone"}
PollSeen   == {"idle", "asked", "error", "completed"} \cup ScanStatus

OnboardingPages ==
    [name : {"onboarding"}, accountId : BOOLEAN, starting : BOOLEAN,
     scanId : Scans \cup {None},
     status : {"idle", "scanning", "pending_confirm", "confirming", "completed", "failed"},
     interval : BOOLEAN, polls : [Polls -> [seen : PollSeen, old : BOOLEAN]],
     leaving : BOOLEAN]

(* What is needed of the other pages: that they have a name of their own.  *)
Named(p) == "name" \in DOMAIN p /\ p.name # "onboarding"

Shape ==
    /\ page \in OnboardingPages \/ Named(page)
    /\ scans \in [Scans -> ScanStatus]
    /\ registered \in [Scans -> Nat]
    /\ newest \in Scans \cup {None, Confirmed}
    /\ confirms \in [Confirms -> [scan : Scans \cup {None}, live : BOOLEAN,
                                  at : {"idle", "sent", "checked"}]]
    /\ \A c \in Confirms : confirms[c].at # "idle" <=> confirms[c].scan \in Scans
    /\ decisions \in [Decisions -> [event : Events \cup {None}, live : BOOLEAN,
                                    to : {None, "over", "accepted", "guided"}]]

(* A poll that is not old has its interval, and who polls only scans.      *)
PollsFollow ==
    On("onboarding") =>
        /\ \A p \in Polls : page.polls[p] # NoPoll /\ ~page.polls[p].old => page.interval
        /\ page.interval => page.status = "scanning" /\ ~page.starting
        /\ page.starting => page.status = "scanning"

Unconfirmed(s) == registered[s] = 0 /\ \A c \in Confirms : confirms[c].scan # s

(* What a page polls for or offers to confirm, nobody has confirmed.       *)
OfferIsOpen ==
    On("onboarding") /\ (page.interval \/ page.status = "pending_confirm") =>
        /\ page.scanId \in Scans /\ scans[page.scanId] # "absent"
        /\ Unconfirmed(page.scanId)

(* Of every scan at most one confirm is out or done, and of an absent none. *)
OneConfirm ==
    /\ \A s \in Scans : /\ registered[s] <= 1
                        /\ scans[s] = "absent" => Unconfirmed(s)
    /\ \A c \in Confirms : confirms[c].scan \in Scans => registered[confirms[c].scan] = 0
    /\ \A c, d \in Confirms :
          confirms[c].scan \in Scans /\ confirms[c].scan = confirms[d].scan => c = d

(* A confirm or a decision is live only while its page waits for it.       *)
LiveOnPage ==
    /\ \A c \in Confirms : confirms[c].live =>
          On("onboarding") /\ page.status = "confirming"
    /\ \A c, d \in Confirms : confirms[c].live /\ confirms[d].live => c = d
    /\ \A d \in Decisions : decisions[d].live => page.name \in HubLinks

Good == Shape /\ PollsFollow /\ OfferIsOpen /\ OneConfirm /\ LiveOnPage
ConfirmInv == ~late => Good

-----------------------------------------------------------------------------
(* What the building blocks of the actions do.                             *)

ConfirmRecs == [scan : Scans \cup {None}, live : BOOLEAN, at : {"idle", "sent", "checked"}]

LEMMA NoConfirmEffect ==
    /\ NoConfirm \in ConfirmRecs /\ ~NoConfirm.live
    /\ NoConfirm.at = "idle" /\ NoConfirm.scan = None /\ None \notin Scans
BY OnboardingAssumption DEF NoConfirm, ConfirmRecs

LEMMA MountEffect ==
    ASSUME Shape, NEW p, Mount(p)
    PROVE  /\ page' = p
           /\ confirms' \in [Confirms -> ConfirmRecs]
           /\ \A c \in Confirms : /\ ~confirms'[c].live
                                  /\ confirms'[c].scan = confirms[c].scan
                                  /\ confirms'[c].at = confirms[c].at
<1>1. \A c \in Confirms : confirms[c] \in ConfirmRecs
      BY DEF Shape, ConfirmRecs
<1>2. DEFINE left(c) == [confirms[c] EXCEPT !.live = FALSE]
<1>3. \A c \in Confirms : /\ left(c) \in ConfirmRecs /\ ~left(c).live
                          /\ left(c).scan = confirms[c].scan
                          /\ left(c).at = confirms[c].at
      BY <1>1 DEF ConfirmRecs
<1>4. confirms' = [c \in Confirms |-> IF confirms[c].live THEN left(c) ELSE confirms[c]]
      BY DEF Mount, Abandoned
<1> HIDE DEF left
<1>5. page' = p
      BY DEF Mount
<1> QED BY <1>1, <1>3, <1>4, <1>5

(* The page of an answered confirm, if it still waits.                     *)
LEMMA ConfirmAnswerEffect ==
    ASSUME Shape, LiveOnPage, NEW c \in Confirms, NEW status \in {"completed", "failed"},
           ConfirmAnswer(c, status)
    PROVE  /\ confirms' \in [Confirms -> ConfirmRecs]
           /\ \A d \in Confirms : confirms'[d] = IF d = c THEN NoConfirm ELSE confirms[d]
           /\ ~confirms[c].live => page' = page
           /\ confirms[c].live => /\ page \in OnboardingPages /\ page' \in OnboardingPages
                                  /\ page.status = "confirming"
                                  /\ page'.status = status
                                  /\ page'.interval = page.interval
                                  /\ page'.starting = page.starting
                                  /\ page'.polls = page.polls
                                  /\ page'.name = "onboarding"
<1>1. confirms' = [confirms EXCEPT ![c] = NoConfirm] /\ confirms \in [Confirms -> ConfirmRecs]
      BY DEF ConfirmAnswer, Shape, ConfirmRecs
<1>2. ~confirms[c].live => page' = page
      BY DEF ConfirmAnswer
<1>3. ASSUME confirms[c].live
      PROVE  /\ page \in OnboardingPages /\ page' \in OnboardingPages
             /\ page.status = "confirming" /\ page'.status = status
             /\ page'.interval = page.interval /\ page'.starting = page.starting
             /\ page'.polls = page.polls /\ page'.name = "onboarding"
  <2>1. page \in OnboardingPages /\ page.status = "confirming"
        BY <1>3 DEF LiveOnPage, Shape, Named, On
  <2>2. DEFINE leaving == page.leaving \/ status = "completed"
  <2>3. leaving \in BOOLEAN
        OBVIOUS
  <2>4. page' = [page EXCEPT !.status = status, !.leaving = leaving]
        BY <1>3 DEF ConfirmAnswer
  <2> HIDE DEF leaving
  <2> QED BY <2>1, <2>3, <2>4 DEF OnboardingPages
<1> QED BY <1>1, <1>2, <1>3, NoConfirmEffect

-----------------------------------------------------------------------------
(* Steps that leave the onboarding page and the scans alone.               *)

scanning == <<scans, registered, newest, confirms>>

(* The page is another one, before and after, or it has not moved.         *)
Elsewhere == \/ UNCHANGED page
             \/ page.name # "onboarding" /\ Named(page')

(* The decisions in one piece. *)
DecisionsFollow ==
    /\ decisions \in [Decisions -> [event : Events \cup {None}, live : BOOLEAN,
                                    to : {None, "over", "accepted", "guided"}]]
    /\ \A d \in Decisions : decisions[d].live => page.name \in HubLinks

LEMMA ElsewhereGood ==
    ASSUME Good, UNCHANGED scanning, Elsewhere, DecisionsFollow'
    PROVE  Good'
<1>1. CASE UNCHANGED page
      BY <1>1 DEF Good, Shape, PollsFollow, OfferIsOpen, OneConfirm, LiveOnPage, On,
                  Unconfirmed, scanning, DecisionsFollow
<1>2. CASE page.name # "onboarding" /\ Named(page')
  <2>1. Shape' /\ OneConfirm'
        BY <1>2 DEF Good, Shape, OneConfirm, Unconfirmed, scanning, DecisionsFollow
  <2>2. PollsFollow' /\ OfferIsOpen'
        BY <1>2 DEF PollsFollow, OfferIsOpen, On, Named
  <2>3. \A c \in Confirms : ~confirms'[c].live
        BY <1>2 DEF Good, LiveOnPage, On, scanning
  <2>4. LiveOnPage'
        BY <2>3 DEF LiveOnPage, DecisionsFollow
  <2> QED BY <2>1, <2>2, <2>4 DEF Good
<1> QED BY <1>1, <1>2 DEF Elsewhere

(* A page that is opened starts from nothing, and waits for nothing.       *)
LEMMA MountGood ==
    ASSUME Good, NEW p \in {DashboardPage, ConnectPage, OnboardingPage, LoginPage},
           Mount(p), UNCHANGED <<scans, registered, newest>>, DecisionsFollow'
    PROVE  Good'
<1>1. /\ page' = p /\ confirms' \in [Confirms -> ConfirmRecs]
      /\ \A c \in Confirms : /\ ~confirms'[c].live
                             /\ confirms'[c].scan = confirms[c].scan
                             /\ confirms'[c].at = confirms[c].at
      BY MountEffect DEF Good
<1>2. p \in OnboardingPages \/ Named(p)
  <2>1. CASE p = OnboardingPage
    <3>1. NoPoll \in [seen : PollSeen, old : BOOLEAN]
          BY DEF NoPoll, PollSeen
    <3> QED BY <2>1, <3>1 DEF OnboardingPage, OnboardingPages
  <2>2. CASE p \in {DashboardPage, ConnectPage, LoginPage}
        BY <2>2 DEF DashboardPage, ConnectPage, LoginPage, Named
  <2> QED BY <2>1, <2>2
<1>3. p.name = "onboarding" => /\ ~p.interval /\ ~p.starting /\ p.status = "idle"
                               /\ \A q \in Polls : p.polls[q] = NoPoll
      BY DEF OnboardingPage, DashboardPage, ConnectPage, LoginPage
<1>4. Shape'
      BY <1>1, <1>2 DEF Good, Shape, ConfirmRecs, DecisionsFollow
<1>5. PollsFollow' /\ OfferIsOpen'
      BY <1>1, <1>3 DEF PollsFollow, OfferIsOpen, On
<1>6. OneConfirm'
      BY <1>1 DEF Good, OneConfirm, Unconfirmed
<1>7. LiveOnPage'
      BY <1>1 DEF LiveOnPage, DecisionsFollow
<1> QED BY <1>4, <1>5, <1>6, <1>7 DEF Good

-----------------------------------------------------------------------------
(* The journey                                                             *)

LEMMA JourneyDecisions ==
    ASSUME Good, Journey PROVE DecisionsFollow'
<1>1. CASE page'.name \in HubLinks
      BY <1>1 DEF Good, Shape, Journey, DecisionsFollow
<1>2. CASE page'.name \notin HubLinks
  <2>1. DEFINE left(d) == [decisions[d] EXCEPT !.live = FALSE]
  <2>2. decisions' = [d \in Decisions |-> left(d)]
        BY <1>2 DEF Journey
  <2>3. \A d \in Decisions :
           /\ left(d) \in [event : Events \cup {None}, live : BOOLEAN,
                           to : {None, "over", "accepted", "guided"}]
           /\ ~left(d).live
        BY DEF Good, Shape
  <2> HIDE DEF left
  <2> QED BY <2>2, <2>3 DEF DecisionsFollow
<1> QED BY <1>1, <1>2

LEMMA EnterGood ==
    ASSUME Good, DecisionsFollow', Enter, UNCHANGED <<db, confirms, late>>
    PROVE  Good'
<1>1. page.name # "onboarding" /\ Named(page')
  <2>1. On("landing") \/ On("login") \/ On("signup")
        BY DEF Enter, StartFree, SwitchForm, Submit, LoginForm, SignupForm,
               LoginAnswered, SignupAnswered
  <2>2. page.name # "onboarding" /\ Named(page)
        BY <2>1 DEF Good, Shape, On, OnboardingPages
  <2>3. \/ page' \in {LoginPage, SignupPage, DashboardPage, ConnectPage}
        \/ \E b \in BOOLEAN : page' = [page EXCEPT !.isSubmitting = b]
        BY DEF Enter, StartFree, SwitchForm, Submit, LoginAnswered, SignupAnswered,
               SubmitFails
  <2>4. CASE page' \in {LoginPage, SignupPage, DashboardPage, ConnectPage}
        BY <2>2, <2>4 DEF LoginPage, SignupPage, DashboardPage, ConnectPage, Named
  <2>5. ASSUME NEW b \in BOOLEAN, page' = [page EXCEPT !.isSubmitting = b]
        PROVE  Named(page')
        BY <2>2, <2>5 DEF Named
  <2> QED BY <2>2, <2>3, <2>4, <2>5
<1> QED BY <1>1, ElsewhereGood DEF Elsewhere, scanning, db

LEMMA ConnectGood ==
    ASSUME Good, DecisionsFollow', Connect,
           UNCHANGED <<signedUp, token, scans, registered, newest, confirms, late>>
    PROVE  Good'
<1>1. page.name # "onboarding" /\ Named(page)
  <2>1. On("connect")
        BY DEF Connect, UserLoaded, handleConnect, ConnectButton, connect_account,
               ConnectFails
  <2> QED BY <2>1 DEF Good, Shape, On, OnboardingPages
<1>2. \/ page' = [page EXCEPT !.userId = TRUE]
      \/ page' = [page EXCEPT !.status = "verifying"]
      \/ page' = [page EXCEPT !.status = "error"]
      \/ page' = [page EXCEPT !.status = "success", !.leaving = TRUE]
      BY DEF Connect, UserLoaded, handleConnect, connect_account, ConnectFails
<1>3. Named(page')
      BY <1>1, <1>2 DEF Named
<1> QED BY <1>1, <1>3, ElsewhereGood DEF Elsewhere, scanning

LEMMA MoveGood ==
    ASSUME Good, DecisionsFollow', Move PROVE Good'
<1>1. \E p \in {DashboardPage, ConnectPage, OnboardingPage, LoginPage} : Mount(p)
      BY DEF Move, Redirect, Visit, Unauthorized
<1> QED BY <1>1, MountGood DEF Move, db

LEMMA RunScanGood ==
    ASSUME Good, DecisionsFollow', _run_scan PROVE Good'
<1>1. PICK s \in Scans, status \in {"pending_confirm", "failed"} :
         scans[s] = "scanning" /\ scans' = [scans EXCEPT ![s] = status]
      BY DEF _run_scan
<1>2. /\ scans' \in [Scans -> ScanStatus]
      /\ \A t \in Scans : (scans'[t] = "absent") <=> (scans[t] = "absent")
      BY <1>1 DEF Good, Shape, ScanStatus
<1>3. UNCHANGED <<registered, newest, confirms, page>>
      BY DEF _run_scan
<1> QED BY <1>2, <1>3 DEF Good, Shape, PollsFollow, OfferIsOpen, OneConfirm, LiveOnPage,
           Unconfirmed, On, DecisionsFollow

-----------------------------------------------------------------------------
(* The onboarding page                                                     *)

(* What does not touch the books of the scans. *)
LEMMA BooksStay ==
    ASSUME Good, UNCHANGED scanning
    PROVE  /\ OneConfirm'
           /\ scans' \in [Scans -> ScanStatus] /\ registered' \in [Scans -> Nat]
           /\ newest' \in Scans \cup {None, Confirmed}
           /\ confirms' \in [Confirms -> ConfirmRecs]
           /\ \A c \in Confirms : confirms'[c].at # "idle" <=> confirms'[c].scan \in Scans
           /\ \A s \in Scans : Unconfirmed(s) => Unconfirmed(s)'
BY DEF Good, Shape, OneConfirm, Unconfirmed, scanning, ConfirmRecs

(* A step of the page that leaves its polls, its interval and its offer.   *)
LEMMA QuietGood ==
    ASSUME Good, UNCHANGED scanning, DecisionsFollow', page \in OnboardingPages,
           page' \in OnboardingPages, PollsFollow', LiveOnPage',
           page'.interval => page.interval /\ page'.scanId = page.scanId,
           page'.status = "pending_confirm" =>
              /\ page'.scanId = page.scanId
              /\ page.interval \/ page.status = "pending_confirm"
    PROVE  Good'
<1>1. Shape'
      BY BooksStay DEF Shape, DecisionsFollow, ConfirmRecs
<1>2. OfferIsOpen'
  <2>1. page.name = "onboarding"
        BY DEF OnboardingPages
  <2>2. UNCHANGED scans
        BY DEF scanning
  <2> QED BY <2>1, <2>2, BooksStay DEF Good, OfferIsOpen, On
<1> QED BY <1>1, <1>2, BooksStay DEF Good

LEMMA OnboardingShape ==
    ASSUME Shape, On("onboarding") PROVE page \in OnboardingPages
BY DEF Shape, Named, On

(* Nothing is live on a page that is not confirming. *)
LEMMA NothingLive ==
    ASSUME Good, page \in OnboardingPages, page.status # "confirming"
    PROVE  \A c \in Confirms : ~confirms[c].live
BY DEF Good, LiveOnPage

LEMMA StepsBeforeScan ==
    ASSUME Good, DecisionsFollow', UNCHANGED <<db, confirms, late>>,
           AccountsAnswered \/ handleStartScan \/ TryAgain
    PROVE  Good'
<1>0. Shape /\ PollsFollow /\ LiveOnPage /\ UNCHANGED scanning
      BY DEF Good, db, scanning
<1>1. page \in OnboardingPages /\ page.name = "onboarding"
      BY <1>0, OnboardingShape DEF AccountsAnswered, handleStartScan, ScanPanel, TryAgain,
                                   FailedPanel, OnboardingPages
<1>2. CASE AccountsAnswered
  <2>1. page' = [page EXCEPT !.accountId = TRUE]
        BY <1>2 DEF AccountsAnswered
  <2>2. /\ page' \in OnboardingPages /\ page'.name = "onboarding"
        /\ page'.status = page.status /\ page'.interval = page.interval
        /\ page'.starting = page.starting /\ page'.polls = page.polls
        /\ page'.scanId = page.scanId
        BY <1>1, <2>1 DEF OnboardingPages
  <2>3. PollsFollow'
        BY <1>0, <1>1, <2>2 DEF PollsFollow, On
  <2>4. LiveOnPage'
        BY <1>0, <1>1, <2>2 DEF LiveOnPage, On, scanning, DecisionsFollow
  <2> QED BY <1>0, <1>1, <2>2, <2>3, <2>4, QuietGood
<1>3. CASE handleStartScan
  <2>1. /\ page' = [page EXCEPT !.status = "scanning", !.starting = TRUE]
        /\ page.status = "idle"
        BY <1>3 DEF handleStartScan, ScanPanel
  <2>2. /\ page' \in OnboardingPages /\ page'.name = "onboarding"
        /\ page'.status = "scanning" /\ page'.interval = page.interval
        /\ page'.polls = page.polls /\ page'.scanId = page.scanId
        BY <1>1, <2>1 DEF OnboardingPages
  <2>3. ~page.interval
        BY <1>0, <1>1, <2>1 DEF PollsFollow, On
  <2>4. PollsFollow'
        BY <1>0, <1>1, <2>2, <2>3 DEF PollsFollow, On
  <2>5. LiveOnPage'
        BY <1>0, <1>1, <2>1, NothingLive DEF LiveOnPage, scanning, DecisionsFollow
  <2> QED BY <1>0, <1>1, <2>2, <2>4, <2>5, QuietGood
<1>4. CASE TryAgain
  <2>1. page' = [page EXCEPT !.status = "idle"] /\ page.status = "failed"
        BY <1>4 DEF TryAgain, FailedPanel
  <2>2. /\ page' \in OnboardingPages /\ page'.name = "onboarding"
        /\ page'.status = "idle" /\ page'.interval = page.interval
        /\ page'.starting = page.starting /\ page'.polls = page.polls
        BY <1>1, <2>1 DEF OnboardingPages
  <2>3. ~page.interval /\ ~page.starting
        BY <1>0, <1>1, <2>1 DEF PollsFollow, On
  <2>4. PollsFollow'
        BY <1>0, <1>1, <2>2, <2>3 DEF PollsFollow, On
  <2>5. LiveOnPage'
        BY <1>0, <1>1, <2>1, NothingLive DEF LiveOnPage, scanning, DecisionsFollow
  <2> QED BY <1>0, <1>1, <2>2, <2>3, <2>4, <2>5, QuietGood
<1> QED BY <1>2, <1>3, <1>4

PollRecs == [seen : PollSeen, old : BOOLEAN]

LEMMA WithoutEffect ==
    ASSUME page \in OnboardingPages, NEW p \in Polls
    PROVE  /\ Without(p) \in [Polls -> PollRecs]
           /\ \A q \in Polls : Without(p)[q] = IF q = p THEN NoPoll ELSE page.polls[q]
<1>1. NoPoll \in PollRecs
      BY DEF NoPoll, PollRecs, PollSeen
<1>2. page.polls \in [Polls -> PollRecs]
      BY DEF OnboardingPages, PollRecs
<1> QED BY <1>1, <1>2 DEF Without

(* A poll that is not old ends the interval, an old one is just forgotten. *)
LEMMA ClearEffect ==
    ASSUME page \in OnboardingPages, NEW p \in Polls, NEW cleared, cleared = clearInterval(p)
    PROVE  /\ cleared \in OnboardingPages
           /\ cleared.status = page.status /\ cleared.scanId = page.scanId
           /\ cleared.starting = page.starting
           /\ cleared.interval => page.interval /\ page.polls[p].old
           /\ \A q \in Polls : cleared.polls[q] # NoPoll /\ ~cleared.polls[q].old =>
                 /\ page.polls[p].old /\ cleared.interval = page.interval
                 /\ page.polls[q] # NoPoll /\ ~page.polls[q].old
<1>0. /\ Without(p) \in [Polls -> PollRecs]
      /\ \A q \in Polls : Without(p)[q] = IF q = p THEN NoPoll ELSE page.polls[q]
      BY WithoutEffect
<1>1. NoPoll \in PollRecs
      BY DEF NoPoll, PollRecs, PollSeen
<1>2. CASE page.polls[p].old
  <2>1. cleared = [page EXCEPT !.polls = Without(p)]
        BY <1>2 DEF clearInterval
  <2>2. /\ cleared \in OnboardingPages /\ cleared.polls = Without(p)
        /\ cleared.status = page.status /\ cleared.scanId = page.scanId
        /\ cleared.starting = page.starting /\ cleared.interval = page.interval
        BY <1>0, <2>1 DEF OnboardingPages, PollRecs
  <2> QED BY <1>0, <1>2, <2>2
<1>3. CASE ~page.polls[p].old
  <2>1. DEFINE aged(q) == [Without(p)[q] EXCEPT !.old = TRUE]
               polls == [q \in Polls |-> IF Without(p)[q] = NoPoll THEN NoPoll ELSE aged(q)]
  <2>2. \A q \in Polls : aged(q) \in PollRecs /\ aged(q).old
        BY <1>0 DEF PollRecs
  <2>3. /\ polls \in [Polls -> PollRecs]
        /\ \A q \in Polls : polls[q] = NoPoll \/ polls[q].old
    <3> HIDE DEF aged
    <3> QED BY <1>1, <2>2
  <2>4. cleared = [page EXCEPT !.interval = FALSE, !.polls = polls]
        BY <1>3 DEF clearInterval
  <2> HIDE DEF polls
  <2>5. /\ cleared \in OnboardingPages /\ cleared.polls = polls
        /\ cleared.status = page.status /\ cleared.scanId = page.scanId
        /\ cleared.starting = page.starting /\ ~cleared.interval
        BY <2>3, <2>4 DEF OnboardingPages, PollRecs
  <2> QED BY <2>3, <2>5
<1> QED BY <1>2, <1>3

LEMMA PollStepsGood ==
    ASSUME Good, DecisionsFollow', UNCHANGED <<db, confirms, late>>, NEW p \in Polls,
           pollStatus(p) \/ PollServed(p) \/ PollFails(p)
    PROVE  Good'
<1>0. Shape /\ PollsFollow /\ LiveOnPage /\ UNCHANGED scanning
      BY DEF Good, db, scanning
<1>1. page \in OnboardingPages /\ page.name = "onboarding"
      BY <1>0, OnboardingShape DEF pollStatus, PollServed, PollFails, OnboardingPages
<1>2. page.polls \in [Polls -> PollRecs]
      BY <1>1 DEF OnboardingPages, PollRecs
<1>3. ASSUME page' \in OnboardingPages, page'.status = page.status
      PROVE  LiveOnPage'
      BY <1>0, <1>1, <1>3 DEF LiveOnPage, On, scanning, DecisionsFollow, OnboardingPages
<1>4. ASSUME NEW seen \in PollSeen, page' = [page EXCEPT !.polls[p].seen = seen],
             page.interval \/ page.polls[p] # NoPoll
      PROVE  Good'
  <2>1. DEFINE poll == [page.polls[p] EXCEPT !.seen = seen]
  <2>2. poll \in PollRecs /\ poll.old = page.polls[p].old
        BY <1>2 DEF PollRecs
  <2>3. page' = [page EXCEPT !.polls = [page.polls EXCEPT ![p] = poll]]
        BY <1>4
  <2> HIDE DEF poll
  <2>4. DEFINE polls == [page.polls EXCEPT ![p] = poll]
  <2>5. /\ polls \in [Polls -> PollRecs]
        /\ \A q \in Polls : polls[q] = IF q = p THEN poll ELSE page.polls[q]
        BY <1>2, <2>2
  <2>6. page' = [page EXCEPT !.polls = polls]
        BY <2>3
  <2> HIDE DEF polls
  <2>7. /\ page' \in OnboardingPages /\ page'.status = page.status
        /\ page'.interval = page.interval /\ page'.starting = page.starting
        /\ page'.scanId = page.scanId /\ page'.polls = polls
        BY <1>1, <2>5, <2>6 DEF OnboardingPages, PollRecs
  <2>8. PollsFollow'
    <3>1. ASSUME NEW q \in Polls, page'.polls[q] # NoPoll, ~page'.polls[q].old
          PROVE  page'.interval
          BY <1>0, <1>1, <1>4, <2>2, <2>5, <2>7, <3>1 DEF PollsFollow, On
    <3> QED BY <1>0, <1>1, <2>7, <3>1 DEF PollsFollow, On
  <2> QED BY <1>0, <1>1, <1>3, <2>7, <2>8, QuietGood
<1>5. CASE pollStatus(p)
      BY <1>4, <1>5 DEF pollStatus, PollSeen
<1>6. CASE PollServed(p)
  <2>1. get_onboard_status \in PollSeen
    <3>1. newest \in Scans => scans[newest] \in PollSeen
          BY <1>0 DEF Shape, PollSeen
    <3> QED BY <1>0, <3>1 DEF get_onboard_status, Shape, PollSeen
  <2>2. page.polls[p] # NoPoll
        BY <1>6 DEF PollServed, NoPoll
  <2> QED BY <1>4, <1>6, <2>1, <2>2 DEF PollServed
<1>7. CASE PollFails(p)
  <2>1. page' = clearInterval(p)
        BY <1>7 DEF PollFails
  <2>2. /\ page' \in OnboardingPages
        /\ page'.status = page.status /\ page'.scanId = page.scanId
        /\ page'.starting = page.starting
        /\ page'.interval => page.interval
        /\ \A q \in Polls : page'.polls[q] # NoPoll /\ ~page'.polls[q].old =>
              /\ page'.interval = page.interval
              /\ page.polls[q] # NoPoll /\ ~page.polls[q].old
        BY <1>1, <2>1, ClearEffect
  <2>3. PollsFollow'
        BY <1>0, <1>1, <2>2 DEF PollsFollow, On
  <2> QED BY <1>0, <1>1, <1>3, <2>2, <2>3, QuietGood
<1> QED BY <1>5, <1>6, <1>7

(* The answer that offers the confirm belongs to the interval of its scan. *)
LEMMA PollAnsweredGood ==
    ASSUME Good, DecisionsFollow', UNCHANGED <<db, confirms>>, NEW p \in Polls,
           PollAnswered(p), ~late'
    PROVE  Good'
<1>0. Shape /\ PollsFollow /\ LiveOnPage /\ UNCHANGED scanning
      BY DEF Good, db, scanning
<1>1. page \in OnboardingPages /\ page.name = "onboarding"
      BY <1>0, OnboardingShape DEF PollAnswered, OnboardingPages
<1>2. ~page.polls[p].old /\ page.polls[p] # NoPoll
  <2>1. late' = (late \/ page.polls[p].old)
        BY DEF PollAnswered
  <2>2. ~page.polls[p].old
        BY <2>1
  <2>3. page.polls[p].seen # "idle"
        BY DEF PollAnswered
  <2> QED BY <2>2, <2>3 DEF NoPoll
<1>3. page.interval /\ page.status = "scanning" /\ ~page.starting
      BY <1>0, <1>1, <1>2 DEF PollsFollow, On
<1>4. LiveOnPage'
      BY <1>0, <1>1, <1>3, NothingLive DEF LiveOnPage, scanning, DecisionsFollow
<1>5. PICK cleared : cleared = clearInterval(p)
      OBVIOUS
<1>6. /\ cleared \in OnboardingPages
      /\ cleared.status = "scanning" /\ cleared.scanId = page.scanId
      /\ ~cleared.starting /\ ~cleared.interval
      /\ \A q \in Polls : cleared.polls[q] = NoPoll \/ cleared.polls[q].old
  <2>1. /\ cleared \in OnboardingPages
        /\ cleared.status = page.status /\ cleared.scanId = page.scanId
        /\ cleared.starting = page.starting
        /\ cleared.interval => page.interval /\ page.polls[p].old
        /\ \A q \in Polls : cleared.polls[q] # NoPoll /\ ~cleared.polls[q].old =>
              page.polls[p].old
        BY <1>1, <1>5, ClearEffect
  <2> QED BY <1>2, <1>3, <2>1
<1>7. \/ \E st \in {"pending_confirm", "failed"} : page' = [cleared EXCEPT !.status = st]
      \/ page' = cleared
      \/ page' = [page EXCEPT !.polls = Without(p)]
      BY <1>5 DEF PollAnswered
<1>8. ASSUME NEW st \in {"pending_confirm", "failed"}, page' = [cleared EXCEPT !.status = st]
      PROVE  Good'
  <2>1. /\ page' \in OnboardingPages /\ page'.scanId = page.scanId
        /\ ~page'.starting /\ ~page'.interval
        /\ \A q \in Polls : page'.polls[q] = NoPoll \/ page'.polls[q].old
        BY <1>6, <1>8 DEF OnboardingPages
  <2>2. PollsFollow'
        BY <2>1 DEF PollsFollow
  <2> QED BY <1>0, <1>1, <1>3, <1>4, <2>1, <2>2, QuietGood
<1>9. CASE page' = cleared
  <2>1. PollsFollow'
        BY <1>6, <1>9 DEF PollsFollow
  <2> QED BY <1>0, <1>1, <1>4, <1>6, <1>9, <2>1, QuietGood
<1>10. CASE page' = [page EXCEPT !.polls = Without(p)]
  <2>1. /\ page' \in OnboardingPages /\ page'.polls = Without(p)
        /\ page'.status = page.status /\ page'.scanId = page.scanId
        /\ page'.starting = page.starting /\ page'.interval = page.interval
        BY <1>1, <1>10, WithoutEffect DEF OnboardingPages, PollRecs
  <2>2. PollsFollow'
        BY <1>3, <2>1 DEF PollsFollow
  <2> QED BY <1>0, <1>1, <1>3, <1>4, <2>1, <2>2, QuietGood
<1> QED BY <1>7, <1>8, <1>9, <1>10

(* The answer of a start. *)
LEMMA StartGood ==
    ASSUME Good, DecisionsFollow', UNCHANGED <<account, registered, confirms, late>>,
           StartFails \/ \E s \in Scans : StartAnswered(s)
    PROVE  Good'
<1>0. Shape /\ PollsFollow /\ LiveOnPage /\ OneConfirm /\ OfferIsOpen
      BY DEF Good
<1>1. page \in OnboardingPages /\ page.name = "onboarding" /\ page.starting
      BY <1>0, OnboardingShape DEF StartFails, StartAnswered, OnboardingPages
<1>2. page.status = "scanning" /\ ~page.interval
      BY <1>0, <1>1 DEF PollsFollow, On
<1>3. \A q \in Polls : page.polls[q] = NoPoll \/ page.polls[q].old
      BY <1>0, <1>1, <1>2 DEF PollsFollow, On
<1>4. \A c \in Confirms : ~confirms[c].live /\ ~confirms'[c].live
      BY <1>1, <1>2, NothingLive
<1>5. LiveOnPage'
      BY <1>4 DEF LiveOnPage, DecisionsFollow
<1>6. ASSUME NEW s \in Scans, start_onboard(s)
      PROVE  /\ scans' \in [Scans -> ScanStatus] /\ newest' \in Scans /\ OneConfirm'
             /\ scans'[s] # "absent" /\ Unconfirmed(s)'
             /\ Unconfirmed(s)
  <2>1. scans[s] = "absent" /\ scans' = [scans EXCEPT ![s] = "scanning"] /\ newest' = s
        BY <1>6 DEF start_onboard
  <2>2. /\ scans' \in [Scans -> ScanStatus] /\ scans'[s] # "absent"
        /\ \A t \in Scans : scans'[t] = "absent" => scans[t] = "absent"
        BY <1>0, <2>1 DEF Shape, ScanStatus
  <2>3. Unconfirmed(s)
        BY <1>0, <2>1 DEF OneConfirm
  <2> QED BY <1>0, <2>1, <2>2, <2>3 DEF OneConfirm, Unconfirmed
<1>7. CASE StartFails
  <2>1. page' = [page EXCEPT !.starting = FALSE, !.status = "failed"]
        BY <1>7 DEF StartFails
  <2>2. /\ page' \in OnboardingPages /\ page'.polls = page.polls
        /\ ~page'.interval /\ ~page'.starting /\ page'.status = "failed"
        BY <1>1, <1>2, <2>1 DEF OnboardingPages
  <2>3. PollsFollow' /\ OfferIsOpen'
        BY <1>3, <2>2 DEF PollsFollow, OfferIsOpen
  <2>4. /\ scans' \in [Scans -> ScanStatus] /\ newest' \in Scans \cup {None, Confirmed}
        /\ OneConfirm'
    <3>1. CASE UNCHANGED <<scans, newest>>
          BY <1>0, <3>1 DEF Shape, OneConfirm, Unconfirmed
    <3>2. CASE \E s \in Scans : start_onboard(s)
          BY <1>6, <3>2
    <3> QED BY <1>7, <3>1, <3>2 DEF StartFails
  <2>5. Shape'
        BY <1>0, <2>2, <2>4 DEF Shape, DecisionsFollow
  <2> QED BY <1>5, <2>3, <2>4, <2>5 DEF Good
<1>8. ASSUME NEW s \in Scans, StartAnswered(s) PROVE Good'
  <2>1. /\ page' = [page EXCEPT !.starting = FALSE, !.scanId = s, !.interval = TRUE]
        /\ start_onboard(s)
        BY <1>8 DEF StartAnswered
  <2>2. /\ page' \in OnboardingPages /\ page'.polls = page.polls
        /\ page'.interval /\ ~page'.starting /\ page'.status = "scanning"
        /\ page'.scanId = s
        BY <1>1, <1>2, <2>1 DEF OnboardingPages
  <2>3. /\ scans' \in [Scans -> ScanStatus] /\ newest' \in Scans /\ OneConfirm'
        /\ scans'[s] # "absent" /\ Unconfirmed(s)'
        BY <1>6, <2>1
  <2>4. PollsFollow'
        BY <2>2 DEF PollsFollow
  <2>5. OfferIsOpen'
        BY <2>2, <2>3 DEF OfferIsOpen
  <2>6. Shape'
        BY <1>0, <2>2, <2>3 DEF Shape, DecisionsFollow
  <2> QED BY <1>5, <2>3, <2>4, <2>5, <2>6 DEF Good
<1> QED BY <1>7, <1>8

-----------------------------------------------------------------------------
(* The confirm                                                             *)

LEMMA HandleConfirmGood ==
    ASSUME Good, DecisionsFollow', UNCHANGED <<db, late>>, NEW c \in Confirms,
           handleConfirm(c)
    PROVE  Good'
<1>0. Shape /\ PollsFollow /\ LiveOnPage /\ OneConfirm /\ OfferIsOpen
      BY DEF Good
<1>1. page \in OnboardingPages /\ page.name = "onboarding"
      /\ page.status = "pending_confirm"
      BY <1>0, OnboardingShape DEF handleConfirm, ConfirmPanel, OnboardingPages
<1>2. ~page.interval /\ ~page.starting
      BY <1>0, <1>1 DEF PollsFollow, On
<1>3. /\ page.scanId \in Scans /\ scans[page.scanId] # "absent"
      /\ Unconfirmed(page.scanId)
      BY <1>0, <1>1 DEF OfferIsOpen, On
<1>4. \A d \in Confirms : ~confirms[d].live
      BY <1>1, NothingLive
<1>5. DEFINE sent == [scan |-> page.scanId, at |-> "sent", live |-> TRUE]
<1>6. sent \in ConfirmRecs /\ sent.scan = page.scanId /\ sent.at = "sent"
      BY <1>3 DEF ConfirmRecs
<1>7. page' = [page EXCEPT !.status = "confirming"]
      /\ confirms' = [confirms EXCEPT ![c] = sent]
      BY DEF handleConfirm
<1> HIDE DEF sent
<1>8. /\ confirms' \in [Confirms -> ConfirmRecs]
      /\ \A d \in Confirms : confirms'[d] = IF d = c THEN sent ELSE confirms[d]
      BY <1>0, <1>6, <1>7 DEF Shape, ConfirmRecs
<1>9. /\ page' \in OnboardingPages /\ page'.name = "onboarding"
      /\ page'.status = "confirming" /\ page'.polls = page.polls
      /\ ~page'.interval /\ ~page'.starting
      BY <1>1, <1>2, <1>7 DEF OnboardingPages
<1>10. \A d \in Confirms :
          confirms'[d].at # "idle" <=> confirms'[d].scan \in Scans
      BY <1>0, <1>3, <1>6, <1>8 DEF Shape
<1>11. Shape'
      BY <1>0, <1>8, <1>9, <1>10 DEF Shape, DecisionsFollow, ConfirmRecs, db
<1>12. PollsFollow'
      BY <1>0, <1>1, <1>2, <1>9 DEF PollsFollow, On
<1>13. OfferIsOpen'
      BY <1>9 DEF OfferIsOpen
<1>14. LiveOnPage'
  <2>1. \A d \in Confirms : confirms'[d].live => d = c
        BY <1>4, <1>8
  <2> QED BY <1>9, <2>1 DEF LiveOnPage, On, DecisionsFollow
<1>15. OneConfirm'
  <2>1. UNCHANGED <<scans, registered>>
        BY DEF db
  <2>2. \A s \in Scans : scans[s] = "absent" => s # page.scanId /\ Unconfirmed(s)
        BY <1>0, <1>3 DEF OneConfirm
  <2>3. \A s \in Scans : scans'[s] = "absent" => Unconfirmed(s)'
        BY <1>6, <1>8, <2>1, <2>2 DEF Unconfirmed
  <2>4. \A d \in Confirms : confirms'[d].scan \in Scans => registered[confirms'[d].scan] = 0
        BY <1>0, <1>3, <1>6, <1>8 DEF OneConfirm, Unconfirmed
  <2>5. \A d, e \in Confirms :
           confirms'[d].scan \in Scans /\ confirms'[d].scan = confirms'[e].scan => d = e
        BY <1>0, <1>3, <1>6, <1>8 DEF OneConfirm, Unconfirmed
  <2>6. \A s \in Scans : registered'[s] <= 1
        BY <1>0, <2>1 DEF OneConfirm
  <2> QED BY <2>1, <2>3, <2>4, <2>5, <2>6 DEF OneConfirm
<1> QED BY <1>11, <1>12, <1>13, <1>14, <1>15 DEF Good

(* An answer leaves no more confirms out than there were.                  *)
LEMMA AnsweredGood ==
    ASSUME Good, DecisionsFollow', NEW c \in Confirms,
           NEW status \in {"completed", "failed"}, ConfirmAnswer(c, status)
    PROVE  /\ page' \in OnboardingPages \/ Named(page')
           /\ confirms' \in [Confirms -> ConfirmRecs]
           /\ \A d \in Confirms : confirms'[d] = IF d = c THEN NoConfirm ELSE confirms[d]
           /\ \A d \in Confirms : confirms'[d].at # "idle" <=> confirms'[d].scan \in Scans
           /\ PollsFollow' /\ LiveOnPage'
           /\ On("onboarding")' /\ (page'.interval \/ page'.status = "pending_confirm") =>
                 /\ On("onboarding") /\ page'.scanId = page.scanId
                 /\ page.interval \/ page.status = "pending_confirm"
<1>0. Shape /\ PollsFollow /\ LiveOnPage
      BY DEF Good
<1>1. /\ confirms' \in [Confirms -> ConfirmRecs]
      /\ \A d \in Confirms : confirms'[d] = IF d = c THEN NoConfirm ELSE confirms[d]
      BY <1>0, ConfirmAnswerEffect
<1>2. \A d \in Confirms : confirms'[d].at # "idle" <=> confirms'[d].scan \in Scans
      BY <1>0, <1>1, NoConfirmEffect DEF Shape
<1>3. CASE ~confirms[c].live
  <2>1. page' = page
        BY <1>0, <1>3, ConfirmAnswerEffect
  <2>2. PollsFollow'
        BY <1>0, <2>1 DEF PollsFollow, On
  <2>3. LiveOnPage'
        BY <1>0, <1>1, <2>1, NoConfirmEffect DEF LiveOnPage, On, DecisionsFollow
  <2> QED BY <1>0, <1>1, <1>2, <2>1, <2>2, <2>3 DEF Shape, On
<1>4. CASE confirms[c].live
  <2>1. /\ page \in OnboardingPages /\ page' \in OnboardingPages
        /\ page.status = "confirming" /\ page'.status = status
        /\ page'.interval = page.interval /\ page'.starting = page.starting
        /\ page'.polls = page.polls
        BY <1>0, <1>4, ConfirmAnswerEffect
  <2>2. page.name = "onboarding"
        BY <2>1 DEF OnboardingPages
  <2>3. ~page.interval /\ ~page.starting
        BY <1>0, <2>1, <2>2 DEF PollsFollow, On
  <2>4. PollsFollow'
        BY <1>0, <2>1, <2>2, <2>3 DEF PollsFollow, On
  <2>5. \A d \in Confirms : ~confirms'[d].live
        BY <1>0, <1>1, <1>4, NoConfirmEffect DEF LiveOnPage
  <2>6. LiveOnPage'
        BY <2>5 DEF LiveOnPage, DecisionsFollow
  <2> QED BY <1>1, <1>2, <2>1, <2>3, <2>4, <2>6
<1> QED BY <1>3, <1>4

LEMMA NothingRegisteredGood ==
    ASSUME Good, DecisionsFollow', UNCHANGED db, NEW c \in Confirms,
           ConfirmAnswer(c, "failed")
    PROVE  Good'
<1>0. Shape /\ OneConfirm /\ OfferIsOpen
      BY DEF Good
<1>1. /\ page' \in OnboardingPages \/ Named(page')
      /\ confirms' \in [Confirms -> ConfirmRecs]
      /\ \A d \in Confirms : confirms'[d] = IF d = c THEN NoConfirm ELSE confirms[d]
      /\ \A d \in Confirms : confirms'[d].at # "idle" <=> confirms'[d].scan \in Scans
      /\ PollsFollow' /\ LiveOnPage'
      /\ On("onboarding")' /\ (page'.interval \/ page'.status = "pending_confirm") =>
            /\ On("onboarding") /\ page'.scanId = page.scanId
            /\ page.interval \/ page.status = "pending_confirm"
      BY AnsweredGood
<1>2. UNCHANGED <<scans, registered, newest>>
      BY DEF db
<1>3. \A s \in Scans : Unconfirmed(s) => Unconfirmed(s)'
      BY <1>1, <1>2, NoConfirmEffect DEF Unconfirmed
<1>4. OneConfirm'
      BY <1>0, <1>1, <1>2, <1>3, NoConfirmEffect DEF OneConfirm
<1>5. OfferIsOpen'
      BY <1>0, <1>1, <1>2, <1>3 DEF OfferIsOpen
<1>6. Shape'
      BY <1>0, <1>1, <1>2 DEF Shape, DecisionsFollow, ConfirmRecs
<1> QED BY <1>1, <1>4, <1>5, <1>6 DEF Good

LEMMA ConfirmOnboardGood ==
    ASSUME Good, DecisionsFollow', UNCHANGED late, NEW c \in Confirms, confirm_onboard(c)
    PROVE  Good'
<1>0. Shape /\ OneConfirm /\ OfferIsOpen
      BY DEF Good
<1>1. /\ page' \in OnboardingPages \/ Named(page')
      /\ confirms' \in [Confirms -> ConfirmRecs]
      /\ \A d \in Confirms : confirms'[d] = IF d = c THEN NoConfirm ELSE confirms[d]
      /\ \A d \in Confirms : confirms'[d].at # "idle" <=> confirms'[d].scan \in Scans
      /\ PollsFollow' /\ LiveOnPage'
      /\ On("onboarding")' /\ (page'.interval \/ page'.status = "pending_confirm") =>
            /\ On("onboarding") /\ page'.scanId = page.scanId
            /\ page.interval \/ page.status = "pending_confirm"
      BY AnsweredGood DEF confirm_onboard
<1>2. PICK s \in Scans : s = confirms[c].scan
      BY <1>0 DEF confirm_onboard, Shape
<1>3. /\ scans' = [scans EXCEPT ![s] = "gone"]
      /\ registered' = [registered EXCEPT ![s] = registered[s] + 1]
      /\ newest' = Confirmed
      BY <1>2 DEF confirm_onboard
<1>4. registered[s] = 0 /\ scans[s] # "absent" /\ registered \in [Scans -> Nat]
      BY <1>0, <1>2 DEF OneConfirm, Unconfirmed, Shape
<1>5. /\ scans' \in [Scans -> ScanStatus] /\ scans'[s] # "absent"
      /\ \A t \in Scans \ {s} : scans'[t] = scans[t]
      BY <1>0, <1>3 DEF Shape, ScanStatus
<1>6. /\ registered' \in [Scans -> Nat] /\ registered'[s] = 1
      /\ \A t \in Scans \ {s} : registered'[t] = registered[t]
      BY <1>3, <1>4
<1>7. \A t \in Scans \ {s} : Unconfirmed(t) => Unconfirmed(t)'
      BY <1>1, <1>6, NoConfirmEffect DEF Unconfirmed
<1>8. \A d \in Confirms : confirms'[d].scan # s
      BY <1>0, <1>1, <1>2, NoConfirmEffect DEF OneConfirm
<1>9. OneConfirm'
  <2>1. \A t \in Scans : registered'[t] <= 1 /\ (scans'[t] = "absent" => Unconfirmed(t)')
        BY <1>0, <1>5, <1>6, <1>7 DEF OneConfirm
  <2>2. \A d \in Confirms :
           confirms'[d].scan \in Scans => registered'[confirms'[d].scan] = 0
        BY <1>0, <1>1, <1>6, <1>8, NoConfirmEffect DEF OneConfirm
  <2>3. \A d, e \in Confirms :
           confirms'[d].scan \in Scans /\ confirms'[d].scan = confirms'[e].scan => d = e
        BY <1>0, <1>1, NoConfirmEffect DEF OneConfirm
  <2> QED BY <2>1, <2>2, <2>3 DEF OneConfirm
<1>10. OfferIsOpen'
  <2>1. ASSUME On("onboarding")', page'.interval \/ page'.status = "pending_confirm"
        PROVE  /\ page'.scanId \in Scans /\ scans'[page'.scanId] # "absent"
               /\ registered'[page'.scanId] = 0
               /\ \A d \in Confirms : confirms'[d].scan # page'.scanId
    <3>1. /\ page'.scanId = page.scanId
          /\ page.scanId \in Scans /\ scans[page.scanId] # "absent"
          /\ registered[page.scanId] = 0
          /\ \A d \in Confirms : confirms[d].scan # page.scanId
          BY <1>0, <1>1, <2>1 DEF OfferIsOpen, Unconfirmed
    <3>2. page.scanId # s
          BY <1>2, <3>1
    <3> QED BY <1>1, <1>5, <1>6, <3>1, <3>2, NoConfirmEffect
  <2> QED BY <2>1 DEF OfferIsOpen, Unconfirmed
<1>11. Shape'
      BY <1>0, <1>1, <1>3, <1>5, <1>6 DEF Shape, DecisionsFollow, ConfirmRecs
<1> QED BY <1>1, <1>9, <1>10, <1>11 DEF Good

LEMMA ConfirmReadGood ==
    ASSUME Good, DecisionsFollow', UNCHANGED late, NEW c \in Confirms, ConfirmRead(c)
    PROVE  Good'
<1>0. Shape
      BY DEF Good
<1>1. CASE scans[confirms[c].scan] = "pending_confirm"
  <2>1. DEFINE checked == [confirms[c] EXCEPT !.at = "checked"]
  <2>2. /\ checked \in ConfirmRecs /\ checked.scan = confirms[c].scan
        /\ checked.live = confirms[c].live /\ checked.at # "idle"
        BY <1>0 DEF Shape, ConfirmRecs
  <2>3. confirms' = [confirms EXCEPT ![c] = checked] /\ UNCHANGED page
        BY <1>1 DEF ConfirmRead
  <2>4. confirms[c].at = "sent"
        BY DEF ConfirmRead
  <2> HIDE DEF checked
  <2>5. /\ confirms' \in [Confirms -> ConfirmRecs]
        /\ \A d \in Confirms : /\ confirms'[d].scan = confirms[d].scan
                               /\ confirms'[d].live = confirms[d].live
                               /\ (confirms'[d].at # "idle") <=> (confirms[d].at # "idle")
        BY <1>0, <2>2, <2>3, <2>4 DEF Shape, ConfirmRecs
  <2>6. UNCHANGED <<scans, registered, newest, page>>
        BY <2>3 DEF ConfirmRead, db
  <2>7. Shape'
        BY <1>0, <2>5, <2>6 DEF Shape, DecisionsFollow, ConfirmRecs
  <2>8. OneConfirm'
        BY <2>5, <2>6 DEF Good, OneConfirm, Unconfirmed
  <2>9. PollsFollow' /\ OfferIsOpen' /\ LiveOnPage'
        BY <2>5, <2>6 DEF Good, PollsFollow, OfferIsOpen, LiveOnPage, On, Unconfirmed,
                          DecisionsFollow
  <2> QED BY <2>7, <2>8, <2>9 DEF Good
<1>2. CASE scans[confirms[c].scan] # "pending_confirm"
      BY <1>2, NothingRegisteredGood DEF ConfirmRead
<1> QED BY <1>1, <1>2

LEMMA OnboardGood ==
    ASSUME Good, DecisionsFollow', Onboard, ~late' PROVE Good'
<1>1. ASSUME UNCHANGED <<db, confirms, late>>,
             \/ AccountsAnswered \/ handleStartScan \/ TryAgain
             \/ \E p \in Polls : pollStatus(p) \/ PollServed(p) \/ PollFails(p)
      PROVE  Good'
      BY <1>1, StepsBeforeScan, PollStepsGood
<1>2. ASSUME UNCHANGED <<account, registered, confirms, late>>,
             StartFails \/ \E s \in Scans : StartAnswered(s)
      PROVE  Good'
      BY <1>2, StartGood
<1>3. ASSUME NEW p \in Polls, PollAnswered(p), UNCHANGED <<db, confirms>>
      PROVE  Good'
      BY <1>3, PollAnsweredGood
<1>4. ASSUME NEW c \in Confirms, handleConfirm(c), UNCHANGED <<db, late>>
      PROVE  Good'
      BY <1>4, HandleConfirmGood
<1>5. ASSUME NEW c \in Confirms, ConfirmRead(c), UNCHANGED late
      PROVE  Good'
      BY <1>5, ConfirmReadGood
<1>6. ASSUME NEW c \in Confirms, confirm_onboard(c) \/ ConfirmFails(c), UNCHANGED late
      PROVE  Good'
      BY <1>6, ConfirmOnboardGood, NothingRegisteredGood DEF ConfirmFails
<1> QED BY <1>1, <1>2, <1>3, <1>4, <1>5, <1>6 DEF Onboard

LEMMA JourneyGood ==
    ASSUME Good, Journey, ~late' PROVE Good'
<1>1. DecisionsFollow'
      BY JourneyDecisions
<1> QED BY <1>1, EnterGood, ConnectGood, MoveGood, OnboardGood, RunScanGood
        DEF Journey, OnboardingNext

-----------------------------------------------------------------------------
(* The project's pages                                                     *)

Keeps(p, q) == "name" \in DOMAIN q /\ q.name = p.name

LEMMA FetchKeeps ==
    ASSUME NEW p, NEW q, Keeps(p, q), NEW x PROVE Keeps(p, Fetch(q, x))
<1>1. DEFINE reads == Append(q.reads, x)
<1>2. Fetch(q, x) = [q EXCEPT !.reads = reads, !.loading = TRUE]
      BY DEF Fetch
<1> HIDE DEF reads
<1> QED BY <1>2 DEF Keeps

LEMMA OnProjectPage ==
    ASSUME Shape, page.name \in HubLinks
    PROVE  "name" \in DOMAIN page /\ page.name # "onboarding"
BY DEF Shape, Named, OnboardingPages, HubLinks

(* The pages of the project only ever change themselves. *)
LEMMA EventPagesStay ==
    ASSUME Good, EventPages
    PROVE  /\ UNCHANGED page \/ (page.name \in HubLinks /\ Keeps(page, page'))
           /\ DecisionsFollow'
<1>0. Shape /\ LiveOnPage
      BY DEF Good
<1>1. page.name \in HubLinks => "name" \in DOMAIN page
      BY <1>0, OnProjectPage
<1>2. DEFINE Recs == [event : Events \cup {None}, live : BOOLEAN,
                      to : {None, "over", "accepted", "guided"}]
<1>3. /\ decisions \in [Decisions -> Recs]
      /\ \A d \in Decisions : decisions[d].live => page.name \in HubLinks
      BY <1>0 DEF Shape, LiveOnPage
<1>4. Over \in Recs /\ ~Over.live
      BY DEF Over, NoDecision
<1> HIDE DEF Recs
<1>5. ASSUME NEW d \in Decisions, decisions' = [decisions EXCEPT ![d] = Over],
             UNCHANGED page \/ (page.name \in HubLinks /\ Keeps(page, page'))
      PROVE  DecisionsFollow'
  <2>1. decisions' \in [Decisions -> Recs]
        BY <1>3, <1>4, <1>5
  <2>2. \A e \in Decisions : decisions'[e].live => page'.name \in HubLinks
        BY <1>3, <1>4, <1>5 DEF Keeps
  <2> QED BY <2>1, <2>2 DEF DecisionsFollow, Recs
<1>6. ASSUME NEW d \in Decisions, NEW e \in Events, handleApprove(d, e) \/ handleReject(d, e)
      PROVE  /\ page.name \in HubLinks /\ Keeps(page, page')
             /\ DecisionsFollow'
  <2>1. PICK to \in {"accepted", "guided"} : Decide(d, e, to)
        BY <1>6 DEF handleApprove, handleReject
  <2>2. page.name \in HubLinks
        BY <2>1 DEF Decide, ListedOnHub, ListedOnPage, On, HubLinks
  <2>3. page' = [page EXCEPT !.actionId = e]
        BY <2>1 DEF Decide
  <2>4. Keeps(page, page')
        BY <1>1, <2>2, <2>3 DEF Keeps
  <2>5. DEFINE made == [event |-> e, to |-> to, live |-> TRUE]
  <2>6. made \in Recs
        BY DEF Recs
  <2>7. decisions' = [decisions EXCEPT ![d] = made]
        BY <2>1 DEF Decide
  <2> HIDE DEF made
  <2>8. decisions' \in [Decisions -> Recs]
        BY <1>3, <2>6, <2>7
  <2> QED BY <2>2, <2>4, <2>8 DEF DecisionsFollow, Recs, Keeps
<1>7. ASSUME NEW d \in Decisions, DecisionServed(d) \/ DecisionFails(d)
      PROVE  /\ UNCHANGED page \/ (page.name \in HubLinks /\ Keeps(page, page'))
             /\ DecisionsFollow'
  <2>1. decisions' = [decisions EXCEPT ![d] = Over]
        BY <1>7 DEF DecisionServed, DecisionFails
  <2>2. OnEvents => page.name \in HubLinks
        BY DEF OnEvents, HubLinks
  <2>3. \/ UNCHANGED page
        \/ page.name \in HubLinks /\ page' \in {Refetch(page, "decision"), Slip(page),
                                                Slip(Finally(page))}
        BY <1>3, <1>7, <2>2 DEF DecisionServed, DecisionFails
  <2>4. page.name \in HubLinks =>
           /\ Keeps(page, Refetch(page, "decision")) /\ Keeps(page, Slip(page))
           /\ Keeps(page, Slip(Finally(page)))
    <3> SUFFICES ASSUME page.name \in HubLinks
                 PROVE  /\ Keeps(page, Refetch(page, "decision")) /\ Keeps(page, Slip(page))
                        /\ Keeps(page, Slip(Finally(page)))
        OBVIOUS
    <3>1. Keeps(page, Refetch(page, "decision")) /\ Keeps(page, Slip(page))
          /\ Keeps(page, Finally(page))
          BY <1>1 DEF Keeps, Refetch, Slip, Finally
    <3>2. Keeps(Finally(page), Slip(Finally(page)))
          BY <3>1 DEF Keeps, Slip
    <3> QED BY <3>1, <3>2 DEF Keeps
  <2>5. UNCHANGED page \/ (page.name \in HubLinks /\ Keeps(page, page'))
        BY <2>3, <2>4
  <2> QED BY <1>5, <2>1, <2>5
<1>8. ASSUME UNCHANGED decisions, page.name \in HubLinks, Keeps(page, page')
      PROVE  DecisionsFollow'
      BY <1>3, <1>8 DEF DecisionsFollow, Recs, Keeps
<1>9. ASSUME \/ handleRegenDiagram \/ RegenFails \/ RegenTimer
             \/ \E f \in Severities : SetFilter(f)
      PROVE  page.name \in HubLinks /\ Keeps(page, page')
  <2>1. page.name \in HubLinks
        BY <1>9 DEF handleRegenDiagram, RegenButton, RegenFails, RegenTimer, SetFilter,
                    On, HubLinks
  <2>2. CASE RegenTimer
    <3>1. Keeps(page, Refetch(page, "timer"))
          BY <1>1, <2>1 DEF Keeps, Refetch
    <3> QED BY <2>1, <2>2, <3>1 DEF RegenTimer, Keeps
  <2>3. CASE handleRegenDiagram \/ RegenFails
        BY <1>1, <2>1, <2>3 DEF handleRegenDiagram, RegenFails, Keeps
  <2>4. ASSUME NEW f \in Severities, SetFilter(f) PROVE Keeps(page, page')
        BY <1>1, <2>1, <2>4 DEF SetFilter, Keeps
  <2> QED BY <1>9, <2>1, <2>2, <2>3, <2>4
<1>10. ASSUME OnEvents, NEW k \in DOMAIN page.reads,
              FetchServed(k) \/ fetchAll(k) \/ FetchFails(k)
      PROVE  page.name \in HubLinks /\ Keeps(page, page')
  <2>1. page.name \in HubLinks /\ "name" \in DOMAIN page
        BY <1>1, <1>10 DEF OnEvents, HubLinks
  <2>2. CASE FetchServed(k)
        BY <2>1, <2>2 DEF FetchServed, Keeps
  <2>3. Keeps(page, Settle(k))
        BY <2>1 DEF Settle, Finally, Keeps
  <2>4. CASE fetchAll(k)
    <3>1. Keeps(Settle(k), Overtakes(Settle(k), k))
          BY <2>3 DEF Overtakes, Slip, Keeps
    <3>2. Keeps(page, Taken(Overtakes(Settle(k), k), k))
          BY <2>3, <3>1 DEF Taken, Keeps
    <3> HIDE DEF Keeps
    <3> QED BY <2>1, <2>4, <3>2 DEF fetchAll, Keeps
  <2>5. CASE FetchFails(k)
    <3>1. Keeps(page, Slip(Settle(k)))
          BY <2>3 DEF Slip, Keeps
    <3>2. Keeps(page, Taken(Slip(Settle(k)), k))
          BY <3>1 DEF Taken, Keeps
    <3> QED BY <2>1, <2>5, <3>2 DEF FetchFails
  <2> QED BY <1>10, <2>1, <2>2, <2>4, <2>5
<1>11. ASSUME \/ handleRegenDiagram \/ RegenFails \/ RegenTimer
              \/ \E f \in Severities : SetFilter(f)
              \/ OnEvents /\ \E k \in DOMAIN page.reads :
                    FetchServed(k) \/ fetchAll(k) \/ FetchFails(k),
              UNCHANGED <<drift, decisions>>
      PROVE  page.name \in HubLinks /\ Keeps(page, page') /\ DecisionsFollow'
  <2>1. page.name \in HubLinks /\ Keeps(page, page')
        BY <1>9, <1>10, <1>11
  <2> QED BY <1>8, <1>11, <2>1
<1> QED BY <1>6, <1>7, <1>11 DEF EventPages

LEMMA ChoicePagesStay ==
    ASSUME Good, ChoicePages
    PROVE  page.name \in HubLinks /\ Keeps(page, page')
<1>1. page.name \in HubLinks
      BY DEF ChoicePages, SetLayer, SetPeriod, Refresh, handleRescan, RescanButton,
             RescanTimer, OnChoice, On, HubLinks
<1>2. "name" \in DOMAIN page
      BY <1>1, OnProjectPage DEF Good
<1>3. ASSUME NEW choices, NEW choice, Choose(choices, choice) PROVE Keeps(page, page')
  <2>1. Keeps(page, [page EXCEPT !.choice = choice])
        BY <1>2 DEF Keeps
  <2>2. page' = Fetch([page EXCEPT !.choice = choice], choice)
        BY <1>3 DEF Choose
  <2> QED BY <2>1, <2>2, FetchKeeps
<1>4. CASE Refresh
  <2>1. page' = Fetch(page, page.choice)
        BY <1>4 DEF Refresh
  <2>2. Keeps(page, page)
        BY <1>2 DEF Keeps
  <2> QED BY <1>1, <2>1, <2>2, FetchKeeps
<1>5. CASE handleRescan
      BY <1>1, <1>2, <1>5 DEF handleRescan, Keeps
<1>6. CASE RescanTimer
  <2>1. DEFINE from == IF page.scanning = page.choice THEN page ELSE Slip(page)
               to == Fetch(from, page.scanning)
  <2>2. Keeps(page, from)
        BY <1>2 DEF Slip, Keeps
  <2>3. page' = [to EXCEPT !.scanning = None]
        BY <1>6 DEF RescanTimer
  <2>4. Keeps(page, to)
        BY <2>2, FetchKeeps
  <2> HIDE DEF to, from
  <2> QED BY <1>1, <2>3, <2>4 DEF Keeps
<1>7. ASSUME NEW k, listAnswered(k) \/ ListFails(k) PROVE Keeps(page, page')
  <2>1. Keeps(page, Taken(page, k))
        BY <1>2 DEF Taken, Keeps
  <2>2. Keeps(page, Answered(k))
        BY <2>1 DEF Answered, Keeps
  <2>3. Keeps(page, Slip(Answered(k))) /\ Keeps(page, Overtakes(Answered(k), k))
        BY <2>2 DEF Overtakes, Slip, Keeps
  <2>4. CASE listAnswered(k)
        BY <2>3, <2>4 DEF listAnswered, Keeps
  <2> QED BY <1>7, <2>3, <2>4 DEF ListFails
<1> QED BY <1>1, <1>3, <1>4, <1>5, <1>6, <1>7 DEF ChoicePages, SetLayer, SetPeriod

LEMMA KeptElsewhere ==
    ASSUME Good, page.name \in HubLinks, Keeps(page, page')
    PROVE  page.name # "onboarding" /\ Named(page')
BY OnProjectPage DEF Good, Keeps, Named

(* Leaving for a page of the project, or for the login page.               *)
LEMMA OpenProjectGood ==
    ASSUME Good, UNCHANGED db, OpenProject \/ HubUnauthorized
    PROVE  Good'
<1>1. page.name # "onboarding"
      BY DEF OpenProject, HubUnauthorized, HubAsks, HubLinks, OnEvents, OnChoice, Good,
             LiveOnPage
<1>2. Named(page')
  <2>1. Named(GovernancePage)
        BY DEF GovernancePage, Named
  <2>2. "name" \in DOMAIN DriftPage /\ DriftPage.name = "drift"
        BY <2>1 DEF DriftPage, Named
  <2>3. Named(AuditLogPage) /\ Named(InfraMetrics) /\ Named(LoginPage)
        BY DEF AuditLogPage, InfraMetrics, ChoicePage, LoginPage, Named
  <2> QED BY <2>1, <2>2, <2>3 DEF OpenProject, HubUnauthorized, Named
<1>3. DEFINE left(d) == [decisions[d] EXCEPT !.live = FALSE]
<1>4. \A d \in Decisions :
           /\ left(d) \in [event : Events \cup {None}, live : BOOLEAN,
                           to : {None, "over", "accepted", "guided"}]
           /\ ~left(d).live
      BY DEF Good, Shape
<1>5. decisions' = [d \in Decisions |-> left(d)]
      BY DEF OpenProject, HubUnauthorized
<1> HIDE DEF left
<1>6. DecisionsFollow'
      BY <1>4, <1>5 DEF DecisionsFollow
<1>7. UNCHANGED scanning
      BY DEF OpenProject, HubUnauthorized, db, scanning
<1> QED BY <1>1, <1>2, <1>6, <1>7, ElsewhereGood DEF Elsewhere

-----------------------------------------------------------------------------
LEMMA GoodStep ==
    ASSUME Good, [GovernanceNext]_vars, ~late' PROVE Good'
<1>1. CASE Journey
      BY <1>1, JourneyGood
<1>2. CASE Worker /\ UNCHANGED <<onboardingVars, audit, decisions>>
  <2>1. UNCHANGED <<page, decisions>> /\ UNCHANGED scanning
        BY <1>2 DEF onboardingVars, db, scanning
  <2>2. DecisionsFollow'
        BY <2>1 DEF Good, Shape, LiveOnPage, DecisionsFollow
  <2> QED BY <2>1, <2>2, ElsewhereGood DEF Elsewhere
<1>3. CASE (OpenProject \/ HubUnauthorized) /\ UNCHANGED db
      BY <1>3, OpenProjectGood
<1>4. CASE EventPages /\ UNCHANGED <<signedUp, token, db, confirms, late, worker>>
  <2>1. UNCHANGED scanning
        BY <1>4 DEF db, scanning
  <2>2. Elsewhere /\ DecisionsFollow'
        BY <1>4, EventPagesStay, KeptElsewhere DEF Elsewhere
  <2> QED BY <2>1, <2>2, ElsewhereGood
<1>5. CASE ChoicePages /\ UNCHANGED <<signedUp, token, db, confirms, late, drift, worker,
                                      decisions>>
  <2>1. UNCHANGED scanning
        BY <1>5 DEF db, scanning
  <2>2. page.name \in HubLinks /\ Keeps(page, page')
        BY <1>5, ChoicePagesStay
  <2>3. Elsewhere
        BY <2>2, KeptElsewhere DEF Elsewhere
  <2>4. DecisionsFollow'
        BY <1>5, <2>2 DEF Good, Shape, LiveOnPage, DecisionsFollow, Keeps
  <2> QED BY <2>1, <2>3, <2>4, ElsewhereGood
<1>6. CASE UNCHANGED vars
  <2>1. UNCHANGED <<page, decisions>> /\ UNCHANGED scanning
        BY <1>6 DEF vars, onboardingVars, governance, db, scanning
  <2>2. DecisionsFollow'
        BY <2>1 DEF Good, Shape, LiveOnPage, DecisionsFollow
  <2> QED BY <2>1, <2>2, ElsewhereGood DEF Elsewhere
<1> QED BY <1>1, <1>2, <1>3, <1>4, <1>5, <1>6 DEF GovernanceNext

LEMMA LateStays ==
    ASSUME [GovernanceNext]_vars, ~late' PROVE ~late
<1>1. CASE Onboard
  <2>1. ASSUME NEW p \in Polls, PollAnswered(p) PROVE ~late
    <3>1. late' = (late \/ page.polls[p].old)
          BY <2>1 DEF PollAnswered
    <3> QED BY <3>1
  <2> QED BY <1>1, <2>1 DEF Onboard
<1>2. UNCHANGED late \/ Onboard
      BY DEF GovernanceNext, Journey, OnboardingNext, Move, _run_scan, vars, onboardingVars
<1> QED BY <1>1, <1>2

(* Whatever polls are answered when, and however often a confirm is sent, lost
   or overtaken by another page: what a scan found is registered once, until
   an answer from before clearInterval has come too late.                  *)
THEOREM ScansAreConfirmedOnce == GovernanceSpec => []ConfirmedOnce
<1>1. GovernanceInit => ConfirmInv
  <2> SUFFICES ASSUME GovernanceInit PROVE Good
      BY DEF ConfirmInv
  <2>1. NoDecision \in [event : Events \cup {None}, live : BOOLEAN,
                        to : {None, "over", "accepted", "guided"}] /\ ~NoDecision.live
        BY DEF NoDecision
  <2>2. Shape
        BY <2>1, NoConfirmEffect DEF GovernanceInit, OnboardingInit, Shape, Named,
                                     LandingPage, ScanStatus, ConfirmRecs
  <2>3. page.name = "landing"
        BY DEF GovernanceInit, OnboardingInit, LandingPage
  <2>4. PollsFollow /\ OfferIsOpen
        BY <2>3 DEF PollsFollow, OfferIsOpen, On
  <2>5. OneConfirm /\ LiveOnPage
        BY <2>1, NoConfirmEffect DEF GovernanceInit, OnboardingInit, OneConfirm, LiveOnPage,
                                     Unconfirmed
  <2> QED BY <2>2, <2>4, <2>5 DEF Good
<1>2. ConfirmInv /\ [GovernanceNext]_vars => ConfirmInv'
      BY GoodStep, LateStays DEF ConfirmInv
<1>3. ConfirmInv => ConfirmedOnce
  <2> SUFFICES ASSUME ConfirmInv, NEW s \in Scans, registered[s] > 1 PROVE late
      BY DEF ConfirmedOnce
  <2>1. (registered[s] \in Nat /\ registered[s] <= 1) \/ late
        BY DEF ConfirmInv, Good, Shape, OneConfirm
  <2> QED BY <2>1
<1> QED BY <1>1, <1>2, <1>3, PTL DEF GovernanceSpec

-----------------------------------------------------------------------------
(* What holds however late a poll is answered: the types, and what the       *)
(* pages of the project show.                                                *)

(* A page that polls, or offers to confirm, knows its scan.                *)
KnowsScan(p) ==
    p.interval \/ p.status = "pending_confirm" \/ (\E q \in Polls : p.polls[q].seen # "idle")
        => p.scanId \in Scans
PlainPages == {"landing", "login", "signup", "connect", "dashboard"}
Plain(p)   == "name" \in DOMAIN p /\ p.name \in PlainPages

SeenLists == {Unserved} \cup [Events -> Statuses]
ListReads == [why : {"open", "decision", "timer"}, seen : SeenLists]
EventsPages ==
    [name : {"hub", "drift"}, loaded : BOOLEAN, shown : [Events -> Statuses],
     actionId : Events \cup {None}, filter : Severities, regenerating : BOOLEAN,
     reads : Seq(ListReads), slipped : BOOLEAN]
AnyChoice == Layers \cup Periods
ChoicesPages ==
    [name : {"audit", "metrics"}, choice : AnyChoice, shown : AnyChoice \cup {None},
     loading : BOOLEAN, scanning : Periods \cup {None}, reads : Seq(AnyChoice),
     slipped : BOOLEAN]

(* Unless the page has slipped, the read that was sent last will bring what is
   current by now, and what is shown is current when none is out.          *)
Matches(list, ev) == \A e \in Events : list[e] \in {"absent", ev[e]}
Current(p, ev) ==
    p.slipped \/ IF p.reads = <<>> THEN Matches(p.shown, ev)
                 ELSE p.reads[Len(p.reads)].seen = Unserved
                         \/ Matches(p.reads[Len(p.reads)].seen, ev)
FitsChoice(p) ==
    /\ p.loading => p.reads # <<>>
    /\ p.slipped \/ IF p.reads = <<>> THEN p.shown = p.choice
                    ELSE p.reads[Len(p.reads)] = p.choice

EventsOK(p, ev) == p \in EventsPages /\ Len(p.reads) <= MaxReads /\ Current(p, ev)
ChoiceOK(p) ==
    /\ p \in ChoicesPages /\ Len(p.reads) <= MaxReads /\ FitsChoice(p)
    /\ p.name = "metrics" => p.choice \in Periods
ScanPageOK(p) == p \in OnboardingPages /\ KnowsScan(p)
PageInv(p, ev) == ScanPageOK(p) \/ EventsOK(p, ev) \/ ChoiceOK(p) \/ Plain(p)

(* A confirm in flight names a scan.  A scan is registered by the confirms
   that had tested it before the first of them deleted it.                 *)
Tested(s) == {c \in Confirms : confirms[c].at = "checked" /\ confirms[c].scan = s}
BooksInv ==
    /\ scans \in [Scans -> ScanStatus]
    /\ registered \in [Scans -> Nat]
    /\ newest \in Scans \cup {None, Confirmed}
    /\ confirms \in [Confirms -> ConfirmRecs]
    /\ \A c \in Confirms : confirms[c] = NoConfirm \/ confirms[c].scan \in Scans
    /\ \A s \in Scans : /\ scans[s] # "gone" => registered[s] = 0
                        /\ registered[s] + Cardinality(Tested(s)) <= Cardinality(Confirms)

DecisionRecs == {NoDecision, Over}
                   \cup [event : Events, to : {"accepted", "guided"}, live : BOOLEAN]
DecisionsInv == decisions \in [Decisions -> DecisionRecs]

(* What is live belongs to the mounted page. *)
LiveInv ==
    /\ \A c \in Confirms : confirms[c].live => page.name = "onboarding"
    /\ \A d \in Decisions : decisions[d].live => page.name \in {"hub", "drift"}

(* Every message stands for a change.                                      *)
DriftInv ==
    /\ event \in [Events -> Statuses]
    /\ audit \in [Events -> SUBSET {"drift_approve", "drift_reject"}]
    /\ queue \in Nat /\ todo \in Baselines /\ changes \in 0..MaxChanges
    /\ queue + (IF todo > 0 THEN 1 ELSE 0) <= changes

FlagsInv == {signedUp, token, account, late} \subseteq BOOLEAN
GovernanceInv ==
    /\ FlagsInv /\ PageInv(page, event) /\ BooksInv /\ DecisionsInv /\ LiveInv /\ DriftInv

-----------------------------------------------------------------------------
(* The lists of the hub and of the drift page, whatever the events are by now. *)

(* An answer is taken out of the reads that are out; the one that was sent
   last stays, unless it is the one that is answered.                      *)
LEMMA RemoveAtEffect ==
    ASSUME NEW S, NEW s \in Seq(S), NEW k \in DOMAIN s, NEW rest, rest = RemoveAt(s, k)
    PROVE  /\ rest \in Seq(S) /\ Len(rest) = Len(s) - 1
           /\ k = 1 /\ Len(s) > 1 => rest # <<>> /\ rest[Len(rest)] = s[Len(s)]
<1>0. k \in 1..Len(s) /\ Len(s) \in Nat
      BY LenProperties
<1>1. PICK a, b : a = SubSeq(s, 1, k - 1) /\ b = SubSeq(s, k + 1, Len(s))
      OBVIOUS
<1>2. a \in Seq(S) /\ Len(a) = k - 1
      BY <1>0, <1>1, SubSeqProperties
<1>3. b \in Seq(S) /\ Len(b) = Len(s) - k
      BY <1>0, <1>1, SubSeqProperties
<1>4. \A i \in 1..Len(b) : b[i] = s[k + i]
      BY <1>0, <1>1, SubSeqProperties
<1>5. /\ rest \in Seq(S) /\ Len(rest) = Len(a) + Len(b)
      /\ \A i \in 1..Len(rest) : rest[i] = IF i <= Len(a) THEN a[i] ELSE b[i - Len(a)]
  <2>1. rest = a \o b
        BY <1>1 DEF RemoveAt
  <2>2. /\ a \o b \in Seq(S) /\ Len(a \o b) = Len(a) + Len(b)
        /\ \A i \in 1..Len(a) + Len(b) :
              (a \o b)[i] = IF i <= Len(a) THEN a[i] ELSE b[i - Len(a)]
        BY <1>2, <1>3, ConcatProperties
  <2> QED BY <2>1, <2>2
<1>6. ASSUME k = 1, Len(s) > 1 PROVE rest # <<>> /\ rest[Len(rest)] = s[Len(s)]
  <2>1. Len(a) = 0 /\ Len(b) = Len(s) - 1 /\ Len(rest) = Len(s) - 1
        BY <1>0, <1>2, <1>3, <1>5, <1>6
  <2>2. rest[Len(rest)] = b[Len(b)]
        BY <1>0, <1>5, <1>6, <2>1
  <2>3. b[Len(b)] = s[Len(s)]
        BY <1>0, <1>4, <1>6, <2>1
  <2>4. rest # <<>>
        BY <1>0, <1>6, <2>1
  <2> QED BY <2>2, <2>3, <2>4
<1> QED BY <1>0, <1>2, <1>3, <1>5, <1>6

LEMMA SomethingOut ==
    ASSUME NEW S, NEW s \in Seq(S), NEW k \in 1..Len(s)
    PROVE  s # <<>> /\ (Len(s) = 1 \/ Len(s) > 1)
<1>1. PICK n \in Nat : n = Len(s)
      BY LenProperties
<1>2. k \in 1..n
      BY <1>1
<1>3. n >= 1
      BY <1>2
<1>4. n = 1 \/ n > 1
      BY <1>3
<1>5. s # <<>>
      BY <1>1, <1>3
<1> QED BY <1>1, <1>4, <1>5

LEMMA AppendEffect ==
    ASSUME NEW S, NEW s \in Seq(S), NEW x \in S, NEW more, more = Append(s, x)
    PROVE  more \in Seq(S) /\ Len(more) = Len(s) + 1 /\ more # <<>> /\ more[Len(more)] = x
OBVIOUS

LEMMA ReadsOfEvents ==
    \A why \in {"open", "decision", "timer"} :
        Read(why) \in ListReads /\ Read(why).seen = Unserved
BY DEF Read, ListReads, SeenLists

(* What was just sent will bring the list of a later moment.               *)
LEMMA RefetchOK ==
    ASSUME NEW p \in EventsPages, Len(p.reads) < MaxReads, NEW ev,
           NEW why \in {"open", "decision", "timer"}, NEW q, q = Refetch(p, why)
    PROVE  EventsOK(q, ev)
<1>1. p.reads \in Seq(ListReads) /\ Len(p.reads) \in Nat
      BY LenProperties DEF EventsPages
<1>2. PICK reads : reads = Append(p.reads, Read(why))
      OBVIOUS
<1>3. /\ reads \in Seq(ListReads) /\ Len(reads) = Len(p.reads) + 1 /\ reads # <<>>
      /\ reads[Len(reads)] = Read(why)
      BY <1>1, <1>2, ReadsOfEvents, AppendEffect
<1>4. q = [p EXCEPT !.reads = reads]
      BY <1>2 DEF Refetch
<1>5. q \in EventsPages /\ q.reads = reads
      BY <1>3, <1>4 DEF EventsPages
<1>6. Len(q.reads) <= MaxReads
      BY <1>1, <1>3, <1>5, GovernanceAssumption
<1>7. Current(q, ev)
      BY <1>3, <1>5, ReadsOfEvents DEF Current
<1> QED BY <1>5, <1>6, <1>7 DEF EventsOK

LEMMA SlipOK ==
    ASSUME NEW p \in EventsPages, Len(p.reads) <= MaxReads, NEW ev
    PROVE  /\ EventsOK(Slip(p), ev) /\ Slip(p).reads = p.reads /\ Slip(p).slipped
<1>1. Slip(p) \in EventsPages /\ Slip(p).reads = p.reads /\ Slip(p).slipped
      BY DEF Slip, EventsPages
<1> QED BY <1>1 DEF EventsOK, Current

LEMMA FinallyOK ==
    ASSUME NEW p, NEW ev, EventsOK(p, ev)
    PROVE  EventsOK(Finally(p), ev) /\ Finally(p).reads = p.reads
<1>1. /\ Finally(p) \in EventsPages /\ Finally(p).reads = p.reads
      /\ Finally(p).slipped = p.slipped /\ Finally(p).shown = p.shown
      BY DEF Finally, EventsOK, EventsPages
<1> QED BY <1>1 DEF EventsOK, Current

(* The oldest answer replaces the list; any other marks the page.          *)
LEMMA AnswerOK ==
    ASSUME NEW p, NEW ev, EventsOK(p, ev), NEW k \in DOMAIN p.reads, NEW list, NEW q,
           list = p.reads[k].seen, list # Unserved,
           q = [Taken(Overtakes(p, k), k) EXCEPT !.shown = list, !.loaded = TRUE]
    PROVE  EventsOK(q, ev)
<1>0. p \in EventsPages /\ Len(p.reads) <= MaxReads /\ Current(p, ev)
      BY DEF EventsOK
<1>1. p.reads \in Seq(ListReads) /\ Len(p.reads) \in Nat /\ k \in 1..Len(p.reads)
      BY <1>0, LenProperties DEF EventsPages
<1>2. list \in [Events -> Statuses]
  <2>1. p.reads[k] \in ListReads
        BY <1>1, ElementOfSeq
  <2> QED BY <2>1 DEF ListReads, SeenLists
<1>3. PICK rest : rest = RemoveAt(p.reads, k)
      OBVIOUS
<1>4. /\ rest \in Seq(ListReads) /\ Len(rest) = Len(p.reads) - 1
      /\ k = 1 /\ Len(p.reads) > 1 => rest # <<>> /\ rest[Len(rest)] = p.reads[Len(p.reads)]
      BY <1>1, <1>3, RemoveAtEffect
<1>5. PICK o : o = Overtakes(p, k)
      OBVIOUS
<1>6. o \in EventsPages /\ o.reads = p.reads /\ (o = p \/ o.slipped) /\ (k = 1 => o = p)
      /\ (k # 1 => o.slipped)
      BY <1>0, <1>5, SlipOK DEF Overtakes, EventsOK
<1>7. PICK r : r = [o EXCEPT !.reads = rest]
      OBVIOUS
<1>8. r \in EventsPages /\ r.reads = rest /\ r.slipped = o.slipped
      BY <1>4, <1>6, <1>7 DEF EventsPages
<1>9. q = [r EXCEPT !.shown = list, !.loaded = TRUE]
      BY <1>3, <1>5, <1>6, <1>7 DEF Taken
<1>10. q \in EventsPages /\ q.reads = rest /\ q.slipped = o.slipped /\ q.shown = list
      BY <1>2, <1>8, <1>9 DEF EventsPages
<1>11. Len(q.reads) <= MaxReads
      BY <1>0, <1>1, <1>4, <1>10, GovernanceAssumption
<1>12. Current(q, ev)
  <2>1. CASE k # 1
        BY <1>6, <1>10, <2>1 DEF Current
  <2>2. CASE k = 1 /\ Len(p.reads) = 1
    <3>1. p.slipped \/ Matches(list, ev)
          BY <1>0, <1>1, <2>2 DEF Current
    <3>2. rest = <<>>
          BY <1>4, <2>2, EmptySeq
    <3> QED BY <1>6, <1>10, <2>2, <3>1, <3>2 DEF Current
  <2>3. CASE k = 1 /\ Len(p.reads) > 1
    <3>1. p.reads # <<>>
          BY <1>1, SomethingOut
    <3> QED BY <1>0, <1>4, <1>6, <1>10, <2>3, <3>1 DEF Current
  <2>4. Len(p.reads) = 1 \/ Len(p.reads) > 1
        BY <1>1, SomethingOut
  <2> QED BY <2>1, <2>2, <2>3, <2>4
<1> QED BY <1>10, <1>11, <1>12 DEF EventsOK

LEMMA LostAnswerOK ==
    ASSUME NEW p, NEW ev, EventsOK(p, ev), NEW k \in DOMAIN p.reads, NEW q,
           q = Taken(Slip(p), k)
    PROVE  EventsOK(q, ev)
<1>0. p \in EventsPages /\ Len(p.reads) <= MaxReads
      BY DEF EventsOK
<1>1. p.reads \in Seq(ListReads) /\ Len(p.reads) \in Nat
      BY <1>0, LenProperties DEF EventsPages
<1>2. PICK rest : rest = RemoveAt(p.reads, k)
      OBVIOUS
<1>3. rest \in Seq(ListReads) /\ Len(rest) = Len(p.reads) - 1
      BY <1>1, <1>2, RemoveAtEffect
<1>4. PICK o : o = Slip(p)
      OBVIOUS
<1>5. o \in EventsPages /\ o.reads = p.reads /\ o.slipped
      BY <1>0, <1>4, SlipOK DEF EventsOK
<1>6. q = [o EXCEPT !.reads = rest]
      BY <1>2, <1>4, <1>5 DEF Taken
<1>7. q \in EventsPages /\ q.reads = rest /\ q.slipped
      BY <1>3, <1>5, <1>6 DEF EventsPages
<1> QED BY <1>0, <1>1, <1>3, <1>7, GovernanceAssumption DEF EventsOK, Current

(* The database is looked at: what a read sees is current at that moment.  *)
LEMMA LookOK ==
    ASSUME NEW p, NEW ev \in [Events -> Statuses], EventsOK(p, ev), NEW k \in DOMAIN p.reads,
           NEW q, q = [p EXCEPT !.reads[k].seen = ev]
    PROVE  EventsOK(q, ev)
<1>0. p \in EventsPages /\ Len(p.reads) <= MaxReads /\ Current(p, ev)
      BY DEF EventsOK
<1>1. p.reads \in Seq(ListReads) /\ Len(p.reads) \in Nat /\ k \in 1..Len(p.reads)
      BY <1>0, LenProperties DEF EventsPages
<1>2. PICK read : read = [p.reads[k] EXCEPT !.seen = ev]
      OBVIOUS
<1>3. read \in ListReads /\ read.seen = ev
  <2>1. p.reads[k] \in ListReads
        BY <1>1, ElementOfSeq
  <2> QED BY <1>2, <2>1 DEF ListReads, SeenLists
<1>4. PICK reads : reads = [p.reads EXCEPT ![k] = read]
      OBVIOUS
<1>5. /\ reads \in Seq(ListReads) /\ Len(reads) = Len(p.reads)
      /\ reads[k] = read /\ \A i \in 1..Len(p.reads) : i # k => reads[i] = p.reads[i]
      BY <1>1, <1>3, <1>4, ExceptSeq
<1>6. q = [p EXCEPT !.reads = reads]
      BY <1>2, <1>4
<1>7. q \in EventsPages /\ q.reads = reads /\ q.slipped = p.slipped
      BY <1>0, <1>5, <1>6 DEF EventsPages
<1>8. Current(q, ev)
  <2>1. reads # <<>> /\ p.reads # <<>> /\ Len(p.reads) \in 1..Len(p.reads)
        BY <1>1, <1>5
  <2>2. CASE k = Len(p.reads)
    <3>1. Matches(ev, ev)
          BY DEF Matches
    <3> QED BY <1>3, <1>5, <1>7, <2>1, <2>2, <3>1 DEF Current
  <2>3. CASE k # Len(p.reads)
        BY <1>0, <1>5, <1>7, <2>1, <2>3 DEF Current
  <2> QED BY <2>2, <2>3
<1> QED BY <1>0, <1>5, <1>7, <1>8 DEF EventsOK

(* A new event appears; no list has shown it before.                       *)
LEMMA NewEventOK ==
    ASSUME NEW p, NEW ev \in [Events -> Statuses], EventsOK(p, ev), NEW e \in Events,
           ev[e] = "absent", NEW ev2, ev2 = [ev EXCEPT ![e] = "detected"]
    PROVE  EventsOK(p, ev2)
<1>1. \A list : Matches(list, ev) => Matches(list, ev2)
      BY DEF Matches
<1> QED BY <1>1 DEF EventsOK, Current

-----------------------------------------------------------------------------
(* The choice and the list of the audit page and of the metrics panel.     *)

LEMMA ChosenOK ==
    ASSUME NEW p \in ChoicesPages, Len(p.reads) < MaxReads, NEW c \in AnyChoice,
           p.choice = c \/ p.slipped, p.name = "metrics" => p.choice \in Periods,
           NEW q, q = Fetch(p, c)
    PROVE  ChoiceOK(q) /\ q.name = p.name
<1>1. p.reads \in Seq(AnyChoice) /\ Len(p.reads) \in Nat
      BY LenProperties DEF ChoicesPages
<1>2. PICK reads : reads = Append(p.reads, c)
      OBVIOUS
<1>3. /\ reads \in Seq(AnyChoice) /\ Len(reads) = Len(p.reads) + 1 /\ reads # <<>>
      /\ reads[Len(reads)] = c
      BY <1>1, <1>2, AppendEffect
<1>4. q = [p EXCEPT !.reads = reads, !.loading = TRUE]
      BY <1>2 DEF Fetch
<1>5. /\ q \in ChoicesPages /\ q.reads = reads /\ q.name = p.name /\ q.choice = p.choice
      /\ q.slipped = p.slipped
      BY <1>3, <1>4 DEF ChoicesPages
<1>6. Len(q.reads) <= MaxReads
      BY <1>1, <1>3, <1>5, GovernanceAssumption
<1> QED BY <1>3, <1>5, <1>6 DEF ChoiceOK, FitsChoice

(* An answer that is not the oldest, or that is lost, marks the page.      *)
LEMMA ListOK ==
    ASSUME NEW p, ChoiceOK(p), NEW k \in DOMAIN p.reads, NEW a,
           a = [Taken(p, k) EXCEPT !.loading = FALSE]
    PROVE  /\ a \in ChoicesPages /\ Slip(a) \in ChoicesPages /\ ChoiceOK(Slip(a))
           /\ ChoiceOK([Overtakes(a, k) EXCEPT !.shown = p.reads[k]])
<1>0. /\ p \in ChoicesPages /\ Len(p.reads) <= MaxReads /\ FitsChoice(p)
      /\ p.name = "metrics" => p.choice \in Periods
      BY DEF ChoiceOK
<1>1. p.reads \in Seq(AnyChoice) /\ Len(p.reads) \in Nat /\ k \in 1..Len(p.reads)
      BY <1>0, LenProperties DEF ChoicesPages
<1>2. PICK rest : rest = RemoveAt(p.reads, k)
      OBVIOUS
<1>3. /\ rest \in Seq(AnyChoice) /\ Len(rest) = Len(p.reads) - 1
      /\ k = 1 /\ Len(p.reads) > 1 => rest # <<>> /\ rest[Len(rest)] = p.reads[Len(p.reads)]
      BY <1>1, <1>2, RemoveAtEffect
<1>4. PICK t : t = Taken(p, k)
      OBVIOUS
<1>5. t = [p EXCEPT !.reads = rest]
      BY <1>2, <1>4 DEF Taken
<1>6. t \in ChoicesPages /\ t.reads = rest /\ t.name = p.name /\ t.choice = p.choice
      /\ t.slipped = p.slipped
      BY <1>0, <1>3, <1>5 DEF ChoicesPages
<1>7. /\ a \in ChoicesPages /\ a.reads = rest /\ a.name = p.name /\ a.choice = p.choice
      /\ a.slipped = p.slipped /\ ~a.loading
      BY <1>4, <1>6 DEF ChoicesPages
<1>8. PICK s : s = Slip(a)
      OBVIOUS
<1>9. /\ s \in ChoicesPages /\ s.reads = rest /\ s.name = p.name /\ s.choice = p.choice
      /\ s.slipped /\ ~s.loading
      BY <1>7, <1>8 DEF ChoicesPages, Slip
<1>10. Len(rest) <= MaxReads
      BY <1>0, <1>1, <1>3, GovernanceAssumption
<1>11. ChoiceOK(s)
      BY <1>0, <1>9, <1>10 DEF ChoiceOK, FitsChoice
<1>12. p.reads[k] \in AnyChoice
      BY <1>1, ElementOfSeq
<1>13. PICK list : list = p.reads[k]
      OBVIOUS
<1>14. CASE k # 1
  <2>1. PICK q : q = [s EXCEPT !.shown = list]
        OBVIOUS
  <2>2. /\ q \in ChoicesPages /\ q.reads = rest /\ q.name = p.name /\ q.choice = p.choice
        /\ q.slipped /\ ~q.loading
        BY <1>9, <1>12, <1>13, <2>1 DEF ChoicesPages
  <2>3. ChoiceOK(q)
        BY <1>0, <1>10, <2>2 DEF ChoiceOK, FitsChoice
  <2> QED BY <1>7, <1>8, <1>9, <1>11, <1>13, <1>14, <2>1, <2>3 DEF Overtakes
<1>15. CASE k = 1
  <2>1. PICK q : q = [a EXCEPT !.shown = list]
        OBVIOUS
  <2>2. /\ q \in ChoicesPages /\ q.reads = rest /\ q.name = p.name /\ q.choice = p.choice
        /\ q.slipped = p.slipped /\ ~q.loading /\ q.shown = list
        BY <1>7, <1>12, <1>13, <2>1 DEF ChoicesPages
  <2>3. q.slipped \/ IF q.reads = <<>> THEN q.shown = q.choice
                     ELSE q.reads[Len(q.reads)] = q.choice
    <3>1. CASE Len(p.reads) = 1
      <4>1. rest = <<>>
            BY <1>3, <3>1, EmptySeq
      <4>2. p.slipped \/ list = p.choice
            BY <1>0, <1>1, <1>13, <1>15, <3>1 DEF FitsChoice
      <4> QED BY <2>2, <4>1, <4>2
    <3>2. CASE Len(p.reads) > 1
      <4>1. p.reads # <<>>
            BY <1>1, SomethingOut
      <4> QED BY <1>0, <1>3, <1>15, <2>2, <3>2, <4>1 DEF FitsChoice
    <3>3. Len(p.reads) = 1 \/ Len(p.reads) > 1
          BY <1>1, SomethingOut
    <3> QED BY <3>1, <3>2, <3>3
  <2>4. ChoiceOK(q)
        BY <1>0, <1>10, <2>2, <2>3 DEF ChoiceOK, FitsChoice
  <2> QED BY <1>7, <1>8, <1>9, <1>11, <1>13, <1>15, <2>1, <2>4 DEF Overtakes
<1> QED BY <1>14, <1>15

-----------------------------------------------------------------------------
(* Which of the pages is mounted.                                          *)

LEMMA PageCases ==
    ASSUME NEW p, NEW ev, PageInv(p, ev)
    PROVE  /\ p.name \in {"hub", "drift"} => EventsOK(p, ev)
           /\ p.name \in {"audit", "metrics"} => ChoiceOK(p)
           /\ p.name = "onboarding" => ScanPageOK(p)
           /\ p.name \notin HubLinks \cup {"onboarding"} => Plain(p)
BY DEF PageInv, ScanPageOK, EventsOK, ChoiceOK, Plain, OnboardingPages, EventsPages,
       ChoicesPages, PlainPages, HubLinks

(* Only the hub and the drift page show the events.                        *)
LEMMA OtherPages ==
    ASSUME NEW p, NEW ev, NEW ev2, PageInv(p, ev), p.name \notin {"hub", "drift"}
    PROVE  PageInv(p, ev2)
BY DEF PageInv, EventsOK, EventsPages

LEMMA NoReads ==
    ASSUME NEW S, NEW x \in S
    PROVE  <<x>> \in Seq(S) /\ Len(<<x>>) = 1 /\ <<x>> # <<>> /\ <<x>>[1] = x
OBVIOUS

LEMMA HubStarts ==
    ASSUME NEW ev
    PROVE  EventsOK(GovernancePage, ev) /\ EventsOK(DriftPage, ev)
<1>1. PICK reads : reads = <<Read("open")>>
      OBVIOUS
<1>2. /\ reads \in Seq(ListReads) /\ Len(reads) = 1 /\ reads # <<>>
      /\ reads[1].seen = Unserved
      BY <1>1, ReadsOfEvents, NoReads
<1>3. NoEvents \in [Events -> Statuses]
      BY DEF NoEvents, Statuses
<1>4. GovernancePage \in EventsPages /\ GovernancePage.reads = reads
      BY <1>1, <1>2, <1>3 DEF GovernancePage, EventsPages, Severities
<1>5. DriftPage \in EventsPages /\ DriftPage.reads = reads
      BY <1>4 DEF DriftPage, EventsPages
<1>6. 1 <= MaxReads
      BY GovernanceAssumption
<1> QED BY <1>2, <1>4, <1>5, <1>6 DEF EventsOK, Current

LEMMA ChoiceStarts ==
    ChoiceOK(AuditLogPage) /\ ChoiceOK(InfraMetrics)
<1>1. ASSUME NEW name \in {"audit", "metrics"}, NEW c \in AnyChoice,
             name = "metrics" => c \in Periods
      PROVE  ChoiceOK(ChoicePage(name, c))
  <2>1. PICK reads : reads = <<c>>
        OBVIOUS
  <2>2. reads \in Seq(AnyChoice) /\ Len(reads) = 1 /\ reads # <<>> /\ reads[1] = c
        BY <2>1, NoReads
  <2>3. PICK p : p = ChoicePage(name, c)
        OBVIOUS
  <2>4. /\ p \in ChoicesPages /\ p.reads = reads /\ p.choice = c /\ p.name = name
        BY <2>1, <2>2, <2>3 DEF ChoicePage, ChoicesPages
  <2>5. 1 <= MaxReads
        BY GovernanceAssumption
  <2> QED BY <1>1, <2>2, <2>3, <2>4, <2>5 DEF ChoiceOK, FitsChoice
<1>2. "all" \in AnyChoice /\ "1h" \in AnyChoice /\ "1h" \in Periods
      BY GovernanceAssumption DEF AnyChoice
<1> QED BY <1>1, <1>2 DEF AuditLogPage, InfraMetrics

LEMMA OnboardingStarts == ScanPageOK(OnboardingPage)
<1>1. NoPoll \in [seen : PollSeen, old : BOOLEAN] /\ NoPoll.seen = "idle"
      BY DEF NoPoll, PollSeen
<1>2. OnboardingPage \in OnboardingPages
      BY <1>1 DEF OnboardingPage, OnboardingPages
<1>3. /\ ~OnboardingPage.interval /\ OnboardingPage.status = "idle"
      /\ \A q \in Polls : OnboardingPage.polls[q].seen = "idle"
      BY <1>1 DEF OnboardingPage
<1> QED BY <1>2, <1>3 DEF ScanPageOK, KnowsScan

LEMMA PlainStarts ==
    \A p \in {LandingPage, LoginPage, SignupPage, ConnectPage, DashboardPage} :
        Plain(p) /\ p.name \notin HubLinks \cup {"onboarding"}
BY DEF LandingPage, LoginPage, SignupPage, ConnectPage, DashboardPage, Plain, PlainPages,
       HubLinks

-----------------------------------------------------------------------------
(* The steps of the project's pages.                                       *)

LEMMA DecisionMadeEffect ==
    ASSUME DriftInv, NEW d, decisions[d].event \in Events, DecisionMade(d), UNCHANGED worker
    PROVE  DriftInv'
<1>1. PICK e \in Events : e = decisions[d].event
      OBVIOUS
<1>2. approve_drift(e) \/ reject_drift(e)
      BY <1>1 DEF DecisionMade
<1>3. event' \in [Events -> Statuses]
      BY <1>2 DEF DriftInv, approve_drift, reject_drift, Statuses
<1>4. audit' \in [Events -> SUBSET {"drift_approve", "drift_reject"}]
      BY <1>2 DEF DriftInv, approve_drift, reject_drift
<1> QED BY <1>3, <1>4 DEF DriftInv, worker

LEMMA RecordOf ==
    ASSUME NEW E, NEW T, NEW L, NEW r \in [event : E, to : T, live : L]
    PROVE  r = [event |-> r.event, to |-> r.to, live |-> r.live]
OBVIOUS

LEMMA DecisionRecords ==
    /\ Over \in DecisionRecs /\ ~Over.live /\ Over.event = None
    /\ NoDecision \in DecisionRecs /\ ~NoDecision.live /\ NoDecision.event = None
    /\ \A r \in DecisionRecs : /\ r.event # None => r.event \in Events
                               /\ [r EXCEPT !.live = FALSE] \in DecisionRecs
                               /\ ~[r EXCEPT !.live = FALSE].live
<1>0. ASSUME NEW v, NEW w, NEW r, r = [event |-> None, to |-> v, live |-> FALSE]
      PROVE  /\ r.event = None /\ ~r.live /\ [r EXCEPT !.live = FALSE] = r
             /\ [r EXCEPT !.to = w] = [event |-> None, to |-> w, live |-> FALSE]
  <2>1. r \in [event : {None}, to : {v}, live : {FALSE}]
        BY <1>0
  <2>2. PICK a, b : a = [r EXCEPT !.live = FALSE] /\ b = [r EXCEPT !.to = w]
        OBVIOUS
  <2>3. /\ a \in [event : {None}, to : {v}, live : {FALSE}]
        /\ b \in [event : {None}, to : {w}, live : {FALSE}]
        BY <2>1, <2>2
  <2>4. /\ a.event = None /\ a.to = v /\ a.live = FALSE
        /\ b.event = None /\ b.to = w /\ b.live = FALSE
        BY <2>3
  <2>5. a = [event |-> a.event, to |-> a.to, live |-> a.live]
        BY <2>3, RecordOf
  <2>6. b = [event |-> b.event, to |-> b.to, live |-> b.live]
        BY <2>3, RecordOf
  <2> QED BY <1>0, <2>2, <2>4, <2>5, <2>6
<1>1. NoDecision = [event |-> None, to |-> None, live |-> FALSE]
      BY DEF NoDecision
<1>2. Over = [event |-> None, to |-> "over", live |-> FALSE]
      BY <1>0, <1>1 DEF Over
<1>3. ASSUME NEW r \in [event : Events, to : {"accepted", "guided"}, live : BOOLEAN]
      PROVE  /\ [r EXCEPT !.live = FALSE] \in DecisionRecs
             /\ ~[r EXCEPT !.live = FALSE].live
      BY DEF DecisionRecs
<1> QED BY <1>0, <1>1, <1>2, <1>3 DEF DecisionRecs

(* A decision is served or has failed: it is over, and the page of a live one
   reads the events again or knows that it may be wrong.                   *)
LEMMA DecisionOver ==
    ASSUME PageInv(page, event), DecisionsInv, LiveInv, DriftInv, UNCHANGED <<confirms, worker>>,
           NEW d \in Decisions, DecisionServed(d) \/ DecisionFails(d)
    PROVE  PageInv(page', event') /\ DecisionsInv' /\ LiveInv' /\ DriftInv'
<1>1. decisions[d].event \in Events
      BY DecisionRecords DEF DecisionsInv, DecisionServed, DecisionFails
<1>2. DriftInv'
  <2>1. CASE DecisionMade(d)
        BY <1>1, <2>1, DecisionMadeEffect
  <2>2. CASE UNCHANGED drift
        BY <2>2 DEF drift, worker, DriftInv
  <2> QED BY <2>1, <2>2 DEF DecisionServed, DecisionFails
<1>3. decisions' = [decisions EXCEPT ![d] = Over]
      BY DEF DecisionServed, DecisionFails
<1>4. DecisionsInv' /\ \A e \in Decisions : decisions'[e].live => decisions[e].live
      BY <1>3, DecisionRecords DEF DecisionsInv
<1>5. OnEvents => EventsOK(page, event)
      BY PageCases DEF OnEvents
<1>6. decisions[d].live => OnEvents
      BY DEF LiveInv, OnEvents
<1>7. OnEvents => page \in EventsPages /\ Len(page.reads) <= MaxReads
      BY <1>5 DEF EventsOK
<1>8. CASE OnEvents
  <2>1. \/ page' = Refetch(page, "decision") /\ Len(page.reads) < MaxReads
        \/ page' = Slip(page)
        \/ page' = Slip(Finally(page))
        BY <1>6, <1>8 DEF DecisionServed, DecisionFails, Room
  <2>2. EventsOK(Finally(page), event)
        BY <1>5, <1>8, FinallyOK
  <2>3. Finally(page) \in EventsPages /\ Len(Finally(page).reads) <= MaxReads
        BY <2>2 DEF EventsOK
  <2>4. EventsOK(page', event')
        BY <1>7, <1>8, <2>1, <2>3, RefetchOK, SlipOK
  <2>5. PageInv(page', event') /\ page'.name \in {"hub", "drift"}
        BY <2>4 DEF PageInv, EventsOK, EventsPages
  <2>6. \A c \in Confirms : ~confirms[c].live
        BY <1>8 DEF LiveInv, OnEvents
  <2>7. LiveInv'
        BY <2>5, <2>6 DEF LiveInv
  <2> QED BY <1>2, <1>4, <2>5, <2>7
<1>9. CASE ~OnEvents
  <2>1. page' = page
        BY <1>6, <1>9 DEF DecisionServed, DecisionFails
  <2>2. PageInv(page', event')
        BY <1>9, <2>1, OtherPages DEF OnEvents
  <2>3. LiveInv'
        BY <1>4, <2>1 DEF LiveInv
  <2> QED BY <1>2, <1>4, <2>2, <2>3
<1> QED BY <1>8, <1>9

(* A decision is asked for on the page that shows the event.               *)
LEMMA DecisionAsked ==
    ASSUME PageInv(page, event), DecisionsInv, LiveInv, DriftInv, UNCHANGED <<confirms, worker>>,
           NEW d \in Decisions, NEW e \in Events, handleApprove(d, e) \/ handleReject(d, e)
    PROVE  PageInv(page', event') /\ DecisionsInv' /\ LiveInv' /\ DriftInv'
<1>1. PICK to \in {"accepted", "guided"} : Decide(d, e, to)
      BY DEF handleApprove, handleReject
<1>2. page.name \in {"hub", "drift"}
      BY <1>1 DEF Decide, ListedOnHub, ListedOnPage, On
<1>3. page \in EventsPages /\ Len(page.reads) <= MaxReads /\ Current(page, event)
      BY <1>2, PageCases DEF EventsOK
<1>4. page' = [page EXCEPT !.actionId = e] /\ UNCHANGED drift
      BY <1>1 DEF Decide
<1>5. /\ page' \in EventsPages /\ page'.reads = page.reads /\ page'.shown = page.shown
      /\ page'.slipped = page.slipped /\ page'.name = page.name
      BY <1>3, <1>4 DEF EventsPages
<1>6. UNCHANGED event /\ DriftInv'
      BY <1>4 DEF drift, worker, DriftInv
<1>7. EventsOK(page', event')
      BY <1>3, <1>5, <1>6 DEF EventsOK, Current
<1>8. PICK made : made = [event |-> e, to |-> to, live |-> TRUE]
      OBVIOUS
<1>9. made \in DecisionRecs
      BY <1>8 DEF DecisionRecs
<1>10. decisions' = [decisions EXCEPT ![d] = made]
      BY <1>1, <1>8 DEF Decide
<1>11. DecisionsInv'
      BY <1>9, <1>10 DEF DecisionsInv
<1>12. LiveInv'
  <2>1. \A c \in Confirms : ~confirms[c].live
        BY <1>2 DEF LiveInv
  <2> QED BY <1>2, <1>5, <2>1 DEF LiveInv
<1> QED BY <1>6, <1>7, <1>11, <1>12 DEF PageInv

(* The rest of what the hub and the drift page do on their own.            *)
LEMMA HubStep ==
    ASSUME page \in EventsPages, EventsOK(page, event), event \in [Events -> Statuses],
           \/ handleRegenDiagram \/ RegenFails \/ RegenTimer
           \/ \E f \in Severities : SetFilter(f)
           \/ \E k \in DOMAIN page.reads : FetchServed(k) \/ fetchAll(k) \/ FetchFails(k)
    PROVE  EventsOK(page', event) /\ page'.name = page.name
<1>0. Len(page.reads) <= MaxReads /\ Current(page, event)
      BY DEF EventsOK
<1>1. ASSUME NEW q \in EventsPages, q.reads = page.reads, q.shown = page.shown,
             q.slipped = page.slipped
      PROVE  EventsOK(q, event)
      BY <1>0, <1>1 DEF EventsOK, Current
<1>2. CASE handleRegenDiagram \/ RegenFails
  <2>1. PICK b \in BOOLEAN : page' = [page EXCEPT !.regenerating = b]
        BY <1>2 DEF handleRegenDiagram, RegenFails
  <2>2. /\ page' \in EventsPages /\ page'.reads = page.reads /\ page'.shown = page.shown
        /\ page'.slipped = page.slipped /\ page'.name = page.name
        BY <2>1 DEF EventsPages
  <2> QED BY <1>1, <2>2
<1>3. ASSUME NEW f \in Severities, SetFilter(f)
      PROVE  EventsOK(page', event) /\ page'.name = page.name
  <2>1. page' = [page EXCEPT !.filter = f]
        BY <1>3 DEF SetFilter
  <2>2. /\ page' \in EventsPages /\ page'.reads = page.reads /\ page'.shown = page.shown
        /\ page'.slipped = page.slipped /\ page'.name = page.name
        BY <2>1 DEF EventsPages
  <2> QED BY <1>1, <2>2
<1>4. CASE RegenTimer
  <2>1. PICK r : r = Refetch(page, "timer")
        OBVIOUS
  <2>2. EventsOK(r, event)
        BY <1>4, <2>1, RefetchOK DEF RegenTimer, Room
  <2>3. r.name = page.name
        BY <2>1 DEF Refetch, EventsPages
  <2>4. page' = [r EXCEPT !.regenerating = FALSE]
        BY <1>4, <2>1 DEF RegenTimer
  <2>5. /\ page' \in EventsPages /\ page'.reads = r.reads /\ page'.shown = r.shown
        /\ page'.slipped = r.slipped /\ page'.name = r.name
        BY <2>2, <2>4 DEF EventsOK, EventsPages
  <2> QED BY <2>2, <2>3, <2>5 DEF EventsOK, Current
<1>5. ASSUME NEW k \in DOMAIN page.reads, FetchServed(k) \/ fetchAll(k) \/ FetchFails(k)
      PROVE  EventsOK(page', event) /\ page'.name = page.name
  <2>1. PICK p : p = Settle(k)
        OBVIOUS
  <2>2. p \in {page, Finally(page)}
        BY <2>1 DEF Settle
  <2>3. EventsOK(p, event) /\ p.reads = page.reads
        BY <2>2, FinallyOK
  <2>4. p.name = page.name /\ "name" \in DOMAIN p
        BY <2>2 DEF Finally, EventsPages
  <2>5. CASE FetchServed(k)
    <3>1. page' = [page EXCEPT !.reads[k].seen = event]
          BY <2>5 DEF FetchServed
    <3>2. EventsOK(page', event)
          BY <3>1, LookOK
    <3>3. page'.name = page.name
          BY <3>1 DEF EventsPages
    <3> QED BY <3>2, <3>3
  <2>6. CASE fetchAll(k)
    <3>1. PICK list : list = page.reads[k].seen
          OBVIOUS
    <3>2. /\ page' = [Taken(Overtakes(p, k), k) EXCEPT !.shown = list, !.loaded = TRUE]
          /\ list # Unserved
          BY <2>1, <2>6, <3>1 DEF fetchAll
    <3>3. EventsOK(page', event)
          BY <2>3, <3>1, <3>2, AnswerOK
    <3>4. page'.name = p.name
      <4>1. PICK o : o = Overtakes(p, k)
            OBVIOUS
      <4>2. o.name = p.name /\ "name" \in DOMAIN o
            BY <2>4, <4>1 DEF Overtakes, Slip
      <4>3. PICK t : t = Taken(o, k)
            OBVIOUS
      <4>4. t.name = p.name /\ "name" \in DOMAIN t
            BY <4>2, <4>3 DEF Taken
      <4> QED BY <3>2, <4>1, <4>3, <4>4
    <3> QED BY <2>4, <3>3, <3>4
  <2>7. CASE FetchFails(k)
    <3>1. page' = Taken(Slip(p), k)
          BY <2>1, <2>7 DEF FetchFails
    <3>2. EventsOK(page', event)
          BY <2>3, <3>1, LostAnswerOK
    <3>3. page'.name = p.name
      <4>1. PICK o : o = Slip(p)
            OBVIOUS
      <4>2. o.name = p.name /\ "name" \in DOMAIN o
            BY <2>4, <4>1 DEF Slip
      <4> QED BY <3>1, <4>1, <4>2 DEF Taken
    <3> QED BY <2>4, <3>2, <3>3
  <2> QED BY <1>5, <2>5, <2>6, <2>7
<1> QED BY <1>2, <1>3, <1>4, <1>5

LEMMA EventPagesInv ==
    ASSUME PageInv(page, event), DecisionsInv, LiveInv, DriftInv, EventPages,
           UNCHANGED <<signedUp, token, db, confirms, late, worker>>
    PROVE  PageInv(page', event') /\ DecisionsInv' /\ LiveInv' /\ DriftInv'
<1>1. ASSUME \/ handleRegenDiagram \/ RegenFails \/ RegenTimer
             \/ \E f \in Severities : SetFilter(f)
             \/ OnEvents /\ \E k \in DOMAIN page.reads :
                   FetchServed(k) \/ fetchAll(k) \/ FetchFails(k),
             UNCHANGED <<drift, decisions>>
      PROVE  PageInv(page', event') /\ DecisionsInv' /\ LiveInv' /\ DriftInv'
  <2>1. page.name \in {"hub", "drift"}
        BY <1>1 DEF OnEvents, handleRegenDiagram, RegenButton, RegenFails, RegenTimer,
                    SetFilter, On
  <2>2. EventsOK(page, event) /\ page \in EventsPages /\ event \in [Events -> Statuses]
        BY <2>1, PageCases DEF EventsOK, DriftInv
  <2>3. EventsOK(page', event) /\ page'.name = page.name
        BY <1>1, <2>2, HubStep
  <2>4. UNCHANGED event
        BY <1>1 DEF drift
  <2>5. PageInv(page', event')
        BY <2>3, <2>4 DEF PageInv
  <2>6. DecisionsInv' /\ LiveInv'
        BY <1>1, <2>3 DEF DecisionsInv, LiveInv
  <2>7. DriftInv'
        BY <1>1 DEF DriftInv, drift, worker
  <2> QED BY <2>5, <2>6, <2>7
<1>2. ASSUME NEW d \in Decisions, NEW e \in Events, handleApprove(d, e) \/ handleReject(d, e)
      PROVE  PageInv(page', event') /\ DecisionsInv' /\ LiveInv' /\ DriftInv'
      BY <1>2, DecisionAsked
<1>3. ASSUME NEW d \in Decisions, DecisionServed(d) \/ DecisionFails(d)
      PROVE  PageInv(page', event') /\ DecisionsInv' /\ LiveInv' /\ DriftInv'
      BY <1>3, DecisionOver
<1> QED BY <1>1, <1>2, <1>3 DEF EventPages

(* What the choice and the list have to do with each other, and nothing else. *)
LEMMA ChoiceSame ==
    ASSUME NEW p, ChoiceOK(p), NEW q \in ChoicesPages, q.reads = p.reads, q.choice = p.choice,
           q.name = p.name, q.loading => p.loading, q.shown = p.shown, q.slipped = p.slipped
    PROVE  ChoiceOK(q)
<1>1. /\ Len(q.reads) <= MaxReads
      /\ q.name = "metrics" => q.choice \in Periods
      BY DEF ChoiceOK
<1>2. q.loading => q.reads # <<>>
      BY DEF ChoiceOK, FitsChoice
<1>3. q.slipped \/ IF q.reads = <<>> THEN q.shown = q.choice
                   ELSE q.reads[Len(q.reads)] = q.choice
      BY DEF ChoiceOK, FitsChoice
<1> QED BY <1>1, <1>2, <1>3 DEF ChoiceOK, FitsChoice

LEMMA ChoicePagesInv ==
    ASSUME PageInv(page, event), ChoicePages
    PROVE  ChoiceOK(page') /\ page'.name = page.name /\ page.name \in {"audit", "metrics"}
<1>1. page.name \in {"audit", "metrics"}
      BY DEF ChoicePages, SetLayer, SetPeriod, Refresh, handleRescan, RescanButton,
             RescanTimer, OnChoice, On
<1>2. ChoiceOK(page) /\ page \in ChoicesPages
      BY <1>1, PageCases DEF ChoiceOK
<1>3. /\ Len(page.reads) <= MaxReads /\ FitsChoice(page)
      /\ page.name = "metrics" => page.choice \in Periods
      BY <1>2 DEF ChoiceOK
<1>4. ASSUME NEW choices, NEW c \in choices, Choose(choices, c),
             page.name = "metrics" => c \in Periods, c \in AnyChoice
      PROVE  ChoiceOK(page') /\ page'.name = page.name
  <2>1. PICK p : p = [page EXCEPT !.choice = c]
        OBVIOUS
  <2>2. /\ p \in ChoicesPages /\ p.reads = page.reads /\ p.choice = c /\ p.name = page.name
        BY <1>2, <1>4, <2>1 DEF ChoicesPages
  <2>3. page' = Fetch(p, c) /\ Len(page.reads) < MaxReads
        BY <1>4, <2>1 DEF Choose, Room
  <2> QED BY <1>4, <2>2, <2>3, ChosenOK
<1>5. ASSUME NEW l \in Layers, SetLayer(l) PROVE ChoiceOK(page') /\ page'.name = page.name
  <2>1. page.name = "audit" /\ Choose(Layers, l) /\ l \in AnyChoice
        BY <1>5 DEF SetLayer, On, AnyChoice
  <2> QED BY <1>4, <2>1
<1>6. ASSUME NEW t \in Periods, SetPeriod(t) PROVE ChoiceOK(page') /\ page'.name = page.name
  <2>1. Choose(Periods, t) /\ t \in AnyChoice
        BY <1>6 DEF SetPeriod, AnyChoice
  <2> QED BY <1>4, <2>1
<1>7. CASE Refresh
  <2>1. PICK c : c = page.choice
        OBVIOUS
  <2>2. /\ page' = Fetch(page, c) /\ Len(page.reads) < MaxReads
        /\ c \in AnyChoice
        BY <1>2, <1>7, <2>1 DEF Refresh, Room, ChoicesPages
  <2> QED BY <1>1, <1>2, <1>3, <2>1, <2>2, ChosenOK
<1>8. CASE handleRescan
  <2>1. page' = [page EXCEPT !.scanning = page.choice] /\ page.choice \in Periods
        BY <1>3, <1>8 DEF handleRescan, RescanButton, On
  <2>2. /\ page' \in ChoicesPages /\ page'.reads = page.reads /\ page'.choice = page.choice
        /\ page'.name = page.name /\ (page'.loading => page.loading)
        /\ page'.shown = page.shown /\ page'.slipped = page.slipped
        BY <1>2, <2>1 DEF ChoicesPages
  <2> QED BY <1>1, <1>2, <2>2, ChoiceSame
<1>9. CASE RescanTimer
  <2>1. PICK period, p : /\ period = page.scanning
                         /\ p = IF period = page.choice THEN page ELSE Slip(page)
        OBVIOUS
  <2>2. period \in Periods /\ period \in AnyChoice /\ Len(page.reads) < MaxReads
        BY <1>2, <1>9, <2>1 DEF RescanTimer, Room, ChoicesPages, AnyChoice
  <2>3. /\ p \in ChoicesPages /\ p.reads = page.reads /\ p.choice = page.choice
        /\ p.name = page.name /\ (p.choice = period \/ p.slipped)
        BY <1>2, <2>1 DEF Slip, ChoicesPages
  <2>4. PICK q : q = Fetch(p, period)
        OBVIOUS
  <2>5. ChoiceOK(q) /\ q.name = page.name
        BY <1>3, <2>2, <2>3, <2>4, ChosenOK
  <2>6. page' = [q EXCEPT !.scanning = None]
        BY <1>9, <2>1, <2>4 DEF RescanTimer
  <2>7. q \in ChoicesPages
        BY <2>5 DEF ChoiceOK
  <2>8. /\ page' \in ChoicesPages /\ page'.reads = q.reads /\ page'.choice = q.choice
        /\ page'.name = q.name /\ (page'.loading => q.loading)
        /\ page'.shown = q.shown /\ page'.slipped = q.slipped
        BY <2>6, <2>7 DEF ChoicesPages
  <2> QED BY <1>1, <2>5, <2>8, ChoiceSame
<1>10. ASSUME NEW k \in DOMAIN page.reads, listAnswered(k) \/ ListFails(k)
       PROVE  ChoiceOK(page') /\ page'.name = page.name
  <2>1. PICK t, a : t = Taken(page, k) /\ a = [t EXCEPT !.loading = FALSE]
        OBVIOUS
  <2>2. a = Answered(k) /\ a = [Taken(page, k) EXCEPT !.loading = FALSE]
        BY <2>1 DEF Answered
  <2>3. /\ ChoiceOK(Slip(a))
        /\ ChoiceOK([Overtakes(a, k) EXCEPT !.shown = page.reads[k]])
        BY <1>2, <2>2, ListOK
  <2>4. \/ page' = [Overtakes(a, k) EXCEPT !.shown = page.reads[k]]
        \/ page' = Slip(a)
        BY <1>10, <2>2 DEF listAnswered, ListFails
  <2>5. t.name = page.name /\ "name" \in DOMAIN t
        BY <1>2, <2>1 DEF Taken, ChoicesPages
  <2>6. a.name = page.name /\ "name" \in DOMAIN a
        BY <2>1, <2>5
  <2>7. PICK o : o = Overtakes(a, k)
        OBVIOUS
  <2>8. /\ o.name = page.name /\ "name" \in DOMAIN o
        /\ Slip(a).name = page.name
        BY <2>6, <2>7 DEF Overtakes, Slip
  <2>9. page'.name = page.name
    <3>1. CASE page' = Slip(a)
          BY <2>8, <3>1
    <3>2. CASE page' = [Overtakes(a, k) EXCEPT !.shown = page.reads[k]]
          BY <2>7, <2>8, <3>2
    <3> QED BY <2>4, <3>1, <3>2
  <2> QED BY <2>3, <2>4, <2>9
<1> QED BY <1>1, <1>5, <1>6, <1>7, <1>8, <1>9, <1>10 DEF ChoicePages

-----------------------------------------------------------------------------
(* The drift worker, and the ways into and out of the project's pages.     *)

LEMMA WorkerInv ==
    ASSUME PageInv(page, event), DriftInv, Worker, UNCHANGED <<page, audit>>
    PROVE  PageInv(page', event') /\ DriftInv'
<1>0. /\ event \in [Events -> Statuses] /\ queue \in Nat /\ todo \in {0, 1, 2}
      /\ changes \in Nat /\ changes <= MaxChanges /\ MaxChanges \in Nat
      /\ audit' \in [Events -> SUBSET {"drift_approve", "drift_reject"}]
      BY GovernanceAssumption DEF DriftInv, Baselines
<1>1. queue + (IF todo > 0 THEN 1 ELSE 0) <= changes
      BY DEF DriftInv
<1>2. /\ queue' \in Nat /\ todo' \in Baselines /\ changes' \in 0..MaxChanges
      /\ queue' + (IF todo' > 0 THEN 1 ELSE 0) <= changes'
  <2>1. CASE ConfigChange
        BY <1>0, <1>1, <2>1 DEF ConfigChange, Baselines
  <2>2. CASE _poll_drift_sqs
        BY <1>0, <1>1, <2>2 DEF _poll_drift_sqs, Baselines
  <2>3. CASE process_drift_event
        BY <1>0, <1>1, <2>3 DEF process_drift_event, Baselines
  <2>4. CASE ComparisonFails \/ MessageComesAgain
        BY <1>0, <1>1, <2>4 DEF ComparisonFails, MessageComesAgain, Baselines
  <2> QED BY <2>1, <2>2, <2>3, <2>4 DEF Worker
<1>3. \/ UNCHANGED event
      \/ \E e \in Events : event[e] = "absent" /\ event' = [event EXCEPT ![e] = "detected"]
      BY DEF Worker, ConfigChange, _poll_drift_sqs, process_drift_event, ComparisonFails,
             MessageComesAgain
<1>4. CASE UNCHANGED event
      BY <1>0, <1>2, <1>4 DEF DriftInv
<1>5. ASSUME NEW e \in Events, event[e] = "absent", event' = [event EXCEPT ![e] = "detected"]
      PROVE  PageInv(page', event') /\ DriftInv'
  <2>1. event' \in [Events -> Statuses]
        BY <1>0, <1>5 DEF Statuses
  <2>2. DriftInv'
        BY <1>0, <1>2, <2>1 DEF DriftInv
  <2>3. CASE page.name \in {"hub", "drift"}
    <3>1. EventsOK(page, event)
          BY <2>3, PageCases
    <3>2. EventsOK(page, event')
          BY <1>0, <1>5, <3>1, NewEventOK
    <3> QED BY <2>2, <3>2 DEF PageInv
  <2>4. CASE page.name \notin {"hub", "drift"}
        BY <2>2, <2>4, OtherPages
  <2> QED BY <2>3, <2>4
<1> QED BY <1>3, <1>4, <1>5

(* The decisions of a page that is left are let go.                        *)
LEMMA DecisionsLetGo ==
    ASSUME DecisionsInv,
           decisions' = [d \in Decisions |-> [decisions[d] EXCEPT !.live = FALSE]]
    PROVE  DecisionsInv' /\ \A d \in Decisions : ~decisions'[d].live
<1>1. DEFINE left(d) == [decisions[d] EXCEPT !.live = FALSE]
<1>2. \A d \in Decisions : left(d) \in DecisionRecs /\ ~left(d).live
      BY DecisionRecords DEF DecisionsInv
<1>3. decisions' = [d \in Decisions |-> left(d)]
      OBVIOUS
<1> HIDE DEF left
<1> QED BY <1>2, <1>3 DEF DecisionsInv

LEMMA OpenProjectInv ==
    ASSUME DecisionsInv, LiveInv, NEW ev, OpenProject \/ HubUnauthorized
    PROVE  PageInv(page', ev) /\ DecisionsInv' /\ LiveInv'
<1>1. DecisionsInv' /\ \A d \in Decisions : ~decisions'[d].live
      BY DecisionsLetGo DEF OpenProject, HubUnauthorized
<1>2. \A c \in Confirms : ~confirms'[c].live
  <2>1. CASE OpenProject
        BY <2>1, NoConfirmEffect DEF OpenProject, Rest
  <2>2. CASE HubUnauthorized
    <3>1. page.name \in HubLinks
          BY <2>2 DEF HubUnauthorized, HubAsks, OnEvents, OnChoice, LiveInv, HubLinks
    <3> QED BY <2>2, <3>1 DEF HubUnauthorized, LiveInv, HubLinks
  <2> QED BY <2>1, <2>2
<1>3. PageInv(page', ev)
  <2>1. page' \in {GovernancePage, DriftPage, AuditLogPage, InfraMetrics, LoginPage}
        BY DEF OpenProject, HubUnauthorized
  <2> QED BY <2>1, HubStarts, ChoiceStarts, PlainStarts DEF PageInv
<1> QED BY <1>1, <1>2, <1>3 DEF LiveInv

-----------------------------------------------------------------------------
(* The journey, from the outside: the scans that are asked for, offered and
   confirmed are scans that were started, and their books add up.          *)

(* A scan that is known stays known, and nothing is asked about another.   *)
LEMMA ScanStaysKnown ==
    ASSUME NEW p, ScanPageOK(p), NEW q \in OnboardingPages,
           \/ q.scanId \in Scans
           \/ /\ q.scanId = p.scanId /\ q.interval = p.interval /\ q.polls = p.polls
              /\ q.status # "pending_confirm"
           \/ /\ q.scanId = p.scanId /\ q.interval = p.interval /\ q.polls = p.polls
              /\ q.status = p.status
    PROVE  ScanPageOK(q) /\ q.name = "onboarding"
BY DEF ScanPageOK, KnowsScan, OnboardingPages

LEMMA QuietScanSteps ==
    ASSUME ScanPageOK(page), AccountsAnswered \/ handleStartScan \/ TryAgain \/ StartFails
    PROVE  ScanPageOK(page') /\ page'.name = "onboarding"
<1>0. page \in OnboardingPages
      BY DEF ScanPageOK
<1>1. CASE AccountsAnswered
  <2>1. page' = [page EXCEPT !.accountId = TRUE]
        BY <1>1 DEF AccountsAnswered
  <2>2. /\ page' \in OnboardingPages /\ page'.scanId = page.scanId
        /\ page'.interval = page.interval /\ page'.polls = page.polls
        /\ page'.status = page.status
        BY <1>0, <2>1 DEF OnboardingPages
  <2> QED BY <2>2, ScanStaysKnown
<1>2. CASE handleStartScan
  <2>1. page' = [page EXCEPT !.status = "scanning", !.starting = TRUE]
        BY <1>2 DEF handleStartScan
  <2>2. /\ page' \in OnboardingPages /\ page'.scanId = page.scanId
        /\ page'.interval = page.interval /\ page'.polls = page.polls
        /\ page'.status # "pending_confirm"
        BY <1>0, <2>1 DEF OnboardingPages
  <2> QED BY <2>2, ScanStaysKnown
<1>3. CASE TryAgain
  <2>1. page' = [page EXCEPT !.status = "idle"]
        BY <1>3 DEF TryAgain
  <2>2. /\ page' \in OnboardingPages /\ page'.scanId = page.scanId
        /\ page'.interval = page.interval /\ page'.polls = page.polls
        /\ page'.status # "pending_confirm"
        BY <1>0, <2>1 DEF OnboardingPages
  <2> QED BY <2>2, ScanStaysKnown
<1>4. CASE StartFails
  <2>1. page' = [page EXCEPT !.starting = FALSE, !.status = "failed"]
        BY <1>4 DEF StartFails
  <2>2. /\ page' \in OnboardingPages /\ page'.scanId = page.scanId
        /\ page'.interval = page.interval /\ page'.polls = page.polls
        /\ page'.status # "pending_confirm"
        BY <1>0, <2>1 DEF OnboardingPages
  <2> QED BY <2>2, ScanStaysKnown
<1> QED BY <1>1, <1>2, <1>3, <1>4

LEMMA StatusIsSeen ==
    ASSUME BooksInv PROVE get_onboard_status \in PollSeen
<1>1. newest \in Scans => scans[newest] \in PollSeen
      BY DEF BooksInv, PollSeen
<1> QED BY <1>1 DEF get_onboard_status, BooksInv, PollSeen

LEMMA PollScanSteps ==
    ASSUME ScanPageOK(page), BooksInv, NEW p \in Polls,
           pollStatus(p) \/ PollServed(p) \/ PollAnswered(p) \/ PollFails(p)
    PROVE  ScanPageOK(page') /\ page'.name = "onboarding"
<1>0. page \in OnboardingPages /\ page.scanId \in Scans
  <2>1. page.interval \/ page.polls[p].seen # "idle"
        BY DEF pollStatus, PollServed, PollAnswered, PollFails
  <2> QED BY <2>1 DEF ScanPageOK, KnowsScan
<1>1. page.polls \in [Polls -> PollRecs]
      BY <1>0 DEF OnboardingPages, PollRecs
<1>2. ASSUME NEW seen \in PollSeen, page' = [page EXCEPT !.polls[p].seen = seen]
      PROVE  ScanPageOK(page') /\ page'.name = "onboarding"
  <2>1. PICK poll : poll = [page.polls[p] EXCEPT !.seen = seen]
        OBVIOUS
  <2>2. poll \in PollRecs
        BY <1>1, <2>1 DEF PollRecs
  <2>3. PICK polls : polls = [page.polls EXCEPT ![p] = poll]
        OBVIOUS
  <2>4. polls \in [Polls -> PollRecs]
        BY <1>1, <2>2, <2>3
  <2>5. page' = [page EXCEPT !.polls = polls]
        BY <1>2, <2>1, <2>3
  <2>6. page' \in OnboardingPages /\ page'.scanId = page.scanId
        BY <1>0, <2>4, <2>5 DEF OnboardingPages, PollRecs
  <2> QED BY <1>0, <2>6, ScanStaysKnown
<1>3. CASE pollStatus(p)
      BY <1>2, <1>3 DEF pollStatus, PollSeen
<1>4. CASE PollServed(p)
      BY <1>2, <1>4, StatusIsSeen DEF PollServed
<1>5. PICK cleared : cleared = clearInterval(p)
      OBVIOUS
<1>6. cleared \in OnboardingPages /\ cleared.scanId = page.scanId
      BY <1>0, <1>5, ClearEffect
<1>7. CASE page' = cleared
      BY <1>0, <1>6, <1>7, ScanStaysKnown
<1>8. CASE PollAnswered(p)
  <2>1. \/ \E st \in {"pending_confirm", "failed"} : page' = [cleared EXCEPT !.status = st]
        \/ page' = cleared
        \/ page' = [page EXCEPT !.polls = Without(p)]
        BY <1>5, <1>8 DEF PollAnswered
  <2>2. ASSUME NEW st \in {"pending_confirm", "failed"},
               page' = [cleared EXCEPT !.status = st]
        PROVE  page' \in OnboardingPages /\ page'.scanId = page.scanId
        BY <1>6, <2>2 DEF OnboardingPages
  <2>3. ASSUME page' = [page EXCEPT !.polls = Without(p)]
        PROVE  page' \in OnboardingPages /\ page'.scanId = page.scanId
        BY <1>0, <2>3, WithoutEffect DEF OnboardingPages, PollRecs
  <2> QED BY <1>0, <1>7, <2>1, <2>2, <2>3, ScanStaysKnown
<1> QED BY <1>3, <1>4, <1>5, <1>7, <1>8 DEF PollFails

(* Confirms that have tested the scan, counted. *)
LEMMA ConfirmsCounted ==
    /\ \A T \in SUBSET Confirms : IsFiniteSet(T) /\ Cardinality(T) \in Nat
    /\ \A T \in SUBSET Confirms : \A U \in SUBSET T : Cardinality(U) <= Cardinality(T)
    /\ \A T \in SUBSET Confirms : \A c \in T : Cardinality(T \ {c}) = Cardinality(T) - 1
<1>1. \A T \in SUBSET Confirms : IsFiniteSet(T)
      BY GovernanceAssumption, FS_Subset
<1>2. \A T \in SUBSET Confirms : Cardinality(T) \in Nat
      BY <1>1, FS_CardinalityType
<1>3. \A T \in SUBSET Confirms : \A U \in SUBSET T : Cardinality(U) <= Cardinality(T)
      BY <1>1, FS_Subset
<1>4. \A T \in SUBSET Confirms : \A c \in T : Cardinality(T \ {c}) = Cardinality(T) - 1
      BY <1>1, FS_RemoveElement
<1> QED BY <1>1, <1>2, <1>3, <1>4

(* A confirm that is answered is out no more. *)
LEMMA AnsweredBooks ==
    ASSUME BooksInv, NEW c \in Confirms, confirms' = [confirms EXCEPT ![c] = NoConfirm]
    PROVE  /\ confirms' \in [Confirms -> ConfirmRecs]
           /\ \A d \in Confirms : confirms'[d] = NoConfirm \/ confirms'[d].scan \in Scans
           /\ \A d \in Confirms : confirms'[d].live => confirms[d].live
           /\ \A s : Tested(s)' = Tested(s) \ {c}
<1>1. /\ confirms' \in [Confirms -> ConfirmRecs] /\ confirms'[c] = NoConfirm
      /\ \A d \in Confirms \ {c} : confirms'[d] = confirms[d]
      BY NoConfirmEffect DEF BooksInv
<1>2. \A d \in Confirms : confirms'[d] = NoConfirm \/ confirms'[d].scan \in Scans
      BY <1>1 DEF BooksInv
<1>3. \A d \in Confirms : confirms'[d].live => confirms[d].live
      BY <1>1, NoConfirmEffect
<1>4. ASSUME NEW s PROVE Tested(s)' = Tested(s) \ {c}
      BY <1>1, NoConfirmEffect DEF Tested
<1> QED BY <1>1, <1>2, <1>3, <1>4

(* What a step of the journey has to show. *)
JourneyOK ==
    /\ PageInv(page', event) /\ BooksInv'
    /\ \A c \in Confirms : confirms'[c].live => page'.name = "onboarding"
    /\ UNCHANGED page \/ page'.name \notin HubLinks

(* The page of an answered confirm. *)
LEMMA AnsweredPage ==
    ASSUME PageInv(page, event), LiveInv, NEW c \in Confirms, BooksInv,
           NEW status \in {"completed", "failed"}, ConfirmAnswer(c, status)
    PROVE  /\ PageInv(page', event)
           /\ \A d \in Confirms : confirms'[d].live => page'.name = "onboarding"
           /\ UNCHANGED page \/ page'.name \notin HubLinks
<1>1. confirms' = [confirms EXCEPT ![c] = NoConfirm]
      BY DEF ConfirmAnswer
<1>2. \A d \in Confirms : confirms'[d].live => confirms[d].live
      BY <1>1, AnsweredBooks
<1>3. CASE ~confirms[c].live
  <2>1. page' = page
        BY <1>3 DEF ConfirmAnswer
  <2> QED BY <1>2, <2>1 DEF LiveInv
<1>4. CASE confirms[c].live
  <2>1. ScanPageOK(page) /\ page \in OnboardingPages
        BY <1>4, PageCases DEF LiveInv, ScanPageOK
  <2>2. PICK leaving \in BOOLEAN : page' = [page EXCEPT !.status = status, !.leaving = leaving]
    <3>1. DEFINE l == page.leaving \/ status = "completed"
    <3>2. page' = [page EXCEPT !.status = status, !.leaving = l]
          BY <1>4 DEF ConfirmAnswer
    <3>3. l \in BOOLEAN
          OBVIOUS
    <3> HIDE DEF l
    <3> QED BY <3>2, <3>3
  <2>3. /\ page' \in OnboardingPages /\ page'.scanId = page.scanId
        /\ page'.interval = page.interval /\ page'.polls = page.polls
        /\ page'.status # "pending_confirm"
        BY <2>1, <2>2 DEF OnboardingPages
  <2>4. ScanPageOK(page') /\ page'.name = "onboarding"
        BY <2>1, <2>3, ScanStaysKnown
  <2> QED BY <2>4 DEF PageInv, HubLinks
<1> QED BY <1>3, <1>4

LEMMA TestedOnlyConfirms == \A s : Tested(s) \in SUBSET Confirms
BY DEF Tested

(* Nothing is registered by an answer alone. *)
LEMMA NothingMoreTested ==
    ASSUME BooksInv, UNCHANGED db, NEW c \in Confirms,
           confirms' = [confirms EXCEPT ![c] = NoConfirm]
    PROVE  BooksInv'
<1>1. /\ confirms' \in [Confirms -> ConfirmRecs]
      /\ \A d \in Confirms : confirms'[d] = NoConfirm \/ confirms'[d].scan \in Scans
      /\ \A s : Tested(s)' = Tested(s) \ {c}
      BY AnsweredBooks
<1>2. \A s \in Scans : registered[s] + Cardinality(Tested(s)') <= Cardinality(Confirms)
  <2> SUFFICES ASSUME NEW s \in Scans
               PROVE  registered[s] + Cardinality(Tested(s)') <= Cardinality(Confirms)
      OBVIOUS
  <2>1. PICK T, U : T = Tested(s) /\ U = T \ {c}
        OBVIOUS
  <2>2. T \in SUBSET Confirms /\ U \in SUBSET T /\ U \in SUBSET Confirms
        BY <2>1, TestedOnlyConfirms
  <2>3. /\ Cardinality(U) <= Cardinality(T) /\ Cardinality(U) \in Nat /\ Cardinality(T) \in Nat
        /\ Cardinality(Confirms) \in Nat
        BY <2>2, ConfirmsCounted
  <2>4. registered[s] \in Nat /\ registered[s] + Cardinality(T) <= Cardinality(Confirms)
        BY <2>1 DEF BooksInv
  <2>5. registered[s] + Cardinality(U) <= Cardinality(Confirms)
        BY <2>3, <2>4
  <2> QED BY <1>1, <2>1, <2>5
<1> QED BY <1>1, <1>2 DEF BooksInv, db

LEMMA ConfirmReadBooks ==
    ASSUME PageInv(page, event), BooksInv, LiveInv, NEW c \in Confirms, ConfirmRead(c)
    PROVE  JourneyOK
<1>1. CASE scans[confirms[c].scan] # "pending_confirm"
  <2>1. ConfirmAnswer(c, "failed") /\ UNCHANGED db
        BY <1>1 DEF ConfirmRead
  <2>2. BooksInv'
        BY <2>1, NothingMoreTested DEF ConfirmAnswer
  <2> QED BY <2>1, <2>2, AnsweredPage DEF JourneyOK
<1>2. CASE scans[confirms[c].scan] = "pending_confirm"
  <2>1. PICK checked : checked = [confirms[c] EXCEPT !.at = "checked"]
        OBVIOUS
  <2>2. /\ confirms' = [confirms EXCEPT ![c] = checked] /\ UNCHANGED page /\ UNCHANGED db
        /\ confirms[c].at = "sent"
        BY <1>2, <2>1 DEF ConfirmRead
  <2>3. confirms[c] # NoConfirm
        BY <2>2, NoConfirmEffect
  <2>4. PICK s \in Scans : s = confirms[c].scan
        BY <2>3 DEF BooksInv
  <2>5. /\ checked \in ConfirmRecs /\ checked.scan = s
        /\ checked.live = confirms[c].live /\ checked.at = "checked"
        BY <2>1, <2>4 DEF BooksInv, ConfirmRecs
  <2>6. /\ confirms' \in [Confirms -> ConfirmRecs] /\ confirms'[c] = checked
        /\ \A d \in Confirms \ {c} : confirms'[d] = confirms[d]
        BY <2>2, <2>5 DEF BooksInv
  <2>7. \A d \in Confirms : confirms'[d] = NoConfirm \/ confirms'[d].scan \in Scans
        BY <2>4, <2>5, <2>6 DEF BooksInv
  <2>8. registered[s] = 0
        BY <1>2, <2>4 DEF BooksInv
  <2>9. ASSUME NEW t \in Scans
        PROVE  registered[t] + Cardinality(Tested(t)') <= Cardinality(Confirms)
    <3>1. CASE t = s
      <4>1. PICK T : T = Tested(t)'
            OBVIOUS
      <4>2. T \in SUBSET Confirms
            BY <4>1 DEF Tested
      <4>3. /\ Cardinality(T) <= Cardinality(Confirms) /\ Cardinality(T) \in Nat
            /\ Cardinality(Confirms) \in Nat
            BY <4>2, ConfirmsCounted
      <4>4. 0 + Cardinality(T) <= Cardinality(Confirms)
            BY <4>3
      <4> QED BY <2>8, <3>1, <4>1, <4>4
    <3>2. CASE t # s
      <4>1. Tested(t)' = Tested(t)
            BY <2>2, <2>4, <2>5, <2>6, <3>2 DEF Tested
      <4> QED BY <4>1 DEF BooksInv
    <3> QED BY <3>1, <3>2
  <2>10. BooksInv'
        BY <2>2, <2>6, <2>7, <2>9 DEF BooksInv, db
  <2>11. \A d \in Confirms : confirms'[d].live => page'.name = "onboarding"
        BY <2>2, <2>5, <2>6 DEF LiveInv
  <2> QED BY <2>2, <2>10, <2>11 DEF JourneyOK
<1> QED BY <1>1, <1>2

(* A scan is registered once more, by one of those that had tested it.     *)
LEMMA ConfirmOnboardBooks ==
    ASSUME PageInv(page, event), BooksInv, LiveInv, NEW c \in Confirms, confirm_onboard(c)
    PROVE  JourneyOK
<1>1. PICK status \in {"completed", "failed"} : ConfirmAnswer(c, status)
      BY DEF confirm_onboard
<1>2. confirms' = [confirms EXCEPT ![c] = NoConfirm] /\ confirms[c].at = "checked"
      BY <1>1 DEF ConfirmAnswer, confirm_onboard
<1>3. /\ confirms' \in [Confirms -> ConfirmRecs]
      /\ \A d \in Confirms : confirms'[d] = NoConfirm \/ confirms'[d].scan \in Scans
      /\ \A s : Tested(s)' = Tested(s) \ {c}
      BY <1>2, AnsweredBooks
<1>4. confirms[c] # NoConfirm
      BY <1>2, NoConfirmEffect
<1>5. PICK s \in Scans : s = confirms[c].scan
      BY <1>4 DEF BooksInv
<1>6. c \in Tested(s)
      BY <1>2, <1>5 DEF Tested
<1>7. /\ scans' = [scans EXCEPT ![s] = "gone"]
      /\ registered' = [registered EXCEPT ![s] = registered[s] + 1]
      /\ newest' = Confirmed
      BY <1>5 DEF confirm_onboard
<1>8. /\ scans' \in [Scans -> ScanStatus] /\ scans'[s] = "gone"
      /\ \A t \in Scans \ {s} : scans'[t] = scans[t]
      BY <1>7 DEF BooksInv, ScanStatus
<1>9. /\ registered' \in [Scans -> Nat] /\ registered'[s] = registered[s] + 1
      /\ \A t \in Scans \ {s} : registered'[t] = registered[t]
      BY <1>7 DEF BooksInv
<1>10. ASSUME NEW t \in Scans
       PROVE  registered'[t] + Cardinality(Tested(t)') <= Cardinality(Confirms)
  <2>1. PICK T, U : T = Tested(t) /\ U = T \ {c}
        OBVIOUS
  <2>2. T \in SUBSET Confirms /\ U \in SUBSET T /\ U \in SUBSET Confirms
        BY <2>1, TestedOnlyConfirms
  <2>3. /\ Cardinality(U) <= Cardinality(T) /\ Cardinality(U) \in Nat /\ Cardinality(T) \in Nat
        /\ Cardinality(Confirms) \in Nat
        BY <2>2, ConfirmsCounted
  <2>4. registered[t] \in Nat /\ registered[t] + Cardinality(T) <= Cardinality(Confirms)
        BY <2>1 DEF BooksInv
  <2>5. CASE t = s
    <3>1. Cardinality(U) = Cardinality(T) - 1
          BY <1>6, <2>1, <2>2, <2>5, ConfirmsCounted
    <3>2. registered[t] + 1 + Cardinality(U) <= Cardinality(Confirms)
          BY <2>3, <2>4, <3>1
    <3> QED BY <1>3, <1>9, <2>1, <2>5, <3>2
  <2>6. CASE t # s
    <3>1. registered[t] + Cardinality(U) <= Cardinality(Confirms)
          BY <2>3, <2>4
    <3> QED BY <1>3, <1>9, <2>1, <2>6, <3>1
  <2> QED BY <2>5, <2>6
<1>11. \A t \in Scans : scans'[t] # "gone" => registered'[t] = 0
      BY <1>8, <1>9 DEF BooksInv
<1>12. BooksInv'
      BY <1>3, <1>7, <1>8, <1>9, <1>10, <1>11 DEF BooksInv
<1> QED BY <1>1, <1>12, AnsweredPage DEF JourneyOK

(* The page says what it waits for. *)
LEMMA HandleConfirmBooks ==
    ASSUME PageInv(page, event), BooksInv, LiveInv, NEW c \in Confirms, handleConfirm(c),
           UNCHANGED db
    PROVE  JourneyOK
<1>1. ScanPageOK(page) /\ page \in OnboardingPages
      BY PageCases DEF handleConfirm, ConfirmPanel, On, ScanPageOK
<1>2. page.scanId \in Scans
      BY <1>1 DEF handleConfirm, ConfirmPanel, ScanPageOK, KnowsScan
<1>3. PICK sent : sent = [scan |-> page.scanId, at |-> "sent", live |-> TRUE]
      OBVIOUS
<1>4. sent \in ConfirmRecs /\ sent.scan \in Scans /\ sent.at = "sent"
      BY <1>2, <1>3 DEF ConfirmRecs
<1>5. /\ page' = [page EXCEPT !.status = "confirming"]
      /\ confirms' = [confirms EXCEPT ![c] = sent] /\ confirms[c] = NoConfirm
      BY <1>3 DEF handleConfirm
<1>6. /\ confirms' \in [Confirms -> ConfirmRecs] /\ confirms'[c] = sent
      /\ \A d \in Confirms \ {c} : confirms'[d] = confirms[d]
      BY <1>4, <1>5 DEF BooksInv
<1>7. \A d \in Confirms : confirms'[d] = NoConfirm \/ confirms'[d].scan \in Scans
      BY <1>4, <1>6 DEF BooksInv
<1>8. \A t \in Scans : Tested(t)' = Tested(t)
      BY <1>4, <1>5, <1>6, NoConfirmEffect DEF Tested
<1>9. BooksInv'
      BY <1>6, <1>7, <1>8 DEF BooksInv, db
<1>10. /\ page' \in OnboardingPages /\ page'.scanId = page.scanId
       /\ page'.interval = page.interval /\ page'.polls = page.polls
       /\ page'.status # "pending_confirm"
      BY <1>1, <1>5 DEF OnboardingPages
<1>11. ScanPageOK(page') /\ page'.name = "onboarding"
      BY <1>1, <1>10, ScanStaysKnown
<1> QED BY <1>9, <1>11 DEF JourneyOK, PageInv, HubLinks

(* A step of the onboarding page that leaves the confirms alone. *)
LEMMA OnboardingStepOK ==
    ASSUME ScanPageOK(page'), page'.name = "onboarding", BooksInv'
    PROVE  JourneyOK
BY DEF JourneyOK, PageInv, HubLinks

LEMMA BooksKept ==
    ASSUME BooksInv, UNCHANGED <<registered, confirms>>,
           newest' \in Scans \cup {None, Confirmed}, scans' \in [Scans -> ScanStatus],
           \A s \in Scans : scans[s] = "gone" => scans'[s] = "gone"
    PROVE  BooksInv'
<1>1. \A t \in Scans : Tested(t)' = Tested(t)
      BY DEF Tested
<1> QED BY <1>1 DEF BooksInv

LEMMA StartBooks ==
    ASSUME BooksInv, UNCHANGED <<registered, confirms>>,
           UNCHANGED <<scans, newest>> \/ \E s \in Scans : start_onboard(s)
    PROVE  BooksInv'
<1>1. CASE UNCHANGED <<scans, newest>>
      BY <1>1, BooksKept DEF BooksInv
<1>2. ASSUME NEW s \in Scans, start_onboard(s) PROVE BooksInv'
  <2>1. /\ scans[s] = "absent" /\ scans' = [scans EXCEPT ![s] = "scanning"]
        /\ newest' = s
        BY <1>2 DEF start_onboard
  <2>2. /\ scans' \in [Scans -> ScanStatus]
        /\ \A t \in Scans : scans[t] = "gone" => scans'[t] = "gone"
        BY <2>1 DEF BooksInv, ScanStatus
  <2> QED BY <2>1, <2>2, BooksKept
<1> QED BY <1>1, <1>2

LEMMA OnboardInv ==
    ASSUME PageInv(page, event), BooksInv, LiveInv, Onboard
    PROVE  JourneyOK
<1>0. page.name = "onboarding" => ScanPageOK(page) /\ page \in OnboardingPages
      BY PageCases DEF ScanPageOK
<1>1. ASSUME UNCHANGED <<db, confirms, late>>, AccountsAnswered \/ handleStartScan \/ TryAgain
      PROVE  JourneyOK
  <2>1. ScanPageOK(page') /\ page'.name = "onboarding"
        BY <1>0, <1>1, QuietScanSteps DEF AccountsAnswered, handleStartScan, ScanPanel,
                                          TryAgain, FailedPanel, On
  <2>2. BooksInv'
        BY <1>1, BooksKept DEF BooksInv, db
  <2> QED BY <2>1, <2>2, OnboardingStepOK
<1>2. ASSUME UNCHANGED <<db, confirms>>, NEW p \in Polls,
             pollStatus(p) \/ PollServed(p) \/ PollAnswered(p) \/ PollFails(p)
      PROVE  JourneyOK
  <2>1. page.name = "onboarding"
    <3>1. CASE pollStatus(p) \/ PollServed(p) \/ PollAnswered(p)
          BY <3>1 DEF pollStatus, PollServed, PollAnswered, On
    <3>2. CASE PollFails(p)
          BY <3>2 DEF PollFails, On
    <3> QED BY <1>2, <3>1, <3>2
  <2>2. ScanPageOK(page') /\ page'.name = "onboarding"
        BY <1>0, <1>2, <2>1, PollScanSteps
  <2>3. BooksInv'
        BY <1>2, BooksKept DEF BooksInv, db
  <2> QED BY <2>2, <2>3, OnboardingStepOK
<1>3. ASSUME UNCHANGED <<account, registered, confirms, late>>, StartFails PROVE JourneyOK
  <2>1. ScanPageOK(page') /\ page'.name = "onboarding"
        BY <1>0, <1>3, QuietScanSteps DEF StartFails, On
  <2>2. BooksInv'
        BY <1>3, StartBooks DEF StartFails
  <2> QED BY <2>1, <2>2, OnboardingStepOK
<1>4. ASSUME UNCHANGED <<account, registered, confirms, late>>, NEW s \in Scans,
             StartAnswered(s)
      PROVE  JourneyOK
  <2>1. /\ page' = [page EXCEPT !.starting = FALSE, !.scanId = s, !.interval = TRUE]
        /\ page.name = "onboarding" /\ start_onboard(s)
        BY <1>4 DEF StartAnswered, On
  <2>2. page' \in OnboardingPages /\ page'.scanId = s
        BY <1>0, <2>1 DEF OnboardingPages
  <2>3. ScanPageOK(page') /\ page'.name = "onboarding"
        BY <1>0, <2>1, <2>2, ScanStaysKnown
  <2>4. BooksInv'
        BY <1>4, <2>1, StartBooks
  <2> QED BY <2>3, <2>4, OnboardingStepOK
<1>5. ASSUME NEW c \in Confirms, handleConfirm(c), UNCHANGED <<db, late>> PROVE JourneyOK
  <2>1. UNCHANGED db
        BY <1>5
  <2> QED BY <1>5, <2>1, HandleConfirmBooks
<1>6. ASSUME NEW c \in Confirms, ConfirmRead(c) PROVE JourneyOK
      BY <1>6, ConfirmReadBooks
<1>7. ASSUME NEW c \in Confirms, confirm_onboard(c) PROVE JourneyOK
      BY <1>7, ConfirmOnboardBooks
<1>8. ASSUME NEW c \in Confirms, ConfirmFails(c) PROVE JourneyOK
  <2>1. ConfirmAnswer(c, "failed") /\ UNCHANGED db
        BY <1>8 DEF ConfirmFails
  <2>2. BooksInv'
        BY <2>1, NothingMoreTested DEF ConfirmAnswer
  <2> QED BY <2>1, <2>2, AnsweredPage DEF JourneyOK
<1>9. ASSUME UNCHANGED <<db, confirms, late>>,
             \/ AccountsAnswered /\ token
             \/ handleStartScan
             \/ TryAgain
             \/ \E p \in Polls : pollStatus(p) \/ (PollServed(p) /\ token) \/ PollFails(p)
      PROVE  JourneyOK
      BY <1>1, <1>2, <1>9
<1>10. ASSUME StartFails \/ \E s \in Scans : StartAnswered(s),
              UNCHANGED <<account, registered, confirms, late>>
       PROVE  JourneyOK
      BY <1>3, <1>4, <1>10
<1>11. ASSUME NEW p \in Polls, PollAnswered(p), UNCHANGED <<db, confirms>> PROVE JourneyOK
      BY <1>2, <1>11
<1> QED BY <1>5, <1>6, <1>7, <1>8, <1>9, <1>10, <1>11 DEF Onboard

LEMMA PlainStepOK ==
    ASSUME PageInv(page, event), BooksInv, LiveInv, page.name \in PlainPages, Plain(page'),
           UNCHANGED <<scans, registered, newest, confirms>>
    PROVE  JourneyOK
<1>1. BooksInv'
      BY BooksKept DEF BooksInv
<1>2. \A c \in Confirms : ~confirms'[c].live
      BY DEF LiveInv, PlainPages
<1> QED BY <1>1, <1>2 DEF JourneyOK, PageInv, Plain, PlainPages, HubLinks

LEMMA EnterInv ==
    ASSUME PageInv(page, event), BooksInv, LiveInv, Enter, UNCHANGED <<db, confirms, late>>
    PROVE  JourneyOK
<1>1. page.name \in {"landing", "login", "signup"}
      BY DEF Enter, StartFree, SwitchForm, Submit, LoginForm, SignupForm,
             LoginAnswered, SignupAnswered, On
<1>2. Plain(page) /\ page.name \in PlainPages
      BY <1>1, PageCases DEF HubLinks, PlainPages
<1>3. \/ page' \in {LoginPage, SignupPage, DashboardPage, ConnectPage}
      \/ \E b \in BOOLEAN : page' = [page EXCEPT !.isSubmitting = b]
      BY DEF Enter, StartFree, SwitchForm, Submit, LoginAnswered, SignupAnswered,
             SubmitFails
<1>4. Plain(page')
  <2>1. CASE page' \in {LoginPage, SignupPage, DashboardPage, ConnectPage}
        BY <2>1, PlainStarts
  <2>2. ASSUME NEW b \in BOOLEAN, page' = [page EXCEPT !.isSubmitting = b]
        PROVE  Plain(page')
        BY <1>2, <2>2 DEF Plain
  <2> QED BY <1>3, <2>1, <2>2
<1> QED BY <1>2, <1>4, PlainStepOK DEF db

LEMMA ConnectInv ==
    ASSUME PageInv(page, event), BooksInv, LiveInv, Connect,
           UNCHANGED <<scans, registered, newest, confirms>>
    PROVE  JourneyOK
<1>1. page.name = "connect"
      BY DEF Connect, UserLoaded, handleConnect, ConnectButton, connect_account,
             ConnectFails, On
<1>2. Plain(page) /\ page.name \in PlainPages
      BY <1>1, PageCases DEF HubLinks, PlainPages
<1>3. \/ page' = [page EXCEPT !.userId = TRUE]
      \/ page' = [page EXCEPT !.status = "verifying"]
      \/ page' = [page EXCEPT !.status = "error"]
      \/ page' = [page EXCEPT !.status = "success", !.leaving = TRUE]
      BY DEF Connect, UserLoaded, handleConnect, connect_account, ConnectFails
<1>4. Plain(page')
      BY <1>2, <1>3 DEF Plain
<1> QED BY <1>2, <1>4, PlainStepOK

(* A page that is mounted waits for nothing that another has asked for.    *)
LEMMA MoveInv ==
    ASSUME BooksInv, Move PROVE JourneyOK
<1>1. PICK p \in {DashboardPage, ConnectPage, OnboardingPage, LoginPage} : Mount(p)
      BY DEF Move, Redirect, Visit, Unauthorized
<1>2. PageInv(page', event) /\ page'.name \notin HubLinks
  <2>1. page' = p
        BY <1>1 DEF Mount
  <2>2. CASE p = OnboardingPage
        BY <2>1, <2>2, OnboardingStarts DEF PageInv, ScanPageOK, OnboardingPages, HubLinks
  <2>3. CASE p # OnboardingPage
        BY <2>1, <2>3, PlainStarts DEF PageInv
  <2> QED BY <2>2, <2>3
<1>3. DEFINE left(c) == Abandoned(confirms[c])
<1>4. \A c \in Confirms : /\ left(c) \in ConfirmRecs /\ ~left(c).live
                          /\ left(c).scan = confirms[c].scan /\ left(c).at = confirms[c].at
      BY DEF Abandoned, BooksInv, ConfirmRecs
<1>5. confirms' = [c \in Confirms |-> IF confirms[c].live THEN left(c) ELSE confirms[c]]
      BY <1>1 DEF Mount
<1> HIDE DEF left
<1>6. /\ confirms' \in [Confirms -> ConfirmRecs]
      /\ \A c \in Confirms : /\ ~confirms'[c].live
                             /\ confirms'[c].scan = confirms[c].scan
                             /\ confirms'[c].at = confirms[c].at
      BY <1>4, <1>5 DEF BooksInv
<1>7. \A c \in Confirms : confirms'[c] = NoConfirm \/ confirms'[c].scan \in Scans
  <2>1. \A c \in Confirms : ~confirms[c].live => confirms'[c] = confirms[c]
        BY <1>5
  <2>2. \A c \in Confirms : confirms[c].live => confirms[c].scan \in Scans
        BY NoConfirmEffect DEF BooksInv
  <2> QED BY <1>6, <2>1, <2>2 DEF BooksInv
<1>8. \A t \in Scans : Tested(t)' = Tested(t)
      BY <1>6 DEF Tested
<1>9. BooksInv'
      BY <1>6, <1>7, <1>8 DEF BooksInv, Move, db
<1> QED BY <1>2, <1>6, <1>9 DEF JourneyOK

LEMMA RunScanInv ==
    ASSUME PageInv(page, event), BooksInv, LiveInv, _run_scan PROVE JourneyOK
<1>1. PICK s \in Scans, status \in {"pending_confirm", "failed"} :
         scans[s] = "scanning" /\ scans' = [scans EXCEPT ![s] = status]
      BY DEF _run_scan
<1>2. /\ scans' \in [Scans -> ScanStatus]
      /\ \A t \in Scans : scans[t] = "gone" => scans'[t] = "gone"
      BY <1>1 DEF BooksInv, ScanStatus
<1>3. BooksInv'
      BY <1>2, BooksKept DEF _run_scan, BooksInv
<1>4. UNCHANGED <<page, confirms>>
      BY DEF _run_scan
<1> QED BY <1>3, <1>4 DEF JourneyOK, LiveInv

LEMMA JourneyInv ==
    ASSUME PageInv(page, event), BooksInv, DecisionsInv, LiveInv, DriftInv, Journey
    PROVE  PageInv(page', event') /\ BooksInv' /\ DecisionsInv' /\ LiveInv' /\ DriftInv'
<1>1. JourneyOK
      BY EnterInv, ConnectInv, OnboardInv, RunScanInv, MoveInv DEF Journey, OnboardingNext
<1>2. UNCHANGED event /\ DriftInv'
      BY DEF Journey, drift, worker, DriftInv
<1>3. DecisionsInv' /\ \A d \in Decisions : decisions'[d].live => page'.name \in {"hub", "drift"}
  <2>1. CASE page'.name \in HubLinks
    <3>1. UNCHANGED <<page, decisions>>
          BY <1>1, <2>1 DEF JourneyOK, Journey
    <3> QED BY <3>1 DEF DecisionsInv, LiveInv
  <2>2. CASE page'.name \notin HubLinks
        BY <2>2, DecisionsLetGo DEF Journey
  <2> QED BY <2>1, <2>2
<1> QED BY <1>1, <1>2, <1>3 DEF JourneyOK, LiveInv

LEMMA FlagsStep ==
    ASSUME FlagsInv, PageInv(page, event), [GovernanceNext]_vars PROVE FlagsInv'
<1>0. signedUp \in BOOLEAN /\ token \in BOOLEAN /\ account \in BOOLEAN /\ late \in BOOLEAN
      BY DEF FlagsInv
<1>1. signedUp' \in BOOLEAN
  <2>1. ASSUME Enter PROVE signedUp' \in BOOLEAN
        BY <1>0, <2>1 DEF Enter, SignupAnswered
  <2> QED BY <1>0, <2>1 DEF GovernanceNext, Journey, OnboardingNext, Move, vars, onboardingVars
<1>2. token' \in BOOLEAN
  <2>1. ASSUME Enter PROVE token' \in BOOLEAN
        BY <1>0, <2>1 DEF Enter, LoginAnswered, setAuth
  <2>2. ASSUME Move \/ HubUnauthorized PROVE token' \in BOOLEAN
        BY <1>0, <2>2 DEF Move, Unauthorized, HubUnauthorized
  <2> QED BY <1>0, <2>1, <2>2 DEF GovernanceNext, Journey, OnboardingNext, vars, onboardingVars
<1>3. account' \in BOOLEAN
  <2>1. ASSUME Connect PROVE account' \in BOOLEAN
        BY <1>0, <2>1 DEF Connect, connect_account, ConnectFails
  <2>2. ASSUME Onboard PROVE UNCHANGED account
        BY <2>2 DEF Onboard, db, ConfirmRead, confirm_onboard, ConfirmFails
  <2> QED BY <1>0, <2>1, <2>2 DEF GovernanceNext, Journey, OnboardingNext, Move, _run_scan,
                                  vars, onboardingVars, db
<1>4. late' \in BOOLEAN
  <2>1. ASSUME NEW p \in Polls, PollAnswered(p) PROVE late' \in BOOLEAN
    <3>1. late' = (late \/ page.polls[p].old)
          BY <2>1 DEF PollAnswered
    <3> QED BY <3>1
  <2>2. UNCHANGED late \/ \E p \in Polls : PollAnswered(p)
        BY DEF GovernanceNext, Journey, OnboardingNext, Onboard, Move, _run_scan, vars,
               onboardingVars
  <2> QED BY <1>0, <2>1, <2>2
<1> QED BY <1>1, <1>2, <1>3, <1>4 DEF FlagsInv

-----------------------------------------------------------------------------
LEMMA GovernanceStarts ==
    ASSUME GovernanceInit PROVE GovernanceInv
<1>1. FlagsInv
      BY DEF GovernanceInit, OnboardingInit, FlagsInv
<1>2. PageInv(page, event)
      BY PlainStarts DEF GovernanceInit, OnboardingInit, PageInv
<1>3. BooksInv
  <2>1. /\ scans = [s \in Scans |-> "absent"] /\ registered = [s \in Scans |-> 0]
        /\ confirms = [c \in Confirms |-> NoConfirm] /\ newest = None
        BY DEF GovernanceInit, OnboardingInit
  <2>2. \A s : Tested(s) = {}
        BY <2>1, NoConfirmEffect DEF Tested
  <2>3. Cardinality({}) = 0 /\ Cardinality(Confirms) \in Nat
        BY FS_EmptySet, ConfirmsCounted
  <2>4. \A s \in Scans : registered[s] + Cardinality(Tested(s)) <= Cardinality(Confirms)
        BY <2>1, <2>2, <2>3
  <2> QED BY <2>1, <2>4, NoConfirmEffect DEF BooksInv, ScanStatus
<1>4. DecisionsInv /\ LiveInv
      BY NoConfirmEffect, DecisionRecords DEF GovernanceInit, OnboardingInit, DecisionsInv, LiveInv
<1>5. DriftInv
      BY GovernanceAssumption DEF GovernanceInit, NoEvents, DriftInv, Statuses, Baselines
<1> QED BY <1>1, <1>2, <1>3, <1>4, <1>5 DEF GovernanceInv

LEMMA GovernanceStep ==
    ASSUME GovernanceInv, [GovernanceNext]_vars PROVE GovernanceInv'
<1>0. FlagsInv /\ PageInv(page, event) /\ BooksInv /\ DecisionsInv /\ LiveInv /\ DriftInv
      BY DEF GovernanceInv
<1>1. FlagsInv'
      BY <1>0, FlagsStep
<1>2. ASSUME UNCHANGED <<db, confirms>> PROVE BooksInv'
      BY <1>0, <1>2, BooksKept DEF BooksInv, db
<1>3. CASE Journey
      BY <1>0, <1>1, <1>3, JourneyInv DEF GovernanceInv
<1>4. CASE Worker /\ UNCHANGED <<onboardingVars, audit, decisions>>
  <2>1. UNCHANGED <<page, audit, decisions, confirms>> /\ UNCHANGED <<db, confirms>>
        BY <1>4 DEF onboardingVars
  <2>2. PageInv(page', event') /\ DriftInv'
        BY <1>0, <1>4, <2>1, WorkerInv
  <2>3. DecisionsInv' /\ LiveInv'
        BY <1>0, <2>1 DEF DecisionsInv, LiveInv
  <2> QED BY <1>1, <1>2, <2>1, <2>2, <2>3 DEF GovernanceInv
<1>5. CASE /\ (OpenProject /\ UNCHANGED token) \/ HubUnauthorized
           /\ UNCHANGED <<signedUp, db, late, drift, worker>>
  <2>1. PageInv(page', event') /\ DecisionsInv' /\ LiveInv'
        BY <1>0, <1>5, OpenProjectInv
  <2>2. UNCHANGED <<db, confirms>>
        BY <1>5 DEF OpenProject, HubUnauthorized
  <2>3. DriftInv'
        BY <1>0, <1>5 DEF DriftInv, drift, worker
  <2> QED BY <1>1, <1>2, <2>1, <2>2, <2>3 DEF GovernanceInv
<1>6. CASE EventPages /\ UNCHANGED <<signedUp, token, db, confirms, late, worker>>
  <2>1. PageInv(page', event') /\ DecisionsInv' /\ LiveInv' /\ DriftInv'
        BY <1>0, <1>6, EventPagesInv
  <2> QED BY <1>1, <1>2, <1>6, <2>1 DEF GovernanceInv
<1>7. CASE ChoicePages /\ UNCHANGED <<signedUp, token, db, confirms, late, drift, worker,
                                      decisions>>
  <2>1. ChoiceOK(page') /\ page'.name = page.name
        BY <1>0, <1>7, ChoicePagesInv
  <2>2. DecisionsInv' /\ LiveInv' /\ DriftInv'
        BY <1>0, <1>7, <2>1 DEF DecisionsInv, LiveInv, DriftInv, drift, worker
  <2> QED BY <1>1, <1>2, <1>7, <2>1, <2>2 DEF GovernanceInv, PageInv
<1>8. CASE UNCHANGED vars
  <2>1. UNCHANGED <<page, event>> /\ UNCHANGED <<db, confirms>>
        BY <1>8 DEF vars, onboardingVars, governance, drift
  <2>2. DecisionsInv' /\ LiveInv' /\ DriftInv'
        BY <1>0, <1>8 DEF DecisionsInv, LiveInv, DriftInv, drift, worker, governance, vars,
                          onboardingVars
  <2> QED BY <1>0, <1>1, <1>2, <2>1, <2>2 DEF GovernanceInv
<1> QED BY <1>3, <1>4, <1>5, <1>6, <1>7, <1>8 DEF GovernanceNext

LEMMA GovernanceInductive == GovernanceSpec => []GovernanceInv
BY GovernanceStarts, GovernanceStep, PTL DEF GovernanceSpec

(* Every page has the fields of its kind and no more reads than it may; a
   confirm names a scan; a scan is not registered more often than there are
   confirms; and the drift queue holds no more messages than were sent.    *)
THEOREM GovernanceTypeCorrect == GovernanceSpec => []GovernanceTypeOK
<1>1. ASSUME GovernanceInv PROVE GovernanceTypeOK
  <2>0. FlagsInv /\ PageInv(page, event) /\ BooksInv /\ DecisionsInv /\ DriftInv
        BY <1>1 DEF GovernanceInv
  <2>1. registered \in [Scans -> 0..Cardinality(Confirms)]
    <3>1. ASSUME NEW s \in Scans PROVE registered[s] \in 0..Cardinality(Confirms)
      <4>1. Cardinality(Tested(s)) \in Nat /\ Cardinality(Confirms) \in Nat
            BY TestedOnlyConfirms, ConfirmsCounted
      <4>2. registered[s] \in Nat
            /\ registered[s] + Cardinality(Tested(s)) <= Cardinality(Confirms)
            BY <2>0 DEF BooksInv
      <4> QED BY <4>1, <4>2
    <3> QED BY <2>0, <3>1 DEF BooksInv
  <2>2. queue \in 0..MaxChanges
    <3>1. /\ queue \in Nat /\ todo \in {0, 1, 2} /\ changes \in Nat /\ changes <= MaxChanges
          /\ queue + (IF todo > 0 THEN 1 ELSE 0) <= changes /\ MaxChanges \in Nat
          BY <2>0, GovernanceAssumption DEF DriftInv, Baselines
    <3> QED BY <3>1
  <2>3. \A d \in Decisions : decisions[d] \in {NoDecision, Over} \/ decisions[d].event \in Events
        BY <2>0 DEF DecisionsInv, DecisionRecs
  <2>4. CASE OnEvents
    <3>1. EventsOK(page, event)
          BY <2>0, <2>4, PageCases DEF OnEvents
    <3>2. /\ page.shown \in [Events -> Statuses] /\ page.actionId \in Events \cup {None}
          /\ Len(page.reads) <= MaxReads
          BY <3>1 DEF EventsOK, EventsPages
    <3>3. ~OnChoice /\ ~On("onboarding")
          BY <2>4 DEF OnEvents, OnChoice, On
    <3>4. PageOK
          BY <2>4, <3>2, <3>3 DEF PageOK
    <3> QED BY <2>0, <2>1, <2>2, <2>3, <3>4 DEF GovernanceTypeOK, FlagsInv, BooksInv, DriftInv,
               ScanStatus
  <2>5. CASE OnChoice
    <3>1. ChoiceOK(page)
          BY <2>0, <2>5, PageCases DEF OnChoice
    <3>2. /\ page.choice \in Layers \cup Periods /\ page.scanning \in Periods \cup {None}
          /\ Len(page.reads) <= MaxReads
          BY <3>1 DEF ChoiceOK, ChoicesPages, AnyChoice
    <3>3. ~OnEvents /\ ~On("onboarding")
          BY <2>5 DEF OnEvents, OnChoice, On
    <3>4. PageOK
          BY <2>5, <3>2, <3>3 DEF PageOK
    <3> QED BY <2>0, <2>1, <2>2, <2>3, <3>4 DEF GovernanceTypeOK, FlagsInv, BooksInv, DriftInv,
               ScanStatus
  <2>6. CASE ~OnEvents /\ ~OnChoice
    <3>1. On("onboarding") => /\ page.scanId \in Scans \cup {None}
                              /\ page.interval => page.scanId # None
          BY <2>0, PageCases, OnboardingAssumption
             DEF On, ScanPageOK, KnowsScan, OnboardingPages
    <3>2. PageOK
          BY <2>6, <3>1 DEF PageOK
    <3> QED BY <2>0, <2>1, <2>2, <2>3, <3>2 DEF GovernanceTypeOK, FlagsInv, BooksInv, DriftInv,
               ScanStatus
  <2> QED BY <2>4, <2>5, <2>6
<1> QED BY <1>1, GovernanceInductive, PTL

(* Whatever is decided, rescanned, filtered and answered, and in whatever
   order: a page of the project that waits for nothing shows what is so, unless
   an answer has overtaken another, was lost, or came from a page that was left. *)
THEOREM SettledPagesAreCurrent == GovernanceSpec => []ShownIsCurrent
<1>1. ASSUME GovernanceInv PROVE ShownIsCurrent
  <2>0. PageInv(page, event)
        BY <1>1 DEF GovernanceInv
  <2>1. ASSUME OnEvents, Settled, ~page.slipped
        PROVE  /\ \A e \in Events : page.shown[e] \in {"absent", event[e]}
               /\ totalDriftAll <= Cardinality({e \in Events : event[e] = "detected"})
    <3>1. Current(page, event) /\ page.reads = <<>>
          BY <2>0, <2>1, PageCases DEF OnEvents, EventsOK, Settled
    <3>2. \A e \in Events : page.shown[e] \in {"absent", event[e]}
          BY <2>1, <3>1 DEF Current, Matches
    <3>3. PICK shown, open : /\ shown = {e \in Events : page.shown[e] = "detected"}
                             /\ open = {e \in Events : event[e] = "detected"}
          OBVIOUS
    <3>4. shown \in SUBSET open
          BY <3>2, <3>3
    <3>5. IsFiniteSet(open)
          BY <3>3, GovernanceAssumption, FS_Subset
    <3>6. Cardinality(shown) <= Cardinality(open)
          BY <3>4, <3>5, FS_Subset
    <3> QED BY <3>2, <3>3, <3>6 DEF totalDriftAll
  <2>2. ASSUME OnChoice, page.reads = <<>>, ~page.slipped
        PROVE  page.shown = page.choice /\ ~page.loading
    <3>1. FitsChoice(page)
          BY <2>0, <2>2, PageCases DEF OnChoice, ChoiceOK
    <3> QED BY <2>2, <3>1 DEF FitsChoice
  <2>3. On("audit") /\ page.reads = <<>> /\ ~page.slipped => LogList = page.choice
        BY <2>2 DEF On, OnChoice, LogList
  <2>4. On("metrics") /\ page.reads = <<>> /\ ~page.slipped => Charts = page.choice
        BY <2>2 DEF On, OnChoice, Charts
  <2> QED BY <2>1, <2>3, <2>4 DEF ShownIsCurrent
<1> QED BY <1>1, GovernanceInductive, PTL

=============================================================================
