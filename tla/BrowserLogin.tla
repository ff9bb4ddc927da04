---------------------------- MODULE BrowserLogin ----------------------------
(***************************************************************************)
(* The browser login broker (server/playwright-login-broker.ts): one login *)
(* of one test account with a headless browser.  Three activities of one   *)
(* Node process work on one page: the main one submits the form and then   *)
(* waits for the result (main), a wait for the navigation that a login     *)
(* leads to (nav), and a watcher that answers a second factor (otp).  The  *)
(* page does what it wants when it wants: it may move within the           *)
(* application by itself, to show an error or a second factor at another   *)
(* address, and back.  Two things are assumed of it: it goes to an         *)
(* identity provider, or stores a session, only after a POST, and it keeps *)
(* the session it has stored.                                              *)
(*                                                                         *)
(* Time is not counted: a time-out may strike at any moment of the wait it *)
(* bounds.  One duration matters, from a click that failed to the last     *)
(* look at what it may have started, at least 100 ms: the page is taken to *)
(* have dealt with the click by then, if it was reached.  A rejection      *)
(* nobody has asked for ends a Node process: crashed.                      *)
(***************************************************************************)
EXTENDS Naturals

CONSTANTS
  MaxPosts  \* bound: requests of the page with the credentials

ASSUME PostsAssumption == MaxPosts \in Nat \ {0}

VARIABLES
  required,   \* requiredAuthState is given: an account of ORISO
  url,        \* where the page is: where the form was filled ("login"), at
              \* an identity provider ("idp"), or at another address of the
              \* application, which may show an error, a second factor or its
              \* contents and has stored no session ("elsewhere"), or has
              \* ("app")
  form,       \* "filled", or "empty" after the page mounted it anew
  mounted,    \* the late mount of the login page has happened
  clicked,    \* a submission has reached the page, which has yet to send it
  posts,      \* how often the page has sent the credentials for main
  requested,  \* submissionMayHaveStarted: the page has sent some POST
  otpShown,   \* the field for a one-time code is visible
  otpBefore,  \* otpWasVisibleBeforeSubmit
  main,       \* what the main activity does
  attempt,    \* its attempt to click, 1 or 2
  recovered,  \* recoveredFormReset
  nav,        \* postLoginNavigation: "pending", "arrived" or "failed"
  navHeld,    \* somebody awaits it
  otp,        \* the watcher: what it does, or how it ended
  outcome     \* "running", "opened", "reported" or "crashed"

page == <<url, form, mounted, clicked, posts, requested, otpShown>>
submit == <<attempt, recovered>>
given == <<required, otpBefore>>
vars == <<page, given, main, submit, nav, navHeld, otp, outcome>>
-----------------------------------------------------------------------------
(* The page has loaded and both fields are filled; some login pages show   *)
(* the field for a code from the start.                                    *)
Init ==
  /\ required \in BOOLEAN
  /\ url = "login" /\ form = "filled" /\ mounted = FALSE
  /\ clicked = FALSE /\ posts = 0 /\ requested = FALSE
  /\ otpShown \in BOOLEAN /\ otpBefore = otpShown
  /\ main = "locate" /\ attempt = 1 /\ recovered = FALSE
  /\ nav = "pending" /\ navHeld = FALSE
  /\ otp = "watching"
  /\ outcome = "running"

Running == outcome = "running"

(* The browser closes (finally); a wait that is still pending is rejected, *)
(* and it is an unhandled rejection if nobody has taken it up.             *)
Fails ==
  /\ main' = "ended"
  /\ nav' = IF nav = "pending" THEN "failed" ELSE nav
  /\ outcome' = IF nav = "pending" /\ ~navHeld THEN "crashed" ELSE "reported"

MainGoes(pc) == main' = pc /\ UNCHANGED <<nav, outcome>>
-----------------------------------------------------------------------------
(* The page.                                                               *)

(* A submission of a filled form sends the credentials; an empty form is   *)
(* refused by the page itself, and elsewhere there may be no form.         *)
Sendable == form = "filled" /\ url \in {"login", "elsewhere"}

PageSubmits ==
  /\ Running /\ clicked /\ posts < MaxPosts
  /\ clicked' = FALSE
  /\ \/ /\ Sendable
        /\ posts' = posts + 1 /\ requested' = TRUE
     \/ /\ ~Sendable \/ url = "elsewhere"
        /\ UNCHANGED <<posts, requested>>
  /\ UNCHANGED <<url, form, mounted, otpShown, given, main,
                 submit, nav, navHeld, otp, outcome>>

(* The login page mounts late and replaces the fields, once.               *)
PageMounts ==
  /\ Running /\ url = "login" /\ ~mounted /\ ~requested
  /\ mounted' = TRUE /\ form' = "empty"
  /\ UNCHANGED <<url, clicked, posts, requested, otpShown, given,
                 main, submit, nav, navHeld, otp, outcome>>

(* The credentials are refused, and the form is shown again, empty, where  *)
(* it was or at another address (PageGoes).                                *)
PageRefuses ==
  /\ Running /\ url \in {"login", "elsewhere"} /\ requested
  /\ form' = "empty"
  /\ UNCHANGED <<url, mounted, clicked, posts, requested, otpShown,
                 given, main, submit, nav, navHeld, otp, outcome>>

(* A field for a code shows, where a second factor is asked for or not.    *)
PageAsksForCode ==
  /\ Running /\ ~otpShown
  /\ otpShown' = TRUE
  /\ UNCHANGED <<url, form, mounted, clicked, posts, requested,
                 given, main, submit, nav, navHeld, otp, outcome>>

(* It moves: on, to an error, or back.                                     *)
PageGoes(to) ==
  /\ Running /\ url \notin {to, "app"}
  /\ requested \/ to \in {"login", "elsewhere"}
  /\ url' = to
  /\ UNCHANGED <<form, mounted, clicked, posts, requested, otpShown,
                 given, main, submit, nav, navHeld, otp, outcome>>
-----------------------------------------------------------------------------
(* postLoginNavigation = page.waitForURL(...), with its own time-out: any  *)
(* other address of the application will do.                               *)
NavArrives ==
  /\ Running /\ nav = "pending" /\ url \in {"elsewhere", "app"}
  /\ nav' = "arrived"
  /\ UNCHANGED <<page, given, main, submit, navHeld, otp, outcome>>

NavTimesOut ==
  /\ Running /\ nav = "pending"
  /\ nav' = "failed"
  /\ outcome' = IF navHeld THEN outcome ELSE "crashed"
  /\ UNCHANGED <<page, given, main, submit, navHeld, otp>>
-----------------------------------------------------------------------------
(* activateLoginSubmit, with the main activity's three callbacks.          *)

(* A retry that never asks what the failed click has done.                 *)
TransitionUnseen == FALSE

(* loginTransitionStarted                                                  *)
TransitionStarted ==
  requested \/ url # "login" \/ (~otpBefore /\ otpShown)

Submitting(pc) == Running /\ main = pc

(* No submit control was visible for two seconds: Enter instead.           *)
LocateFails ==
  /\ Submitting("locate")
  /\ MainGoes("enter")
  /\ UNCHANGED <<page, given, submit, navHeld, otp>>

Locate ==
  /\ Submitting("locate")
  /\ MainGoes("click")
  /\ UNCHANGED <<page, given, submit, navHeld, otp>>

Reaches == clicked' = TRUE
           /\ UNCHANGED <<url, form, mounted, posts, requested, otpShown>>

(* Main takes up the wait for the navigation once it is through with       *)
(* submitting (Promise.race).                                              *)
ToRace == MainGoes("race") /\ navHeld' = TRUE

Click ==
  /\ Submitting("click")
  /\ Reaches
  /\ ToRace
  /\ UNCHANGED <<given, submit, otp>>

(* A click that is reported as failed may have reached the page.           *)
ClickThrows ==
  /\ Submitting("click")
  /\ Reaches \/ UNCHANGED page
  /\ MainGoes("look")
  /\ UNCHANGED <<given, submit, navHeld, otp>>

(* After 100 ms.                                                           *)
LookAfterClick ==
  /\ Submitting("look")
  /\ IF TransitionStarted THEN ToRace
                          ELSE MainGoes("prepare") /\ UNCHANGED navHeld
  /\ UNCHANGED <<page, given, submit, otp>>

(* prepareRetry: nothing to do, or a form that still has its values.       *)
NothingToRecover ==
  /\ Submitting("prepare")
  /\ recovered \/ TransitionStarted \/ form = "filled"
  /\ MainGoes("again")
  /\ UNCHANGED <<page, given, submit, navHeld, otp>>

(* It finds both fields empty: the late mount.                             *)
FindFormReset ==
  /\ Submitting("prepare") /\ ~recovered /\ ~TransitionStarted
  /\ form = "empty"
  /\ recovered' = TRUE
  /\ MainGoes("refill")
  /\ UNCHANGED <<page, given, attempt, navHeld, otp>>

Refill ==
  /\ Submitting("refill")
  /\ form' = IF TransitionStarted THEN form ELSE "filled"
  /\ MainGoes("again")
  /\ UNCHANGED <<url, mounted, clicked, posts, requested, otpShown,
                 given, submit, navHeld, otp>>

LookAfterRetry ==
  /\ Submitting("again") /\ ~clicked
  /\ IF TransitionStarted
       THEN ToRace /\ UNCHANGED attempt
       ELSE /\ MainGoes(IF attempt = 1 THEN "locate" ELSE "enter")
            /\ attempt' = 2
            /\ UNCHANGED navHeld
  /\ UNCHANGED <<page, given, recovered, otp>>

(* fallback: Enter in the password field.                                  *)
PressEnter ==
  /\ Submitting("enter")
  /\ Reaches
  /\ ToRace
  /\ UNCHANGED <<given, submit, otp>>

(* A field cannot be found, read or filled any more, or Enter fails.       *)
SubmitThrows ==
  /\ Running /\ main \in {"prepare", "refill", "enter"}
  /\ Fails
  /\ UNCHANGED <<page, given, submit, navHeld, otp>>
-----------------------------------------------------------------------------
(* otpChallenge                                                            *)
WatcherGoes(pc) == otp' = pc

Settled == main \in {"verify", "ended"}

OtpSeen ==
  /\ Running /\ otp = "watching" /\ otpShown /\ ~Settled
  /\ WatcherGoes("grace")
  /\ navHeld' = TRUE
  /\ UNCHANGED <<page, given, main, submit, nav, outcome>>

OtpNeverSeen ==
  /\ Running /\ otp = "watching"
  /\ WatcherGoes("failed")
  /\ UNCHANGED <<page, given, main, submit, nav, navHeld, outcome>>

(* The navigation or the grace period is over: isOtpChallenge.  Another    *)
(* address of the application is one if it has the path of the login.      *)
Judge ==
  /\ Running /\ otp = "grace"
  /\ \/ WatcherGoes("asking")
     \/ url \in {"elsewhere", "app"} /\ WatcherGoes("awaiting")
  /\ UNCHANGED <<page, given, main, submit, nav, navHeld, outcome>>

CodeObtained ==
  /\ Running /\ otp = "asking"
  /\ WatcherGoes("typing")
  /\ UNCHANGED <<page, given, main, submit, nav, navHeld, outcome>>

(* A lookup that failed taken for a login without a second factor.         *)
CodeMissingIsFine ==
  /\ Running /\ otp = "asking"
  /\ WatcherGoes("arrived")
  /\ UNCHANGED <<page, given, main, submit, nav, navHeld, outcome>>

(* The hub has no code for the account: wait for what the login does.      *)
CodeMissing ==
  /\ Running /\ otp = "asking"
  /\ WatcherGoes("awaiting")
  /\ UNCHANGED <<page, given, main, submit, nav, navHeld, outcome>>

(* The code is typed and the form submitted once more, the code in it; the *)
(* watcher does not ask what main is doing, nor count as a post of main's. *)
TypeCode ==
  /\ Running /\ otp = "typing"
  /\ requested' = TRUE
  /\ WatcherGoes("awaiting")
  /\ UNCHANGED <<url, form, mounted, clicked, posts, otpShown, given, main,
                 submit, nav, navHeld, outcome>>

TypingThrows ==
  /\ Running /\ otp = "typing"
  /\ WatcherGoes("failed")
  /\ UNCHANGED <<page, given, main, submit, nav, navHeld, outcome>>

OtpSettles ==
  /\ Running /\ otp = "awaiting" /\ nav # "pending"
  /\ WatcherGoes(nav)
  /\ UNCHANGED <<page, given, main, submit, nav, navHeld, outcome>>
-----------------------------------------------------------------------------
(* A wait for both.                                                        *)
BothArrived == nav = "arrived" /\ otp = "arrived"

(* Promise.race([postLoginNavigation, otpChallenge])                       *)
OneArrived == nav = "arrived" \/ otp = "arrived"

RaceWon ==
  /\ Running /\ main = "race" /\ OneArrived
  /\ MainGoes("verify")
  /\ UNCHANGED <<page, given, submit, navHeld, otp>>

RaceLost ==
  /\ Running /\ main = "race" /\ (nav = "failed" \/ otp = "failed")
  /\ Fails
  /\ UNCHANGED <<page, given, submit, navHeld, otp>>

(* waitForRestorableAuthState and waitForChatUnlock, then the state is     *)
(* stored, its removal scheduled and its path printed.                     *)
Restorable == required => url = "app"

Opened ==
  /\ Running /\ main = "verify" /\ Restorable
  /\ main' = "ended" /\ outcome' = "opened"
  /\ UNCHANGED <<page, given, submit, nav, navHeld, otp>>

(* No session within ten seconds, or something fails before the path is    *)
(* printed.                                                                *)
VerifyThrows ==
  /\ Running /\ main = "verify"
  /\ Fails
  /\ UNCHANGED <<page, given, submit, navHeld, otp>>
-----------------------------------------------------------------------------
PageNext ==
  \/ PageSubmits \/ PageMounts \/ PageRefuses \/ PageAsksForCode
  \/ \E to \in {"login", "idp", "elsewhere", "app"} : PageGoes(to)

MainNext ==
  \/ LocateFails \/ Locate \/ Click \/ ClickThrows \/ LookAfterClick
  \/ NothingToRecover \/ FindFormReset \/ Refill \/ LookAfterRetry
  \/ PressEnter \/ SubmitThrows
  \/ RaceWon \/ RaceLost \/ Opened \/ VerifyThrows

OtpNext ==
  \/ OtpSeen \/ OtpNeverSeen \/ Judge \/ CodeObtained \/ CodeMissing
  \/ TypeCode \/ TypingThrows \/ OtpSettles

Next == PageNext \/ MainNext \/ OtpNext \/ NavArrives \/ NavTimesOut

Spec == Init /\ [][Next]_vars

(* Every wait of the main activity and the wait for the navigation have    *)
(* time-outs; a click has been dealt with in the end (see above).  Nothing *)
(* is assumed of the page otherwise, of the hub's answer to getOtp, or of  *)
(* the watcher.                                                            *)
FairSpec ==
  /\ Spec
  /\ WF_vars(MainNext)
  /\ WF_vars(NavArrives \/ NavTimesOut)
  /\ WF_vars(PageSubmits)
-----------------------------------------------------------------------------
Flags ==
  /\ required \in BOOLEAN /\ otpBefore \in BOOLEAN /\ mounted \in BOOLEAN
  /\ clicked \in BOOLEAN /\ requested \in BOOLEAN /\ otpShown \in BOOLEAN
  /\ recovered \in BOOLEAN /\ navHeld \in BOOLEAN

(* The three activities and the page have the values the code gives them   *)
(* (playwright-login-broker.ts, playwrightLogin).                          *)
TypeOK ==
  /\ Flags
  /\ url \in {"login", "idp", "elsewhere", "app"}
  /\ form \in {"filled", "empty"}
  /\ posts \in 0..MaxPosts
  /\ main \in {"locate", "click", "look", "prepare", "refill", "again",
               "enter", "race", "verify", "ended"}
  /\ attempt \in 1..2
  /\ nav \in {"pending", "arrived", "failed"}
  /\ otp \in {"watching", "grace", "asking", "typing", "awaiting", "arrived",
              "failed"}
  /\ outcome \in {"running", "opened", "reported", "crashed"}

(* Whatever becomes of a click, of the form and of the retries, the main   *)
(* activity has the credentials sent once: neither a request that a failed *)
(* click has started nor a login the page has refused is followed by       *)
(* another ("Do not refill after a potentially dispatched authentication   *)
(* request", broker lines 375-381; the retries, 279-290 and 439-466).      *)
SubmittedOnce == posts <= 1

(* A state file is handed out only for a login that the wait for the       *)
(* navigation has seen arrive: neither a one-time code the hub could not   *)
(* give nor a watcher that ended without an arrival counts as success; and *)
(* an account that must have a session has one by then                     *)
(* (broker lines 409-436, 469-491).  For any other account the code knows  *)
(* no more than that the page has been at another address of the           *)
(* application, which may have shown an error or a second factor.          *)
OpenedHasArrived ==
  outcome = "opened" => nav = "arrived" /\ (required => url = "app")

(* Every login ends, though the page may never move and the hub may never  *)
(* answer the question for a code (Promise.race, broker lines 470-473).    *)
LoginEnds == <>(outcome # "running")
=============================================================================
