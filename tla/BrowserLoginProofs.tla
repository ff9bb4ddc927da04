-------------------------- MODULE BrowserLoginProofs --------------------------
(* Proofs about BrowserLogin, for any bound on the posts.                      *)
EXTENDS BrowserLogin, TLAPS
-----------------------------------------------------------------------------
(* The flags are Booleans in every step; Zenon is the prover for these.      *)
LEMMA FlagsStay == Flags /\ [Next]_vars => Flags'
<1> SUFFICES ASSUME Flags, [Next]_vars PROVE Flags'
  OBVIOUS
<1> USE DEF Flags, page, given, submit
<1>1. CASE UNCHANGED vars
  BY <1>1, Zenon DEF vars
<1>2. CASE PageNext
  BY <1>2, Zenon DEF PageNext, PageSubmits, PageMounts, PageRefuses,
     PageAsksForCode, PageGoes
<1>3. CASE LocateFails \/ Locate \/ Click \/ ClickThrows \/ PressEnter
  BY <1>3, Zenon DEF LocateFails, Locate, Click, ClickThrows, PressEnter, ToRace,
     Reaches
<1>4. CASE LookAfterClick \/ LookAfterRetry
  BY <1>4, Zenon DEF LookAfterClick, LookAfterRetry, ToRace
<1>5. CASE NothingToRecover \/ FindFormReset \/ Refill \/ SubmitThrows
  BY <1>5, Zenon DEF NothingToRecover, FindFormReset, Refill, SubmitThrows
<1>6. CASE RaceWon \/ RaceLost \/ Opened \/ VerifyThrows
  BY <1>6, Zenon DEF RaceWon, RaceLost, Opened, VerifyThrows
<1>7. CASE OtpNext
  BY <1>7, Zenon DEF OtpNext, OtpSeen, OtpNeverSeen, Judge, CodeObtained,
     CodeMissing, TypeCode, TypingThrows, OtpSettles
<1>8. CASE NavArrives \/ NavTimesOut
  BY <1>8, Zenon DEF NavArrives, NavTimesOut
<1> QED
  BY <1>1, <1>2, <1>3, <1>4, <1>5, <1>6, <1>7, <1>8, Zenon DEF Next, MainNext

(* Every variable of BrowserLogin has its type                               *)
(* (playwright-login-broker.ts, playwrightLogin).                            *)
THEOREM LoginTypesCorrect == Spec => []TypeOK
<1>1. Init => TypeOK
  <2> SUFFICES ASSUME Init PROVE TypeOK
    OBVIOUS
  <2>1. Flags
    BY Zenon DEF Init, Flags
  <2>2. posts \in 0..MaxPosts /\ attempt \in 1..2
    BY PostsAssumption DEF Init
  <2> QED
    BY <2>1, <2>2 DEF Init, TypeOK
<1>2. TypeOK /\ [Next]_vars => TypeOK'
  <2> SUFFICES ASSUME TypeOK, [Next]_vars PROVE TypeOK'
    OBVIOUS
  <2>0. Flags'
    BY FlagsStay DEF TypeOK
  <2> USE PostsAssumption, <2>0 DEF TypeOK, page, given, submit
  <2>1. CASE UNCHANGED vars
    BY <2>1 DEF vars
  <2>2. CASE PageNext
    BY <2>2 DEF PageNext, PageSubmits, PageMounts, PageRefuses, PageAsksForCode,
                PageGoes
  <2>3. CASE LocateFails \/ Locate \/ Click \/ ClickThrows \/ LookAfterClick
    BY <2>3 DEF LocateFails, Locate, Click, ClickThrows, LookAfterClick, ToRace,
                MainGoes, Reaches, Submitting
  <2>4. CASE \/ NothingToRecover \/ FindFormReset \/ Refill \/ LookAfterRetry
             \/ PressEnter \/ SubmitThrows
    BY <2>4 DEF NothingToRecover, FindFormReset, Refill, LookAfterRetry,
                PressEnter, SubmitThrows, ToRace, MainGoes, Reaches, Fails,
                Submitting
  <2>5. CASE RaceWon \/ RaceLost \/ Opened \/ VerifyThrows
    BY <2>5 DEF RaceWon, RaceLost, Opened, VerifyThrows, MainGoes, Fails
  <2>6. CASE OtpNext
    BY <2>6 DEF OtpNext, OtpSeen, OtpNeverSeen, Judge, CodeObtained, CodeMissing,
                TypeCode, TypingThrows, OtpSettles, WatcherGoes
  <2>7. CASE NavArrives \/ NavTimesOut
    BY <2>7 DEF NavArrives, NavTimesOut
  <2> QED
    BY <2>1, <2>2, <2>3, <2>4, <2>5, <2>6, <2>7 DEF Next, MainNext
<1> QED
  BY <1>1, <1>2, PTL DEF Spec
-----------------------------------------------------------------------------
(* A click is on its way only while nothing has been posted, and the main    *)
(* activity is about to click only when neither is the case.                 *)
OnePost ==
  /\ posts > 0 => requested
  /\ clicked => posts = 0
  /\ main \in {"locate", "click", "enter"} => ~clicked /\ posts = 0
  /\ posts <= 1

(* The main activity has the credentials sent at most once, whatever fails,  *)
(* for any behaviour of the page (SubmittedOnce).                            *)
THEOREM CredentialsAreSentOnce == Spec => []SubmittedOnce
<1>1. Init => OnePost
  BY DEF Init, OnePost
<1>2. TypeOK /\ OnePost /\ [Next]_vars => OnePost'
  <2> SUFFICES ASSUME TypeOK, OnePost, [Next]_vars PROVE OnePost'
    OBVIOUS
  <2> USE DEF TypeOK, OnePost, page, given, submit
  <2>1. CASE UNCHANGED vars
    BY <2>1 DEF vars
  <2>2. CASE PageNext
    <3>1. CASE PageSubmits
      <4>1. posts = 0 /\ clicked' = FALSE
        BY <3>1 DEF PageSubmits
      <4>2. main \notin {"locate", "click", "enter"}
        BY <3>1, Zenon DEF PageSubmits
      <4>3. main' = main
        BY <3>1 DEF PageSubmits
      <4>4. \/ posts' = posts + 1 /\ requested'
            \/ posts' = posts /\ requested' = requested
        BY <3>1, Zenon DEF PageSubmits
      <4> QED
        BY <4>1, <4>2, <4>3, <4>4
    <3>2. CASE \/ PageMounts \/ PageRefuses \/ PageAsksForCode
               \/ \E to \in {"login", "idp", "elsewhere", "app"} : PageGoes(to)
      BY <3>2 DEF PageMounts, PageRefuses, PageAsksForCode, PageGoes
    <3> QED
      BY <2>2, <3>1, <3>2 DEF PageNext
  <2>3. CASE LocateFails \/ Locate \/ Click \/ ClickThrows
    BY <2>3 DEF LocateFails, Locate, Click, ClickThrows, ToRace, MainGoes,
                Reaches, Submitting
  <2>4. CASE LookAfterClick \/ NothingToRecover \/ FindFormReset \/ Refill
    BY <2>4 DEF LookAfterClick, NothingToRecover, FindFormReset, Refill, ToRace,
                MainGoes, Submitting
  <2>5. CASE LookAfterRetry
    BY <2>5 DEF LookAfterRetry, TransitionStarted, ToRace, MainGoes, Submitting
  <2>6. CASE PressEnter \/ SubmitThrows
    BY <2>6 DEF PressEnter, SubmitThrows, ToRace, MainGoes, Reaches, Fails,
                Submitting
  <2>7. CASE RaceWon \/ RaceLost \/ Opened \/ VerifyThrows
    BY <2>7 DEF RaceWon, RaceLost, Opened, VerifyThrows, MainGoes, Fails
  <2>8. CASE OtpNext
    BY <2>8 DEF OtpNext, OtpSeen, OtpNeverSeen, Judge, CodeObtained, CodeMissing,
                TypeCode, TypingThrows, OtpSettles
  <2>9. CASE NavArrives \/ NavTimesOut
    BY <2>9 DEF NavArrives, NavTimesOut
  <2> QED
    BY <2>1, <2>2, <2>3, <2>4, <2>5, <2>6, <2>7, <2>8, <2>9 DEF Next, MainNext
<1>3. OnePost => SubmittedOnce
  BY DEF OnePost, SubmittedOnce
<1> QED
  BY <1>1, <1>2, <1>3, LoginTypesCorrect, PTL DEF Spec
-----------------------------------------------------------------------------
(* Whoever claims an arrival has it from the wait for the navigation, and    *)
(* that wait changes its mind no more.                                       *)
TrueArrival ==
  /\ otp = "arrived" => nav = "arrived"
  /\ main = "verify" => nav = "arrived"
  /\ OpenedHasArrived

(* A login is reported as opened only when the page has arrived at another   *)
(* address of the application, and has a session where one is required       *)
(* (OpenedHasArrived).                                                       *)
THEOREM OpenedLoginsHaveArrived == Spec => []OpenedHasArrived
<1>1. Init => TrueArrival
  BY DEF Init, TrueArrival, OpenedHasArrived
<1>2. TypeOK /\ TrueArrival /\ [Next]_vars => TrueArrival'
  <2> SUFFICES ASSUME TypeOK, TrueArrival, [Next]_vars PROVE TrueArrival'
    OBVIOUS
  <2> USE DEF TypeOK, TrueArrival, OpenedHasArrived, page, given, submit
  <2>1. CASE UNCHANGED vars
    BY <2>1 DEF vars
  <2>2. CASE PageNext
    BY <2>2 DEF PageNext, PageSubmits, PageMounts, PageRefuses, PageAsksForCode,
                PageGoes, Running
  <2>3. CASE LocateFails \/ Locate \/ Click \/ ClickThrows \/ LookAfterClick
    BY <2>3 DEF LocateFails, Locate, Click, ClickThrows, LookAfterClick, ToRace,
                MainGoes, Reaches, Submitting
  <2>4. CASE \/ NothingToRecover \/ FindFormReset \/ Refill \/ LookAfterRetry
             \/ PressEnter \/ SubmitThrows
    BY <2>4 DEF NothingToRecover, FindFormReset, Refill, LookAfterRetry,
                PressEnter, SubmitThrows, ToRace, MainGoes, Reaches, Fails,
                Submitting
  <2>5. CASE RaceWon
    BY <2>5 DEF RaceWon, OneArrived, MainGoes
  <2>6. CASE Opened
    BY <2>6 DEF Opened, Restorable
  <2>7. CASE RaceLost \/ VerifyThrows
    BY <2>7 DEF RaceLost, VerifyThrows, Fails
  <2>8. CASE OtpNext
    BY <2>8 DEF OtpNext, OtpSeen, OtpNeverSeen, Judge, CodeObtained, CodeMissing,
                TypeCode, TypingThrows, OtpSettles, WatcherGoes, Running
  <2>9. CASE NavArrives \/ NavTimesOut
    BY <2>9 DEF NavArrives, NavTimesOut, Running
  <2> QED
    BY <2>1, <2>2, <2>3, <2>4, <2>5, <2>6, <2>7, <2>8, <2>9 DEF Next, MainNext
<1>3. TrueArrival => OpenedHasArrived
  BY DEF TrueArrival
<1> QED
  BY <1>1, <1>2, <1>3, LoginTypesCorrect, PTL DEF Spec
===============================================================================
