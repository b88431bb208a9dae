---------------------------- MODULE BrowserClient ----------------------------
(***************************************************************************)
(* A page with the browser SDK: its configuration and session, sign-in and *)
(* sign-out, requests and Stratus tokens, which meet in ConfigStore, the   *)
(* page's storage and its cookies.  One of them moves at a time; a page    *)
(* that is left may run on until it is gone.                               *)
(***************************************************************************)
EXTENDS WebAuth, StratusToken

ASSUME BrowserAssumption ==
  /\ Nobody \notin Projects
  /\ Contexts \subseteq Projects \cup {Nobody}
  /\ Acts \subseteq Callers /\ Acts \subseteq Requests
  /\ MaxNow \in Nat \ {0}
  /\ Life \in Nat \ {0} /\ Skew \in Nat

browserVars == <<sessionVars, fetchVars, webVars, stratusVars>>

BrowserInit == SessionInit /\ FetchInit /\ WebInit /\ StratusInit

SessionMoves ==
  /\ \/ \E i \in Callers \ Acts : GetCredentials(i)
     \/ SessionStep \/ Tick \/ OtherTab
  /\ Watch
  /\ UNCHANGED fetchVars /\ UNCHANGED webVars

TokenMoves ==
  /\ \E c \in Gets : StratusStep(c) \/ \E h \in Handlers : GetJWTAccessToken(c, h)
  /\ UNCHANGED fetchVars /\ UNCHANGED webVars

RequestMoves ==
  /\ \/ \E r \in Requests : FetchStep(r)
     \/ JwtCookie
  /\ UNCHANGED webVars /\ UNCHANGED stratusVars

WebMoves ==
  /\ SigninWithJwt \/ SignInViaPopup \/ ForgotPassword \/ \E a \in Acts : WebCall(a) \/ WebStep(a)
  /\ UNCHANGED stratusVars

BrowserNext == SessionMoves \/ TokenMoves \/ RequestMoves \/ WebMoves

(* The network and the popup answer, and a task that is due runs. *)
BrowserFairness ==
  /\ WF_browserVars(SessionStep /\ Watch /\ UNCHANGED <<fetchVars, webVars>>)
  /\ \A c \in Gets : WF_browserVars(StratusStep(c) /\ UNCHANGED <<fetchVars, webVars>>)
  /\ \A r \in Requests : WF_browserVars(FetchStep(r) /\ UNCHANGED <<webVars, stratusVars>>)
  /\ \A a \in Acts : WF_browserVars(WebStep(a) /\ UNCHANGED stratusVars)

BrowserSpec == BrowserInit /\ [][BrowserNext]_browserVars /\ BrowserFairness

-----------------------------------------------------------------------------
BrowserTypeOK == SessionTypeOK /\ FetchTypeOK /\ WebTypeOK /\ StratusTypeOK

(* Who waits for a configuration or a token gets it or an error: also those who share
   the fetch of another, and those whose session changes meanwhile. *)
WaitersSettle ==
  /\ \A i \in Callers : caller[i] = "waiting" ~> caller[i] # "waiting"
  /\ \A c \in Gets : c \in UnderWay ~> get[c].pc \in {"done", "reused", "failed"}
=============================================================================
