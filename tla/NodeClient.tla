------------------------------ MODULE NodeClient ------------------------------
(***************************************************************************)
(* A service call on Node: AuthorizedHttpClient.send() authenticates the   *)
(* request with the credential of its app (AppCredentials) and hands it to *)
(* sendRequest() (HttpRequest).  Both parts keep running for other calls   *)
(* between any two steps of one.                                           *)
(***************************************************************************)
EXTENDS HttpRequest

CONSTANTS
  Names, Headers, Objects, ObjectKind, DefaultKind, MaxApps, MaxNow, Life, Patience

(* An access token is granted for some time. *)
ASSUME CredentialAssumption ==
  /\ \A h \in Headers :
       /\ h.project \in BOOLEAN /\ h.type \in {"admin", "user"}
       /\ h.adminType \in STRING
       /\ h.userType \in {"none", "token", "ticket"}
       /\ h.userToken \in BOOLEAN /\ h.cookie \in BOOLEAN
  /\ ObjectKind \in [Objects -> {"refresh", "token", "ticket", "nothing"}]
  /\ DefaultKind \in {"refresh", "token", "ticket", "nothing"}
  /\ MaxApps \in Nat /\ MaxNow \in Nat \ {0}
  /\ Life \in Nat \ {0} /\ Patience \in Nat

VARIABLES options, creds, apps, named, wrapped, call, now

Creds == INSTANCE AppCredentials

credVars == <<options, creds, apps, named, wrapped, call, now>>

nodeVars == <<vars, credVars>>

NodeInit == Init /\ Creds!Init

(* The request goes out with the headers of this moment; its retries repeat them. *)
SendRequest(c, k) == Creds!SendNow(c) /\ Request(c, k)

AppStep ==
  /\ Creds!MakeApp \/ Creds!UseApp \/ Creds!Tick \/ \E c \in Calls : Creds!CallStep(c)
  /\ UNCHANGED vars

RequestStep == (\E c \in Calls : CallStep(c)) /\ UNCHANGED credVars

NodeNext ==
  \/ AppStep
  \/ RequestStep
  \/ \E c \in Calls, k \in Kinds : SendRequest(c, k)

(* Every wait ends: that for an access token, for a microtask, and those of a request. *)
NodeFairness ==
  \A c \in Calls :
    /\ WF_nodeVars(Creds!CallStep(c) /\ UNCHANGED vars)
    /\ WF_nodeVars(\E k \in Kinds : SendRequest(c, k))
    /\ WF_nodeVars((StreamEnds(c) \/ StreamFails(c) \/ Drain(c)) /\ UNCHANGED credVars)
    /\ WF_nodeVars((Answer(c) \/ BodyEnds(c) \/ BodyIsCut(c) \/ Error(c)) /\ UNCHANGED credVars)

NodeSpec == NodeInit /\ [][NodeNext]_nodeVars /\ NodeFairness

-----------------------------------------------------------------------------
NodeTypeOK == TypeOK /\ Creds!TypeOK

HeadersAgree == Creds!HeadersAgree
TokenAge == Creds!TokenAge
SentWithCredentials == Creds!SentWithCredentials

(* A call of send() that has an app ends: it is rejected before a request is made, or
   its request settles, but for the two silent endings that SendSettles names. *)
CallSettles ==
  \A c \in Calls :
    call[c].pc \in {"refreshing", "authenticated"} ~>
      \/ call[c].pc = "rejected"
      \/ promise[c] \in {"resolved", "rejected"}
      \/ lost[c] \/ unhandled[c]
=============================================================================
