---------------------------- MODULE FetchRequest ----------------------------
(***************************************************************************)
(* ResponseHandler of packages/transport, the browser's requests: the      *)
(* headers of the protocol of the moment, and fetch().  send(), the only   *)
(* way in that the package exports, passes on no retry, signal or timeout, *)
(* so that the branches for them are never taken and are left out: a       *)
(* request leaves once.  The server and the cookie of signinWithJwt() are  *)
(* external.                                                               *)
(***************************************************************************)
EXTENDS BrowserSession

CONSTANT Requests

VARIABLES
  request,  (* each: how far it is, its protocol, the stored token it read *)
  userJwt   (* the cookie of signinWithJwt() is there                      *)

fetchVars == <<request, userJwt>>

Options == [auth : BOOLEAN, external : BOOLEAN]

Ended == {"resolved", "rejected"}

RequestStages == {"idle", "headers", "read", "purge", "fetch", "body"} \cup Ended

FetchTypeOK ==
  /\ request \in [Requests -> [pc : RequestStages, protocol : Protocols,
                               token : {"none", "good", "expired"}]]
  /\ userJwt \in BOOLEAN

(* What is kept of a request that needs neither its protocol nor the stored token. *)
Plain(pc) == [pc |-> pc, protocol |-> "zcrf", token |-> "none"]

FetchInit ==
  /\ request = [r \in Requests |-> Plain("idle")]
  /\ userJwt = FALSE

-----------------------------------------------------------------------------
To(r, pc) == request' = [request EXCEPT ![r] = Plain(pc)]

(* send(): only a first-party request gets headers, of the protocol of this moment.
   A caller may use its slot again. *)
Send(r, options) ==
  /\ request[r].pc \in Ended \cup {"idle"}
  /\ \E o \in options :
       IF o.auth /\ ~o.external
       THEN request' = [request EXCEPT ![r] = [Plain("headers") EXCEPT !.protocol = store.protocol]]
       ELSE To(r, "fetch")
  /\ UNCHANGED userJwt

(* collectZCRFToken() never fails: without a cookie the last token goes, or undefined. *)
FollowZcrf(r) == To(r, "fetch")

FollowJwt(r) == To(r, IF userJwt THEN "fetch" ELSE "rejected")

(* getOAuthTokenFromIDB(): the record of the project set when its transaction runs,
   or a failure. *)
FollowOAuth(r) ==
  \/ request' = [request EXCEPT ![r] = [Plain("read") EXCEPT !.token = StoredToken]]
  \/ To(r, "rejected")

AttachZCAuthHeaders(r) ==
  /\ request[r].pc = "headers"
  /\ \/ request[r].protocol = "zcrf" /\ FollowZcrf(r)
     \/ request[r].protocol = "jwt" /\ FollowJwt(r)
     \/ request[r].protocol = "oauth" /\ FollowOAuth(r)

Attach(r) == AttachZCAuthHeaders(r) /\ UNCHANGED userJwt /\ UNCHANGED sessionVars

(* What was read comes to getOAuthZCAuthToken() later, when it may have expired, been
   deleted or replaced: without a token it rejects, an expired one is deleted first.
   The request leaves after further awaits, and its server may find it too old. *)
TokenRead(r) ==
  /\ request[r].pc = "read"
  /\ \/ request[r].token = "none" /\ To(r, "rejected")
     \/ request[r].token = "good" /\ To(r, "fetch")
     \/ request[r].token # "none" /\ To(r, "purge")
  /\ UNCHANGED userJwt /\ UNCHANGED sessionVars

(* clearOAuthTokenFromIDB(): deletes what is stored by now, or fails. *)
Purge(r) ==
  /\ request[r].pc = "purge" /\ To(r, "rejected")
  /\ UNCHANGED idb \/ StoreToken("none")
  /\ UNCHANGED <<store, flight, fetches, caller, context, version, cookie, marker, now, userJwt>>

(* The server answers with success. *)
ResponseOk(r) ==
  /\ request[r].pc = "fetch" /\ To(r, "body")
  /\ UNCHANGED userJwt /\ UNCHANGED sessionVars

(* It refuses, is not reached or its answer is lost: then it may have acted. *)
FetchFails(r) ==
  /\ request[r].pc = "fetch" /\ To(r, "rejected")
  /\ UNCHANGED userJwt /\ UNCHANGED sessionVars

(* wrapResponse(): the body is read, or RESPONSE_PARSE_ERROR. *)
BodyRead(r) ==
  /\ request[r].pc = "body" /\ \E how \in Ended : To(r, how)
  /\ UNCHANGED userJwt /\ UNCHANGED sessionVars

(* The application's own sign-in sets its cookie. *)
JwtCookie ==
  /\ "jwt" \in Others /\ ~userJwt /\ userJwt' = TRUE
  /\ UNCHANGED request /\ UNCHANGED sessionVars

FetchStep(r) ==
  Attach(r) \/ TokenRead(r) \/ Purge(r) \/ ResponseOk(r) \/ FetchFails(r) \/ BodyRead(r)
=============================================================================
