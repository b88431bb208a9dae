---------------------------- MODULE BrowserSession ----------------------------
(***************************************************************************)
(* packages/auth-client: what the parts of the browser SDK share.          *)
(* getCredentials() fetches the project's configuration once for all who   *)
(* ask meanwhile and writes it to ConfigStore; syncProjectSession() drops  *)
(* the Stratus token when the project has changed.  The page's storage and *)
(* its cookies are external: storage may refuse a write, and a cookie ends *)
(* at its time.                                                            *)
(***************************************************************************)
EXTENDS Naturals

CONSTANTS
  Projects,      (* what /sdk/init may answer                              *)
  Contexts,      (* the project of the last session, or Nobody             *)
  Callers,       (* callers of getCredentials()                            *)
  Nobody,        (* undefined, null                                        *)
  MaxNow,
  Others,        (* who else acts: another "tab", the application's "popup"
                    or its own "jwt" sign-in                               *)
  StorageFills   (* TRUE: sessionStorage may refuse a write                *)

VARIABLES
  store,    (* ConfigStore: INITIALIZED, AUTH_PROTOCOL, PROJECT_ID         *)
  idb,      (* IndexedDB: the OAuth token stored for each project          *)
  flight,   (* _credentialsPromise                                         *)
  fetches,  (* requests of /sdk/init that are under way                    *)
  caller,   (* what each caller got                                        *)
  context,  (* localStorage: the project of the last session               *)
  version,  (* sessionStorage: the Stratus session version, 0 if none      *)
  cookie,   (* stratus_jwt: the project of the token and its end           *)
  marker,   (* sessionStorage: the recorded end of that cookie, 0 if none  *)
  now

sessionVars == <<store, idb, flight, fetches, caller, context, version, cookie, marker, now>>

Protocols == {"zcrf", "jwt", "oauth"}

NoToken == [project |-> Nobody, until |-> 0]

Tokens == [project : Projects, until : Nat] \cup {NoToken}

SessionTypeOK ==
  /\ store \in [initialized : {"unset", "false", "true"}, protocol : Protocols,
                project : Projects \cup {Nobody}]
  /\ idb \in [Projects \cup {Nobody} -> {"none", "good", "expired"}]
  /\ flight \in {"none", "pending", "stuck"}
  /\ fetches \in Nat
  /\ caller \in [Callers -> {"idle", "waiting", "resolved", "rejected"}]
  /\ context \in Projects \cup {Nobody}
  /\ version \in Nat
  /\ cookie \in Tokens
  /\ marker \in Nat
  /\ now \in 1..MaxNow

(* A page in a new tab: a first visit, with or without a cookie of an older SDK, or a
   later one.  sessionStorage is empty, localStorage and cookies are there. *)
SessionInit ==
  /\ store = [initialized |-> "unset", protocol |-> "zcrf", project |-> Nobody]
  /\ idb = [p \in Projects \cup {Nobody} |-> "none"]
  /\ flight = "none" /\ fetches = 0
  /\ caller = [i \in Callers |-> "idle"]
  /\ context \in Contexts
  /\ version = 0
  /\ cookie \in {NoToken} \cup
       {[project |-> p, until |-> MaxNow] : p \in IF context = Nobody THEN Projects ELSE {context}}
  /\ marker = 0
  /\ now = 1

-----------------------------------------------------------------------------
(* setDefaultProjectConfig(): the project id is not among the defaults. *)
Defaults == [store EXCEPT !.initialized = "false", !.protocol = "zcrf"]

(* The browser drops a cookie at its end. *)
Cookie == IF cookie.until > now THEN cookie ELSE NoToken

HasStratusJwtCookie == Cookie # NoToken

ClearStratusJwt == cookie' = NoToken /\ marker' = 0

(* setToken() and setStratusJwtExpiry(). *)
RecordStratusJwt(token) == cookie' = token /\ marker' = token.until

(* The OAuth record of the project of this moment, and a write to it. *)
StoredToken == idb[store.project]
StoreToken(t) == idb' = [idb EXCEPT ![store.project] = t]

(* Mutant: every caller fetches. *)
NeverShared == FALSE

(* A fetch under way is shared. *)
Shared == flight # "none"

(* getCredentials(): the callers of a fetch under way share its promise.  The body of
   the first runs up to its await at once: when the storage refuses the defaults, the
   promise is cleared before it is assigned, and stays. *)
GetCredentials(i) ==
  /\ caller[i] = "idle"
  /\ \/ /\ Shared
        /\ caller' = [caller EXCEPT ![i] = IF flight = "pending" THEN "waiting" ELSE "rejected"]
        /\ UNCHANGED <<store, flight, fetches>>
     \/ /\ ~Shared
        /\ store' = Defaults
        /\ flight' = "pending" /\ fetches' = fetches + 1
        /\ caller' = [caller EXCEPT ![i] = "waiting"]
     \/ /\ ~Shared /\ StorageFills
        /\ flight' = "stuck"
        /\ caller' = [caller EXCEPT ![i] = "rejected"]
        /\ UNCHANGED <<store, fetches>>
  /\ UNCHANGED <<idb, context, version, cookie, marker, now>>

(* The context of the last session is another; where there is none, a cookie counts. *)
ContextChanged(p) == IF context = Nobody THEN HasStratusJwtCookie ELSE context # p

(* Mutant: the session version stays what it was. *)
SyncWithoutVersion(p) ==
  /\ ContextChanged(p)
  /\ ClearStratusJwt
  /\ UNCHANGED version

(* syncProjectSession(): a first session drops any cookie, a later one that of another
   project; a new version tells the holders of tokens in memory. *)
Switches(p) ==
  /\ ContextChanged(p)
  /\ ClearStratusJwt
  /\ version' = version + 1

SyncProjectSession(p) ==
  /\ context' = p
  /\ \/ Switches(p)
     \/ ~ContextChanged(p) /\ UNCHANGED <<version, cookie, marker>>

(* All who share the promise. *)
WakeCallers(how) ==
  caller' = [i \in Callers |-> IF caller[i] = "waiting" THEN how ELSE caller[i]]

(* /sdk/init answers: the configuration of the project is written and the promise
   cleared, for whom it resolves. *)
InitAnswered(p) ==
  /\ fetches > 0
  /\ fetches' = fetches - 1
  /\ store' = [store EXCEPT !.initialized = "true", !.project = p]
  /\ SyncProjectSession(p)
  /\ flight' = "none"
  /\ WakeCallers("resolved")
  /\ UNCHANGED <<idb, now>>

(* Mutant: the promise that is shared has no way to reject. *)
InitFailsSilently ==
  /\ fetches > 0
  /\ fetches' = fetches - 1
  /\ flight' = "none"
  /\ UNCHANGED <<store, idb, caller, context, version, cookie, marker, now>>

(* It cannot be reached, or its answer lacks a required property. *)
InitFails ==
  /\ fetches > 0
  /\ fetches' = fetches - 1
  /\ flight' = "none"
  /\ WakeCallers("rejected")
  /\ UNCHANGED <<store, idb, context, version, cookie, marker, now>>

Tick ==
  /\ now < MaxNow
  /\ now' = now + 1
  /\ UNCHANGED <<store, idb, flight, fetches, caller, context, version, cookie, marker>>

(* Another tab signs in with its popup; a stored token expires. *)
OtherTab ==
  /\ "tab" \in Others
  /\ \E p \in Projects : idb' = [idb EXCEPT ![p] = IF idb[p] = "good" THEN "expired" ELSE "good"]
  /\ UNCHANGED <<store, flight, fetches, caller, context, version, cookie, marker, now>>

SessionStep == (\E p \in Projects : InitAnswered(p)) \/ InitFails

-----------------------------------------------------------------------------
(* "Only one /sdk/init request is ever in flight at a time." *)
OneFetch == fetches <= 1

(* "Clear the promise on failure so the next caller triggers a fresh fetch rather than
   re-awaiting a permanently rejected promise." *)
FailureIsForgotten == flight # "stuck"
=============================================================================
