---------------------------- MODULE AppCredentials ----------------------------
(***************************************************************************)
(* The credentials of packages/auth-admin as the Node transport uses them. *)
(* zcAuth.init() and getDefaultCredentials() make apps around one          *)
(* module-level options object; app.credential decides how a request is    *)
(* authenticated, across an await, and then which user its headers name.   *)
(* The accounts server that exchanges a refresh token is external.         *)
(***************************************************************************)
EXTENDS Naturals, Sequences

CONSTANTS
  Calls,        (* calls of AuthorizedHttpClient.send()                          *)
  Names,        (* appName; "default" is DEFAULT_APP_NAME                        *)
  Headers,      (* headers of incoming functions calls that init() is given      *)
  Objects,      (* option objects of type 'custom'                               *)
  ObjectKind,   (* what each holds: "refresh", "token", "ticket" or "nothing"    *)
  DefaultKind,  (* what the credentials file or the environment holds            *)
  MaxApps, MaxNow,
  Life,         (* expires_in of an access token                                 *)
  Patience      (* an access token is answered within so many ticks, or not      *)

VARIABLES
  options,  (* appOptions: "empty", "bare" of a credential, "raw" with an object
               that is none, or "made" with the credential cred                  *)
  creds,    (* the Credential objects, in order of creation                      *)
  apps,     (* the credential of each CatalystApp                                *)
  named,    (* #appCollection                                                    *)
  wrapped,  (* the credential that init() left in each caller's option object    *)
  call,     (* each send(): how far it is and what its headers say               *)
  now

vars == <<options, creds, apps, named, wrapped, call, now>>

Users == {"admin", "user"}
TokenKinds == {"none", "token", "ticket", "cookie"}

Idle == [pc |-> "idle", cred |-> 0, scope |-> "none", token |-> "none", issued |-> 0,
         type |-> "none", crossed |-> FALSE]

TypeOK ==
  /\ options \in [is : {"empty", "bare", "raw", "made"}, cred : 0..Len(creds)]
  /\ \A i \in DOMAIN creds :
       /\ creds[i].class \in {"catalyst", "custom", "default", "plain"}
       /\ creds[i].scope \in Users /\ creds[i].type \in Users
       /\ creds[i].holds \in {"refresh", "token", "ticket"} /\ creds[i].user \in TokenKinds
       /\ creds[i].issued \in 0..MaxNow /\ creds[i].until \in 0..(MaxNow + Life)
  /\ Len(apps) <= MaxApps /\ \A a \in DOMAIN apps : apps[a] \in DOMAIN creds
  /\ named \in [Names -> 0..Len(apps)]
  /\ wrapped \in [Objects -> 0..Len(creds)]
  /\ \A c \in Calls :
       /\ call[c].pc \in {"idle", "refreshing", "authenticated", "sent", "rejected"}
       /\ call[c].scope \in Users \cup {"none"} /\ call[c].type \in Users \cup {"none"}
       /\ call[c].token \in TokenKinds /\ call[c].issued \in 0..MaxNow
  /\ now \in 1..MaxNow

Init ==
  /\ options = [is |-> "empty", cred |-> 0]
  /\ creds = <<>> /\ apps = <<>>
  /\ named = [n \in Names |-> 0]
  /\ wrapped = [o \in Objects |-> 0]
  /\ call = [c \in Calls |-> Idle]
  /\ now = 1

-----------------------------------------------------------------------------
(* The constructors of the credentials. *)
Credential(class, scope, type, holds, user) ==
  [class |-> class, scope |-> scope, type |-> type, holds |-> holds, user |-> user,
   issued |-> 0, until |-> 0]

ScopeOf(h, scope) == IF scope = "default" THEN h.type ELSE scope

(* CookieCredential: what is left for a user without a credential of a type. *)
CookieCred(h) == IF h.cookie THEN "cookie" ELSE "none"

(* userCred: of the type that the headers name, else the cookie. *)
UserCred(h) == IF h.userType # "none" THEN h.userType ELSE CookieCred(h)

(* CatalystCredential throws: the user scope without a user or without a credential
   of one, an admin credential of an unknown type, a typed user credential without
   its token. *)
Refused(h, scope) ==
  \/ ScopeOf(h, scope) = "user" /\ (h.type = "admin" \/ ~(h.userToken \/ h.cookie))
  \/ h.adminType \notin {"ticket", "token"}
  \/ h.userType # "none" /\ ~h.userToken

CatalystCredential(h, scope) ==
  Credential("catalyst", ScopeOf(h, scope), h.type, h.adminType, UserCred(h))

CustomCredential(o) == Credential("custom", "admin", "admin", ObjectKind[o], "none")

DefaultCredential == Credential("default", "admin", "admin", DefaultKind, "none")

(* RefreshTokenCredential, AccessTokenCredential and TicketCredential of the caller. *)
PlainCredential(holds) == Credential("plain", "admin", "admin", holds, "none")

(* fromPath(), else fromEnv(), which throws. *)
DefaultFound == DefaultKind # "nothing"

(* #loadOptionsFromObj() throws without a project id, and nothing has changed. *)
OptionsLoad(h) == h.project

(* A new app around the credential i; it is what name stands for from now on. *)
Construct(i, name) ==
  /\ apps' = Append(apps, i)
  /\ named' = [named EXCEPT ![name] = Len(apps) + 1]

-----------------------------------------------------------------------------
(* init() of type advancedio or basicio.  appOptions is assigned before the
   credential is made: one that throws leaves options without a credential. *)
InitFromHeaders(h, scope, name) ==
  /\ Len(apps) < MaxApps
  /\ OptionsLoad(h)
  /\ IF Refused(h, scope)
     THEN options' = [is |-> "bare", cred |-> 0] /\ UNCHANGED <<creds, apps, named>>
     ELSE /\ creds' = Append(creds, CatalystCredential(h, scope))
          /\ options' = [is |-> "made", cred |-> Len(creds) + 1]
          /\ Construct(Len(creds) + 1, name)
  /\ UNCHANGED <<wrapped, call, now>>

(* ... of type custom.  The credential replaces the object it was made from in the
   caller's own options, which cannot be used for another init(). *)
InitFromObject(o, name) ==
  /\ Len(apps) < MaxApps
  /\ name = "default" \/ named[name] = 0
  /\ IF wrapped[o] # 0 \/ ObjectKind[o] = "nothing"
     THEN /\ options' = [is |-> IF wrapped[o] = 0 THEN "raw" ELSE "made", cred |-> wrapped[o]]
          /\ UNCHANGED <<creds, apps, named, wrapped>>
     ELSE /\ creds' = Append(creds, CustomCredential(o))
          /\ options' = [is |-> "made", cred |-> Len(creds) + 1]
          /\ wrapped' = [wrapped EXCEPT ![o] = Len(creds) + 1]
          /\ Construct(Len(creds) + 1, name)
  /\ UNCHANGED <<call, now>>

(* Credential.switchUser(): only that of an incoming call has a scope to switch. *)
Switched(cred, user) ==
  IF cred.class = "catalyst" THEN [cred EXCEPT !.scope = user] ELSE cred

(* The calls between their two looks at the credential i. *)
Cross(i) ==
  call' = [c \in Calls |->
             [call[c] EXCEPT !.crossed = @ \/ (call[c].cred = i /\ call[c].pc = "authenticated")]]

(* getDefaultCredentials(), which a component without an app calls: an app around
   the credential of the last init(), whose scope becomes admin in every app that
   shares it.  Options without one take the credentials file or the environment;
   where there are no options at all it throws: the environment is never read. *)
GetDefaultCredentials(name) ==
  /\ Len(apps) < MaxApps
  /\ \/ /\ options.is = "bare" /\ DefaultFound
        /\ creds' = Append(creds, DefaultCredential)
        /\ options' = [is |-> "made", cred |-> Len(creds) + 1]
        /\ Construct(Len(creds) + 1, name)
        /\ UNCHANGED call
     \/ /\ options.is = "made"
        /\ creds' = [creds EXCEPT ![options.cred] = Switched(@, "admin")]
        /\ Construct(options.cred, name)
        /\ Cross(options.cred)
        /\ UNCHANGED options
  /\ UNCHANGED <<wrapped, now>>

(* new CatalystApp() around a credential that the caller made. *)
ConstructApp(holds, name) ==
  /\ Len(apps) < MaxApps
  /\ creds' = Append(creds, PlainCredential(holds))
  /\ apps' = Append(apps, Len(creds) + 1)
  /\ UNCHANGED <<options, named, wrapped, call, now>>

(* app.credential.switchUser(), to the other user or to a given one. *)
SwitchUser(a, user) ==
  /\ creds' = [creds EXCEPT ![apps[a]] = Switched(@, user)]
  /\ Cross(apps[a])
  /\ UNCHANGED <<options, apps, named, wrapped, now>>

-----------------------------------------------------------------------------
(* Mutant: an expired access token is taken from the cache. *)
CachedForever(i) == creds[i].issued # 0

(* RefreshTokenCredential.getToken(): the access token it has and that has not expired. *)
Cached(i) == creds[i].issued # 0 /\ creds[i].until > now

Reject(c) == call' = [call EXCEPT ![c].pc = "rejected"]

(* authenticateRequest() up to its await: the token is chosen by the scope of the
   moment.  A custom credential is none of the classes it knows. *)
Authenticate(c, a) ==
  LET i == apps[a]
      cred == creds[i]
      Has(scope, token, issued) ==
        call' = [call EXCEPT ![c] = [Idle EXCEPT !.pc = "authenticated", !.cred = i,
                                       !.scope = scope, !.token = token, !.issued = issued]]
  IN /\ call[c].pc = "idle"
     /\ \/ cred.class = "catalyst" /\ cred.scope = "admin" /\ Has("admin", cred.holds, 0)
        \/ cred.class = "catalyst" /\ cred.scope = "user" /\ cred.user # "none"
             /\ Has("user", cred.user, 0)
        \/ cred.class = "catalyst" /\ cred.scope = "user" /\ cred.user = "none" /\ Reject(c)
        \/ cred.class = "custom" /\ Has("none", "none", 0)
        \/ cred.class \in {"default", "plain"} /\ cred.holds # "refresh"
             /\ Has("admin", cred.holds, 0)
        \/ cred.class \in {"default", "plain"} /\ cred.holds = "refresh"
             /\ IF Cached(i)
                THEN Has("admin", "token", cred.issued)
                ELSE call' = [call EXCEPT ![c] = [Idle EXCEPT !.pc = "refreshing", !.cred = i,
                                                    !.issued = now]]
     /\ UNCHANGED <<options, creds, apps, named, wrapped, now>>

(* requestAccessToken() is answered.  Every caller that found no token asked for one of
   its own, and the last answer stays, be it for an older question. *)
Refreshed(c) ==
  /\ call[c].pc = "refreshing"
  /\ creds' = [creds EXCEPT ![call[c].cred].issued = call[c].issued,
                            ![call[c].cred].until = now + Life]
  /\ call' = [call EXCEPT ![c].pc = "authenticated", ![c].scope = "admin", ![c].token = "token"]
  /\ UNCHANGED <<options, apps, named, wrapped, now>>

RefreshFails(c) ==
  /\ call[c].pc = "refreshing"
  /\ Reject(c)
  /\ UNCHANGED <<options, creds, apps, named, wrapped, now>>

(* Mutant: the headers name the user of the incoming call, whatever the scope. *)
TypeOfCall(cred) == IF cred.class = "catalyst" THEN cred.type ELSE "admin"

(* HttpClient.send(): the headers name the user of this moment. *)
CurrentUserType(cred) ==
  IF cred.class = "catalyst" /\ cred.scope = "user" THEN cred.type ELSE "admin"

SendNow(c) ==
  /\ call[c].pc = "authenticated"
  /\ call' = [call EXCEPT ![c].pc = "sent", ![c].type = CurrentUserType(creds[call[c].cred])]
  /\ UNCHANGED <<options, creds, apps, named, wrapped, now>>

Tick ==
  /\ now < MaxNow
  /\ \A c \in Calls : call[c].pc = "refreshing" => now < call[c].issued + Patience
  /\ now' = now + 1
  /\ UNCHANGED <<options, creds, apps, named, wrapped, call>>

-----------------------------------------------------------------------------
MakeApp ==
  \E n \in Names :
    \/ \E h \in Headers, s \in Users \cup {"default"} : InitFromHeaders(h, s, n)
    \/ \E o \in Objects : InitFromObject(o, n)
    \/ GetDefaultCredentials(n)
    \/ \E k \in {"refresh", "token", "ticket"} : ConstructApp(k, n)

UseApp ==
  \E a \in DOMAIN apps :
    \/ \E u \in Users : SwitchUser(a, u)
    \/ \E c \in Calls : Authenticate(c, a)

CallStep(c) == Refreshed(c) \/ RefreshFails(c)

Next == MakeApp \/ UseApp \/ Tick \/ \E c \in Calls : CallStep(c) \/ SendNow(c)

Fairness == \A c \in Calls : WF_vars(CallStep(c)) /\ WF_vars(SendNow(c))

Spec == Init /\ [][Next]_vars

-----------------------------------------------------------------------------
(* The token and the user header of a request agree, unless switchUser() or a
   component without an app came between the two looks at the scope; other inits,
   apps and calls never disturb them. *)
HeadersAgree ==
  \A c \in Calls :
    call[c].pc = "sent" /\ ~call[c].crossed /\ call[c].token # "none" =>
      call[c].type = IF call[c].scope = "user" THEN creds[call[c].cred].type ELSE "admin"

(* A request is never given an access token older than its life and the time that
   its answer took, in whatever order the answers of several callers come. *)
TokenAge ==
  [][\A c \in Calls :
       call[c].pc # "authenticated" /\ call'[c].pc = "authenticated" /\ call'[c].issued # 0 =>
         now < call'[c].issued + Life + Patience]_vars

(* authenticateRequest() "adds the appropriate authentication headers". *)
SentWithCredentials == \A c \in Calls : call[c].pc = "sent" => call[c].token # "none"
=============================================================================
