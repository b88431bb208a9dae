---------------------------- MODULE BrowserProofs ----------------------------
(***************************************************************************)
(* Proofs about BrowserClient, for any projects, calls, requests, handlers *)
(* and other actors: what a sign-in names, who serves its button, and      *)
(* whose Stratus token a bucket operation gets, and for how long.          *)
(***************************************************************************)
EXTENDS BrowserClient, TLAPS

(* What the sign-ins rely on: a configuration that was fetched names a project, and
   ConfigStore never forgets it; the end of a cookie is recorded with it. *)
SessionInv ==
  /\ SessionTypeOK
  /\ store.initialized = "true" => store.project # Nobody
  /\ \A i \in Callers : caller[i] = "resolved" => store.project # Nobody
  /\ store.project # Nobody => context = store.project
  /\ marker # 0 => marker = cookie.until

(* A sign-in that goes on, and an iframe that is shown, have synchronized the fields. *)
Synchronized(a) ==
  act[a].pc \in {"user", "signup", "signupLast", "assert", "button", "popup"} => auth # Nobody

WebInv ==
  /\ WebTypeOK
  /\ \A a \in Acts : Synchronized(a)
  /\ frame.to = "frame" => auth # Nobody
  /\ SignInNamesProject
  /\ ButtonIsServed

(* What is in memory, in the cookie and being made belongs to the session's project, or
   was being made when the session last changed it; before /sdk/init has answered there
   is nothing but a cookie of the session before. *)
MemoryOfSession(h) ==
  /\ handler[h].version <= version
  /\ store.project = Nobody => handler[h].token = NoToken
  /\ handler[h].token # NoToken /\ (version = 0 \/ handler[h].version = version)
       => handler[h].token.project \in {store.project} \cup overtaken

CookieOfSession == cookie.until > now => cookie.project \in OfSession \cup overtaken

GetOfSession(c) ==
  /\ get[c].pc # "idle" => get[c].on \in Handlers
  /\ c \in UnderWay => OfSession \subseteq get[c].seen
  /\ get[c].pc \in {"custom", "remote"} => get[c].project \in {store.project, Nobody} \cup overtaken
  /\ get[c].pc = "remote" => get[c].project # Nobody

GetType == [pc : {"idle", "import", "oauth", "reuse", "custom", "remote", "done", "reused",
                  "failed"},
            on : Handlers \cup {Nobody}, seen : SUBSET Projects,
            project : Projects \cup {Nobody}, got : Tokens]

StratusInv ==
  /\ StratusTypeOK
  /\ get \in [Gets -> GetType]
  /\ \A h \in Handlers : MemoryOfSession(h)
  /\ CookieOfSession
  /\ \A c \in Gets : GetOfSession(c)
  /\ store.project = Nobody => overtaken = {}

-----------------------------------------------------------------------------
(* The session. *)

(* A step that leaves the project, its context and the time alone: it may reset the
   configuration, drop the cookie and store an OAuth token. *)
Quiet ==
  /\ SessionTypeOK'
  /\ store'.project = store.project
  /\ store'.initialized = store.initialized \/ store'.initialized = "false"
  /\ \A i \in Callers : caller'[i] = "resolved" => caller[i] = "resolved"
  /\ UNCHANGED <<context, version, now>>
  /\ UNCHANGED <<cookie, marker>> \/ ClearStratusJwt

LEMMA StillIsQuiet ==
  ASSUME SessionInv, UNCHANGED sessionVars
  PROVE  Quiet
BY DEF SessionInv, SessionTypeOK, sessionVars, Quiet

LEMMA QuietKeepsSession ==
  ASSUME SessionInv, Quiet
  PROVE  SessionInv'
BY DEF SessionInv, Quiet, ClearStratusJwt

LEMMA DefaultsType ==
  ASSUME SessionTypeOK
  PROVE  /\ Defaults \in [initialized : {"unset", "false", "true"}, protocol : Protocols,
                          project : Projects \cup {Nobody}]
         /\ Defaults.initialized = "false" /\ Defaults.project = store.project
BY DEF SessionTypeOK, Defaults, Protocols

LEMMA ProtocolIsQuiet ==
  ASSUME SessionTypeOK, NEW p \in Protocols, store' = [store EXCEPT !.protocol = p]
  PROVE  /\ store' \in [initialized : {"unset", "false", "true"}, protocol : Protocols,
                        project : Projects \cup {Nobody}]
         /\ store'.initialized = store.initialized /\ store'.project = store.project
BY DEF SessionTypeOK

LEMMA ClearType ==
  ASSUME ClearStratusJwt
  PROVE  cookie' \in Tokens /\ marker' \in Nat
BY DEF ClearStratusJwt, Tokens

LEMMA StoreTokenType ==
  ASSUME SessionTypeOK, NEW t \in {"none", "good", "expired"}, StoreToken(t)
  PROVE  idb' \in [Projects \cup {Nobody} -> {"none", "good", "expired"}]
BY DEF SessionTypeOK, StoreToken

LEMMA WakeType ==
  ASSUME SessionTypeOK, NEW how \in {"resolved", "rejected"}, WakeCallers(how)
  PROVE  /\ caller' \in [Callers -> {"idle", "waiting", "resolved", "rejected"}]
         /\ \A i \in Callers : caller'[i] = "resolved" => caller[i] = "resolved" \/ how = "resolved"
BY DEF SessionTypeOK, WakeCallers

LEMMA GetCredentialsIsQuiet ==
  ASSUME SessionInv, NEW i \in Callers, GetCredentials(i)
  PROVE  Quiet
<1>1. /\ store' \in [initialized : {"unset", "false", "true"}, protocol : Protocols,
                     project : Projects \cup {Nobody}]
      /\ store'.project = store.project
      /\ store'.initialized = store.initialized \/ store'.initialized = "false"
  BY DefaultsType DEF SessionInv, SessionTypeOK, GetCredentials
<1>2. /\ caller' \in [Callers -> {"idle", "waiting", "resolved", "rejected"}]
      /\ \A j \in Callers : caller'[j] = "resolved" => caller[j] = "resolved"
  BY DEF SessionInv, SessionTypeOK, GetCredentials
<1>3. flight' \in {"none", "pending", "stuck"} /\ fetches' \in Nat
  BY DEF SessionInv, SessionTypeOK, GetCredentials
<1> QED BY <1>1, <1>2, <1>3 DEF SessionInv, SessionTypeOK, GetCredentials, Quiet

LEMMA InitFailsIsQuiet ==
  ASSUME SessionInv, InitFails
  PROVE  Quiet
<1>1. /\ caller' \in [Callers -> {"idle", "waiting", "resolved", "rejected"}]
      /\ \A j \in Callers : caller'[j] = "resolved" => caller[j] = "resolved"
  BY WakeType DEF SessionInv, InitFails
<1>2. flight' \in {"none", "pending", "stuck"} /\ fetches' \in Nat
  BY DEF SessionInv, SessionTypeOK, InitFails
<1> QED BY <1>1, <1>2 DEF SessionInv, SessionTypeOK, InitFails, Quiet

LEMMA OtherTabIsQuiet ==
  ASSUME SessionInv, OtherTab
  PROVE  Quiet
BY DEF SessionInv, SessionTypeOK, OtherTab, Quiet

(* A token of the popup is stored, or one is deleted, and the protocol set. *)
LEMMA StoreTokenIsQuiet ==
  ASSUME SessionInv, NEW t \in {"none", "good", "expired"},
         StoreToken(t) \/ UNCHANGED idb,
         \/ UNCHANGED store
         \/ store' = Defaults
         \/ \E p \in Protocols : store' = [store EXCEPT !.protocol = p],
         UNCHANGED <<flight, fetches, caller, context, version, now>>,
         UNCHANGED <<cookie, marker>> \/ ClearStratusJwt
  PROVE  Quiet
<1>1. idb' \in [Projects \cup {Nobody} -> {"none", "good", "expired"}]
  BY StoreTokenType DEF SessionInv, SessionTypeOK
<1>2. /\ store' \in [initialized : {"unset", "false", "true"}, protocol : Protocols,
                     project : Projects \cup {Nobody}]
      /\ store'.project = store.project
      /\ store'.initialized = store.initialized \/ store'.initialized = "false"
  BY DefaultsType, ProtocolIsQuiet DEF SessionInv, SessionTypeOK
<1>3. cookie' \in Tokens /\ marker' \in Nat
  BY ClearType DEF SessionInv, SessionTypeOK
<1> QED BY <1>1, <1>2, <1>3 DEF SessionInv, SessionTypeOK, Quiet

(* What /sdk/init answers becomes the project of the session and its context. *)
LEMMA InitAnsweredKeepsSession ==
  ASSUME BrowserAssumption, SessionInv, NEW p \in Projects, InitAnswered(p)
  PROVE  SessionInv' /\ store'.project = p /\ context' = p
<1>1. /\ store' \in [initialized : {"unset", "false", "true"}, protocol : Protocols,
                     project : Projects \cup {Nobody}]
      /\ store'.project = p
  BY DEF SessionInv, SessionTypeOK, InitAnswered
<1>2. caller' \in [Callers -> {"idle", "waiting", "resolved", "rejected"}]
  BY WakeType DEF SessionInv, InitAnswered
<1>3. /\ context' = p /\ version' \in Nat
      /\ UNCHANGED <<cookie, marker>> \/ ClearStratusJwt
  BY DEF SessionInv, SessionTypeOK, InitAnswered, SyncProjectSession, Switches
<1>4. cookie' \in Tokens /\ marker' \in Nat
  BY <1>3, ClearType DEF SessionInv, SessionTypeOK
<1>5. marker' # 0 => marker' = cookie'.until
  BY <1>3 DEF SessionInv, ClearStratusJwt
<1>6. p # Nobody
  BY DEF BrowserAssumption
<1>7. flight' = "none" /\ fetches' \in Nat
  BY DEF SessionInv, SessionTypeOK, InitAnswered
<1>8. SessionTypeOK'
  BY <1>1, <1>2, <1>3, <1>4, <1>7 DEF SessionInv, SessionTypeOK, InitAnswered
<1> QED BY <1>1, <1>3, <1>5, <1>6, <1>8 DEF SessionInv

LEMMA TickKeepsSession ==
  ASSUME BrowserAssumption, SessionInv, Tick
  PROVE  SessionInv'
<1>1. now' \in 1..MaxNow
  BY DEF BrowserAssumption, SessionInv, SessionTypeOK, Tick
<1> QED BY <1>1 DEF SessionInv, SessionTypeOK, Tick

LEMMA SessionMovesKeepSession ==
  ASSUME BrowserAssumption, SessionInv, SessionMoves
  PROVE  SessionInv'
<1>1. CASE \E i \in Callers \ Acts : GetCredentials(i)
  BY <1>1, GetCredentialsIsQuiet, QuietKeepsSession
<1>2. CASE \E p \in Projects : InitAnswered(p)
  BY <1>2, InitAnsweredKeepsSession
<1>3. CASE InitFails
  BY <1>3, InitFailsIsQuiet, QuietKeepsSession
<1>4. CASE Tick
  BY <1>4, TickKeepsSession
<1>5. CASE OtherTab
  BY <1>5, OtherTabIsQuiet, QuietKeepsSession
<1> QED BY <1>1, <1>2, <1>3, <1>4, <1>5 DEF SessionMoves, SessionStep

LEMMA SessionStarts ==
  ASSUME BrowserAssumption, SessionInit
  PROVE  SessionInv
<1>1. cookie \in Tokens
  BY DEF BrowserAssumption, SessionInit, Tokens
<1>2. now \in 1..MaxNow
  BY DEF BrowserAssumption, SessionInit
<1> QED BY <1>1, <1>2 DEF BrowserAssumption, SessionInit, SessionInv, SessionTypeOK, Protocols

-----------------------------------------------------------------------------
(* The requests. *)

RequestType == [pc : RequestStages, protocol : Protocols, token : {"none", "good", "expired"}]

LEMMA PlainType ==
  ASSUME NEW pc \in RequestStages
  PROVE  Plain(pc) \in RequestType
BY DEF Plain, RequestType, Protocols

LEMMA ToKeepsFetch ==
  ASSUME FetchTypeOK, NEW r \in Requests, NEW pc \in RequestStages, To(r, pc), userJwt' \in BOOLEAN
  PROVE  FetchTypeOK'
<1>1. request' = [request EXCEPT ![r] = Plain(pc)] /\ Plain(pc) \in RequestType
  BY PlainType DEF To
<1> QED BY <1>1 DEF FetchTypeOK, RequestType

LEMMA SendKeepsFetch ==
  ASSUME SessionTypeOK, FetchTypeOK, NEW r \in Requests, NEW options, Send(r, options)
  PROVE  FetchTypeOK'
<1> DEFINE new == [Plain("headers") EXCEPT !.protocol = store.protocol]
<1>1. "headers" \in RequestStages /\ "fetch" \in RequestStages
  BY DEF RequestStages
<1>2. new \in RequestType
  BY <1>1, PlainType DEF SessionTypeOK, RequestType
<1>3. CASE To(r, "fetch")
  BY <1>1, <1>3, ToKeepsFetch DEF Send, FetchTypeOK
<1>4. CASE request' = [request EXCEPT ![r] = new]
  <2> HIDE DEF new
  <2> QED BY <1>2, <1>4 DEF Send, FetchTypeOK, RequestType
<1> QED BY <1>3, <1>4 DEF Send

LEMMA FollowOAuthKeeps ==
  ASSUME SessionTypeOK, FetchTypeOK, NEW r \in Requests, FollowOAuth(r), userJwt' \in BOOLEAN
  PROVE  FetchTypeOK'
<1> DEFINE new == [Plain("read") EXCEPT !.token = StoredToken]
<1>1. "read" \in RequestStages /\ "rejected" \in RequestStages
  BY DEF RequestStages, Ended
<1>2. StoredToken \in {"none", "good", "expired"}
  BY DEF SessionTypeOK, StoredToken
<1>3. new \in RequestType
  BY <1>1, <1>2, PlainType DEF RequestType
<1>4. CASE To(r, "rejected")
  BY <1>1, <1>4, ToKeepsFetch
<1>5. CASE request' = [request EXCEPT ![r] = new]
  <2> HIDE DEF new
  <2> QED BY <1>3, <1>5 DEF FetchTypeOK, RequestType
<1> QED BY <1>4, <1>5 DEF FollowOAuth

LEMMA FetchStepKeepsFetch ==
  ASSUME SessionTypeOK, FetchTypeOK, NEW r \in Requests, FetchStep(r)
  PROVE  FetchTypeOK'
<1>1. userJwt' \in BOOLEAN
  BY DEF FetchTypeOK, FetchStep, Attach, TokenRead, Purge, ResponseOk, FetchFails, BodyRead
<1>2. CASE FollowOAuth(r)
  BY <1>1, <1>2, FollowOAuthKeeps
<1>3. CASE \E pc \in {"purge", "fetch", "body"} \cup Ended : To(r, pc)
  BY <1>1, <1>3, ToKeepsFetch DEF RequestStages
<1> QED BY <1>2, <1>3 DEF FetchStep, Attach, AttachZCAuthHeaders, FollowZcrf, FollowJwt, TokenRead,
           Purge, ResponseOk, FetchFails, BodyRead, Ended

LEMMA FetchStepIsQuiet ==
  ASSUME SessionInv, NEW r \in Requests, FetchStep(r)
  PROVE  Quiet
<1>1. CASE Purge(r)
  BY <1>1, StoreTokenIsQuiet DEF Purge
<1>2. CASE UNCHANGED sessionVars
  BY <1>2, StillIsQuiet
<1> QED BY <1>1, <1>2 DEF FetchStep, Attach, TokenRead, ResponseOk, FetchFails, BodyRead

LEMMA StillKeepsFetch ==
  ASSUME FetchTypeOK, UNCHANGED fetchVars
  PROVE  FetchTypeOK'
BY DEF FetchTypeOK, fetchVars

LEMMA RequestMovesKeep ==
  ASSUME SessionInv, FetchTypeOK, RequestMoves
  PROVE  Quiet /\ FetchTypeOK'
<1>1. CASE JwtCookie
  BY <1>1, StillIsQuiet DEF JwtCookie, FetchTypeOK
<1>2. CASE \E r \in Requests : FetchStep(r)
  BY <1>2, FetchStepIsQuiet, FetchStepKeepsFetch DEF SessionInv
<1> QED BY <1>1, <1>2 DEF RequestMoves

LEMMA FetchStarts ==
  ASSUME FetchInit
  PROVE  FetchTypeOK
<1>1. Plain("idle") \in RequestType
  BY PlainType DEF RequestStages
<1> QED BY <1>1 DEF FetchInit, FetchTypeOK, RequestType

-----------------------------------------------------------------------------
(* The calls of Authentication. *)

Stages == {"idle", "init", "restore", "restored", "signIn", "user", "signup", "signupLast", "assert",
           "button", "popup", "outUser", "outAsk", "revoke", "clear", "revokeLast", "clearLast", "asked", "done"}

Call == [pc : Stages, promise : {"none", "pending", "resolved", "rejected"}]

OnScreen == {"button", "popup"}

(* Call a comes to pc, and no other moves. *)
ComesTo(a, pc) ==
  /\ act' \in [Acts -> Call]
  /\ act'[a].pc = pc
  /\ \A b \in Acts : b # a => act'[b] = act[b]

LEMMA GoComesTo ==
  ASSUME WebTypeOK, NEW a \in Acts, NEW pc \in Stages, Go(a, pc)
  PROVE  ComesTo(a, pc)
<1> DEFINE new == [pc |-> pc, promise |-> IF act[a].promise = "none" THEN "pending" ELSE act[a].promise]
<1>1. new \in Call /\ new.pc = pc
  BY DEF WebTypeOK, Call, Stages
<1>2. act' = [act EXCEPT ![a] = new]
  BY DEF Go, WebTypeOK
<1> HIDE DEF new
<1> QED BY <1>1, <1>2 DEF WebTypeOK, Call, Stages, ComesTo

LEMMA EndComesTo ==
  ASSUME WebTypeOK, NEW a \in Acts, NEW pc \in Stages, NEW how \in Ended, End(a, pc, how)
  PROVE  ComesTo(a, pc)
<1> DEFINE new == [pc |-> pc, promise |-> IF act[a].promise \in {"resolved", "rejected"}
                                          THEN act[a].promise ELSE how]
<1>1. new \in Call /\ new.pc = pc
  BY DEF WebTypeOK, Call, Stages, Ended
<1>2. act' = [act EXCEPT ![a] = new]
  BY DEF End, WebTypeOK
<1> HIDE DEF new
<1> QED BY <1>1, <1>2 DEF WebTypeOK, Call, Stages, ComesTo

LEMMA LeaveComesTo ==
  ASSUME WebTypeOK, NEW a \in Acts,
         NEW to \in {"signin", "hosted", "app", "logout"}, Leave(a, to)
  PROVE  ComesTo(a, "done") /\ page' \in Place /\ page'.to = to /\ page'.project = auth
<1>1. "done" \in Stages /\ "resolved" \in Ended
  BY DEF Stages, Ended
<1> QED BY <1>1, EndComesTo DEF Leave, Place, WebTypeOK

(* All of it but the button. *)
WebRest ==
  /\ WebTypeOK
  /\ \A a \in Acts : Synchronized(a)
  /\ frame.to = "frame" => auth # Nobody
  /\ SignInNamesProject

LEMMA ShownKeeps ==
  ASSUME WebInv, NEW a \in Acts, NEW pc \in Stages, ComesTo(a, pc),
         auth' \in Projects \cup {Nobody}, auth' = auth \/ auth' # Nobody,
         pc \in {"user", "signup", "signupLast", "assert", "button", "popup"} => auth' # Nobody,
         UNCHANGED frame \/ (frame' \in Place /\ frame'.project # Nobody /\ auth' # Nobody),
         UNCHANGED page \/ (page' \in Place /\ (page'.to \in {"frame", "password", "signin"}
                                                 => page'.project # Nobody)),
         button' \in {"none", "enabled", "disabled"}, UNCHANGED embedded
  PROVE  WebRest'
<1>1. WebTypeOK'
  BY DEF WebInv, WebTypeOK, ComesTo, Call, Stages
<1>2. ASSUME NEW b \in Acts PROVE Synchronized(b)'
  BY DEF WebInv, Synchronized, ComesTo
<1>3. SignInNamesProject'
  BY DEF WebInv, SignInNamesProject
<1> QED BY <1>1, <1>2, <1>3 DEF WebInv, WebRest

(* A call that is not at the button and does not come there leaves it as it is served. *)
LEMMA ButtonKept ==
  ASSUME WebInv, NEW a \in Acts, NEW pc \in Stages \ OnScreen, ComesTo(a, pc),
         act[a].pc \notin OnScreen, UNCHANGED button
  PROVE  ButtonIsServed'
<1>1. \A b \in Acts : /\ act'[b].pc \in OnScreen <=> act[b].pc \in OnScreen
                      /\ act'[b].pc = "popup" <=> act[b].pc = "popup"
  BY DEF ComesTo, OnScreen
<1>2. {b \in Acts : act'[b].pc \in {"button", "popup"}} = {b \in Acts : act[b].pc \in {"button", "popup"}}
  BY <1>1 DEF OnScreen
<1> QED BY <1>1, <1>2 DEF WebInv, ButtonIsServed, At

LEMMA MoveKeepsWeb ==
  ASSUME WebInv, NEW a \in Acts, NEW pc \in Stages \ OnScreen, ComesTo(a, pc),
         act[a].pc \notin OnScreen, UNCHANGED <<button, embedded>>,
         auth' \in Projects \cup {Nobody}, auth' = auth \/ auth' # Nobody,
         pc \in {"user", "signup", "signupLast", "assert"} => auth' # Nobody,
         UNCHANGED frame \/ (frame' \in Place /\ frame'.project # Nobody /\ auth' # Nobody),
         UNCHANGED page \/ (page' \in Place /\ (page'.to \in {"frame", "password", "signin"}
                                                 => page'.project # Nobody))
  PROVE  WebInv'
<1>1. WebRest'
  BY ShownKeeps DEF WebInv, WebTypeOK, OnScreen
<1>2. ButtonIsServed'
  BY ButtonKept
<1> QED BY <1>1, <1>2 DEF WebRest, WebInv

LEMMA StillKeepsWeb ==
  ASSUME WebInv, UNCHANGED webVars
  PROVE  WebInv'
BY DEF WebInv, WebTypeOK, Synchronized, SignInNamesProject, ButtonIsServed, At, webVars

LEMMA WebStarts ==
  ASSUME WebInit
  PROVE  WebInv
<1>1. WebTypeOK
  BY DEF WebInit, WebTypeOK, Here, Place
<1>2. ButtonIsServed
  BY DEF WebInit, ButtonIsServed, At
<1> QED BY <1>1, <1>2 DEF WebInit, WebInv, Synchronized, SignInNamesProject, Here

-----------------------------------------------------------------------------
(* Its actions, one by one. *)

LEMMA InitCalledKeeps ==
  ASSUME WebInv, NEW a \in Acts, InitCalled(a)
  PROVE  WebInv'
<1>1. "init" \in Stages \ OnScreen /\ act[a].pc \notin OnScreen
  BY DEF Stages, OnScreen, InitCalled, At
<1>2. ComesTo(a, "init")
  BY <1>1, GoComesTo DEF InitCalled, WebInv
<1> QED BY <1>1, <1>2, MoveKeepsWeb DEF InitCalled, WebInv, WebTypeOK

LEMMA InitGoesOnKeeps ==
  ASSUME BrowserAssumption, SessionInv, WebInv, NEW a \in Acts, InitGoesOn(a)
  PROVE  WebInv'
<1>1. a \in Callers
  BY DEF BrowserAssumption
<1>2. \E pc \in {"restore", "restored", "done"} : ComesTo(a, pc)
  BY GoComesTo, EndComesTo DEF InitGoesOn, WebInv, Stages, Ended
<1>3. auth' = auth \/ (auth' \in Projects /\ auth' # Nobody)
  BY <1>1 DEF InitGoesOn, Resync, SessionInv, SessionTypeOK
<1>4. act[a].pc \notin OnScreen
  BY DEF InitGoesOn, At, OnScreen
<1> QED BY <1>2, <1>3, <1>4, MoveKeepsWeb DEF InitGoesOn, WebInv, WebTypeOK, Stages, OnScreen

LEMMA RestoredKeeps ==
  ASSUME WebInv, NEW a \in Acts, Restored(a)
  PROVE  WebInv'
<1>1. "done" \in Stages \ OnScreen /\ act[a].pc \notin OnScreen /\ "resolved" \in Ended
  BY DEF Stages, OnScreen, Restored, At, Ended
<1>2. ComesTo(a, "done")
  BY <1>1, EndComesTo DEF Restored, WebInv
<1> QED BY <1>1, <1>2, MoveKeepsWeb DEF Restored, SetAuthProtocol, WebInv, WebTypeOK

(* A sign-in takes the project from a configuration that was fetched. *)
LEMMA ResyncAndAskKeeps ==
  ASSUME SessionInv, WebInv, NEW a \in Acts, store.project # Nobody, ResyncAndAsk(a),
         act[a].pc \notin OnScreen, UNCHANGED <<frame, button, page, embedded>>
  PROVE  WebInv'
<1>1. auth' \in Projects /\ auth' # Nobody
  BY DEF ResyncAndAsk, Resync, SessionInv, SessionTypeOK
<1>2. \E pc \in {"assert", "user"} : ComesTo(a, pc)
  BY GoComesTo DEF ResyncAndAsk, WebInv, Stages
<1> QED BY <1>1, <1>2, MoveKeepsWeb DEF Stages, OnScreen

LEMMA SignInKeeps ==
  ASSUME SessionInv, WebInv, NEW a \in Acts, SignIn(a)
  PROVE  WebInv'
<1>1. act[a].pc \notin OnScreen
  BY DEF SignIn, SignInCalled, At, OnScreen
<1>2. CASE store.initialized = "true" /\ ResyncAndAsk(a)
  BY <1>1, <1>2, ResyncAndAskKeeps DEF SignIn, SessionInv
<1>3. CASE Go(a, "signIn") /\ UNCHANGED auth
  <2>1. ComesTo(a, "signIn") /\ "signIn" \in Stages \ OnScreen
    BY <1>3, GoComesTo DEF WebInv, Stages, OnScreen
  <2> QED BY <1>1, <1>3, <2>1, MoveKeepsWeb DEF SignIn, WebInv, WebTypeOK
<1> QED BY <1>2, <1>3 DEF SignIn, SignInCalled

LEMMA SignInGoesOnKeeps ==
  ASSUME BrowserAssumption, SessionInv, WebInv, NEW a \in Acts, SignInGoesOn(a)
  PROVE  WebInv'
<1>1. a \in Callers
  BY DEF BrowserAssumption
<1>2. act[a].pc \notin OnScreen
  BY DEF SignInGoesOn, At, OnScreen
<1>3. CASE caller[a] = "resolved" /\ ResyncAndAsk(a)
  BY <1>1, <1>2, <1>3, ResyncAndAskKeeps DEF SignInGoesOn, SessionInv
<1>4. CASE End(a, "done", "rejected") /\ UNCHANGED auth
  <2>1. ComesTo(a, "done") /\ "done" \in Stages \ OnScreen
    BY <1>4, EndComesTo DEF WebInv, Stages, OnScreen, Ended
  <2> QED BY <1>2, <1>4, <2>1, MoveKeepsWeb DEF SignInGoesOn, WebInv, WebTypeOK
<1> QED BY <1>3, <1>4 DEF SignInGoesOn

LEMMA SignInUserKeeps ==
  ASSUME WebInv, NEW a \in Acts, SignInUser(a)
  PROVE  WebInv'
<1>1. act[a].pc \notin OnScreen /\ auth # Nobody /\ auth' = auth /\ auth \in Projects
  BY DEF SignInUser, At, OnScreen, WebInv, WebTypeOK, Synchronized
<1>2. CASE Leave(a, "signin")
  <2>1. /\ ComesTo(a, "done") /\ "done" \in Stages \ OnScreen
        /\ page' \in Place /\ page'.project # Nobody
    BY <1>1, <1>2, LeaveComesTo DEF WebInv, Stages, OnScreen
  <2> QED BY <1>1, <2>1, MoveKeepsWeb DEF SignInUser
<1>3. CASE UNCHANGED page /\ \E pc \in {"signup", "signupLast"} : Go(a, pc)
  <2>1. \E pc \in {"signup", "signupLast"} : ComesTo(a, pc)
    BY <1>3, GoComesTo DEF WebInv, Stages
  <2> QED BY <1>1, <1>3, <2>1, MoveKeepsWeb DEF SignInUser, Stages, OnScreen
<1> QED BY <1>2, <1>3 DEF SignInUser

LEMMA NotSignedInKeeps ==
  ASSUME WebInv, NEW a \in Acts, NotSignedIn(a)
  PROVE  WebInv'
<1>1. act[a].pc \notin OnScreen /\ auth # Nobody /\ auth' = auth /\ auth \in Projects
  BY DEF NotSignedIn, At, OnScreen, WebInv, WebTypeOK, Synchronized
<1>2. UNCHANGED frame \/ (frame' \in Place /\ frame'.project # Nobody /\ auth' # Nobody)
  BY <1>1 DEF NotSignedIn, RenderSignInIframe, IAMUrl, Place
<1>3. \E pc \in {"signupLast", "done"} : ComesTo(a, pc)
  BY GoComesTo, EndComesTo DEF NotSignedIn, RenderSignInIframe, WebInv, Stages, Ended
<1> QED BY <1>1, <1>2, <1>3, MoveKeepsWeb DEF NotSignedIn, Stages, OnScreen

LEMMA ForgotPasswordKeeps ==
  ASSUME WebInv, ForgotPassword
  PROVE  WebInv'
<1>1. auth # Nobody /\ frame' \in Place /\ frame'.to = "password" /\ frame'.project = auth
  BY DEF ForgotPassword, IAMUrl, Place, WebInv, WebTypeOK
<1>2. WebTypeOK'
  BY <1>1 DEF ForgotPassword, WebInv, WebTypeOK
<1>3. SignInNamesProject'
  BY <1>1 DEF ForgotPassword, WebInv, SignInNamesProject
<1>4. ButtonIsServed'
  BY DEF ForgotPassword, WebInv, ButtonIsServed, At
<1>5. \A a \in Acts : Synchronized(a)'
  BY DEF ForgotPassword, WebInv, Synchronized
<1> QED BY <1>1, <1>2, <1>3, <1>4, <1>5 DEF WebInv

LEMMA HostedSignInKeeps ==
  ASSUME WebInv, NEW a \in Acts, HostedSignIn(a)
  PROVE  WebInv'
<1>1. act[a].pc \notin OnScreen /\ auth' = auth /\ "done" \in Stages \ OnScreen
  BY DEF HostedSignIn, At, OnScreen, Stages
<1>2. /\ ComesTo(a, "done")
      /\ UNCHANGED page \/ (page' \in Place /\ page'.to = "hosted")
  BY LeaveComesTo, EndComesTo DEF HostedSignIn, WebInv, Stages, Ended
<1> QED BY <1>1, <1>2, MoveKeepsWeb DEF HostedSignIn, WebInv, WebTypeOK

LEMMA FinishSignOutComesTo ==
  ASSUME WebInv, NEW a \in Acts, FinishZcrfSignOut(a)
  PROVE  /\ \E pc \in {"revokeLast", "done"} : ComesTo(a, pc)
         /\ UNCHANGED page \/ (page' \in Place /\ page'.to = "logout")
BY GoComesTo, LeaveComesTo DEF FinishZcrfSignOut, WebInv, Stages

LEMMA SignOutKeeps ==
  ASSUME WebInv, NEW a \in Acts, SignOut(a)
  PROVE  WebInv'
<1>1. act[a].pc \notin OnScreen
  BY DEF SignOut, SignOutCalled, At, OnScreen
<1>2. /\ \E pc \in {"done", "revoke", "outUser", "revokeLast"} : ComesTo(a, pc)
      /\ UNCHANGED page \/ (page' \in Place /\ page'.to \in {"app", "logout"})
  BY GoComesTo, LeaveComesTo, FinishSignOutComesTo DEF SignOut, SignOutCalled, WebInv, Stages
<1> QED BY <1>1, <1>2, MoveKeepsWeb DEF SignOut, Stages, OnScreen, WebInv, WebTypeOK

LEMMA SignOutAsksKeeps ==
  ASSUME WebInv, NEW a \in Acts, SignOutAsks(a)
  PROVE  WebInv'
<1>1. act[a].pc \notin OnScreen
  BY DEF SignOutAsks, At, OnScreen
<1>2. /\ \E pc \in {"done", "outAsk", "revokeLast"} : ComesTo(a, pc)
      /\ UNCHANGED page \/ (page' \in Place /\ page'.to \in {"app", "logout"})
  BY GoComesTo, EndComesTo, LeaveComesTo, FinishSignOutComesTo DEF SignOutAsks, WebInv, Stages, Ended
<1> QED BY <1>1, <1>2, MoveKeepsWeb DEF SignOutAsks, Stages, OnScreen, WebInv, WebTypeOK

LEMMA RevokedKeeps ==
  ASSUME WebInv, NEW a \in Acts, Revoked(a)
  PROVE  WebInv'
<1>1. act[a].pc \notin OnScreen
  BY DEF Revoked, At, OnScreen
<1>2. \E pc \in {"clear", "clearLast"} : ComesTo(a, pc)
  BY GoComesTo DEF Revoked, WebInv, Stages
<1> QED BY <1>1, <1>2, MoveKeepsWeb DEF Revoked, Stages, OnScreen, WebInv, WebTypeOK

LEMMA TokenClearedKeeps ==
  ASSUME WebInv, NEW a \in Acts, TokenCleared(a)
  PROVE  WebInv'
<1>1. act[a].pc \notin OnScreen /\ "done" \in Stages \ OnScreen
  BY DEF TokenCleared, At, OnScreen, Stages
<1>2. /\ ComesTo(a, "done")
      /\ UNCHANGED page \/ (page' \in Place /\ page'.to = "app")
  BY LeaveComesTo, EndComesTo DEF TokenCleared, WebInv, Stages, Ended
<1> QED BY <1>1, <1>2, MoveKeepsWeb DEF TokenCleared, WebInv, WebTypeOK

LEMMA AskKeeps ==
  ASSUME WebInv, NEW a \in Acts, Ask(a) \/ AskAnswered(a)
  PROVE  WebInv'
<1>1. act[a].pc \notin OnScreen
  BY DEF Ask, AskAnswered, At, OnScreen
<1>2. \E pc \in {"asked", "done"} : ComesTo(a, pc)
  BY GoComesTo, EndComesTo DEF Ask, AskAnswered, WebInv, Stages
<1> QED BY <1>1, <1>2, MoveKeepsWeb DEF Ask, AskAnswered, Stages, OnScreen, WebInv, WebTypeOK

(* Those that make the button, press it and take it away. *)
LEMMA ModalKeeps ==
  ASSUME WebInv, NEW a \in Acts, ShowIframeConfirmModal(a)
  PROVE  WebInv'
<1>1. act[a].pc = "assert" /\ auth # Nobody
  BY DEF ShowIframeConfirmModal, At, WebInv, Synchronized
<1>2. CASE End(a, "done", "rejected") /\ UNCHANGED button
  <2>1. ComesTo(a, "done") /\ "done" \in Stages \ OnScreen
    BY <1>2, EndComesTo DEF WebInv, Stages, OnScreen, Ended
  <2> QED BY <1>1, <1>2, <2>1, MoveKeepsWeb DEF ShowIframeConfirmModal, OnScreen, WebInv, WebTypeOK
<1>3. CASE button = "none" /\ button' = "enabled" /\ Go(a, "button")
  <2>1. ComesTo(a, "button") /\ "button" \in Stages
    BY <1>3, GoComesTo DEF WebInv, Stages
  <2>2. WebRest'
    BY <1>1, <1>3, <2>1, ShownKeeps DEF ShowIframeConfirmModal, WebInv, WebTypeOK
  <2>3. \A b \in Acts : act[b].pc \notin {"button", "popup"}
    BY <1>3 DEF WebInv, ButtonIsServed
  <2>4. {b \in Acts : act'[b].pc \in {"button", "popup"}} = {a}
    BY <2>1, <2>3 DEF ComesTo
  <2>5. ButtonIsServed'
    BY <1>3, <2>1, <2>4 DEF ButtonIsServed, At, ComesTo
  <2> QED BY <2>2, <2>5 DEF WebRest, WebInv
<1> QED BY <1>2, <1>3 DEF ShowIframeConfirmModal, Modal

(* Whoever has the button is alone. *)
LEMMA Alone ==
  ASSUME WebInv, NEW a \in Acts, act[a].pc \in {"button", "popup"}
  PROVE  \A b \in Acts : b # a => act[b].pc \notin {"button", "popup"}
BY DEF WebInv, ButtonIsServed

LEMMA ClickKeeps ==
  ASSUME WebInv, NEW a \in Acts, Click(a)
  PROVE  WebInv'
<1>1. act[a].pc = "button" /\ auth # Nobody /\ button' = "disabled"
  BY DEF Click, At, WebInv, Synchronized
<1>2. ComesTo(a, "popup") /\ "popup" \in Stages
  BY GoComesTo DEF Click, WebInv, Stages
<1>3. WebRest'
  BY <1>1, <1>2, ShownKeeps DEF Click, WebInv, WebTypeOK
<1>4. {b \in Acts : act'[b].pc \in {"button", "popup"}} = {a}
  BY <1>1, <1>2, Alone DEF ComesTo
<1>5. ButtonIsServed'
  BY <1>1, <1>2, <1>4 DEF ButtonIsServed, At, ComesTo
<1> QED BY <1>3, <1>5 DEF WebRest, WebInv

LEMMA PopupSignsInKeeps ==
  ASSUME WebInv, NEW a \in Acts, PopupSignsIn(a)
  PROVE  WebInv'
<1>1. act[a].pc = "popup" /\ auth # Nobody /\ auth' = auth /\ button' = "none"
  BY DEF PopupSignsIn, SetAuthProtocol, At, WebInv, Synchronized
<1>2. /\ ComesTo(a, "done") /\ "done" \in Stages
      /\ page' \in Place /\ page'.project = auth
  BY LeaveComesTo DEF PopupSignsIn, WebInv, Stages
<1>3. WebRest'
  BY <1>1, <1>2, ShownKeeps DEF PopupSignsIn, WebInv, WebTypeOK
<1>4. {b \in Acts : act'[b].pc \in {"button", "popup"}} = {}
  BY <1>1, <1>2, Alone DEF ComesTo
<1>5. ButtonIsServed'
  BY <1>1, <1>4 DEF ButtonIsServed, At
<1> QED BY <1>3, <1>5 DEF WebRest, WebInv

LEMMA PopupFailsKeeps ==
  ASSUME WebInv, NEW a \in Acts, PopupFails(a)
  PROVE  WebInv'
<1>1. act[a].pc = "popup" /\ auth # Nobody /\ button' = "enabled"
  BY DEF PopupFails, FailsForNow, At, WebInv, Synchronized
<1>2. ComesTo(a, "button") /\ "button" \in Stages
  BY EndComesTo DEF PopupFails, FailsForNow, WebInv, Stages, Ended
<1>3. WebRest'
  BY <1>1, <1>2, ShownKeeps DEF PopupFails, WebInv, WebTypeOK
<1>4. {b \in Acts : act'[b].pc \in {"button", "popup"}} = {a}
  BY <1>1, <1>2, Alone DEF ComesTo
<1>5. ButtonIsServed'
  BY <1>1, <1>2, <1>4 DEF ButtonIsServed, At, ComesTo
<1> QED BY <1>3, <1>5 DEF WebRest, WebInv

LEMMA WebMovesKeepWeb ==
  ASSUME BrowserAssumption, SessionInv, WebInv, WebMoves
  PROVE  WebInv'
<1>1. CASE SigninWithJwt \/ SignInViaPopup
  BY <1>1, StillKeepsWeb DEF SigninWithJwt, SignInViaPopup, SetAuthProtocol, webVars
<1>2. CASE ForgotPassword
  BY <1>2, ForgotPasswordKeeps
<1>3. CASE \E a \in Acts : WebCall(a)
  BY <1>3, InitCalledKeeps, SignInKeeps, HostedSignInKeeps, SignOutKeeps, AskKeeps, ClickKeeps DEF WebCall
<1>4. CASE \E a \in Acts : WebStep(a)
  BY <1>4, InitGoesOnKeeps, RestoredKeeps, SignInGoesOnKeeps, SignInUserKeeps, NotSignedInKeeps,
     ModalKeeps, PopupSignsInKeeps, PopupFailsKeeps, SignOutAsksKeeps, RevokedKeeps, TokenClearedKeeps,
     AskKeeps DEF WebStep
<1> QED BY <1>1, <1>2, <1>3, <1>4 DEF WebMoves

(* What they do to the session and to the requests. *)

LEMMA WebMovesAreQuiet ==
  ASSUME BrowserAssumption, SessionInv, WebMoves
  PROVE  Quiet
<1>1. CASE UNCHANGED sessionVars
  BY <1>1, StillIsQuiet
<1>2. ASSUME NEW i \in Acts, GetCredentials(i) PROVE Quiet
  BY <1>2, GetCredentialsIsQuiet DEF BrowserAssumption
<1>3. CASE SigninWithJwt
  BY <1>3, StoreTokenIsQuiet DEF SigninWithJwt, SetAuthProtocol, StoreOnly, Protocols
<1>4. CASE SignInViaPopup
  BY <1>4, StoreTokenIsQuiet DEF SignInViaPopup, SetAuthProtocol, Protocols
<1>5. ASSUME NEW a \in Acts, WebCall(a) PROVE Quiet
  <2>1. CASE InitCalled(a)
    BY <1>2, <2>1 DEF InitCalled
  <2>2. CASE SignIn(a)
    BY <1>1, <1>2, <2>2 DEF SignIn, SignInCalled
  <2>3. CASE SignOut(a)
    <3>1. UNCHANGED store \/ store' = Defaults
      BY <2>3 DEF SignOut, SignOutCalled
    <3>2. UNCHANGED <<cookie, marker>> \/ ClearStratusJwt
      BY <2>3 DEF SignOut, SignOutCalled
    <3>3. UNCHANGED <<idb, flight, fetches, caller, context, version, now>>
      BY <2>3 DEF SignOut
    <3> QED BY <3>1, <3>2, <3>3, StoreTokenIsQuiet
  <2>4. CASE HostedSignIn(a) \/ Ask(a) \/ Click(a)
    BY <1>1, <2>4 DEF HostedSignIn, Ask, Click
  <2> QED BY <1>5, <2>1, <2>2, <2>3, <2>4 DEF WebCall
<1>6. ASSUME NEW a \in Acts, WebStep(a) PROVE Quiet
  <2>1. CASE Restored(a)
    BY <2>1, StoreTokenIsQuiet DEF Restored, SetAuthProtocol, StoreOnly, Protocols
  <2>2. CASE PopupSignsIn(a)
    BY <2>2, StoreTokenIsQuiet DEF PopupSignsIn, SetAuthProtocol, Protocols
  <2>3. CASE TokenCleared(a)
    <3>1. StoreToken("none") \/ UNCHANGED idb
      BY <2>3 DEF TokenCleared
    <3>2. UNCHANGED store \/ store' = Defaults
      BY <2>3 DEF TokenCleared
    <3> QED BY <2>3, <3>1, <3>2, StoreTokenIsQuiet DEF TokenCleared
  <2>4. CASE UNCHANGED sessionVars
    BY <1>1, <2>4
  <2> QED BY <1>6, <2>1, <2>2, <2>3, <2>4 DEF WebStep, InitGoesOn, SignInGoesOn, SignInUser, NotSignedIn,
             ShowIframeConfirmModal, PopupFails, SignOutAsks, Revoked, AskAnswered
<1>7. CASE ForgotPassword
  BY <1>1, <1>7 DEF ForgotPassword
<1> QED BY <1>3, <1>4, <1>5, <1>6, <1>7 DEF WebMoves

(* They send a request or leave the requests alone. *)
LEMMA WebMovesSend ==
  ASSUME WebMoves
  PROVE  \/ UNCHANGED request /\ userJwt' \in {userJwt, FALSE}
         \/ \E a \in Acts : \E options \in SUBSET Options : Send(a, options)
<1>1. User \in SUBSET Options /\ Elsewhere \in SUBSET Options /\ User \cup Elsewhere \in SUBSET Options
  BY DEF User, Elsewhere
<1>2. CASE SigninWithJwt \/ SignInViaPopup \/ ForgotPassword
  BY <1>2 DEF SigninWithJwt, SignInViaPopup, ForgotPassword, NoRequest
<1>3. ASSUME NEW a \in Acts, WebCall(a)
      PROVE  \/ UNCHANGED request /\ userJwt' \in {userJwt, FALSE}
             \/ \E options \in SUBSET Options : Send(a, options)
  <2>1. CASE SignOut(a)
    BY <1>1, <2>1 DEF SignOut, SignOutCalled, NoRequest
  <2> QED BY <1>1, <1>3, <2>1 DEF WebCall, InitCalled, SignIn, SignInCalled, HostedSignIn, Ask, Click,
             ResyncAndAsk, NoRequest
<1>4. ASSUME NEW a \in Acts, WebStep(a)
      PROVE  \/ UNCHANGED request /\ userJwt' \in {userJwt, FALSE}
             \/ \E options \in SUBSET Options : Send(a, options)
  <2>1. CASE SignInGoesOn(a) \/ SignInUser(a) \/ NotSignedIn(a) \/ SignOutAsks(a)
    BY <1>1, <2>1 DEF SignInGoesOn, SignInUser, NotSignedIn, SignOutAsks, ResyncAndAsk,
       RenderSignInIframe, NoRequest
  <2> QED BY <1>4, <2>1 DEF WebStep, InitGoesOn, Restored, ShowIframeConfirmModal, PopupSignsIn, PopupFails,
             Revoked, TokenCleared, AskAnswered, NoRequest
<1> QED BY <1>2, <1>3, <1>4 DEF WebMoves

LEMMA WebMovesKeepFetch ==
  ASSUME BrowserAssumption, SessionInv, FetchTypeOK, WebMoves
  PROVE  FetchTypeOK'
<1>1. CASE UNCHANGED request /\ userJwt' \in {userJwt, FALSE}
  BY <1>1 DEF FetchTypeOK
<1>2. CASE \E a \in Acts : \E options \in SUBSET Options : Send(a, options)
  BY <1>2, SendKeepsFetch DEF BrowserAssumption, SessionInv
<1> QED BY <1>1, <1>2, WebMovesSend

-----------------------------------------------------------------------------
(* The Stratus tokens. *)

(* The calls of getJWTAccessToken() do not move; those under way see the project, and
   those that make a token for another are known. *)
Calm ==
  /\ handler' = handler
  /\ get' \in [Gets -> GetType]
  /\ overtaken' \subseteq Projects
  /\ store'.project = store.project => overtaken' = overtaken
  /\ \A c \in Gets :
       /\ get'[c].pc = get[c].pc /\ get'[c].on = get[c].on
       /\ get'[c].project = get[c].project /\ get'[c].got = get[c].got
       /\ c \in UnderWay => OfSession' \subseteq get'[c].seen
       /\ store'.project # store.project /\ get[c].pc \in {"custom", "remote"}
            => get[c].project \in {Nobody} \cup overtaken'

LEMMA StillIsCalm ==
  ASSUME StratusInv, store'.project = store.project, context' = context, UNCHANGED stratusVars
  PROVE  Calm
<1>1. OfSession' = OfSession
  BY DEF OfSession
<1> QED BY <1>1 DEF StratusInv, StratusTypeOK, GetOfSession, stratusVars, Calm

LEMMA WatchIsCalm ==
  ASSUME StratusInv, Watch
  PROVE  Calm
<1> DEFINE new(c) == [get[c] EXCEPT !.seen = @ \cup OfSession']
<1>1. OfSession' \subseteq Projects
  BY DEF OfSession
<1>2. \A c \in Gets : get[c] \in GetType
  BY DEF StratusInv
<1>3. \A c \in Gets : /\ new(c) \in GetType /\ OfSession' \subseteq new(c).seen
                      /\ new(c).pc = get[c].pc /\ new(c).on = get[c].on
                      /\ new(c).project = get[c].project /\ new(c).got = get[c].got
  <2> DEFINE see == OfSession'
  <2>1. see \subseteq Projects
    BY <1>1
  <2> HIDE DEF see
  <2>2. \A c \in Gets : LET g == [get[c] EXCEPT !.seen = @ \cup see] IN
          /\ g \in GetType /\ see \subseteq g.seen /\ g.pc = get[c].pc /\ g.on = get[c].on
          /\ g.project = get[c].project /\ g.got = get[c].got
    BY <1>2, <2>1 DEF GetType
  <2> QED BY <2>2 DEF see
<1> HIDE DEF new
<1>4. get' = [c \in Gets |-> IF c \in UnderWay THEN new(c) ELSE get[c]]
  BY DEF Watch, new
<1>5. \A c \in Gets : get'[c] = IF c \in UnderWay THEN new(c) ELSE get[c]
  BY <1>4
<1>6. get' \in [Gets -> GetType]
  BY <1>2, <1>3, <1>4
<1>7. ASSUME NEW c \in Gets
      PROVE  /\ get'[c].pc = get[c].pc /\ get'[c].on = get[c].on
             /\ get'[c].project = get[c].project /\ get'[c].got = get[c].got
             /\ c \in UnderWay => OfSession' \subseteq get'[c].seen
  BY <1>3, <1>5
<1>8. handler' = handler /\ overtaken' = IF store'.project = store.project THEN overtaken ELSE Making
  BY DEF Watch
<1>9. Making \subseteq Projects
  BY <1>2 DEF Making, GetType
<1>10. \A c \in Gets : get[c].pc \in {"custom", "remote"} => get[c].project \in {Nobody} \cup Making
  BY DEF Making
<1> QED BY <1>6, <1>7, <1>8, <1>9, <1>10 DEF Calm, StratusInv, StratusTypeOK

LEMMA CalmType ==
  ASSUME StratusInv, Calm
  PROVE  StratusTypeOK' /\ get' \in [Gets -> GetType]
BY DEF StratusInv, StratusTypeOK, Calm, GetType

LEMMA QuietKeepsStratus ==
  ASSUME SessionInv, StratusInv, Quiet, Calm
  PROVE  StratusInv'
<1>1. store'.project = store.project /\ overtaken' = overtaken
  BY DEF Quiet, Calm
<1>2. OfSession' = OfSession
  BY <1>1 DEF Quiet, OfSession
<1>3. \A h \in Handlers : MemoryOfSession(h)'
  BY <1>1 DEF StratusInv, MemoryOfSession, Quiet, Calm
<1>4. CookieOfSession'
  BY <1>1, <1>2 DEF StratusInv, CookieOfSession, Quiet, ClearStratusJwt, NoToken, SessionInv, SessionTypeOK
<1>5. \A c \in Gets : GetOfSession(c)'
  BY <1>1 DEF StratusInv, GetOfSession, UnderWay, Calm
<1> QED BY <1>1, <1>3, <1>4, <1>5, CalmType DEF StratusInv

LEMMA TickKeepsStratus ==
  ASSUME SessionInv, StratusInv, Tick, Calm
  PROVE  StratusInv'
<1>1. UNCHANGED <<store, context, version, cookie>> /\ overtaken' = overtaken
  BY DEF Tick, Calm
<1>2. OfSession' = OfSession
  BY <1>1 DEF OfSession
<1>3. \A h \in Handlers : MemoryOfSession(h)'
  BY <1>1 DEF StratusInv, MemoryOfSession, Calm
<1>4. CookieOfSession'
  <2>1. now \in Nat /\ now' = now + 1 /\ cookie.until \in Nat
    BY DEF Tick, SessionInv, SessionTypeOK, Tokens, NoToken
  <2> QED BY <1>1, <1>2, <2>1 DEF StratusInv, CookieOfSession
<1>5. \A c \in Gets : GetOfSession(c)'
  BY <1>1 DEF StratusInv, GetOfSession, UnderWay, Calm
<1> QED BY <1>1, <1>3, <1>4, <1>5, CalmType DEF StratusInv

(* A cookie that lives is that of a project. *)
LEMMA LiveCookie ==
  ASSUME SessionInv, cookie.until > now
  PROVE  cookie.project \in Projects /\ Cookie = cookie /\ Cookie # NoToken
BY DEF SessionInv, SessionTypeOK, Tokens, NoToken, Cookie

(* A session of another project: what is in memory is of an earlier version, the cookie
   is dropped, and the tokens that are being made are known. *)
LEMMA InitAnsweredKeepsStratus ==
  ASSUME BrowserAssumption, SessionInv, StratusInv, NEW p \in Projects, InitAnswered(p), Calm
  PROVE  StratusInv'
<1>1. store'.project = p /\ context' = p /\ p # Nobody /\ now' = now
  BY InitAnsweredKeepsSession DEF BrowserAssumption, InitAnswered
<1>2. OfSession' = {p}
  BY <1>1 DEF OfSession
<1>3. ASSUME ~ContextChanged(p)
      PROVE  (\A h \in Handlers : MemoryOfSession(h)') /\ CookieOfSession'
  <2>1. UNCHANGED <<version, cookie, marker>>
    BY <1>3 DEF InitAnswered, SyncProjectSession, Switches
  <2>2. store.project \in {p, Nobody}
    BY <1>3 DEF ContextChanged, SessionInv
  <2>3. \A h \in Handlers : MemoryOfSession(h)'
    <3>1. CASE store.project = p
      BY <1>1, <2>1, <3>1 DEF StratusInv, MemoryOfSession, Calm
    <3>2. CASE store.project = Nobody
      BY <1>1, <2>1, <3>2 DEF StratusInv, MemoryOfSession, Calm
    <3> QED BY <2>2, <3>1, <3>2
  <2>4. CookieOfSession'
    <3>1. SUFFICES ASSUME cookie.until > now PROVE cookie.project \in {p} \cup overtaken'
      BY <1>1, <1>2, <2>1 DEF CookieOfSession
    <3>2. context = p
      BY <1>3, <3>1, LiveCookie DEF ContextChanged, HasStratusJwtCookie
    <3>3. cookie.project \in OfSession \cup overtaken /\ cookie.project \in Projects
      BY <3>1, LiveCookie DEF StratusInv, CookieOfSession
    <3>4. OfSession \subseteq {p}
      BY <1>1, <2>2, <3>2 DEF OfSession
    <3>5. overtaken \subseteq overtaken'
      BY <1>1, <2>2 DEF StratusInv, Calm
    <3> QED BY <3>3, <3>4, <3>5
  <2> QED BY <2>3, <2>4
<1>4. ASSUME Switches(p)
      PROVE  (\A h \in Handlers : MemoryOfSession(h)') /\ CookieOfSession'
  <2>1. version' = version + 1 /\ cookie' = NoToken /\ version \in Nat
    BY <1>4 DEF Switches, ClearStratusJwt, SessionInv, SessionTypeOK
  <2>2. \A h \in Handlers : MemoryOfSession(h)'
    <3>1. \A h \in Handlers : handler[h].version \in Nat /\ handler[h].version <= version
      BY DEF StratusInv, StratusTypeOK, MemoryOfSession
    <3> QED BY <1>1, <2>1, <3>1 DEF MemoryOfSession, Calm
  <2>3. CookieOfSession'
    BY <1>1, <2>1 DEF CookieOfSession, NoToken, SessionInv, SessionTypeOK
  <2> QED BY <2>2, <2>3
<1>5. (\A h \in Handlers : MemoryOfSession(h)') /\ CookieOfSession'
  BY <1>3, <1>4 DEF InitAnswered, SyncProjectSession
<1>6. ASSUME NEW c \in Gets PROVE GetOfSession(c)'
  <2>1. CASE store'.project = store.project
    BY <2>1 DEF StratusInv, GetOfSession, UnderWay, Calm
  <2>2. CASE store'.project # store.project
    BY <2>2 DEF StratusInv, GetOfSession, UnderWay, Calm
  <2> QED BY <2>1, <2>2
<1> QED BY <1>1, <1>5, <1>6, CalmType DEF StratusInv

(* A step of one call: the others are as they were. *)
LEMMA GetsType ==
  ASSUME StratusInv, NEW c \in Gets, NEW g \in GetType, get' = [get EXCEPT ![c] = g]
  PROVE  /\ get' \in [Gets -> GetType]
         /\ get'[c] = g
         /\ \A d \in Gets : d # c => get'[d] = get[d]
BY DEF StratusInv

(* A token from memory has its own version, or there has been one session only. *)
LEMMA InMemoryIsOfSession ==
  ASSUME SessionInv, StratusInv, NEW h \in Handlers
  PROVE  /\ InMemory(h) \in [token : Tokens, version : Nat, zaid : Projects \cup {Nobody}]
         /\ InMemory(h).version <= version
         /\ store.project = Nobody => InMemory(h).token = NoToken
         /\ InMemory(h).token # NoToken => InMemory(h).token.project \in {store.project} \cup overtaken
<1>1. /\ handler[h] \in [token : Tokens, version : Nat, zaid : Projects \cup {Nobody}]
      /\ version \in Nat /\ NoToken \in Tokens
  BY DEF StratusInv, StratusTypeOK, SessionInv, SessionTypeOK, Tokens
<1>2. CASE version # 0 /\ version # handler[h].version
  <2>1. InMemory(h) = [handler[h] EXCEPT !.token = NoToken, !.version = version]
    BY <1>2 DEF InMemory
  <2> DEFINE fresh == [handler[h] EXCEPT !.token = NoToken, !.version = version]
  <2>2. /\ fresh \in [token : Tokens, version : Nat, zaid : Projects \cup {Nobody}]
        /\ fresh.version = version /\ fresh.token = NoToken
    BY <1>1
  <2>3. version <= version
    BY <1>1
  <2> HIDE DEF fresh
  <2> QED BY <2>1, <2>2, <2>3 DEF fresh
<1>3. CASE ~(version # 0 /\ version # handler[h].version)
  <2>1. InMemory(h) = handler[h] /\ (version = 0 \/ handler[h].version = version)
    BY <1>3 DEF InMemory
  <2> QED BY <1>1, <2>1 DEF StratusInv, MemoryOfSession
<1> QED BY <1>2, <1>3

(* A token in memory that is good is given, to a call that begins and ends in one step. *)
LEMMA GetJWTKeeps ==
  ASSUME SessionInv, StratusInv, NEW c \in Gets, NEW h \in Handlers, GetJWTAccessToken(c, h)
  PROVE  StratusInv'
<1> DEFINE mine == InMemory(h)
           asks == [mine EXCEPT !.zaid = store.project]
<1>1. store.project \in Projects \cup {Nobody} /\ OfSession \subseteq Projects
  BY DEF SessionInv, SessionTypeOK, OfSession
<1>2. /\ mine \in [token : Tokens, version : Nat, zaid : Projects \cup {Nobody}]
      /\ mine.version <= version
      /\ store.project = Nobody => mine.token = NoToken
      /\ mine.token # NoToken => mine.token.project \in {store.project} \cup overtaken
  BY InMemoryIsOfSession
<1>3. PICK new \in {mine, asks} : handler' = [handler EXCEPT ![h] = new]
  BY DEF GetJWTAccessToken
<1>4. /\ new \in [token : Tokens, version : Nat, zaid : Projects \cup {Nobody}]
      /\ new.token = mine.token /\ new.version = mine.version
  <2>1. /\ asks \in [token : Tokens, version : Nat, zaid : Projects \cup {Nobody}]
        /\ asks.token = mine.token /\ asks.version = mine.version
    <3> HIDE DEF mine
    <3> QED BY <1>1, <1>2
  <2> QED BY <1>2, <2>1
<1>5. PICK g \in GetType :
        /\ get' = [get EXCEPT ![c] = g]
        /\ g.on = h /\ g.seen = OfSession /\ g.pc \in {"import", "done"}
  <2> DEFINE rec(pc, got) == [pc |-> pc, on |-> h, seen |-> OfSession,
                              project |-> store.project, got |-> got]
  <2> HIDE DEF mine
  <2>1. NoToken \in Tokens /\ mine.token \in Tokens
    BY <1>2 DEF Tokens
  <2>2. rec("import", NoToken) \in GetType /\ rec("done", mine.token) \in GetType
    BY <1>1, <2>1 DEF GetType
  <2>3. \/ get' = [get EXCEPT ![c] = rec("import", NoToken)]
        \/ get' = [get EXCEPT ![c] = rec("done", mine.token)]
    BY DEF GetJWTAccessToken, Begin, mine
  <2> HIDE DEF rec
  <2>4. /\ rec("import", NoToken).on = h /\ rec("import", NoToken).seen = OfSession
        /\ rec("import", NoToken).pc = "import"
        /\ rec("done", mine.token).on = h /\ rec("done", mine.token).seen = OfSession
        /\ rec("done", mine.token).pc = "done"
    BY DEF rec
  <2> QED BY <2>2, <2>3, <2>4
<1> HIDE DEF mine, asks
<1>6. /\ get' \in [Gets -> GetType]
      /\ get'[c] = g /\ \A d \in Gets : d # c => get'[d] = get[d]
  BY <1>5, GetsType
<1>7. overtaken' = overtaken /\ UNCHANGED sessionVars
  BY DEF GetJWTAccessToken
<1>8. /\ handler' \in [Handlers -> [token : Tokens, version : Nat, zaid : Projects \cup {Nobody}]]
      /\ handler'[h] = new /\ \A k \in Handlers : k # h => handler'[k] = handler[k]
  BY <1>3, <1>4 DEF StratusInv, StratusTypeOK
<1>9. StratusTypeOK'
  BY <1>6, <1>7, <1>8 DEF StratusInv, StratusTypeOK, GetType
<1>10. \A k \in Handlers : MemoryOfSession(k)'
  BY <1>2, <1>4, <1>7, <1>8 DEF StratusInv, MemoryOfSession, sessionVars
<1>11. OfSession' = OfSession
  BY <1>7 DEF OfSession, sessionVars
<1>12. CookieOfSession'
  BY <1>7, <1>11 DEF StratusInv, CookieOfSession, sessionVars
<1>13. \A d \in Gets : GetOfSession(d)'
  BY <1>5, <1>6, <1>7, <1>11 DEF StratusInv, GetOfSession, UnderWay, sessionVars
<1> QED BY <1>6, <1>7, <1>9, <1>10, <1>12, <1>13 DEF StratusInv, sessionVars

(* A call that goes on without a token, or has the first of two. *)
LEMMA ReachKeeps ==
  ASSUME StratusInv, NEW c \in Gets, c \in UnderWay,
         NEW pc \in {"oauth", "reuse", "reused", "failed", "remote"},
         pc = "remote" => get[c].pc = "custom" /\ get[c].project # Nobody, Reach(c, pc)
  PROVE  StratusInv'
<1> DEFINE g == [get[c] EXCEPT !.pc = pc]
<1>1. /\ g \in GetType /\ g.pc = pc
      /\ g.on = get[c].on /\ g.seen = get[c].seen /\ g.project = get[c].project
  BY DEF StratusInv, GetType
<1>2. get' = [get EXCEPT ![c] = g]
  BY DEF StratusInv, Reach
<1> HIDE DEF g
<1>3. /\ get' \in [Gets -> GetType]
      /\ get'[c] = g /\ \A d \in Gets : d # c => get'[d] = get[d]
  BY <1>1, <1>2, GetsType
<1>4. UNCHANGED <<handler, overtaken, store, context, version, now, cookie>>
  BY DEF Reach, sessionVars
<1>5. StratusTypeOK'
  BY <1>3, <1>4 DEF StratusInv, StratusTypeOK, GetType
<1>6. OfSession' = OfSession
  BY <1>4 DEF OfSession
<1>7. (\A h \in Handlers : MemoryOfSession(h)') /\ CookieOfSession'
  BY <1>4, <1>6 DEF StratusInv, MemoryOfSession, CookieOfSession
<1>8. \A d \in Gets : GetOfSession(d)'
  BY <1>1, <1>3, <1>4, <1>6 DEF StratusInv, GetOfSession, UnderWay
<1> QED BY <1>3, <1>4, <1>5, <1>7, <1>8 DEF StratusInv

LEMMA TokenOrCookieKeeps ==
  ASSUME SessionInv, StratusInv, NEW c \in Gets, c \in UnderWay, TokenOrCookie(c)
  PROVE  SessionInv' /\ StratusInv'
<1>1. UNCHANGED <<store, idb, flight, fetches, caller, context, version, now, handler, overtaken>>
  BY DEF TokenOrCookie
<1>2. UNCHANGED <<cookie, marker>> \/ ClearStratusJwt
  BY DEF TokenOrCookie, TakeCookie, Mint
<1>3. SessionInv'
  <2>1. cookie' \in Tokens /\ marker' \in Nat /\ (marker' # 0 => marker' = cookie'.until)
    BY <1>2, ClearType DEF ClearStratusJwt, SessionInv, SessionTypeOK
  <2> QED BY <1>1, <2>1 DEF SessionInv, SessionTypeOK
<1>4. PICK g \in GetType :
        /\ get' = [get EXCEPT ![c] = g] /\ g.on = get[c].on /\ g.seen = get[c].seen
        /\ g.pc = "done" \/ (g.pc = "custom" /\ g.project = store.project)
  <2> DEFINE taken == [get[c] EXCEPT !.pc = "done", !.got = Cookie]
             first == [get[c] EXCEPT !.pc = "custom", !.project = store.project]
  <2>1. Cookie \in Tokens /\ store.project \in Projects \cup {Nobody}
    BY DEF Cookie, Tokens, SessionInv, SessionTypeOK
  <2>2. /\ taken \in GetType /\ taken.on = get[c].on /\ taken.seen = get[c].seen
        /\ taken.pc = "done"
    <3> DEFINE held == Cookie
    <3> HIDE DEF held
    <3>1. LET t == [get[c] EXCEPT !.pc = "done", !.got = held] IN
            t \in GetType /\ t.on = get[c].on /\ t.seen = get[c].seen /\ t.pc = "done"
      BY <2>1 DEF StratusInv, GetType, held
    <3> QED BY <3>1 DEF held
  <2>3. /\ first \in GetType /\ first.on = get[c].on /\ first.seen = get[c].seen
        /\ first.pc = "custom" /\ first.project = store.project
    BY <2>1 DEF StratusInv, GetType
  <2>4. get' = [get EXCEPT ![c] = taken] \/ get' = [get EXCEPT ![c] = first]
    BY DEF TokenOrCookie, TakeCookie, Mint, StratusInv
  <2> HIDE DEF taken, first
  <2> QED BY <2>2, <2>3, <2>4
<1>5. /\ get' \in [Gets -> GetType]
      /\ get'[c] = g /\ \A d \in Gets : d # c => get'[d] = get[d]
  BY <1>4, GetsType
<1>6. StratusTypeOK'
  BY <1>1, <1>5 DEF StratusInv, StratusTypeOK, GetType
<1>7. OfSession' = OfSession
  BY <1>1 DEF OfSession
<1>8. \A h \in Handlers : MemoryOfSession(h)'
  BY <1>1 DEF StratusInv, MemoryOfSession
<1>9. CookieOfSession'
  BY <1>1, <1>2, <1>7 DEF StratusInv, CookieOfSession, ClearStratusJwt, NoToken, SessionInv, SessionTypeOK
<1>10. \A d \in Gets : GetOfSession(d)'
  BY <1>1, <1>4, <1>5, <1>7 DEF StratusInv, GetOfSession, UnderWay
<1> QED BY <1>1, <1>3, <1>5, <1>6, <1>8, <1>9, <1>10 DEF StratusInv

(* A new token is that of the session, or was being made when it changed. *)
LEMMA RemoteAuthKeeps ==
  ASSUME BrowserAssumption, SessionInv, StratusInv, NEW c \in Gets, RemoteAuthAnswered(c)
  PROVE  SessionInv' /\ StratusInv'
<1> DEFINE token == [project |-> get[c].project, until |-> now + Life]
           h == get[c].on
<1>1. /\ h \in Handlers /\ get[c].project # Nobody
      /\ get[c].project \in {store.project} \cup overtaken
      /\ store.project # Nobody /\ get[c].project \in Projects
  BY DEF RemoteAuthAnswered, StratusInv, StratusTypeOK, GetOfSession
<1>2. /\ token \in Tokens /\ token.project = get[c].project
      /\ token.until \in Nat /\ NoToken.project = Nobody
  <2>1. now + Life \in Nat
    BY DEF BrowserAssumption, SessionInv, SessionTypeOK
  <2> QED BY <1>1, <2>1 DEF Tokens, NoToken
<1>3. /\ handler' = [handler EXCEPT ![h].token = token]
      /\ cookie' = token /\ marker' = token.until
      /\ get' = [get EXCEPT ![c].pc = "done", ![c].got = token]
      /\ UNCHANGED <<store, idb, flight, fetches, caller, context, version, now, overtaken>>
  BY DEF RemoteAuthAnswered, RecordStratusJwt
<1> HIDE DEF token, h
<1>4. SessionInv'
  BY <1>2, <1>3 DEF SessionInv, SessionTypeOK
<1>5. /\ handler' \in [Handlers -> [token : Tokens, version : Nat, zaid : Projects \cup {Nobody}]]
      /\ handler'[h].token = token /\ handler'[h].version = handler[h].version
      /\ \A k \in Handlers : k # h => handler'[k] = handler[k]
  BY <1>1, <1>2, <1>3 DEF StratusInv, StratusTypeOK
<1> DEFINE g == [get[c] EXCEPT !.pc = "done", !.got = token]
<1>6. /\ g \in GetType /\ g.on = get[c].on /\ g.seen = get[c].seen /\ g.pc = "done" /\ g.got = token
  BY <1>2 DEF StratusInv, GetType
<1>7. get' = [get EXCEPT ![c] = g]
  BY <1>3 DEF StratusInv
<1> HIDE DEF g
<1>8. /\ get' \in [Gets -> GetType]
      /\ get'[c] = g /\ \A d \in Gets : d # c => get'[d] = get[d]
  BY <1>6, <1>7, GetsType
<1>9. StratusTypeOK'
  BY <1>3, <1>5, <1>8 DEF StratusInv, StratusTypeOK, GetType
<1>10. \A k \in Handlers : MemoryOfSession(k)'
  BY <1>1, <1>2, <1>3, <1>5 DEF StratusInv, MemoryOfSession
<1>11. OfSession' = OfSession /\ OfSession = {store.project} \cap Projects
  BY <1>1, <1>3 DEF OfSession
<1>12. CookieOfSession'
  BY <1>1, <1>2, <1>3, <1>11 DEF CookieOfSession
<1>13. \A d \in Gets : GetOfSession(d)'
  BY <1>1, <1>3, <1>6, <1>8, <1>11 DEF StratusInv, GetOfSession, UnderWay, h
<1> QED BY <1>1, <1>3, <1>4, <1>8, <1>9, <1>10, <1>12, <1>13 DEF StratusInv

(* Every other step of a call. *)
LEMMA StratusStepGoes ==
  ASSUME NEW c \in Gets, StratusStep(c)
  PROVE  \/ RemoteAuthAnswered(c)
         \/ c \in UnderWay /\ get[c].pc \in {"import", "oauth", "reuse"} /\ TokenOrCookie(c)
         \/ /\ c \in UnderWay
            /\ \E pc \in {"oauth", "reuse", "reused", "failed", "remote"} :
                 Reach(c, pc) /\ (pc = "remote" => get[c].pc = "custom" /\ get[c].project # Nobody)
BY DEF StratusStep, Imported, StoredTokenRead, ReuseOAuth, CustomTokenAnswered, MintFails, UnderWay

LEMMA TokenMovesKeep ==
  ASSUME BrowserAssumption, SessionInv, StratusInv, TokenMoves
  PROVE  SessionInv' /\ StratusInv'
<1>1. ASSUME UNCHANGED sessionVars PROVE SessionInv'
  BY <1>1, StillIsQuiet, QuietKeepsSession
<1>2. ASSUME NEW c \in Gets, NEW h \in Handlers, GetJWTAccessToken(c, h)
      PROVE  SessionInv' /\ StratusInv'
  BY <1>1, <1>2, GetJWTKeeps DEF GetJWTAccessToken
<1>3. ASSUME NEW c \in Gets, StratusStep(c)
      PROVE  SessionInv' /\ StratusInv'
  BY <1>1, <1>3, StratusStepGoes, RemoteAuthKeeps, TokenOrCookieKeeps, ReachKeeps DEF Reach
<1> QED BY <1>2, <1>3 DEF TokenMoves

LEMMA SessionMovesKeepStratus ==
  ASSUME BrowserAssumption, SessionInv, StratusInv, SessionMoves
  PROVE  StratusInv'
<1>1. Calm
  BY WatchIsCalm DEF SessionMoves
<1>2. CASE \E i \in Callers \ Acts : GetCredentials(i)
  BY <1>1, <1>2, GetCredentialsIsQuiet, QuietKeepsStratus
<1>3. CASE \E p \in Projects : InitAnswered(p)
  BY <1>1, <1>3, InitAnsweredKeepsStratus
<1>4. CASE InitFails
  BY <1>1, <1>4, InitFailsIsQuiet, QuietKeepsStratus
<1>5. CASE Tick
  BY <1>1, <1>5, TickKeepsStratus
<1>6. CASE OtherTab
  BY <1>1, <1>6, OtherTabIsQuiet, QuietKeepsStratus
<1> QED BY <1>2, <1>3, <1>4, <1>5, <1>6 DEF SessionMoves, SessionStep

LEMMA StratusStarts ==
  ASSUME SessionInv, StratusInit, BrowserAssumption, SessionInit
  PROVE  StratusInv
<1>1. NoToken \in Tokens
  BY DEF Tokens
<1>2. IdleGet \in GetType /\ IdleGet.pc = "idle"
  BY <1>1 DEF IdleGet, GetType
<1>3. \A c \in Gets : get[c] = IdleGet
  BY DEF StratusInit
<1>4. get \in [Gets -> GetType]
  BY <1>2 DEF StratusInit
<1>5. StratusTypeOK
  BY <1>1, <1>4 DEF StratusInit, StratusTypeOK, GetType
<1>6. \A h \in Handlers : MemoryOfSession(h)
  BY DEF StratusInit, MemoryOfSession, NoToken, SessionInit
<1>7. CookieOfSession
  <2>1. NoToken.until = 0 /\ now = 1
    BY DEF NoToken, SessionInit
  <2>2. SUFFICES ASSUME cookie.until > now
                 PROVE  context \in {cookie.project, Nobody} /\ cookie.project \in Projects
    BY DEF CookieOfSession, OfSession, SessionInit
  <2> QED BY <2>1, <2>2, LiveCookie DEF SessionInit
<1>8. \A c \in Gets : GetOfSession(c)
  BY <1>2, <1>3 DEF GetOfSession, UnderWay
<1> QED BY <1>4, <1>5, <1>6, <1>7, <1>8 DEF StratusInv, StratusInit

-----------------------------------------------------------------------------
(* The page as a whole. *)

BrowserInv == SessionInv /\ FetchTypeOK /\ WebInv /\ StratusInv

LEMMA BrowserStarts ==
  ASSUME BrowserInit
  PROVE  BrowserInv
BY BrowserAssumption, SessionStarts, FetchStarts, WebStarts, StratusStarts DEF BrowserInit, BrowserInv

LEMMA BrowserStepKeeps ==
  ASSUME BrowserInv, [BrowserNext]_browserVars
  PROVE  BrowserInv'
<1> USE BrowserAssumption DEF BrowserInv
<1>1. ASSUME Quiet, UNCHANGED stratusVars PROVE SessionInv' /\ StratusInv'
  BY <1>1, QuietKeepsSession, StillIsCalm, QuietKeepsStratus DEF Quiet
<1>2. CASE SessionMoves
  BY <1>2, SessionMovesKeepSession, SessionMovesKeepStratus, StillKeepsFetch, StillKeepsWeb DEF SessionMoves
<1>3. CASE TokenMoves
  BY <1>3, TokenMovesKeep, StillKeepsFetch, StillKeepsWeb DEF TokenMoves
<1>4. CASE RequestMoves
  BY <1>1, <1>4, RequestMovesKeep, StillKeepsWeb DEF RequestMoves
<1>5. CASE WebMoves
  BY <1>1, <1>5, WebMovesAreQuiet, WebMovesKeepFetch, WebMovesKeepWeb DEF WebMoves
<1>6. CASE UNCHANGED browserVars
  BY <1>1, <1>6, StillIsQuiet, StillKeepsFetch, StillKeepsWeb DEF browserVars
<1> QED BY <1>2, <1>3, <1>4, <1>5, <1>6 DEF BrowserNext

LEMMA BrowserInvariant == BrowserSpec => []BrowserInv
<1>1. BrowserInit => BrowserInv
  BY BrowserStarts
<1>2. BrowserInv /\ [BrowserNext]_browserVars => BrowserInv'
  BY BrowserStepKeeps
<1> QED BY <1>1, <1>2, PTL DEF BrowserSpec

(* Every part of the page keeps its type. *)
THEOREM BrowserTypeCorrect == BrowserSpec => []BrowserTypeOK
<1>1. BrowserInv => BrowserTypeOK
  BY DEF BrowserInv, SessionInv, FetchTypeOK, WebInv, StratusInv, BrowserTypeOK
<1> QED BY <1>1, BrowserInvariant, PTL

(* No sign-in goes to a page, or mounts a frame, of the project `undefined`, whatever the
   calls, sign-outs and reloads of the configuration around it. *)
THEOREM SignInHasProject == BrowserSpec => []SignInNamesProject
<1>1. BrowserInv => SignInNamesProject
  BY DEF BrowserInv, WebInv
<1> QED BY <1>1, BrowserInvariant, PTL

(* The sign-in button has one call behind it, a disabled one has its popup, and no call
   waits for a button that is gone. *)
THEOREM ButtonAlwaysServed == BrowserSpec => []ButtonIsServed
<1>1. BrowserInv => ButtonIsServed
  BY DEF BrowserInv, WebInv
<1> QED BY <1>1, BrowserInvariant, PTL

-----------------------------------------------------------------------------
(* What a step may never do. *)

(* A token that is good now, with the margin where its end is recorded. *)
GoodFor(c) ==
  /\ get'[c].got.until > now
  /\ get[c].pc \in {"import", "oauth", "reuse"} /\ marker # 0 => get'[c].got.until > now + Skew

OfItsSession(c) == get'[c].got.project \in get'[c].seen \cup overtaken

(* A call that does not move is given nothing. *)
LEMMA OneIsGiven ==
  ASSUME StratusInv, NEW d \in Gets, NEW c \in Gets, StratusStep(d) \/ \E h \in Handlers : GetJWTAccessToken(d, h),
         Gives(c)
  PROVE  c = d
<1>1. get \in [Gets -> GetType]
  BY DEF StratusInv
<1>2. SUFFICES ASSUME c # d PROVE get'[c] = get[c]
  BY DEF Gives
<1>3. CASE \E h \in Handlers : GetJWTAccessToken(d, h)
  BY <1>1, <1>2, <1>3 DEF GetJWTAccessToken, Begin
<1>4. CASE StratusStep(d)
  BY <1>1, <1>2, <1>4, StratusStepGoes DEF RemoteAuthAnswered, TokenOrCookie, TakeCookie, Mint, Reach
<1> QED BY <1>3, <1>4

LEMMA FromCookie ==
  ASSUME SessionInv, StratusInv, NEW c \in Gets, c \in UnderWay, TokenOrCookie(c), Gives(c)
  PROVE  GoodFor(c) /\ OfItsSession(c)
<1>1. get \in [Gets -> GetType]
  BY DEF StratusInv
<1>2. IsStratusJwtFresh /\ get'[c].got = Cookie /\ get'[c].seen = get[c].seen
  BY <1>1 DEF TokenOrCookie, TakeCookie, Mint, Gives, GetType
<1>3. Cookie = cookie /\ cookie.until > now
  BY <1>2 DEF IsStratusJwtFresh, HasStratusJwtCookie, Cookie
<1>4. marker # 0 => marker = cookie.until /\ ~(marker <= now + Skew)
  BY <1>2 DEF IsStratusJwtFresh, EndIsNear, SessionInv
<1>5. now + Skew \in Nat /\ marker \in Nat
  BY BrowserAssumption DEF BrowserAssumption, SessionInv, SessionTypeOK
<1>6. GoodFor(c)
  BY <1>2, <1>3, <1>4, <1>5 DEF GoodFor
<1>7. OfItsSession(c)
  BY <1>2, <1>3 DEF StratusInv, CookieOfSession, GetOfSession, OfItsSession
<1> QED BY <1>6, <1>7

LEMMA FromMemory ==
  ASSUME SessionInv, StratusInv, NEW c \in Gets, NEW h \in Handlers, GetJWTAccessToken(c, h), Gives(c)
  PROVE  GoodFor(c) /\ OfItsSession(c)
<1> DEFINE mine == InMemory(h)
<1>1. /\ mine.token \in Tokens
      /\ store.project = Nobody => mine.token = NoToken
      /\ mine.token # NoToken => mine.token.project \in {store.project} \cup overtaken
  BY InMemoryIsOfSession
<1>2. mine.token.until > now /\ get[c].pc = "idle"
      /\ get' = [get EXCEPT ![c] = [pc |-> "done", on |-> h, seen |-> OfSession,
                                    project |-> store.project, got |-> mine.token]]
  <2> HIDE DEF mine
  <2> QED BY DEF GetJWTAccessToken, Begin, Gives, mine, StratusInv
<1> HIDE DEF mine
<1>3. get'[c].got = mine.token /\ get'[c].seen = OfSession
  BY <1>2 DEF StratusInv
<1>4. mine.token # NoToken
  BY <1>2 DEF NoToken, SessionInv, SessionTypeOK
<1>5. store.project # Nobody /\ store.project \in OfSession
  BY <1>1, <1>4 DEF OfSession, SessionInv, SessionTypeOK
<1> QED BY <1>1, <1>2, <1>3, <1>4, <1>5 DEF GoodFor, OfItsSession

LEMMA FromServer ==
  ASSUME SessionInv, StratusInv, NEW c \in Gets, RemoteAuthAnswered(c)
  PROVE  GoodFor(c) /\ OfItsSession(c)
<1>1. /\ get'[c].got.until = now + Life /\ get'[c].got.project = get[c].project
      /\ get'[c].seen = get[c].seen /\ get[c].pc = "remote"
  BY DEF RemoteAuthAnswered, StratusInv, GetType
<1>2. now + Life > now
  BY BrowserAssumption DEF BrowserAssumption, SessionInv, SessionTypeOK
<1>3. /\ get[c].project \in {store.project} \cup overtaken /\ get[c].project # Nobody
      /\ OfSession \subseteq get[c].seen
  BY <1>1 DEF StratusInv, GetOfSession, UnderWay
<1>4. store.project # Nobody => store.project \in OfSession
  BY DEF OfSession, SessionInv, SessionTypeOK
<1> QED BY <1>1, <1>2, <1>3, <1>4 DEF GoodFor, OfItsSession

LEMMA GivenIsRight ==
  ASSUME SessionInv, StratusInv, [BrowserNext]_browserVars, NEW c \in Gets, Gives(c)
  PROVE  GoodFor(c) /\ OfItsSession(c)
<1>1. CASE TokenMoves
  <2>1. ASSUME NEW h \in Handlers, GetJWTAccessToken(c, h) PROVE GoodFor(c) /\ OfItsSession(c)
    BY <2>1, FromMemory
  <2>2. ASSUME NEW pc \in {"oauth", "reuse", "reused", "failed", "remote"}, Reach(c, pc) PROVE FALSE
    BY <2>2 DEF Reach, Gives, StratusInv, GetType
  <2>3. CASE StratusStep(c)
    BY <2>2, <2>3, StratusStepGoes, FromCookie, FromServer
  <2> QED BY <1>1, <2>1, <2>3, OneIsGiven DEF TokenMoves
<1>2. CASE SessionMoves
  BY <1>2, WatchIsCalm DEF SessionMoves, Calm, Gives
<1>3. CASE RequestMoves \/ WebMoves \/ UNCHANGED browserVars
  BY <1>3 DEF RequestMoves, WebMoves, browserVars, stratusVars, Gives
<1> QED BY <1>1, <1>2, <1>3 DEF BrowserNext

(* However sessions, handlers and calls follow each other, a call is given the token of a
   project that its session was of since it was made, or one that was being made when
   the session last changed. *)
THEOREM TokensFollowSession == BrowserSpec => TokenOfSession
<1>1. BrowserInv /\ [BrowserNext]_browserVars =>
        [\A c \in Gets : Gives(c) => get'[c].got.project \in get'[c].seen \cup overtaken]_get
  BY GivenIsRight DEF BrowserInv, OfItsSession
<1> QED BY <1>1, BrowserInvariant, PTL DEF BrowserSpec, TokenOfSession

(* A call of getJWTAccessToken() ends with a token that is good at that moment, and from a
   cookie whose end is recorded with the margin to spare. *)
THEOREM TokensAreGood == BrowserSpec => TokenNotExpired
<1>1. BrowserInv /\ [BrowserNext]_browserVars =>
        [\A c \in Gets : Gives(c) =>
           /\ get'[c].got.until > now
           /\ get[c].pc \in {"import", "oauth", "reuse"} /\ marker # 0
                => get'[c].got.until > now + Skew]_<<get, marker, now>>
  BY GivenIsRight DEF BrowserInv, GoodFor
<1> QED BY <1>1, BrowserInvariant, PTL DEF BrowserSpec, TokenNotExpired
==============================================================================
