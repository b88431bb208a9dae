----------------------------- MODULE StratusToken -----------------------------
(***************************************************************************)
(* JWTAuthHandler of packages/stratus in the browser: the token of bucket  *)
(* operations, which a handler keeps in memory and all share in a cookie.  *)
(* A new one takes two requests, one to the project and one to the         *)
(* accounts portal; both are external.  getJWTAccessToken() may run many   *)
(* times at once, also before /sdk/init has answered, and the project of   *)
(* the session may change at any await.                                    *)
(***************************************************************************)
EXTENDS BrowserSession

CONSTANTS
  Handlers,   (* one per Bucket                        *)
  Gets,       (* calls of getJWTAccessToken()          *)
  Life,       (* of a new token                        *)
  Skew        (* STRATUS_JWT_EXPIRY_SKEW_MS            *)

VARIABLES
  handler,  (* accessTokenObj, sessionVersion and zaid of each handler         *)
  get,      (* each call: its handler, how far it is, the projects of the
               session since it began, whose token it asks for, what it got    *)
  overtaken (* history: the projects for which a token was being made when the
               session last changed its project                                *)

stratusVars == <<handler, get, overtaken>>

IdleGet == [pc |-> "idle", on |-> Nobody, seen |-> {}, project |-> Nobody, got |-> NoToken]

StratusTypeOK ==
  /\ handler \in [Handlers -> [token : Tokens, version : Nat, zaid : Projects \cup {Nobody}]]
  /\ \A c \in Gets :
       /\ get[c].pc \in {"idle", "import", "oauth", "reuse", "custom", "remote", "done", "reused",
                         "failed"}
       /\ get[c].on \in Handlers \cup {Nobody} /\ get[c].seen \subseteq Projects
       /\ get[c].project \in Projects \cup {Nobody} /\ get[c].got \in Tokens
  /\ overtaken \subseteq Projects

StratusInit ==
  /\ handler = [h \in Handlers |-> [token |-> NoToken, version |-> 0, zaid |-> Nobody]]
  /\ get = [c \in Gets |-> IdleGet]
  /\ overtaken = {}

-----------------------------------------------------------------------------
(* Mutant: what is in memory is never dropped. *)
KeepInMemory(h) == handler[h]

(* The token in memory is dropped when the session version has changed. *)
InMemory(h) ==
  IF version # 0 /\ version # handler[h].version
  THEN [handler[h] EXCEPT !.token = NoToken, !.version = version]
  ELSE handler[h]

(* getStratusJwtExpiry(): the recorded end of the cookie, if there is one. *)
EndIsNear == marker # 0 /\ marker <= now + Skew

(* Mutant: a cookie is trusted whatever its recorded end. *)
AnyCookie == HasStratusJwtCookie

(* isStratusJwtFresh(): no recorded end counts as fresh. *)
IsStratusJwtFresh == HasStratusJwtCookie /\ ~EndIsNear

(* The project of the session; before /sdk/init has answered that of the last one, and
   any if none is recorded. *)
OfSession ==
  {p \in Projects : IF store.project = Nobody THEN context \in {p, Nobody} ELSE p = store.project}

Begin(c, h, pc, got) ==
  get' = [get EXCEPT ![c] = [pc |-> pc, on |-> h, seen |-> OfSession,
                             project |-> store.project, got |-> got]]

(* processJwtToken() begins: what the cookie held is dropped. *)
Mint(c) ==
  /\ ClearStratusJwt
  /\ get' = [get EXCEPT ![c].pc = "custom", ![c].project = store.project]

(* The cookie is taken if it is fresh. *)
TakeCookie(c) ==
  \/ /\ IsStratusJwtFresh
     /\ get' = [get EXCEPT ![c].pc = "done", ![c].got = Cookie]
     /\ UNCHANGED <<cookie, marker>>
  \/ ~IsStratusJwtFresh /\ Mint(c)

(* getJWTAccessToken() from its start: memory first, then initializeConfig(). *)
GetJWTAccessToken(c, h) ==
  /\ get[c].pc = "idle"
  /\ LET mine == InMemory(h) IN
     \/ /\ mine.token.until > now
        /\ handler' = [handler EXCEPT ![h] = mine]
        /\ Begin(c, h, "done", mine.token)
     \/ /\ mine.token.until <= now
        /\ handler' = [handler EXCEPT ![h] = [mine EXCEPT !.zaid = store.project]]
        /\ Begin(c, h, "import", NoToken)
  /\ UNCHANGED overtaken /\ UNCHANGED sessionVars

TokenOrCookie(c) ==
  /\ TakeCookie(c)
  /\ UNCHANGED <<store, idb, flight, fetches, caller, context, version, now, handler, overtaken>>

Reach(c, pc) ==
  /\ get' = [get EXCEPT ![c].pc = pc]
  /\ UNCHANGED <<handler, overtaken>> /\ UNCHANGED sessionVars

(* The module is there: under OAuth the popup's token is asked for. *)
Imported(c) ==
  /\ get[c].pc = "import"
  /\ \/ store.protocol = "oauth" /\ Reach(c, "oauth")
     \/ store.protocol # "oauth" /\ TokenOrCookie(c)

(* It is read if it is there and can be ... *)
StoredTokenRead(c) ==
  /\ get[c].pc = "oauth"
  /\ \/ StoredToken = "good" /\ Reach(c, "reuse")
     \/ TokenOrCookie(c)

(* ... and reused unless it has expired by the time it comes. *)
ReuseOAuth(c) ==
  /\ get[c].pc = "reuse"
  /\ Reach(c, "reused") \/ TokenOrCookie(c)

(* The project gave the first token, which the project `undefined` does not; it is
   exchanged at the portal of the zaid that the handler has by now, which takes no
   token of another project. *)
CustomTokenAnswered(c) ==
  LET p == get[c].project IN
  /\ get[c].pc = "custom" /\ p # Nobody
  /\ Reach(c, IF handler[get[c].on].zaid = p THEN "remote" ELSE "failed")

(* The new token goes to memory, cookie and record, whatever the session is by now. *)
RemoteAuthAnswered(c) ==
  LET token == [project |-> get[c].project, until |-> now + Life] IN
  /\ get[c].pc = "remote"
  /\ handler' = [handler EXCEPT ![get[c].on].token = token]
  /\ RecordStratusJwt(token)
  /\ get' = [get EXCEPT ![c].pc = "done", ![c].got = token]
  /\ UNCHANGED <<store, idb, flight, fetches, caller, context, version, now, overtaken>>

MintFails(c) ==
  /\ get[c].pc \in {"custom", "remote"}
  /\ Reach(c, "failed")

StratusStep(c) ==
  \/ Imported(c) \/ StoredTokenRead(c) \/ ReuseOAuth(c)
  \/ CustomTokenAnswered(c) \/ RemoteAuthAnswered(c) \/ MintFails(c)

(* What a step of the session does to the calls under way. *)
UnderWay == {c \in Gets : get[c].pc \in {"import", "oauth", "reuse", "custom", "remote"}}

Making == {get[c].project : c \in {d \in Gets : get[d].pc \in {"custom", "remote"}}} \ {Nobody}

Watch ==
  /\ overtaken' = IF store'.project = store.project THEN overtaken ELSE Making
  /\ get' = [c \in Gets |-> IF c \in UnderWay THEN [get[c] EXCEPT !.seen = @ \cup OfSession']
                            ELSE get[c]]
  /\ UNCHANGED handler

-----------------------------------------------------------------------------
Gives(c) == get[c].pc # "done" /\ get'[c].pc = "done"

(* "So we don't return a token that belongs to the previous project": a call is given
   the token of a project that the session was of since it was made, however calls,
   handlers and sessions follow each other; the only other that it may get is one that
   was being made when the session last changed, and the next change ends that. *)
TokenOfSession ==
  [][\A c \in Gets : Gives(c) => get'[c].got.project \in get'[c].seen \cup overtaken]_get

(* "So we don't return a token that belongs to the previous project." *)
NeverThePrevious ==
  [][\A c \in Gets : Gives(c) => get'[c].got.project \in get'[c].seen]_get

(* A call ends with a token that is good when it is given, and one from a cookie whose
   end is recorded has the margin to spare: "a token that will expire mid-flight". *)
TokenNotExpired ==
  [][\A c \in Gets : Gives(c) =>
       /\ get'[c].got.until > now
       /\ get[c].pc \in {"import", "oauth", "reuse"} /\ marker # 0
            => get'[c].got.until > now + Skew]_<<get, marker, now>>
=============================================================================
