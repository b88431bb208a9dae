------------------------------ MODULE Connector ------------------------------
(***************************************************************************)
(* The OAuth token life cycle of packages/connector: Connector instances   *)
(* created from one Connection, the Catalyst Cache segment they share, and *)
(* the calls of the application that overlap on them.                      *)
(*                                                                         *)
(* Every `await` of the code is a point where another call or a setter may *)
(* run, so each stretch of code between two awaits is one action.  A       *)
(* nullable field is a set with at most one element.                       *)
(***************************************************************************)
EXTENDS Integers, FiniteSets

CONSTANTS
  Early,         (* connectors taken from the Connection before any setter ran *)
  Late,          (* connectors that getConnector() may create at any time      *)
  Callers,       (* concurrent callers of getAccessToken()                     *)
  Ops,           (* concurrent calls of the other public methods               *)
  Fields,        (* the configuration fields that have a setter                *)
  Values,        (* their values                                               *)
  InitialConfig, (* the entry of connectionJson the Connection starts with     *)
  KeyOf,         (* configuration |-> hashed cache key                         *)
  LegacyConfigs, (* configurations a pre-0.0.5 cache entry may stem from       *)
  Secret,        (* connector |-> secretKey                                    *)
  NoSecret,      (* secretKey of a connector that has none                     *)
  Lifetimes,     (* expiry of a new token after the reply: at most 0 when the
                    server grants less than the 15 minutes the code deducts    *)
  MaxGen,        (* bound on _configGeneration                                 *)
  MaxNow         (* bound on the clock                                         *)

Connectors == Early \cup Late
Configs    == [Fields -> Values]
Keys       == {KeyOf[cfg] : cfg \in Configs}
Slots      == {"pending"} \cup Ops

ASSUME ConnectorAssumption ==
  /\ "refreshToken" \in Fields
  /\ InitialConfig \in Configs
  /\ LegacyConfigs \subseteq Configs
  /\ "pending" \notin Ops
  /\ Early \cap Late = {}
  /\ Lifetimes \subseteq Int
  /\ MaxGen \in Nat /\ MaxNow \in Nat
  /\ DOMAIN KeyOf = Configs
  /\ DOMAIN Secret = Connectors

(* The hash tells configurations apart: the code's 20-bit hash does so only
   with high probability, so what rests on this assumption is marked. *)
KeysDistinct == \A a, b \in Configs : KeyOf[a] = KeyOf[b] => a = b

VARIABLES
  live,    (* the connectors that exist                                    *)
  json,    (* Connection.connectionJson[lookup key]                        *)
  config,  (* the connector's fields, one function per connector           *)
  gen,     (* _configGeneration                                            *)
  memo,    (* _connectionName: the memoized cache key, or none             *)
  token,   (* accessToken and expiresAt, or none                           *)
  task,    (* the async call in each slot; "pending" is _pendingToken      *)
  window,  (* history: configurations held since the pending fetch began   *)
  call,    (* the callers of getAccessToken()                              *)
  cache,   (* cache segment, hashed keys                                   *)
  legacy,  (* cache segment, the key without a hash                        *)
  now      (* Date.now()                                                   *)

vars == <<live, json, config, gen, memo, token, task, window, call, cache, legacy, now>>

Token == [config : Configs, exp : Int]    (* config: whose credentials got it *)
Entry == [tok : Token, secret : {Secret[c] : c \in Connectors} \cup {NoSecret}]

Pcs == {"idle", "cacheGet", "legacyGet", "legacyPut", "refreshSend", "refreshed",
        "refreshPut", "codeSend", "codePut", "plainPut", "settle"}
Runs == {"fetch", "refreshAndPersist", "refresh", "generate", "put"}

Task == [pc : Pcs, run : Runs, gen : Nat, sent : Configs, key : SUBSET Keys, tok : SUBSET Token]
Call == [st : {"idle", "waiting", "done"}, conn : SUBSET Connectors,
         seen : SUBSET Configs, window : SUBSET Configs, tok : SUBSET Token]

Idle == [pc |-> "idle", run |-> "fetch", gen |-> 0, sent |-> InitialConfig,
         key |-> {}, tok |-> {}]
NoCall == [st |-> "idle", conn |-> {}, seen |-> {}, window |-> {}, tok |-> {}]

Init ==
  /\ live = Early
  /\ json = InitialConfig
  /\ config = [c \in Connectors |-> InitialConfig]
  /\ gen = [c \in Connectors |-> 0]
  /\ memo = [c \in Connectors |-> {}]
  /\ token = [c \in Connectors |-> {}]
  /\ task = [c \in Connectors |-> [s \in Slots |-> Idle]]
  /\ window = [c \in Connectors |-> {}]
  /\ call = [k \in Callers |-> NoCall]
  /\ cache = [k \in Keys |-> {}]
  /\ \/ legacy = {}
     \/ \E cfg \in LegacyConfigs, l \in Lifetimes, s \in {Secret[c] : c \in Connectors} :
          legacy = {[tok |-> [config |-> cfg, exp |-> l], secret |-> s]}
  /\ now = 0

-----------------------------------------------------------------------------
(* Shared pieces of the methods. *)

CacheKey(c) == IF memo[c] # {} THEN CHOOSE k \in memo[c] : TRUE ELSE KeyOf[config[c]]

(* The configuration after an assignment to field f. *)
Updated(c, f, v) == [config[c] EXCEPT ![f] = v]

(* A token for the configuration cfg, from a reply received now. *)
Granted(cfg, l) == [config |-> cfg, exp |-> now + l]

IsFresh(c) == \E t \in token[c] : t.exp > now

(* What #isEncrypted finds in an entry, and when #decrypt does not throw. *)
Encrypted(e)   == e.secret # NoSecret
Decrypts(c, e) == e.secret = Secret[c]

(* #tryApplyCachedValue: which of the entries read is usable, and when it throws. *)
Usable(c, entries) ==
  {e \in entries : e.tok.exp >= now /\ (Encrypted(e) => Decrypts(c, e))}
SecretKeyMissing(c, entries) ==
  \E e \in entries : e.tok.exp >= now /\ Encrypted(e) /\ Secret[c] = NoSecret

SetTask(c, s, t) == task' = [task EXCEPT ![c][s] = t]

(* Capture the generation and the fields a request or a key is built from. *)
At(c, pc, run, key, toks) ==
  [pc |-> pc, run |-> run, gen |-> gen[c], sent |-> config[c], key |-> key, tok |-> toks]

Fetching(c)      == At(c, "cacheGet", "fetch", {CacheKey(c)}, {})
Refreshing(c, s) == At(c, "refreshSend", task[c][s].run, {}, {})

(* The promise of slot s settles: with a token, or rejected when toks is empty. *)
Finish(c, s, toks) ==
  SetTask(c, s, IF s = "pending"
                THEN At(c, "settle", "fetch", {}, toks)
                ELSE Idle)

(* Mutant: the key is computed when the put is done, not when the token came. *)
StoredUnderCurrentKey(c, key, toks) ==
  cache' = [k \in Keys |->
              IF k = CacheKey(c)
              THEN {[tok |-> t, secret |-> Secret[c]] : t \in toks}
              ELSE cache[k]]

(* A put() of the segment that reaches the cache. *)
Stored(c, key, toks) ==
  cache' = [k \in Keys |->
              IF k \in key
              THEN {[tok |-> t, secret |-> Secret[c]] : t \in toks}
              ELSE cache[k]]

(* Mutant: the generation is not compared after an await. *)
ConfigUnchecked(c, s) == FALSE

ConfigChanged(c, s) == task[c][s].gen # gen[c]

(* A setter's assignment, #syncConfigField and the generation count; callers in
   flight have seen one more configuration. *)
Assign(c, f, v) ==
  /\ gen[c] < MaxGen
  /\ gen' = [gen EXCEPT ![c] = @ + 1]
  /\ config' = [config EXCEPT ![c] = Updated(c, f, v)]
  /\ json' = IF f = "connectorName" THEN json ELSE [json EXCEPT ![f] = v]
  /\ window' = [window EXCEPT ![c] = @ \cup {Updated(c, f, v)}]
  /\ call' = [k \in Callers |->
                IF call[k].st = "waiting" /\ c \in call[k].conn
                THEN [call[k] EXCEPT !.seen = @ \cup {Updated(c, f, v)}]
                ELSE call[k]]

(* Mutants: a setter that forgets to drop the token, or the memoized key. *)
InvalidateKeyOnly(c) ==
  /\ memo' = [memo EXCEPT ![c] = {}]
  /\ UNCHANGED token
InvalidateTokenOnly(c) ==
  /\ token' = [token EXCEPT ![c] = {}]
  /\ UNCHANGED memo

(* #invalidateCache: what else it resets when a setter runs. *)
InvalidateCache(c) ==
  /\ memo' = [memo EXCEPT ![c] = {}]
  /\ token' = [token EXCEPT ![c] = {}]

-----------------------------------------------------------------------------
(* The application. *)

(* Connection.getConnector(): a new instance from the current connectionJson. *)
GetConnector(c) ==
  /\ c \in Late \ live
  /\ live' = live \cup {c}
  /\ config' = [config EXCEPT ![c] = json]
  /\ UNCHANGED <<json, gen, memo, token, task, window, call, cache, legacy, now>>

(* A setter. *)
SetField(c, f, v) ==
  /\ c \in live
  /\ Assign(c, f, v)
  /\ InvalidateCache(c)
  /\ UNCHANGED <<live, task, cache, legacy, now>>

(* getAccessToken(): serve the token in memory, or join or start the fetch. *)
GetAccessToken(c, k) ==
  /\ c \in live
  /\ call[k].st # "waiting"
  /\ IF IsFresh(c)
     THEN /\ call' = [call EXCEPT ![k] = [st |-> "done", conn |-> {c}, seen |-> {config[c]},
                                          window |-> {config[c]}, tok |-> token[c]]]
          /\ UNCHANGED <<memo, task, window>>
     ELSE /\ call' = [call EXCEPT ![k] = [st |-> "waiting", conn |-> {c}, seen |-> {config[c]},
                                          window |-> {}, tok |-> {}]]
          /\ IF task[c]["pending"].pc = "idle"
             THEN /\ SetTask(c, "pending", Fetching(c))
                  /\ memo' = [memo EXCEPT ![c] = {CacheKey(c)}]
                  /\ window' = [window EXCEPT ![c] = {config[c]}]
             ELSE UNCHANGED <<memo, task, window>>
  /\ UNCHANGED <<live, json, config, gen, token, cache, legacy, now>>

(* refreshAndPersistToken(), refreshAccessToken() and generateAccessToken(). *)
StartRequest(c, s, run, pc) ==
  /\ c \in live /\ s \in Ops
  /\ task[c][s].pc = "idle"
  /\ SetTask(c, s, At(c, pc, run, {}, {}))
  /\ UNCHANGED <<live, json, config, gen, memo, token, window, call, cache, legacy, now>>

StartRefresh(c, s) ==
  \/ StartRequest(c, s, "refreshAndPersist", "refreshSend")
  \/ StartRequest(c, s, "refresh", "refreshSend")
StartGenerate(c, s) == StartRequest(c, s, "generate", "codeSend")

(* putAccessTokenInCache(): snapshots the key and the token, then writes them. *)
StartPut(c, s) ==
  /\ c \in live /\ s \in Ops
  /\ task[c][s].pc = "idle"
  /\ SetTask(c, s, At(c, "plainPut", "put", {CacheKey(c)}, token[c]))
  /\ memo' = [memo EXCEPT ![c] = {CacheKey(c)}]
  /\ UNCHANGED <<live, json, config, gen, token, window, call, cache, legacy, now>>

-----------------------------------------------------------------------------
(* The continuations after each await.  A request or a cache operation that
   fails, or an argument or a response the validators refuse, rejects. *)

Reject(c, s) ==
  /\ task[c][s].pc \in {"cacheGet", "legacyPut", "refreshSend", "refreshPut",
                        "codeSend", "codePut", "plainPut"}
  /\ Finish(c, s, {})
  /\ \/ UNCHANGED cache
     \/ /\ task[c][s].pc \in {"legacyPut", "refreshPut", "codePut", "plainPut"}
        /\ Stored(c, task[c][s].key, task[c][s].tok)
  /\ UNCHANGED <<live, json, config, gen, memo, token, window, call, legacy, now>>

(* #fetchAndCacheToken after the cache read, into #migrateLegacyTokenOrRefresh. *)
CacheRead(c) ==
  LET entries == UNION {cache[k] : k \in task[c]["pending"].key}
      good    == {e.tok : e \in Usable(c, entries)}
  IN /\ task[c]["pending"].pc = "cacheGet"
     /\ \/ /\ ConfigChanged(c, "pending")
           /\ SetTask(c, "pending", Fetching(c))
           /\ memo' = [memo EXCEPT ![c] = {CacheKey(c)}]
           /\ UNCHANGED token
        \/ /\ ~ConfigChanged(c, "pending")
           /\ UNCHANGED memo
           /\ token' = IF good = {} THEN token ELSE [token EXCEPT ![c] = good]
           /\ IF good # {} \/ SecretKeyMissing(c, entries)
              THEN Finish(c, "pending", good)
              ELSE SetTask(c, "pending",
                           IF gen[c] = 0
                           THEN At(c, "legacyGet", "fetch", {}, {})
                           ELSE Refreshing(c, "pending"))
     /\ UNCHANGED <<live, json, config, gen, window, call, cache, legacy, now>>

(* #migrateLegacyTokenOrRefresh after the legacy read, a failed one included. *)
LegacyRead(c) ==
  /\ task[c]["pending"].pc = "legacyGet"
  /\ \E entries \in {legacy, {}} :
       LET good == {e.tok : e \in Usable(c, entries)}
       IN \/ /\ ConfigChanged(c, "pending")
             /\ SetTask(c, "pending", Fetching(c))
             /\ memo' = [memo EXCEPT ![c] = {CacheKey(c)}]
             /\ UNCHANGED token
          \/ /\ ~ConfigChanged(c, "pending") /\ good # {}
             /\ token' = [token EXCEPT ![c] = good]
             /\ memo' = [memo EXCEPT ![c] = {CacheKey(c)}]
             /\ SetTask(c, "pending", At(c, "legacyPut", "fetch", {CacheKey(c)}, good))
          \/ /\ ~ConfigChanged(c, "pending") /\ good = {}
             /\ UNCHANGED <<token, memo>>
             /\ IF SecretKeyMissing(c, entries)
                THEN Finish(c, "pending", {})
                ELSE SetTask(c, "pending", Refreshing(c, "pending"))
  /\ UNCHANGED <<live, json, config, gen, window, call, cache, legacy, now>>

LegacyPersisted(c) ==
  /\ task[c]["pending"].pc = "legacyPut"
  /\ Stored(c, task[c]["pending"].key, task[c]["pending"].tok)
  /\ IF ConfigChanged(c, "pending")
     THEN /\ SetTask(c, "pending", Fetching(c))
          /\ memo' = [memo EXCEPT ![c] = {CacheKey(c)}]
     ELSE /\ Finish(c, "pending", task[c]["pending"].tok)
          /\ UNCHANGED memo
  /\ UNCHANGED <<live, json, config, gen, token, window, call, legacy, now>>

(* #refreshAccessTokenValue after the token endpoint answered. *)
RefreshReply(c, s) ==
  /\ task[c][s].pc = "refreshSend"
  /\ \/ /\ ConfigChanged(c, s)
        /\ SetTask(c, s, Refreshing(c, s))
        /\ UNCHANGED <<memo, token>>
     \/ /\ ~ConfigChanged(c, s)
        /\ \E l \in Lifetimes :
             LET new == {Granted(task[c][s].sent, l)}
             IN /\ token' = [token EXCEPT ![c] = new]
                /\ memo' = [memo EXCEPT ![c] = {CacheKey(c)}]
                /\ SetTask(c, s, IF task[c][s].run = "refresh"
                                 THEN Idle
                                 ELSE [task[c][s] EXCEPT !.pc = "refreshed",
                                         !.key = {CacheKey(c)}, !.tok = new])
  /\ UNCHANGED <<live, json, config, gen, window, call, cache, legacy, now>>

(* refreshAndPersistToken resumes a microtask later: only now it reads the
   generation it will compare after the put. *)
PersistRefreshed(c, s) ==
  /\ task[c][s].pc = "refreshed"
  /\ SetTask(c, s, [task[c][s] EXCEPT !.pc = "refreshPut", !.gen = gen[c]])
  /\ UNCHANGED <<live, json, config, gen, memo, token, window, call, cache, legacy, now>>

RefreshPersisted(c, s) ==
  /\ task[c][s].pc = "refreshPut"
  /\ Stored(c, task[c][s].key, task[c][s].tok)
  /\ IF ConfigChanged(c, s)
     THEN SetTask(c, s, Refreshing(c, s))
     ELSE Finish(c, s, task[c][s].tok)
  /\ UNCHANGED <<live, json, config, gen, memo, token, window, call, legacy, now>>

(* generateAccessToken after the token endpoint answered: the refresh token it
   brings goes through the setter. *)
CodeReply(c, s) ==
  /\ task[c][s].pc = "codeSend"
  /\ \/ /\ ConfigChanged(c, s)
        /\ Finish(c, s, {})
        /\ UNCHANGED <<json, config, gen, memo, token, window, call>>
     \/ /\ ~ConfigChanged(c, s)
        /\ \E v \in Values, l \in Lifetimes :
             LET granted == [task[c][s].sent EXCEPT !["refreshToken"] = v]
                 new     == {Granted(granted, l)}
                 key     == {KeyOf[Updated(c, "refreshToken", v)]}
             IN /\ Assign(c, "refreshToken", v)
                /\ token' = [token EXCEPT ![c] = new]
                /\ memo' = [memo EXCEPT ![c] = key]
                /\ SetTask(c, s, [pc |-> "codePut", run |-> "generate", gen |-> gen[c] + 1,
                                  sent |-> granted, key |-> key, tok |-> new])
  /\ UNCHANGED <<live, cache, legacy, now>>

(* generateAccessToken and putAccessTokenInCache after the put. *)
PutDone(c, s) ==
  /\ task[c][s].pc \in {"codePut", "plainPut"}
  /\ Stored(c, task[c][s].key, task[c][s].tok)
  /\ SetTask(c, s, Idle)
  /\ UNCHANGED <<live, json, config, gen, memo, token, window, call, legacy, now>>

(* Mutant: then() in place of finally(): a rejection is never cleared or told. *)
SettleFulfilled(c) ==
  /\ task[c]["pending"].pc = "settle"
  /\ task[c]["pending"].tok # {}
  /\ SetTask(c, "pending", Idle)
  /\ call' = [k \in Callers |->
                IF call[k].st = "waiting" /\ c \in call[k].conn
                THEN [call[k] EXCEPT !.st = "done", !.window = window[c],
                                     !.tok = task[c]["pending"].tok]
                ELSE call[k]]
  /\ UNCHANGED <<live, json, config, gen, memo, token, window, cache, legacy, now>>

(* finally() clears _pendingToken; every caller that joined gets the outcome. *)
Settle(c) ==
  /\ task[c]["pending"].pc = "settle"
  /\ SetTask(c, "pending", Idle)
  /\ call' = [k \in Callers |->
                IF call[k].st = "waiting" /\ c \in call[k].conn
                THEN [call[k] EXCEPT !.st = "done", !.window = window[c],
                                     !.tok = task[c]["pending"].tok]
                ELSE call[k]]
  /\ UNCHANGED <<live, json, config, gen, memo, token, window, cache, legacy, now>>

-----------------------------------------------------------------------------
(* Time, and an entry that leaves the cache: by its expiry, or by a delete() of the
   application on its segment. *)

Tick ==
  /\ now < MaxNow
  /\ now' = now + 1
  /\ UNCHANGED <<live, json, config, gen, memo, token, task, window, call, cache, legacy>>

Evict(k) ==
  /\ cache[k] # {}
  /\ cache' = [cache EXCEPT ![k] = {}]
  /\ UNCHANGED <<live, json, config, gen, memo, token, task, window, call, legacy, now>>

-----------------------------------------------------------------------------
Continue(c, s) ==
  \/ Reject(c, s)
  \/ RefreshReply(c, s)
  \/ PersistRefreshed(c, s)
  \/ RefreshPersisted(c, s)
  \/ CodeReply(c, s)
  \/ PutDone(c, s)

ContinueFetch(c) ==
  \/ CacheRead(c)
  \/ LegacyRead(c)
  \/ LegacyPersisted(c)
  \/ Settle(c)

Next ==
  \/ \E c \in Connectors : GetConnector(c)
  \/ \E c \in Connectors, f \in Fields, v \in Values : SetField(c, f, v)
  \/ \E c \in Connectors, k \in Callers : GetAccessToken(c, k)
  \/ \E c \in Connectors, s \in Ops :
       StartRefresh(c, s) \/ StartGenerate(c, s) \/ StartPut(c, s)
  \/ \E c \in Connectors : ContinueFetch(c)
  \/ \E c \in Connectors, s \in Slots : Continue(c, s)
  \/ Tick
  \/ \E k \in Keys : Evict(k)

Spec == Init /\ [][Next]_vars

(* The servers answer or fail every request, and the event loop resumes what
   they answered. *)
Fairness ==
  \A c \in Connectors :
    /\ WF_vars(ContinueFetch(c) \/ Continue(c, "pending"))
    /\ \A s \in Ops : WF_vars(Continue(c, s))

FairSpec == Spec /\ Fairness

-----------------------------------------------------------------------------
TypeOK ==
  /\ live \subseteq Connectors
  /\ json \in Configs
  /\ config \in [Connectors -> Configs]
  /\ gen \in [Connectors -> Nat]
  /\ memo \in [Connectors -> SUBSET Keys]
  /\ token \in [Connectors -> SUBSET Token]
  /\ task \in [Connectors -> [Slots -> Task]]
  /\ window \in [Connectors -> SUBSET Configs]
  /\ call \in [Callers -> Call]
  /\ cache \in [Keys -> SUBSET Entry]
  /\ legacy \in SUBSET Entry
  /\ now \in Nat

(* A token in memory belongs to the configuration the connector has now: no
   setter, retry or late reply leaves the token of an earlier one behind. *)
MemoryMatchesConfig ==
  \A c \in Connectors : \A t \in token[c] : t.config = config[c]

(* The cache never answers for one configuration with the token of another,
   whichever of the overlapping calls wrote last. *)
CacheMatchesKey ==
  \A k \in Keys : \A e \in cache[k] : KeyOf[e.tok.config] = k

(* A token handed to a caller belongs to a configuration that the connector
   held while the fetch that produced it was under way. *)
ServedWithinFetch ==
  \A k \in Callers : \A t \in call[k].tok : t.config \in call[k].window

(* "so a stale token is never served after a config change": a token handed to
   a caller belongs to a configuration held since that caller asked. *)
NeverServedStale ==
  \A k \in Callers : \A t \in call[k].tok : t.config \in call[k].seen

(* The fetch of each connector and its callers, as TokenService sees them. *)
Fetch  == [c \in Connectors |-> IF task[c]["pending"].pc = "idle" THEN {} ELSE window[c]]
Caller == [k \in Callers |-> [st |-> call[k].st, conn |-> call[k].conn, tok |-> call[k].tok]]

Service == INSTANCE TokenService WITH fetch <- Fetch, caller <- Caller

(* getAccessToken() implements TokenService: callers that overlap share one fetch and its
   outcome, none waits for a fetch that is not running, and a token is of a configuration
   the connector had while its fetch ran, or has now. *)
ServesCallers == Service!Spec

(* Every call of getAccessToken() settles. *)
CallsSettle ==
  \A k \in Callers : call[k].st = "waiting" ~> call[k].st # "waiting"
-----------------------------------------------------------------------------
(* The inductive invariant behind MemoryMatchesConfig, CacheMatchesKey,
   ServedWithinFetch and ServesCallers. *)

(* The memoized key is the key of the current configuration. *)
MemoIsCurrent == \A c \in Connectors : memo[c] \subseteq {KeyOf[config[c]]}

(* A call whose generation is still current sent the current configuration, and
   looked up that configuration's key; only one that never changed reads the
   pre-hash entry. *)
Pinned(c, t) ==
  /\ t.gen <= gen[c]
  /\ t.pc \in {"cacheGet", "legacyGet", "refreshSend", "codeSend"} /\ t.gen = gen[c]
        => t.sent = config[c]
  /\ t.pc = "cacheGet" => t.key = {KeyOf[t.sent]}
  /\ t.pc = "legacyGet" => t.gen = 0

(* What is on its way to the cache belongs to the key it is written under. *)
Coherent(t) ==
  t.pc \in {"legacyPut", "refreshed", "refreshPut", "codePut", "plainPut"} =>
    \A x \in t.tok : t.key \subseteq {KeyOf[x.config]}

(* The pending slot only fetches, and the window of the fetch holds the current
   configuration and its token's. *)
Covered(c, t) ==
  /\ t.run = "fetch"
  /\ t.pc \notin {"codeSend", "codePut", "plainPut"}
  /\ t.pc # "idle" => config[c] \in window[c] /\ \A x \in t.tok : x.config \in window[c]

RequestIsPinned   == \A c \in Connectors : \A s \in Slots : Pinned(c, task[c][s])
WriteIsCoherent   == \A c \in Connectors : \A s \in Slots : Coherent(task[c][s])
WindowCoversFetch == \A c \in Connectors : Covered(c, task[c]["pending"])

(* Who waits, waits for a fetch that is running. *)
NobodyStranded ==
  \A k \in Callers : call[k].st = "waiting" =>
    \A c \in call[k].conn : task[c]["pending"].pc # "idle"

(* A connector not yet created has done nothing. *)
UnbornIsIdle ==
  \A c \in Connectors \ live :
    token[c] = {} /\ memo[c] = {} /\ \A s \in Slots : task[c][s] = Idle

(* A connector that trusts the pre-hash entry has the configuration it stems from. *)
LegacyIsSafe ==
  \A e \in legacy :
    /\ Late = {}
    /\ e.tok.config = InitialConfig
    /\ \A c \in Connectors : gen[c] = 0 => config[c] = InitialConfig

(* What the deployment must respect for the pre-hash entry to be safe. *)
LegacyOnlyFromStart == LegacyConfigs = {} \/ (LegacyConfigs = {InitialConfig} /\ Late = {})

IInv ==
  /\ TypeOK
  /\ MemoIsCurrent
  /\ RequestIsPinned
  /\ WriteIsCoherent
  /\ UnbornIsIdle
  /\ LegacyIsSafe
  /\ MemoryMatchesConfig
  /\ CacheMatchesKey
  /\ WindowCoversFetch
  /\ ServedWithinFetch
  /\ NobodyStranded
=============================================================================
