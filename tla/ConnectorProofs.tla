--------------------------- MODULE ConnectorProofs ---------------------------
(***************************************************************************)
(* Proofs about Connector, for any connectors, callers, configurations,    *)
(* lifetimes and bounds: whose tokens memory, cache and callers get, and   *)
(* that Connector implements TokenService.                                 *)
(***************************************************************************)
EXTENDS Connector, TLAPS

(* The key a connector computes is one of the cache's keys. *)
LEMMA CacheKeyType ==
  ASSUME TypeOK, NEW c \in Connectors
  PROVE  CacheKey(c) \in Keys
<1>1. CASE memo[c] # {}
  BY <1>1 DEF CacheKey, TypeOK
<1>2. CASE memo[c] = {}
  BY <1>2 DEF CacheKey, TypeOK, Keys
<1> QED BY <1>1, <1>2

LEMMA MemoType ==
  ASSUME TypeOK, NEW c \in Connectors
  PROVE  [memo EXCEPT ![c] = {CacheKey(c)}] \in [Connectors -> SUBSET Keys]
<1>1. {CacheKey(c)} \in SUBSET Keys
  BY CacheKeyType
<1> QED BY <1>1 DEF TypeOK

LEMMA IdleType == Idle \in Task
  BY ConnectorAssumption DEF Idle, Task, Pcs, Runs

LEMMA AtType ==
  ASSUME TypeOK, NEW c \in Connectors, NEW pc \in Pcs, NEW run \in Runs,
         NEW key \in SUBSET Keys, NEW toks \in SUBSET Token
  PROVE  At(c, pc, run, key, toks) \in Task
  BY DEF At, Task, TypeOK

LEMMA FetchingType ==
  ASSUME TypeOK, NEW c \in Connectors
  PROVE  Fetching(c) \in Task
  BY CacheKeyType, AtType DEF Fetching, Pcs, Runs

LEMMA RefreshingType ==
  ASSUME TypeOK, NEW c \in Connectors, NEW s \in Slots
  PROVE  Refreshing(c, s) \in Task
<1>1. task[c][s].run \in Runs
  BY DEF TypeOK, Task
<1> QED BY <1>1, AtType DEF Refreshing, Pcs

(* Replacing one slot by a task keeps the slots well typed. *)
LEMMA SetTaskType ==
  ASSUME TypeOK, NEW c \in Connectors, NEW s \in Slots, NEW t \in Task, SetTask(c, s, t)
  PROVE  task' \in [Connectors -> [Slots -> Task]]
  BY DEF SetTask, TypeOK

(* Only that slot changes. *)
LEMMA SetTaskValue ==
  ASSUME TypeOK, NEW c \in Connectors, NEW s \in Slots, NEW t, SetTask(c, s, t)
  PROVE  \A d \in Connectors, r \in Slots :
           task'[d][r] = IF d = c /\ r = s THEN t ELSE task[d][r]
  BY DEF SetTask, TypeOK

LEMMA FinishType ==
  ASSUME TypeOK, NEW c \in Connectors, NEW s \in Slots, NEW toks \in SUBSET Token,
         Finish(c, s, toks)
  PROVE  task' \in [Connectors -> [Slots -> Task]]
<1>1. At(c, "settle", "fetch", {}, toks) \in Task
  BY AtType DEF Pcs, Runs
<1> QED BY <1>1, IdleType, SetTaskType DEF Finish

LEMMA StoredType ==
  ASSUME TypeOK, NEW c \in Connectors, NEW s \in Slots,
         Stored(c, task[c][s].key, task[c][s].tok)
  PROVE  cache' \in [Keys -> SUBSET Entry]
<1>1. task[c][s].tok \in SUBSET Token
  BY DEF TypeOK, Task
<1> QED BY <1>1 DEF Stored, TypeOK, Entry

LEMMA AssignType ==
  ASSUME TypeOK, NEW c \in Connectors, NEW f \in Fields, NEW v \in Values, Assign(c, f, v)
  PROVE  /\ gen' \in [Connectors -> Nat]
         /\ config' \in [Connectors -> Configs]
         /\ json' \in Configs
         /\ window' \in [Connectors -> SUBSET Configs]
         /\ call' \in [Callers -> Call]
<1>1. Updated(c, f, v) \in Configs
  BY DEF Updated, TypeOK, Configs
<1>2. \A k \in Callers : [call[k] EXCEPT !.seen = @ \cup {Updated(c, f, v)}] \in Call
  BY <1>1 DEF TypeOK, Call
<1> QED BY <1>1, <1>2 DEF Assign, TypeOK, Configs

LEMMA TypeInit == Init => TypeOK
<1> SUFFICES ASSUME Init PROVE TypeOK
  OBVIOUS
<1> USE ConnectorAssumption DEF Init
<1>1. live \subseteq Connectors /\ json \in Configs /\ now \in Nat
  BY DEF Connectors
<1>2. /\ config \in [Connectors -> Configs]
      /\ gen \in [Connectors -> Nat]
      /\ memo \in [Connectors -> SUBSET Keys]
      /\ token \in [Connectors -> SUBSET Token]
      /\ window \in [Connectors -> SUBSET Configs]
      /\ cache \in [Keys -> SUBSET Entry]
  OBVIOUS
<1>3. task \in [Connectors -> [Slots -> Task]]
  BY IdleType
<1>4. call \in [Callers -> Call]
  BY DEF NoCall, Call
<1>5. legacy \in SUBSET Entry
  <2>1. CASE legacy = {}
    BY <2>1
  <2>2. CASE legacy # {}
    <3>1. PICK cfg \in LegacyConfigs, l \in Lifetimes, x \in {Secret[c] : c \in Connectors} :
            legacy = {[tok |-> [config |-> cfg, exp |-> l], secret |-> x]}
      BY <2>2
    <3>2. [config |-> cfg, exp |-> l] \in Token
      BY DEF Token
    <3> QED BY <3>1, <3>2 DEF Entry
  <2> QED BY <2>1, <2>2
<1> QED BY <1>1, <1>2, <1>3, <1>4, <1>5 DEF TypeOK

(* Every step keeps the types, action by action. *)
LEMMA TypeStep == TypeOK /\ [Next]_vars => TypeOK'
<1> SUFFICES ASSUME TypeOK, [Next]_vars PROVE TypeOK'
  OBVIOUS
<1> USE DEF TypeOK
<1>1. ASSUME NEW c \in Connectors, GetConnector(c) PROVE TypeOK'
  BY <1>1 DEF GetConnector
<1>2. ASSUME NEW c \in Connectors, NEW f \in Fields, NEW v \in Values, SetField(c, f, v)
      PROVE  TypeOK'
  BY <1>2, AssignType DEF SetField, InvalidateCache
<1>3. ASSUME NEW c \in Connectors, NEW k \in Callers, GetAccessToken(c, k) PROVE TypeOK'
  <2>1. "pending" \in Slots
    BY DEF Slots
  <2>2. task' \in [Connectors -> [Slots -> Task]]
    BY <1>3, <2>1, FetchingType, SetTaskType DEF GetAccessToken
  <2>3. /\ [st |-> "done", conn |-> {c}, seen |-> {config[c]}, window |-> {config[c]},
             tok |-> token[c]] \in Call
        /\ [st |-> "waiting", conn |-> {c}, seen |-> {config[c]}, window |-> {},
             tok |-> {}] \in Call
    BY DEF Call
  <2>4. call' \in [Callers -> Call]
    BY <1>3, <2>3 DEF GetAccessToken
  <2>5. memo' \in [Connectors -> SUBSET Keys]
    BY <1>3, MemoType DEF GetAccessToken
  <2>6. window' \in [Connectors -> SUBSET Configs]
    BY <1>3 DEF GetAccessToken
  <2> QED BY <1>3, <2>2, <2>4, <2>5, <2>6 DEF GetAccessToken
<1>4. ASSUME NEW c \in Connectors, NEW s \in Ops,
             StartRefresh(c, s) \/ StartGenerate(c, s) \/ StartPut(c, s)
      PROVE  TypeOK'
  <2>1. s \in Slots
    BY DEF Slots
  <2>2. CASE StartRefresh(c, s) \/ StartGenerate(c, s)
    <3>1. PICK run \in {"refreshAndPersist", "refresh", "generate"},
               pc \in {"refreshSend", "codeSend"} : StartRequest(c, s, run, pc)
      BY <2>2 DEF StartRefresh, StartGenerate
    <3>2. At(c, pc, run, {}, {}) \in Task
      BY <3>1, AtType DEF Pcs, Runs
    <3> QED BY <2>1, <3>1, <3>2, SetTaskType DEF StartRequest
  <2>3. CASE StartPut(c, s)
    <3>1. At(c, "plainPut", "put", {CacheKey(c)}, token[c]) \in Task
      BY CacheKeyType, AtType DEF Pcs, Runs
    <3> QED BY <2>1, <2>3, <3>1, CacheKeyType, SetTaskType DEF StartPut
  <2> QED BY <1>4, <2>2, <2>3
<1>5. ASSUME NEW c \in Connectors, ContinueFetch(c) PROVE TypeOK'
  <2>1. "pending" \in Slots
    BY DEF Slots
  <2>2. CASE CacheRead(c)
    <3> DEFINE entries == UNION {cache[k] : k \in task[c]["pending"].key}
    <3> DEFINE good == {e.tok : e \in Usable(c, entries)}
    <3>1. task[c]["pending"].key \subseteq Keys
      BY <2>1 DEF Task
    <3>2. entries \subseteq Entry
      BY <3>1
    <3>3. good \in SUBSET Token
      BY <3>2 DEF Usable, Entry
    <3>4. At(c, "legacyGet", "fetch", {}, {}) \in Task
      BY AtType DEF Pcs, Runs
    <3> HIDE DEF good, entries
    <3>5. task' \in [Connectors -> [Slots -> Task]]
      BY <2>1, <2>2, <3>3, <3>4, FetchingType, RefreshingType, SetTaskType, FinishType
      DEF CacheRead, good, entries
    <3>6. memo' \in [Connectors -> SUBSET Keys]
      BY <2>2, MemoType DEF CacheRead
    <3>7. token' \in [Connectors -> SUBSET Token]
      BY <2>2, <3>3 DEF CacheRead, good, entries
    <3> QED BY <2>2, <3>5, <3>6, <3>7 DEF CacheRead
  <2>3. CASE LegacyRead(c)
    <3>1. PICK entries \in {legacy, {}} : LegacyRead(c)!2!(entries)
      BY <2>3 DEF LegacyRead
    <3> DEFINE good == {e.tok : e \in Usable(c, entries)}
    <3>2. good \in SUBSET Token
      BY DEF Usable, Entry
    <3>3. At(c, "legacyPut", "fetch", {CacheKey(c)}, good) \in Task
      BY <3>2, CacheKeyType, AtType DEF Pcs, Runs
    <3> HIDE DEF good
    <3>4. task' \in [Connectors -> [Slots -> Task]]
      BY <2>1, <3>1, <3>2, <3>3, FetchingType, RefreshingType, SetTaskType, FinishType DEF good
    <3>5. memo' \in [Connectors -> SUBSET Keys]
      BY <3>1, MemoType
    <3>6. token' \in [Connectors -> SUBSET Token]
      BY <3>1, <3>2 DEF good
    <3> QED BY <2>3, <3>4, <3>5, <3>6 DEF LegacyRead
  <2>4. CASE LegacyPersisted(c)
    <3>1. task[c]["pending"].tok \in SUBSET Token
      BY <2>1 DEF Task
    <3>2. task' \in [Connectors -> [Slots -> Task]]
      BY <2>1, <2>4, <3>1, FetchingType, SetTaskType, FinishType DEF LegacyPersisted
    <3>3. cache' \in [Keys -> SUBSET Entry]
      BY <2>1, <2>4, StoredType DEF LegacyPersisted
    <3> QED BY <2>4, <3>2, <3>3, MemoType DEF LegacyPersisted
  <2>5. CASE Settle(c)
    <3>1. task[c]["pending"].tok \in SUBSET Token
      BY <2>1 DEF Task
    <3>2. \A k \in Callers : [call[k] EXCEPT !.st = "done", !.window = window[c],
                                             !.tok = task[c]["pending"].tok] \in Call
      BY <3>1 DEF Call
    <3> QED BY <2>1, <2>5, <3>2, IdleType, SetTaskType DEF Settle
  <2> QED BY <1>5, <2>2, <2>3, <2>4, <2>5 DEF ContinueFetch
<1>6. ASSUME NEW c \in Connectors, NEW s \in Slots, Continue(c, s) PROVE TypeOK'
  <2>1. task[c][s] \in Task
    OBVIOUS
  <2>2. CASE Reject(c, s)
    <3>1. task' \in [Connectors -> [Slots -> Task]]
      BY <2>2, FinishType DEF Reject
    <3>2. cache' \in [Keys -> SUBSET Entry]
      BY <2>2, StoredType DEF Reject
    <3> QED BY <2>2, <3>1, <3>2 DEF Reject
  <2>3. CASE RefreshReply(c, s)
    <3>1. CASE ConfigChanged(c, s)
      BY <2>3, <3>1, RefreshingType, SetTaskType DEF RefreshReply
    <3>2. CASE ~ConfigChanged(c, s)
      <4>1. PICK l \in Lifetimes : RefreshReply(c, s)!2!2!2!(l)
        BY <2>3, <3>2 DEF RefreshReply
      <4> DEFINE new == {Granted(task[c][s].sent, l)}
      <4>2. new \in SUBSET Token
        BY <2>1, ConnectorAssumption DEF Granted, Token, Task
      <4> HIDE DEF new
      <4>3. [task[c][s] EXCEPT !.pc = "refreshed", !.key = {CacheKey(c)}, !.tok = new] \in Task
        BY <2>1, <4>2, CacheKeyType DEF Task, Pcs
      <4>4. task' \in [Connectors -> [Slots -> Task]]
        BY <4>1, <4>3, IdleType, SetTaskType DEF new
      <4> QED BY <2>3, <4>1, <4>2, <4>4, MemoType DEF RefreshReply, new
    <3> QED BY <3>1, <3>2
  <2>4. CASE PersistRefreshed(c, s)
    <3>1. [task[c][s] EXCEPT !.pc = "refreshPut", !.gen = gen[c]] \in Task
      BY <2>1 DEF Task, Pcs
    <3> QED BY <2>4, <3>1, SetTaskType DEF PersistRefreshed
  <2>5. CASE RefreshPersisted(c, s)
    <3>1. task' \in [Connectors -> [Slots -> Task]]
      BY <2>1, <2>5, RefreshingType, SetTaskType, FinishType DEF RefreshPersisted, Task
    <3>2. cache' \in [Keys -> SUBSET Entry]
      BY <2>5, StoredType DEF RefreshPersisted
    <3> QED BY <2>5, <3>1, <3>2 DEF RefreshPersisted
  <2>6. CASE CodeReply(c, s)
    <3>1. CASE ConfigChanged(c, s)
      BY <2>6, <3>1, FinishType DEF CodeReply
    <3>2. CASE ~ConfigChanged(c, s)
      <4>1. PICK v \in Values, l \in Lifetimes : CodeReply(c, s)!2!2!2!(v, l)
        BY <2>6, <3>2 DEF CodeReply
      <4> DEFINE granted == [task[c][s].sent EXCEPT !["refreshToken"] = v]
      <4> DEFINE new == {Granted(granted, l)}
      <4> DEFINE key == {KeyOf[Updated(c, "refreshToken", v)]}
      <4>2. granted \in Configs
        BY <2>1 DEF Task, Configs
      <4>3. new \in SUBSET Token
        BY <4>2, ConnectorAssumption DEF Granted, Token
      <4>4. key \in SUBSET Keys
        BY DEF Updated, Keys, Configs
      <4>5. [pc |-> "codePut", run |-> "generate", gen |-> gen[c] + 1,
             sent |-> granted, key |-> key, tok |-> new] \in Task
        BY <4>2, <4>3, <4>4 DEF Task, Pcs, Runs
      <4> HIDE DEF granted, new, key
      <4>6. task' \in [Connectors -> [Slots -> Task]]
        BY <4>1, <4>5, SetTaskType DEF granted, new, key
      <4>7. /\ memo' \in [Connectors -> SUBSET Keys]
            /\ token' \in [Connectors -> SUBSET Token]
        BY <4>1, <4>3, <4>4 DEF granted, new, key
      <4>8. Assign(c, "refreshToken", v) /\ "refreshToken" \in Fields
        BY <4>1, ConnectorAssumption
      <4> QED BY <2>6, <4>6, <4>7, <4>8, AssignType DEF CodeReply
    <3> QED BY <3>1, <3>2
  <2>7. CASE PutDone(c, s)
    BY <2>7, IdleType, SetTaskType, StoredType DEF PutDone
  <2> QED BY <1>6, <2>2, <2>3, <2>4, <2>5, <2>6, <2>7 DEF Continue
<1>7. CASE Tick
  BY <1>7 DEF Tick
<1>8. ASSUME NEW k \in Keys, Evict(k) PROVE TypeOK'
  BY <1>8 DEF Evict
<1>9. CASE UNCHANGED vars
  BY <1>9 DEF vars
<1> QED BY <1>1, <1>2, <1>3, <1>4, <1>5, <1>6, <1>7, <1>8, <1>9 DEF Next

(* The fields of every connector, call and cache entry keep their types. *)
THEOREM TypeCorrect == Spec => []TypeOK
BY TypeInit, TypeStep, PTL DEF Spec
-----------------------------------------------------------------------------
(* The inductive invariant, under distinct keys and a safe pre-hash entry. *)

LEMMA CacheKeyIsCurrent ==
  ASSUME TypeOK, MemoIsCurrent, NEW c \in Connectors
  PROVE  CacheKey(c) = KeyOf[config[c]]
BY DEF CacheKey, MemoIsCurrent, TypeOK

LEMMA FoundIsCurrent ==
  ASSUME IInv, KeysDistinct, NEW c \in Connectors,
         task[c]["pending"].pc = "cacheGet", ~ConfigChanged(c, "pending"),
         NEW t, NEW entries,
         entries = UNION {cache[k] : k \in task[c]["pending"].key},
         t \in {e.tok : e \in Usable(c, entries)}
  PROVE  t.config = config[c]
<1>1. "pending" \in Slots
  BY DEF Slots
<1>2. PICK e \in Usable(c, entries) : t = e.tok
  OBVIOUS
<1>3. PICK k \in task[c]["pending"].key : e \in cache[k]
  BY <1>2 DEF Usable
<1>4. k = KeyOf[config[c]]
  BY <1>1, <1>3 DEF IInv, RequestIsPinned, Pinned, ConfigChanged
<1>5. k \in Keys /\ config[c] \in Configs
  BY <1>1, <1>3 DEF IInv, TypeOK, Task
<1>6. KeyOf[e.tok.config] = k /\ e.tok.config \in Configs
  BY <1>3, <1>5 DEF IInv, CacheMatchesKey, TypeOK, Entry, Token
<1> QED BY <1>2, <1>4, <1>5, <1>6 DEF KeysDistinct

LEMMA InvInit == ASSUME LegacyOnlyFromStart PROVE Init => IInv
<1> SUFFICES ASSUME Init PROVE IInv
  OBVIOUS
<1>1. TypeOK
  BY TypeInit
<1>2. LegacyIsSafe
  BY DEF Init, LegacyIsSafe, LegacyOnlyFromStart
<1>3. RequestIsPinned /\ WriteIsCoherent /\ WindowCoversFetch
  BY DEF Init, Idle, RequestIsPinned, WriteIsCoherent, WindowCoversFetch, Slots,
         Pinned, Coherent, Covered
<1>4. MemoIsCurrent /\ MemoryMatchesConfig /\ CacheMatchesKey /\ UnbornIsIdle
  BY DEF Init, MemoIsCurrent, MemoryMatchesConfig, CacheMatchesKey, UnbornIsIdle
<1>5. ServedWithinFetch /\ NobodyStranded
  BY DEF Init, NoCall, ServedWithinFetch, NobodyStranded
<1> QED BY <1>1, <1>2, <1>3, <1>4, <1>5 DEF IInv

(* A step that replaces one task, and touches the memory of its connector only to
   put there a token and a key of the current configuration, keeps every part of
   the invariant about connectors. *)
LEMMA TaskStep ==
  ASSUME IInv, NEW c \in Connectors, NEW s \in Slots, NEW t,
         SetTask(c, s, t), c \in live,
         Pinned(c, t), Coherent(t), s = "pending" => Covered(c, t),
         UNCHANGED <<live, config, gen, window, legacy>>,
         memo' = memo \/ memo' = [memo EXCEPT ![c] = {CacheKey(c)}],
         \/ UNCHANGED token
         \/ /\ \A d \in Connectors : d # c => token'[d] = token[d]
            /\ \A x \in token'[c] : x.config = config[c]
  PROVE  /\ MemoIsCurrent' /\ MemoryMatchesConfig' /\ UnbornIsIdle' /\ LegacyIsSafe'
         /\ RequestIsPinned' /\ WriteIsCoherent' /\ WindowCoversFetch'
         /\ UNCHANGED call /\ (s = "pending" => t.pc # "idle") => NobodyStranded'
<1>1. TypeOK
  BY DEF IInv
<1>2. \A d \in Connectors, r \in Slots :
        task'[d][r] = IF d = c /\ r = s THEN t ELSE task[d][r]
  BY <1>1, SetTaskValue
<1>3. \A d \in Connectors :
        /\ memo'[d] = memo[d] \/ (d = c /\ memo'[d] = {KeyOf[config[c]]})
        /\ token'[d] = token[d] \/ (d = c /\ \A x \in token'[d] : x.config = config[c])
  <2>1. CacheKey(c) = KeyOf[config[c]]
    BY <1>1, CacheKeyIsCurrent DEF IInv
  <2> QED BY <1>1, <2>1 DEF TypeOK
<1>4. MemoIsCurrent'
  BY <1>3 DEF IInv, MemoIsCurrent
<1>5. MemoryMatchesConfig'
  BY <1>3 DEF IInv, MemoryMatchesConfig
<1>6. UnbornIsIdle'
  BY <1>2, <1>3 DEF IInv, UnbornIsIdle
<1>7. LegacyIsSafe'
  BY DEF IInv, LegacyIsSafe
<1>8. \A d \in Connectors, r \in Slots : Pinned(d, task'[d][r]) /\ Coherent(task'[d][r])
  BY <1>2 DEF IInv, RequestIsPinned, WriteIsCoherent
<1>9. RequestIsPinned' /\ WriteIsCoherent'
  BY <1>8 DEF RequestIsPinned, WriteIsCoherent, Pinned, Coherent
<1>10. \A d \in Connectors : Covered(d, task'[d]["pending"])
  BY <1>2 DEF IInv, WindowCoversFetch, Slots
<1>11. WindowCoversFetch'
  BY <1>10 DEF WindowCoversFetch, Covered
<1>12. ASSUME UNCHANGED call, s = "pending" => t.pc # "idle"
       PROVE  NobodyStranded'
  <2>1. \A d \in Connectors : task[d]["pending"].pc # "idle" => task'[d]["pending"].pc # "idle"
    BY <1>2, <1>12 DEF Slots
  <2>2. \A k \in Callers : call[k].conn \subseteq Connectors
    BY <1>1 DEF TypeOK, Call
  <2> QED BY <1>12, <2>1, <2>2 DEF IInv, NobodyStranded
<1> QED BY <1>4, <1>5, <1>6, <1>7, <1>9, <1>11, <1>12

(* The tasks the code puts in a slot satisfy what TaskStep asks of them. *)
LEMMA NewTasks ==
  ASSUME IInv, NEW c \in Connectors
  PROVE  /\ Pinned(c, Idle) /\ Coherent(Idle) /\ Covered(c, Idle)
         /\ Pinned(c, Fetching(c)) /\ Coherent(Fetching(c))
         /\ \A s \in Slots : Pinned(c, Refreshing(c, s)) /\ Coherent(Refreshing(c, s))
         /\ \A pc, run, toks : pc \notin {"cacheGet", "legacyGet"} => Pinned(c, At(c, pc, run, {}, toks))
         /\ gen[c] = 0 => Pinned(c, At(c, "legacyGet", "fetch", {}, {}))
         /\ \A pc, run, toks : Coherent(At(c, pc, run, {}, toks))
         /\ config[c] \in window[c] =>
              /\ Covered(c, Fetching(c)) /\ Covered(c, Refreshing(c, "pending"))
              /\ \A pc \in {"settle", "legacyGet", "legacyPut"} : \A key, toks :
                   (\A x \in toks : x.config \in window[c]) =>
                     Covered(c, At(c, pc, "fetch", key, toks))
         /\ Fetching(c).pc # "idle" /\ \A s \in Slots : Refreshing(c, s).pc # "idle"
         /\ \A pc, run, key, toks : At(c, pc, run, key, toks).pc = pc
<1>1. gen[c] \in Nat
  BY DEF IInv, TypeOK
<1>2. Pinned(c, Idle) /\ Coherent(Idle) /\ Covered(c, Idle)
  BY <1>1 DEF Idle, Pinned, Coherent, Covered
<1>3. CacheKey(c) = KeyOf[config[c]]
  BY CacheKeyIsCurrent DEF IInv
<1>4. Pinned(c, Fetching(c)) /\ Coherent(Fetching(c))
  BY <1>1, <1>3 DEF Fetching, At, Pinned, Coherent
<1>5. \A s \in Slots : Pinned(c, Refreshing(c, s)) /\ Coherent(Refreshing(c, s))
  BY <1>1 DEF Refreshing, At, Pinned, Coherent
<1>6. \A pc, run, toks : pc \notin {"cacheGet", "legacyGet"} => Pinned(c, At(c, pc, run, {}, toks))
  BY <1>1 DEF At, Pinned
<1>9. gen[c] = 0 => Pinned(c, At(c, "legacyGet", "fetch", {}, {}))
  BY DEF At, Pinned
<1>7. \A pc, run, toks : Coherent(At(c, pc, run, {}, toks))
  BY DEF At, Coherent
<1>8. ASSUME config[c] \in window[c]
      PROVE  /\ Covered(c, Fetching(c)) /\ Covered(c, Refreshing(c, "pending"))
             /\ \A pc \in {"settle", "legacyGet", "legacyPut"} : \A key, toks :
                  (\A x \in toks : x.config \in window[c]) =>
                    Covered(c, At(c, pc, "fetch", key, toks))
  <2>1. task[c]["pending"].run = "fetch"
    BY DEF IInv, WindowCoversFetch, Covered
  <2> QED BY <1>8, <2>1 DEF Fetching, Refreshing, At, Covered
<1>10. /\ Fetching(c).pc # "idle" /\ \A s \in Slots : Refreshing(c, s).pc # "idle"
       /\ \A pc, run, key, toks : At(c, pc, run, key, toks).pc = pc
  BY DEF Fetching, Refreshing, At
<1> QED BY <1>2, <1>4, <1>5, <1>6, <1>7, <1>8, <1>9, <1>10

(* A task under way belongs to a live connector; a pending one is covered. *)
LEMMA Running ==
  ASSUME IInv, NEW c \in Connectors, NEW s \in Slots, task[c][s].pc # "idle"
  PROVE  c \in live /\ (s = "pending" => config[c] \in window[c])
BY DEF IInv, UnbornIsIdle, Idle, WindowCoversFetch, Covered

(* A write that was under way leaves the cache coherent. *)
LEMMA StoredCoherent ==
  ASSUME IInv, NEW c \in Connectors, NEW s \in Slots, Stored(c, task[c][s].key, task[c][s].tok),
         task[c][s].pc \in {"legacyPut", "refreshPut", "codePut", "plainPut"}
  PROVE  CacheMatchesKey'
<1>1. Coherent(task[c][s])
  BY DEF IInv, WriteIsCoherent
<1>2. ASSUME NEW k \in Keys, NEW e \in cache'[k] PROVE KeyOf[e.tok.config] = k
  <2>1. CASE k \in task[c][s].key
    BY <1>1, <1>2, <2>1 DEF Stored, Coherent
  <2>2. CASE k \notin task[c][s].key
    BY <1>2, <2>2 DEF Stored, IInv, CacheMatchesKey
  <2> QED BY <2>1, <2>2
<1> QED BY <1>2 DEF CacheMatchesKey

(* Calls of getAccessToken() not touched stay within their fetch. *)
LEMMA CallsKept == IInv /\ UNCHANGED call => ServedWithinFetch'
BY DEF IInv, ServedWithinFetch

LEMMA CacheKept == IInv /\ UNCHANGED cache => CacheMatchesKey'
BY DEF IInv, CacheMatchesKey
LEMMA InvGetConnector ==
  ASSUME IInv, TypeOK', NEW c \in Connectors, GetConnector(c)
  PROVE  IInv'
<1> USE DEF GetConnector
<1>1. c \in Connectors \ live /\ Late # {}
  BY DEF Connectors
<1>2. \A d \in Connectors : d # c => config'[d] = config[d]
  BY DEF IInv, TypeOK
<1>3. MemoIsCurrent' /\ MemoryMatchesConfig'
  BY <1>1, <1>2 DEF IInv, MemoIsCurrent, MemoryMatchesConfig, UnbornIsIdle
<1>4. UnbornIsIdle'
  BY DEF IInv, UnbornIsIdle
<1>5. RequestIsPinned' /\ WindowCoversFetch'
  <2>1. \A s \in Slots : task[c][s].pc = "idle"
    BY <1>1 DEF IInv, UnbornIsIdle, Idle
  <2>2. "pending" \in Slots
    BY DEF Slots
  <2> QED BY <1>2, <2>1, <2>2
      DEF IInv, RequestIsPinned, Pinned, WindowCoversFetch, Covered
<1>6. LegacyIsSafe'
  BY <1>1 DEF IInv, LegacyIsSafe
<1>7. WriteIsCoherent' /\ CacheMatchesKey' /\ ServedWithinFetch' /\ NobodyStranded'
  BY CallsKept, CacheKept DEF IInv, WriteIsCoherent, NobodyStranded
<1> QED BY <1>3, <1>4, <1>5, <1>6, <1>7 DEF IInv

(* What a change of configuration keeps, whatever the task of one slot becomes. *)
LEMMA AssignStep ==
  ASSUME IInv, TypeOK', NEW c \in Connectors, NEW f \in Fields, NEW v \in Values, Assign(c, f, v),
         c \in live, UNCHANGED <<live, cache, legacy>>,
         \A d \in Connectors : d # c => memo'[d] = memo[d] /\ token'[d] = token[d],
         \A x \in token'[c] : x.config = Updated(c, f, v),
         memo'[c] \subseteq {KeyOf[Updated(c, f, v)]},
         NEW s \in Slots, NEW t, SetTask(c, s, t), Coherent(t),
         t = task[c][s] \/ (s # "pending" /\ t.pc \notin {"cacheGet", "legacyGet", "refreshSend",
                                                       "codeSend"} /\ t.gen = gen'[c])
  PROVE  IInv'
<1>1. /\ \A d \in Connectors : d # c => config'[d] = config[d] /\ gen'[d] = gen[d]
                                      /\ window'[d] = window[d]
      /\ config'[c] = Updated(c, f, v) /\ gen'[c] = gen[c] + 1 /\ gen[c] \in Nat
      /\ window'[c] = window[c] \cup {Updated(c, f, v)}
  BY DEF IInv, TypeOK, Assign
<1>2. \A d \in Connectors, r \in Slots :
        task'[d][r] = IF d = c /\ r = s THEN t ELSE task[d][r]
  BY SetTaskValue DEF IInv
<1>3. MemoIsCurrent' /\ MemoryMatchesConfig'
  BY <1>1 DEF IInv, MemoIsCurrent, MemoryMatchesConfig
<1>4. UnbornIsIdle'
  BY <1>1, <1>2 DEF IInv, UnbornIsIdle
<1>5. LegacyIsSafe'
  BY <1>1 DEF IInv, LegacyIsSafe
<1>6. WriteIsCoherent'
  BY <1>2 DEF IInv, WriteIsCoherent, Coherent
<1>7. RequestIsPinned'
  <2> SUFFICES ASSUME NEW d \in Connectors, NEW r \in Slots PROVE Pinned(d, task[d][r])'
    BY DEF RequestIsPinned
  <2>1. Pinned(d, task[d][r]) /\ task[d][r].gen \in Nat
    BY DEF IInv, RequestIsPinned, TypeOK, Task
  <2>2. CASE d # c
    BY <1>1, <1>2, <2>1, <2>2 DEF Pinned
  <2>3. CASE d = c /\ task'[d][r] = task[d][r]
    BY <1>1, <2>1, <2>3 DEF Pinned
  <2>4. CASE d = c /\ task'[d][r] # task[d][r]
    BY <1>1, <1>2, <2>4 DEF Pinned
  <2> QED BY <2>2, <2>3, <2>4
<1>8. WindowCoversFetch'
  BY <1>1, <1>2 DEF IInv, WindowCoversFetch, Covered, Slots
<1>9. ServedWithinFetch'
  <2>1. \A k \in Callers : call'[k].tok = call[k].tok /\ call'[k].window = call[k].window
    BY DEF IInv, TypeOK, Call, Assign
  <2> QED BY <2>1 DEF IInv, ServedWithinFetch
<1>10. CacheMatchesKey'
  BY CacheKept
<1>11. NobodyStranded'
  <2>1. \A d \in Connectors : task'[d]["pending"] = task[d]["pending"]
    BY <1>2 DEF Slots
  <2>2. \A k \in Callers : /\ call'[k].st = call[k].st /\ call'[k].conn = call[k].conn
                           /\ call[k].conn \subseteq Connectors
    BY DEF IInv, TypeOK, Call, Assign
  <2> QED BY <2>1, <2>2 DEF IInv, NobodyStranded
<1> QED BY <1>3, <1>4, <1>5, <1>6, <1>7, <1>8, <1>9, <1>10, <1>11 DEF IInv

LEMMA InvSetField ==
  ASSUME IInv, TypeOK', NEW c \in Connectors, NEW f \in Fields, NEW v \in Values, SetField(c, f, v)
  PROVE  IInv'
<1>1. "pending" \in Slots /\ Coherent(task[c]["pending"])
  BY DEF Slots, IInv, WriteIsCoherent
<1>2. SetTask(c, "pending", task[c]["pending"])
  BY DEF SetField, SetTask, IInv, TypeOK
<1>3. /\ Assign(c, f, v) /\ c \in live /\ UNCHANGED <<live, cache, legacy>>
      /\ \A d \in Connectors : d # c => memo'[d] = memo[d] /\ token'[d] = token[d]
      /\ token'[c] = {} /\ memo'[c] = {}
  BY DEF SetField, InvalidateCache, IInv, TypeOK
<1> QED BY <1>1, <1>2, <1>3, AssignStep

LEMMA InvGetAccessToken ==
  ASSUME IInv, TypeOK', NEW c \in Connectors, NEW k \in Callers, GetAccessToken(c, k)
  PROVE  IInv'
<1>1. CacheKey(c) = KeyOf[config[c]] /\ "pending" \in Slots
  BY CacheKeyIsCurrent DEF Slots, IInv
<1>2. UNCHANGED <<live, json, config, gen, token, cache, legacy, now>> /\ c \in live
  BY DEF GetAccessToken
<1>3. ServedWithinFetch'
  <2>1. \A t \in token[c] : t.config = config[c]
    BY DEF IInv, MemoryMatchesConfig
  <2>2. \A j \in Callers : \/ call'[j] = call[j]
                           \/ call'[j].tok = {}
                           \/ call'[j].tok = token[c] /\ call'[j].window = {config[c]}
    BY DEF GetAccessToken, IInv, TypeOK
  <2> QED BY <2>1, <2>2 DEF IInv, ServedWithinFetch
<1>6. NobodyStranded'
  <2>1. \A j \in Callers : \/ call'[j] = call[j]
                           \/ call'[j].st = "done"
                           \/ call'[j].conn = {c} /\ task'[c]["pending"].pc # "idle"
    <3>1. CASE IsFresh(c)
      BY <3>1 DEF GetAccessToken, IInv, TypeOK
    <3>2. CASE ~IsFresh(c)
      <4>1. task'[c]["pending"].pc # "idle"
        BY <1>1, <3>2, SetTaskValue, NewTasks DEF GetAccessToken, IInv
      <4> QED BY <3>2, <4>1 DEF GetAccessToken, IInv, TypeOK
    <3> QED BY <3>1, <3>2
  <2>2. \A d \in Connectors : task[d]["pending"].pc # "idle" => task'[d]["pending"].pc # "idle"
    BY <1>1, SetTaskValue, NewTasks DEF GetAccessToken, IInv
  <2>3. \A j \in Callers : call[j].conn \subseteq Connectors
    BY DEF IInv, TypeOK, Call
  <2> QED BY <2>1, <2>2, <2>3 DEF IInv, NobodyStranded
<1>4. CASE UNCHANGED <<memo, task, window>>
  BY <1>2, <1>3, <1>4, <1>6
  DEF IInv, MemoIsCurrent, RequestIsPinned, Pinned, WriteIsCoherent, UnbornIsIdle, LegacyIsSafe,
      MemoryMatchesConfig, CacheMatchesKey, WindowCoversFetch, Covered
<1>5. CASE /\ SetTask(c, "pending", Fetching(c))
           /\ memo' = [memo EXCEPT ![c] = {CacheKey(c)}]
           /\ window' = [window EXCEPT ![c] = {config[c]}]
  <2>1. \A d \in Connectors, r \in Slots :
          task'[d][r] = IF d = c /\ r = "pending" THEN Fetching(c) ELSE task[d][r]
    BY <1>1, <1>5, SetTaskValue DEF IInv
  <2>2. \A d \in Connectors : /\ memo'[d] = IF d = c THEN {KeyOf[config[c]]} ELSE memo[d]
                              /\ window'[d] = IF d = c THEN {config[c]} ELSE window[d]
    BY <1>1, <1>5 DEF IInv, TypeOK
  <2>3. MemoIsCurrent' /\ UnbornIsIdle'
    BY <1>2, <2>1, <2>2 DEF IInv, MemoIsCurrent, UnbornIsIdle
  <2>4. \A d \in Connectors, r \in Slots : Pinned(d, task'[d][r]) /\ Coherent(task'[d][r])
    BY <2>1, NewTasks DEF IInv, RequestIsPinned, WriteIsCoherent
  <2>5. RequestIsPinned' /\ WriteIsCoherent'
    BY <1>2, <2>4 DEF RequestIsPinned, WriteIsCoherent, Pinned, Coherent
  <2>6. WindowCoversFetch'
    BY <1>1, <1>2, <2>1, <2>2 DEF IInv, WindowCoversFetch, Covered, Fetching, At
  <2>7. LegacyIsSafe' /\ CacheMatchesKey' /\ MemoryMatchesConfig'
    BY <1>2, CacheKept DEF IInv, LegacyIsSafe, MemoryMatchesConfig
  <2> QED BY <1>3, <1>6, <2>3, <2>5, <2>6, <2>7 DEF IInv
<1> QED BY <1>4, <1>5 DEF GetAccessToken

LEMMA InvStart ==
  ASSUME IInv, TypeOK', NEW c \in Connectors, NEW s \in Ops,
         StartRefresh(c, s) \/ StartGenerate(c, s) \/ StartPut(c, s)
  PROVE  IInv'
<1>1. s \in Slots /\ s # "pending"
  BY ConnectorAssumption DEF Slots
<1>2. CASE StartRefresh(c, s) \/ StartGenerate(c, s)
  <2>1. PICK run \in Runs, pc \in {"refreshSend", "codeSend"} : StartRequest(c, s, run, pc)
    BY <1>2 DEF StartRefresh, StartGenerate, Runs
  <2>2. Pinned(c, At(c, pc, run, {}, {})) /\ Coherent(At(c, pc, run, {}, {}))
    BY <2>1, NewTasks
  <2> QED BY <1>1, <2>1, <2>2, TaskStep, CallsKept, CacheKept DEF StartRequest, IInv
<1>3. CASE StartPut(c, s)
  <2> DEFINE t == At(c, "plainPut", "put", {CacheKey(c)}, token[c])
  <2>1. CacheKey(c) = KeyOf[config[c]] /\ gen[c] \in Nat
    BY CacheKeyIsCurrent DEF IInv, TypeOK
  <2>2. Pinned(c, t) /\ Coherent(t)
    BY <2>1 DEF At, Pinned, Coherent, IInv, MemoryMatchesConfig
  <2>3. SetTask(c, s, t) /\ c \in live /\ memo' = [memo EXCEPT ![c] = {CacheKey(c)}]
        /\ UNCHANGED <<live, config, gen, window, legacy, token, call, cache>>
    BY <1>3 DEF StartPut
  <2> HIDE DEF t
  <2>4. /\ MemoIsCurrent' /\ MemoryMatchesConfig' /\ UnbornIsIdle' /\ LegacyIsSafe'
        /\ RequestIsPinned' /\ WriteIsCoherent' /\ WindowCoversFetch' /\ NobodyStranded'
    BY <1>1, <2>2, <2>3, TaskStep
  <2> QED BY <2>3, <2>4, CallsKept, CacheKept DEF IInv
<1> QED BY <1>2, <1>3
LEMMA InvContinueFetch ==
  ASSUME KeysDistinct, IInv, TypeOK', NEW c \in Connectors, ContinueFetch(c)
  PROVE  IInv'
<1>1. "pending" \in Slots
  BY DEF Slots
<1>2. CASE CacheRead(c)
  <2> DEFINE entries == UNION {cache[k] : k \in task[c]["pending"].key}
  <2> DEFINE good == {e.tok : e \in Usable(c, entries)}
  <2>1. c \in live /\ config[c] \in window[c]
    BY <1>1, <1>2, Running DEF CacheRead
  <2>2. UNCHANGED <<live, config, gen, window, legacy, call, cache>>
    BY <1>2 DEF CacheRead
  <2>3. CASE ConfigChanged(c, "pending")
    <3>1. /\ SetTask(c, "pending", Fetching(c)) /\ UNCHANGED token
          /\ memo' = [memo EXCEPT ![c] = {CacheKey(c)}]
      BY <1>2, <2>3 DEF CacheRead
    <3> QED BY <1>1, <2>1, <2>2, <3>1, NewTasks, TaskStep, CallsKept, CacheKept DEF IInv
  <2>4. CASE ~ConfigChanged(c, "pending")
    <3>1. \A x \in good : x.config = config[c]
      BY <1>2, <2>4, FoundIsCurrent DEF CacheRead
    <3> HIDE DEF good, entries
    <3>2. /\ UNCHANGED memo
          /\ \/ UNCHANGED token
             \/ /\ \A d \in Connectors : d # c => token'[d] = token[d]
                /\ \A x \in token'[c] : x.config = config[c]
      <4>1. UNCHANGED memo /\ (token' = token \/ token' = [token EXCEPT ![c] = good])
        BY <1>2, <2>4 DEF CacheRead, good, entries
      <4> QED BY <3>1, <4>1 DEF IInv, TypeOK
    <3>3. \/ SetTask(c, "pending", At(c, "settle", "fetch", {}, good))
          \/ gen[c] = 0 /\ SetTask(c, "pending", At(c, "legacyGet", "fetch", {}, {}))
          \/ SetTask(c, "pending", Refreshing(c, "pending"))
      BY <1>2, <2>4 DEF CacheRead, Finish, good, entries
    <3>4. PICK t : /\ SetTask(c, "pending", t) /\ Pinned(c, t) /\ Coherent(t) /\ Covered(c, t)
                   /\ t.pc # "idle"
      <4>1. \A x \in good : x.config \in window[c]
        BY <2>1, <3>1
      <4> QED BY <1>1, <2>1, <3>3, <4>1, NewTasks
    <3> QED BY <1>1, <2>1, <2>2, <3>1, <3>2, <3>3, <3>4, TaskStep, CallsKept, CacheKept DEF IInv
  <2> QED BY <2>3, <2>4
<1>3. CASE LegacyRead(c)
  <2>1. c \in live /\ config[c] \in window[c]
    BY <1>1, <1>3, Running DEF LegacyRead
  <2>2. UNCHANGED <<live, config, gen, window, legacy, call, cache>>
    BY <1>3 DEF LegacyRead
  <2>3. PICK entries \in {legacy, {}} : LegacyRead(c)!2!(entries)
    BY <1>3 DEF LegacyRead
  <2> DEFINE good == {e.tok : e \in Usable(c, entries)}
  <2>4. CASE ConfigChanged(c, "pending")
    <3>1. /\ SetTask(c, "pending", Fetching(c)) /\ UNCHANGED token
          /\ memo' = [memo EXCEPT ![c] = {CacheKey(c)}]
      BY <2>3, <2>4
    <3> QED BY <1>1, <2>1, <2>2, <3>1, NewTasks, TaskStep, CallsKept, CacheKept DEF IInv
  <2>5. CASE ~ConfigChanged(c, "pending") /\ good # {}
    <3> DEFINE t == At(c, "legacyPut", "fetch", {CacheKey(c)}, good)
    <3>1. gen[c] = 0 /\ CacheKey(c) = KeyOf[config[c]]
      BY CacheKeyIsCurrent, <1>1, <1>3, <2>5 DEF IInv, RequestIsPinned, Pinned, LegacyRead, ConfigChanged
    <3>2. \A x \in good : x.config = config[c]
      BY <3>1 DEF IInv, LegacyIsSafe, Usable
    <3>3. /\ token' = [token EXCEPT ![c] = good] /\ memo' = [memo EXCEPT ![c] = {CacheKey(c)}]
          /\ SetTask(c, "pending", t)
      BY <2>3, <2>5
    <3> HIDE DEF good
    <3>4. Pinned(c, t) /\ Coherent(t) /\ Covered(c, t) /\ t.pc # "idle"
      BY <2>1, <3>1, <3>2 DEF At, Pinned, Coherent, Covered
    <3> HIDE DEF t
    <3>5. /\ \A d \in Connectors : d # c => token'[d] = token[d]
          /\ \A x \in token'[c] : x.config = config[c]
      BY <3>2, <3>3 DEF IInv, TypeOK
    <3> QED BY <1>1, <2>1, <2>2, <3>3, <3>4, <3>5, TaskStep, CallsKept, CacheKept DEF IInv
  <2>6. CASE ~ConfigChanged(c, "pending") /\ good = {}
    <3>1. PICK t \in {At(c, "settle", "fetch", {}, {}), Refreshing(c, "pending")} :
            SetTask(c, "pending", t) /\ UNCHANGED <<token, memo>>
      BY <2>3, <2>6 DEF Finish
    <3>2. Pinned(c, t) /\ Coherent(t) /\ Covered(c, t) /\ t.pc # "idle"
      BY <1>1, <2>1, <3>1, NewTasks
    <3> QED BY <1>1, <2>1, <2>2, <3>1, <3>2, TaskStep, CallsKept, CacheKept DEF IInv
  <2> QED BY <2>4, <2>5, <2>6
<1>4. CASE LegacyPersisted(c)
  <2>1. c \in live /\ config[c] \in window[c]
    BY <1>1, <1>4, Running DEF LegacyPersisted
  <2>2. UNCHANGED <<live, config, gen, window, legacy, call, token>>
    BY <1>4 DEF LegacyPersisted
  <2>3. CacheMatchesKey'
    BY <1>1, <1>4, StoredCoherent DEF LegacyPersisted
  <2>4. \A x \in task[c]["pending"].tok : x.config \in window[c]
    BY <1>1, <1>4 DEF IInv, WindowCoversFetch, Covered, LegacyPersisted
  <2>5. PICK t \in {Fetching(c), At(c, "settle", "fetch", {}, task[c]["pending"].tok)} :
          /\ SetTask(c, "pending", t)
          /\ memo' = memo \/ memo' = [memo EXCEPT ![c] = {CacheKey(c)}]
    BY <1>4 DEF LegacyPersisted, Finish
  <2>6. Pinned(c, t) /\ Coherent(t) /\ Covered(c, t) /\ t.pc # "idle"
    BY <2>1, <2>4, <2>5, NewTasks
  <2> QED BY <1>1, <2>1, <2>2, <2>3, <2>5, <2>6, TaskStep, CallsKept DEF IInv
<1>5. CASE Settle(c)
  <2>1. c \in live
    BY <1>1, <1>5, Running DEF Settle
  <2>2. SetTask(c, "pending", Idle)
        /\ UNCHANGED <<live, config, gen, memo, token, window, cache, legacy>>
    BY <1>5 DEF Settle
  <2>3. ServedWithinFetch'
    <3> SUFFICES ASSUME NEW k \in Callers PROVE \A t \in call'[k].tok : t.config \in call'[k].window
      BY DEF ServedWithinFetch
    <3>1. CASE call'[k] = call[k]
      BY <3>1 DEF IInv, ServedWithinFetch
    <3>2. CASE call'[k] # call[k]
      <4>1. call'[k].tok = task[c]["pending"].tok /\ call'[k].window = window[c]
        BY <1>5, <3>2 DEF Settle, IInv, TypeOK, Call
      <4>2. \A x \in task[c]["pending"].tok : x.config \in window[c]
        BY <1>1, <1>5 DEF IInv, WindowCoversFetch, Covered, Settle
      <4> QED BY <4>1, <4>2
    <3> QED BY <3>1, <3>2
  <2>4. NobodyStranded'
    <3>1. \A k \in Callers : \/ call'[k].st = "done"
                             \/ call'[k] = call[k] /\ ~(call[k].st = "waiting" /\ c \in call[k].conn)
      BY <1>5 DEF Settle, IInv, TypeOK, Call
    <3>2. \A d \in Connectors : d # c => task'[d]["pending"] = task[d]["pending"]
      BY <1>1, <2>2, SetTaskValue DEF IInv
    <3>3. \A k \in Callers : call[k].conn \subseteq Connectors
      BY DEF IInv, TypeOK, Call
    <3> QED BY <3>1, <3>2, <3>3 DEF IInv, NobodyStranded
  <2> QED BY <1>1, <2>1, <2>2, <2>3, <2>4, NewTasks, TaskStep, CacheKept DEF IInv
<1> QED BY <1>2, <1>3, <1>4, <1>5 DEF ContinueFetch

LEMMA InvContinue ==
  ASSUME IInv, TypeOK', NEW c \in Connectors, NEW s \in Slots, Continue(c, s)
  PROVE  IInv'
<1>1. task[c][s].pc # "idle"
  BY DEF Continue, Reject, RefreshReply, PersistRefreshed, RefreshPersisted, CodeReply, PutDone
<1>2. c \in live /\ (s = "pending" => config[c] \in window[c])
  BY <1>1, Running
<1>3. Pinned(c, task[c][s]) /\ Coherent(task[c][s]) /\ (s = "pending" => Covered(c, task[c][s]))
      /\ task[c][s] \in Task /\ gen[c] \in Nat
  BY DEF IInv, RequestIsPinned, WriteIsCoherent, WindowCoversFetch, TypeOK
<1>4. CASE Reject(c, s)
  <2>1. UNCHANGED <<live, config, gen, window, legacy, call, token, memo>>
    BY <1>4 DEF Reject
  <2>2. CacheMatchesKey'
    BY <1>4, StoredCoherent, CacheKept DEF Reject
  <2>3. PICK t \in {Idle, At(c, "settle", "fetch", {}, {})} :
          SetTask(c, s, t) /\ (s = "pending" => t # Idle)
    BY <1>4, NewTasks DEF Reject, Finish, Idle
  <2>4. Pinned(c, t) /\ Coherent(t) /\ (s = "pending" => Covered(c, t) /\ t.pc # "idle")
    BY <1>2, <2>3, NewTasks
  <2> QED BY <1>2, <2>1, <2>2, <2>3, <2>4, TaskStep, CallsKept DEF IInv
<1>5. CASE RefreshReply(c, s)
  <2>1. UNCHANGED <<live, config, gen, window, legacy, call, cache>>
    BY <1>5 DEF RefreshReply
  <2>2. CASE ConfigChanged(c, s)
    <3>1. SetTask(c, s, Refreshing(c, s)) /\ UNCHANGED <<memo, token>>
      BY <1>5, <2>2 DEF RefreshReply
    <3> QED BY <1>2, <2>1, <3>1, NewTasks, TaskStep, CallsKept, CacheKept DEF IInv
  <2>3. CASE ~ConfigChanged(c, s)
    <3>1. PICK l \in Lifetimes : RefreshReply(c, s)!2!2!2!(l)
      BY <1>5, <2>3 DEF RefreshReply
    <3> DEFINE new == {Granted(task[c][s].sent, l)}
    <3> DEFINE waiting == [task[c][s] EXCEPT !.pc = "refreshed", !.key = {CacheKey(c)}, !.tok = new]
    <3>2. \A x \in new : x.config = config[c]
      <4>1. task[c][s].sent = config[c]
        BY <1>3, <1>5, <2>3 DEF RefreshReply, ConfigChanged, Pinned
      <4> QED BY <4>1 DEF Granted
    <3>3. /\ memo' = [memo EXCEPT ![c] = {CacheKey(c)}]
          /\ \A d \in Connectors : d # c => token'[d] = token[d]
          /\ \A x \in token'[c] : x.config = config[c]
      <4>1. token' = [token EXCEPT ![c] = new] /\ memo' = [memo EXCEPT ![c] = {CacheKey(c)}]
        BY <3>1
      <4> HIDE DEF new
      <4> QED BY <3>2, <4>1 DEF IInv, TypeOK
    <3>4. PICK t \in {Idle, waiting} : SetTask(c, s, t) /\ (s = "pending" => t = waiting)
      BY <1>3, <3>1 DEF Covered
    <3> HIDE DEF new
    <3>5. CacheKey(c) = KeyOf[config[c]]
      BY CacheKeyIsCurrent DEF IInv
    <3>6. waiting.pc = "refreshed" /\ waiting.key = {KeyOf[config[c]]} /\ waiting.tok = new
          /\ waiting.gen = gen[c] /\ waiting.run = task[c][s].run
      BY <1>3, <2>3, <3>5 DEF ConfigChanged, Task
    <3> HIDE DEF waiting
    <3>7. Pinned(c, waiting) /\ Coherent(waiting) /\ (s = "pending" => Covered(c, waiting))
      BY <1>2, <1>3, <3>2, <3>6 DEF Pinned, Coherent, Covered
    <3>8. Pinned(c, t) /\ Coherent(t) /\ (s = "pending" => Covered(c, t) /\ t.pc # "idle")
      BY <3>4, <3>6, <3>7, NewTasks
    <3> QED BY <1>2, <2>1, <3>2, <3>3, <3>4, <3>8, TaskStep, CallsKept, CacheKept DEF IInv
  <2> QED BY <2>2, <2>3
<1>6. CASE PersistRefreshed(c, s)
  <2> DEFINE t == [task[c][s] EXCEPT !.pc = "refreshPut", !.gen = gen[c]]
  <2>1. /\ t.pc = "refreshPut" /\ t.gen = gen[c] /\ t.key = task[c][s].key
        /\ t.tok = task[c][s].tok /\ t.run = task[c][s].run
    BY <1>3 DEF Task
  <2>2. SetTask(c, s, t)
        /\ UNCHANGED <<live, config, gen, window, legacy, call, token, memo, cache>>
    BY <1>6 DEF PersistRefreshed
  <2> HIDE DEF t
  <2>3. Pinned(c, t) /\ Coherent(t) /\ (s = "pending" => Covered(c, t))
    <3>1. task[c][s].pc = "refreshed"
      BY <1>6 DEF PersistRefreshed
    <3>2. Pinned(c, t)
      BY <1>3, <2>1 DEF Pinned
    <3>3. Coherent(t)
      BY <1>3, <2>1, <3>1 DEF Coherent
    <3>4. s = "pending" => Covered(c, t)
      BY <1>3, <2>1, <3>1 DEF Covered
    <3> QED BY <3>2, <3>3, <3>4
  <2> QED BY <1>2, <2>1, <2>2, <2>3, TaskStep, CallsKept, CacheKept DEF IInv
<1>7. CASE RefreshPersisted(c, s)
  <2>1. UNCHANGED <<live, config, gen, window, legacy, call, token, memo>>
    BY <1>7 DEF RefreshPersisted
  <2>2. CacheMatchesKey'
    BY <1>7, StoredCoherent DEF RefreshPersisted
  <2>3. PICK t \in {Idle, Refreshing(c, s), At(c, "settle", "fetch", {}, task[c][s].tok)} :
          SetTask(c, s, t) /\ (s = "pending" => t # Idle)
    BY <1>7, NewTasks DEF RefreshPersisted, Finish, Idle
  <2>4. s = "pending" => \A x \in task[c][s].tok : x.config \in window[c]
    BY <1>1, <1>3 DEF Covered
  <2>5. Pinned(c, t) /\ Coherent(t) /\ (s = "pending" => Covered(c, t) /\ t.pc # "idle")
    BY <1>2, <2>3, <2>4, NewTasks
  <2> QED BY <1>2, <2>1, <2>2, <2>3, <2>5, TaskStep, CallsKept DEF IInv
<1>8. CASE CodeReply(c, s)
  <2>1. CASE ConfigChanged(c, s)
    <3>1. UNCHANGED <<live, config, gen, window, legacy, call, token, memo, cache>>
      BY <1>8, <2>1 DEF CodeReply
    <3>2. PICK t \in {Idle, At(c, "settle", "fetch", {}, {})} :
            SetTask(c, s, t) /\ (s = "pending" => t # Idle)
      BY <1>8, <2>1, NewTasks DEF CodeReply, Finish, Idle
    <3>3. Pinned(c, t) /\ Coherent(t) /\ (s = "pending" => Covered(c, t) /\ t.pc # "idle")
      BY <1>2, <3>2, NewTasks
    <3> QED BY <1>2, <3>1, <3>2, <3>3, TaskStep, CallsKept, CacheKept DEF IInv
  <2>2. CASE ~ConfigChanged(c, s)
    <3>1. PICK v \in Values, l \in Lifetimes : CodeReply(c, s)!2!2!2!(v, l)
      BY <1>8, <2>2 DEF CodeReply
    <3> DEFINE granted == [task[c][s].sent EXCEPT !["refreshToken"] = v]
    <3> DEFINE new == {Granted(granted, l)}
    <3> DEFINE key == {KeyOf[Updated(c, "refreshToken", v)]}
    <3> DEFINE t == [pc |-> "codePut", run |-> "generate", gen |-> gen[c] + 1,
                     sent |-> granted, key |-> key, tok |-> new]
    <3>2. granted = Updated(c, "refreshToken", v)
      BY <1>3, <1>8, <2>2 DEF Updated, CodeReply, ConfigChanged, Pinned
    <3>3. \A x \in new : x.config = Updated(c, "refreshToken", v)
      BY <3>2 DEF Granted
    <3>4. /\ Assign(c, "refreshToken", v) /\ SetTask(c, s, t) /\ UNCHANGED <<live, cache, legacy>>
          /\ token' = [token EXCEPT ![c] = new] /\ memo' = [memo EXCEPT ![c] = key]
      BY <1>8, <3>1 DEF CodeReply
    <3>5. gen'[c] = gen[c] + 1
      BY <3>4 DEF Assign, IInv, TypeOK
    <3>6. Coherent(t) /\ t.pc = "codePut" /\ t.gen = gen'[c]
      BY <3>3, <3>5 DEF Coherent
    <3>7. s # "pending"
      BY <1>3, <1>8 DEF Covered, CodeReply
    <3> HIDE DEF t, new
    <3>8. /\ \A d \in Connectors : d # c => memo'[d] = memo[d] /\ token'[d] = token[d]
          /\ token'[c] = new /\ memo'[c] = key
      BY <3>4 DEF IInv, TypeOK
    <3>9. "refreshToken" \in Fields
      BY ConnectorAssumption
    <3> QED BY <1>2, <3>3, <3>4, <3>6, <3>7, <3>8, <3>9, AssignStep
  <2> QED BY <2>1, <2>2
<1>9. CASE PutDone(c, s)
  <2>1. UNCHANGED <<live, config, gen, window, legacy, call, token, memo>> /\ SetTask(c, s, Idle)
    BY <1>9 DEF PutDone
  <2>2. CacheMatchesKey'
    BY <1>9, StoredCoherent DEF PutDone
  <2>3. s # "pending"
    BY <1>3, <1>9 DEF Covered, PutDone
  <2> QED BY <1>2, <2>1, <2>2, <2>3, NewTasks, TaskStep, CallsKept DEF IInv
<1> QED BY <1>4, <1>5, <1>6, <1>7, <1>8, <1>9 DEF Continue

(* Every step keeps the invariant, action by action. *)
LEMMA InvStep ==
  ASSUME KeysDistinct
  PROVE  IInv /\ [Next]_vars => IInv'
<1> SUFFICES ASSUME IInv, [Next]_vars PROVE IInv'
  OBVIOUS
<1>1. TypeOK'
  BY TypeStep DEF IInv
<1>2. CASE Tick \/ (\E k \in Keys : Evict(k)) \/ UNCHANGED vars
  <2>1. UNCHANGED <<live, json, config, gen, memo, token, task, window, call, legacy>>
    BY <1>2 DEF Tick, Evict, vars
  <2>2. CacheMatchesKey'
    BY <1>2 DEF Tick, Evict, vars, IInv, CacheMatchesKey, TypeOK
  <2> QED BY <1>1, <2>1, <2>2
      DEF IInv, MemoIsCurrent, RequestIsPinned, Pinned, WriteIsCoherent, UnbornIsIdle, LegacyIsSafe,
          MemoryMatchesConfig, WindowCoversFetch, Covered, ServedWithinFetch, NobodyStranded
<1> QED BY <1>1, <1>2, InvGetConnector, InvSetField, InvGetAccessToken, InvStart,
           InvContinueFetch, InvContinue DEF Next

(* Everything the four properties rest on: the memoized key, what each request sent and
   looked up, what is on its way to the cache, the window of the fetch.  It holds for
   any number of connectors, callers and overlapping calls, when the hash separates
   configurations and a pre-hash entry is only met by connectors that start from the
   configuration it stems from. *)
THEOREM InvariantHolds ==
  ASSUME KeysDistinct, LegacyOnlyFromStart
  PROVE  Spec => []IInv
<1>1. Init => IInv
  BY InvInit
<1>2. IInv /\ [Next]_vars => IInv'
  BY InvStep
<1> QED BY <1>1, <1>2, PTL DEF Spec

(* A connector keeps in memory only a token of the configuration it has now: a setter
   drops it, and the late reply to an earlier configuration is not assigned. *)
THEOREM MemoryIsCurrent ==
  ASSUME KeysDistinct, LegacyOnlyFromStart
  PROVE  Spec => []MemoryMatchesConfig
<1>1. IInv => MemoryMatchesConfig
  BY DEF IInv
<1> QED BY <1>1, InvariantHolds, PTL

(* The cache never answers for one configuration with the token of another, whichever of
   the overlapping calls wrote last. *)
THEOREM CacheIsCoherent ==
  ASSUME KeysDistinct, LegacyOnlyFromStart
  PROVE  Spec => []CacheMatchesKey
<1>1. IInv => CacheMatchesKey
  BY DEF IInv
<1> QED BY <1>1, InvariantHolds, PTL

(* A caller gets only a token of a configuration the connector held during the fetch it
   shared. *)
THEOREM CallersGetTokensOfFetch ==
  ASSUME KeysDistinct, LegacyOnlyFromStart
  PROVE  Spec => []ServedWithinFetch
<1>1. IInv => ServedWithinFetch
  BY DEF IInv
<1> QED BY <1>1, InvariantHolds, PTL

-----------------------------------------------------------------------------
(* Connector implements TokenService.  Where a step leaves the callers alone, the fetch of
   a connector goes on, if one is running, and none starts. *)

IdleNow(d) == task[d]["pending"].pc = "idle"

LEMMA GoesOn ==
  ASSUME IInv, NEW c \in Connectors, NEW s \in Slots, NEW t, SetTask(c, s, t),
         s = "pending" => ~IdleNow(c) /\ t.pc # "idle"
  PROVE  \A d \in Connectors : IdleNow(d)' <=> IdleNow(d)
<1>1. \A d \in Connectors, r \in Slots :
        task'[d][r] = IF d = c /\ r = s THEN t ELSE task[d][r]
  BY SetTaskValue DEF IInv
<1>2. "pending" \in Slots
  BY DEF Slots
<1> QED BY <1>1, <1>2 DEF IdleNow

LEMMA ContinuationGoesOn ==
  ASSUME IInv, NEW c \in Connectors, NEW s \in Slots,
         Continue(c, s) \/ (s = "pending" /\ (CacheRead(c) \/ LegacyRead(c) \/ LegacyPersisted(c)))
  PROVE  \A d \in Connectors : IdleNow(d)' <=> IdleNow(d)
<1>1. task[c][s].pc # "idle"
  BY DEF Continue, Reject, RefreshReply, PersistRefreshed, RefreshPersisted, CodeReply, PutDone,
         CacheRead, LegacyRead, LegacyPersisted
<1>2. s = "pending" => ~IdleNow(c) /\ Covered(c, task[c][s])
  BY <1>1 DEF IdleNow, IInv, WindowCoversFetch
<1>3. ASSUME NEW toks, Finish(c, s, toks)
      PROVE  \E t : SetTask(c, s, t) /\ (s = "pending" => t.pc # "idle")
  BY <1>3, NewTasks DEF Finish
<1>4. \E t : SetTask(c, s, t) /\ (s = "pending" => t.pc # "idle")
  <2>1. CASE s = "pending" /\ CacheRead(c)
    <3>1. \/ \E toks : Finish(c, s, toks)
          \/ \E t \in {Fetching(c), Refreshing(c, s), At(c, "legacyGet", "fetch", {}, {})} : SetTask(c, s, t)
      BY <2>1 DEF CacheRead
    <3> QED BY <1>3, <3>1, NewTasks
  <2>2. CASE s = "pending" /\ LegacyRead(c)
    <3>1. PICK entries \in {legacy, {}} : LegacyRead(c)!2!(entries)
      BY <2>2 DEF LegacyRead
    <3> DEFINE good == {e.tok : e \in Usable(c, entries)}
    <3>2. \/ \E toks : Finish(c, s, toks)
          \/ \E t \in {Fetching(c), Refreshing(c, s), At(c, "legacyPut", "fetch", {CacheKey(c)}, good)} : SetTask(c, s, t)
      BY <2>2, <3>1
    <3> QED BY <1>3, <3>2, NewTasks
  <2>3. CASE s = "pending" /\ LegacyPersisted(c)
    <3>1. Finish(c, s, task[c][s].tok) \/ SetTask(c, s, Fetching(c))
      BY <2>3 DEF LegacyPersisted
    <3> QED BY <1>3, <3>1, NewTasks
  <2>4. CASE Reject(c, s)
    BY <1>3, <2>4 DEF Reject
  <2>5. CASE RefreshReply(c, s)
    <3>1. CASE ConfigChanged(c, s)
      BY <2>5, <3>1, NewTasks DEF RefreshReply
    <3>2. CASE ~ConfigChanged(c, s)
      <4>1. PICK l \in Lifetimes : RefreshReply(c, s)!2!2!2!(l)
        BY <2>5, <3>2 DEF RefreshReply
      <4> DEFINE new == {Granted(task[c][s].sent, l)}
      <4> DEFINE waiting == [task[c][s] EXCEPT !.pc = "refreshed", !.key = {CacheKey(c)}, !.tok = new]
      <4>2. SetTask(c, s, IF task[c][s].run = "refresh" THEN Idle ELSE waiting)
        BY <4>1
      <4>3. waiting.pc = "refreshed"
        BY DEF IInv, TypeOK, Task
      <4>4. s = "pending" => task[c][s].run # "refresh"
        BY <1>2 DEF Covered
      <4> HIDE DEF new, waiting
      <4> QED BY <4>2, <4>3, <4>4
    <3> QED BY <3>1, <3>2
  <2>6. CASE PersistRefreshed(c, s)
    <3> DEFINE t == [task[c][s] EXCEPT !.pc = "refreshPut", !.gen = gen[c]]
    <3>1. SetTask(c, s, t) /\ t.pc = "refreshPut"
      BY <2>6 DEF PersistRefreshed, IInv, TypeOK, Task
    <3> QED BY <3>1
  <2>7. CASE RefreshPersisted(c, s)
    <3>1. Finish(c, s, task[c][s].tok) \/ SetTask(c, s, Refreshing(c, s))
      BY <2>7 DEF RefreshPersisted
    <3> QED BY <1>3, <3>1, NewTasks
  <2>8. CASE CodeReply(c, s) \/ PutDone(c, s)
    <3>1. s # "pending"
      BY <1>2, <2>8 DEF Covered, CodeReply, PutDone
    <3>2. \E t : SetTask(c, s, t)
      BY <2>8 DEF CodeReply, PutDone, Finish
    <3> QED BY <3>1, <3>2
  <2> QED BY <2>1, <2>2, <2>3, <2>4, <2>5, <2>6, <2>7, <2>8 DEF Continue
<1> QED BY <1>2, <1>4, GoesOn

(* A connector that changes its configuration or its token, or neither. *)
LEMMA Reconfigures ==
  ASSUME IInv, IInv', NEW c \in Connectors,
         \A d \in Connectors : IdleNow(d)' <=> IdleNow(d),
         \A d \in Connectors \ {c} : config'[d] = config[d] /\ token'[d] = token[d] /\ window'[d] = window[d],
         ~IdleNow(c) => window'[c] = window[c] \cup {config'[c]},
         Caller' = Caller, now' = now
  PROVE  Service!Reconfigure(c)
<1>1. /\ config \in [Connectors -> Configs] /\ config' \in [Connectors -> Configs]
      /\ token \in [Connectors -> SUBSET Token] /\ token' \in [Connectors -> SUBSET Token]
  BY DEF IInv, TypeOK
<1>2. config' = [config EXCEPT ![c] = config'[c]] /\ config'[c] \in Configs
  BY <1>1
<1>3. token' = [token EXCEPT ![c] = token'[c]]
  BY <1>1
<1>4. \A t \in token'[c] : t.config = config'[c]
  BY DEF IInv, MemoryMatchesConfig
<1>5. Fetch' = [Fetch EXCEPT ![c] = IF @ = {} THEN {} ELSE @ \cup {config'[c]}]
  <2>1. Fetch[c] = {} <=> IdleNow(c)
    BY DEF Fetch, IdleNow, IInv, WindowCoversFetch, Covered
  <2>2. \A d \in Connectors : /\ Fetch[d] = IF IdleNow(d) THEN {} ELSE window[d]
                              /\ Fetch'[d] = IF IdleNow(d)' THEN {} ELSE window'[d]
    BY DEF Fetch, IdleNow
  <2>3. Fetch = [d \in Connectors |-> Fetch[d]] /\ Fetch' = [d \in Connectors |-> Fetch'[d]]
    BY DEF Fetch
  <2>4. \A d \in Connectors : Fetch'[d] = IF d # c THEN Fetch[d]
                                          ELSE IF Fetch[c] = {} THEN {} ELSE Fetch[c] \cup {config'[c]}
    BY <2>1, <2>2
  <2> QED BY <2>3, <2>4
<1> QED BY <1>2, <1>3, <1>4, <1>5 DEF Service!Reconfigure

LEMMA CallersAlike ==
  ASSUME IInv, \A k \in Callers : call'[k].st = call[k].st /\ call'[k].conn = call[k].conn /\ call'[k].tok = call[k].tok
  PROVE  Caller' = Caller
BY DEF Caller

(* A fetch that was under way covers the configuration already. *)
LEMMA SameWindow ==
  ASSUME IInv, IInv', NEW c \in Connectors, UNCHANGED <<config, window>>, ~IdleNow(c)
  PROVE  window'[c] = window[c] \cup {config'[c]}
BY DEF IdleNow, IInv, WindowCoversFetch, Covered

LEMMA AssignReconfigures ==
  ASSUME IInv, IInv', NEW c \in Connectors, NEW f \in Fields, NEW v \in Values, Assign(c, f, v),
         \A d \in Connectors : IdleNow(d)' <=> IdleNow(d),
         \A d \in Connectors : d # c => token'[d] = token[d], now' = now
  PROVE  Service!Reconfigure(c)
<1>1. /\ \A d \in Connectors : d # c => config'[d] = config[d] /\ window'[d] = window[d]
      /\ window'[c] = window[c] \cup {config'[c]}
  BY DEF IInv, TypeOK, Assign
<1>2. \A k \in Callers : call'[k].st = call[k].st /\ call'[k].conn = call[k].conn /\ call'[k].tok = call[k].tok
  BY DEF IInv, TypeOK, Call, Assign
<1>3. Caller' = Caller
  BY <1>2, CallersAlike
<1> QED BY <1>1, <1>3, Reconfigures

LEMMA TokenReconfigures ==
  ASSUME IInv, IInv', NEW c \in Connectors, UNCHANGED <<config, window, call, now>>,
         \A d \in Connectors : IdleNow(d)' <=> IdleNow(d),
         \A d \in Connectors : d # c => token'[d] = token[d]
  PROVE  Service!Reconfigure(c)
<1>1. Caller' = Caller
  BY DEF Caller
<1> QED BY <1>1, SameWindow, Reconfigures

(* getAccessToken() *)
LEMMA GetServes ==
  ASSUME IInv, IInv', NEW c \in Connectors, NEW k \in Callers, GetAccessToken(c, k)
  PROVE  Service!Serve(c, k) \/ Service!Ask(c, k)
<1>1. /\ call[k].st # "waiting" /\ UNCHANGED <<config, token, now>> /\ Caller[k].st # "waiting"
      /\ call \in [Callers -> Call] /\ "pending" \in Slots
  BY DEF GetAccessToken, IInv, TypeOK, Caller, Slots
<1>2. ASSUME NEW r \in Call, call' = [call EXCEPT ![k] = r]
      PROVE  Caller' = [Caller EXCEPT ![k] = [st |-> r.st, conn |-> r.conn, tok |-> r.tok]]
  BY <1>1, <1>2 DEF Caller
<1>3. CASE IsFresh(c)
  <2> DEFINE r == [st |-> "done", conn |-> {c}, seen |-> {config[c]}, window |-> {config[c]}, tok |-> token[c]]
  <2>1. call' = [call EXCEPT ![k] = r] /\ r \in Call /\ UNCHANGED <<task, window>>
    BY <1>3 DEF GetAccessToken, IInv, TypeOK, Call
  <2>2. Caller' = [Caller EXCEPT ![k] = [st |-> r.st, conn |-> r.conn, tok |-> r.tok]]
    BY <1>2, <2>1
  <2>3. Fetch' = Fetch
    BY <2>1 DEF Fetch
  <2> QED BY <1>1, <1>3, <2>2, <2>3 DEF IsFresh, Service!Serve
<1>4. CASE ~IsFresh(c)
  <2> DEFINE r == [st |-> "waiting", conn |-> {c}, seen |-> {config[c]}, window |-> {}, tok |-> {}]
  <2>1. call' = [call EXCEPT ![k] = r] /\ r \in Call
    BY <1>4 DEF GetAccessToken, IInv, TypeOK, Call
  <2>2. Caller' = [Caller EXCEPT ![k] = [st |-> r.st, conn |-> r.conn, tok |-> r.tok]]
    BY <1>2, <2>1
  <2>3. Fetch[c] = {} <=> IdleNow(c)
    BY DEF Fetch, IdleNow, IInv, WindowCoversFetch, Covered
  <2>4. Fetch' = [Fetch EXCEPT ![c] = IF @ = {} THEN {config[c]} ELSE @]
    <3>1. CASE ~IdleNow(c)
      <4>1. UNCHANGED <<task, window>>
        BY <1>4, <3>1 DEF GetAccessToken, IdleNow
      <4> QED BY <2>3, <3>1, <4>1 DEF Fetch
    <3>2. CASE IdleNow(c)
      <4>1. SetTask(c, "pending", Fetching(c)) /\ window' = [window EXCEPT ![c] = {config[c]}]
        BY <1>4, <3>2 DEF GetAccessToken, IdleNow
      <4>2. \A d \in Connectors : task'[d]["pending"] = IF d = c THEN Fetching(c) ELSE task[d]["pending"]
        BY <1>1, <4>1, SetTaskValue DEF IInv
      <4>3. \A d \in Connectors : window'[d] = IF d = c THEN {config[c]} ELSE window[d]
        BY <4>1 DEF IInv, TypeOK
      <4>4. Fetching(c).pc # "idle"
        BY NewTasks
      <4>5. \A d \in Connectors : Fetch'[d] = IF d = c THEN {config[c]} ELSE Fetch[d]
        BY <4>2, <4>3, <4>4 DEF Fetch
      <4>6. Fetch = [d \in Connectors |-> Fetch[d]] /\ Fetch' = [d \in Connectors |-> Fetch'[d]]
        BY DEF Fetch
      <4> QED BY <2>3, <3>2, <4>5, <4>6
    <3> QED BY <3>1, <3>2
  <2> QED BY <1>1, <1>4, <2>2, <2>4 DEF IsFresh, Service!Ask
<1> QED BY <1>3, <1>4

(* finally() *)
LEMMA SettleAnswers ==
  ASSUME IInv, IInv', NEW c \in Connectors, Settle(c)
  PROVE  Service!Answer(c)
<1> DEFINE toks == task[c]["pending"].tok
           joined == {k \in Callers : call[k].st = "waiting" /\ c \in call[k].conn}
<1>1. /\ UNCHANGED <<config, token, now, window>> /\ task[c]["pending"].pc = "settle"
      /\ SetTask(c, "pending", Idle) /\ "pending" \in Slots
  BY DEF Settle, Slots
<1>2. Fetch[c] = window[c] /\ config[c] \in window[c] /\ \A t \in toks : t.config \in Fetch[c]
  BY <1>1 DEF Fetch, IInv, WindowCoversFetch, Covered
<1>3. Fetch' = [Fetch EXCEPT ![c] = {}]
  <2>1. \A d \in Connectors : task'[d]["pending"] = IF d = c THEN Idle ELSE task[d]["pending"]
    BY <1>1, SetTaskValue DEF IInv
  <2>2. \A d \in Connectors : Fetch'[d] = IF d = c THEN {} ELSE Fetch[d]
    BY <1>1, <2>1 DEF Fetch, Idle
  <2>3. Fetch = [d \in Connectors |-> Fetch[d]] /\ Fetch' = [d \in Connectors |-> Fetch'[d]]
    BY DEF Fetch
  <2> QED BY <2>2, <2>3
<1>4. Service!Joined(c) = joined
  BY DEF Service!Joined, Caller
<1>5. \A k \in Callers : Caller'[k] = IF k \in joined THEN [st |-> "done", conn |-> Caller[k].conn, tok |-> toks] ELSE Caller[k]
  <2>1. \A k \in Callers : IF k \in joined
                           THEN call'[k].st = "done" /\ call'[k].conn = call[k].conn /\ call'[k].tok = toks
                           ELSE call'[k] = call[k]
    BY DEF Settle, IInv, TypeOK, Call
  <2>2. \A k \in Callers : /\ Caller[k] = [st |-> call[k].st, conn |-> call[k].conn, tok |-> call[k].tok]
                           /\ Caller'[k] = [st |-> call'[k].st, conn |-> call'[k].conn, tok |-> call'[k].tok]
    BY DEF Caller
  <2> HIDE DEF toks, joined
  <2>3. ASSUME NEW k \in Callers, k \in joined
        PROVE  Caller'[k] = [st |-> "done", conn |-> Caller[k].conn, tok |-> toks]
    <3>1. Caller'[k] = [st |-> "done", conn |-> call[k].conn, tok |-> toks]
      BY <2>1, <2>2, <2>3
    <3>2. Caller[k] = [st |-> call[k].st, conn |-> call[k].conn, tok |-> call[k].tok]
      BY <2>2, <2>3
    <3> QED BY <3>1, <3>2
  <2>4. ASSUME NEW k \in Callers, k \notin joined
        PROVE  Caller'[k] = Caller[k]
    BY <2>1, <2>2, <2>4
  <2> QED BY <2>3, <2>4
<1>6. Caller' = [k \in Callers |-> Caller'[k]]
  BY DEF Caller
<1> HIDE DEF toks, joined
<1>7. \E tok \in {{}} \cup {Caller'[k].tok : k \in joined} :
        /\ \A t \in tok : t.config \in Fetch[c]
        /\ Caller' = [k \in Callers |->
                        IF k \in joined THEN [st |-> "done", conn |-> Caller[k].conn, tok |-> tok] ELSE Caller[k]]
  <2>1. CASE joined = {}
    <3>1. \A k \in Callers : k \notin joined
      BY <2>1
    <3>2. Caller' = [k \in Callers |->
                       IF k \in joined THEN [st |-> "done", conn |-> Caller[k].conn, tok |-> {}] ELSE Caller[k]]
      BY <1>5, <1>6, <3>1
    <3>3. {} \in {{}} \cup {Caller'[k].tok : k \in joined}
      OBVIOUS
    <3> QED BY <3>2, <3>3
  <2>2. CASE joined # {}
    <3>1. PICK k \in joined : TRUE
      BY <2>2
    <3>2. k \in Callers
      BY <3>1 DEF joined
    <3>3. Caller'[k].tok = toks
      BY <1>5, <3>1, <3>2 DEF Caller
    <3>4. Caller' = [j \in Callers |->
                       IF j \in joined THEN [st |-> "done", conn |-> Caller[j].conn, tok |-> toks] ELSE Caller[j]]
      BY <1>5, <1>6
    <3>5. toks \in {Caller'[j].tok : j \in joined}
      BY <3>1, <3>3
    <3> QED BY <1>2, <3>4, <3>5
  <2> QED BY <2>1, <2>2
<1> QED BY <1>1, <1>2, <1>3, <1>4, <1>7 DEF Service!Answer

LEMMA ServiceStep ==
  ASSUME IInv, IInv', [Next]_vars
  PROVE  [Service!Next]_(Service!vars)
<1>1. ASSUME NEW c \in Connectors, GetConnector(c)
      PROVE  Service!Reconfigure(c)
  <2>1. /\ UNCHANGED <<token, task, window, call, now>> /\ c \in Connectors \ live
        /\ \A d \in Connectors : d # c => config'[d] = config[d]
    BY <1>1 DEF GetConnector, IInv, TypeOK
  <2>2. IdleNow(c) /\ \A d \in Connectors : IdleNow(d)' <=> IdleNow(d)
    BY <2>1 DEF IdleNow, IInv, UnbornIsIdle, Idle, Slots
  <2>3. Caller' = Caller
    BY <2>1 DEF Caller
  <2> QED BY <2>1, <2>2, <2>3, Reconfigures
<1>2. ASSUME NEW c \in Connectors, NEW f \in Fields, NEW v \in Values, SetField(c, f, v)
      PROVE  Service!Reconfigure(c)
  <2>1. /\ Assign(c, f, v) /\ now' = now /\ task' = task
        /\ \A d \in Connectors : d # c => token'[d] = token[d]
    BY <1>2 DEF SetField, InvalidateCache, IInv, TypeOK
  <2>2. \A d \in Connectors : IdleNow(d)' <=> IdleNow(d)
    BY <2>1 DEF IdleNow
  <2> QED BY <2>1, <2>2, AssignReconfigures
<1>3. ASSUME NEW c \in Connectors, NEW s \in Ops, StartRefresh(c, s) \/ StartGenerate(c, s) \/ StartPut(c, s)
      PROVE  Service!Reconfigure(c)
  <2>1. s \in Slots /\ s # "pending"
    BY ConnectorAssumption DEF Slots
  <2>2. UNCHANGED <<config, token, window, call, now>> /\ \E t : SetTask(c, s, t)
    BY <1>3 DEF StartRefresh, StartGenerate, StartRequest, StartPut
  <2>3. \A d \in Connectors : IdleNow(d)' <=> IdleNow(d)
    BY <2>1, <2>2, GoesOn
  <2> QED BY <2>2, <2>3, TokenReconfigures
<1>4. ASSUME NEW c \in Connectors, ContinueFetch(c)
      PROVE  Service!Reconfigure(c) \/ Service!Answer(c)
  <2>1. CASE Settle(c)
    BY <2>1, SettleAnswers
  <2>2. CASE CacheRead(c) \/ LegacyRead(c) \/ LegacyPersisted(c)
    <3>1. \A d \in Connectors : IdleNow(d)' <=> IdleNow(d)
      BY <2>2, ContinuationGoesOn DEF Slots
    <3>2. UNCHANGED <<config, window, call, now>>
      BY <2>2 DEF CacheRead, LegacyRead, LegacyPersisted
    <3>3. token' = token \/ \E good : token' = [token EXCEPT ![c] = good]
      BY <2>2 DEF CacheRead, LegacyRead, LegacyPersisted
    <3>4. \A d \in Connectors : d # c => token'[d] = token[d]
      BY <3>3 DEF IInv, TypeOK
    <3> QED BY <3>1, <3>2, <3>4, TokenReconfigures
  <2> QED BY <1>4, <2>1, <2>2 DEF ContinueFetch
<1>5. ASSUME NEW c \in Connectors, NEW s \in Slots, Continue(c, s)
      PROVE  Service!Reconfigure(c)
  <2>1. \A d \in Connectors : IdleNow(d)' <=> IdleNow(d)
    BY <1>5, ContinuationGoesOn
  <2>2. now' = now /\ (token' = token \/ \E new : token' = [token EXCEPT ![c] = new])
    BY <1>5 DEF Continue, Reject, RefreshReply, PersistRefreshed, RefreshPersisted, CodeReply, PutDone
  <2>3. \A d \in Connectors : d # c => token'[d] = token[d]
    BY <2>2 DEF IInv, TypeOK
  <2>4. UNCHANGED <<config, window, call>> \/ \E v \in Values : Assign(c, "refreshToken", v)
    BY <1>5 DEF Continue, Reject, RefreshReply, PersistRefreshed, RefreshPersisted, CodeReply, PutDone
  <2>5. "refreshToken" \in Fields
    BY ConnectorAssumption
  <2> QED BY <2>1, <2>2, <2>3, <2>4, <2>5, TokenReconfigures, AssignReconfigures
<1>6. CASE Tick
  <2>1. Caller' = Caller /\ Fetch' = Fetch
    BY <1>6 DEF Tick, Caller, Fetch
  <2> QED BY <1>6, <2>1 DEF Tick, Service!Next, Service!Tick
<1>7. CASE (\E k \in Keys : Evict(k)) \/ UNCHANGED vars
  <2>1. UNCHANGED <<config, token, task, window, call, now>>
    BY <1>7 DEF Evict, vars
  <2>2. Caller' = Caller /\ Fetch' = Fetch
    BY <2>1 DEF Caller, Fetch
  <2> QED BY <2>1, <2>2 DEF Service!vars
<1>8. ASSUME NEW c \in Connectors, NEW k \in Callers, GetAccessToken(c, k)
      PROVE  Service!Serve(c, k) \/ Service!Ask(c, k)
  BY <1>8, GetServes
<1> QED BY <1>1, <1>2, <1>3, <1>4, <1>5, <1>6, <1>7, <1>8 DEF Next, Service!Next

(* ServesCallers: Connector implements TokenService.  getAccessToken() is Serve or Ask,
   the finally() of its promise is Answer, and a setter, a late reply, a cache read and a
   new instance are Reconfigure: so overlapping callers share one fetch and its outcome,
   nobody waits for a fetch that is not running, and no interleaving hands out a token of a
   configuration the connector gave up before the fetch began. *)
THEOREM ConnectorServesCallers ==
  ASSUME KeysDistinct, LegacyOnlyFromStart
  PROVE  Spec => ServesCallers
<1>1. ASSUME Init
      PROVE  Service!Init
  <2>1. Fetch = [c \in Connectors |-> {}]
    BY <1>1 DEF Init, Fetch, Idle, Slots
  <2>2. Caller = [k \in Callers |-> Service!NoCaller]
    BY <1>1 DEF Init, Caller, NoCall, Service!NoCaller
  <2> QED BY <1>1, <2>1, <2>2 DEF Init, Service!Init
<1>2. IInv /\ IInv' /\ [Next]_vars => [Service!Next]_(Service!vars)
  BY ServiceStep
<1> QED BY <1>1, <1>2, InvariantHolds, PTL DEF Spec, ServesCallers, Service!Spec
==============================================================================
