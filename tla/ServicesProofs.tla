---------------------------- MODULE ServicesProofs ----------------------------
(***************************************************************************)
(* Proofs about the components of Services: the jobs of an application,    *)
(* its notifications, the generators over a bucket and over a table, and   *)
(* the parts of a download.                                                *)
(***************************************************************************)
EXTENDS StratusBucket, DatastoreTable, PartDownload, JobScheduling, PushNotification, TLAPS,
        FiniteSetTheorems, WellFoundedInduction

(* JobScheduling: a call that submits a job has an object, whose source stays. *)
JobInv ==
  /\ source \in [JobMetas -> Sources]
  /\ \A c \in JobCalls : jobCall[c].operation = "submitJob" => jobCall[c].meta \in JobMetas
  /\ JobIsApi

LEMMA JobStarts == JobInit => JobInv
BY DEF JobInit, JobInv, JobIsApi, NoJobCall

LEMMA JobKeeps == JobInv /\ [JobNext]_jobVars => JobInv'
<1> SUFFICES ASSUME JobInv, [JobNext]_jobVars
             PROVE  JobInv'
  OBVIOUS
<1>1. ASSUME NEW c \in JobCalls, NEW operation, NEW m, Calls(c, operation, m),
             operation = "submitJob" => m \in JobMetas /\ source'[m] = "API",
             source' \in [JobMetas -> Sources],
             \A n \in JobMetas : source[n] = "API" => source'[n] = "API"
      PROVE  JobInv'
  <2>1. \A b \in JobCalls : jobCall'[b].operation = "submitJob" =>
          jobCall'[b].meta \in JobMetas /\ source'[jobCall'[b].meta] = "API"
    BY <1>1 DEF Calls, JobInv, JobIsApi, NoJobCall
  <2> QED BY <1>1, <2>1 DEF JobInv, JobIsApi, Calls
<1>2. ASSUME NEW c \in JobCalls, NEW m \in JobMetas, CreateCron(c, m) \/ UpdateCron(c, m) \/ SubmitJob(c, m)
      PROVE  JobInv'
  <2>1. /\ source' \in [JobMetas -> Sources]
        /\ \A n \in JobMetas : source[n] = "API" => source'[n] = "API"
    BY <1>2 DEF CreateCron, UpdateCron, SubmitJob, CronSource, JobInv, Sources
  <2>2. PICK operation : /\ Calls(c, operation, m)
                         /\ operation = "submitJob" => source'[m] = "API"
    BY <1>2 DEF CreateCron, UpdateCron, SubmitJob, JobInv
  <2> QED BY <1>1, <2>1, <2>2
<1>3. ASSUME NEW c \in JobCalls, SwitchCron(c) \/ DeleteCron(c) \/ RunCron(c) \/ DeleteJob(c)
      PROVE  JobInv'
  <2>1. PICK operation \in {"pauseCron", "resumeCron", "deleteCron", "runCron", "deleteJob"} :
          Calls(c, operation, "none") /\ UNCHANGED source
    BY <1>3 DEF SwitchCron, DeleteCron, RunCron, DeleteJob, Command
  <2> QED BY <1>1, <2>1 DEF JobInv
<1>4. ASSUME NEW c \in JobCalls, Leaves(c)
      PROVE  JobInv'
  <2>1. \A b \in JobCalls : jobCall'[b].operation = "submitJob" => jobCall'[b] = jobCall[b]
    BY <1>4 DEF Leaves, NoJobCall
  <2>2. pool' \subseteq {"API", "Cron"}
    BY <1>4 DEF Leaves, JobInv, JobIsApi
  <2> QED BY <1>4, <2>1, <2>2 DEF Leaves, JobInv, JobIsApi
<1>5. CASE UNCHANGED jobVars
  BY <1>5 DEF jobVars, JobInv, JobIsApi
<1> QED BY <1>2, <1>3, <1>4, <1>5 DEF JobNext

(* JobIsApi (submitJob): whatever calls of the application share an object, and for any
   number of them, a submitted job leaves as one of the API. *)
THEOREM JobsAreOfTheApi == JobSpec => []JobIsApi
<1>1. JobInv => JobIsApi
  BY DEF JobInv
<1> QED BY <1>1, JobStarts, JobKeeps, PTL DEF JobSpec

-----------------------------------------------------------------------------
(* PushNotification: an attempt that is under way is the only one of its client, which
   says so. *)
AttemptsTell ==
  /\ \A a \in Attempts : attempt[a] # IdleAttempt =>
       attempt[a].on \in Clients /\ push[attempt[a].on].state = "initializing"
  /\ \A a, b \in Attempts :
       attempt[a] # IdleAttempt /\ attempt[b] # IdleAttempt /\ attempt[a].on = attempt[b].on => a = b

Client == [state : {"uninitialized", "initializing", "ready", "error"},
           retries : 0..MaxRetries, timers : Nat, callback : BOOLEAN, refused : BOOLEAN]

PushInv ==
  /\ push \in [Clients -> Client]
  /\ attempt \in [Attempts -> [on : Clients \cup {NoClient}, at : {"idle", "config", "script", "wms"}]]
  /\ \A a \in Attempts : attempt[a].at = "idle" => attempt[a] = IdleAttempt
  /\ listener \in Clients \cup {NoClient}
  /\ AttemptsTell

LEMMA PushStarts == PushInit => PushInv
BY DEF PushInit, PushInv, AttemptsTell, Client, MaxRetries, IdleAttempt

(* A client that changes none of its attempts, and neither begins nor ends one. *)
LEMMA ClientKeeps ==
  ASSUME PushInv, NEW p \in Clients, NEW client \in Client, client.state = push[p].state,
         push' = [push EXCEPT ![p] = client], UNCHANGED attempt,
         listener' \in Clients \cup {NoClient}
  PROVE  PushInv' /\ \A q \in Clients : push'[q].state = push[q].state
<1>1. push' \in [Clients -> Client] /\ \A q \in Clients : push'[q].state = push[q].state
  BY DEF PushInv
<1>2. AttemptsTell'
  BY <1>1 DEF PushInv, AttemptsTell
<1> QED BY <1>1, <1>2 DEF PushInv

(* An attempt begins only where there is none, and leaves a client alone that is ready. *)
LEMMA EnableKeeps ==
  ASSUME PushInv, NEW p \in Clients, NEW client \in Client, client.state = push[p].state,
         EnableNotification(p, client), UNCHANGED listener
  PROVE  /\ PushInv'
         /\ \A q \in Clients : push[q].state = "ready" => push'[q].state = "ready"
<1>1. CASE ~CanStart(client.state)
  <2>1. push' = [push EXCEPT ![p] = client] /\ UNCHANGED attempt /\ listener' \in Clients \cup {NoClient}
    BY <1>1 DEF EnableNotification, PushInv
  <2> QED BY <2>1, ClientKeeps
<1>2. CASE CanStart(client.state)
  <2>1. PICK a \in Attempts :
          /\ attempt[a] = IdleAttempt
          /\ attempt' = [attempt EXCEPT ![a] = [on |-> p, at |-> "config"]]
          /\ push' = [push EXCEPT ![p] = [client EXCEPT !.state = "initializing"]]
    BY <1>2 DEF EnableNotification
  <2>2. push[p].state # "initializing" /\ push[p].state # "ready"
    BY <1>2 DEF CanStart
  <2>3. \A b \in Attempts : attempt[b] # IdleAttempt => attempt[b].on # p
    BY <2>2 DEF PushInv, AttemptsTell
  <2>4. [client EXCEPT !.state = "initializing"] \in Client
    BY DEF Client
  <2>5. push' \in [Clients -> Client] /\ \A q \in Clients : q # p => push'[q] = push[q]
    BY <2>1, <2>4 DEF PushInv
  <2>6. push'[p].state = "initializing"
    BY <2>1 DEF PushInv, Client
  <2>7. [on |-> p, at |-> "config"] \in [on : Clients \cup {NoClient}, at : {"idle", "config", "script", "wms"}]
    OBVIOUS
  <2>8. /\ attempt' \in [Attempts -> [on : Clients \cup {NoClient}, at : {"idle", "config", "script", "wms"}]]
        /\ attempt'[a].on = p /\ attempt'[a].at = "config"
        /\ \A b \in Attempts : b # a => attempt'[b] = attempt[b]
    BY <2>1, <2>7 DEF PushInv
  <2>9. AttemptsTell'
    BY <2>3, <2>5, <2>6, <2>8 DEF PushInv, AttemptsTell
  <2> QED BY <2>2, <2>5, <2>8, <2>9 DEF PushInv
<1> QED BY <1>1, <1>2

(* An attempt goes on. *)
LEMMA AwaitKeeps ==
  ASSUME PushInv, NEW a \in Attempts, attempt[a] # IdleAttempt, NEW what \in {"script", "wms"},
         Await(a, what), UNCHANGED <<push, listener>>
  PROVE  PushInv'
<1>1. /\ attempt' \in [Attempts -> [on : Clients \cup {NoClient}, at : {"idle", "config", "script", "wms"}]]
      /\ attempt'[a].at = what /\ \A b \in Attempts : attempt'[b].on = attempt[b].on
      /\ \A b \in Attempts : b # a => attempt'[b] = attempt[b]
  BY DEF Await, PushInv
<1>2. \A b \in Attempts : attempt'[b] # IdleAttempt => attempt[b] # IdleAttempt
  BY <1>1
<1>3. AttemptsTell'
  BY <1>1, <1>2 DEF PushInv, AttemptsTell
<1> QED BY <1>1, <1>3 DEF PushInv

(* An attempt ends, in an error or ready: it was the only one of its client. *)
LEMMA EndKeeps ==
  ASSUME PushInv, NEW a \in Attempts, attempt[a] # IdleAttempt, NEW client \in Client,
         push' = [push EXCEPT ![attempt[a].on] = client],
         attempt' = [attempt EXCEPT ![a] = IdleAttempt],
         listener' \in Clients \cup {NoClient}
  PROVE  /\ PushInv'
         /\ \A q \in Clients : push[q].state = "ready" => push'[q].state = "ready"
<1>1. attempt[a].on \in Clients /\ push[attempt[a].on].state = "initializing"
  BY DEF PushInv, AttemptsTell
<1>2. push' \in [Clients -> Client] /\ \A q \in Clients : q # attempt[a].on => push'[q] = push[q]
  BY <1>1 DEF PushInv
<1>3. IdleAttempt \in [on : Clients \cup {NoClient}, at : {"idle", "config", "script", "wms"}]
  BY DEF IdleAttempt
<1>4. /\ attempt' \in [Attempts -> [on : Clients \cup {NoClient}, at : {"idle", "config", "script", "wms"}]]
      /\ attempt'[a] = IdleAttempt /\ \A b \in Attempts : b # a => attempt'[b] = attempt[b]
  BY <1>3 DEF PushInv
<1>5. AttemptsTell'
  BY <1>2, <1>4 DEF PushInv, AttemptsTell
<1> QED BY <1>1, <1>2, <1>4, <1>5 DEF PushInv

LEMMA FailKeeps ==
  ASSUME PushInv, NEW a \in Attempts, attempt[a] # IdleAttempt, AttemptFails(a), UNCHANGED listener
  PROVE  /\ PushInv'
         /\ \A q \in Clients : push[q].state = "ready" => push'[q].state = "ready"
<1> DEFINE p == attempt[a].on
           client == [push[p] EXCEPT !.state = "error"]
<1>1. p \in Clients /\ push[p] \in Client /\ listener' \in Clients \cup {NoClient}
  BY DEF PushInv, AttemptsTell
<1>2. client \in Client
  BY <1>1 DEF Client
<1> HIDE DEF client
<1>3. ScheduleRetry(client) \in Client
  <2>1. CASE ~RetriesLeft(client)
    BY <1>2, <2>1 DEF ScheduleRetry
  <2>2. CASE RetriesLeft(client)
    <3>1. PICK r \in 0..MaxRetries :
            ScheduleRetry(client) = [client EXCEPT !.retries = r, !.timers = client.timers + 1]
      <4>1. client.retries + 1 \in 0..MaxRetries
        BY <1>2, <2>2 DEF RetriesLeft, Client, MaxRetries
      <4>2. ScheduleRetry(client) =
              [client EXCEPT !.retries = client.retries + 1, !.timers = client.timers + 1]
        BY <2>2 DEF ScheduleRetry, RetriesLeft
      <4> QED BY <4>1, <4>2
    <3>2. client.timers + 1 \in Nat
      BY <1>2 DEF Client
    <3> QED BY <1>2, <3>1, <3>2 DEF Client
  <2> QED BY <2>1, <2>2
<1>4. /\ push' = [push EXCEPT ![p] = ScheduleRetry(client)]
      /\ attempt' = [attempt EXCEPT ![a] = IdleAttempt]
  BY <1>1 DEF AttemptFails, PushInv, client
<1> QED BY <1>1, <1>3, <1>4, EndKeeps

LEMMA AttemptKeeps ==
  ASSUME PushInv, NEW a \in Attempts, AttemptStep(a)
  PROVE  /\ PushInv'
         /\ \A q \in Clients : push[q].state = "ready" => push'[q].state = "ready"
<1>1. attempt[a] # IdleAttempt
  BY DEF AttemptStep, ConfigArrives, ConfigFails, ScriptLoads, ScriptFails, Registers, WmsIsMissing, IdleAttempt
<1>2. CASE ConfigArrives(a) \/ ScriptLoads(a)
  <2>1. PICK what \in {"script", "wms"} : Await(a, what)
    BY <1>2 DEF ConfigArrives, ScriptLoads
  <2>2. UNCHANGED <<push, listener>>
    BY <1>2 DEF ConfigArrives, ScriptLoads
  <2> QED BY <1>1, <2>1, <2>2, AwaitKeeps
<1>3. CASE ConfigFails(a) \/ ScriptFails(a) \/ WmsIsMissing(a)
  BY <1>1, <1>3, FailKeeps DEF ConfigFails, ScriptFails, WmsIsMissing
<1>4. CASE Registers(a)
  <2> DEFINE p == attempt[a].on
             client == [push[p] EXCEPT !.state = "ready", !.retries = 0]
  <2>1. p \in Clients /\ push[p] \in Client
    BY <1>1 DEF PushInv, AttemptsTell
  <2>2. client \in Client
    <3>1. 0 \in 0..MaxRetries
      BY DEF MaxRetries
    <3> QED BY <2>1, <3>1 DEF Client
  <2>3. push' = [push EXCEPT ![p] = client]
    BY <1>4, <2>1 DEF Registers, Register, PushInv
  <2>4. attempt' = [attempt EXCEPT ![a] = IdleAttempt] /\ listener' = p
    BY <1>4 DEF Registers
  <2> HIDE DEF client
  <2> QED BY <1>1, <2>1, <2>2, <2>3, <2>4, EndKeeps
<1> QED BY <1>2, <1>3, <1>4 DEF AttemptStep

LEMMA UserKeeps ==
  ASSUME PushInv, UserCall \/ (\E p \in Clients : RetryDue(p) \/ AuthRenewed(p)) \/ AuthFails
  PROVE  /\ PushInv'
         /\ \A q \in Clients : push[q].state = "ready" => push'[q].state = "ready"
<1>1. ASSUME NEW p \in Clients, UserEnables(p), UNCHANGED listener
      PROVE  /\ PushInv'
             /\ \A q \in Clients : push[q].state = "ready" => push'[q].state = "ready"
  <2>1. push[p] \in Client
    BY DEF PushInv
  <2> QED BY <1>1, <2>1, EnableKeeps DEF UserEnables
<1>2. ASSUME NEW p \in Clients, NEW client, client = [push[p] EXCEPT !.retries = 0],
             EnableNotification(p, client), UNCHANGED listener
      PROVE  /\ PushInv'
             /\ \A q \in Clients : push[q].state = "ready" => push'[q].state = "ready"
  <2>1. client \in Client /\ client.state = push[p].state
    BY <1>2 DEF PushInv, Client, MaxRetries
  <2> QED BY <1>2, <2>1, EnableKeeps
<1>3. ASSUME NEW p \in Clients, SetMessageHandler(p)
      PROVE  /\ PushInv'
             /\ \A q \in Clients : push[q].state = "ready" => push'[q].state = "ready"
  <2> DEFINE client == [push[p] EXCEPT !.callback = TRUE]
  <2>1. client \in Client /\ client.state = push[p].state
    BY DEF PushInv, Client
  <2>2. push' = [push EXCEPT ![p] = client] /\ UNCHANGED attempt /\ listener' \in Clients \cup {NoClient}
    BY <1>3 DEF SetMessageHandler, PushInv
  <2> HIDE DEF client
  <2> QED BY <2>1, <2>2, ClientKeeps
<1>4. ASSUME NEW p \in Clients, RetryDue(p)
      PROVE  /\ PushInv'
             /\ \A q \in Clients : push[q].state = "ready" => push'[q].state = "ready"
  <2> DEFINE client == [push[p] EXCEPT !.timers = @ - 1]
  <2>1. client \in Client /\ client.state = push[p].state
    BY <1>4 DEF RetryDue, PushInv, Client
  <2>2. EnableNotification(p, client) /\ UNCHANGED listener
    BY <1>4 DEF RetryDue
  <2> HIDE DEF client
  <2> QED BY <2>1, <2>2, EnableKeeps
<1>5. ASSUME NEW p \in Clients, NEW b \in BOOLEAN, push' = [push EXCEPT ![p].refused = b],
             UNCHANGED <<attempt, listener>>
      PROVE  /\ PushInv'
             /\ \A q \in Clients : push[q].state = "ready" => push'[q].state = "ready"
  <2> DEFINE client == [push[p] EXCEPT !.refused = b]
  <2>1. client \in Client /\ client.state = push[p].state
    BY DEF PushInv, Client
  <2>2. push' = [push EXCEPT ![p] = client] /\ listener' \in Clients \cup {NoClient}
    BY <1>5 DEF PushInv
  <2> HIDE DEF client
  <2> QED BY <1>5, <2>1, <2>2, ClientKeeps
<1>6. CASE UserCall
  <2>1. PICK p \in Clients :
          \/ UserEnables(p) /\ UNCHANGED listener
          \/ UserRetries(p) /\ UNCHANGED listener
          \/ SetMessageHandler(p)
    BY <1>6 DEF UserCall
  <2> QED BY <1>1, <1>2, <1>3, <2>1 DEF UserRetries
<1>7. CASE AuthFails
  <2>1. listener \in Clients
    BY <1>7 DEF AuthFails, PushInv
  <2> QED BY <1>5, <1>7, <2>1 DEF AuthFails
<1>8. ASSUME NEW p \in Clients, AuthRenewed(p)
      PROVE  /\ PushInv'
             /\ \A q \in Clients : push[q].state = "ready" => push'[q].state = "ready"
  BY <1>5, <1>8 DEF AuthRenewed
<1> QED BY <1>4, <1>6, <1>7, <1>8

LEMMA PushKeeps ==
  ASSUME PushInv, [PushNext]_pushVars
  PROVE  /\ PushInv'
         /\ \A q \in Clients : push[q].state = "ready" => push'[q].state = "ready"
<1>1. CASE WmsAppears \/ UNCHANGED pushVars
  BY <1>1 DEF WmsAppears, pushVars, PushInv, AttemptsTell
<1> QED BY <1>1, AttemptKeeps, UserKeeps DEF PushNext

(* ReadyStays (enableNotification, retry(), the timers of _scheduleRetry): for any numbers
   of clients, attempts and calls, no attempt takes a client that is ready back. *)
THEOREM ReadyClientsStay == PushSpec => ReadyStays
<1>1. PushInv /\ [PushNext]_pushVars => PushInv'
  BY PushKeeps
<1>2. PushInv /\ [PushNext]_pushVars =>
        [\A p \in Clients : push[p].state = "ready" => push'[p].state = "ready"]_pushVars
  BY PushKeeps
<1> QED BY <1>1, <1>2, PushStarts, PTL DEF PushSpec, ReadyStays

-----------------------------------------------------------------------------
(* Listings: where a generator that has its options to itself is. *)
Lists == {"objects", "versions", "rows"}
Iterator == [of : Lists, options : OptionObjects \cup {Unshared},
             at : {"idle", "asking", "yielding", "done"}, token : Nat, page : SUBSET Nat, next : Nat,
             yielded : SUBSET Nat, twice : BOOLEAN, stable : SUBSET Nat, exact : BOOLEAN]

ListingTypes ==
  /\ store \in [Keys -> SUBSET Versions] /\ rows \in SUBSET RowIds
  /\ continuation \in [OptionObjects -> Nat]
  /\ iterator \in [Iterators -> Iterator]
  /\ \A i \in Iterators : iterator[i].at # "idle" =>
       (iterator[i].of = "objects" <=> iterator[i].options \in OptionObjects)

(* No other generator is given the options of an exact one. *)
Alone(i) ==
  /\ iterator[i].at # "idle"
  /\ iterator[i].of = "objects" =>
       \A j \in Iterators : j # i => ~Shares(j, iterator[i].options)

(* What was there all the time is behind it once it has been yielded, up to the token from
   which it asks, or else is on its page, up to the token that came with that. *)
InPlace(g, token) ==
  /\ ~g.twice
  /\ g.at = "asking" =>
       /\ \A x \in g.yielded : x <= token
       /\ \A x \in g.stable : x <= token => x \in g.yielded
  /\ g.at = "yielding" =>
       /\ \A x \in g.yielded, y \in g.page : x < y
       /\ g.next # NoToken => \A x \in g.yielded \cup g.page : x <= g.next
       /\ \A x \in g.stable : g.next = NoToken \/ x <= g.next => x \in g.yielded \cup g.page
  /\ g.at = "done" => g.stable \subseteq g.yielded

ListingInv ==
  /\ ListingTypes
  /\ \A i \in Iterators :
       /\ iterator[i].at # "idle" => iterator[i].stable \subseteq Listing(iterator[i].of, store, rows)
       /\ iterator[i].exact => Alone(i) /\ InPlace(iterator[i], Token(i))

(* The least and the greatest of a set of numbers. *)

LEMMA MinOf ==
  ASSUME NEW S, S \subseteq Nat, S # {}
  PROVE  Min(S) \in S /\ \A y \in S : Min(S) <= y
<1>1. \E x \in S : \A y \in S : x <= y
  <2> DEFINE T == {0..x : x \in S}
  <2>1. \A x \in S : IsFiniteSet(0..x) /\ 0..x \subseteq Nat
    <3>1. ASSUME NEW x \in S
          PROVE  IsFiniteSet(0..x) /\ 0..x \subseteq Nat
      <4>1. x \in Int /\ 0 \in Int
        BY <3>1
      <4> QED BY <4>1, FS_Interval
    <3> QED BY <3>1
  <2>2. T \subseteq FiniteSubsetsOf(Nat) /\ T # {}
    BY <2>1 DEF FiniteSubsetsOf
  <2>3. PICK least \in T : \A y \in T : <<y, least>> \notin StrictSubsetOrdering(Nat)
    BY <2>2, FS_StrictSubsetOrderingWellFounded, WFMin
  <2>4. PICK x \in S : least = 0..x
    BY <2>3
  <2>5. ASSUME NEW y \in S, y < x
        PROVE  FALSE
    <3>1. 0..y \subseteq 0..x /\ x \in 0..x /\ x \notin 0..y
      BY <2>5
    <3>2. <<0..y, 0..x>> \in StrictSubsetOrdering(Nat)
      BY <2>1, <3>1 DEF StrictSubsetOrdering
    <3> QED BY <2>3, <2>4, <3>2
  <2> QED BY <2>5
<1> QED BY <1>1 DEF Min

LEMMA MaxOf ==
  ASSUME NEW S, S \subseteq Nat, S # {}, IsFiniteSet(S)
  PROVE  Max(S) \in S /\ \A y \in S : y <= Max(S)
<1>1. \E x \in S : \A y \in S : x >= y
  <2> DEFINE Above(x) == {y \in S : y > x}
             T == {Above(x) : x \in S}
  <2>1. \A x \in S : IsFiniteSet(Above(x)) /\ Above(x) \subseteq Nat
    BY FS_Subset
  <2>2. T \subseteq FiniteSubsetsOf(Nat) /\ T # {}
    BY <2>1 DEF FiniteSubsetsOf
  <2>3. PICK least \in T : \A y \in T : <<y, least>> \notin StrictSubsetOrdering(Nat)
    BY <2>2, FS_StrictSubsetOrderingWellFounded, WFMin
  <2>4. PICK x \in S : least = Above(x)
    BY <2>3
  <2>5. ASSUME NEW y \in S, y > x
        PROVE  FALSE
    <3>1. Above(y) \subseteq Above(x) /\ y \in Above(x) /\ y \notin Above(y)
      <4>1. x \in Nat /\ y \in Nat
        BY <2>5
      <4>2. ~(y > y) /\ \A z \in Nat : z > y => z > x
        BY <2>5, <4>1
      <4>3. Above(y) \subseteq Above(x)
        BY <4>2
      <4>4. y \in Above(x) /\ y \notin Above(y)
        BY <2>5, <4>2
      <4> QED BY <4>3, <4>4
    <3>2. <<Above(y), Above(x)>> \in StrictSubsetOrdering(Nat)
      BY <2>1, <3>1 DEF StrictSubsetOrdering
    <3> QED BY <2>3, <2>4, <3>2
  <2> QED BY <2>5
<1> QED BY <1>1 DEF Max

LEMMA ListingIsNat ==
  ASSUME NEW s \in [Keys -> SUBSET Versions], NEW t \in SUBSET RowIds, NEW list \in Lists
  PROVE  /\ Listing(list, s, t) \subseteq Nat
         /\ \A x \in Listing(list, s, t) : x > NoToken
         /\ IsFiniteSet(Listing(list, s, t))
<1>1. /\ Keys \subseteq Nat \ {0} /\ Versions \subseteq Nat \ {0} /\ RowIds \subseteq Nat \ {0}
      /\ IsFiniteSet(Keys) /\ IsFiniteSet(Versions) /\ IsFiniteSet(RowIds) /\ Keys # {}
  BY ListingAssumption DEF ListingAssumption
<1>2. VersionedKey \in Keys
  BY <1>1, MinOf DEF VersionedKey
<1>3. PICK S \in {Keys, Versions, RowIds} : Listing(list, s, t) \subseteq S
  BY <1>2 DEF Listing, Lists
<1>4. S \subseteq Nat \ {0} /\ IsFiniteSet(S)
  BY <1>1
<1>5. IsFiniteSet(Listing(list, s, t))
  BY <1>3, <1>4, FS_Subset
<1>6. \A x \in Nat \ {0} : x > NoToken
  BY DEF NoToken
<1> QED BY <1>3, <1>4, <1>5, <1>6

(* Whatever becomes of the store, a generator stays in place. *)
LEMMA StoreKeepsListing ==
  ASSUME ListingInv, NEW s \in [Keys -> SUBSET Versions], NEW t \in SUBSET RowIds,
         Becomes(s, t), UNCHANGED continuation
  PROVE  ListingInv'
<1>1. /\ store' = s /\ rows' = t /\ continuation' = continuation
      /\ iterator' = [i \in Iterators |->
                        [iterator[i] EXCEPT !.stable = @ \cap Listing(iterator[i].of, s, t)]]
  BY DEF Becomes
<1>2. ASSUME NEW i \in Iterators
      PROVE  /\ iterator[i] \in Iterator /\ iterator'[i] \in Iterator
             /\ iterator'[i].stable = iterator[i].stable \cap Listing(iterator[i].of, s, t)
             /\ iterator'[i].of = iterator[i].of /\ iterator'[i].options = iterator[i].options
             /\ iterator'[i].at = iterator[i].at /\ iterator'[i].token = iterator[i].token
             /\ iterator'[i].page = iterator[i].page /\ iterator'[i].next = iterator[i].next
             /\ iterator'[i].yielded = iterator[i].yielded /\ iterator'[i].twice = iterator[i].twice
             /\ iterator'[i].exact = iterator[i].exact
  <2>1. iterator[i] \in Iterator
    BY DEF ListingInv, ListingTypes
  <2>2. iterator'[i] = [iterator[i] EXCEPT !.stable = iterator[i].stable \cap Listing(iterator[i].of, s, t)]
    BY <1>1
  <2>3. iterator[i].stable \cap Listing(iterator[i].of, s, t) \in SUBSET Nat
    BY <2>1 DEF Iterator
  <2>4. iterator'[i] \in Iterator
    BY <2>1, <2>2, <2>3 DEF Iterator
  <2> QED BY <2>1, <2>2, <2>4 DEF Iterator
<1>3. iterator' \in [Iterators -> Iterator]
  BY <1>1, <1>2
<1>4. ListingTypes'
  BY <1>1, <1>2, <1>3 DEF ListingInv, ListingTypes
<1>5. ASSUME NEW i \in Iterators, iterator[i].exact
      PROVE  Alone(i)' /\ InPlace(iterator'[i], Token(i)')
  <2>1. Alone(i) /\ InPlace(iterator[i], Token(i))
    BY <1>5 DEF ListingInv
  <2>2. Token(i)' = Token(i)
    BY <1>1, <1>2 DEF Token
  <2>3. Alone(i)'
    BY <1>2, <2>1 DEF Alone, Shares
  <2>4. InPlace(iterator'[i], Token(i))
    BY <1>2, <2>1 DEF InPlace
  <2> QED BY <2>2, <2>3, <2>4
<1> QED BY <1>1, <1>2, <1>4, <1>5 DEF ListingInv

(* A generator that goes on, and moves no token but its own. *)
LEMMA GeneratorMoves ==
  ASSUME ListingInv, NEW i \in Iterators, NEW g \in Iterator, iterator[i].at # "idle", g.at # "idle",
         iterator' = [iterator EXCEPT ![i] = g], UNCHANGED <<store, rows>>,
         g.of = iterator[i].of, g.options = iterator[i].options,
         g.exact = iterator[i].exact, g.stable = iterator[i].stable,
         continuation' \in [OptionObjects -> Nat],
         \A o \in OptionObjects : continuation'[o] = continuation[o]
                                    \/ (iterator[i].of = "objects" /\ o = iterator[i].options),
         iterator[i].exact => InPlace(g, Token(i)')
  PROVE  ListingInv'
<1>1. /\ iterator' \in [Iterators -> Iterator] /\ iterator'[i] = g
      /\ \A j \in Iterators : j # i => iterator'[j] = iterator[j]
  BY DEF ListingInv, ListingTypes
<1>2. ListingTypes'
  BY <1>1 DEF ListingInv, ListingTypes
<1>3. \A j \in Iterators : iterator'[j].at # "idle" =>
        iterator'[j].stable \subseteq Listing(iterator'[j].of, store', rows')
  BY <1>1 DEF ListingInv
<1>4. \A j \in Iterators : iterator'[j].exact => Alone(j)'
  BY <1>1 DEF ListingInv, Alone, Shares
<1>5. ASSUME NEW j \in Iterators, j # i, iterator[j].exact
      PROVE  InPlace(iterator'[j], Token(j)')
  <2>1. Alone(j) /\ InPlace(iterator[j], Token(j)) /\ iterator'[j] = iterator[j]
    BY <1>1, <1>5 DEF ListingInv
  <2>2. Token(j)' = Token(j)
    <3>1. CASE iterator[j].of = "objects"
      <4>1. iterator[j].options \in OptionObjects
        BY <2>1, <3>1 DEF Alone, ListingInv, ListingTypes
      <4>2. ~(iterator[i].of = "objects" /\ iterator[i].options = iterator[j].options)
        BY <1>5, <2>1, <3>1 DEF Alone, Shares
      <4>3. continuation'[iterator[j].options] = continuation[iterator[j].options]
        BY <4>1, <4>2
      <4> QED BY <2>1, <3>1, <4>3 DEF Token
    <3>2. CASE iterator[j].of # "objects"
      BY <2>1, <3>2 DEF Token
    <3> QED BY <3>1, <3>2
  <2> QED BY <2>1, <2>2
<1> QED BY <1>1, <1>2, <1>3, <1>4, <1>5 DEF ListingInv

LEMMA LeaveKeepsListing ==
  ASSUME ListingInv, NEW i \in Iterators, Leave(i)
  PROVE  ListingInv'
<1>1. /\ IdleIterator \in Iterator /\ IdleIterator.at = "idle" /\ IdleIterator.exact = FALSE
  <2>1. {} \in SUBSET Nat /\ NoToken \in Nat
    BY DEF NoToken
  <2> QED BY <2>1 DEF IdleIterator, Iterator, Lists
<1>2. /\ iterator' \in [Iterators -> Iterator] /\ iterator'[i] = IdleIterator
      /\ \A j \in Iterators : j # i => iterator'[j] = iterator[j]
      /\ UNCHANGED <<store, rows, continuation>>
  BY <1>1 DEF Leave, ListingInv, ListingTypes
<1> HIDE DEF IdleIterator
<1>3. ListingTypes'
  BY <1>1, <1>2 DEF ListingInv, ListingTypes
<1>4. \A j \in Iterators : iterator'[j].at # "idle" =>
        iterator'[j].stable \subseteq Listing(iterator'[j].of, store', rows')
  BY <1>1, <1>2 DEF ListingInv
<1>5. ASSUME NEW j \in Iterators, iterator'[j].exact
      PROVE  Alone(j)' /\ InPlace(iterator'[j], Token(j)')
  <2>1. j # i /\ iterator'[j] = iterator[j] /\ Alone(j) /\ InPlace(iterator[j], Token(j))
    BY <1>1, <1>2, <1>5 DEF ListingInv
  <2>2. Alone(j)'
    BY <1>1, <1>2, <2>1 DEF Alone, Shares
  <2>3. Token(j)' = Token(j)
    BY <1>2, <2>1 DEF Token
  <2> QED BY <2>1, <2>2, <2>3
<1> QED BY <1>3, <1>4, <1>5 DEF ListingInv

(* A generator starts at the beginning, or is not exact; so are those, from now on, with
   which it shares its options. *)
LEMMA StartKeepsListing ==
  ASSUME ListingInv, NEW i \in Iterators, NEW list \in Lists, NEW o \in OptionObjects \cup {Unshared},
         Start(i, list, o)
  PROVE  ListingInv'
<1> DEFINE there == Listing(list, store, rows)
           exact == list # "objects" \/ (continuation[o] = NoToken /\ \A k \in Iterators : ~Shares(k, o))
<1>1. Unshared \notin OptionObjects
  BY ListingAssumption DEF ListingAssumption
<1>2. /\ iterator[i].at = "idle" /\ (list = "objects" <=> o # Unshared)
      /\ UNCHANGED <<store, rows, continuation>>
      /\ iterator' = [j \in Iterators |->
           IF j = i
           THEN [IdleIterator EXCEPT !.of = list, !.options = o, !.at = "asking", !.stable = there, !.exact = exact]
           ELSE [iterator[j] EXCEPT !.exact = @ /\ ~(o # Unshared /\ Shares(j, o))]]
  BY DEF Start
<1>3. there \subseteq Nat /\ \A x \in there : x > NoToken
  BY ListingIsNat DEF ListingInv, ListingTypes
<1>4. exact \in BOOLEAN
  OBVIOUS
<1> HIDE DEF there, exact
<1>5. /\ iterator'[i] \in Iterator /\ iterator'[i].of = list /\ iterator'[i].options = o
      /\ iterator'[i].at = "asking" /\ iterator'[i].stable = there /\ iterator'[i].exact = exact
      /\ iterator'[i].token = NoToken /\ iterator'[i].yielded = {} /\ iterator'[i].twice = FALSE
  <2>1. iterator'[i] = [IdleIterator EXCEPT !.of = list, !.options = o, !.at = "asking", !.stable = there, !.exact = exact]
    BY <1>2
  <2>2. {} \in SUBSET Nat /\ NoToken \in Nat /\ there \in SUBSET Nat
    BY <1>3 DEF NoToken
  <2> QED BY <1>4, <2>1, <2>2 DEF IdleIterator, Iterator
<1>6. ASSUME NEW j \in Iterators, j # i
      PROVE  /\ iterator[j] \in Iterator /\ iterator'[j] \in Iterator
             /\ iterator'[j].exact => iterator[j].exact /\ ~(o # Unshared /\ Shares(j, o))
             /\ iterator'[j].of = iterator[j].of /\ iterator'[j].options = iterator[j].options
             /\ iterator'[j].at = iterator[j].at /\ iterator'[j].token = iterator[j].token
             /\ iterator'[j].page = iterator[j].page /\ iterator'[j].next = iterator[j].next
             /\ iterator'[j].yielded = iterator[j].yielded /\ iterator'[j].twice = iterator[j].twice
             /\ iterator'[j].stable = iterator[j].stable
  <2>1. iterator[j] \in Iterator
    BY DEF ListingInv, ListingTypes
  <2>2. PICK b \in BOOLEAN : b = (iterator[j].exact /\ ~(o # Unshared /\ Shares(j, o)))
    OBVIOUS
  <2>3. iterator'[j] = [iterator[j] EXCEPT !.exact = b]
    BY <1>2, <1>6, <2>2
  <2> QED BY <2>1, <2>2, <2>3 DEF Iterator
<1>7. iterator' \in [Iterators -> Iterator]
  BY <1>2, <1>5, <1>6
<1>8. ListingTypes'
  BY <1>1, <1>2, <1>5, <1>6, <1>7 DEF ListingInv, ListingTypes
<1>9. \A j \in Iterators : iterator'[j].at # "idle" =>
        iterator'[j].stable \subseteq Listing(iterator'[j].of, store', rows')
  BY <1>2, <1>5, <1>6 DEF ListingInv, there
<1>10. ASSUME NEW j \in Iterators, j # i, iterator'[j].exact
       PROVE  Alone(j)' /\ InPlace(iterator'[j], Token(j)')
  <2>1. Alone(j) /\ InPlace(iterator[j], Token(j)) /\ ~(o # Unshared /\ Shares(j, o))
    BY <1>6, <1>10 DEF ListingInv
  <2>2. Token(j)' = Token(j)
    BY <1>2, <1>6, <1>10 DEF Token
  <2>3. iterator[j].of = "objects" => ~(list = "objects" /\ o = iterator[j].options)
    BY <1>2, <2>1 DEF Shares, Alone
  <2>4. ASSUME NEW k \in Iterators, k # j, iterator[j].of = "objects"
        PROVE  ~Shares(k, iterator[j].options)'
    <3>1. CASE k = i
      BY <1>5, <2>3, <2>4, <3>1, <1>6, <1>10 DEF Shares
    <3>2. CASE k # i
      BY <1>6, <1>10, <2>1, <2>4, <3>2 DEF Alone, Shares
    <3> QED BY <3>1, <3>2
  <2>5. Alone(j)'
    BY <1>6, <1>10, <2>1, <2>4 DEF Alone
  <2> QED BY <1>6, <1>10, <2>1, <2>2, <2>5 DEF InPlace
<1>11. ASSUME exact
       PROVE  Alone(i)' /\ InPlace(iterator'[i], Token(i)')
  <2>1. Token(i)' = NoToken
    BY <1>2, <1>5, <1>11 DEF Token, exact
  <2>2. InPlace(iterator'[i], NoToken)
    BY <1>3, <1>5 DEF InPlace, NoToken
  <2>3. \A k \in Iterators : k # i /\ list = "objects" => ~Shares(k, o)'
    BY <1>6, <1>11 DEF Shares, exact
  <2> QED BY <1>5, <2>1, <2>2, <2>3 DEF Alone
<1> QED BY <1>5, <1>8, <1>9, <1>10, <1>11 DEF ListingInv

(* The page that arrives begins behind all that was yielded, and all that is missing on
   it comes after its token. *)
LEMMA PageKeepsListing ==
  ASSUME ListingInv, NEW i \in Iterators, PageArrives(i)
  PROVE  ListingInv'
<1> DEFINE list == iterator[i].of
           all == Listing(list, store, rows)
<1>1. PICK page \in SUBSET all :
        /\ Page(list, Token(i), page)
        /\ iterator' = [iterator EXCEPT ![i].at = "yielding", ![i].page = page,
                                        ![i].next = NextToken(list, page)]
  BY DEF PageArrives
<1>2. /\ iterator[i] \in Iterator /\ iterator[i].at = "asking" /\ list \in Lists
      /\ UNCHANGED <<store, rows, continuation>>
  BY DEF PageArrives, ListingInv, ListingTypes, Iterator
<1>3. all \subseteq Nat /\ (\A x \in all : x > NoToken) /\ IsFiniteSet(all)
  BY <1>2, ListingIsNat DEF ListingInv, ListingTypes
<1>4. page \subseteq Nat /\ IsFiniteSet(page)
  BY <1>3, FS_Subset
<1> DEFINE next == NextToken(list, page)
<1> HIDE DEF all, list
<1>5. \/ next = NoToken /\ (page # {} => \A x \in all : ~(x > Max(page)))
      \/ page # {} /\ next = Max(page)
  BY DEF NextToken, all
<1>6. page # {} => Max(page) \in page /\ \A x \in page : x <= Max(page)
  BY <1>4, MaxOf
<1>7. next \in Nat /\ (next # NoToken => \A x \in page : x <= next)
  <2> HIDE DEF next
  <2>1. CASE next = NoToken
    BY <2>1 DEF NoToken
  <2>2. CASE page # {} /\ next = Max(page)
    BY <1>4, <1>6, <2>2
  <2> QED BY <1>5, <2>1, <2>2
<1> HIDE DEF next
<1> DEFINE g == [iterator[i] EXCEPT !.at = "yielding", !.page = page, !.next = next]
<1>8. /\ g \in Iterator /\ g.at = "yielding" /\ g.page = page /\ g.next = next
      /\ g.of = iterator[i].of /\ g.options = iterator[i].options
      /\ g.exact = iterator[i].exact /\ g.stable = iterator[i].stable
      /\ g.yielded = iterator[i].yielded /\ g.twice = iterator[i].twice
  BY <1>2, <1>4, <1>7 DEF Iterator
<1>9. iterator' = [iterator EXCEPT ![i] = g]
  BY <1>1 DEF next
<1> HIDE DEF g
<1>10. ASSUME iterator[i].exact
       PROVE  InPlace(g, Token(i)')
  <2> DEFINE token == Token(i)
  <2>1. InPlace(iterator[i], token) /\ iterator[i].stable \subseteq all
    BY <1>2, <1>10 DEF ListingInv, all, list
  <2>2. token \in Nat
    BY <1>2, <1>10 DEF Token, ListingInv, ListingTypes, Iterator, Alone
  <2> HIDE DEF token
  <2>3. /\ page \subseteq {x \in all : x > token}
        /\ \A x \in page, y \in {z \in all : z > token} \ page : x < y
        /\ page = {} => {x \in all : x > token} = {}
    BY <1>1 DEF Page, all, token
  <2>4. iterator[i].yielded \subseteq Nat /\ iterator[i].stable \subseteq Nat
    BY <1>2 DEF Iterator
  <2>5. \A x \in g.yielded, y \in g.page : x < y
    <3>1. ASSUME NEW x \in g.yielded, NEW y \in g.page
          PROVE  x < y
      <4>1. x \in Nat /\ y \in Nat /\ x <= token /\ y > token
        BY <1>2, <1>4, <1>8, <2>1, <2>3, <2>4, <3>1 DEF InPlace
      <4> QED BY <2>2, <4>1
    <3> QED BY <3>1
  <2>6. ASSUME g.next # NoToken, NEW x \in g.yielded \cup g.page
        PROVE  x <= g.next
    <3>1. next \in page /\ next > token /\ next \in Nat
      BY <1>5, <1>6, <1>7, <1>8, <2>3, <2>6
    <3>2. CASE x \in g.page
      BY <1>7, <1>8, <2>6, <3>2
    <3>3. CASE x \in g.yielded
      <4>1. x \in Nat /\ x <= token
        BY <1>2, <1>8, <2>1, <2>4, <3>3 DEF InPlace
      <4> QED BY <1>8, <2>2, <3>1, <4>1
    <3> QED BY <2>6, <3>2, <3>3
  <2>7. ASSUME NEW x \in g.stable, g.next = NoToken \/ x <= g.next
        PROVE  x \in g.yielded \cup g.page
    <3>1. x \in Nat /\ x \in all /\ (x <= token => x \in iterator[i].yielded)
      BY <1>2, <1>8, <2>1, <2>4 DEF InPlace
    <3>2. CASE x <= token
      BY <1>8, <3>1, <3>2
    <3>3. CASE ~(x <= token)
      <4>1. x > token /\ page # {}
        BY <2>2, <2>3, <3>1, <3>3
      <4>2. Max(page) \in page /\ Max(page) \in Nat
        BY <1>4, <1>6, <4>1
      <4>3. x <= Max(page)
        <5>1. CASE next = NoToken /\ \A y \in all : ~(y > Max(page))
          BY <3>1, <4>2, <5>1
        <5>2. CASE next = Max(page)
          <6>1. Max(page) # NoToken
            BY <1>3, <4>2
          <6> QED BY <1>8, <2>7, <5>2, <6>1
        <5> QED BY <1>5, <4>1, <5>1, <5>2
      <4>4. x \in page
        BY <2>3, <3>1, <4>1, <4>2, <4>3
      <4> QED BY <1>8, <4>4
    <3> QED BY <3>2, <3>3
  <2>8. ~g.twice
    BY <1>8, <2>1 DEF InPlace
  <2> QED BY <1>8, <2>5, <2>6, <2>7, <2>8 DEF InPlace
<1>11. continuation' \in [OptionObjects -> Nat]
  BY <1>2 DEF ListingInv, ListingTypes
<1> QED BY <1>2, <1>8, <1>9, <1>10, <1>11, GeneratorMoves

LEMMA YieldKeepsListing ==
  ASSUME ListingInv, NEW i \in Iterators, Yield(i)
  PROVE  ListingInv'
<1> DEFINE page == iterator[i].page
           x == Min(page)
<1>1. /\ iterator[i] \in Iterator /\ iterator[i].at = "yielding" /\ page # {} /\ page \subseteq Nat
      /\ iterator[i].yielded \subseteq Nat
      /\ UNCHANGED <<store, rows, continuation>>
  BY DEF Yield, ListingInv, ListingTypes, Iterator
<1>2. x \in page /\ x \in Nat /\ \A y \in page : x <= y
  BY <1>1, MinOf
<1>3. iterator' = [iterator EXCEPT ![i].page = @ \ {x}, ![i].yielded = @ \cup {x},
                                   ![i].twice = @ \/ x \in iterator[i].yielded]
  BY DEF Yield
<1> HIDE DEF x
<1>4. PICK b \in BOOLEAN : b = (iterator[i].twice \/ x \in iterator[i].yielded)
  OBVIOUS
<1> DEFINE g == [iterator[i] EXCEPT !.page = @ \ {x}, !.yielded = @ \cup {x}, !.twice = b]
<1>5. /\ g \in Iterator /\ g.at = "yielding" /\ g.page = page \ {x} /\ g.next = iterator[i].next
      /\ g.of = iterator[i].of /\ g.options = iterator[i].options
      /\ g.exact = iterator[i].exact /\ g.stable = iterator[i].stable
      /\ g.yielded = iterator[i].yielded \cup {x} /\ g.twice = b
  <2>1. page \ {x} \in SUBSET Nat /\ iterator[i].yielded \cup {x} \in SUBSET Nat
    BY <1>1, <1>2
  <2> QED BY <1>1, <2>1 DEF Iterator
<1>6. iterator' = [iterator EXCEPT ![i] = g]
  BY <1>1, <1>3, <1>4 DEF Iterator, ListingInv, ListingTypes
<1> HIDE DEF g
<1>7. ASSUME iterator[i].exact
      PROVE  InPlace(g, Token(i)')
  <2>1. InPlace(iterator[i], Token(i))
    BY <1>7 DEF ListingInv
  <2>2. x \notin iterator[i].yielded
    BY <1>1, <1>2, <2>1 DEF InPlace
  <2>3. \A y \in g.yielded, z \in g.page : y < z
    <3>1. ASSUME NEW y \in g.yielded, NEW z \in g.page
          PROVE  y < z
      <4>1. z \in page /\ z # x /\ z \in Nat /\ y \in Nat /\ x <= z
        BY <1>1, <1>2, <1>5, <3>1
      <4>2. CASE y = x
        BY <4>1, <4>2
      <4>3. CASE y \in iterator[i].yielded
        BY <1>1, <2>1, <4>1, <4>3 DEF InPlace
      <4> QED BY <1>5, <4>2, <4>3
    <3> QED BY <3>1
  <2>4. g.yielded \cup g.page = iterator[i].yielded \cup page /\ ~g.twice
    BY <1>2, <1>4, <1>5, <2>1, <2>2 DEF InPlace
  <2> QED BY <1>1, <1>5, <2>1, <2>3, <2>4 DEF InPlace
<1>8. continuation' \in [OptionObjects -> Nat]
  BY <1>1 DEF ListingInv, ListingTypes
<1> QED BY <1>1, <1>5, <1>6, <1>7, <1>8, GeneratorMoves

(* The token of the page that is through becomes the generator's own, or that of the
   options that no other one has. *)
LEMMA DoneKeepsListing ==
  ASSUME ListingInv, NEW i \in Iterators, PageDone(i)
  PROVE  ListingInv'
<1> DEFINE next == iterator[i].next
           at == IF More(i) THEN "asking" ELSE "done"
           g == [iterator[i] EXCEPT !.at = at, !.token = next]
<1>1. /\ iterator[i] \in Iterator /\ iterator[i].at = "yielding" /\ iterator[i].page = {}
      /\ next \in Nat /\ UNCHANGED <<store, rows>>
      /\ iterator[i].of = "objects" <=> iterator[i].options \in OptionObjects
  BY DEF PageDone, ListingInv, ListingTypes, Iterator
<1>2. at \in {"asking", "done"} /\ (at = "done" <=> next = NoToken)
  BY DEF More
<1>3. iterator' = [iterator EXCEPT ![i] = g]
  BY DEF PageDone, ListingInv, ListingTypes
<1>4. continuation' = IF iterator[i].of = "objects"
                      THEN [continuation EXCEPT ![iterator[i].options] = next]
                      ELSE continuation
  BY DEF PageDone
<1> HIDE DEF at, next
<1>5. /\ g \in Iterator /\ g.at = at /\ g.page = {} /\ g.next = next /\ g.token = next
      /\ g.of = iterator[i].of /\ g.options = iterator[i].options
      /\ g.exact = iterator[i].exact /\ g.stable = iterator[i].stable
      /\ g.yielded = iterator[i].yielded /\ g.twice = iterator[i].twice
  <2>1. iterator[i].next = next
    BY DEF next
  <2> QED BY <1>1, <1>2, <2>1 DEF Iterator
<1> HIDE DEF g
<1>6. /\ continuation' \in [OptionObjects -> Nat]
      /\ \A o \in OptionObjects : continuation'[o] = continuation[o]
                                    \/ (iterator[i].of = "objects" /\ o = iterator[i].options)
      /\ iterator[i].of = "objects" => continuation'[iterator[i].options] = next
  BY <1>1, <1>4 DEF ListingInv, ListingTypes
<1>7. Token(i)' = next
  <2>1. iterator'[i] = g
    BY <1>3 DEF ListingInv, ListingTypes
  <2> QED BY <1>5, <1>6, <2>1 DEF Token
<1>8. ASSUME iterator[i].exact
      PROVE  InPlace(g, next)
  <2>1. InPlace(iterator[i], Token(i)) /\ iterator[i].next = next
    BY <1>8 DEF ListingInv, next
  <2>2. CASE next # NoToken
    BY <1>1, <1>2, <1>5, <2>1, <2>2 DEF InPlace
  <2>3. CASE next = NoToken
    BY <1>1, <1>2, <1>5, <2>1, <2>3 DEF InPlace
  <2> QED BY <2>2, <2>3
<1> QED BY <1>1, <1>2, <1>3, <1>5, <1>6, <1>7, <1>8, GeneratorMoves

LEMMA StepKeepsListing ==
  ASSUME ListingInv, NEW i \in Iterators, ListingStep(i)
  PROVE  ListingInv'
BY LeaveKeepsListing, PageKeepsListing, YieldKeepsListing, DoneKeepsListing DEF ListingStep

LEMMA NothingKeepsListing ==
  ASSUME ListingInv, UNCHANGED listingVars
  PROVE  ListingInv'
BY DEF ListingInv, ListingTypes, Alone, Shares, Token, listingVars

LEMMA ListingStarts ==
  ASSUME IteratorInit, store \in [Keys -> SUBSET Versions], rows \in SUBSET RowIds
  PROVE  ListingInv
<1>1. /\ IdleIterator \in Iterator /\ IdleIterator.at = "idle" /\ IdleIterator.exact = FALSE
  <2>1. {} \in SUBSET Nat /\ NoToken \in Nat
    BY DEF NoToken
  <2> QED BY <2>1 DEF IdleIterator, Iterator, Lists
<1>2. \A i \in Iterators : iterator[i] = IdleIterator
  BY DEF IteratorInit
<1>3. ListingTypes
  BY <1>1 DEF IteratorInit, ListingTypes, NoToken
<1> QED BY <1>1, <1>2, <1>3 DEF ListingInv

(* What the methods of a bucket do to it keeps its type. *)
LEMMA BucketBecomes ==
  ASSUME ListingInv, BucketStep
  PROVE  \E s \in [Keys -> SUBSET Versions] : StoreBecomes(s)
<1>1. store \in [Keys -> SUBSET Versions]
  BY DEF ListingInv, ListingTypes
<1>2. CASE PutObject
  <2>1. PICK files \in SUBSET Keys, v \in Versions, versioned \in BOOLEAN :
          StoreBecomes([k \in Keys |->
            IF k \notin files THEN store[k] ELSE IF versioned THEN store[k] \cup {v} ELSE {v}])
    BY <1>2 DEF PutObject
  <2>2. [k \in Keys |-> IF k \notin files THEN store[k] ELSE IF versioned THEN store[k] \cup {v} ELSE {v}]
          \in [Keys -> SUBSET Versions]
    BY <1>1
  <2> QED BY <2>1, <2>2
<1>3. CASE CompleteMultipartUpload
  <2>1. PICK k \in Keys, v \in Versions : StoreBecomes([store EXCEPT ![k] = @ \cup {v}])
    BY <1>3 DEF CompleteMultipartUpload
  <2>2. [store EXCEPT ![k] = @ \cup {v}] \in [Keys -> SUBSET Versions]
    BY <1>1
  <2> QED BY <2>1, <2>2
<1>4. CASE DeleteObject
  <2>1. PICK k \in Keys : \E left \in {store[k] \ {v} : v \in store[k]} \cup {{}} :
          StoreBecomes([store EXCEPT ![k] = left])
    BY <1>4 DEF DeleteObject
  <2>2. PICK left \in SUBSET Versions : StoreBecomes([store EXCEPT ![k] = left])
    BY <1>1, <2>1
  <2>3. [store EXCEPT ![k] = left] \in [Keys -> SUBSET Versions]
    BY <1>1
  <2> QED BY <2>2, <2>3
<1>5. CASE DeleteObjects
  BY <1>5 DEF DeleteObjects
<1>6. CASE CopyObject
  <2>1. PICK dest \in Keys, v \in Versions : StoreBecomes([store EXCEPT ![dest] = @ \cup {v}])
    BY <1>6 DEF CopyObject
  <2>2. [store EXCEPT ![dest] = @ \cup {v}] \in [Keys -> SUBSET Versions]
    BY <1>1
  <2> QED BY <2>1, <2>2
<1>7. CASE RenameObject
  <2>1. PICK k \in Keys, dest \in Keys : StoreBecomes([store EXCEPT ![dest] = store[k], ![k] = {}])
    BY <1>7 DEF RenameObject
  <2>2. [store EXCEPT ![dest] = store[k], ![k] = {}] \in [Keys -> SUBSET Versions]
    BY <1>1
  <2> QED BY <2>1, <2>2
<1>8. CASE DeletePath \/ Truncate
  <2>1. PICK gone \in SUBSET Keys : StoreBecomes([k \in Keys |-> IF k \in gone THEN {} ELSE store[k]])
    <3>1. CASE Truncate
      <4>1. [k \in Keys |-> {}] = [k \in Keys |-> IF k \in Keys THEN {} ELSE store[k]]
        OBVIOUS
      <4> QED BY <3>1, <4>1 DEF Truncate
    <3>2. CASE DeletePath
      <4>1. PICK first \in Keys, last \in Keys :
              StoreBecomes([k \in Keys |-> IF first <= k /\ k <= last THEN {} ELSE store[k]])
        BY <3>2 DEF DeletePath
      <4>2. [k \in Keys |-> IF first <= k /\ k <= last THEN {} ELSE store[k]]
              = [k \in Keys |-> IF k \in {n \in Keys : first <= n /\ n <= last} THEN {} ELSE store[k]]
        OBVIOUS
      <4> QED BY <4>1, <4>2
    <3> QED BY <1>8, <3>1, <3>2
  <2>2. [k \in Keys |-> IF k \in gone THEN {} ELSE store[k]] \in [Keys -> SUBSET Versions]
    BY <1>1
  <2> QED BY <2>1, <2>2
<1>9. CASE UnzipObject
  <2>1. PICK files \in SUBSET Keys, v \in Versions :
          StoreBecomes([k \in Keys |-> IF k \in files THEN store[k] \cup {v} ELSE store[k]])
    BY <1>9 DEF UnzipObject
  <2>2. [k \in Keys |-> IF k \in files THEN store[k] \cup {v} ELSE store[k]] \in [Keys -> SUBSET Versions]
    BY <1>1
  <2> QED BY <2>1, <2>2
<1> QED BY <1>2, <1>3, <1>4, <1>5, <1>6, <1>7, <1>8, <1>9 DEF BucketStep

LEMMA ObjectsKeep ==
  ASSUME ListingInv, [ObjectsNext]_listingVars
  PROVE  ListingInv'
<1>1. CASE BucketStep
  <2>1. PICK s \in [Keys -> SUBSET Versions] : StoreBecomes(s)
    BY <1>1, BucketBecomes
  <2>2. rows \in SUBSET RowIds
    BY DEF ListingInv, ListingTypes
  <2> QED BY <2>1, <2>2, StoreKeepsListing DEF StoreBecomes
<1>2. ASSUME NEW i \in Iterators, NEW list \in Lists, NEW o \in OptionObjects \cup {Unshared}, Start(i, list, o)
      PROVE  ListingInv'
  BY <1>2, StartKeepsListing
<1>3. CASE UNCHANGED listingVars
  BY <1>3, NothingKeepsListing
<1> QED BY <1>1, <1>2, <1>3, StepKeepsListing DEF ObjectsNext, Lists

LEMMA RowsKeep ==
  ASSUME ListingInv, [RowsNext]_dataVars
  PROVE  ListingInv'
<1>1. CASE \E t \in SUBSET RowIds : RowsBecome(t)
  <2>1. store \in [Keys -> SUBSET Versions]
    BY DEF ListingInv, ListingTypes
  <2> QED BY <1>1, <2>1, StoreKeepsListing DEF RowsBecome
<1>2. rows \in SUBSET RowIds
  BY DEF ListingInv, ListingTypes
<1>3. ASSUME NEW ids \in SUBSET RowIds,
             InsertRows(ids) \/ UpdateRows(ids) \/ DeleteRows(ids) \/ ExecuteQuery(ids)
      PROVE  ListingInv'
  BY <1>1, <1>2, <1>3 DEF InsertRows, UpdateRows, DeleteRows, ExecuteQuery
<1>4. CASE JobWrites
  BY <1>1, <1>2, <1>4 DEF JobWrites
<1>5. CASE UNCHANGED listingVars
  BY <1>5, NothingKeepsListing
<1>6. ASSUME NEW type, CreateJob(type) \/ JobCompletes(type)
      PROVE  ListingInv'
  BY <1>5, <1>6 DEF CreateJob, JobCompletes
<1>7. ASSUME NEW i \in Iterators, Start(i, "rows", Unshared)
      PROVE  ListingInv'
  BY <1>7, StartKeepsListing DEF Lists
<1> QED BY <1>3, <1>4, <1>5, <1>6, <1>7, StepKeepsListing DEF RowsNext, DataStep, dataVars

LEMMA InPlaceIsStable == ListingInv => StableListed
BY DEF ListingInv, InPlace, StableListed

(* StableListed (listIterableObjects, listIterableVersions): for any keys and versions, any
   size of a page, and any number of generators, one that began at the beginning with
   options of its own yields nothing twice and all that was there all the time. *)
THEOREM ObjectsListedOnce == ObjectsSpec => []StableListed
<1>1. ASSUME BucketInit, rows = {}, IteratorInit
      PROVE  ListingInv
  BY <1>1, ListingStarts DEF BucketInit
<1>2. ListingInv /\ [ObjectsNext]_listingVars => ListingInv'
  BY ObjectsKeep
<1> QED BY <1>1, <1>2, InPlaceIsStable, PTL DEF ObjectsSpec

(* StableListed (getIterableRows): the same for the rows of a table, while rows are written
   and a bulk job runs. *)
THEOREM RowsListedOnce == RowsSpec => []StableListed
<1>1. ASSUME DataInit, store = [k \in Keys |-> {}], IteratorInit
      PROVE  ListingInv
  <2>1. store \in [Keys -> SUBSET Versions]
    BY <1>1
  <2> QED BY <1>1, <2>1, ListingStarts DEF DataInit
<1>2. ListingInv /\ [RowsNext]_dataVars => ListingInv'
  BY RowsKeep
<1> QED BY <1>1, <1>2, InPlaceIsStable, PTL DEF RowsSpec

-----------------------------------------------------------------------------
(* PartDownload: which bytes each part has. *)
DownloadInv ==
  /\ size \in [Contents -> 0..MaxSize] /\ partSize \in PartSizes
  /\ current \in Contents /\ listed \in Contents \cup {0}

LEMMA DownloadStarts == DownloadInit => DownloadInv
BY DownloadAssumption DEF DownloadAssumption, DownloadInit, DownloadInv

LEMMA DownloadKeeps == DownloadInv /\ [DownloadNext]_downloadVars => DownloadInv'
<1> SUFFICES ASSUME DownloadInv, [DownloadNext]_downloadVars
             PROVE  DownloadInv'
  OBVIOUS
<1>1. CASE Overwrite
  BY <1>1 DEF Overwrite, DownloadInv
<1>2. CASE GeneratePartDownloaders
  BY <1>2, DownloadAssumption DEF DownloadAssumption, GeneratePartDownloaders, DownloadInv
<1>3. CASE UNCHANGED <<size, partSize, current, listed>>
  BY <1>3 DEF DownloadInv
<1>4. ASSUME NEW p \in Parts, PartStep(p)
      PROVE  UNCHANGED <<size, partSize, current, listed>>
  BY <1>4 DEF PartStep, CallDownloader, StreamOpens, DownloaderThrows, StreamEnds, StreamFails, Retries,
     RetriesAreOver, RetryIsDropped
<1> QED BY <1>1, <1>2, <1>3, <1>4 DEF DownloadNext, IterableAsks, IterableFails, downloadVars

LEMMA MinOfTwo ==
  ASSUME NEW a \in Nat, NEW b \in Nat
  PROVE  Min({a, b}) = IF a <= b THEN a ELSE b
<1>1. {a, b} \subseteq Nat /\ {a, b} # {}
  OBVIOUS
<1>2. Min({a, b}) \in {a, b} /\ \A y \in {a, b} : Min({a, b}) <= y
  BY <1>1, MinOf
<1> QED BY <1>2

LEMMA EndsOfInterval ==
  ASSUME NEW a \in Nat, NEW b \in Nat, a <= b
  PROVE  Min(a..b) = a /\ Max(a..b) = b
<1>1. a..b \subseteq Nat /\ a \in a..b /\ b \in a..b /\ IsFiniteSet(a..b)
  BY FS_Interval
<1>2. Min(a..b) \in a..b /\ \A y \in a..b : Min(a..b) <= y
  BY <1>1, MinOf
<1>3. Max(a..b) \in a..b /\ \A y \in a..b : y <= Max(a..b)
  BY <1>1, MaxOf
<1> QED BY <1>1, <1>2, <1>3

(* The end of k parts of size s of an object of n bytes. *)
EndOf(k, s, n) == IF k * s <= n THEN k * s ELSE n

LEMMA Products ==
  ASSUME NEW s \in Nat \ {0}
  PROVE  /\ \A k \in Nat : k * s \in Nat /\ k <= k * s /\ (k + 1) * s = k * s + s
         /\ \A j, k \in Nat : j <= k => j * s <= k * s
<1>1. \A k \in Nat : k * s \in Nat /\ (k + 1) * s = k * s + s
  OBVIOUS
<1>2. ASSUME NEW k \in Nat
      PROVE  k <= k * s
  <2>1. k * (s - 1) >= 0 /\ k * s = k * (s - 1) + k
    OBVIOUS
  <2> QED BY <1>1, <2>1
<1>3. ASSUME NEW j \in Nat, NEW k \in Nat, j <= k
      PROVE  j * s <= k * s
  <2>1. PICK d \in Nat : k = j + d
    <3>1. k - j \in Nat /\ k = j + (k - j)
      BY <1>3
    <3> QED BY <3>1
  <2>2. k * s = j * s + d * s /\ d * s >= 0
    BY <2>1
  <2> QED BY <1>1, <2>2
<1> QED BY <1>1, <1>2, <1>3

LEMMA EndOfNext ==
  ASSUME NEW s \in Nat \ {0}, NEW n \in Nat, NEW k \in Nat
  PROVE  /\ EndOf(k, s, n) \in 0..n /\ EndOf(0, s, n) = 0
         /\ EndOf(k + 1, s, n) = Min({EndOf(k, s, n) + s, n})
<1>1. k * s \in Nat /\ (k + 1) * s = k * s + s /\ 0 * s = 0
  BY Products
<1>2. EndOf(k, s, n) \in 0..n /\ EndOf(0, s, n) = 0
  BY <1>1 DEF EndOf
<1>3. Min({EndOf(k, s, n) + s, n}) = IF EndOf(k, s, n) + s <= n THEN EndOf(k, s, n) + s ELSE n
  BY <1>2, MinOfTwo
<1> QED BY <1>1, <1>2, <1>3 DEF EndOf

LEMMA EndsFollow ==
  ASSUME NEW s \in Nat \ {0}, NEW n \in Nat
  PROVE  /\ EndOf(0, s, n) = 0
         /\ \A k \in Nat : /\ EndOf(k, s, n) \in Nat
                          /\ EndOf(k + 1, s, n) = Min({EndOf(k, s, n) + s, n})
<1>1. EndOf(0, s, n) = 0
  <2>1. PICK k \in Nat : k = 0
    OBVIOUS
  <2> QED BY <2>1, EndOfNext
<1>2. ASSUME NEW k \in Nat
      PROVE  /\ EndOf(k, s, n) \in Nat
             /\ EndOf(k + 1, s, n) = Min({EndOf(k, s, n) + s, n})
  <2>1. /\ EndOf(k, s, n) \in 0..n
        /\ EndOf(k + 1, s, n) = Min({EndOf(k, s, n) + s, n})
    BY EndOfNext
  <2> QED BY <2>1
<1> QED BY <1>1, <1>2

(* StartOf is defined by recursion: a function that satisfies its equation is the one
   that tells the ends of the parts before. *)
LEMMA StartIsEnd ==
  ASSUME NEW s \in Nat \ {0}, NEW n \in Nat, NEW m \in Nat, s = partSize, n = size[listed], m = MaxSize
  PROVE  \A p \in 1..m + 1 : StartOf[p] = EndOf(p - 1, s, n)
<1> DEFINE F(f) == [p \in 1..MaxSize + 1 |-> IF p = 1 THEN 0 ELSE LastByte(f[p - 1]) + 1]
           g == [p \in 1..m + 1 |-> EndOf(p - 1, s, n)]
<1>1. StartOf = CHOOSE f : f = F(f)
  BY DEF StartOf
<1>2. \A x \in Nat : LastByte(x) + 1 = Min({x + s, n})
  <2>1. ASSUME NEW x \in Nat
        PROVE  LastByte(x) + 1 = Min({x + s, n})
    <3>1. Min({x + s, n}) \in Nat
      BY MinOfTwo
    <3>2. LastByte(x) = Min({x + s, n}) - 1
      BY DEF LastByte
    <3> QED BY <3>1, <3>2
  <2> QED BY <2>1
<1>3. \A p \in 1..m + 1 : p # 1 => p - 1 \in 1..m + 1 /\ p - 2 \in Nat /\ p - 1 = (p - 2) + 1
  OBVIOUS
<1>4. \A p \in 1..m + 1 :
        /\ EndOf(p - 1, s, n) \in Nat
        /\ EndOf(p - 1, s, n) = IF p = 1 THEN 0 ELSE LastByte(EndOf(p - 2, s, n)) + 1
  <2>1. ASSUME NEW p \in 1..m + 1
        PROVE  /\ EndOf(p - 1, s, n) \in Nat
               /\ EndOf(p - 1, s, n) = IF p = 1 THEN 0 ELSE LastByte(EndOf(p - 2, s, n)) + 1
    <3>1. CASE p = 1
      <4>1. EndOf(0, s, n) = 0
        BY EndsFollow
      <4>2. p - 1 = 0
        BY <3>1
      <4> QED BY <3>1, <4>1, <4>2
    <3>2. CASE p # 1
      <4>1. PICK k \in Nat : k = p - 2 /\ k + 1 = p - 1
        BY <1>3, <3>2
      <4>2. EndOf(k, s, n) \in Nat /\ EndOf(k + 1, s, n) \in Nat
            /\ EndOf(k + 1, s, n) = Min({EndOf(k, s, n) + s, n})
        <5>1. k + 1 \in Nat
          OBVIOUS
        <5> QED BY <5>1, EndsFollow
      <4>3. LastByte(EndOf(k, s, n)) + 1 = Min({EndOf(k, s, n) + s, n})
        BY <1>2, <4>2
      <4> QED BY <3>2, <4>1, <4>2, <4>3
    <3> QED BY <3>1, <3>2
  <2> QED BY <2>1
<1>5. g = F(g)
  <2>1. \A p \in 1..m + 1 : p # 1 => g[p - 1] = EndOf(p - 2, s, n)
    <3>1. ASSUME NEW p \in 1..m + 1, p # 1
          PROVE  g[p - 1] = EndOf(p - 2, s, n)
      <4>1. p - 1 \in 1..m + 1 /\ (p - 1) - 1 = p - 2
        BY <1>3, <3>1
      <4> QED BY <4>1
    <3> QED BY <3>1
  <2>2. \A p \in 1..m + 1 : EndOf(p - 1, s, n) = IF p = 1 THEN 0 ELSE LastByte(g[p - 1]) + 1
    BY <1>4, <2>1
  <2>3. F(g) = [p \in 1..m + 1 |-> IF p = 1 THEN 0 ELSE LastByte(g[p - 1]) + 1]
    OBVIOUS
  <2> QED BY <2>2, <2>3
<1>6. StartOf = F(StartOf)
  <2> HIDE DEF F, g
  <2> QED BY <1>1, <1>5
<1>7. \A p \in 1..m + 1 : StartOf[p] = IF p = 1 THEN 0 ELSE LastByte(StartOf[p - 1]) + 1
  <2>1. PICK f : f = StartOf
    OBVIOUS
  <2>2. f = [p \in 1..m + 1 |-> IF p = 1 THEN 0 ELSE LastByte(f[p - 1]) + 1]
    BY <1>6, <2>1
  <2> QED BY <2>1, <2>2
<1> DEFINE Others == {p \in 1..m + 1 : StartOf[p] # EndOf(p - 1, s, n)}
<1>8. ASSUME Others # {}
      PROVE  FALSE
  <2>1. PICK p \in Others : \A q \in Others : p <= q
    <3>1. Others \subseteq Nat
      OBVIOUS
    <3> HIDE DEF Others
    <3>2. Min(Others) \in Others /\ \A q \in Others : Min(Others) <= q
      BY <1>8, <3>1, MinOf
    <3> QED BY <3>2
  <2>2. p # 1
    BY <1>4, <1>7, <2>1
  <2>3. p - 1 \in 1..m + 1 /\ (p - 1) - 1 = p - 2 /\ ~(p <= p - 1)
    BY <1>3, <2>2
  <2>4. StartOf[p - 1] = EndOf(p - 2, s, n)
    BY <2>1, <2>3
  <2> QED BY <1>4, <1>7, <2>1, <2>2, <2>4
<1> QED BY <1>8

(* Where the bytes of a part are. *)
LEMMA PartBytes ==
  ASSUME NEW s \in Nat \ {0}, NEW n \in Nat, NEW m \in Nat, s = partSize, n = size[listed], m = MaxSize, n <= m,
         NEW p \in 1..m
  PROVE  /\ p \in Parts <=> (p - 1) * s < n
         /\ p \in Parts => /\ BytesOf(p) = (p - 1) * s..EndOf(p, s, n) - 1
                           /\ (p - 1) * s < EndOf(p, s, n)
<1>1. PICK k \in Nat : k = p - 1 /\ k + 1 = p /\ p \in 1..m + 1
  OBVIOUS
<1>2. StartOf[p] = EndOf(k, s, n)
  BY <1>1, StartIsEnd
<1>3. k * s \in Nat /\ p * s = k * s + s
  BY <1>1, Products
<1>4. p \in Parts <=> EndOf(k, s, n) < n
  BY <1>2 DEF Parts, AllParts
<1>5. p \in Parts <=> k * s < n
  BY <1>3, <1>4 DEF EndOf
<1>6. ASSUME p \in Parts
      PROVE  /\ BytesOf(p) = k * s..EndOf(p, s, n) - 1
             /\ k * s < EndOf(p, s, n)
  <2>1. StartOf[p] = k * s
    BY <1>2, <1>3, <1>5, <1>6 DEF EndOf
  <2>2. Min({k * s + s, n}) = EndOf(p, s, n)
    BY <1>3, MinOfTwo DEF EndOf
  <2>3. BytesOf(p) = k * s..EndOf(p, s, n) - 1
    BY <2>1, <2>2 DEF BytesOf, LastByte
  <2>4. k * s < EndOf(p, s, n)
    BY <1>3, <1>5, <1>6 DEF EndOf
  <2> QED BY <2>3, <2>4
<1> QED BY <1>1, <1>5, <1>6

LEMMA PartsTile ==
  ASSUME DownloadInv, listed # 0
  PROVE  /\ UNION {BytesOf(p) : p \in Parts} = 0..size[listed] - 1
         /\ \A p, q \in Parts : p < q => Max(BytesOf(p)) < Min(BytesOf(q))
<1>1. PICK s \in Nat \ {0}, n \in Nat, m \in Nat : s = partSize /\ n = size[listed] /\ m = MaxSize /\ n <= m
  BY DownloadAssumption DEF DownloadAssumption, DownloadInv
<1>2. Parts \subseteq 1..m
  BY <1>1 DEF Parts, AllParts
<1>3. ASSUME NEW p \in Parts
      PROVE  /\ BytesOf(p) = (p - 1) * s..EndOf(p, s, n) - 1 /\ (p - 1) * s < EndOf(p, s, n)
             /\ (p - 1) * s \in Nat /\ EndOf(p, s, n) \in 0..n /\ EndOf(p, s, n) <= p * s /\ p * s \in Nat
  <2>1. p \in 1..m /\ p \in Nat /\ p - 1 \in Nat
    BY <1>2, <1>3
  <2>2. /\ BytesOf(p) = (p - 1) * s..EndOf(p, s, n) - 1 /\ (p - 1) * s < EndOf(p, s, n)
    BY <1>1, <1>3, <2>1, PartBytes
  <2>3. (p - 1) * s \in Nat /\ p * s \in Nat /\ EndOf(p, s, n) \in 0..n
    BY <2>1, Products, EndOfNext
  <2>4. EndOf(p, s, n) <= p * s
    BY <2>3 DEF EndOf
  <2> QED BY <2>2, <2>3, <2>4
<1>4. ASSUME NEW p \in Parts, NEW q \in Parts, p < q
      PROVE  Max(BytesOf(p)) < Min(BytesOf(q))
  <2>1. PICK a \in Nat, b \in Nat, c \in Nat, d \in Nat :
          /\ a = (p - 1) * s /\ b = EndOf(p, s, n) - 1 /\ a <= b /\ b < p * s
          /\ c = (q - 1) * s /\ d = EndOf(q, s, n) - 1 /\ c <= d
    <3>1. /\ (p - 1) * s \in Nat /\ EndOf(p, s, n) \in Nat /\ (p - 1) * s < EndOf(p, s, n)
          /\ EndOf(p, s, n) <= p * s /\ p * s \in Nat
          /\ (q - 1) * s \in Nat /\ EndOf(q, s, n) \in Nat /\ (q - 1) * s < EndOf(q, s, n)
      BY <1>3
    <3> QED BY <3>1
  <2>2. Max(a..b) = b /\ Min(c..d) = c
    BY <2>1, EndsOfInterval
  <2>3. BytesOf(p) = a..b /\ BytesOf(q) = c..d
    BY <1>3, <2>1
  <2>4. p \in Nat /\ q - 1 \in Nat /\ p <= q - 1
    BY <1>2, <1>4
  <2>5. p * s <= c /\ p * s \in Nat
    BY <2>1, <2>4, Products
  <2> QED BY <2>1, <2>2, <2>3, <2>5
<1>5. ASSUME NEW p \in Parts, NEW b \in BytesOf(p)
      PROVE  b \in 0..size[listed] - 1
  <2>1. PICK a \in Nat, e \in 0..n : BytesOf(p) = a..e - 1
    BY <1>3
  <2> QED BY <1>1, <1>5, <2>1
<1>6. ASSUME NEW b \in 0..size[listed] - 1
      PROVE  \E p \in Parts : b \in BytesOf(p)
  <2> DEFINE After == {k \in Nat : b < (k + 1) * s}
  <2>1. b \in Nat /\ b < n
    BY <1>1
  <2>2. b \in After
    BY <2>1, Products
  <2>3. PICK k \in After : \A j \in After : k <= j
    <3>1. After \subseteq Nat /\ After # {}
      BY <2>2
    <3> QED BY <3>1, MinOf
  <2>4. k \in Nat /\ b < (k + 1) * s /\ k <= b /\ k * s \in Nat
    BY <2>2, <2>3, Products
  <2>5. k * s <= b
    <3>1. CASE k = 0
      BY <2>1, <2>4, <3>1
    <3>2. CASE k # 0
      <4>1. k - 1 \in Nat /\ ~(k <= k - 1) /\ (k - 1) + 1 = k
        BY <2>4, <3>2
      <4>2. ~(b < k * s)
        BY <2>3, <4>1
      <4> QED BY <2>1, <2>4, <4>2
    <3> QED BY <3>1, <3>2
  <2>6. PICK p \in 1..m : p = k + 1 /\ p - 1 = k
    BY <1>1, <2>1, <2>4
  <2>7. p \in Parts
    <3>1. k * s < n
      BY <2>1, <2>4, <2>5
    <3> QED BY <1>1, <2>6, <3>1, PartBytes
  <2>8. BytesOf(p) = k * s..EndOf(p, s, n) - 1 /\ EndOf(p, s, n) \in 0..n
    BY <1>3, <2>6, <2>7
  <2>9. b < EndOf(p, s, n)
    BY <2>1, <2>4, <2>6 DEF EndOf
  <2>10. b \in k * s..EndOf(p, s, n) - 1
    BY <2>1, <2>4, <2>5, <2>8, <2>9
  <2> QED BY <2>7, <2>8, <2>10
<1>7. UNION {BytesOf(p) : p \in Parts} = 0..size[listed] - 1
  BY <1>5, <1>6
<1> QED BY <1>4, <1>7

(* PartsWhole (generatePartDownloaders): for every size of an object and of a part, and any
   order in which the downloaders are called and called again, the parts are the object
   once and in order, unless it was overwritten. *)
THEOREM PartsAreWhole == DownloadSpec => []PartsWhole
<1>1. DownloadInv => PartsWhole
  BY PartsTile DEF PartsWhole, AllDone
<1> QED BY <1>1, DownloadStarts, DownloadKeeps, PTL DEF DownloadSpec
==============================================================================
