--------------------------- MODULE PushNotification ---------------------------
(***************************************************************************)
(* PushNotification of packages/push-notification in the browser.          *)
(* enableNotification() asks for the configuration, injects the script of  *)
(* the messaging service (WMS), waits for its libraries and registers; a   *)
(* failure schedules a retry.  The application may call enableNotification *)
(* and retry() at any time, so that timers and calls overlap.  Document    *)
(* and WMS are external, and shared by all instances of the page.          *)
(***************************************************************************)
EXTENDS Integers, FiniteSets

CONSTANTS
  Clients,       (* instances of PushNotification                   *)
  Attempts,      (* initialisations that may be under way at a time *)
  MaxUserCalls   (* bound on the calls of the application           *)

NoClient == "no client"

ASSUME PushAssumption == NoClient \notin Clients /\ MaxUserCalls \in Nat

MaxRetries == 3

VARIABLES
  push,       (* each client: _state, _retryCount, its timers, whether it has a
                 message callback and whether its WMS token was refused        *)
  attempt,    (* each attempt: its client and what it waits for                *)
  script,     (* the script element of the page                               *)
  wms,        (* the libraries are there                                       *)
  listener,   (* the client whose function WmsliteImpl.handleMessage is        *)
  userCalls

pushVars == <<push, attempt, script, wms, listener, userCalls>>

IdleAttempt == [on |-> NoClient, at |-> "idle"]

PushInit ==
  /\ push = [p \in Clients |-> [state |-> "uninitialized", retries |-> 0, timers |-> 0,
                                callback |-> FALSE, refused |-> FALSE]]
  /\ attempt = [a \in Attempts |-> IdleAttempt]
  /\ script = "none" /\ wms = FALSE /\ listener = NoClient
  /\ userCalls = 0

-----------------------------------------------------------------------------
(* Mutant: an initialisation under way does not stop another. *)
CanStartTwice(state) == state # "ready"

CanStart(state) == state \notin {"initializing", "ready"}

(* enableNotification(), up to its first await, from the given state of its client. *)
EnableNotification(p, client) ==
  IF CanStart(client.state)
  THEN \E a \in Attempts :
         /\ attempt[a] = IdleAttempt
         /\ attempt' = [attempt EXCEPT ![a] = [on |-> p, at |-> "config"]]
         /\ push' = [push EXCEPT ![p] = [client EXCEPT !.state = "initializing"]]
  ELSE push' = [push EXCEPT ![p] = client] /\ UNCHANGED attempt

(* Mutant: failures are retried for ever. *)
RetriesLeftAlways(client) == TRUE

RetriesLeft(client) == client.retries < MaxRetries

(* _scheduleRetry() *)
ScheduleRetry(client) ==
  IF RetriesLeft(client)
  THEN [client EXCEPT !.retries = IF @ < MaxRetries THEN @ + 1 ELSE @, !.timers = @ + 1]
  ELSE client

(* The catch of enableNotification(). *)
AttemptFails(a) ==
  LET p == attempt[a].on IN
  /\ push' = [push EXCEPT ![p] = ScheduleRetry([@ EXCEPT !.state = "error"])]
  /\ attempt' = [attempt EXCEPT ![a] = IdleAttempt]

Await(a, what) == attempt' = [attempt EXCEPT ![a].at = what]

-----------------------------------------------------------------------------
(* What the application does. *)
UserEnables(p) == EnableNotification(p, push[p])

(* retry() *)
UserRetries(p) ==
  push[p].state = "error" /\ EnableNotification(p, [push[p] EXCEPT !.retries = 0])

(* The setter of messageHandler: a client that is ready takes the messages over. *)
SetMessageHandler(p) ==
  /\ ~push[p].callback
  /\ push' = [push EXCEPT ![p].callback = TRUE]
  /\ listener' = IF push[p].state = "ready" THEN p ELSE listener
  /\ UNCHANGED attempt

UserCall ==
  /\ userCalls < MaxUserCalls /\ userCalls' = userCalls + 1
  /\ \E p \in Clients :
       \/ UserEnables(p) /\ UNCHANGED listener
       \/ UserRetries(p) /\ UNCHANGED listener
       \/ SetMessageHandler(p)
  /\ UNCHANGED <<script, wms>>

(* The timeout of a scheduled retry. *)
RetryDue(p) ==
  /\ push[p].timers > 0
  /\ EnableNotification(p, [push[p] EXCEPT !.timers = @ - 1])
  /\ UNCHANGED <<script, wms, listener, userCalls>>

-----------------------------------------------------------------------------
(* _fetchNotificationConfig() ends; _injectScript() takes a script that is in the
   document for one that is loaded. *)
ConfigArrives(a) ==
  /\ attempt[a].at = "config"
  /\ IF script # "none"
     THEN Await(a, "wms") /\ UNCHANGED script
     ELSE Await(a, "script") /\ script' = "loading"
  /\ UNCHANGED <<push, wms, listener, userCalls>>

ConfigFails(a) ==
  /\ attempt[a].at = "config"
  /\ AttemptFails(a)
  /\ UNCHANGED <<script, wms, listener, userCalls>>

(* onload and onerror settle the promise of the attempt that made the element. *)
ScriptLoads(a) ==
  /\ attempt[a].at = "script"
  /\ script' = "loaded" /\ Await(a, "wms")
  /\ UNCHANGED <<push, wms, listener, userCalls>>

ScriptFails(a) ==
  /\ attempt[a].at = "script"
  /\ script' = "failed" /\ AttemptFails(a)
  /\ UNCHANGED <<wms, listener, userCalls>>

WmsAppears ==
  /\ script = "loaded" /\ ~wms /\ wms' = TRUE
  /\ UNCHANGED <<push, attempt, script, listener, userCalls>>

(* #initWmsRTCP() or #initWmsZmp(), which do not wait for WMS's answer. *)
Register(p) ==
  push' = [push EXCEPT ![p].state = "ready", ![p].retries = 0]

(* _waitForWms() finds the libraries: the client registers and sets its handlers. *)
Registers(a) ==
  /\ attempt[a].at = "wms" /\ wms
  /\ Register(attempt[a].on)
  /\ listener' = attempt[a].on
  /\ attempt' = [attempt EXCEPT ![a] = IdleAttempt]
  /\ UNCHANGED <<script, wms, userCalls>>

(* The configuration has no ZAID, or the libraries do not come within ten seconds. *)
WmsIsMissing(a) ==
  /\ attempt[a].at = "wms"
  /\ AttemptFails(a)
  /\ UNCHANGED <<script, wms, listener, userCalls>>

(* WmsliteImpl.handleAuthFailure, the function of the client that was ready last, asks
   for new tokens; when that fails it waits for the next call. *)
AuthFails ==
  /\ listener # NoClient /\ ~push[listener].refused
  /\ push' = [push EXCEPT ![listener].refused = TRUE]
  /\ UNCHANGED <<attempt, script, wms, listener, userCalls>>

AuthRenewed(p) ==
  /\ push[p].refused /\ push' = [push EXCEPT ![p].refused = FALSE]
  /\ UNCHANGED <<attempt, script, wms, listener, userCalls>>

AttemptStep(a) ==
  ConfigArrives(a) \/ ConfigFails(a) \/ ScriptLoads(a) \/ ScriptFails(a)
    \/ Registers(a) \/ WmsIsMissing(a)

PushNext ==
  \/ UserCall
  \/ \E p \in Clients : RetryDue(p) \/ AuthRenewed(p)
  \/ \E a \in Attempts : AttemptStep(a)
  \/ WmsAppears
  \/ AuthFails

PushSpec == PushInit /\ [][PushNext]_pushVars

-----------------------------------------------------------------------------
(* No attempt takes a client that is ready back to an error, whatever timers and calls
   of retry() overlap. *)
ReadyStays == [][\A p \in Clients : push[p].state = "ready" => push'[p].state = "ready"]_pushVars

(* A client comes to rest once the application leaves it alone, with notifications or
   without: retries end, even those that a call of retry() was added to. *)
AtRest(p) ==
  /\ push[p].timers = 0 /\ push[p].state # "initializing"
  /\ \A a \in Attempts : attempt[a].on # p
RetriesEnd == \A p \in Clients : <>[]AtRest(p)

(* "Promise that resolves when script is loaded" (_injectScript()): an attempt waits for
   the libraries of a script that was loaded.  The code violates it: the element of a
   script that failed, or is still loading, stays in the document. *)
InjectedIsLoaded == \A a \in Attempts : attempt[a].at = "wms" => script = "loaded"
=============================================================================
