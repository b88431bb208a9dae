----------------------------- MODULE HttpRequest -----------------------------
(***************************************************************************)
(* sendRequest() and _request() of packages/transport on Node: one promise *)
(* per call, settled by up to Threshold + 1 attempts, each with a          *)
(* ClientRequest and a body of its own.  The first attempt writes the data *)
(* it was given, a later one a clone made before the first was written     *)
(* (FormData.createClone(), CloneableStream).  Node's sockets and the      *)
(* server are external: they may end an attempt wherever a handler exists. *)
(***************************************************************************)
EXTENDS Naturals, Sequences

CONSTANTS
  Calls,
  Threshold,  (* REQ_RETRY_THRESHOLD                                         *)
  Kinds       (* the requests asked for: a type, what is expected, and the
                 fields of the data, each "text" or "stream"                 *)

Field == {"text", "stream"}

ASSUME RequestAssumption ==
  /\ Threshold \in Nat
  /\ Kinds # {}
  /\ \A k \in Kinds : k.type \in {"json", "file", "raw"} /\ k.fields \in Seq(Field)

VARIABLES
  kind,     (* the request of each call                                      *)
  promise,  (* what send() returned                                          *)
  tries,    (* attempts made: retryCount + 1                                 *)
  phase,    (* the latest attempt                                            *)
  left,     (* what its data still holds: FormData.streams and currentStream *)
  paused,   (* the request is full and the form paused its stream            *)
  source,   (* the stream that the caller passed                             *)
  clones,   (* _clonesCount of the CloneableStream around it                 *)
  stored,   (* how often the server accepted the whole of the data           *)
  torn,     (* ... and a part of it                                          *)
  lost,     (* history: the connection ended within a body, and silently     *)
  unhandled (* history: an 'error' event without a listener                  *)

vars == <<kind, promise, tries, phase, left, paused, source, clones, stored, torn, lost, unhandled>>

IsStream(field) == field = "stream"

(* append() listens to the errors of a stream among the fields. *)
HasStream(fields) == \E i \in DOMAIN fields : IsStream(fields[i])

Tails(s) == {SubSeq(s, i, Len(s)) : i \in 1..(Len(s) + 1)}

Unsent == CHOOSE k \in Kinds : TRUE

TypeOK ==
  /\ kind \in [Calls -> Kinds]
  /\ promise \in [Calls -> {"none", "pending", "resolved", "rejected"}]
  /\ tries \in [Calls -> 0..(Threshold + 1)]
  /\ phase \in [Calls -> {"idle", "sending", "waiting", "reading", "over"}]
  /\ \A c \in Calls : left[c] \in Tails(kind[c].fields)
  /\ source \in [Calls -> {"none", "open", "ended", "failed"}]
  /\ clones \in [Calls -> 0..2]
  /\ stored \in [Calls -> Nat] /\ torn \in [Calls -> Nat]
  /\ paused \in [Calls -> BOOLEAN]
  /\ lost \in [Calls -> BOOLEAN] /\ unhandled \in [Calls -> BOOLEAN]

Init ==
  /\ kind = [c \in Calls |-> Unsent]
  /\ promise = [c \in Calls |-> "none"]
  /\ tries = [c \in Calls |-> 0]
  /\ phase = [c \in Calls |-> "idle"]
  /\ left = [c \in Calls |-> <<>>]
  /\ paused = [c \in Calls |-> FALSE]
  /\ source = [c \in Calls |-> "none"]
  /\ clones = [c \in Calls |-> 0]
  /\ stored = [c \in Calls |-> 0] /\ torn = [c \in Calls |-> 0]
  /\ lost = [c \in Calls |-> FALSE] /\ unhandled = [c \in Calls |-> FALSE]

-----------------------------------------------------------------------------
(* A promise settles once. *)
Settle(c, how) ==
  promise' = [promise EXCEPT ![c] = IF @ = "pending" THEN how ELSE @]

(* FormData._getNext(): writes what is text, up to the next stream or the end. *)
UpToStream(s) ==
  CHOOSE t \in Tails(s) :
    /\ t = <<>> \/ IsStream(Head(t))
    /\ \A i \in 1..(Len(s) - Len(t)) : ~IsStream(s[i])

(* The body of an attempt begins: text and strings are written at once. *)
Write(c, data) ==
  /\ left' = [left EXCEPT ![c] = UpToStream(data)]
  /\ phase' = [phase EXCEPT ![c] = IF UpToStream(data) = <<>> THEN "waiting" ELSE "sending"]
  /\ paused' = [paused EXCEPT ![c] = FALSE]

(* getHeaders() names the boundary of the first form; each clone makes its own. *)
BoundaryNamed(c) == kind[c].type = "file" => tries[c] = 1

(* The body has come to its end, as the server sees it. *)
Whole(c) == left[c] = <<>> /\ BoundaryNamed(c)

(* _request() clones the data of a form before it writes any. *)
ClonesStream(k) == k.type = "file" /\ HasStream(k.fields)

(* Readers that the CloneableStream around a stream of a form counts: itself and
   the clone that createClone() puts into the form of a retry. *)
Cloned(k) == IF ClonesStream(k) THEN 2 ELSE 0

(* One of them is counted off when the clone is piped. *)
ClonePiped(n) == IF n = 0 THEN 0 ELSE 1

(* send() after authentication: sendRequest() and the first attempt. *)
Request(c, k) ==
  /\ phase[c] = "idle"
  /\ kind' = [kind EXCEPT ![c] = k]
  /\ promise' = [promise EXCEPT ![c] = "pending"]
  /\ tries' = [tries EXCEPT ![c] = 1]
  /\ source' = [source EXCEPT ![c] = IF HasStream(k.fields) THEN "open" ELSE "none"]
  /\ clones' = [clones EXCEPT ![c] = Cloned(k)]
  /\ Write(c, k.fields)
  /\ UNCHANGED <<stored, torn, lost, unhandled>>

-----------------------------------------------------------------------------
(* The stream in the data ends: FormData goes on with what follows it.  A clone
   starts to flow once clonePiped() has counted its parent down to 0. *)
Flows(c) == tries[c] = 1 \/ clones[c] = 0

StreamEnds(c) ==
  /\ source[c] = "open" /\ ~paused[c]
  /\ source' = [source EXCEPT ![c] = "ended"]
  /\ IF phase[c] = "sending" /\ Flows(c)
     THEN Write(c, Tail(left[c]))
     ELSE UNCHANGED <<left, phase, paused>>
  /\ UNCHANGED <<kind, promise, tries, clones, stored, torn, lost, unhandled>>

(* Mutant: the failed stream's request is ended, and the promise left to it. *)
StreamFailsSilently(c) ==
  /\ source[c] = "open"
  /\ source' = [source EXCEPT ![c] = "failed"]
  /\ phase' = [phase EXCEPT ![c] = IF @ = "sending" THEN "waiting" ELSE @]
  /\ UNCHANGED <<kind, promise, tries, left, paused, clones, stored, torn, lost, unhandled>>

(* forwardDestroy(): a clone fails with its stream, and nobody listens to it. *)
CloneFails(c) == unhandled' = [unhandled EXCEPT ![c] = @ \/ clones[c] > 0]

(* The stream fails: the listener of 'error' rejects and ends the request, whose
   body looks complete. *)
StreamFails(c) ==
  /\ source[c] = "open"
  /\ source' = [source EXCEPT ![c] = "failed"]
  /\ Settle(c, "rejected")
  /\ phase' = [phase EXCEPT ![c] = IF @ = "sending" THEN "waiting" ELSE @]
  /\ CloneFails(c)
  /\ UNCHANGED <<kind, tries, left, paused, clones, stored, torn, lost>>

(* Back pressure: pipe() pauses the form, which pauses its stream, until 'drain'. *)
Pause(c) ==
  /\ phase[c] = "sending" /\ tries[c] = 1 /\ source[c] = "open" /\ ~paused[c]
  /\ paused' = [paused EXCEPT ![c] = TRUE]
  /\ UNCHANGED <<kind, promise, tries, phase, left, source, clones, stored, torn, lost, unhandled>>

Drain(c) ==
  /\ phase[c] = "sending" /\ paused[c]
  /\ paused' = [paused EXCEPT ![c] = FALSE]
  /\ UNCHANGED <<kind, promise, tries, phase, left, source, clones, stored, torn, lost, unhandled>>

-----------------------------------------------------------------------------
(* The server stores what it was sent.  A form without its closing boundary is
   refused, raw data ends where the request ends. *)
Store(c) ==
  \/ Whole(c) /\ stored' = [stored EXCEPT ![c] = @ + 1] /\ UNCHANGED torn
  \/ kind[c].type = "raw" /\ ~Whole(c) /\ torn' = [torn EXCEPT ![c] = @ + 1] /\ UNCHANGED stored

(* An answer that is an error, in the form of Catalyst's errors or in none. *)
RejectWithContext(c) ==
  /\ Settle(c, "rejected")
  /\ phase' = [phase EXCEPT ![c] = "over"]

(* The response arrives.  Raw: _finalizeRequest() settles; else its body is read. *)
Answer(c) ==
  /\ phase[c] = "waiting"
  /\ \/ /\ Store(c)
        /\ IF kind[c].expecting = "raw"
           THEN Settle(c, "resolved")
           ELSE UNCHANGED promise
        /\ phase' = [phase EXCEPT ![c] = "reading"]
     \/ RejectWithContext(c) /\ UNCHANGED <<stored, torn>>
  /\ UNCHANGED <<kind, tries, left, paused, source, clones, lost, unhandled>>

(* The body has been read: streamToBuffer(), then _finalizeRequest(). *)
BodyEnds(c) ==
  /\ phase[c] = "reading"
  /\ phase' = [phase EXCEPT ![c] = "over"]
  /\ Settle(c, "resolved")
  /\ UNCHANGED <<kind, tries, left, paused, source, clones, stored, torn, lost, unhandled>>

(* The connection is closed within the body: no 'error' event, and the handler of
   the response returns, because the request is destroyed. *)
BodyIsCut(c) ==
  /\ phase[c] = "reading"
  /\ phase' = [phase EXCEPT ![c] = "over"]
  /\ lost' = [lost EXCEPT ![c] = TRUE]
  /\ UNCHANGED <<kind, promise, tries, left, paused, source, clones, stored, torn, unhandled>>

(* Mutants: the count of attempts is never compared, or starts again. *)
RetryWithoutLimit(c) ==
  /\ tries' = [tries EXCEPT ![c] = @ + 1]
  /\ Write(c, kind[c].fields)
  /\ clones' = [clones EXCEPT ![c] = ClonePiped(@)]
  /\ UNCHANGED promise

RetryForgets(c) ==
  /\ tries' = [tries EXCEPT ![c] = IF @ > Threshold THEN 1 ELSE @ + 1]
  /\ Write(c, kind[c].fields)
  /\ UNCHANGED <<promise, clones>>

(* The attempt was the last. *)
Fail(c) ==
  /\ Settle(c, "rejected")
  /\ phase' = [phase EXCEPT ![c] = "over"]
  /\ UNCHANGED <<tries, left, paused, clones>>

(* retryRequest(): a new agent, and the clone of the data, of which one reader is
   counted; the CloneableStream itself is never read. *)
Retry(c) ==
  IF tries[c] = Threshold + 1
  THEN Fail(c)
  ELSE /\ tries' = [tries EXCEPT ![c] = @ + 1]
       /\ Write(c, kind[c].fields)
       /\ clones' = [clones EXCEPT ![c] = ClonePiped(@)]
       /\ UNCHANGED promise

(* Mutant: data that can be read only once is sent again. *)
ErrorAlwaysRetries(c) ==
  /\ phase[c] \in {"sending", "waiting", "reading"}
  /\ Retry(c)
  /\ \/ phase[c] # "sending" /\ Store(c)
     \/ UNCHANGED <<stored, torn>>
  /\ UNCHANGED <<kind, source, lost, unhandled>>

(* The 'error' event of the request.  What the server has done by then is unknown. *)
Error(c) ==
  /\ phase[c] \in {"sending", "waiting", "reading"}
  /\ \/ (* req.destroyed *)
        /\ phase[c] # "reading"
        /\ Fail(c)
     \/ kind[c].type = "raw" /\ Fail(c)
     \/ kind[c].type # "raw" /\ Retry(c)
  /\ \/ phase[c] = "waiting" /\ Store(c)
     \/ UNCHANGED <<stored, torn>>
  /\ UNCHANGED <<kind, source, lost, unhandled>>

-----------------------------------------------------------------------------
CallStep(c) ==
  \/ StreamEnds(c) \/ StreamFails(c) \/ Pause(c) \/ Drain(c)
  \/ Answer(c) \/ BodyEnds(c) \/ BodyIsCut(c) \/ Error(c)

Next == \E c \in Calls : CallStep(c) \/ \E k \in Kinds : Request(c, k)

(* Streams end or fail, a full request drains, and the server or the network ends
   every attempt. *)
Fairness ==
  \A c \in Calls :
    /\ WF_vars(StreamEnds(c) \/ StreamFails(c) \/ Drain(c))
    /\ WF_vars(Answer(c) \/ BodyEnds(c) \/ BodyIsCut(c) \/ Error(c))

Spec == Init /\ [][Next]_vars
FairSpec == Spec /\ Fairness

-----------------------------------------------------------------------------
(* send() resolves only if an attempt stored all of the data, and none a part of it. *)
ResolvedIsStored ==
  \A c \in Calls : promise[c] = "resolved" => stored[c] > 0 /\ torn[c] = 0

(* How often one call can have its effect: raw data and forms once, however
   the attempts fail, anything else once per attempt. *)
EffectsBounded ==
  \A c \in Calls :
    stored[c] + torn[c] <= IF kind[c].type = "json" THEN Threshold + 1 ELSE 1

(* send() settles, unless the connection ends within a body or a stream's failure
   meets no listener, which ends the process. *)
SendSettles ==
  \A c \in Calls :
    promise[c] = "pending" ~> (promise[c] \in {"resolved", "rejected"} \/ lost[c] \/ unhandled[c])

(* send() settles: it rejects "when the operation cannot be completed". *)
EverySendSettles ==
  \A c \in Calls : promise[c] = "pending" ~> promise[c] \in {"resolved", "rejected"}
=============================================================================
