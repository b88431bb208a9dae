---------------------------- MODULE BucketAccess ----------------------------
(***************************************************************************)
(* How a request of packages/stratus gets its access to a bucket: public,  *)
(* by a signature that all instances for a bucket share (Util, a static    *)
(* cache), by the token of JWTAuthHandler (module StratusToken), or by the *)
(* session of the project that send() adds.  The effect of the request is  *)
(* module StratusBucket.  Server and network are external.                 *)
(***************************************************************************)
EXTENDS Integers

CONSTANTS
  Requests,  (* calls under way at a time                                           *)
  Life,      (* how long the server accepts a signature                             *)
  Margin,    (* how long before that the cache drops it: 300000 ms                  *)
  Latency,   (* a request or an answer is under way at most so long                 *)
  MaxTime    (* bound on the clock                                                  *)

ASSUME AccessAssumption ==
  /\ Life \in Nat /\ Margin \in Nat /\ Latency \in Nat /\ MaxTime \in Nat
  /\ Latency <= Margin /\ Latency + Latency < Life

VARIABLES
  now,
  runtime,    (* "node", "cli" (servedByCLI) or "browser"                           *)
  admin,      (* the user type of the credential: isAdmin() in Node                 *)
  signature,  (* Util.bucketSignatures: when the cache drops it and when the server
                 refuses it; NoSignature when there is none                         *)
  request     (* each call: what it waits for, its access, when its signature ends,
                 and how long its message has been under way                        *)

accessVars == <<now, runtime, admin, signature, request>>

NoSignature == [drop |-> 0, end |-> 0]
IdleRequest == [at |-> "idle", access |-> "none", end |-> 0, age |-> 0]
Stages == {"idle", "authorize", "askSignature", "signature", "askToken", "sent"}
Accesses == {"none", "public", "authenticated", "signed", "token", "session"}

AccessTypeOK ==
  /\ now \in 0..MaxTime
  /\ runtime \in {"node", "cli", "browser"} /\ admin \in BOOLEAN
  /\ signature \in [drop : Int, end : Int]
  /\ request \in [Requests -> [at : Stages, access : Accesses, end : Int, age : 0..Latency]]

AccessInit ==
  /\ now = 0
  /\ runtime \in {"node", "cli", "browser"} /\ admin \in BOOLEAN
  /\ signature = NoSignature
  /\ request = [r \in Requests |-> IdleRequest]

AccessRests == AccessInit /\ runtime = "node" /\ ~admin

-----------------------------------------------------------------------------
(* util.isAdmin(): there is no credential to ask in a browser. *)
IsAdmin == runtime # "browser" /\ admin

Goes(r, stage, access, end) ==
  request' = [request EXCEPT ![r] = [at |-> stage, access |-> access, end |-> end, age |-> 0]]

(* A method of Bucket: its arguments are checked and #addAuthProperties() begins.
   getObject() takes the access of its options, the others are authenticated. *)
CallBucket(r) ==
  /\ request[r].at = "idle"
  /\ \E access \in {"public", "authenticated"} : Goes(r, "authorize", access, 0)
  /\ UNCHANGED <<now, runtime, admin, signature>>

(* A method of BucketAdmin that asks the service of the project: deleteObject() and
   headObject() of an admin, and all that Bucket does not have. *)
CallAdmin(r) ==
  /\ request[r].at = "idle"
  /\ Goes(r, "sent", "session", 0)
  /\ UNCHANGED <<now, runtime, admin, signature>>

(* A method of StratusObject always asks the service of the project. *)
CallObject(r) == CallAdmin(r)

(* Mutant: a signature is used until the server refuses it. *)
CachedToTheEnd == signature.end > now

(* getBucketSignature() has one in the cache. *)
Cached == signature.drop > now

(* #addAuthProperties(), by access, user and runtime. *)
Authorize(r) ==
  /\ request[r].at = "authorize"
  /\ \/ request[r].access = "public" /\ Goes(r, "sent", "public", 0)
     \/ /\ request[r].access = "authenticated"
        /\ \/ IsAdmin /\ Cached /\ Goes(r, "sent", "signed", signature.end)
           \/ IsAdmin /\ ~Cached /\ Goes(r, "askSignature", "signed", 0)
           \/ ~IsAdmin /\ runtime # "node" /\ Goes(r, "askToken", "token", 0)
           \/ ~IsAdmin /\ runtime = "node" /\ Goes(r, "sent", "session", 0)
  /\ UNCHANGED <<now, runtime, admin, signature>>

(* The server makes a signature, which is on its way back. *)
SignatureIssued(r) ==
  /\ request[r].at = "askSignature"
  /\ Goes(r, "signature", "signed", now + Life)
  /\ UNCHANGED <<now, runtime, admin, signature>>

(* getBucketSignature() keeps it for all requests and goes on with its own. *)
SignatureArrives(r) ==
  /\ request[r].at = "signature"
  /\ signature' = [drop |-> request[r].end - Margin, end |-> request[r].end]
  /\ Goes(r, "sent", "signed", request[r].end)
  /\ UNCHANGED <<now, runtime, admin>>

(* getJWTAccessToken() answers with a token. *)
TokenArrives(r) ==
  /\ request[r].at = "askToken"
  /\ Goes(r, "sent", "token", 0)
  /\ UNCHANGED <<now, runtime, admin, signature>>

(* The request reaches the server, or fails on its way; so does what it waits for. *)
Ends(r) ==
  /\ request[r].at \in {"askSignature", "signature", "askToken", "sent"}
  /\ request' = [request EXCEPT ![r] = IdleRequest]
  /\ UNCHANGED <<now, runtime, admin, signature>>

(* The application switches the user of the credential. *)
SwitchUser ==
  /\ runtime # "browser" /\ admin' = ~admin
  /\ UNCHANGED <<now, runtime, signature, request>>

(* Code between two awaits takes no time, and messages at most Latency. *)
Tick ==
  /\ now < MaxTime /\ now' = now + 1
  /\ \A r \in Requests : request[r].at # "authorize" /\ request[r].age < Latency
  /\ request' = [r \in Requests |->
                   [request[r] EXCEPT !.age = IF request[r].at \in {"signature", "sent"} THEN @ + 1 ELSE @]]
  /\ UNCHANGED <<runtime, admin, signature>>

AccessStep(r) ==
  CallBucket(r) \/ CallAdmin(r) \/ CallObject(r) \/ Authorize(r) \/ SignatureIssued(r) \/ SignatureArrives(r)
    \/ TokenArrives(r) \/ Ends(r)

AccessNext == (\E r \in Requests : AccessStep(r)) \/ SwitchUser \/ Tick

AccessSpec == AccessInit /\ [][AccessNext]_accessVars

-----------------------------------------------------------------------------
(* A signed request has not outlived its signature wherever it is on its way, whoever
   fetched the signature, whatever answers overtake each other, and whichever user the
   credential has by then: what the 300000 ms of the cache are for. *)
SignedInTime ==
  \A r \in Requests : request[r].at = "sent" /\ request[r].access = "signed" => now < request[r].end
=============================================================================
