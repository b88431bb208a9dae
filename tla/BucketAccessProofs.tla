-------------------------- MODULE BucketAccessProofs --------------------------
(***************************************************************************)
(* Proofs about BucketAccess, for every number of requests, every lifetime *)
(* of a signature and every bound on the clock.                            *)
(***************************************************************************)
EXTENDS BucketAccess, TLAPS

(* The cache drops a signature Margin before its end. *)
CacheHasMargin == signature.drop + Margin <= signature.end

(* A signature on its way from the server has nearly all of its life, ... *)
IssuedLately ==
  \A r \in Requests : request[r].at = "signature" => now + Life <= request[r].end + request[r].age

(* ... and a signed request can spend Latency on its way. *)
SentInTime ==
  \A r \in Requests : request[r].at = "sent" /\ request[r].access = "signed" =>
    now + Latency < request[r].end + request[r].age

AccessInv == AccessTypeOK /\ (signature = NoSignature \/ CacheHasMargin) /\ IssuedLately /\ SentInTime

-----------------------------------------------------------------------------
LEMMA AccessInvInit == AccessInit => AccessInv
  BY AccessAssumption
  DEF AccessAssumption, AccessInit, AccessInv, AccessTypeOK, IssuedLately, SentInTime,
      IdleRequest, NoSignature, Stages, Accesses

(* Whatever changes only r, to a record of the right type that is not on its way, or is
   so with the time that it needs, keeps the invariant. *)
LEMMA GoesKeeps ==
  ASSUME AccessInv, NEW r \in Requests, NEW stage \in Stages, NEW access \in Accesses, NEW end \in Int,
         Goes(r, stage, access, end), UNCHANGED <<now, runtime, admin, signature>>,
         stage = "signature" => now + Life <= end,
         stage = "sent" /\ access = "signed" => now + Latency < end
  PROVE  AccessInv'
<1> USE AccessAssumption DEF AccessAssumption, AccessInv, AccessTypeOK, Goes
<1>1. AccessTypeOK'
  OBVIOUS
<1>2. (signature = NoSignature \/ CacheHasMargin)'
  BY DEF CacheHasMargin, NoSignature
<1>3. IssuedLately'
  BY DEF IssuedLately
<1>4. SentInTime'
  BY DEF SentInTime
<1> QED
  BY <1>1, <1>2, <1>3, <1>4

LEMMA AccessInvStep ==
  ASSUME AccessInv, NEW r \in Requests, AccessStep(r)
  PROVE  AccessInv'
<1> USE AccessAssumption DEF AccessAssumption, Stages, Accesses
<1>0. now \in Nat /\ signature \in [drop : Int, end : Int] /\ request[r].end \in Int /\ request[r].age \in 0..Latency
  BY DEF AccessInv, AccessTypeOK
<1>1. CASE CallBucket(r)
  BY <1>1, GoesKeeps DEF CallBucket
<1>2. CASE CallAdmin(r)
  BY <1>2, GoesKeeps DEF CallAdmin
<1>8. CASE CallObject(r)
  BY <1>8, GoesKeeps DEF CallObject, CallAdmin
<1>3. CASE Authorize(r)
  <2>1. Cached => now + Latency < signature.end
    <3>1. signature = NoSignature \/ CacheHasMargin
      BY DEF AccessInv
    <3> QED
      BY <1>0, <3>1 DEF Cached, CacheHasMargin, NoSignature
  <2>2. CASE Goes(r, "sent", "public", 0)
    BY <1>3, <2>2, GoesKeeps DEF Authorize
  <2>3. CASE Cached /\ Goes(r, "sent", "signed", signature.end)
    BY <1>0, <1>3, <2>1, <2>3, GoesKeeps DEF Authorize
  <2>4. CASE Goes(r, "askSignature", "signed", 0)
    BY <1>3, <2>4, GoesKeeps DEF Authorize
  <2>5. CASE Goes(r, "askToken", "token", 0)
    BY <1>3, <2>5, GoesKeeps DEF Authorize
  <2>6. CASE Goes(r, "sent", "session", 0)
    BY <1>3, <2>6, GoesKeeps DEF Authorize
  <2> QED
    BY <1>3, <2>2, <2>3, <2>4, <2>5, <2>6 DEF Authorize
<1>4. CASE SignatureIssued(r)
  BY <1>0, <1>4, GoesKeeps DEF SignatureIssued
<1>5. CASE SignatureArrives(r)
  <2>1. now + Life <= request[r].end + request[r].age
    BY <1>5 DEF AccessInv, IssuedLately, SignatureArrives
  <2>2. now + Latency < request[r].end
    BY <1>0, <2>1
  <2> USE <1>0, <1>5, <2>2 DEF AccessInv, AccessTypeOK, SignatureArrives, Goes
  <2>3. AccessTypeOK'
    OBVIOUS
  <2>4. CacheHasMargin'
    BY DEF CacheHasMargin
  <2>5. IssuedLately'
    BY DEF IssuedLately
  <2>6. SentInTime'
    BY DEF SentInTime
  <2> QED
    BY <2>3, <2>4, <2>5, <2>6
<1>6. CASE TokenArrives(r)
  BY <1>6, GoesKeeps DEF TokenArrives
<1>7. CASE Ends(r)
  <2>1. Goes(r, "idle", "none", 0)
    BY <1>7 DEF Ends, Goes, IdleRequest
  <2> QED
    BY <1>7, <2>1, GoesKeeps DEF Ends
<1> QED
  BY <1>1, <1>2, <1>3, <1>4, <1>5, <1>6, <1>7, <1>8 DEF AccessStep

(* Time passes for all at once: what is on its way ages by as much as the clock moves. *)
LEMMA AccessInvTick ==
  ASSUME AccessInv, Tick
  PROVE  AccessInv'
<1> USE AccessAssumption DEF AccessAssumption, AccessInv, AccessTypeOK, Tick
<1>1. AccessTypeOK'
  OBVIOUS
<1>2. (signature = NoSignature \/ CacheHasMargin)'
  BY DEF CacheHasMargin, NoSignature
<1>3. IssuedLately'
  BY DEF IssuedLately
<1>4. SentInTime'
  BY DEF SentInTime
<1> QED
  BY <1>1, <1>2, <1>3, <1>4

LEMMA AccessInvNext == AccessInv /\ [AccessNext]_accessVars => AccessInv'
<1> SUFFICES ASSUME AccessInv, [AccessNext]_accessVars PROVE AccessInv'
  OBVIOUS
<1>1. CASE \E r \in Requests : AccessStep(r)
  BY <1>1, AccessInvStep
<1>2. CASE SwitchUser
  BY <1>2 DEF SwitchUser, AccessInv, AccessTypeOK, CacheHasMargin, NoSignature, IssuedLately, SentInTime
<1>3. CASE Tick
  BY <1>3, AccessInvTick
<1>4. CASE UNCHANGED accessVars
  BY <1>4 DEF accessVars, AccessInv, AccessTypeOK, CacheHasMargin, NoSignature, IssuedLately, SentInTime
<1> QED
  BY <1>1, <1>2, <1>3, <1>4 DEF AccessNext

(* The variables keep their types. *)
THEOREM AccessTypeCorrect == AccessSpec => []AccessTypeOK
<1>1. AccessInv => AccessTypeOK
  BY DEF AccessInv
<1> QED
  BY AccessInvInit, AccessInvNext, <1>1, PTL DEF AccessSpec

(* A signed request reaches the server before its signature ends: for every Latency that
   is within the margin of the cache, and any number of requests that fetch signatures at
   a time. *)
THEOREM SignedInTimeAlways == AccessSpec => []SignedInTime
<1>1. AccessInv => SignedInTime
  BY AccessAssumption
  DEF AccessAssumption, AccessInv, AccessTypeOK, SentInTime, SignedInTime
<1> QED
  BY AccessInvInit, AccessInvNext, <1>1, PTL DEF AccessSpec
=============================================================================
