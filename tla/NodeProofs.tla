------------------------------ MODULE NodeProofs ------------------------------
(***************************************************************************)
(* Proofs about NodeClient: what a request that is retried stores, and     *)
(* which credentials and user its headers name, for any calls, kinds of    *)
(* requests, headers of incoming calls and numbers of attempts and apps.   *)
(***************************************************************************)
EXTENDS NodeClient, TLAPS, FiniteSetTheorems, WellFoundedInduction, SequenceTheorems

(* A set of naturals has a least one: the strict subsets of an interval are
   well founded. *)
LEMMA Least ==
  ASSUME NEW D, D \subseteq Nat, D # {}
  PROVE  \E m \in D : \A d \in D : m <= d
<1> DEFINE T == {0..d : d \in D}
<1>1. T \subseteq FiniteSubsetsOf(Nat)
  <2>1. ASSUME NEW d \in D PROVE 0..d \in FiniteSubsetsOf(Nat)
    <3>1. d \in Int /\ 0 \in Int /\ 0..d \subseteq Nat
      OBVIOUS
    <3>2. IsFiniteSet(0..d)
      BY <3>1, FS_Interval
    <3> QED BY <3>1, <3>2 DEF FiniteSubsetsOf
  <2> QED BY <2>1
<1>2. T # {}
  OBVIOUS
<1>3. PICK x \in T : \A y \in T : <<y, x>> \notin StrictSubsetOrdering(Nat)
  BY <1>1, <1>2, FS_StrictSubsetOrderingWellFounded, WFMin
<1>4. PICK m \in D : x = 0..m
  BY <1>3
<1>5. ASSUME NEW d \in D, d < m PROVE FALSE
  <2>1. 0..d \subseteq 0..m /\ 0..d # 0..m
    <3>1. m \in 0..m /\ m \notin 0..d
      BY <1>5
    <3> QED BY <1>5, <3>1
  <2>2. <<0..d, 0..m>> \in StrictSubsetOrdering(Nat)
    BY <2>1 DEF StrictSubsetOrdering
  <2> QED BY <1>3, <1>4, <2>2
<1> QED BY <1>5
-----------------------------------------------------------------------------
(* The data of a request. *)

(* What is left of some data is data, and what is left of that is left of it. *)
LEMMA TailsType ==
  ASSUME NEW s \in Seq(Field), NEW t \in Tails(s)
  PROVE  t \in Seq(Field)
<1>1. PICK i \in 1..(Len(s) + 1) : t = SubSeq(s, i, Len(s))
  BY DEF Tails
<1>2. \A j \in i..Len(s) : s[j] \in Field
  BY ElementOfSeq
<1>3. i \in Int /\ Len(s) \in Int
  BY LenProperties
<1> QED BY <1>1, <1>2, <1>3, SubSeqProperties

LEMMA TailsOfTail ==
  ASSUME NEW s \in Seq(Field), NEW t \in Tails(s), t # <<>>
  PROVE  Tail(t) \in Seq(Field) /\ Tails(Tail(t)) \subseteq Tails(s)
<1>1. PICK i \in 1..(Len(s) + 1) : t = SubSeq(s, i, Len(s))
  BY DEF Tails
<1>2. Len(s) \in Nat
  BY LenProperties
<1>3. i \in 1..Len(s)
  BY <1>1, <1>2, SubSeqEmpty
<1>4. t \in Seq(Field) /\ Len(t) = Len(s) - i + 1 /\ \A j \in 1..Len(t) : t[j] = s[i + j - 1]
  <2>1. \A j \in i..Len(s) : s[j] \in Field
    BY <1>3, ElementOfSeq
  <2> QED BY <1>1, <1>2, <1>3, <2>1, SubSeqProperties
<1>5. /\ Tail(t) \in Seq(Field) /\ Len(Tail(t)) = Len(t) - 1
      /\ \A j \in 1..Len(Tail(t)) : Tail(t)[j] = t[j + 1]
  BY <1>4, HeadTailProperties
<1>6. ASSUME NEW k \in 1..(Len(Tail(t)) + 1)
      PROVE  SubSeq(Tail(t), k, Len(Tail(t))) \in Tails(s)
  <2>1. k + i \in 1..(Len(s) + 1)
    BY <1>2, <1>3, <1>4, <1>5
  <2>2. SubSeq(Tail(t), k, Len(Tail(t))) = SubSeq(s, k + i, Len(s))
    <3>1. k \in Int /\ Len(Tail(t)) \in Int /\ k + i \in Int /\ Len(s) \in Int
      BY <1>2, <1>4, <1>5
    <3>2. /\ \A j \in k..Len(Tail(t)) : Tail(t)[j] \in Field
          /\ \A j \in (k + i)..Len(s) : s[j] \in Field
      BY <1>2, <1>5, <2>1, ElementOfSeq
    <3> DEFINE u == SubSeq(Tail(t), k, Len(Tail(t)))
               v == SubSeq(s, k + i, Len(s))
    <3>3. /\ u \in Seq(Field)
          /\ Len(u) = IF k <= Len(Tail(t)) THEN Len(Tail(t)) - k + 1 ELSE 0
          /\ \A j \in 1..(Len(Tail(t)) - k + 1) : u[j] = Tail(t)[k + j - 1]
      BY <3>1, <3>2, SubSeqProperties
    <3>4. /\ v \in Seq(Field)
          /\ Len(v) = IF k + i <= Len(s) THEN Len(s) - (k + i) + 1 ELSE 0
          /\ \A j \in 1..(Len(s) - (k + i) + 1) : v[j] = s[k + i + j - 1]
      BY <3>1, <3>2, SubSeqProperties
    <3> HIDE DEF u, v
    <3>5. Len(u) = Len(v) /\ Len(Tail(t)) = Len(s) - i
      BY <1>2, <1>3, <1>4, <1>5, <3>3, <3>4
    <3>6. ASSUME NEW j \in 1..Len(u) PROVE u[j] = v[j]
      <4>1. /\ k + j - 1 \in 1..Len(Tail(t)) /\ k + j \in 1..Len(t)
            /\ j \in 1..(Len(Tail(t)) - k + 1) /\ j \in 1..(Len(s) - (k + i) + 1)
        BY <1>2, <1>3, <1>4, <1>5, <3>3, <3>5
      <4>2. u[j] = Tail(t)[k + j - 1] /\ v[j] = s[k + i + j - 1]
        BY <3>3, <3>4, <4>1
      <4>3. Tail(t)[k + j - 1] = t[(k + j - 1) + 1]
        BY <1>5, <4>1
      <4>4. t[k + j] = s[i + (k + j) - 1]
        BY <1>4, <4>1
      <4>5. (k + j - 1) + 1 = k + j /\ i + (k + j) - 1 = k + i + j - 1
        BY <1>2, <1>3, <3>1, <4>1
      <4> QED BY <4>2, <4>3, <4>4, <4>5
    <3>7. u = v
      BY <3>3, <3>4, <3>5, <3>6, SeqEqual
    <3> QED BY <3>7 DEF u, v
  <2> QED BY <2>1, <2>2 DEF Tails
<1> QED BY <1>5, <1>6 DEF Tails

LEMMA EmptyTail ==
  ASSUME NEW s \in Seq(Field)
  PROVE  <<>> \in Tails(s)
<1>1. Len(s) \in Nat
  BY LenProperties
<1>2. SubSeq(s, Len(s) + 1, Len(s)) = <<>>
  BY <1>1, SubSeqEmpty
<1>3. Len(s) + 1 \in 1..(Len(s) + 1)
  BY <1>1
<1>4. SubSeq(s, Len(s) + 1, Len(s)) \in Tails(s)
  BY <1>3 DEF Tails
<1> QED BY <1>2, <1>4

(* FormData._getNext() stops at the first stream, or at the end. *)
LEMMA UpToStreamType ==
  ASSUME NEW s \in Seq(Field)
  PROVE  UpToStream(s) \in Tails(s)
<1> DEFINE Stop(t) == /\ t = <<>> \/ IsStream(Head(t))
                      /\ \A i \in 1..(Len(s) - Len(t)) : ~IsStream(s[i])
           D == {i \in 1..Len(s) : IsStream(s[i])}
<1>1. Len(s) \in Nat
  BY LenProperties
<1>2. CASE D = {}
  <2>1. Len(<<>>) = 0
    BY EmptySeq
  <2>2. Stop(<<>>)
    BY <1>1, <1>2, <2>1
  <2>3. \E t \in Tails(s) : Stop(t)
    BY <2>2, EmptyTail
  <2> QED BY <2>3 DEF UpToStream
<1>3. CASE D # {}
  <2>1. PICK m \in D : \A d \in D : m <= d
    <3>1. D \subseteq Nat
      BY <1>1
    <3> HIDE DEF D
    <3> QED BY <1>3, <3>1, Least
  <2> DEFINE t == SubSeq(s, m, Len(s))
  <2>2. m \in 1..Len(s) /\ Len(s) \in m..Len(s) /\ m \in 1..(Len(s) + 1)
    BY <1>1, <2>1
  <2>3. t \in Tails(s)
    BY <2>2 DEF Tails
  <2>4. Head(t) = s[m]
    BY <2>2, HeadTailOfSubSeq
  <2>5. Len(t) = Len(s) - m + 1
    <3>1. \A j \in m..Len(s) : s[j] \in Field
      BY <2>2, ElementOfSeq
    <3> QED BY <1>1, <2>2, <3>1, SubSeqProperties
  <2>6. Stop(t)
    <3>1. IsStream(Head(t))
      BY <2>1, <2>4
    <3>2. \A i \in 1..(Len(s) - Len(t)) : ~IsStream(s[i])
      <4> HIDE DEF t
      <4> SUFFICES ASSUME NEW i \in 1..(Len(s) - Len(t)), IsStream(s[i]) PROVE FALSE
        OBVIOUS
      <4>1. i \in D /\ ~(m <= i)
        BY <1>1, <2>2, <2>5
      <4> QED BY <2>1, <4>1
    <3> QED BY <3>1, <3>2
  <2>7. \E x \in Tails(s) : Stop(x)
    BY <2>3, <2>6
  <2> QED BY <2>7 DEF UpToStream
<1> QED BY <1>2, <1>3
-----------------------------------------------------------------------------
(* Requests: how often data is stored, and what a call that resolved says of it. *)

Attempting(c) == phase[c] \in {"sending", "waiting"}

(* An attempt stores at most once, and a part of the data counts as once. *)
OncePerAttempt(c) ==
  /\ phase[c] = "idle" => stored[c] = 0 /\ torn[c] = 0
  /\ stored[c] + torn[c] + (IF Attempting(c) THEN 1 ELSE 0) <= tries[c]

(* Raw data is never sent again, a form is whole in the first attempt only. *)
OnceUnlessJson(c) ==
  /\ kind[c].type = "raw" => tries[c] <= 1
  /\ kind[c].type # "json" => stored[c] + torn[c] <= 1

(* A body that was cut short belongs to a call that was rejected by then. *)
TornIsRejected(c) ==
  /\ torn[c] > 0 => promise[c] = "rejected"
  /\ kind[c].type = "raw" /\ Attempting(c) => promise[c] \in {"pending", "rejected"}
  /\ kind[c].type = "raw" /\ phase[c] = "waiting" /\ left[c] # <<>> => promise[c] = "rejected"

(* A call resolves after its data was stored. *)
StoredByThen(c) ==
  /\ phase[c] = "reading" => stored[c] > 0 \/ promise[c] = "rejected"
  /\ promise[c] = "resolved" => stored[c] > 0

LeftOK ==
  /\ left \in [Calls -> Seq(Field)]
  /\ \A c \in Calls : phase[c] = "sending" => left[c] # <<>>

Sound(c) == OncePerAttempt(c) /\ OnceUnlessJson(c) /\ TornIsRejected(c) /\ StoredByThen(c)

RequestInv ==
  /\ TypeOK
  /\ LeftOK
  /\ \A c \in Calls : Sound(c)

(* What an attempt begins with is left of the data of its call. *)
LEMMA WriteType ==
  ASSUME RequestInv, NEW c \in Calls, NEW k \in Kinds, NEW data \in Seq(Field),
         Tails(data) \subseteq Tails(k.fields), kind' = [kind EXCEPT ![c] = k],
         Write(c, data)
  PROVE  /\ left' \in [Calls -> Seq(Field)]
         /\ \A d \in Calls : left'[d] \in Tails(kind'[d].fields)
         /\ phase' = [phase EXCEPT ![c] = IF left'[c] = <<>> THEN "waiting" ELSE "sending"]
         /\ paused' \in [Calls -> BOOLEAN]
<1> DEFINE t == UpToStream(data)
<1>1. t \in Tails(data)
  BY UpToStreamType
<1>2. t \in Seq(Field) /\ t \in Tails(k.fields)
  BY <1>1, TailsType
<1> HIDE DEF t
<1>3. left' = [left EXCEPT ![c] = t]
  BY DEF Write, t
<1>4. phase' = [phase EXCEPT ![c] = IF t = <<>> THEN "waiting" ELSE "sending"]
  BY DEF Write, t
<1>5. left'[c] = t
  BY <1>3 DEF RequestInv, LeftOK
<1>6. left' \in [Calls -> Seq(Field)]
  BY <1>2, <1>3 DEF RequestInv, LeftOK
<1>7. \A d \in Calls : left'[d] \in Tails(kind'[d].fields)
  BY <1>2, <1>3 DEF RequestInv, LeftOK, TypeOK
<1>8. paused' \in [Calls -> BOOLEAN]
  BY DEF Write, RequestInv, TypeOK
<1> QED BY <1>4, <1>5, <1>6, <1>7, <1>8

LEMMA RequestInit == Init => RequestInv
<1> SUFFICES ASSUME Init PROVE RequestInv
  OBVIOUS
<1> USE RequestAssumption DEF Init
<1>1. Unsent \in Kinds
  BY DEF Unsent
<1>2. \A c \in Calls : left[c] \in Tails(kind[c].fields)
  BY <1>1, EmptyTail
<1>3. TypeOK
  BY <1>1, <1>2 DEF TypeOK
<1>4. LeftOK
  BY EmptySeq DEF LeftOK
<1> QED BY <1>3, <1>4
       DEF RequestInv, Sound, OncePerAttempt, OnceUnlessJson, TornIsRejected, StoredByThen, Attempting

(* A step that takes up no new attempt of the data. *)
LEMMA SettleType ==
  ASSUME TypeOK, NEW c \in Calls, NEW how \in {"resolved", "rejected"}, Settle(c, how)
  PROVE  /\ promise' \in [Calls -> {"none", "pending", "resolved", "rejected"}]
         /\ \A d \in Calls : promise'[d] = IF d = c /\ promise[c] = "pending" THEN how
                                           ELSE promise[d]
BY DEF Settle, TypeOK

LEMMA RequestBegins ==
  ASSUME RequestInv, NEW c \in Calls, NEW k \in Kinds, Request(c, k)
  PROVE  RequestInv'
<1>1. k.fields \in Seq(Field) /\ k.type \in {"json", "file", "raw"}
  BY RequestAssumption
<1>2. /\ left' \in [Calls -> Seq(Field)]
      /\ \A d \in Calls : left'[d] \in Tails(kind'[d].fields)
      /\ phase' = [phase EXCEPT ![c] = IF left'[c] = <<>> THEN "waiting" ELSE "sending"]
      /\ paused' \in [Calls -> BOOLEAN]
  BY <1>1, WriteType DEF Request
<1>3. \A d \in Calls : d # c => left'[d] = left[d]
  BY DEF Request, Write, RequestInv, LeftOK
<1> USE RequestAssumption DEF RequestInv
<1>4. TypeOK'
  BY <1>2 DEF TypeOK, Request, Cloned
<1>5. LeftOK'
  BY <1>2, <1>3 DEF LeftOK, TypeOK
<1>6. ASSUME NEW d \in Calls
      PROVE  Sound(d)'
  <2>1. CASE d = c
    <3>1. /\ phase'[c] = IF left'[c] = <<>> THEN "waiting" ELSE "sending"
          /\ tries'[c] = 1 /\ promise'[c] = "pending" /\ kind'[c] = k
          /\ stored'[c] = 0 /\ torn'[c] = 0
      BY <1>2 DEF TypeOK, Request, Sound, OncePerAttempt
    <3> QED BY <2>1, <3>1 DEF Sound, OncePerAttempt, OnceUnlessJson, TornIsRejected, StoredByThen, Attempting
  <2>2. CASE d # c
    BY <1>2, <1>3, <2>2
    DEF TypeOK, Request, Sound, OncePerAttempt, OnceUnlessJson, TornIsRejected, StoredByThen, Attempting
  <2> QED BY <2>1, <2>2
<1> QED BY <1>4, <1>5, <1>6

(* A step of one call leaves the others alone. *)
LEMMA OthersKept ==
  ASSUME RequestInv, NEW c \in Calls, CallStep(c), NEW d \in Calls, d # c
  PROVE  /\ Sound(d)'
         /\ kind'[d] = kind[d] /\ left'[d] = left[d] /\ phase'[d] = phase[d]
<1>1. /\ kind'[d] = kind[d] /\ promise'[d] = promise[d] /\ tries'[d] = tries[d]
      /\ phase'[d] = phase[d] /\ left'[d] = left[d]
      /\ stored'[d] = stored[d] /\ torn'[d] = torn[d]
  <2> USE DEF RequestInv, TypeOK, LeftOK, Settle, Write
  <2>1. CASE StreamEnds(c) \/ StreamFails(c) \/ Pause(c) \/ Drain(c)
    BY <2>1 DEF StreamEnds, StreamFails, Pause, Drain
  <2>2. CASE Answer(c) \/ BodyEnds(c) \/ BodyIsCut(c)
    BY <2>2 DEF Answer, BodyEnds, BodyIsCut, Store, RejectWithContext
  <2>3. CASE Error(c)
    BY <2>3 DEF Error, Store, Fail, Retry
  <2> QED BY <2>1, <2>2, <2>3 DEF CallStep
<1> QED BY <1>1 DEF RequestInv, Sound, OncePerAttempt, OnceUnlessJson, TornIsRejected, StoredByThen, Attempting

(* What the server does with the data of an attempt: it counts once, in part only
   where raw data was cut short, and data that is sent once is counted once. *)
LEMMA StoreCounts ==
  ASSUME RequestInv, NEW c \in Calls, phase[c] = "waiting",
         \/ Store(c)
         \/ UNCHANGED <<stored, torn>>
  PROVE  /\ stored' \in [Calls -> Nat] /\ torn' \in [Calls -> Nat]
         /\ stored'[c] >= stored[c]
         /\ stored'[c] + torn'[c] <= stored[c] + torn[c] + 1
         /\ torn'[c] > 0 => promise[c] = "rejected"
         /\ kind[c].type # "json" => stored'[c] + torn'[c] <= 1
         /\ Store(c) => stored'[c] > 0 \/ promise[c] = "rejected"
<1> USE DEF RequestInv, TypeOK, Sound, OncePerAttempt, OnceUnlessJson, TornIsRejected, Attempting
<1>1. kind[c].type \in {"json", "file", "raw"}
  BY RequestAssumption
<1>2. CASE UNCHANGED <<stored, torn>> /\ ~Store(c)
  BY <1>2
<1>3. CASE Store(c) /\ Whole(c) /\ stored' = [stored EXCEPT ![c] = @ + 1] /\ UNCHANGED torn
  BY <1>1, <1>3 DEF Whole, BoundaryNamed
<1>4. CASE Store(c) /\ kind[c].type = "raw" /\ ~Whole(c)
           /\ torn' = [torn EXCEPT ![c] = @ + 1] /\ UNCHANGED stored
  <2>1. left[c] # <<>>
    BY <1>4 DEF Whole, BoundaryNamed
  <2> QED BY <1>4, <2>1
<1> QED BY <1>2, <1>3, <1>4 DEF Store

(* The stream, and back pressure. *)
LEMMA StreamSteps ==
  ASSUME RequestInv, NEW c \in Calls,
         StreamEnds(c) \/ StreamFails(c) \/ Pause(c) \/ Drain(c)
  PROVE  TypeOK' /\ LeftOK' /\ Sound(c)'
<1>1. CASE StreamEnds(c) /\ phase[c] = "sending" /\ Flows(c)
  <2>1. /\ left[c] # <<>> /\ left[c] \in Tails(kind[c].fields)
        /\ kind[c] \in Kinds /\ kind[c].fields \in Seq(Field)
    BY <1>1, RequestAssumption DEF RequestInv, LeftOK, TypeOK
  <2>2. Tail(left[c]) \in Seq(Field) /\ Tails(Tail(left[c])) \subseteq Tails(kind[c].fields)
    BY <2>1, TailsOfTail
  <2>3. kind' = [kind EXCEPT ![c] = kind[c]]
    BY <1>1 DEF StreamEnds, RequestInv, TypeOK
  <2>4. Write(c, Tail(left[c]))
    BY <1>1 DEF StreamEnds
  <2>5. /\ left' \in [Calls -> Seq(Field)]
        /\ \A d \in Calls : left'[d] \in Tails(kind'[d].fields)
        /\ phase' = [phase EXCEPT ![c] = IF left'[c] = <<>> THEN "waiting" ELSE "sending"]
        /\ paused' \in [Calls -> BOOLEAN]
    BY <2>1, <2>2, <2>3, <2>4, WriteType
  <2>6. \A d \in Calls : d # c => left'[d] = left[d]
    BY <2>4 DEF Write, RequestInv, LeftOK
  <2> USE DEF RequestInv
  <2>7. TypeOK'
    BY <1>1, <2>5 DEF TypeOK, StreamEnds
  <2>8. LeftOK'
    BY <2>5, <2>6 DEF LeftOK, TypeOK
  <2>9. Sound(c)'
    BY <1>1, <2>5
    DEF TypeOK, StreamEnds, Sound, OncePerAttempt, OnceUnlessJson, TornIsRejected, StoredByThen, Attempting
  <2> QED BY <2>7, <2>8, <2>9
<1>2. CASE ~(StreamEnds(c) /\ phase[c] = "sending" /\ Flows(c))
  <2> USE <1>2 DEF StreamEnds, StreamFails, CloneFails, Settle, Pause, Drain, RequestInv
  <2>1. TypeOK'
    BY DEF TypeOK
  <2>2. LeftOK'
    BY DEF TypeOK, LeftOK
  <2>3. Sound(c)'
    BY DEF TypeOK, LeftOK, Sound, OncePerAttempt, OnceUnlessJson, TornIsRejected, StoredByThen, Attempting
  <2> QED BY <2>1, <2>2, <2>3
<1> QED BY <1>1, <1>2

(* The response, and its body. *)
LEMMA AnswerSteps ==
  ASSUME RequestInv, NEW c \in Calls, Answer(c) \/ BodyEnds(c) \/ BodyIsCut(c)
  PROVE  TypeOK' /\ LeftOK' /\ Sound(c)'
<1> USE DEF RequestInv
<1>1. CASE Answer(c) /\ Store(c) /\ phase' = [phase EXCEPT ![c] = "reading"]
  <2>1. /\ stored' \in [Calls -> Nat] /\ torn' \in [Calls -> Nat]
        /\ stored'[c] >= stored[c]
        /\ stored'[c] + torn'[c] <= stored[c] + torn[c] + 1
        /\ torn'[c] > 0 => promise[c] = "rejected"
        /\ kind[c].type # "json" => stored'[c] + torn'[c] <= 1
        /\ stored'[c] > 0 \/ promise[c] = "rejected"
    BY <1>1, StoreCounts DEF Answer
  <2>2. /\ promise' \in [Calls -> {"none", "pending", "resolved", "rejected"}]
        /\ promise'[c] = promise[c] \/ (promise[c] = "pending" /\ promise'[c] \in {"resolved", "rejected"})
    BY <1>1, SettleType DEF Answer, RejectWithContext, TypeOK
  <2>3. phase[c] = "waiting" /\ phase' = [phase EXCEPT ![c] = "reading"]
        /\ UNCHANGED <<kind, tries, left, paused, source, clones, lost, unhandled>>
    BY <1>1 DEF Answer
  <2>4. TypeOK' /\ LeftOK'
    BY <2>1, <2>2, <2>3 DEF TypeOK, LeftOK
  <2>5. Sound(c)'
    <3>1. phase'[c] = "reading" /\ kind'[c] = kind[c] /\ tries'[c] = tries[c]
      BY <2>3 DEF TypeOK
    <3>2. stored[c] + torn[c] + 1 <= tries[c] /\ stored[c] \in Nat /\ torn[c] \in Nat
          /\ tries[c] \in Nat /\ stored'[c] \in Nat /\ torn'[c] \in Nat
      BY <2>1, <2>3, RequestAssumption DEF TypeOK, Sound, OncePerAttempt, Attempting
    <3>3. OncePerAttempt(c)' /\ OnceUnlessJson(c)'
      BY <2>1, <3>1, <3>2 DEF Sound, OncePerAttempt, OnceUnlessJson, Attempting
    <3>4. TornIsRejected(c)' /\ StoredByThen(c)'
      BY <2>1, <2>2, <3>1, <3>2 DEF Sound, TornIsRejected, StoredByThen, Attempting
    <3> QED BY <3>3, <3>4 DEF Sound
  <2> QED BY <2>4, <2>5
<1>2. CASE BodyEnds(c) \/ BodyIsCut(c)
           \/ (Answer(c) /\ RejectWithContext(c) /\ UNCHANGED <<stored, torn>>)
  <2> USE <1>2 DEF Answer, RejectWithContext, BodyEnds, BodyIsCut, Settle
  <2>1. TypeOK' /\ LeftOK'
    BY DEF TypeOK, LeftOK
  <2>2. Sound(c)'
    BY DEF TypeOK, Sound, OncePerAttempt, OnceUnlessJson, TornIsRejected, StoredByThen, Attempting
  <2> QED BY <2>1, <2>2
<1> QED BY <1>1, <1>2 DEF Answer

(* The next attempt sends the data again, unless the last one failed. *)
LEMMA RetryType ==
  ASSUME RequestInv, NEW c \in Calls, Retry(c), UNCHANGED kind, phase[c] # "idle"
  PROVE  /\ left' \in [Calls -> Seq(Field)]
         /\ \A d \in Calls : left'[d] \in Tails(kind'[d].fields)
         /\ tries' \in [Calls -> 0..(Threshold + 1)]
         /\ clones' \in [Calls -> 0..2]
         /\ paused' \in [Calls -> BOOLEAN]
         /\ phase' \in [Calls -> {"idle", "sending", "waiting", "reading", "over"}]
         /\ \/ /\ phase'[c] = "over" /\ tries'[c] = tries[c] /\ Settle(c, "rejected")
               /\ UNCHANGED left
            \/ /\ phase'[c] = IF left'[c] = <<>> THEN "waiting" ELSE "sending"
               /\ tries'[c] = tries[c] + 1 /\ UNCHANGED promise
<1> USE RequestAssumption DEF RequestInv, TypeOK, LeftOK
<1>1. CASE tries[c] = Threshold + 1
  BY <1>1 DEF Retry, Fail
<1>2. CASE tries[c] # Threshold + 1
  <2>1. /\ kind[c] \in Kinds /\ kind[c].fields \in Seq(Field)
        /\ kind' = [kind EXCEPT ![c] = kind[c]]
    OBVIOUS
  <2>2. /\ tries' = [tries EXCEPT ![c] = @ + 1] /\ UNCHANGED promise
        /\ Write(c, kind[c].fields) /\ clones' = [clones EXCEPT ![c] = ClonePiped(@)]
    BY <1>2 DEF Retry
  <2>3. /\ left' \in [Calls -> Seq(Field)]
        /\ \A d \in Calls : left'[d] \in Tails(kind'[d].fields)
        /\ phase' = [phase EXCEPT ![c] = IF left'[c] = <<>> THEN "waiting" ELSE "sending"]
        /\ paused' \in [Calls -> BOOLEAN]
    BY <2>1, <2>2, WriteType
  <2>4. tries' \in [Calls -> 0..(Threshold + 1)] /\ clones' \in [Calls -> 0..2]
    BY <1>2, <2>2 DEF ClonePiped
  <2> QED BY <2>2, <2>3, <2>4
<1> QED BY <1>1, <1>2

LEMMA ErrorStep ==
  ASSUME RequestInv, NEW c \in Calls, Error(c)
  PROVE  TypeOK' /\ LeftOK' /\ Sound(c)'
<1>1. /\ stored' \in [Calls -> Nat] /\ torn' \in [Calls -> Nat]
      /\ stored'[c] >= stored[c]
      /\ stored'[c] + torn'[c] <= stored[c] + torn[c] + 1
      /\ phase[c] # "waiting" => stored'[c] = stored[c] /\ torn'[c] = torn[c]
      /\ torn'[c] > 0 => promise[c] = "rejected"
      /\ kind[c].type # "json" => stored'[c] + torn'[c] <= 1
  <2>1. CASE phase[c] = "waiting"
    BY <2>1, StoreCounts DEF Error
  <2>2. CASE phase[c] # "waiting"
    BY <2>2 DEF Error, RequestInv, TypeOK, Sound, OnceUnlessJson, TornIsRejected
  <2> QED BY <2>1, <2>2
<1>2. stored[c] \in Nat /\ torn[c] \in Nat /\ stored'[c] \in Nat /\ torn'[c] \in Nat
      /\ tries[c] \in Nat
  BY <1>1, RequestAssumption DEF RequestInv, TypeOK
<1>3. stored'[c] + torn'[c] <= tries[c]
  BY <1>1, <1>2 DEF RequestInv, Sound, OncePerAttempt, Attempting, Error
<1>4. /\ phase[c] \in {"sending", "waiting", "reading"}
      /\ UNCHANGED <<kind, source, lost, unhandled>>
  BY DEF Error
<1>5. CASE Fail(c)
  <2>1. /\ phase' = [phase EXCEPT ![c] = "over"] /\ Settle(c, "rejected")
        /\ UNCHANGED <<tries, left, paused, clones>>
    BY <1>5 DEF Fail
  <2>2. /\ promise' \in [Calls -> {"none", "pending", "resolved", "rejected"}]
        /\ promise'[c] = promise[c] \/ (promise[c] = "pending" /\ promise'[c] = "rejected")
    BY <2>1, SettleType DEF RequestInv
  <2>3. TypeOK' /\ LeftOK'
    BY <1>1, <1>4, <2>1, <2>2 DEF RequestInv, TypeOK, LeftOK
  <2>4. phase'[c] = "over" /\ tries'[c] = tries[c] /\ kind'[c] = kind[c]
    BY <1>4, <2>1 DEF RequestInv, TypeOK
  <2>5. OncePerAttempt(c)' /\ OnceUnlessJson(c)'
    BY <1>1, <1>2, <1>3, <2>4 DEF RequestInv, Sound, OncePerAttempt, OnceUnlessJson, Attempting
  <2>6. TornIsRejected(c)' /\ StoredByThen(c)'
    BY <1>1, <1>2, <2>2, <2>4 DEF RequestInv, Sound, TornIsRejected, StoredByThen, Attempting
  <2> QED BY <2>3, <2>5, <2>6 DEF Sound
<1>6. CASE kind[c].type # "raw" /\ Retry(c)
  <2>1. /\ left' \in [Calls -> Seq(Field)]
        /\ \A d \in Calls : left'[d] \in Tails(kind'[d].fields)
        /\ tries' \in [Calls -> 0..(Threshold + 1)]
        /\ clones' \in [Calls -> 0..2]
        /\ paused' \in [Calls -> BOOLEAN]
        /\ phase' \in [Calls -> {"idle", "sending", "waiting", "reading", "over"}]
        /\ \/ /\ phase'[c] = "over" /\ tries'[c] = tries[c] /\ Settle(c, "rejected")
              /\ UNCHANGED left
           \/ /\ phase'[c] = IF left'[c] = <<>> THEN "waiting" ELSE "sending"
              /\ tries'[c] = tries[c] + 1 /\ UNCHANGED promise
    BY <1>4, <1>6, RetryType
  <2>2. /\ promise' \in [Calls -> {"none", "pending", "resolved", "rejected"}]
        /\ promise'[c] = promise[c] \/ (promise[c] = "pending" /\ promise'[c] = "rejected")
    BY <2>1, SettleType DEF RequestInv, TypeOK
  <2>3. TypeOK'
    BY <1>1, <1>4, <2>1, <2>2 DEF RequestInv, TypeOK
  <2>4. LeftOK'
    <3>1. CallStep(c)
      BY DEF CallStep
    <3>2. ASSUME NEW d \in Calls, phase'[d] = "sending" PROVE left'[d] # <<>>
      <4>1. CASE d = c
        BY <2>1, <3>2, <4>1
      <4>2. CASE d # c
        BY <3>1, <3>2, <4>2, OthersKept DEF RequestInv, LeftOK
      <4> QED BY <4>1, <4>2
    <3> QED BY <2>1, <3>2 DEF LeftOK
  <2>5. kind'[c] = kind[c] /\ kind[c].type # "raw"
    BY <1>4, <1>6
  <2>6. OncePerAttempt(c)' /\ OnceUnlessJson(c)'
    BY <1>1, <1>2, <1>3, <2>1, <2>5 DEF RequestInv, Sound, OncePerAttempt, OnceUnlessJson, Attempting
  <2>7. TornIsRejected(c)' /\ StoredByThen(c)'
    BY <1>1, <1>2, <2>1, <2>2, <2>5 DEF RequestInv, Sound, TornIsRejected, StoredByThen, Attempting
  <2> QED BY <2>3, <2>4, <2>6, <2>7 DEF Sound
<1> QED BY <1>5, <1>6 DEF Error

LEMMA RequestStepInv ==
  ASSUME RequestInv, [Next]_vars
  PROVE  RequestInv'
<1>1. CASE UNCHANGED vars
  BY <1>1 DEF vars, RequestInv, TypeOK, LeftOK,
              Sound, OncePerAttempt, OnceUnlessJson, TornIsRejected, StoredByThen, Attempting
<1>2. ASSUME NEW c \in Calls, CallStep(c) PROVE RequestInv'
  <2>1. TypeOK' /\ LeftOK' /\ Sound(c)'
    BY <1>2, StreamSteps, AnswerSteps, ErrorStep DEF CallStep
  <2>2. \A d \in Calls : d # c => Sound(d)'
    BY <1>2, OthersKept
  <2> QED BY <2>1, <2>2 DEF RequestInv
<1> QED BY <1>1, <1>2, RequestBegins DEF Next

(* A send() that resolved has stored all of its data and never a part of it, for
   any number of attempts, however the connections and the streams fail. *)
THEOREM ResolvedStores == Spec => []ResolvedIsStored
<1>1. RequestInv => ResolvedIsStored
  <2> SUFFICES ASSUME RequestInv, NEW c \in Calls, promise[c] = "resolved"
               PROVE  stored[c] > 0 /\ torn[c] = 0
    BY DEF ResolvedIsStored
  <2>1. torn[c] \in Nat
    BY DEF RequestInv, TypeOK
  <2>2. TornIsRejected(c) /\ StoredByThen(c)
    BY DEF RequestInv, Sound
  <2> QED BY <2>1, <2>2 DEF TornIsRejected, StoredByThen
<1> QED BY <1>1, RequestInit, RequestStepInv, PTL DEF Spec

(* Raw data and forms have their effect at most once, anything else at most once
   for each attempt that REQ_RETRY_THRESHOLD allows. *)
THEOREM EffectsStayBounded == Spec => []EffectsBounded
<1>1. RequestInv => EffectsBounded
  <2> SUFFICES ASSUME RequestInv, NEW c \in Calls
               PROVE  stored[c] + torn[c] <= IF kind[c].type = "json" THEN Threshold + 1 ELSE 1
    BY DEF EffectsBounded
  <2>1. stored[c] \in Nat /\ torn[c] \in Nat /\ tries[c] \in 0..(Threshold + 1)
    BY DEF RequestInv, TypeOK
  <2>2. stored[c] + torn[c] <= tries[c]
    BY <2>1, RequestAssumption DEF RequestInv, Sound, OncePerAttempt
  <2> QED BY <2>1, <2>2, RequestAssumption DEF RequestInv, Sound, OnceUnlessJson
<1> QED BY <1>1, RequestInit, RequestStepInv, PTL DEF Spec
-----------------------------------------------------------------------------
(* Credentials: which token a request gets, and which user its headers name. *)

CredRecord ==
  [class : {"catalyst", "custom", "default", "plain"},
   scope : Creds!Users, type : Creds!Users,
   holds : {"refresh", "token", "ticket"}, user : Creds!TokenKinds,
   issued : 0..MaxNow, until : 0..(MaxNow + Life)]

CallRecord ==
  [pc : {"idle", "refreshing", "authenticated", "sent", "rejected"}, cred : Nat,
   scope : Creds!Users \cup {"none"}, token : Creds!TokenKinds, issued : 0..MaxNow,
   type : Creds!Users \cup {"none"}, crossed : BOOLEAN]

CredsOK ==
  /\ options \in [is : {"empty", "bare", "raw", "made"}, cred : 0..Len(creds)]
  /\ options.is = "made" => options.cred # 0
  /\ creds \in Seq(CredRecord)
  /\ apps \in Seq(1..Len(creds)) /\ Len(apps) <= MaxApps
  /\ named \in [Names -> 0..Len(apps)]
  /\ wrapped \in [Objects -> 0..Len(creds)]
  /\ call \in [Calls -> CallRecord]
  /\ now \in 1..MaxNow

(* The credential of an incoming call holds tokens, never a refresh token. *)
HoldsTokens(cred) == cred.class = "catalyst" => cred.holds \in {"token", "ticket"}

(* An access token expires its life after the answer that brought it, which came
   within the patience of the caller who asked. *)
Expires(cred) == cred.until <= cred.issued + Life + Patience

(* A call that waits for an access token, and one that has its headers half made. *)
Waiting(k) ==
  k.pc = "refreshing" =>
    /\ creds[k.cred].class \in {"default", "plain"}
    /\ now <= k.issued + Patience

Authenticated(k) ==
  /\ k.pc \in {"refreshing", "authenticated", "sent"} => k.cred \in 1..Len(creds)
  /\ k.pc = "authenticated" /\ ~k.crossed /\ k.token # "none"
       => (k.scope = "user" <=> creds[k.cred].class = "catalyst" /\ creds[k.cred].scope = "user")

CredInv ==
  /\ CredsOK
  /\ \A i \in 1..Len(creds) : HoldsTokens(creds[i]) /\ Expires(creds[i])
  /\ \A c \in Calls : Waiting(call[c]) /\ Authenticated(call[c])
  /\ HeadersAgree

LEMMA CredInit == Creds!Init => CredInv
<1> SUFFICES ASSUME Creds!Init PROVE CredInv
  OBVIOUS
<1> USE CredentialAssumption DEF Creds!Init
<1>1. Len(creds) = 0 /\ Len(apps) = 0 /\ creds \in Seq(CredRecord) /\ apps \in Seq(1..Len(creds))
  BY EmptySeq
<1>2. Creds!Idle \in CallRecord
  BY DEF Creds!Idle, CallRecord, Creds!TokenKinds
<1>3. CredsOK
  BY <1>1, <1>2 DEF CredsOK
<1> QED BY <1>1, <1>3 DEF CredInv, Waiting, Authenticated, HeadersAgree, Creds!HeadersAgree, Creds!Idle

(* A step that adds a credential, with an app around it or not, and makes no call. *)
LEMMA CredentialAdded ==
  ASSUME CredInv, NEW r \in CredRecord, HoldsTokens(r), Expires(r),
         creds' = Append(creds, r),
         options' \in [is : {"empty", "bare", "raw", "made"}, cred : 0..Len(creds')],
         options'.is = "made" => options'.cred # 0,
         apps' \in Seq(1..Len(creds')), Len(apps') <= MaxApps,
         named' \in [Names -> 0..Len(apps')],
         wrapped' \in [Objects -> 0..Len(creds')],
         UNCHANGED <<call, now>>
  PROVE  CredInv'
<1>1. /\ creds' \in Seq(CredRecord) /\ Len(creds') = Len(creds) + 1
      /\ \A i \in 1..Len(creds) : creds'[i] = creds[i]
      /\ creds'[Len(creds) + 1] = r
  BY AppendProperties DEF CredInv, CredsOK
<1>2. Len(creds) \in Nat
  BY LenProperties DEF CredInv, CredsOK
<1>3. CredsOK'
  BY <1>1 DEF CredInv, CredsOK
<1>4. ASSUME NEW i \in 1..Len(creds') PROVE (HoldsTokens(creds'[i]) /\ Expires(creds'[i]))
  <2>1. CASE i \in 1..Len(creds)
    BY <1>1, <2>1 DEF CredInv
  <2>2. CASE i = Len(creds) + 1
    BY <1>1, <2>2
  <2> QED BY <1>1, <1>2, <2>1, <2>2
<1>5. ASSUME NEW c \in Calls
      PROVE  /\ (Waiting(call[c]) /\ Authenticated(call[c]))'
             /\ call[c].pc \in {"refreshing", "authenticated", "sent"}
                  => creds'[call[c].cred] = creds[call[c].cred]
  <2>1. Waiting(call[c]) /\ Authenticated(call[c])
    BY DEF CredInv
  <2>2. CASE call[c].pc \in {"refreshing", "authenticated", "sent"}
    <3>1. call[c].cred \in 1..Len(creds) /\ call[c].cred \in 1..Len(creds')
      BY <1>1, <1>2, <2>1, <2>2 DEF Authenticated
    <3>2. creds'[call[c].cred] = creds[call[c].cred]
      BY <1>1, <3>1
    <3> QED BY <2>1, <3>1, <3>2 DEF Waiting, Authenticated
  <2>3. CASE call[c].pc \notin {"refreshing", "authenticated", "sent"}
    BY <2>3 DEF Waiting, Authenticated
  <2> QED BY <2>2, <2>3
<1>6. HeadersAgree'
  BY <1>5 DEF CredInv, HeadersAgree, Creds!HeadersAgree
<1> QED BY <1>3, <1>4, <1>5, <1>6 DEF CredInv

(* A step that leaves the credentials and the calls alone. *)
LEMMA CredentialsKept ==
  ASSUME CredInv, UNCHANGED <<creds, call, now>>,
         options' \in [is : {"empty", "bare", "raw", "made"}, cred : 0..Len(creds)],
         options'.is = "made" => options'.cred # 0,
         apps' \in Seq(1..Len(creds)), Len(apps') <= MaxApps,
         named' \in [Names -> 0..Len(apps')],
         wrapped' \in [Objects -> 0..Len(creds)]
  PROVE  CredInv'
BY DEF CredInv, CredsOK, Waiting, Authenticated, HeadersAgree, Creds!HeadersAgree

(* An app around a credential, under a name. *)
LEMMA ConstructType ==
  ASSUME CredInv, Len(apps) < MaxApps, NEW name \in Names,
         NEW n \in Nat, Len(creds) <= n, NEW i \in 1..n, Creds!Construct(i, name)
  PROVE  /\ apps' \in Seq(1..n) /\ Len(apps') = Len(apps) + 1 /\ Len(apps') <= MaxApps
         /\ named' \in [Names -> 0..Len(apps')]
<1>1. Len(apps) \in Nat /\ Len(creds) \in Nat
  BY LenProperties DEF CredInv, CredsOK
<1>2. apps \in Seq(1..n)
  <2>1. 1..Len(creds) \subseteq 1..n
    BY <1>1
  <2>2. apps \in Seq(1..Len(creds))
    BY DEF CredInv, CredsOK
  <2> QED BY <2>1, <2>2, SeqMonotonic
<1>3. apps' \in Seq(1..n) /\ Len(apps') = Len(apps) + 1
  BY <1>2, AppendProperties DEF Creds!Construct
<1>4. named' \in [Names -> 0..Len(apps')]
  BY <1>1, <1>3 DEF Creds!Construct, CredInv, CredsOK
<1> QED BY <1>1, <1>3, <1>4, CredentialAssumption

LEMMA LengthTypes ==
  ASSUME CredInv
  PROVE  Len(creds) \in Nat /\ Len(apps) \in Nat
BY LenProperties DEF CredInv, CredsOK

LEMMA InitFromHeadersStep ==
  ASSUME CredInv, NEW n \in Names, NEW h \in Headers, NEW s \in Creds!Users \cup {"default"},
         Creds!InitFromHeaders(h, s, n)
  PROVE  CredInv'
<1> USE DEF Creds!InitFromHeaders
<1>1. CASE Creds!Refused(h, s)
  <2>1. /\ options' = [is |-> "bare", cred |-> 0]
        /\ UNCHANGED <<creds, apps, named, wrapped, call, now>>
    BY <1>1
  <2> QED BY <2>1, LengthTypes, CredentialsKept DEF CredInv, CredsOK
<1>2. CASE ~Creds!Refused(h, s)
  <2> DEFINE r == Creds!CatalystCredential(h, s)
  <2>1. r \in CredRecord /\ HoldsTokens(r) /\ Expires(r)
    BY <1>2, CredentialAssumption
    DEF Creds!CatalystCredential, Creds!Credential, Creds!Refused, Creds!ScopeOf, Creds!UserCred,
        Creds!CookieCred, CredRecord, Creds!Users, Creds!TokenKinds, HoldsTokens, Expires
  <2> HIDE DEF r
  <2>2. /\ creds' = Append(creds, r) /\ options' = [is |-> "made", cred |-> Len(creds) + 1]
        /\ Creds!Construct(Len(creds) + 1, n) /\ UNCHANGED <<wrapped, call, now>>
        /\ Len(apps) < MaxApps
    BY <1>2 DEF r
  <2>3. Len(creds') = Len(creds) + 1 /\ Len(creds) \in Nat
    BY <2>1, <2>2, AppendProperties, LengthTypes DEF CredInv, CredsOK
  <2>4. /\ apps' \in Seq(1..Len(creds')) /\ Len(apps') <= MaxApps
        /\ named' \in [Names -> 0..Len(apps')]
    BY <2>2, <2>3, ConstructType
  <2>5. wrapped' \in [Objects -> 0..Len(creds')]
    BY <2>2, <2>3 DEF CredInv, CredsOK
  <2> QED BY <2>1, <2>2, <2>3, <2>4, <2>5, CredentialAdded
<1> QED BY <1>1, <1>2

LEMMA InitFromObjectStep ==
  ASSUME CredInv, NEW n \in Names, NEW o \in Objects, Creds!InitFromObject(o, n)
  PROVE  CredInv'
<1> USE DEF Creds!InitFromObject
<1>1. CASE wrapped[o] # 0 \/ ObjectKind[o] = "nothing"
  <2>1. /\ options' = [is |-> IF wrapped[o] = 0 THEN "raw" ELSE "made", cred |-> wrapped[o]]
        /\ UNCHANGED <<creds, apps, named, wrapped, call, now>>
    BY <1>1
  <2> QED BY <2>1, CredentialsKept DEF CredInv, CredsOK
<1>2. CASE ~(wrapped[o] # 0 \/ ObjectKind[o] = "nothing")
  <2> DEFINE r == Creds!CustomCredential(o)
  <2>1. r \in CredRecord /\ HoldsTokens(r) /\ Expires(r)
    BY <1>2, CredentialAssumption
    DEF Creds!CustomCredential, Creds!Credential, CredRecord, Creds!Users, Creds!TokenKinds,
        HoldsTokens, Expires
  <2> HIDE DEF r
  <2>2. /\ creds' = Append(creds, r) /\ options' = [is |-> "made", cred |-> Len(creds) + 1]
        /\ wrapped' = [wrapped EXCEPT ![o] = Len(creds) + 1]
        /\ Creds!Construct(Len(creds) + 1, n) /\ UNCHANGED <<call, now>>
        /\ Len(apps) < MaxApps
    BY <1>2 DEF r
  <2>3. Len(creds') = Len(creds) + 1 /\ Len(creds) \in Nat
    BY <2>1, <2>2, AppendProperties, LengthTypes DEF CredInv, CredsOK
  <2>4. /\ apps' \in Seq(1..Len(creds')) /\ Len(apps') <= MaxApps
        /\ named' \in [Names -> 0..Len(apps')]
    BY <2>2, <2>3, ConstructType
  <2>5. wrapped' \in [Objects -> 0..Len(creds')]
    BY <2>2, <2>3 DEF CredInv, CredsOK
  <2> QED BY <2>1, <2>2, <2>3, <2>4, <2>5, CredentialAdded
<1> QED BY <1>1, <1>2

LEMMA ConstructAppStep ==
  ASSUME CredInv, NEW n \in Names, NEW k \in {"refresh", "token", "ticket"},
         Creds!ConstructApp(k, n)
  PROVE  CredInv'
<1> USE DEF Creds!ConstructApp
<1> DEFINE r == Creds!PlainCredential(k)
<1>1. r \in CredRecord /\ HoldsTokens(r) /\ Expires(r)
  BY CredentialAssumption
  DEF Creds!PlainCredential, Creds!Credential, CredRecord, Creds!Users, Creds!TokenKinds,
      HoldsTokens, Expires
<1> HIDE DEF r
<1>2. /\ creds' = Append(creds, r) /\ apps' = Append(apps, Len(creds) + 1)
      /\ UNCHANGED <<options, named, wrapped, call, now>>
      /\ Len(apps) < MaxApps
  BY DEF r
<1>3. Len(creds') = Len(creds) + 1 /\ Len(creds) \in Nat /\ Len(apps) \in Nat
  BY <1>1, <1>2, AppendProperties, LengthTypes DEF CredInv, CredsOK
<1>4. apps' \in Seq(1..Len(creds')) /\ Len(apps') = Len(apps) + 1
  <2>1. 1..Len(creds) \subseteq 1..Len(creds')
    BY <1>3
  <2>2. apps \in Seq(1..Len(creds')) /\ Len(creds) + 1 \in 1..Len(creds')
    BY <1>3, <2>1, SeqMonotonic DEF CredInv, CredsOK
  <2> QED BY <1>2, <2>2, AppendProperties
<1>5. /\ Len(apps') <= MaxApps /\ named' \in [Names -> 0..Len(apps')]
      /\ wrapped' \in [Objects -> 0..Len(creds')]
      /\ options' \in [is : {"empty", "bare", "raw", "made"}, cred : 0..Len(creds')]
  BY <1>2, <1>3, <1>4, CredentialAssumption DEF CredInv, CredsOK
<1> QED BY <1>1, <1>2, <1>4, <1>5, CredentialAdded DEF CredInv, CredsOK

(* A credential switches to a user: the calls between their looks at it are marked. *)
LEMMA ScopeSwitched ==
  ASSUME CredInv, NEW i \in 1..Len(creds), NEW user \in Creds!Users,
         creds' = [creds EXCEPT ![i] = Creds!Switched(@, user)], Creds!Cross(i),
         UNCHANGED <<options, wrapped, now>>,
         apps' \in Seq(1..Len(creds)), Len(apps') <= MaxApps,
         named' \in [Names -> 0..Len(apps')]
  PROVE  CredInv'
<1> DEFINE r == Creds!Switched(creds[i], user)
<1>1. creds[i] \in CredRecord
  BY ElementOfSeq DEF CredInv, CredsOK
<1>2. /\ r \in CredRecord
      /\ r.class = creds[i].class /\ r.type = creds[i].type
      /\ r.issued = creds[i].issued /\ r.until = creds[i].until
      /\ creds[i].class # "catalyst" => r = creds[i]
      /\ r.holds = creds[i].holds
  BY <1>1 DEF Creds!Switched, CredRecord
<1> HIDE DEF r
<1>3. /\ creds' \in Seq(CredRecord) /\ Len(creds') = Len(creds)
      /\ \A j \in 1..Len(creds) : creds'[j] = IF j = i THEN r ELSE creds[j]
  <2>1. creds' = [creds EXCEPT ![i] = r]
    BY DEF r
  <2> QED BY <1>2, <2>1, ExceptSeq DEF CredInv, CredsOK
<1>4. /\ call' \in [Calls -> CallRecord]
      /\ \A c \in Calls :
           /\ call'[c] = [call[c] EXCEPT !.crossed =
                            @ \/ (call[c].cred = i /\ call[c].pc = "authenticated")]
           /\ call[c] \in CallRecord
  BY DEF Creds!Cross, CredInv, CredsOK, CallRecord
<1>5. CredsOK'
  BY <1>3, <1>4 DEF CredInv, CredsOK
<1>6. \A j \in 1..Len(creds') : (HoldsTokens(creds'[j]) /\ Expires(creds'[j]))
  BY <1>2, <1>3 DEF CredInv, HoldsTokens, Expires
<1>7. ASSUME NEW c \in Calls
      PROVE  /\ (Waiting(call[c]) /\ Authenticated(call[c]))'
             /\ call[c].pc = "sent" => creds'[call[c].cred].type = creds[call[c].cred].type
  <2>1. Waiting(call[c]) /\ Authenticated(call[c])
    BY DEF CredInv
  <2>2. /\ call'[c].pc = call[c].pc /\ call'[c].cred = call[c].cred
        /\ call'[c].scope = call[c].scope /\ call'[c].token = call[c].token
        /\ call'[c].issued = call[c].issued
        /\ call'[c].crossed = (call[c].crossed
                                 \/ (call[c].cred = i /\ call[c].pc = "authenticated"))
    BY <1>4 DEF CallRecord
  <2>3. CASE call[c].pc \in {"refreshing", "authenticated", "sent"}
    <3>1. call[c].cred \in 1..Len(creds)
      BY <2>1, <2>3 DEF Authenticated
    <3>2. /\ creds'[call[c].cred].type = creds[call[c].cred].type
          /\ creds'[call[c].cred].class = creds[call[c].cred].class
          /\ call[c].cred # i => creds'[call[c].cred] = creds[call[c].cred]
      BY <1>2, <1>3, <3>1
    <3>3. Waiting(call[c])'
      BY <2>1, <2>2, <3>2 DEF Waiting
    <3>4. Authenticated(call[c])'
      BY <1>3, <2>1, <2>2, <3>1, <3>2 DEF Authenticated
    <3> QED BY <3>2, <3>3, <3>4
  <2>4. CASE call[c].pc \notin {"refreshing", "authenticated", "sent"}
    BY <2>2, <2>4 DEF Waiting, Authenticated
  <2> QED BY <2>3, <2>4
<1>8. HeadersAgree'
  <2>1. \A c \in Calls : /\ call'[c].pc = call[c].pc /\ call'[c].cred = call[c].cred
                         /\ call'[c].scope = call[c].scope /\ call'[c].token = call[c].token
                         /\ call'[c].type = call[c].type
                         /\ ~call'[c].crossed => ~call[c].crossed
    BY <1>4 DEF CallRecord
  <2> QED BY <1>7, <2>1 DEF CredInv, HeadersAgree, Creds!HeadersAgree
<1> QED BY <1>3, <1>5, <1>6, <1>7, <1>8 DEF CredInv

LEMMA GetDefaultStep ==
  ASSUME CredInv, NEW n \in Names, Creds!GetDefaultCredentials(n)
  PROVE  CredInv'
<1> USE DEF Creds!GetDefaultCredentials
<1>1. CASE options.is = "bare"
  <2> DEFINE r == Creds!DefaultCredential
  <2>1. r \in CredRecord /\ HoldsTokens(r) /\ Expires(r)
    BY <1>1, CredentialAssumption
    DEF Creds!DefaultFound, Creds!DefaultCredential, Creds!Credential, CredRecord, Creds!Users,
        Creds!TokenKinds, HoldsTokens, Expires
  <2> HIDE DEF r
  <2>2. /\ creds' = Append(creds, r) /\ options' = [is |-> "made", cred |-> Len(creds) + 1]
        /\ Creds!Construct(Len(creds) + 1, n) /\ UNCHANGED <<wrapped, call, now>>
        /\ Len(apps) < MaxApps
    BY <1>1 DEF r
  <2>3. Len(creds') = Len(creds) + 1 /\ Len(creds) \in Nat
    BY <2>1, <2>2, AppendProperties, LengthTypes DEF CredInv, CredsOK
  <2>4. /\ apps' \in Seq(1..Len(creds')) /\ Len(apps') <= MaxApps
        /\ named' \in [Names -> 0..Len(apps')]
    BY <2>2, <2>3, ConstructType
  <2>5. wrapped' \in [Objects -> 0..Len(creds')]
    BY <2>2, <2>3 DEF CredInv, CredsOK
  <2> QED BY <2>1, <2>2, <2>3, <2>4, <2>5, CredentialAdded
<1>2. CASE options.is = "made"
  <2>1. options.cred \in 1..Len(creds)
    BY <1>2, LengthTypes DEF CredInv, CredsOK
  <2>2. /\ creds' = [creds EXCEPT ![options.cred] = Creds!Switched(@, "admin")]
        /\ Creds!Construct(options.cred, n) /\ Creds!Cross(options.cred)
        /\ UNCHANGED <<options, wrapped, now>> /\ Len(apps) < MaxApps
    BY <1>2
  <2>3. /\ apps' \in Seq(1..Len(creds)) /\ Len(apps') <= MaxApps
        /\ named' \in [Names -> 0..Len(apps')]
    BY <2>1, <2>2, LengthTypes, ConstructType
  <2>4. "admin" \in Creds!Users
    BY DEF Creds!Users
  <2> QED BY <2>1, <2>2, <2>3, <2>4, ScopeSwitched
<1> QED BY <1>1, <1>2

LEMMA SwitchUserStep ==
  ASSUME CredInv, NEW a \in DOMAIN apps, NEW u \in Creds!Users, Creds!SwitchUser(a, u)
  PROVE  CredInv'
<1>1. apps[a] \in 1..Len(creds)
  BY LenProperties, ElementOfSeq DEF CredInv, CredsOK
<1>2. /\ creds' = [creds EXCEPT ![apps[a]] = Creds!Switched(@, u)] /\ Creds!Cross(apps[a])
      /\ UNCHANGED <<options, apps, named, wrapped, now>>
  BY DEF Creds!SwitchUser
<1> QED BY <1>1, <1>2, ScopeSwitched DEF CredInv, CredsOK

(* A step of one call that leaves the credentials alone. *)
LEMMA CallKept ==
  ASSUME CredInv, NEW c \in Calls, NEW k \in CallRecord, call' = [call EXCEPT ![c] = k],
         UNCHANGED <<options, creds, apps, named, wrapped, now>>,
         Waiting(k), Authenticated(k),
         k.pc = "sent" /\ ~k.crossed /\ k.token # "none" =>
           k.type = IF k.scope = "user" THEN creds[k.cred].type ELSE "admin"
  PROVE  CredInv'
<1>1. CredsOK'
  BY DEF CredInv, CredsOK
<1>2. \A d \in Calls : call'[d] = IF d = c THEN k ELSE call[d]
  BY DEF CredInv, CredsOK
<1>3. \A d \in Calls : (Waiting(call[d]) /\ Authenticated(call[d]))'
  BY <1>2 DEF CredInv, Waiting, Authenticated
<1>4. HeadersAgree'
  BY <1>2 DEF CredInv, HeadersAgree, Creds!HeadersAgree
<1> QED BY <1>1, <1>3, <1>4 DEF CredInv

(* What authenticateRequest() makes of a call: headers with a token of the credential
   i, a question for an access token, or a rejection. *)
Headed(i, scope, tok, issued) ==
  [Creds!Idle EXCEPT !.pc = "authenticated", !.cred = i, !.scope = scope, !.token = tok,
                     !.issued = issued]

Asks(i) == [Creds!Idle EXCEPT !.pc = "refreshing", !.cred = i, !.issued = now]

LEMMA AuthenticateCases ==
  ASSUME NEW a, NEW c, Creds!Authenticate(c, a), NEW i, i = apps[a]
  PROVE  \/ creds[i].class = "catalyst" /\ creds[i].scope = "admin"
              /\ call' = [call EXCEPT ![c] = Headed(i, "admin", creds[i].holds, 0)]
         \/ creds[i].class = "catalyst" /\ creds[i].scope = "user"
              /\ call' = [call EXCEPT ![c] = Headed(i, "user", creds[i].user, 0)]
         \/ creds[i].class = "custom"
              /\ call' = [call EXCEPT ![c] = Headed(i, "none", "none", 0)]
         \/ creds[i].class \in {"default", "plain"} /\ creds[i].holds # "refresh"
              /\ call' = [call EXCEPT ![c] = Headed(i, "admin", creds[i].holds, 0)]
         \/ creds[i].class \in {"default", "plain"} /\ Creds!Cached(i)
              /\ call' = [call EXCEPT ![c] = Headed(i, "admin", "token", creds[i].issued)]
         \/ creds[i].class \in {"default", "plain"}
              /\ call' = [call EXCEPT ![c] = Asks(i)]
         \/ Creds!Reject(c)
BY DEF Creds!Authenticate, Headed, Asks

LEMMA AuthenticateStep ==
  ASSUME CredInv, NEW a \in DOMAIN apps, NEW c \in Calls, Creds!Authenticate(c, a)
  PROVE  CredInv'
<1> DEFINE i == apps[a]
<1>1. i \in 1..Len(creds) /\ creds[i] \in CredRecord /\ i \in Nat
  <2>1. i \in 1..Len(creds)
    BY LenProperties, ElementOfSeq DEF CredInv, CredsOK
  <2>2. creds[i] \in CredRecord
    BY <2>1, ElementOfSeq DEF CredInv, CredsOK
  <2> QED BY <2>1, <2>2, LengthTypes
<1>2. HoldsTokens(creds[i])
  BY <1>1 DEF CredInv
<1>3. UNCHANGED <<options, creds, apps, named, wrapped, now>> /\ call[c] \in CallRecord
      /\ call[c].pc = "idle" /\ now \in 1..MaxNow
  BY DEF Creds!Authenticate, CredInv, CredsOK
<1>4. ASSUME NEW scope \in Creds!Users \cup {"none"}, NEW tok \in Creds!TokenKinds,
             NEW issued \in 0..MaxNow, call' = [call EXCEPT ![c] = Headed(i, scope, tok, issued)],
             tok # "none" => (scope = "user" <=> creds[i].class = "catalyst"
                                                 /\ creds[i].scope = "user")
      PROVE  CredInv'
  <2> DEFINE k == Headed(i, scope, tok, issued)
  <2>1. /\ k.pc = "authenticated" /\ k.cred = i /\ k.scope = scope /\ k.token = tok
        /\ k.issued = issued /\ k.type = "none" /\ k.crossed = FALSE
    BY DEF Headed, Creds!Idle
  <2>2. k \in CallRecord
    BY <1>1, <1>4 DEF Headed, Creds!Idle, CallRecord
  <2> HIDE DEF k
  <2>3. Waiting(k) /\ Authenticated(k) /\ k.pc # "sent"
    BY <1>1, <1>4, <2>1 DEF Waiting, Authenticated
  <2>4. call' = [call EXCEPT ![c] = k]
    BY <1>4 DEF k
  <2> QED BY <1>3, <2>2, <2>3, <2>4, CallKept
<1> HIDE DEF i
<1>5. \/ creds[i].class = "catalyst" /\ creds[i].scope = "admin"
           /\ call' = [call EXCEPT ![c] = Headed(i, "admin", creds[i].holds, 0)]
      \/ creds[i].class = "catalyst" /\ creds[i].scope = "user"
           /\ call' = [call EXCEPT ![c] = Headed(i, "user", creds[i].user, 0)]
      \/ creds[i].class = "custom" /\ call' = [call EXCEPT ![c] = Headed(i, "none", "none", 0)]
      \/ creds[i].class \in {"default", "plain"} /\ creds[i].holds # "refresh"
           /\ call' = [call EXCEPT ![c] = Headed(i, "admin", creds[i].holds, 0)]
      \/ creds[i].class \in {"default", "plain"}
           /\ call' = [call EXCEPT ![c] = Headed(i, "admin", "token", creds[i].issued)]
      \/ creds[i].class \in {"default", "plain"} /\ call' = [call EXCEPT ![c] = Asks(i)]
      \/ Creds!Reject(c)
  BY AuthenticateCases DEF i
<1>6. /\ 0 \in 0..MaxNow /\ creds[i].issued \in 0..MaxNow
      /\ {"admin", "user", "none"} = Creds!Users \cup {"none"}
      /\ {"none", "token", "ticket", "cookie"} = Creds!TokenKinds
      /\ creds[i].user \in Creds!TokenKinds
      /\ creds[i].holds \in {"refresh", "token", "ticket"}
  BY <1>1, CredentialAssumption DEF Creds!Users, Creds!TokenKinds, CredRecord
<1>7. CASE creds[i].class = "catalyst" /\ creds[i].scope = "admin"
           /\ call' = [call EXCEPT ![c] = Headed(i, "admin", creds[i].holds, 0)]
  <2>1. creds[i].holds \in Creds!TokenKinds
    BY <1>2, <1>6, <1>7 DEF HoldsTokens
  <2> QED BY <1>4, <1>6, <1>7, <2>1
<1>8. CASE creds[i].class = "catalyst" /\ creds[i].scope = "user"
           /\ call' = [call EXCEPT ![c] = Headed(i, "user", creds[i].user, 0)]
  BY <1>4, <1>6, <1>8
<1>9. CASE creds[i].class = "custom" /\ call' = [call EXCEPT ![c] = Headed(i, "none", "none", 0)]
  BY <1>4, <1>6, <1>9
<1>10. CASE creds[i].class \in {"default", "plain"} /\ creds[i].holds # "refresh"
            /\ call' = [call EXCEPT ![c] = Headed(i, "admin", creds[i].holds, 0)]
  <2>1. creds[i].holds \in Creds!TokenKinds
    BY <1>6, <1>10
  <2> QED BY <1>4, <1>6, <1>10, <2>1
<1>11. CASE creds[i].class \in {"default", "plain"}
            /\ call' = [call EXCEPT ![c] = Headed(i, "admin", "token", creds[i].issued)]
  BY <1>4, <1>6, <1>11
<1>12. CASE creds[i].class \in {"default", "plain"} /\ call' = [call EXCEPT ![c] = Asks(i)]
  <2>1. /\ Asks(i).pc = "refreshing" /\ Asks(i).cred = i /\ Asks(i).issued = now
        /\ Asks(i) \in CallRecord
    <3>1. Asks(i).pc = "refreshing" /\ Asks(i).cred = i /\ Asks(i).issued = now
      BY DEF Asks, Creds!Idle
    <3>2. now \in 0..MaxNow
      BY <1>3, CredentialAssumption
    <3>3. Asks(i) \in CallRecord
      BY <1>1, <3>2 DEF Asks, Creds!Idle, CallRecord, Creds!TokenKinds
    <3> QED BY <3>1, <3>3
  <2>2. Waiting(Asks(i)) /\ Authenticated(Asks(i))
    BY <1>1, <1>3, <1>12, <2>1, CredentialAssumption DEF Waiting, Authenticated
  <2> QED BY <1>3, <1>12, <2>1, <2>2, CallKept
<1>13. CASE Creds!Reject(c)
  <2> DEFINE k == [call[c] EXCEPT !.pc = "rejected"]
  <2>1. k \in CallRecord /\ k.pc = "rejected" /\ call' = [call EXCEPT ![c] = k]
    BY <1>3, <1>13 DEF CallRecord, Creds!Reject
  <2> HIDE DEF k
  <2>2. Waiting(k) /\ Authenticated(k)
    BY <2>1 DEF Waiting, Authenticated
  <2> QED BY <1>3, <2>1, <2>2, CallKept
<1> QED BY <1>5, <1>7, <1>8, <1>9, <1>10, <1>11, <1>12, <1>13

LEMMA RefreshFailsStep ==
  ASSUME CredInv, NEW c \in Calls, Creds!RefreshFails(c)
  PROVE  CredInv'
<1> DEFINE k == [call[c] EXCEPT !.pc = "rejected"]
<1>1. k \in CallRecord /\ k.pc = "rejected" /\ call' = [call EXCEPT ![c] = k]
      /\ UNCHANGED <<options, creds, apps, named, wrapped, now>>
  BY DEF CallRecord, Creds!RefreshFails, Creds!Reject, CredInv, CredsOK
<1> HIDE DEF k
<1>2. Waiting(k) /\ Authenticated(k)
  BY <1>1 DEF Waiting, Authenticated
<1> QED BY <1>1, <1>2, CallKept

(* A rejection is all that happens to a call. *)
LEMMA Rejected ==
  ASSUME CredInv, NEW d \in Calls, Creds!Reject(d), NEW c \in Calls
  PROVE  call'[c].pc = "rejected" \/ call'[c] = call[c]
<1>1. call[d] \in CallRecord /\ call \in [Calls -> CallRecord]
  BY DEF CredInv, CredsOK
<1>2. [call[d] EXCEPT !.pc = "rejected"].pc = "rejected"
  BY <1>1 DEF CallRecord
<1>3. call' = [call EXCEPT ![d] = [call[d] EXCEPT !.pc = "rejected"]]
  BY DEF Creds!Reject
<1> QED BY <1>1, <1>2, <1>3

(* The user that the headers name is the one the token was chosen for, unless the
   call was crossed. *)
LEMMA SendNowStep ==
  ASSUME CredInv, NEW c \in Calls, Creds!SendNow(c)
  PROVE  CredInv'
<1> DEFINE k == [call[c] EXCEPT !.pc = "sent", !.type = Creds!CurrentUserType(creds[call[c].cred])]
<1>1. call[c] \in CallRecord /\ call[c].pc = "authenticated"
      /\ call' = [call EXCEPT ![c] = k]
      /\ UNCHANGED <<options, creds, apps, named, wrapped, now>>
  BY DEF Creds!SendNow, CredInv, CredsOK
<1>2. Waiting(call[c]) /\ Authenticated(call[c])
  BY DEF CredInv
<1>3. call[c].cred \in 1..Len(creds) /\ creds[call[c].cred] \in CredRecord
  <2>1. call[c].cred \in 1..Len(creds)
    BY <1>1, <1>2 DEF Authenticated
  <2> QED BY <2>1, ElementOfSeq DEF CredInv, CredsOK
<1>4. Creds!CurrentUserType(creds[call[c].cred])
        = IF creds[call[c].cred].class = "catalyst" /\ creds[call[c].cred].scope = "user"
          THEN creds[call[c].cred].type ELSE "admin"
  BY DEF Creds!CurrentUserType
<1>5. k \in CallRecord
  <2>1. Creds!CurrentUserType(creds[call[c].cred]) \in Creds!Users
    BY <1>3, <1>4 DEF CredRecord, Creds!Users
  <2> QED BY <1>1, <2>1 DEF CallRecord
<1>6. /\ k.pc = "sent" /\ k.cred = call[c].cred /\ k.scope = call[c].scope
      /\ k.token = call[c].token /\ k.crossed = call[c].crossed
      /\ k.type = Creds!CurrentUserType(creds[call[c].cred])
  BY <1>1 DEF CallRecord
<1> HIDE DEF k
<1>7. Waiting(k) /\ Authenticated(k)
  BY <1>1, <1>2, <1>6 DEF Waiting, Authenticated
<1>8. ~k.crossed /\ k.token # "none" =>
        k.type = IF k.scope = "user" THEN creds[k.cred].type ELSE "admin"
  BY <1>1, <1>2, <1>4, <1>6 DEF Authenticated
<1> QED BY <1>1, <1>5, <1>6, <1>7, <1>8, CallKept

(* An answered question: the credential takes the token, the call its headers. *)
LEMMA RefreshedStep ==
  ASSUME CredInv, NEW c \in Calls, Creds!Refreshed(c)
  PROVE  CredInv' /\ now < call'[c].issued + Life + Patience
<1> DEFINE i == call[c].cred
           r == [creds[i] EXCEPT !.issued = call[c].issued, !.until = now + Life]
           k == [call[c] EXCEPT !.pc = "authenticated", !.scope = "admin", !.token = "token"]
<1>1. /\ call[c] \in CallRecord /\ call[c].pc = "refreshing" /\ now \in 1..MaxNow
      /\ UNCHANGED <<options, apps, named, wrapped, now>>
  BY DEF Creds!Refreshed, CredInv, CredsOK
<1>2. Waiting(call[c]) /\ Authenticated(call[c])
  BY DEF CredInv
<1>3. i \in 1..Len(creds) /\ creds[i] \in CredRecord /\ creds \in Seq(CredRecord)
  <2>1. i \in 1..Len(creds)
    BY <1>1, <1>2 DEF Authenticated
  <2> QED BY <2>1, ElementOfSeq DEF CredInv, CredsOK
<1>4. HoldsTokens(creds[i]) /\ creds[i].class \in {"default", "plain"} /\ now <= call[c].issued + Patience
  BY <1>1, <1>2, <1>3 DEF CredInv, Waiting
<1>5. /\ r \in CredRecord /\ r.class = creds[i].class /\ r.type = creds[i].type
      /\ r.scope = creds[i].scope
      /\ r.holds = creds[i].holds
      /\ r.issued = call[c].issued /\ r.until = now + Life
  <2>1. call[c].issued \in 0..MaxNow
    BY <1>1 DEF CallRecord
  <2>2. now + Life \in 0..(MaxNow + Life)
    BY <1>1, CredentialAssumption
  <2>3. r \in CredRecord
    BY <1>3, <2>1, <2>2 DEF CredRecord
  <2> QED BY <1>3, <2>3 DEF CredRecord
<1>6. creds' = [creds EXCEPT ![i] = r]
  <2>1. DOMAIN creds = 1..Len(creds)
    BY <1>3, LenProperties
  <2> QED BY <1>3, <2>1 DEF Creds!Refreshed
<1>7. /\ k \in CallRecord /\ k.pc = "authenticated" /\ k.cred = i /\ k.scope = "admin"
      /\ k.issued = call[c].issued
  BY <1>1 DEF CallRecord, Creds!Users, Creds!TokenKinds
<1>8. call' = [call EXCEPT ![c] = k]
  BY DEF Creds!Refreshed, CredInv, CredsOK
<1> HIDE DEF r, k
<1>9. /\ creds' \in Seq(CredRecord) /\ Len(creds') = Len(creds)
      /\ \A j \in 1..Len(creds) : creds'[j] = IF j = i THEN r ELSE creds[j]
  BY <1>3, <1>5, <1>6, ExceptSeq
<1>10. \A d \in Calls : call'[d] = IF d = c THEN k ELSE call[d]
  BY <1>8 DEF CredInv, CredsOK
<1>11. CredsOK'
  BY <1>1, <1>7, <1>8, <1>9 DEF CredInv, CredsOK
<1>12. \A j \in 1..Len(creds') : (HoldsTokens(creds'[j]) /\ Expires(creds'[j]))
  <2>1. HoldsTokens(r)
    BY <1>4, <1>5 DEF HoldsTokens
  <2>2. Expires(r)
    <3>1. call[c].issued \in Nat
      BY <1>1, CredentialAssumption DEF CallRecord
    <3> QED BY <1>1, <1>4, <1>5, <3>1, CredentialAssumption DEF Expires
  <2> QED BY <1>9, <2>1, <2>2 DEF CredInv
<1>13. \A j \in 1..Len(creds) :
         /\ creds'[j].class = creds[j].class /\ creds'[j].type = creds[j].type
         /\ creds'[j].scope = creds[j].scope
  BY <1>5, <1>9
<1>14. ASSUME NEW d \in Calls PROVE (Waiting(call[d]) /\ Authenticated(call[d]))'
  <2>1. CASE d = c
    <3>1. r.class # "catalyst"
      BY <1>4, <1>5
    <3>2. creds'[i] = r
      BY <1>3, <1>9
    <3> QED BY <1>3, <1>7, <1>9, <1>10, <2>1, <3>1, <3>2 DEF Waiting, Authenticated
  <2>2. CASE d # c
    <3>1. Waiting(call[d]) /\ Authenticated(call[d]) /\ call'[d] = call[d]
      BY <1>10, <2>2 DEF CredInv
    <3>2. CASE call[d].pc \in {"refreshing", "authenticated", "sent"}
      <4>1. call[d].cred \in 1..Len(creds)
        BY <3>1, <3>2 DEF Authenticated
      <4> QED BY <1>1, <1>9, <1>13, <3>1, <4>1 DEF Waiting, Authenticated
    <3>3. CASE call[d].pc \notin {"refreshing", "authenticated", "sent"}
      BY <3>1, <3>3 DEF Waiting, Authenticated
    <3> QED BY <3>2, <3>3
  <2> QED BY <2>1, <2>2
<1>15. HeadersAgree'
  <2> SUFFICES ASSUME NEW d \in Calls, call'[d].pc = "sent", ~call'[d].crossed,
                      call'[d].token # "none"
               PROVE  call'[d].type = IF call'[d].scope = "user"
                                      THEN creds'[call'[d].cred].type ELSE "admin"
    BY DEF HeadersAgree, Creds!HeadersAgree
  <2>1. d # c /\ call'[d] = call[d]
    BY <1>7, <1>10
  <2>2. call[d].cred \in 1..Len(creds)
    BY <2>1 DEF CredInv, Authenticated
  <2> QED BY <1>13, <2>1, <2>2 DEF CredInv, HeadersAgree, Creds!HeadersAgree
<1>16. now < call'[c].issued + Life + Patience
  <2>1. call[c].issued \in Nat /\ call'[c].issued = call[c].issued
    BY <1>1, <1>7, <1>10, CredentialAssumption DEF CallRecord
  <2> QED BY <1>1, <1>4, <2>1, CredentialAssumption
<1> QED BY <1>11, <1>12, <1>14, <1>15, <1>16 DEF CredInv

LEMMA TickStep ==
  ASSUME CredInv, Creds!Tick
  PROVE  CredInv'
<1>1. /\ now \in 1..MaxNow /\ now' = now + 1 /\ now < MaxNow
      /\ UNCHANGED <<options, creds, apps, named, wrapped, call>>
  BY DEF Creds!Tick, CredInv, CredsOK
<1>2. CredsOK'
  BY <1>1, CredentialAssumption DEF CredInv, CredsOK
<1>3. ASSUME NEW c \in Calls PROVE (Waiting(call[c]) /\ Authenticated(call[c]))'
  <2>1. Waiting(call[c]) /\ Authenticated(call[c])
    BY DEF CredInv
  <2>2. call[c].pc = "refreshing" => now < call[c].issued + Patience
    BY DEF Creds!Tick
  <2>3. call[c].issued \in Nat
    BY CredentialAssumption DEF CredInv, CredsOK, CallRecord
  <2> QED BY <1>1, <2>1, <2>2, <2>3, CredentialAssumption DEF Waiting, Authenticated
<1> QED BY <1>1, <1>2, <1>3 DEF CredInv, HeadersAgree, Creds!HeadersAgree

LEMMA CredStep ==
  ASSUME CredInv, [Creds!Next]_credVars
  PROVE  CredInv'
<1>1. CASE UNCHANGED credVars
  BY <1>1 DEF credVars, CredInv, CredsOK, Waiting, Authenticated, HeadersAgree, Creds!HeadersAgree
<1>2. CASE Creds!MakeApp
  BY <1>2, InitFromHeadersStep, InitFromObjectStep, GetDefaultStep, ConstructAppStep
  DEF Creds!MakeApp
<1>3. CASE Creds!UseApp
  BY <1>3, SwitchUserStep, AuthenticateStep DEF Creds!UseApp
<1>4. CASE Creds!Tick
  BY <1>4, TickStep
<1>5. ASSUME NEW c \in Calls, Creds!CallStep(c) \/ Creds!SendNow(c) PROVE CredInv'
  BY <1>5, RefreshedStep, RefreshFailsStep, SendNowStep DEF Creds!CallStep
<1> QED BY <1>1, <1>2, <1>3, <1>4, <1>5 DEF Creds!Next
-----------------------------------------------------------------------------
(* Both parts together. *)

LEMMA NodeSteps == [NodeNext]_nodeVars => [Next]_vars /\ [Creds!Next]_credVars
<1> SUFFICES ASSUME [NodeNext]_nodeVars PROVE [Next]_vars /\ [Creds!Next]_credVars
  OBVIOUS
<1>1. CASE AppStep
  BY <1>1 DEF AppStep, Creds!Next
<1>2. CASE RequestStep
  BY <1>2 DEF RequestStep, Next
<1>3. CASE \E c \in Calls, k \in Kinds : SendRequest(c, k)
  BY <1>3 DEF SendRequest, Next, Creds!Next
<1>4. CASE UNCHANGED nodeVars
  BY <1>4 DEF nodeVars
<1> QED BY <1>1, <1>2, <1>3, <1>4 DEF NodeNext

(* The composition is each of its parts: what is proved of HttpRequest alone holds
   of a request that AppCredentials authenticates first. *)
THEOREM NodeImplementsParts == NodeSpec => Spec /\ Creds!Spec
<1>1. NodeInit => Init /\ Creds!Init
  BY DEF NodeInit
<1>2. [NodeNext]_nodeVars => [Next]_vars /\ [Creds!Next]_Creds!vars
  BY NodeSteps DEF credVars, Creds!vars
<1> QED BY <1>1, <1>2, PTL DEF NodeSpec, Spec, Creds!Spec

LEMMA NodeInv == NodeSpec => [](RequestInv /\ CredInv)
<1>1. NodeInit => RequestInv /\ CredInv
  BY RequestInit, CredInit DEF NodeInit
<1>2. RequestInv /\ CredInv /\ [NodeNext]_nodeVars => (RequestInv /\ CredInv)'
  BY NodeSteps, RequestStepInv, CredStep
<1> QED BY <1>1, <1>2, PTL DEF NodeSpec

(* The variables of the requests and of the credentials keep their types: every
   call's credential, app and option object exists, and no attempt is one too many. *)
THEOREM NodeTypeCorrect == NodeSpec => []NodeTypeOK
<1>1. CredInv => Creds!TypeOK
  <2> SUFFICES ASSUME CredInv PROVE Creds!TypeOK
    OBVIOUS
  <2>1. ASSUME NEW i \in DOMAIN creds PROVE creds[i] \in CredRecord
    BY LenProperties, ElementOfSeq DEF CredInv, CredsOK
  <2>2. \A a \in DOMAIN apps : apps[a] \in DOMAIN creds
    BY LenProperties, ElementOfSeq DEF CredInv, CredsOK
  <2>3. \A c \in Calls : call[c] \in CallRecord
    BY DEF CredInv, CredsOK
  <2> QED BY <2>1, <2>2, <2>3 DEF Creds!TypeOK, CredInv, CredsOK, CredRecord, CallRecord
<1> QED BY <1>1, NodeInv, PTL DEF NodeTypeOK, RequestInv

(* The token and the user header of a request agree, unless switchUser() or a
   component without an app came between: for any number of apps, inits and calls. *)
THEOREM HeadersAlwaysAgree == NodeSpec => []HeadersAgree
<1>1. CredInv => HeadersAgree
  BY DEF CredInv
<1> QED BY <1>1, NodeInv, PTL

(* No step gives a request an access token older than its life and the time that its
   answer may take, in whatever order the answers of several callers come. *)
THEOREM TokensAreYoung == NodeSpec => TokenAge
<1>1. CredInv /\ [Creds!Next]_Creds!vars =>
        [\A c \in Calls :
           call[c].pc # "authenticated" /\ call'[c].pc = "authenticated" /\ call'[c].issued # 0
             => now < call'[c].issued + Life + Patience]_Creds!vars
  <2> SUFFICES ASSUME CredInv, Creds!Next, NEW c \in Calls,
                      call[c].pc # "authenticated", call'[c].pc = "authenticated",
                      call'[c].issued # 0
               PROVE  now < call'[c].issued + Life + Patience
    OBVIOUS
  <2>1. call[c] \in CallRecord /\ call \in [Calls -> CallRecord]
    BY DEF CredInv, CredsOK
  <2>2. CASE Creds!MakeApp \/ Creds!Tick
    BY <2>1, <2>2
    DEF Creds!MakeApp, Creds!Tick, Creds!InitFromHeaders, Creds!InitFromObject,
        Creds!GetDefaultCredentials, Creds!ConstructApp, Creds!Cross, CallRecord
  <2>3. ASSUME NEW a \in DOMAIN apps, NEW u \in Creds!Users, Creds!SwitchUser(a, u) PROVE FALSE
    BY <2>1, <2>3 DEF Creds!SwitchUser, Creds!Cross, CallRecord
  <2>4. ASSUME NEW a \in DOMAIN apps, NEW d \in Calls, Creds!Authenticate(d, a)
        PROVE  now < call'[c].issued + Life + Patience
    <3>1. apps[a] \in 1..Len(creds)
      BY LenProperties, ElementOfSeq DEF CredInv, CredsOK
    <3>2. creds[apps[a]] \in CredRecord /\ Expires(creds[apps[a]])
      BY <3>1, ElementOfSeq DEF CredInv, CredsOK
    <3>3. call'[c].issued = creds[apps[a]].issued /\ now < creds[apps[a]].until
      <4>1. d = c
        BY <2>1, <2>4 DEF Creds!Authenticate, Creds!Reject
      <4>2. ~Creds!Reject(c)
        BY Rejected
      <4>3. \A k : call' = [call EXCEPT ![c] = k] => call'[c] = k
        BY <2>1
      <4>4. call' # [call EXCEPT ![c] = Asks(apps[a])]
        BY <4>3 DEF Asks, Creds!Idle
      <4>5. ASSUME NEW scope, NEW tok, NEW issued,
                   call' = [call EXCEPT ![c] = Headed(apps[a], scope, tok, issued)]
            PROVE  call'[c].issued = issued
        BY <4>3, <4>5 DEF Headed, Creds!Idle
      <4>6. ASSUME NEW scope, NEW tok
            PROVE  call' # [call EXCEPT ![c] = Headed(apps[a], scope, tok, 0)]
        BY <4>5
      <4>7. /\ Creds!Cached(apps[a])
            /\ call' = [call EXCEPT ![c] = Headed(apps[a], "admin", "token", creds[apps[a]].issued)]
        BY <2>4, <4>1, <4>2, <4>4, <4>6, AuthenticateCases
      <4> QED BY <4>5, <4>7 DEF Creds!Cached
    <3>4. /\ now \in Nat /\ creds[apps[a]].until \in Nat /\ creds[apps[a]].issued \in Nat
          /\ Life \in Nat /\ Patience \in Nat
      BY <3>2, CredentialAssumption DEF CredRecord, CredInv, CredsOK
    <3> QED BY <3>2, <3>3, <3>4 DEF Expires
  <2>5. ASSUME NEW d \in Calls, Creds!CallStep(d) \/ Creds!SendNow(d)
        PROVE  now < call'[c].issued + Life + Patience
    <3>1. d = c /\ Creds!Refreshed(d)
      <4>1. ~Creds!SendNow(d)
        BY <2>1 DEF Creds!SendNow
      <4>2. ~Creds!RefreshFails(d)
        BY Rejected DEF Creds!RefreshFails
      <4>3. Creds!Refreshed(d)
        BY <2>5, <4>1, <4>2 DEF Creds!CallStep
      <4> QED BY <2>1, <4>3 DEF Creds!Refreshed
    <3> QED BY <3>1, RefreshedStep
  <2> QED BY <2>2, <2>3, <2>4, <2>5 DEF Creds!Next, Creds!UseApp
<1>2. [NodeNext]_nodeVars => [Creds!Next]_Creds!vars
  BY NodeSteps DEF credVars, Creds!vars
<1> QED BY <1>1, <1>2, NodeInv, PTL DEF NodeSpec, TokenAge, Creds!TokenAge
==============================================================================
