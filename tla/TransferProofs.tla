---------------------------- MODULE TransferProofs ----------------------------
(***************************************************************************)
(* TransferManager implements AtomicUpload, for any number of chunks, any  *)
(* concurrency and any number of overlapping handlers, if the data is a    *)
(* Blob, a ReadableStream or a Node stream.                                *)
(***************************************************************************)
EXTENDS TransferManager, TLAPS

Stored == \A p \in Parts : part[p] = "uploaded"

(* The parts that were started are those that were read. *)
StartedWhenRead == \A p \in Parts : part[p] = "none" <=> p > read

(* A Blob or a ReadableStream has one loop, and the tail begins when it ends. *)
OneLoop ==
  source \in {"blob", "web"} =>
    /\ \A l \in Loops : l # 1 => loop[l] = "idle"
    /\ \A l \in Loops : loop[l] \in {"reading", "racing"} => finish = "loading"

(* What each stage of the tail has established. *)
StageIsEarned ==
  /\ finish # "stopped" => outcome = "pending"
  /\ finish = "all" => read = N /\ watched = N
  /\ finish = "complete" => Stored
  /\ finish = "summary" => committed
  /\ committed => Stored /\ finish \in {"summary", "stopped"}

Inv == TypeOK /\ StartedWhenRead /\ OneLoop /\ StageIsEarned

-----------------------------------------------------------------------------
LEMMA InvInit == Init => Inv
<1> SUFFICES ASSUME Init PROVE Inv
  OBVIOUS
<1> USE TransferAssumption DEF TransferAssumption, Parts, Loops
<1>1. TypeOK
  <2>1. committed \in BOOLEAN /\ unhandled \in BOOLEAN
    BY DEF Init
  <2>2. raced \in [Loops -> 0..N] /\ winner \in [Loops -> 0..N] /\ read \in 0..N /\ watched \in 0..N
    BY DEF Init
  <2>3. part \in [Parts -> {"none", "uploading", "uploaded", "failed"}]
    BY DEF Init
  <2>4. loop \in [Loops -> {"idle", "reading", "racing", "failed"}]
    BY DEF Init
  <2> QED
    BY <2>1, <2>2, <2>3, <2>4 DEF Init, TypeOK
<1>2. StartedWhenRead
  BY DEF Init, StartedWhenRead
<1>3. OneLoop
  BY DEF Init, OneLoop
<1>4. StageIsEarned
  BY DEF Init, StageIsEarned
<1> QED
  BY <1>1, <1>2, <1>3, <1>4 DEF Inv

(* What a loop takes is left to be read; of a Blob, all of it if that is not enough. *)
LEMMA TakesType ==
  ASSUME TypeOK, read < N, NEW k \in Takes
  PROVE  /\ k \in Nat /\ k > 0 /\ read + k <= N
         /\ source = "blob" /\ read + k < Limit => read + k = N
  BY TransferAssumption DEF TransferAssumption, TypeOK, Takes, Least

LEMMA FirstSettledType ==
  ASSUME NEW n \in Nat
  PROVE  FirstSettled(n) \subseteq 0..n
  BY DEF FirstSettled, SettledIn

-----------------------------------------------------------------------------
(* A loop reads. *)
LEMMA InvReadParts ==
  ASSUME Inv, NEW l \in Loops, ReadParts(l)
  PROVE  Inv'
<1> USE DEF ReadParts
<1>1. PICK k \in Takes :
        /\ read' = read + k
        /\ part' = [p \in Parts |-> IF p \in (read + 1)..(read + k) THEN "uploading" ELSE part[p]]
        /\ IF read + k >= Limit
           THEN /\ loop' = [loop EXCEPT ![l] = "racing"]
                /\ raced' = [raced EXCEPT ![l] = read + k]
                /\ \E w \in FirstSettled(read) : winner' = [winner EXCEPT ![l] = w]
                /\ watched' = read + k
                /\ UNCHANGED finish
           ELSE /\ loop' = IF source = "web" THEN loop ELSE [loop EXCEPT ![l] = "idle"]
                /\ finish' = IF source = "blob" THEN "all" ELSE finish
                /\ watched' = IF source = "blob" THEN read + k ELSE watched
                /\ UNCHANGED <<raced, winner>>
  OBVIOUS
<1>2. read \in Nat /\ N \in Nat /\ read < N /\ loop[l] = "reading" /\ UNCHANGED <<source, outcome, committed, unhandled>>
  BY TransferAssumption DEF TransferAssumption, Inv, TypeOK
<1>3. /\ k \in Nat /\ k > 0 /\ read + k <= N
      /\ source = "blob" /\ read + k < Limit => read + k = N
  BY <1>2, TakesType DEF Inv
<1>4. FirstSettled(read) \subseteq 0..N
  BY <1>2, FirstSettledType
<1> HIDE DEF ReadParts
<1>5. TypeOK'
  <2>1. read' \in 0..N /\ read + k \in 0..N
    BY <1>1, <1>2, <1>3
  <2>2. part' \in [Parts -> {"none", "uploading", "uploaded", "failed"}]
    BY <1>1 DEF Inv, TypeOK
  <2>3. loop' \in [Loops -> {"idle", "reading", "racing", "failed"}] /\ watched' \in 0..N
    BY <1>1, <2>1 DEF Inv, TypeOK
  <2>4. raced' \in [Loops -> 0..N] /\ winner' \in [Loops -> 0..N]
    BY <1>1, <1>4, <2>1 DEF Inv, TypeOK
  <2>5. finish' \in {"initiate", "loading", "all", "complete", "summary", "stopped"}
    BY <1>1 DEF Inv, TypeOK
  <2> QED
    BY <1>2, <2>1, <2>2, <2>3, <2>4, <2>5 DEF Inv, TypeOK
<1>6. StartedWhenRead'
  BY <1>1, <1>2, <1>3 DEF Inv, TypeOK, StartedWhenRead, Parts
<1>7. OneLoop'
  BY <1>1, <1>2 DEF Inv, TypeOK, OneLoop, Loops
<1>8. ~Stored
  BY <1>2 DEF Inv, StartedWhenRead, Stored, Parts
<1>9. StageIsEarned'
  <2>1. finish' = "all" => read' = N /\ watched' = N
    BY <1>1, <1>2, <1>3, TransferAssumption DEF TransferAssumption, Inv, StageIsEarned
  <2>2. finish' # "stopped" => outcome' = "pending"
    BY <1>1, <1>2 DEF Inv, TypeOK, OneLoop, StageIsEarned
  <2>3. ~committed' /\ finish' \notin {"complete", "summary"}
    BY <1>1, <1>2, <1>8 DEF Inv, TypeOK, OneLoop, StageIsEarned
  <2> QED
    BY <2>1, <2>2, <2>3 DEF StageIsEarned
<1> QED
  BY <1>5, <1>6, <1>7, <1>9 DEF Inv

(* The other steps of a loop, its parts' answers, and the tail. *)
LEMMA InvLoop ==
  ASSUME Inv, NEW l \in Loops, Readable(l) \/ Exhausted(l) \/ ReadFails(l) \/ RaceEnds(l),
         "buffer" \notin Sources
  PROVE  Inv'
<1> USE DEF Inv, TypeOK, StartedWhenRead, OneLoop, StageIsEarned, Stored
<1>1. CASE Readable(l)
  BY <1>1 DEF Readable
<1> source \in {"blob", "web", "node"}
  BY TransferAssumption DEF TransferAssumption
<1>2. CASE Exhausted(l)
  <2>1. loop' = [loop EXCEPT ![l] = "idle"] /\ loop[l] = "reading" /\ (source # "node" => read = N)
    BY <1>2 DEF Exhausted
  <2>2. UNCHANGED <<source, read, part, raced, winner, outcome, committed, unhandled>>
    BY <1>2 DEF Exhausted
  <2>3. TypeOK'
    <3>1. finish' \in {"initiate", "loading", "all", "complete", "summary", "stopped"}
      BY <1>2 DEF Exhausted
    <3>2. watched' \in 0..N
      BY <1>2 DEF Exhausted
    <3> QED
      BY <2>1, <2>2, <3>1, <3>2
  <2>4. StartedWhenRead'
    BY <2>2
  <2>5. OneLoop' /\ StageIsEarned'
    <3>1. CASE source = "node"
      BY <2>1, <2>2, <3>1, <1>2 DEF Exhausted
    <3>2. CASE source \in {"blob", "web"}
      BY <2>1, <2>2, <3>2, <1>2 DEF Exhausted
    <3> QED
      BY <3>1, <3>2
  <2> QED
    BY <2>3, <2>4, <2>5
<1>3. CASE ReadFails(l)
  BY <1>3 DEF ReadFails, Settle
<1>4. CASE RaceEnds(l)
  <2>1. UNCHANGED <<source, read, part, raced, winner, watched, committed>>
    BY <1>4 DEF RaceEnds
  <2>2. loop[l] = "racing"
    BY <1>4 DEF RaceEnds
  <2>3. CASE loop' = [loop EXCEPT ![l] = "reading"] /\ UNCHANGED <<finish, outcome, unhandled>>
    BY <2>1, <2>2, <2>3
  <2>4. CASE /\ loop' = [loop EXCEPT ![l] = "failed"]
             /\ source = "node" /\ unhandled' = TRUE /\ UNCHANGED <<finish, outcome>>
    <3>1. unhandled' \in BOOLEAN
      BY <2>4
    <3>2. TypeOK'
      BY <2>1, <2>4, <3>1
    <3> QED
      BY <2>1, <2>4, <3>2
  <2>5. CASE /\ loop' = [loop EXCEPT ![l] = "failed"]
             /\ source # "node" /\ finish' = "stopped" /\ Settle("rejected") /\ UNCHANGED unhandled
    BY <2>1, <2>2, <2>5 DEF Settle
  <2> QED
    BY <1>4, <2>3, <2>4, <2>5 DEF RaceEnds
<1> QED
  BY <1>1, <1>2, <1>3, <1>4

LEMMA InvPartEnds ==
  ASSUME Inv, NEW p \in Parts, PartEnds(p)
  PROVE  Inv'
<1> USE DEF Inv, TypeOK, StartedWhenRead, OneLoop, StageIsEarned, Stored
<1>1. winner' \in [Loops -> 0..N]
  BY DEF PartEnds, Parts
<1>2. part' \in [Parts -> {"none", "uploading", "uploaded", "failed"}]
  BY DEF PartEnds
<1>3. unhandled' \in BOOLEAN
  BY DEF PartEnds
<1>4. UNCHANGED <<source, read, loop, raced, watched, finish, outcome, committed>>
  BY DEF PartEnds
<1>5. TypeOK'
  BY <1>1, <1>2, <1>3, <1>4
<1>6. StartedWhenRead' /\ OneLoop'
  BY <1>4 DEF PartEnds
<1>7. ~Stored
  BY DEF PartEnds
<1>8. StageIsEarned'
  BY <1>4, <1>7
<1> QED
  BY <1>5, <1>6, <1>8

LEMMA InvTail ==
  ASSUME Inv, Tail \/ StreamError, "buffer" \notin Sources
  PROVE  Inv'
<1> USE TransferAssumption
    DEF TransferAssumption, Inv, TypeOK, StartedWhenRead, OneLoop, StageIsEarned, Stored, Settle
<1>1. CASE Initiate
  BY <1>1 DEF Initiate, Loops
<1>2. CASE EndEvent
  BY <1>2 DEF EndEvent
<1>3. CASE AllEnds
  BY <1>3 DEF AllEnds, Parts
<1>4. CASE CompleteEnds
  BY <1>4 DEF CompleteEnds
<1>5. CASE SummaryEnds
  BY <1>5 DEF SummaryEnds
<1>6. CASE StreamError
  BY <1>6 DEF StreamError
<1> QED
  BY <1>1, <1>2, <1>3, <1>4, <1>5, <1>6 DEF Tail

LEMMA InvStep ==
  ASSUME "buffer" \notin Sources
  PROVE  Inv /\ [Next]_vars => Inv'
<1> SUFFICES ASSUME Inv, [Next]_vars PROVE Inv'
  OBVIOUS
<1>1. CASE UNCHANGED vars
  BY <1>1 DEF vars, Inv, TypeOK, StartedWhenRead, OneLoop, StageIsEarned, Stored
<1>2. CASE Next
  BY <1>2, InvReadParts, InvLoop, InvPartEnds, InvTail DEF Next, LoopStep
<1> QED
  BY <1>1, <1>2

LEMMA Invariance ==
  ASSUME "buffer" \notin Sources
  PROVE  Spec => []Inv
  BY InvInit, InvStep, PTL DEF Spec

-----------------------------------------------------------------------------
(* A commit is of every part, and none changes after it. *)
LEMMA ObjectFacts ==
  ASSUME Inv
  PROVE  /\ committed = TRUE => Object = "whole"
         /\ committed = FALSE => Object = "absent"
         /\ finish = "complete" => Object = "absent" /\ Stored
  BY DEF Inv, TypeOK, StageIsEarned, Stored, Object

(* Steps that touch neither the outcome nor the commit. *)
LEMMA Stutters ==
  ASSUME Inv, Inv', UNCHANGED <<outcome, committed>>
  PROVE  UNCHANGED <<Object, outcome>>
<1>1. committed \in BOOLEAN
  BY DEF Inv, TypeOK
<1>2. committed => (Stored /\ Stored')
  BY DEF Inv, StageIsEarned
<1> QED
  BY <1>1, <1>2 DEF Object, Stored

(* Steps that can only reject. *)
LEMMA Rejects ==
  ASSUME Inv, Inv', outcome = "pending", outcome' = "rejected", UNCHANGED committed
  PROVE  Atomic!Fail
<1>1. committed \in BOOLEAN
  BY DEF Inv, TypeOK
<1>2. committed => (Stored /\ Stored')
  BY DEF Inv, StageIsEarned
<1>3. Object' = Object
  BY <1>1, <1>2 DEF Object, Stored
<1> QED
  BY <1>3 DEF Atomic!Fail

(* Every step is a step of AtomicUpload, or none. *)
LEMMA StepSimulates ==
  ASSUME Inv, Inv', Next, "buffer" \notin Sources
  PROVE  [Atomic!Next]_<<Object, outcome>>
<1>1. CASE UNCHANGED <<outcome, committed>>
  BY <1>1, Stutters
<1>2. CASE Settle("rejected") /\ UNCHANGED committed
  <2>1. CASE outcome = "pending"
    BY <1>2, <2>1, Rejects DEF Settle, Atomic!Next
  <2>2. CASE outcome # "pending"
    BY <1>2, <2>2, Stutters DEF Settle
  <2> QED
    BY <2>1, <2>2
<1>3. CASE CompleteEnds
  <2>1. outcome = "pending" /\ Object = "absent" /\ Stored /\ Stored'
    BY <1>3, ObjectFacts DEF CompleteEnds, Inv, StageIsEarned, Stored
  <2>2. CASE committed' = TRUE /\ UNCHANGED outcome
    <3>1. Object' = "whole"
      BY <2>1, <2>2 DEF Object, Stored
    <3> QED
      BY <2>1, <2>2, <3>1 DEF Atomic!Next, Atomic!Commit
  <2>3. CASE committed' \in BOOLEAN /\ Settle("rejected")
    <3>1. Object' \in {"absent", "whole"}
      BY <2>1, <2>3 DEF Object, Stored
    <3> QED
      BY <2>1, <2>3, <3>1 DEF Settle, Atomic!Next, Atomic!Fail
  <2> QED
    BY <1>3, <2>2, <2>3 DEF CompleteEnds
<1>4. CASE SummaryEnds
  <2>1. outcome = "pending" /\ committed = TRUE /\ UNCHANGED <<committed, part>>
    BY <1>4 DEF SummaryEnds, Inv, TypeOK, StageIsEarned
  <2>2. Object = "whole" /\ Object' = "whole"
    BY <2>1, ObjectFacts DEF Object
  <2>3. CASE outcome' = "resolved"
    BY <2>1, <2>2, <2>3 DEF Atomic!Next, Atomic!Resolve
  <2>4. CASE outcome' = "rejected"
    BY <2>1, <2>2, <2>4 DEF Atomic!Next, Atomic!Fail
  <2> QED
    BY <1>4, <2>1, <2>3, <2>4 DEF SummaryEnds, Settle
<1>5. CASE \E l \in Loops : LoopStep(l)
  BY <1>1, <1>2, <1>5 DEF LoopStep, Readable, ReadParts, Exhausted, ReadFails, RaceEnds
<1>6. CASE \E p \in Parts : PartEnds(p)
  BY <1>1, <1>6 DEF PartEnds
<1>7. CASE Initiate \/ EndEvent \/ AllEnds \/ StreamError
  BY <1>1, <1>2, <1>7 DEF Initiate, EndEvent, AllEnds, StreamError
<1> QED
  BY <1>3, <1>4, <1>5, <1>6, <1>7 DEF Next, Tail

LEMMA InitSimulates == Init => Atomic!Init
  BY DEF Init, Atomic!Init, Object

-----------------------------------------------------------------------------
(* putObjectAsParts(): the variables keep their types whatever the order in
   which the loops, the parts' answers and the failures come. *)
THEOREM TypeCorrect ==
  ASSUME "buffer" \notin Sources
  PROVE  Spec => []TypeOK
<1>1. Inv => TypeOK
  BY DEF Inv
<1> QED
  BY <1>1, Invariance, PTL

(* putObjectAsParts() implements the atomic upload: it completes an object only
   when every part is stored and resolves only when the object is complete. *)
THEOREM UploadIsAtomic ==
  ASSUME "buffer" \notin Sources
  PROVE  Spec => AtomicPut
<1>1. Inv /\ Inv' /\ [Next]_vars => [Atomic!Next]_<<Object, outcome>>
  <2>1. ASSUME Inv, Inv', UNCHANGED vars PROVE UNCHANGED <<Object, outcome>>
    BY <2>1, Stutters DEF vars
  <2> QED
    BY <2>1, StepSimulates
<1> QED
  BY <1>1, InitSimulates, Invariance, PTL DEF Spec, AtomicPut, Atomic!Spec
=============================================================================
