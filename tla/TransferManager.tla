--------------------------- MODULE TransferManager ---------------------------
(***************************************************************************)
(* putObjectAsParts() of packages/stratus (TransferManager): one call, the *)
(* requests for its parts, and the loops that read the data.  A Blob and a *)
(* ReadableStream are read by one loop; every 'readable' event of a Node   *)
(* stream starts one, which may overlap with those before it.              *)
(*                                                                         *)
(* The stretch of a loop between two awaits is one action.  Part p is the  *)
(* p-th chunk read: the number is counted where the chunk is read.         *)
(***************************************************************************)
EXTENDS Naturals, FiniteSets

CONSTANTS
  N,        (* chunks in the data                                            *)
  Limit,    (* the parameter concurrency                                     *)
  Handlers, (* bound on the 'readable' handlers that overlap                 *)
  Sources   (* the kinds of data: "blob", "web", "node", and "buffer" for a
               Buffer or Uint8Array                                          *)

ASSUME TransferAssumption ==
  /\ N \in Nat /\ Limit \in Nat \ {0} /\ Handlers \in Nat \ {0}
  /\ Sources \subseteq {"blob", "web", "node", "buffer"}

Parts == 1..N
Loops == 1..Handlers

VARIABLES
  source,    (* the kind of data of this call                                *)
  read,      (* chunks read: parts.length                                    *)
  part,      (* the promise of each part                                     *)
  loop,      (* the loops that read                                          *)
  raced,     (* per loop, the length of parts when it called Promise.race()  *)
  winner,    (* per loop, the part that settled its race, or 0               *)
  watched,   (* the parts whose rejection somebody handles: 1..watched       *)
  finish,    (* the tail of the call, after the loops                        *)
  outcome,   (* what putObjectAsParts() returned                             *)
  committed, (* the server has completed the upload                          *)
  unhandled  (* history: a rejection that nobody handled                     *)

vars == <<source, read, part, loop, raced, winner, watched, finish, outcome, committed, unhandled>>

TypeOK ==
  /\ source \in Sources
  /\ read \in 0..N /\ watched \in 0..N
  /\ part \in [Parts -> {"none", "uploading", "uploaded", "failed"}]
  /\ loop \in [Loops -> {"idle", "reading", "racing", "failed"}]
  /\ raced \in [Loops -> 0..N] /\ winner \in [Loops -> 0..N]
  /\ finish \in {"initiate", "loading", "all", "complete", "summary", "stopped"}
  /\ outcome \in {"pending", "resolved", "rejected"}
  /\ committed \in BOOLEAN /\ unhandled \in BOOLEAN

Init ==
  /\ source \in Sources
  /\ read = 0 /\ watched = 0
  /\ part = [p \in Parts |-> "none"]
  /\ loop = [l \in Loops |-> "idle"]
  /\ raced = [l \in Loops |-> 0] /\ winner = [l \in Loops |-> 0]
  /\ finish = "initiate" /\ outcome = "pending"
  /\ committed = FALSE /\ unhandled = FALSE

-----------------------------------------------------------------------------
(* A promise settles once. *)
Settle(how) == outcome' = IF outcome = "pending" THEN how ELSE outcome

SettledIn(n) == {p \in 1..n : part[p] \in {"uploaded", "failed"}}

(* Who has won a race over the first n parts when it is called: the first in
   the order of the list that settled, or 0 for none. *)
FirstSettled(n) ==
  IF SettledIn(n) = {} THEN {0}
  ELSE {p \in SettledIn(n) : \A q \in SettledIn(n) : p <= q}

Least(a, b) == IF a < b THEN a ELSE b

(* How many chunks a loop may read before it awaits: a Blob is cut without
   waiting until the list is Limit long, a Node stream gives what it has
   buffered, a ReadableStream one chunk. *)
Takes ==
  LET most == IF read < Least(N, Limit) THEN Least(N, Limit) - read ELSE 1
  IN CASE source = "blob" -> {most}
       [] source = "node" -> 1..most
       [] OTHER           -> {1}

-----------------------------------------------------------------------------
(* createMultipartInstance(): initiateMultipartUpload() is answered or fails.
   Data of any other kind meets none of the branches: only the summary is asked. *)
Initiate ==
  /\ finish = "initiate"
  /\ \/ /\ finish' = IF source = "buffer" THEN "summary" ELSE "loading"
        /\ loop' = IF source \in {"blob", "web"} THEN [loop EXCEPT ![1] = "reading"] ELSE loop
        /\ UNCHANGED outcome
     \/ /\ finish' = "stopped"
        /\ Settle("rejected")
        /\ UNCHANGED loop
  /\ UNCHANGED <<source, read, part, raced, winner, watched, committed, unhandled>>

(* The 'readable' event of a Node stream. *)
Readable(l) ==
  /\ source = "node" /\ finish = "loading" /\ read < N
  /\ loop[l] = "idle"
  /\ loop' = [loop EXCEPT ![l] = "reading"]
  /\ UNCHANGED <<source, read, part, raced, winner, watched, finish, outcome, committed, unhandled>>

(* A loop reads, starts the uploads, and races them once the list is long enough. *)
ReadParts(l) ==
  /\ loop[l] = "reading" /\ read < N
  /\ \E k \in Takes :
       /\ read' = read + k
       /\ part' = [p \in Parts |-> IF p \in (read + 1)..(read + k) THEN "uploading" ELSE part[p]]
       /\ IF read + k >= Limit
          THEN /\ loop' = [loop EXCEPT ![l] = "racing"]
               /\ raced' = [raced EXCEPT ![l] = read + k]
               /\ \E w \in FirstSettled(read) : winner' = [winner EXCEPT ![l] = w]
               /\ watched' = read + k
               /\ UNCHANGED finish
          ELSE /\ loop' = IF source = "web" THEN loop ELSE [loop EXCEPT ![l] = "idle"]
               /\ finish' = IF source = "blob" THEN "all" ELSE finish
               /\ watched' = IF source = "blob" THEN read + k ELSE watched
               /\ UNCHANGED <<raced, winner>>
  /\ UNCHANGED <<source, outcome, committed, unhandled>>

(* Nothing is left to read: a Blob or a ReadableStream goes on to Promise.all().
   A Node stream also answers null while its buffer is short of a part. *)
Exhausted(l) ==
  /\ loop[l] = "reading"
  /\ read = N \/ source = "node"
  /\ loop' = [loop EXCEPT ![l] = "idle"]
  /\ IF source = "node"
     THEN UNCHANGED <<finish, watched>>
     ELSE finish' = "all" /\ watched' = N
  /\ UNCHANGED <<source, read, part, raced, winner, outcome, committed, unhandled>>

(* reader.read() of a ReadableStream rejects, and with it the call. *)
ReadFails(l) ==
  /\ source = "web" /\ loop[l] = "reading"
  /\ loop' = [loop EXCEPT ![l] = "failed"]
  /\ finish' = "stopped"
  /\ Settle("rejected")
  /\ UNCHANGED <<source, read, part, raced, winner, watched, committed, unhandled>>

(* Promise.race() settles: a rejection ends the loop.  That of a Node stream's
   listener is an async function whose promise nobody holds. *)
RaceEnds(l) ==
  /\ loop[l] = "racing" /\ winner[l] # 0
  /\ \/ /\ part[winner[l]] = "uploaded"
        /\ loop' = [loop EXCEPT ![l] = "reading"]
        /\ UNCHANGED <<finish, outcome, unhandled>>
     \/ /\ part[winner[l]] = "failed"
        /\ loop' = [loop EXCEPT ![l] = "failed"]
        /\ IF source = "node"
           THEN unhandled' = TRUE /\ UNCHANGED <<finish, outcome>>
           ELSE finish' = "stopped" /\ Settle("rejected") /\ UNCHANGED unhandled
  /\ UNCHANGED <<source, read, part, raced, winner, watched, committed>>

(* The request of a part is answered or fails. *)
PartEnds(p) ==
  /\ part[p] = "uploading"
  /\ \/ part' = [part EXCEPT ![p] = "uploaded"] /\ UNCHANGED unhandled
     \/ part' = [part EXCEPT ![p] = "failed"] /\ unhandled' = (unhandled \/ p > watched)
  /\ winner' = [l \in Loops |->
       IF loop[l] = "racing" /\ winner[l] = 0 /\ p <= raced[l] THEN p ELSE winner[l]]
  /\ UNCHANGED <<source, read, loop, raced, watched, finish, outcome, committed>>

-----------------------------------------------------------------------------
(* The 'end' and 'error' events of a Node stream. *)
EndEvent ==
  /\ source = "node" /\ finish = "loading" /\ read = N
  /\ finish' = "all" /\ watched' = N
  /\ UNCHANGED <<source, read, part, loop, raced, winner, outcome, committed, unhandled>>

StreamError ==
  /\ source = "node" /\ finish = "loading"
  /\ finish' = "stopped"
  /\ Settle("rejected")
  /\ UNCHANGED <<source, read, part, loop, raced, winner, watched, committed, unhandled>>

(* Mutants: one part is enough; a failed part is not reported. *)
AnyEnds ==
  /\ finish = "all"
  /\ \E p \in Parts : part[p] = "uploaded"
  /\ finish' = "complete"
  /\ UNCHANGED <<source, read, part, loop, raced, winner, watched, outcome, committed, unhandled>>

AllEndsSilently ==
  /\ finish = "all"
  /\ \A p \in 1..watched : part[p] = "uploaded"
  /\ finish' = "complete"
  /\ UNCHANGED <<source, read, part, loop, raced, winner, watched, outcome, committed, unhandled>>

(* Promise.all(): waits for every part of the list, rejects with the first that fails. *)
AllEnds ==
  /\ finish = "all"
  /\ \/ /\ \A p \in 1..watched : part[p] = "uploaded"
        /\ finish' = "complete"
        /\ UNCHANGED outcome
     \/ /\ \E p \in 1..watched : part[p] = "failed"
        /\ finish' = "stopped"
        /\ Settle("rejected")
  /\ UNCHANGED <<source, read, part, loop, raced, winner, watched, committed, unhandled>>

(* completeUpload(): a request that fails may have had its effect. *)
CompleteEnds ==
  /\ finish = "complete"
  /\ \/ finish' = "summary" /\ committed' = TRUE /\ UNCHANGED outcome
     \/ finish' = "stopped" /\ committed' \in BOOLEAN /\ Settle("rejected")
  /\ UNCHANGED <<source, read, part, loop, raced, winner, watched, unhandled>>

(* getUploadSummary() *)
SummaryEnds ==
  /\ finish = "summary"
  /\ finish' = "stopped"
  /\ \E how \in {"resolved", "rejected"} : Settle(how)
  /\ UNCHANGED <<source, read, part, loop, raced, winner, watched, committed, unhandled>>

-----------------------------------------------------------------------------
LoopStep(l) == Readable(l) \/ ReadParts(l) \/ Exhausted(l) \/ ReadFails(l) \/ RaceEnds(l)
Tail == Initiate \/ EndEvent \/ AllEnds \/ CompleteEnds \/ SummaryEnds

Next ==
  \/ \E l \in Loops : LoopStep(l)
  \/ \E p \in Parts : PartEnds(p)
  \/ Tail \/ StreamError

Spec == Init /\ [][Next]_vars

(* Every request is answered or fails, the event loop runs what is due, and a
   stream with data left says so and, asked again and again, gives it. *)
Fairness ==
  /\ WF_vars(Tail)
  /\ \A l \in Loops : WF_vars(LoopStep(l))
  /\ SF_vars(\E l \in Loops : ReadParts(l))
  /\ \A p \in Parts : WF_vars(PartEnds(p))

FairSpec == Spec /\ Fairness

-----------------------------------------------------------------------------
(* completeUpload() is asked only for an object of which every part was stored,
   and putObjectAsParts() resolves only after it: the upload is atomic however
   the loops, the parts' answers and the failures fall. *)
Object ==
  IF ~committed THEN "absent"
  ELSE IF \A p \in Parts : part[p] = "uploaded" THEN "whole" ELSE "torn"

Atomic == INSTANCE AtomicUpload WITH object <- Object

AtomicPut == Atomic!Spec

(* putObjectAsParts() settles, or the process has met a rejection that nobody
   handles, which ends a Node process. *)
UploadSettles == outcome = "pending" ~> (outcome # "pending" \/ unhandled)

(* "The maximum number of parts uploaded concurrently". *)
LimitKept == Cardinality({p \in Parts : part[p] = "uploading"}) <= Limit
=============================================================================
