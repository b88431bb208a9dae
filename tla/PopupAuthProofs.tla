--------------------------- MODULE PopupAuthProofs ---------------------------
(***************************************************************************)
(* Proofs about PopupAuth, for every set of sign-ins, sign-outs and        *)
(* requests.                                                               *)
(***************************************************************************)
EXTENDS PopupAuth, TLAPS

(* The sign-in of the current operation still waits. *)
OperationWaits == \A i \in SignIns : op = i => promise[i] = "pending"

Inv == TypeOK /\ OperationWaits /\ NoOrphanPopup /\ NoTokenAfterSignOut

-----------------------------------------------------------------------------
LEMMA InvInit == Init => Inv
<1> SUFFICES ASSUME Init PROVE Inv
  OBVIOUS
<1>1. TypeOK
  BY PopupAuthAssumption DEF PopupAuthAssumption, Init, TypeOK, Keys
<1>2. OperationWaits /\ NoOrphanPopup
  BY PopupAuthAssumption DEF PopupAuthAssumption, Init, OperationWaits, NoOrphanPopup
<1>3. NoTokenAfterSignOut
  BY PopupAuthAssumption DEF PopupAuthAssumption, Init, NoTokenAfterSignOut, Stale, Keys
<1> QED
  BY <1>1, <1>2, <1>3 DEF Inv

(* A step of a sign-in. *)
LEMMA InvSignIn ==
  ASSUME Inv, NEW i \in SignIns, SignInStep(i)
  PROVE  Inv'
<1> USE PopupAuthAssumption DEF PopupAuthAssumption, Inv, TypeOK, OperationWaits, NoOrphanPopup, NoTokenAfterSignOut, Stale, ToDrop, Keys
<1>1. CASE Start(i)
  BY <1>1 DEF Start
<1>2. CASE StartRefused(i)
  BY <1>2 DEF StartRefused
<1>3. CASE UserClosesPopup(i)
  BY <1>3 DEF UserClosesPopup
<1>4. CASE TokenMessage(i)
  BY <1>4 DEF TokenMessage
<1>5. CASE ErrorMessage(i)
  BY <1>5 DEF ErrorMessage, Cancel, ClearOperation, Settle
<1>6. CASE PollFindsClosed(i)
  BY <1>6 DEF PollFindsClosed, Cancel, ClearOperation, Settle
<1>7. CASE Timeout(i)
  BY <1>7 DEF Timeout, Cancel, ClearOperation, Settle
<1>8. CASE Put(i)
  BY <1>8 DEF Put, Store
<1>11. CASE Stored(i)
  BY <1>11 DEF Stored, Complete, ClearOperation, Settle
<1>9. CASE Drop(i)
  BY <1>9 DEF Drop, Delete, Complete, ClearOperation, Settle
<1>10. CASE WriteFails(i)
  BY <1>10 DEF WriteFails, Catch, ClearOperation, Settle
<1> QED
  BY <1>1, <1>2, <1>3, <1>4, <1>5, <1>6, <1>7, <1>8, <1>9, <1>10, <1>11 DEF SignInStep

(* A step of a sign-out. *)
LEMMA InvSignOut ==
  ASSUME Inv, NEW j \in SignOuts, SignOutStep(j)
  PROVE  Inv'
<1> USE PopupAuthAssumption DEF PopupAuthAssumption, Inv, TypeOK, OperationWaits, NoOrphanPopup, NoTokenAfterSignOut, Stale, ToDrop, Keys
<1>1. CASE OpenSignOut(j)
  BY <1>1 DEF OpenSignOut
<1>2. CASE SignOutTimeout(j)
  BY <1>2 DEF SignOutTimeout
<1>3. CASE BeginSignOut(j)
  BY <1>3 DEF BeginSignOut
<1>4. CASE GotToken(j)
  BY <1>4 DEF GotToken, BeginClear
<1>5. CASE Revoked(j)
  BY <1>5 DEF Revoked, BeginClear
<1>6. CASE Cleared(j)
  <2>1. out' \in [SignOuts -> {"none", "popup", "get", "revoke", "clear", "done", "failed"}]
    BY <1>6 DEF Cleared
  <2>2. \A k \in SignOuts : out'[k] = "revoke" => target'[k] # None
    BY <1>6 DEF Cleared
  <2>3. idb' \in [Keys -> SignIns \cup {None}] /\ missed' \subseteq Keys
    BY <1>6 DEF Cleared, Delete
  <2>4. UNCHANGED <<op, promise, popup, write, began, epoch, project, slot, target, reader>>
    BY <1>6 DEF Cleared
  <2>5. TypeOK'
    BY <2>1, <2>2, <2>3, <2>4
  <2>6. OperationWaits' /\ NoOrphanPopup'
    BY <2>4
  <2>7. Stale' \ missed' = {}
    BY <1>6, <2>4 DEF Cleared, Delete
  <2> QED
    BY <2>5, <2>6, <2>7
<1> QED
  BY <1>1, <1>2, <1>3, <1>4, <1>5, <1>6 DEF SignOutStep

(* A step of a request. *)
LEMMA InvReader ==
  ASSUME Inv, NEW r \in Readers, Read(r) \/ ReadDone(r) \/ Purge(r)
  PROVE  Inv'
  BY PopupAuthAssumption
  DEF PopupAuthAssumption, Inv, TypeOK, OperationWaits, NoOrphanPopup, NoTokenAfterSignOut, Stale,
      ToDrop, Keys, Read, ReadDone, Purge

(* The switch to another project. *)
LEMMA InvProject ==
  ASSUME Inv, NEW p \in Projects, ProjectSet(p)
  PROVE  Inv'
  BY DEF Inv, TypeOK, OperationWaits, NoOrphanPopup, NoTokenAfterSignOut, Stale, ToDrop, Keys, ProjectSet

LEMMA InvStep == Inv /\ [Next]_vars => Inv'
<1> SUFFICES ASSUME Inv, [Next]_vars PROVE Inv'
  OBVIOUS
<1>1. CASE UNCHANGED vars
  BY <1>1 DEF vars, Inv, TypeOK, OperationWaits, NoOrphanPopup, NoTokenAfterSignOut, Stale, ToDrop, Keys
<1>2. CASE Next
  BY <1>2, InvSignIn, InvSignOut, InvReader, InvProject DEF Next
<1> QED
  BY <1>1, <1>2

LEMMA Invariance == Spec => []Inv
  BY InvInit, InvStep, PTL DEF Spec

-----------------------------------------------------------------------------
(* The variables of the popup flows keep their types, and a revocation has a
   token to revoke. *)
THEOREM TypeCorrect == Spec => []TypeOK
<1>1. Inv => TypeOK
  BY DEF Inv
<1> QED
  BY <1>1, Invariance, PTL

(* clearTokenStorage() and setTokenStorage(): whatever overlaps, and whichever
   projects are set meanwhile, a token from before a sign-out is deleted or about
   to be, unless its deletion failed or ran under another project's key. *)
THEOREM SignOutForgets == Spec => []NoTokenAfterSignOut
<1>1. Inv => NoTokenAfterSignOut
  BY DEF Inv
<1> QED
  BY <1>1, Invariance, PTL

(* #clearPopupOperation() closes the window of every operation it forgets. *)
THEOREM PopupsAreOwned == Spec => []NoOrphanPopup
<1>1. Inv => NoOrphanPopup
  BY DEF Inv
<1> QED
  BY <1>1, Invariance, PTL

(* Were the write of a closed sign-in never to fail, no cleanup would leave a
   sign-in without an answer: the catch of the handler is the only one that
   can clear another's operation. *)
THEOREM CleanupSettles ==
  ASSUME ~StaleWritesFail
  PROVE  Spec => ClearedIsSettled
<1>1. ASSUME Inv, [Next]_vars, NEW i \in SignIns, op = i, op' # i
      PROVE  promise'[i] # "pending"
  <2> USE <1>1 DEF Inv, TypeOK, OperationWaits
  <2>1. CASE \E k \in SignIns : SignInStep(k)
    <3> PICK k \in SignIns : SignInStep(k)
      BY <2>1
    <3>1. CASE Start(k) \/ StartRefused(k) \/ UserClosesPopup(k) \/ TokenMessage(k)
      BY <3>1, PopupAuthAssumption DEF PopupAuthAssumption, Start, StartRefused, UserClosesPopup, TokenMessage
    <3>2. CASE ErrorMessage(k) \/ PollFindsClosed(k) \/ Timeout(k)
      BY <3>2 DEF ErrorMessage, PollFindsClosed, Timeout, Cancel, ClearOperation, Settle
    <3>3. CASE Put(k) \/ Stored(k) \/ Drop(k)
      BY <3>3 DEF Put, Stored, Drop, Complete, ClearOperation, Settle
    <3>4. CASE WriteFails(k)
      BY <3>4 DEF WriteFails, Catch, ClearOperation, Settle
    <3> QED
      BY <3>1, <3>2, <3>3, <3>4 DEF SignInStep
  <2>2. CASE \E j \in SignOuts : SignOutStep(j)
    BY <2>2 DEF SignOutStep, OpenSignOut, SignOutTimeout, BeginSignOut, GotToken, Revoked, Cleared
  <2>3. CASE \E r \in Readers : Read(r) \/ ReadDone(r) \/ Purge(r)
    BY <2>3 DEF Read, ReadDone, Purge
  <2>5. CASE \E p \in Projects : ProjectSet(p)
    BY <2>5 DEF ProjectSet
  <2>4. CASE UNCHANGED vars
    BY <2>4 DEF vars
  <2> QED
    BY <2>1, <2>2, <2>3, <2>4, <2>5 DEF Next
<1>2. Inv /\ [Next]_vars
        => [\A i \in SignIns : op = i /\ op' # i => promise'[i] # "pending"]_vars
  BY <1>1
<1> QED
  BY <1>2, Invariance, PTL DEF Spec, ClearedIsSettled
=============================================================================
