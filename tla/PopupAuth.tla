------------------------------ MODULE PopupAuth ------------------------------
(***************************************************************************)
(* Popup sign-in and sign-out of packages/auth (PopupManager), the OAuth   *)
(* token they keep in IndexedDB (TokenManager), and the requests of        *)
(* packages/transport that read it.                                        *)
(*                                                                         *)
(* Handlers, timers and the stretch of an async function between two       *)
(* awaits are actions.  An operation on IndexedDB opens a connection of    *)
(* its own; those under way may end in any order, which is more than a     *)
(* browser that queues them does.  The message listener, the poll and the  *)
(* timeout of a sign-in are set when its operation becomes                 *)
(* #popupAuthOperation and cleared when it stops being it, so they have no *)
(* variable: they are armed exactly for the sign-in op.                    *)
(*                                                                         *)
(* The store holds a token under each project's key: a write takes the key *)
(* of the project set when it is called, a read and a deletion that of the *)
(* moment their transaction runs.                                          *)
(***************************************************************************)
EXTENDS Naturals

CONSTANTS
  SignIns,          (* calls of signInViaPopup()                             *)
  SignOuts,         (* calls of signOutViaPopup() or of an OAuth signOut()   *)
  Readers,          (* requests that read the stored token                   *)
  Projects,         (* the projects getCredentials() may set as PROJECT_ID   *)
  None,             (* null                                                  *)
  StaleWritesFail   (* TRUE: a token write may still fail after its sign-in
                       was closed; FALSE: it fails only while that waits     *)

ASSUME PopupAuthAssumption ==
  /\ None \notin SignIns \cup Projects
  /\ StaleWritesFail \in BOOLEAN

VARIABLES
  op,       (* #popupAuthOperation, named by its sign-in                     *)
  promise,  (* what each sign-in returned                                    *)
  popup,    (* the window of each sign-in                                    *)
  write,    (* setTokenStorage() of each sign-in: its IndexedDB operation    *)
  began,    (* the epoch captured by that setTokenStorage()                  *)
  epoch,    (* #refreshEpoch                                                 *)
  project,  (* PROJECT_ID in the ConfigStore; None before it is first set    *)
  slot,     (* the key that each sign-in's token is written under            *)
  idb,      (* the token under each key, named by the sign-in that got it    *)
  out,      (* the step of each sign-out                                     *)
  target,   (* the token a sign-out revokes                                  *)
  reader,   (* the step of each request                                      *)
  missed    (* history: the keys whose token a deletion failed to remove, or
               passed by because another project was set                     *)

vars ==
  <<op, promise, popup, write, began, epoch, project, slot, idb, out, target, reader, missed>>

Keys == Projects \cup {None}

TypeOK ==
  /\ op \in SignIns \cup {None}
  /\ promise \in [SignIns -> {"none", "pending", "resolved", "rejected"}]
  /\ popup \in [SignIns -> {"none", "open", "closed"}]
  /\ write \in [SignIns -> {"none", "put", "stored", "drop", "ended"}]
  /\ began \in [SignIns -> Nat] /\ epoch \in Nat
  /\ project \in Keys
  /\ slot \in [SignIns -> Keys]
  /\ idb \in [Keys -> SignIns \cup {None}]
  /\ out \in [SignOuts -> {"none", "popup", "get", "revoke", "clear", "done", "failed"}]
  /\ target \in [SignOuts -> SignIns \cup {None}]
  /\ \A j \in SignOuts : out[j] = "revoke" => target[j] # None
  /\ reader \in [Readers -> {"none", "read", "purge", "done"}]
  /\ missed \subseteq Keys

Init ==
  /\ op = None
  /\ promise = [i \in SignIns |-> "none"]
  /\ popup = [i \in SignIns |-> "none"]
  /\ write = [i \in SignIns |-> "none"]
  /\ began = [i \in SignIns |-> 0] /\ epoch = 0
  /\ project = None /\ slot = [i \in SignIns |-> None]
  /\ idb = [p \in Keys |-> None]
  /\ out = [j \in SignOuts |-> "none"]
  /\ target = [j \in SignOuts |-> None]
  /\ reader = [r \in Readers |-> "none"]
  /\ missed = {}

-----------------------------------------------------------------------------
(* #clearPopupOperation(): closes the window of the current operation. *)
ClearOperation ==
  /\ op' = None
  /\ popup' = IF op = None THEN popup ELSE [popup EXCEPT ![op] = "closed"]

(* A promise settles once; later calls of resolve() and reject() do nothing. *)
Settle(i, how) ==
  promise' = IF promise[i] = "pending" THEN [promise EXCEPT ![i] = how] ELSE promise

(* Mutant: the operation is forgotten, its window left open. *)
CancelLeavesPopup(i) ==
  /\ op = i
  /\ op' = None
  /\ Settle(i, "rejected")
  /\ UNCHANGED popup

(* Mutant: the operation is cleared, the promise left pending. *)
CancelSilently(i) ==
  /\ op = i
  /\ ClearOperation
  /\ UNCHANGED promise

(* The current operation ends and its sign-in is rejected. *)
Cancel(i) ==
  /\ op = i
  /\ ClearOperation
  /\ Settle(i, "rejected")

-----------------------------------------------------------------------------
(* The application calls signInViaPopup(). *)

Start(i) ==
  /\ promise[i] = "none"
  /\ op = None
  /\ op' = i
  /\ promise' = [promise EXCEPT ![i] = "pending"]
  /\ popup' = [popup EXCEPT ![i] = "open"]
  /\ UNCHANGED <<write, began, epoch, project, slot, idb, out, target, reader, missed>>

(* POPUP_ALREADY_OPEN, or POPUP_BLOCKED by the browser. *)
StartRefused(i) ==
  /\ promise[i] = "none"
  /\ promise' = [promise EXCEPT ![i] = "rejected"]
  /\ UNCHANGED <<op, popup, write, began, epoch, project, slot, idb, out, target, reader,
                 missed>>

UserClosesPopup(i) ==
  /\ popup[i] = "open"
  /\ popup' = [popup EXCEPT ![i] = "closed"]
  /\ UNCHANGED <<op, promise, write, began, epoch, project, slot, idb, out, target,
                 reader, missed>>

(* The popup posts a token: the first starts setTokenStorage(). *)
TokenMessage(i) ==
  /\ op = i
  /\ write[i] = "none"
  /\ write' = [write EXCEPT ![i] = "put"]
  /\ began' = [began EXCEPT ![i] = epoch]
  /\ slot' = [slot EXCEPT ![i] = project]
  /\ UNCHANGED <<op, promise, popup, epoch, project, idb, out, target, reader, missed>>

(* The popup posts an error or a malformed token. *)
ErrorMessage(i) ==
  /\ Cancel(i)
  /\ UNCHANGED <<write, began, epoch, project, slot, idb, out, target, reader, missed>>

(* The poll finds the window closed. *)
PollFindsClosed(i) ==
  /\ popup[i] = "closed"
  /\ Cancel(i)
  /\ UNCHANGED <<write, began, epoch, project, slot, idb, out, target, reader, missed>>

Timeout(i) ==
  /\ Cancel(i)
  /\ UNCHANGED <<write, began, epoch, project, slot, idb, out, target, reader, missed>>

-----------------------------------------------------------------------------
(* setTokenStorage() and the handler behind it. *)

(* Mutant: the handler's completion takes the current operation as well. *)
CompleteAny(i) == ClearOperation /\ Settle(i, "resolved")

(* The handler goes on after setTokenStorage(): a sign-in that no longer waits
   is left alone. *)
Complete(i) ==
  IF op = i
  THEN ClearOperation /\ Settle(i, "resolved")
  ELSE UNCHANGED <<op, popup, promise>>

(* The handler's catch: #clearPopupOperation('cancelled') takes the current
   operation, whosever it is. *)
Catch(i) == ClearOperation /\ Settle(i, "rejected")

(* A write in its slot; what was left there before is overwritten. *)
Store(i) ==
  /\ idb' = [idb EXCEPT ![slot[i]] = i]
  /\ missed' = missed \ {slot[i]}

Put(i) ==
  /\ write[i] = "put"
  /\ write' = [write EXCEPT ![i] = "stored"]
  /\ Store(i)
  /\ UNCHANGED <<op, promise, popup, began, epoch, project, slot, out, target, reader>>

(* Mutant: no look at the epoch after the write. *)
StoredWithoutEpoch(i) ==
  /\ write[i] = "stored"
  /\ write' = [write EXCEPT ![i] = "ended"]
  /\ Complete(i)
  /\ UNCHANGED <<began, epoch, project, slot, idb, out, target, reader, missed>>

(* The write has ended: a sign-out that overlapped it has counted the epoch. *)
Stored(i) ==
  /\ write[i] = "stored"
  /\ IF began[i] # epoch
     THEN write' = [write EXCEPT ![i] = "drop"] /\ UNCHANGED <<op, popup, promise>>
     ELSE write' = [write EXCEPT ![i] = "ended"] /\ Complete(i)
  /\ UNCHANGED <<began, epoch, project, slot, idb, out, target, reader, missed>>

(* clearOAuthTokenFromIDB() deletes under the key of the moment and passes by
   the tokens that it was to delete under others. *)
Delete(meant) ==
  /\ idb' = [idb EXCEPT ![project] = None]
  /\ missed' = (missed \cup meant) \ {project}

Drop(i) ==
  /\ write[i] = "drop"
  /\ write' = [write EXCEPT ![i] = "ended"]
  /\ Delete({slot[i]})
  /\ Complete(i)
  /\ UNCHANGED <<began, epoch, project, slot, out, target, reader>>

WriteFails(i) ==
  /\ write[i] \in {"put", "drop"}
  /\ StaleWritesFail \/ op = i
  /\ missed' = IF write[i] = "drop" THEN missed \cup {slot[i]} ELSE missed
  /\ write' = [write EXCEPT ![i] = "ended"]
  /\ Catch(i)
  /\ UNCHANGED <<began, epoch, project, slot, idb, out, target, reader>>

-----------------------------------------------------------------------------
(* signOutViaPopup() waits for its own popup; signOut() under the OAuth protocol
   and finishZcrfSignOut() in an iframe start with the token at once. *)

OpenSignOut(j) ==
  /\ out[j] = "none"
  /\ out' = [out EXCEPT ![j] = "popup"]
  /\ UNCHANGED <<op, promise, popup, write, began, epoch, project, slot, idb, target,
                 reader, missed>>

SignOutTimeout(j) ==
  /\ out[j] = "popup"
  /\ out' = [out EXCEPT ![j] = "failed"]
  /\ UNCHANGED <<op, promise, popup, write, began, epoch, project, slot, idb, target,
                 reader, missed>>

(* revokeStoredAccessToken() begins: the token is read ... *)
BeginSignOut(j) ==
  /\ out[j] \in {"none", "popup"}
  /\ out' = [out EXCEPT ![j] = "get"]
  /\ UNCHANGED <<op, promise, popup, write, began, epoch, project, slot, idb, target,
                 reader, missed>>

(* clearTokenStorage(): the epoch is counted before the deletion. *)
BeginClear(j) ==
  /\ epoch' = epoch + 1
  /\ out' = [out EXCEPT ![j] = "clear"]

(* Mutant: whatever was read is revoked. *)
GotTokenUnchecked(j) ==
  /\ out[j] = "get"
  /\ target' = [target EXCEPT ![j] = idb[project]]
  /\ out' = [out EXCEPT ![j] = "revoke"]
  /\ UNCHANGED <<op, promise, popup, write, began, epoch, project, slot, idb, reader,
                 missed>>

(* ... and revoked if there is one; a read that fails counts as none. *)
GotToken(j) ==
  /\ out[j] = "get"
  /\ \/ /\ idb[project] # None
        /\ target' = [target EXCEPT ![j] = idb[project]]
        /\ out' = [out EXCEPT ![j] = "revoke"]
        /\ UNCHANGED epoch
     \/ BeginClear(j) /\ UNCHANGED target
  /\ UNCHANGED <<op, promise, popup, write, began, project, slot, idb, reader, missed>>

(* The revocation ends, a failure is swallowed. *)
Revoked(j) ==
  /\ out[j] = "revoke"
  /\ BeginClear(j)
  /\ UNCHANGED <<op, promise, popup, write, began, project, slot, idb, target, reader,
                 missed>>

(* The keys that hold a token from before a sign-out. *)
Stale == {p \in Keys : idb[p] # None /\ began[idb[p]] # epoch}

Cleared(j) ==
  /\ out[j] = "clear"
  /\ \/ out' = [out EXCEPT ![j] = "done"] /\ Delete(Stale)
     \/ /\ out' = [out EXCEPT ![j] = "failed"]
        /\ missed' = missed \cup Stale
        /\ UNCHANGED idb
  /\ UNCHANGED <<op, promise, popup, write, began, epoch, project, slot, target, reader>>

-----------------------------------------------------------------------------
(* A request: getOAuthZCAuthToken() of transport's fetch handler. *)

Read(r) ==
  /\ reader[r] = "none"
  /\ reader' = [reader EXCEPT ![r] = "read"]
  /\ UNCHANGED <<op, promise, popup, write, began, epoch, project, slot, idb, out,
                 target, missed>>

(* What was read is looked at in a later task: a token that has expired by then is
   to be deleted. *)
ReadDone(r) ==
  /\ reader[r] = "read"
  /\ \/ reader' = [reader EXCEPT ![r] = "done"]
     \/ idb[project] # None /\ reader' = [reader EXCEPT ![r] = "purge"]
  /\ UNCHANGED <<op, promise, popup, write, began, epoch, project, slot, idb, out,
                 target, missed>>

(* clearOAuthTokenFromIDB() deletes what is stored by now, or fails. *)
Purge(r) ==
  /\ reader[r] = "purge"
  /\ reader' = [reader EXCEPT ![r] = "done"]
  /\ idb' \in {idb, [idb EXCEPT ![project] = None]}
  /\ UNCHANGED <<op, promise, popup, write, began, epoch, project, slot, out, target,
                 missed>>

-----------------------------------------------------------------------------
(* /sdk/init answers for a project, at first or after a switch: getCredentials()
   sets PROJECT_ID, which nothing takes back. *)
ProjectSet(p) ==
  /\ project # p
  /\ project' = p
  /\ UNCHANGED <<op, promise, popup, write, began, epoch, slot, idb, out, target, reader,
                 missed>>

SignInStep(i) ==
  \/ Start(i) \/ StartRefused(i) \/ UserClosesPopup(i)
  \/ TokenMessage(i) \/ ErrorMessage(i) \/ PollFindsClosed(i) \/ Timeout(i)
  \/ Put(i) \/ Stored(i) \/ Drop(i) \/ WriteFails(i)

SignOutStep(j) ==
  \/ OpenSignOut(j) \/ SignOutTimeout(j) \/ BeginSignOut(j)
  \/ GotToken(j) \/ Revoked(j) \/ Cleared(j)

Next ==
  \/ \E i \in SignIns : SignInStep(i)
  \/ \E j \in SignOuts : SignOutStep(j)
  \/ \E p \in Projects : ProjectSet(p)
  \/ \E r \in Readers : Read(r) \/ ReadDone(r) \/ Purge(r)

Spec == Init /\ [][Next]_vars

(* The browser runs a timeout that is due and ends the operations of IndexedDB. *)
Fairness ==
  \A i \in SignIns : WF_vars(Timeout(i)) /\ WF_vars(Put(i) \/ Stored(i) \/ Drop(i) \/ WriteFails(i))

FairSpec == Spec /\ Fairness

-----------------------------------------------------------------------------
(* The write of a sign-in that a sign-out overlapped. *)
ToDrop(k) == write[k] \in {"stored", "drop"} /\ began[k] # epoch

(* A token that was on its way to IndexedDB, or in it, when a sign-out counted
   the epoch does not stay, whoever ends last: its own write or the sign-out is
   still to delete it.  The only ones that stay are those whose deletion failed,
   or ran when another project was set. *)
NoTokenAfterSignOut ==
  \A p \in Stale \ missed :
     \/ \E k \in SignIns : ToDrop(k) /\ slot[k] = p
     \/ \E j \in SignOuts : out[j] = "clear"

(* "Sign-out overlapped this write - drop the token we just persisted": the deletion,
   when it does not fail, is of that token.  The code violates it: it may run when
   another project is set than at the write. *)
DropsItsToken == [][\A i \in SignIns : Drop(i) => idb'[slot[i]] # i]_vars

(* "Ignore cleanup for a stale operation so an in-flight IDB write cannot
   close/clear a popup that started after it": an operation is cleared only
   when the promise of its own sign-in settles. *)
ClearedIsSettled ==
  [][\A i \in SignIns : op = i /\ op' # i => promise'[i] # "pending"]_vars

(* No window is left open that the client no longer listens to. *)
NoOrphanPopup == \A i \in SignIns : popup[i] = "open" => op = i

(* Every call of signInViaPopup() settles, although the user may never finish,
   the popup may be closed and a sign-out may come between. *)
SignInSettles ==
  \A i \in SignIns : promise[i] = "pending" ~> promise[i] # "pending"
=============================================================================
