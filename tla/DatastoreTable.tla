---------------------------- MODULE DatastoreTable ----------------------------
(***************************************************************************)
(* Table, TableAdmin, Datastore and the bulk jobs of packages/datastore.   *)
(* The methods keep nothing: an action is the arrival of the request of    *)
(* one of them at the server, which is external.  A bulk job runs on the   *)
(* server while rows are written and getIterableRows() is under way.       *)
(***************************************************************************)
EXTENDS Listings

VARIABLE job  (* the bulk jobs "read" and "write": "none", "running" or "done" *)

dataVars == <<listingVars, job>>

DataInit ==
  /\ rows \in SUBSET RowIds
  /\ job = [type \in {"read", "write"} |-> "none"]

DataRests == rows = {} /\ job = [type \in {"read", "write"} |-> "none"]

-----------------------------------------------------------------------------
(* insertRows(), and insertRow() with one row: the server gives new ids. *)
InsertRows(ids) ==
  /\ ids # {} /\ ids \cap rows = {}
  /\ RowsBecome(rows \cup ids)
  /\ UNCHANGED job

(* updateRows() and updateRow(): a row keeps its id, and its place in a listing. *)
UpdateRows(ids) ==
  /\ ids # {} /\ ids \subseteq rows
  /\ RowsBecome(rows)
  /\ UNCHANGED job

(* deleteRow() and deleteRows() *)
DeleteRows(ids) ==
  /\ ids # {} /\ ids \subseteq rows
  /\ RowsBecome(rows \ ids)
  /\ UNCHANGED job

(* executeZCQLQuery() and executeOLAPQuery(): a statement may insert and delete rows. *)
ExecuteQuery(ids) == RowsBecome(ids) /\ UNCHANGED job

(* createJob() of BulkRead and BulkWrite. *)
CreateJob(type) ==
  /\ job[type] # "running"
  /\ job' = [job EXCEPT ![type] = "running"]
  /\ UNCHANGED listingVars

(* A write job adds its rows one by one until getStatus() says that it has completed. *)
JobWrites ==
  /\ job["write"] = "running"
  /\ \E id \in RowIds \ rows : RowsBecome(rows \cup {id})
  /\ UNCHANGED job

JobCompletes(type) ==
  /\ job[type] = "running" /\ job' = [job EXCEPT ![type] = "done"]
  /\ UNCHANGED listingVars

DataStep ==
  \/ \E ids \in SUBSET RowIds : InsertRows(ids) \/ UpdateRows(ids) \/ DeleteRows(ids) \/ ExecuteQuery(ids)
  \/ \E type \in {"read", "write"} : CreateJob(type) \/ JobCompletes(type)
  \/ JobWrites

(* The table while its generators are under way. *)
RowsNext ==
  \/ DataStep
  \/ (\E i \in Iterators : ListingStep(i) \/ Start(i, "rows", Unshared)) /\ UNCHANGED job

RowsSpec == DataInit /\ store = [k \in Keys |-> {}] /\ IteratorInit /\ [][RowsNext]_dataVars
=============================================================================
