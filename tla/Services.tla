------------------------------ MODULE Services ------------------------------
(***************************************************************************)
(* The services of an application, each with the calls that it has under   *)
(* way: a table of packages/nosql, a bucket and its generators, the access *)
(* to a bucket, downloads (packages/stratus), a table of                   *)
(* packages/datastore, packages/job-scheduling, and notifications in the   *)
(* browser.  They have no state in common, so that a behaviour is one of   *)
(* one service while the others rest.                                      *)
(***************************************************************************)
EXTENDS NoSqlTable, StratusBucket, DatastoreTable, BucketAccess, PartDownload, JobScheduling,
        PushNotification

VARIABLE service

vars == <<service, tableVars, listingVars, job, accessVars, downloadVars, jobVars, pushVars>>

Init ==
  /\ service \in {"nosql", "bucket", "datastore", "access", "download", "jobs", "push"}
  /\ TableInit /\ PushInit /\ IteratorInit
  /\ IF service = "bucket" THEN BucketInit ELSE BucketRests
  /\ IF service = "datastore" THEN DataInit ELSE DataRests
  /\ IF service = "access" THEN AccessInit ELSE AccessRests
  /\ IF service = "download" THEN DownloadInit ELSE DownloadRests
  /\ IF service = "jobs" THEN JobInit ELSE JobRests

-----------------------------------------------------------------------------
NoSqlStep ==
  /\ service = "nosql" /\ TableNext
  /\ UNCHANGED <<service, listingVars, job, accessVars, downloadVars, jobVars, pushVars>>

ObjectsStep ==
  /\ service = "bucket" /\ ObjectsNext
  /\ UNCHANGED <<service, tableVars, job, accessVars, downloadVars, jobVars, pushVars>>

RowsStep ==
  /\ service = "datastore" /\ RowsNext
  /\ UNCHANGED <<service, tableVars, accessVars, downloadVars, jobVars, pushVars>>

BucketAccessStep ==
  /\ service = "access" /\ AccessNext
  /\ UNCHANGED <<service, tableVars, listingVars, job, downloadVars, jobVars, pushVars>>

DownloadStep ==
  /\ service = "download" /\ DownloadNext
  /\ UNCHANGED <<service, tableVars, listingVars, job, accessVars, jobVars, pushVars>>

JobStep ==
  /\ service = "jobs" /\ JobNext
  /\ UNCHANGED <<service, tableVars, listingVars, job, accessVars, downloadVars, pushVars>>

Pushes(A) ==
  /\ service = "push" /\ A
  /\ UNCHANGED <<service, tableVars, listingVars, job, accessVars, downloadVars, jobVars>>

Next ==
  \/ NoSqlStep
  \/ ObjectsStep
  \/ RowsStep
  \/ BucketAccessStep
  \/ DownloadStep
  \/ JobStep
  \/ Pushes(PushNext)

(* Promises of a page settle and its timers fire. *)
Fairness ==
  /\ \A a \in Attempts : WF_vars(Pushes(AttemptStep(a)))
  /\ \A p \in Clients : WF_vars(Pushes(RetryDue(p)))

Spec == Init /\ [][Next]_vars /\ Fairness
=============================================================================
