---------------------------- MODULE JobScheduling ----------------------------
(***************************************************************************)
(* Cron and Job of packages/job-scheduling.  createCron(), updateCron()    *)
(* and submitJob() write the source of a job into the object of their      *)
(* caller, and the request holds that object until send() has its token    *)
(* and makes JSON of it.  The server is external.                          *)
(***************************************************************************)
CONSTANTS
  JobCalls,  (* calls under way at a time               *)
  JobMetas   (* the job_meta objects of the application *)

VARIABLES
  source,    (* source_type of each object                                      *)
  jobCall,   (* each call: its operation and object, until its request leaves   *)
  cron,      (* the cron of the project on the server: "none", "on" or "off"    *)
  pool       (* the sources of the jobs that the server has                     *)

jobVars == <<source, jobCall, cron, pool>>

NoJobCall == [operation |-> "none", meta |-> "none"]
Sources == {"none", "API", "Cron"}

JobInit ==
  /\ source \in [JobMetas -> Sources]
  /\ jobCall = [c \in JobCalls |-> NoJobCall]
  /\ cron \in {"none", "on", "off"}
  /\ pool = {}

JobRests == JobInit /\ cron = "none" /\ \A m \in JobMetas : source[m] = "none"

-----------------------------------------------------------------------------
Calls(c, operation, meta) ==
  /\ jobCall[c] = NoJobCall
  /\ jobCall' = [jobCall EXCEPT ![c] = [operation |-> operation, meta |-> meta]]
  /\ UNCHANGED <<cron, pool>>

(* Mutant: the source of a cron replaces any other. *)
CronSourceAlways(s) == "Cron"

(* What createCron() and updateCron() make of a source. *)
CronSource(s) == IF s = "none" THEN "Cron" ELSE s

CreateCron(c, m) ==
  Calls(c, "createCron", m) /\ source' = [source EXCEPT ![m] = CronSource(@)]

UpdateCron(c, m) ==
  Calls(c, "updateCron", m) /\ source' = [source EXCEPT ![m] = CronSource(@)]

(* submitJob() *)
SubmitJob(c, m) == Calls(c, "submitJob", m) /\ source' = [source EXCEPT ![m] = "API"]

(* A call by the id of a cron or a job. *)
Command(c, operation) == Calls(c, operation, "none") /\ UNCHANGED source

SwitchCron(c) == \E operation \in {"pauseCron", "resumeCron"} : Command(c, operation)

DeleteCron(c) == Command(c, "deleteCron")

RunCron(c) == Command(c, "runCron")

DeleteJob(c) == Command(c, "deleteJob")

(* The request leaves and does on the server what it is for. *)
Leaves(c) ==
  /\ jobCall[c] # NoJobCall
  /\ jobCall' = [jobCall EXCEPT ![c] = NoJobCall]
  /\ cron' = CASE jobCall[c].operation = "createCron" -> "on"
               [] jobCall[c].operation = "resumeCron" /\ cron # "none" -> "on"
               [] jobCall[c].operation = "pauseCron" /\ cron # "none" -> "off"
               [] jobCall[c].operation = "deleteCron" -> "none"
               [] OTHER -> cron
  /\ CASE jobCall[c].operation = "submitJob" -> pool' = pool \cup {source[jobCall[c].meta]}
       [] jobCall[c].operation = "runCron" /\ cron # "none" -> pool' = pool \cup {"Cron"}
       [] jobCall[c].operation = "deleteJob" -> pool' \in {pool} \cup {pool \ {s} : s \in pool}
       [] OTHER -> UNCHANGED pool
  /\ UNCHANGED source

JobNext ==
  \E c \in JobCalls :
    \/ \E m \in JobMetas : CreateCron(c, m) \/ UpdateCron(c, m) \/ SubmitJob(c, m)
    \/ SwitchCron(c) \/ DeleteCron(c) \/ RunCron(c) \/ DeleteJob(c)
    \/ Leaves(c)

JobSpec == JobInit /\ [][JobNext]_jobVars

-----------------------------------------------------------------------------
(* A submitted job leaves as one of the API, also when a cron is made of the same object
   while send() waits for a token: the server's jobs are the API's, or its cron's. *)
JobIsApi ==
  /\ \A c \in JobCalls : jobCall[c].operation = "submitJob" => source[jobCall[c].meta] = "API"
  /\ pool \subseteq {"API", "Cron"}

(* A cron is sent with the source of a cron.  The code violates it when its job_meta was
   submitted as a job before, or is while the request waits. *)
CronIsCron ==
  \A c \in JobCalls : jobCall[c].operation = "createCron" => source[jobCall[c].meta] = "Cron"
=============================================================================
