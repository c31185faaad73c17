---------------------------- MODULE BalanceReset ----------------------------
(***************************************************************************)
(* The periodic reset of all balances: a scheduler and a queue of jobs in  *)
(* Redis (BullMQ), shared by all instances of the application, and the     *)
(* loop over batches of users that a job runs (BalanceResetService).  What *)
(* the UPDATE of a batch does to the rows is in module Balance.            *)
(***************************************************************************)
EXTENDS Integers, FiniteSets

CONSTANTS
    Instances,
    Ids,             \* users, present and future; ids grow with time
    InitialUsers,
    BatchSize,       \* BALANCE_RESET_BATCH_SIZE
    MaxWaiting,      \* bound: jobs that wait for a worker
    MaxFaults,       \* bound: failing queries and crashes
    None

ASSUME BalanceResetAssumption ==
    /\ Ids \subseteq Nat /\ IsFiniteSet(Ids) /\ InitialUsers \subseteq Ids
    /\ BatchSize \in Nat \ {0} /\ MaxWaiting \in Nat \ {0} /\ MaxFaults \in Nat
    /\ None \notin Ids

VARIABLES
    scheduler,       \* is balance-reset-scheduler in Redis
    delayed,         \* its next job, until its time has come
    waiting,         \* how many jobs a worker may take
    instance,        \* up, closing (its shutdown hooks have run), down
    users, gone,     \* ids of live users, of users deleted
    pc, batch, cursor, errors,   \* resetAllUsersBalances of each instance
    stayed, reset,   \* history: who is live all through the run, and who
                     \* has been reset in it
    faults

queue == <<scheduler, delayed, waiting>>
rows == <<users, gone>>
run == <<pc, batch, cursor, errors>>
vars == <<queue, instance, rows, run, stayed, reset, faults>>

TypeOK ==
    /\ scheduler \in BOOLEAN /\ delayed \in BOOLEAN
    /\ waiting \in 0 .. MaxWaiting + MaxFaults
    /\ instance \in [Instances -> {"up", "closing", "down"}]
    /\ users \subseteq Ids /\ gone \subseteq Ids /\ users \cap gone = {}
    /\ pc \in [Instances -> {"idle", "find", "update", "report"}]
    /\ batch \in [Instances -> SUBSET Ids]
    /\ \A w \in Instances : pc[w] = "update" => Cardinality(batch[w]) \in 1 .. BatchSize
    /\ cursor \in [Instances -> Ids \cup {None}]
    /\ errors \in [Instances -> Nat]
    /\ stayed \in [Instances -> SUBSET Ids] /\ reset \in [Instances -> SUBSET Ids]
    /\ faults \in 0 .. MaxFaults

Init ==
    /\ scheduler = FALSE /\ delayed = FALSE /\ waiting = 0
    /\ instance = [w \in Instances |-> "up"]
    /\ users = InitialUsers /\ gone = {}
    /\ pc = [w \in Instances |-> "idle"]
    /\ batch = [w \in Instances |-> {}]
    /\ cursor = [w \in Instances |-> None]
    /\ errors = [w \in Instances |-> 0]
    /\ stayed = [w \in Instances |-> {}] /\ reset = [w \in Instances |-> {}]
    /\ faults = 0

Fault == faults < MaxFaults /\ faults' = faults + 1

Step(w, from, to) == pc[w] = from /\ pc' = [pc EXCEPT ![w] = to]

-----------------------------------------------------------------------------
(* The endpoints and the shutdown hook; they work on Redis alone.          *)

(* upsertJobScheduler with immediately: a job now, in place of a delayed.  *)
StartBalanceResetJob ==
    /\ waiting < MaxWaiting
    /\ scheduler' = TRUE /\ delayed' = FALSE
    /\ waiting' = IF scheduler /\ ~delayed THEN waiting ELSE waiting + 1
    /\ UNCHANGED <<instance, rows, run, stayed, reset, faults>>

(* removeJobScheduler takes the delayed job with it, and no other.         *)
StopBalanceResetJob ==
    /\ scheduler' = FALSE /\ delayed' = FALSE
    /\ UNCHANGED <<waiting, instance, rows, run, stayed, reset, faults>>

(* onModuleDestroy: whoever started the scheduler, it is stopped.          *)
OnModuleDestroy(w) ==
    /\ instance[w] = "up"
    /\ instance' = [instance EXCEPT ![w] = "closing"]
    /\ scheduler' = FALSE /\ delayed' = FALSE
    /\ UNCHANGED <<waiting, rows, run, stayed, reset, faults>>

(* A worker closes when its job is done. *)
Exit(w) ==
    /\ instance[w] = "closing" /\ pc[w] = "idle"
    /\ instance' = [instance EXCEPT ![w] = "down"]
    /\ UNCHANGED <<queue, rows, run, stayed, reset, faults>>

Boot(w) ==
    /\ instance[w] = "down"
    /\ instance' = [instance EXCEPT ![w] = "up"]
    /\ UNCHANGED <<queue, rows, run, stayed, reset, faults>>

(* The process dies; its job is found stalled and waits again.             *)
Crash(w) ==
    /\ instance[w] # "down" /\ pc[w] \in {"find", "update"} /\ Fault
    /\ instance' = [instance EXCEPT ![w] = "down"]
    /\ waiting' = waiting + 1
    /\ pc' = [pc EXCEPT ![w] = "idle"]
    /\ batch' = [batch EXCEPT ![w] = {}] /\ cursor' = [cursor EXCEPT ![w] = None]
    /\ errors' = [errors EXCEPT ![w] = 0]
    /\ stayed' = [stayed EXCEPT ![w] = {}] /\ reset' = [reset EXCEPT ![w] = {}]
    /\ UNCHANGED <<scheduler, delayed, rows>>

-----------------------------------------------------------------------------
(* BullMQ. *)

(* BALANCE_RESET_JOB_CRON_PATTERN: the time of the next job has come.      *)
JobIsDue ==
    /\ delayed /\ waiting < MaxWaiting
    /\ delayed' = FALSE /\ waiting' = waiting + 1
    /\ UNCHANGED <<scheduler, instance, rows, run, stayed, reset, faults>>

(* A plausible bug: a job leaves no successor, as one that is added with a *)
(* delay and without a scheduler.                                          *)
BugOneShot == FALSE

(* A plausible bug: a job adds its successor, scheduler or not. *)
BugRepeats == TRUE

(* The worker that takes a job adds the next one of the scheduler. *)
AddsNext == scheduler

TakeJob(w) ==
    /\ instance[w] # "down" /\ waiting > 0
    /\ Step(w, "idle", "find")
    /\ waiting' = waiting - 1
    /\ delayed' = (delayed \/ AddsNext)
    /\ stayed' = [stayed EXCEPT ![w] = users]
    /\ UNCHANGED <<scheduler, instance, rows, batch, cursor, errors, reset, faults>>

-----------------------------------------------------------------------------
(* resetAllUsersBalances *)

(* A plausible bug: limit + 1, as for the pages of the lists. *)
BugOneMore ==
    {u \in users : Cardinality({v \in users : v < u}) <= BatchSize}

FirstBatch ==
    {u \in users : Cardinality({v \in users : v < u}) < BatchSize}

(* The query fails: it is counted, and the loop is over. *)
FetchFailed(w) ==
    /\ Step(w, "find", "report")
    /\ errors' = [errors EXCEPT ![w] = @ + 1]
    /\ UNCHANGED <<queue, instance, rows, batch, cursor, stayed, reset>>

(* A plausible bug: a failing query looks like the end of the users.       *)
BugQuietQuery(w) ==
    /\ cursor[w] # None
    /\ Step(w, "find", "report")
    /\ UNCHANGED <<queue, instance, rows, batch, cursor, errors, stayed, reset, faults>>

(* findUserIdsBatch names :afterCursor and is given a parameter cursor:    *)
(* with a cursor, PostgreSQL refuses the query.                            *)
FindNextBatch(w) == cursor[w] # None /\ FetchFailed(w) /\ UNCHANGED faults

FindFirstBatch(w) ==
    /\ cursor[w] = None
    /\ Step(w, "find", IF users = {} THEN "report" ELSE "update")
    /\ batch' = [batch EXCEPT ![w] = FirstBatch]
    /\ UNCHANGED <<queue, instance, rows, cursor, errors, stayed, reset, faults>>

(* The query without a cursor fails for a reason of its own.               *)
FindFails(w) == cursor[w] = None /\ Fault /\ FetchFailed(w)

(* The cursor moves on, whether the batch was reset or not.                *)
AfterBatch(w) ==
    /\ Step(w, "update", IF Cardinality(batch[w]) < BatchSize THEN "report" ELSE "find")
    /\ \E u \in batch[w] :
          /\ \A v \in batch[w] : v <= u
          /\ cursor' = [cursor EXCEPT ![w] = u]
    /\ batch' = [batch EXCEPT ![w] = {}]
    /\ UNCHANGED <<queue, instance, rows, stayed>>

(* resetBalancesByUserIds: those of the batch who are still live.          *)
ResetBatch(w) ==
    /\ AfterBatch(w)
    /\ reset' = [reset EXCEPT ![w] = @ \cup (batch[w] \cap users)]
    /\ UNCHANGED <<errors, faults>>

ResetFails(w) ==
    /\ Fault
    /\ AfterBatch(w)
    /\ errors' = [errors EXCEPT ![w] = @ + 1]
    /\ UNCHANGED reset

(* The run is logged, and the job is done even if there were errors.       *)
Report(w) ==
    /\ Step(w, "report", "idle")
    /\ batch' = [batch EXCEPT ![w] = {}] /\ cursor' = [cursor EXCEPT ![w] = None]
    /\ errors' = [errors EXCEPT ![w] = 0]
    /\ stayed' = [stayed EXCEPT ![w] = {}] /\ reset' = [reset EXCEPT ![w] = {}]
    /\ UNCHANGED <<queue, instance, rows, faults>>

-----------------------------------------------------------------------------
(* Users come and go meanwhile.  An id is larger than those before it.     *)
InsertUser(u) ==
    /\ \A v \in users \cup gone : v < u
    /\ users' = users \cup {u}
    /\ UNCHANGED <<queue, instance, gone, run, stayed, reset, faults>>

SoftDeleteUser(u) ==
    /\ u \in users
    /\ users' = users \ {u} /\ gone' = gone \cup {u}
    /\ stayed' = [w \in Instances |-> stayed[w] \ {u}]
    /\ UNCHANGED <<queue, instance, run, reset, faults>>

RunStep(w) ==
    \/ FindFirstBatch(w) \/ FindNextBatch(w) \/ FindFails(w)
    \/ ResetBatch(w) \/ ResetFails(w) \/ Report(w)

Next ==
    \/ StartBalanceResetJob \/ StopBalanceResetJob \/ JobIsDue
    \/ \E w \in Instances :
          \/ OnModuleDestroy(w) \/ Exit(w) \/ Boot(w) \/ Crash(w)
          \/ TakeJob(w) \/ RunStep(w)
    \/ \E u \in Ids : InsertUser(u) \/ SoftDeleteUser(u)

(* Time passes, workers poll, and a run goes on while its process lives.   *)
Fairness ==
    /\ WF_vars(JobIsDue)
    /\ \A w \in Instances : WF_vars(TakeJob(w)) /\ WF_vars(RunStep(w))

Spec == Init /\ [][Next]_vars /\ Fairness

-----------------------------------------------------------------------------
(* Properties. *)

(* A run that reports no error has reset every user who was there from its *)
(* start to its end, whoever registered or left meanwhile.                 *)
CleanRunResetsEveryone ==
    \A w \in Instances :
        pc[w] = "report" /\ errors[w] = 0 => stayed[w] \subseteq reset[w]

(* While the scheduler is there, it has a job that is to come: nothing     *)
(* that instances do, dying included, breaks the chain.                    *)
ChainHolds == scheduler => delayed \/ waiting > 0

(* And so resets go on and on, if only one instance stays. *)
ResetsGoOn ==
    \A w \in Instances :
        <>[](scheduler /\ instance[w] = "up") => []<>(\E v \in Instances : pc[v] = "report")

(* Once the reset is stopped for good, no run is left some time later.     *)
StopEndsRuns ==
    <>[]~scheduler => <>[](\A w \in Instances : pc[w] = "idle")

(* "resetAllUsersBalances": a run to which nothing happens resets all.     *)
EveryUserReset ==
    \A w \in Instances :
        pc[w] = "report" /\ faults = 0 => stayed[w] \subseteq reset[w]
=============================================================================
