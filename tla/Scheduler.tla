------------------------------- MODULE Scheduler -------------------------------
(***************************************************************************)
(* The scheduler service (internal/service/scheduler.go): delayed jobs     *)
(* are rows of a DynamoDB table and ids in per-minute Redis lists, and     *)
(* three cron functions move them to their SQS queue.                      *)
(*                                                                         *)
(*   main     at :00 transfers the bucket of the current minute to TEMP    *)
(*   late     at :10 transfers the bucket of the previous minute           *)
(*   cleanup  at :30 processes TEMP of the minute CleanupAge minutes ago   *)
(*                                                                         *)
(* Every firing is a goroutine of its own, so firings overlap.  A thread   *)
(* is named by its cron entry and the minute whose lists it works on.      *)
(***************************************************************************)
EXTENDS Naturals, Sequences, FiniteSets, Functions

CONSTANTS
  Jobs,          \* job ids: one per call of ScheduleJob
  LastMinute,    \* bound of the clock and of the minutes a bucket may have
  CleanupAge,    \* minutes before cleanup looks at a TEMP list (5 in the code)
  UnpackLimit,   \* results Lua's unpack can push on its stack (about 8000)
  Requests,      \* the execution times callers ask for
  CallSlack,     \* a call ends at most this many minutes after it began
  ThreadSlack,   \* a firing ends at most this many minutes after it began
  MayFail,       \* the kinds of fault that may strike
  MaxFaults,     \* how many faults strike at most
  NoJob

Minutes == 0 .. LastMinute
\* Where in its minute the clock stands: [:00,:10), [:10,:30), [:30,:60).
Phases == 0 .. 2
Times == [minute : Minutes, phase : Phases]

Faults == {"Create", "RPush", "LLen", "Transfer", "LRange", "GetByID",
           "Update", "Send", "LRem", "Crash", "Stop"}
FaultLogs == Seq(Faults)

ASSUME ConstantsAssumption ==
  /\ LastMinute \in Nat
  /\ CleanupAge \in Nat \ {0}
  /\ UnpackLimit \in Nat
  /\ Requests \subseteq Times
  /\ CallSlack \in Nat
  /\ ThreadSlack \in Nat
  /\ MayFail \subseteq Faults
  /\ MaxFaults \in Nat
  /\ NoJob \notin Jobs

Crons == {"main", "late", "cleanup"}
Threads == Crons \X Minutes

Statuses == {"none", "SCHEDULED", "RUNNING", "COMPLETED"}
CallStates == {"new", "Create", "RPush", "accepted", "failed"}
ThreadSteps == {"idle", "LLen", "Transfer", "LRange", "GetByID", "Drop",
                "SetRunning", "Send", "SetCompleted", "LRem"}

VARIABLES
  now,        \* the wall clock
  node,       \* the process: "up", "stopping" or "down"
  call,       \* where each call of ScheduleJob stands
  calledAt,   \* the minute ScheduleJob read at its start
  executeAt,  \* ExecuteAt of the job, adjusted by ScheduleJob
  row,        \* status of the job's row in the table
  bucket,     \* the Redis list schedule:<minute>:<node>
  temp,       \* the Redis list schedule:<minute>:<node>_TEMP
  pc,         \* the next step of each thread
  work,       \* ids a thread has still to process
  job,        \* the id a thread is processing
  sent,       \* messages in the destination queue, per job
  faults      \* the faults that struck, in their order

clients == <<call, calledAt, executeAt>>
lists == <<bucket, temp>>
threads == <<pc, work, job>>
vars == <<now, node, call, calledAt, executeAt, row, bucket, temp,
          pc, work, job, sent, faults>>

Init ==
  /\ now = [minute |-> 0, phase |-> 0]
  /\ node = "up"
  /\ call = [j \in Jobs |-> "new"]
  /\ calledAt = [j \in Jobs |-> 0]
  /\ executeAt = [j \in Jobs |-> now]
  /\ row = [j \in Jobs |-> "none"]
  /\ bucket = [m \in Minutes |-> {}]
  /\ temp = [m \in Minutes |-> {}]
  /\ pc = [t \in Threads |-> "idle"]
  /\ work = [t \in Threads |-> {}]
  /\ job = [t \in Threads |-> NoJob]
  /\ sent = [j \in Jobs |-> 0]
  /\ faults = <<>>

(***************************************************************************)
(* Every external call succeeds (Ok) or fails with an error (Fails).       *)
(***************************************************************************)
Ok == UNCHANGED faults
Fails(f) ==
  /\ f \in MayFail
  /\ Len(faults) < MaxFaults
  /\ faults' = Append(faults, f)

\* The kinds of fault that struck so far.
Struck == Range(faults)

\* s is not before t.
NotBefore(s, t) ==
  \/ s.minute > t.minute
  \/ s.minute = t.minute /\ s.phase >= t.phase

--------------------------------------------------------------------------------
(***************************************************************************)
(* ScheduleJob, called by the HTTP handler and by delay actions.           *)
(***************************************************************************)

\* A job for the current or a past minute moves to the next one.
Adjusted(t) ==
  IF t.minute <= now.minute THEN [minute |-> now.minute + 1, phase |-> 0] ELSE t

InProgress(j) == call[j] \in {"Create", "RPush"}

ScheduleJob(j) ==
  /\ node # "down"
  /\ call[j] = "new"
  /\ now.minute < LastMinute
  /\ \E t \in Requests : executeAt' = [executeAt EXCEPT ![j] = Adjusted(t)]
  /\ calledAt' = [calledAt EXCEPT ![j] = now.minute]
  /\ call' = [call EXCEPT ![j] = "Create"]
  /\ UNCHANGED <<now, node, row, lists, threads, sent, faults>>

\* jobRepo.Create: after an error the row may exist or not; the call ends.
CreateJob(j) ==
  /\ call[j] = "Create"
  /\ \/ /\ Ok
        /\ row' = [row EXCEPT ![j] = "SCHEDULED"]
        /\ call' = [call EXCEPT ![j] = "RPush"]
     \/ /\ Fails("Create")
        /\ row' \in {row, [row EXCEPT ![j] = "SCHEDULED"]}
        /\ call' = [call EXCEPT ![j] = "failed"]
  /\ UNCHANGED <<now, node, calledAt, executeAt, lists, threads, sent>>

BucketWith(j) == [bucket EXCEPT ![executeAt[j].minute] = @ \cup {j}]

\* cache.RPush: after an error the id may be in the list or not.
PushToBucket(j) ==
  /\ call[j] = "RPush"
  /\ \/ /\ Ok
        /\ bucket' = BucketWith(j)
        /\ call' = [call EXCEPT ![j] = "accepted"]
     \/ /\ Fails("RPush")
        /\ bucket' \in {bucket, BucketWith(j)}
        /\ call' = [call EXCEPT ![j] = "failed"]
  /\ UNCHANGED <<now, node, calledAt, executeAt, row, temp, threads, sent>>

CallStep(j) == CreateJob(j) \/ PushToBucket(j)

--------------------------------------------------------------------------------
(***************************************************************************)
(* The clock and cron.  A firing reads the clock as it starts.             *)
(***************************************************************************)
Succ(t) ==
  IF t.phase = 2 THEN [minute |-> t.minute + 1, phase |-> 0]
                 ELSE [t EXCEPT !.phase = @ + 1]

\* Seeded fault: cleanup looks at the minute that has just been transferred.
FiresCleanupEarly(t) ==
  CASE t.phase = 0 -> {<<"main", t.minute>>}
    [] t.phase = 1 -> {<<"late", m>> : m \in {n \in Minutes : n + 1 = t.minute}}
    [] t.phase = 2 -> {<<"cleanup", t.minute>>}

\* Seeded fault: the late check looks at the bucket main has just emptied.
FiresLateForSameMinute(t) ==
  CASE t.phase = 0 -> {<<"main", t.minute>>}
    [] t.phase = 1 -> {<<"late", t.minute>>}
    [] t.phase = 2 ->
         {<<"cleanup", m>> : m \in {n \in Minutes : n + CleanupAge = t.minute}}

\* Seeded fault: main takes the bucket of the coming minute.
FiresMainEarly(t) ==
  CASE t.phase = 0 -> {<<"main", m>> : m \in {n \in Minutes : n = t.minute + 1}}
    [] t.phase = 1 -> {<<"late", m>> : m \in {n \in Minutes : n + 1 = t.minute}}
    [] t.phase = 2 ->
         {<<"cleanup", m>> : m \in {n \in Minutes : n + CleanupAge = t.minute}}

\* Seeded fault: the cleanup entry is never added to cron.
FiresNoCleanup(t) ==
  CASE t.phase = 0 -> {<<"main", t.minute>>}
    [] t.phase = 1 -> {<<"late", m>> : m \in {n \in Minutes : n + 1 = t.minute}}
    [] t.phase = 2 -> {}

\* The thread cron starts at time t, if the minute it works on exists.
Fires(t) ==
  CASE t.phase = 0 -> {<<"main", t.minute>>}
    [] t.phase = 1 -> {<<"late", m>> : m \in {n \in Minutes : n + 1 = t.minute}}
    [] t.phase = 2 ->
         {<<"cleanup", m>> : m \in {n \in Minutes : n + CleanupAge = t.minute}}

\* The minute in which a thread is started.
FiredIn(t) ==
  CASE t[1] = "main" -> t[2]
    [] t[1] = "late" -> t[2] + 1
    [] t[1] = "cleanup" -> t[2] + CleanupAge

Running(t) == pc[t] # "idle"

\* The timing assumption: calls and firings end within their slack.
OnTime(t) ==
  /\ \A j \in Jobs : InProgress(j) => t.minute <= calledAt[j] + CallSlack
  /\ \A th \in Threads : Running(th) => t.minute <= FiredIn(th) + ThreadSlack

Tick ==
  /\ Succ(now) \in Times
  /\ OnTime(Succ(now))
  /\ now' = Succ(now)
  /\ pc' = [t \in Threads |->
              IF node = "up" /\ t \in Fires(now') THEN "LLen" ELSE pc[t]]
  /\ UNCHANGED <<node, clients, row, lists, work, job, sent, faults>>

--------------------------------------------------------------------------------
(***************************************************************************)
(* The steps of a thread.                                                  *)
(***************************************************************************)

\* The for loop over the ids: the next one, or the end of the firing.
NextJob(t) == IF work[t] = {} THEN "idle" ELSE "GetByID"
Goto(t, step) == pc' = [pc EXCEPT ![t] = step]

\* LLen: an error or an empty list ends the firing.
CheckLength(t) ==
  /\ pc[t] = "LLen"
  /\ LET list == IF t[1] = "cleanup" THEN temp[t[2]] ELSE bucket[t[2]]
     IN  \/ /\ Ok
            /\ list = {}
            /\ Goto(t, "idle")
         \/ /\ Ok
            /\ list # {}
            /\ Goto(t, IF t[1] = "cleanup" THEN "LRange" ELSE "Transfer")
         \/ /\ Fails("LLen")
            /\ Goto(t, "idle")
  /\ UNCHANGED <<now, node, clients, row, lists, work, job, sent>>

\* Seeded fault: the script forgets to delete the bucket.
TransferWithoutDelete(m) ==
  IF Cardinality(bucket[m]) <= UnpackLimit
  THEN /\ temp' = [temp EXCEPT ![m] = @ \cup bucket[m]]
       /\ UNCHANGED bucket
  ELSE UNCHANGED <<bucket, temp>>

\* Seeded fault: TEMP is overwritten instead of appended to.
TransferOverwrites(m) ==
  /\ bucket' = [bucket EXCEPT ![m] = {}]
  /\ temp' = [temp EXCEPT ![m] = bucket[m]]

\* luaAtomicTransfer.  DEL has taken effect when unpack fails, and Redis does
\* not roll a script back.
LuaAtomicTransfer(m) ==
  /\ bucket' = [bucket EXCEPT ![m] = {}]
  /\ temp' = IF Cardinality(bucket[m]) <= UnpackLimit
               THEN [temp EXCEPT ![m] = @ \cup bucket[m]] ELSE temp

\* Eval: an error, of the script or of the call, ends the firing.
TransferBucket(t) ==
  /\ pc[t] = "Transfer"
  /\ \/ /\ Ok
        /\ LuaAtomicTransfer(t[2])
        /\ IF bucket[t[2]] # {} /\ Cardinality(bucket[t[2]]) <= UnpackLimit
             THEN /\ work' = [work EXCEPT ![t] = bucket[t[2]]]
                  /\ Goto(t, "GetByID")
             ELSE /\ UNCHANGED work
                  /\ Goto(t, "idle")
     \/ /\ Fails("Transfer")
        /\ LuaAtomicTransfer(t[2]) \/ UNCHANGED lists
        /\ UNCHANGED work
        /\ Goto(t, "idle")
  /\ UNCHANGED <<now, node, clients, row, job, sent>>

\* LRange of the whole TEMP list, which stays where it is.
RangeTemp(t) ==
  /\ pc[t] = "LRange"
  /\ \/ /\ Ok
        /\ work' = [work EXCEPT ![t] = temp[t[2]]]
        /\ Goto(t, IF temp[t[2]] = {} THEN "idle" ELSE "GetByID")
     \/ /\ Fails("LRange")
        /\ UNCHANGED work
        /\ Goto(t, "idle")
  /\ UNCHANGED <<now, node, clients, row, lists, job, sent>>

(***************************************************************************)
(* processJob.  The status the row has is not looked at.                   *)
(***************************************************************************)
GetByID(t) ==
  /\ pc[t] = "GetByID"
  /\ \E j \in work[t] :
       /\ job' = [job EXCEPT ![t] = j]
       /\ work' = [work EXCEPT ![t] = @ \ {j}]
       /\ \/ /\ Ok
             /\ row[j] # "none"
             /\ Goto(t, "SetRunning")
          \/ /\ Ok
             /\ row[j] = "none"
             /\ Goto(t, "Drop")
          \/ /\ Fails("GetByID")
             /\ Goto(t, "Drop")
  /\ UNCHANGED <<now, node, clients, row, lists, sent>>

TempWithoutJob(t) == [temp EXCEPT ![t[2]] = @ \ {job[t]}]

\* LRem of a job that could not be read, whose error is not looked at.
DropJob(t) ==
  /\ pc[t] = "Drop"
  /\ \/ Ok /\ temp' = TempWithoutJob(t)
     \/ Fails("LRem") /\ temp' \in {temp, TempWithoutJob(t)}
  /\ job' = [job EXCEPT ![t] = NoJob]
  /\ Goto(t, NextJob(t))
  /\ UNCHANGED <<now, node, clients, row, bucket, work, sent>>

\* jobRepo.Update: an error is logged and the thread goes on.
SetRow(t, status) ==
  \/ Ok /\ row' = [row EXCEPT ![job[t]] = status]
  \/ Fails("Update") /\ row' \in {row, [row EXCEPT ![job[t]] = status]}

UpdateRunning(t) ==
  /\ pc[t] = "SetRunning"
  /\ SetRow(t, "RUNNING")
  /\ Goto(t, "Send")
  /\ UNCHANGED <<now, node, clients, lists, work, job, sent>>

\* Seeded fault: a failed send is logged and the job completed all the same.
SendIgnoringErrors(t) ==
  /\ pc[t] = "Send"
  /\ \/ Ok /\ sent' = [sent EXCEPT ![job[t]] = @ + 1]
     \/ Fails("Send") /\ sent' \in {sent, [sent EXCEPT ![job[t]] = @ + 1]}
  /\ Goto(t, "SetCompleted")
  /\ UNCHANGED <<now, node, clients, row, lists, work, job>>

\* sendToQueue: after an error the job stays in TEMP.
SendToQueue(t) ==
  /\ pc[t] = "Send"
  /\ \/ /\ Ok
        /\ sent' = [sent EXCEPT ![job[t]] = @ + 1]
        /\ Goto(t, "SetCompleted")
        /\ UNCHANGED job
     \/ /\ Fails("Send")
        /\ sent' \in {sent, [sent EXCEPT ![job[t]] = @ + 1]}
        /\ Goto(t, NextJob(t))
        /\ job' = [job EXCEPT ![t] = NoJob]
  /\ UNCHANGED <<now, node, clients, row, lists, work>>

\* Seeded fault: a job whose status cannot be saved is kept for cleanup.
CompleteOrKeep(t) ==
  /\ pc[t] = "SetCompleted"
  /\ UNCHANGED <<row, faults>>
  /\ Goto(t, NextJob(t))
  /\ job' = [job EXCEPT ![t] = NoJob]
  /\ UNCHANGED <<now, node, clients, lists, work, sent>>

UpdateCompleted(t) ==
  /\ pc[t] = "SetCompleted"
  /\ SetRow(t, "COMPLETED")
  /\ Goto(t, "LRem")
  /\ UNCHANGED <<now, node, clients, lists, work, job, sent>>

\* LRem: an error is logged and the job stays in TEMP.
RemoveFromTemp(t) ==
  /\ pc[t] = "LRem"
  /\ \/ Ok /\ temp' = TempWithoutJob(t)
     \/ Fails("LRem") /\ temp' \in {temp, TempWithoutJob(t)}
  /\ job' = [job EXCEPT ![t] = NoJob]
  /\ Goto(t, NextJob(t))
  /\ UNCHANGED <<now, node, clients, row, bucket, work, sent>>

ThreadStep(t) ==
  \/ CheckLength(t) \/ TransferBucket(t) \/ RangeTemp(t)
  \/ GetByID(t) \/ DropJob(t)
  \/ UpdateRunning(t) \/ SendToQueue(t) \/ UpdateCompleted(t) \/ RemoveFromTemp(t)

--------------------------------------------------------------------------------
(***************************************************************************)
(* The process.  Redis, DynamoDB and SQS outlive it.                       *)
(***************************************************************************)
Crash ==
  /\ node # "down"
  /\ Fails("Crash")
  /\ node' = "down"
  /\ call' = [j \in Jobs |-> IF InProgress(j) THEN "failed" ELSE call[j]]
  /\ pc' = [t \in Threads |-> "idle"]
  /\ work' = [t \in Threads |-> {}]
  /\ job' = [t \in Threads |-> NoJob]
  /\ UNCHANGED <<now, calledAt, executeAt, row, lists, sent>>

\* Start: cron entries, and nothing that looks at lists of the past.
Restart ==
  /\ node = "down"
  /\ node' = "up"
  /\ UNCHANGED <<now, clients, row, lists, threads, sent, faults>>

\* Stop: cron fires no more, the running functions are waited for.
Stop ==
  /\ node = "up"
  /\ Fails("Stop")
  /\ node' = "stopping"
  /\ UNCHANGED <<now, clients, row, lists, threads, sent>>

\* Seeded fault: Stop does not wait for the functions that are running.
ExitWithoutWaiting ==
  /\ node = "stopping"
  /\ \A j \in Jobs : ~InProgress(j)
  /\ node' = "down"
  /\ pc' = [t \in Threads |-> "idle"]
  /\ work' = [t \in Threads |-> {}]
  /\ job' = [t \in Threads |-> NoJob]
  /\ UNCHANGED <<now, clients, row, lists, sent, faults>>

\* The process ends after Stop returned and the HTTP server has shut down.
Exit ==
  /\ node = "stopping"
  /\ \A t \in Threads : ~Running(t)
  /\ \A j \in Jobs : ~InProgress(j)
  /\ node' = "down"
  /\ UNCHANGED <<now, clients, row, lists, threads, sent, faults>>

\* The end of the modelled time: nothing is left to do.
TimeIsUp ==
  /\ Succ(now) \notin Times
  /\ \A t \in Threads : ~Running(t)
  /\ UNCHANGED vars

Next ==
  \/ \E j \in Jobs : ScheduleJob(j) \/ CallStep(j)
  \/ Tick
  \/ \E t \in Threads : ThreadStep(t)
  \/ Crash \/ Restart \/ Stop \/ Exit
  \/ TimeIsUp

\* Goroutines are scheduled, time passes, and an operator restarts the process.
Fairness ==
  /\ \A j \in Jobs : WF_vars(CallStep(j))
  /\ \A t \in Threads : WF_vars(ThreadStep(t))
  /\ WF_vars(Tick)
  /\ WF_vars(Restart)
  /\ WF_vars(Exit)

Spec == Init /\ [][Next]_vars
FairSpec == Spec /\ Fairness

--------------------------------------------------------------------------------
(***************************************************************************)
(* Invariants.                                                             *)
(***************************************************************************)

TypeOK ==
  /\ now \in Times
  /\ node \in {"up", "stopping", "down"}
  /\ call \in [Jobs -> CallStates]
  /\ calledAt \in [Jobs -> Minutes]
  /\ executeAt \in [Jobs -> Times]
  /\ row \in [Jobs -> Statuses]
  /\ bucket \in [Minutes -> SUBSET Jobs]
  /\ temp \in [Minutes -> SUBSET Jobs]
  /\ pc \in [Threads -> ThreadSteps]
  /\ work \in [Threads -> SUBSET Jobs]
  /\ job \in [Threads -> Jobs \cup {NoJob}]
  /\ sent \in [Jobs -> Nat]
  /\ faults \in FaultLogs

InBucket(j) == \E m \in Minutes : j \in bucket[m]
InTemp(j) == \E m \in Minutes : j \in temp[m]

(***************************************************************************)
(* No job reaches its queue before the minute of its ExecuteAt, which is   *)
(* never the minute of the call or an earlier one: whatever the threads    *)
(* and calls in flight when the minute turns, ScheduleJob's adjustment and *)
(* the bucket keys keep a job out of a bucket that is being transferred.   *)
(***************************************************************************)
NeverBeforeItsMinute ==
  \A j \in Jobs : sent[j] > 0 =>
    /\ executeAt[j].minute <= now.minute
    /\ executeAt[j].minute > calledAt[j]

(***************************************************************************)
(* A job id is in the lists of its own minute only, and never in bucket    *)
(* and TEMP at once: the transfer moves ids, it does not copy them, so a   *)
(* late transfer cannot hand out a job a second time.                      *)
(***************************************************************************)
OneHome ==
  \A j \in Jobs, m \in Minutes :
    /\ j \in bucket[m] \cup temp[m] => executeAt[j].minute = m /\ row[j] # "none"
    /\ ~(j \in bucket[m] /\ j \in temp[m])

(***************************************************************************)
(* A job whose caller was told it is scheduled leaves the lists only after *)
(* a message for it is in the queue, unless a read of its row failed.      *)
(***************************************************************************)
NothingVanishes ==
  "GetByID" \notin Struck =>
    \A j \in Jobs :
      call[j] = "accepted" /\ ~InBucket(j) /\ ~InTemp(j) => sent[j] > 0

(***************************************************************************)
(* A row says COMPLETED only for a job whose message is in the queue, also *)
(* when two threads process the job at once and one of them fails.         *)
(***************************************************************************)
CompletedWasSent ==
  \A j \in Jobs : row[j] = "COMPLETED" => sent[j] > 0

(***************************************************************************)
(* Once the late check of a minute is over, its bucket is empty and stays  *)
(* so: calls that finish in time cannot strand a job in a bucket that no   *)
(* cron function will read again, unless such a function did not run or    *)
(* could not read it.                                                      *)
(***************************************************************************)
NoJobStranded ==
  Struck \cap {"LLen", "Transfer", "Crash", "Stop"} = {} =>
    \A m \in Minutes :
      /\ NotBefore(now, [minute |-> m + 1, phase |-> 1])
      /\ pc[<<"late", m>>] \notin {"LLen", "Transfer"}
      => bucket[m] = {}

(***************************************************************************)
(* When cleanup of a minute is over, no job of that minute is left in TEMP *)
(* unless a thread is still processing it: what main or late left behind   *)
(* after one failed call, of any kind, has been seen to.                   *)
(***************************************************************************)
TempSwept ==
  Len(faults) <= 1 /\ Struck \cap {"Crash", "Stop"} = {} =>
    \A m \in Minutes :
      /\ NotBefore(now, [minute |-> m + CleanupAge, phase |-> 2])
      /\ pc[<<"cleanup", m>>] = "idle"
      => \A j \in temp[m] : \E t \in Threads : j = job[t] \/ j \in work[t]

(***************************************************************************)
(* A job is sent once while firings end before cleanup looks at their      *)
(* minute, however main, late and cleanup overlap and whatever fails but   *)
(* the sends, the removals from TEMP and the process.                      *)
(***************************************************************************)
SentAtMostOnce ==
  Struck \cap {"Send", "LRem", "Crash"} = {} => \A j \in Jobs : sent[j] <= 1

(***************************************************************************)
(* After a graceful Stop no job is half processed: nothing is in TEMP, and *)
(* every job taken from its bucket has been sent.                          *)
(***************************************************************************)
StopLeavesNothingBehind ==
  node = "down" /\ Struck \cap {"Transfer", "Send", "LRem", "Crash"} = {} =>
    \A m \in Minutes : temp[m] = {}

--------------------------------------------------------------------------------
(***************************************************************************)
(* Temporal properties.  The clock of a model ends, so they speak of jobs  *)
(* whose cleanup lies within the modelled time.                            *)
(***************************************************************************)
InHorizon(j) == executeAt[j].minute + CleanupAge <= LastMinute

(***************************************************************************)
(* An accepted job eventually is COMPLETED and out of the lists for good,  *)
(* unless the row could not be updated.                                    *)
(***************************************************************************)
Settled(j) == row[j] = "COMPLETED" /\ ~InBucket(j) /\ ~InTemp(j)
EventuallySettled ==
  \A j \in Jobs :
    call[j] = "accepted" /\ InHorizon(j) ~> []Settled(j) \/ "Update" \in Struck

(***************************************************************************)
(* COMPLETED is final, unless a job that was sent stayed in TEMP: cleanup  *)
(* then makes it RUNNING again.                                            *)
(***************************************************************************)
CompletedIsFinal ==
  [][Struck' \cap {"LRem", "Crash"} = {} =>
       \A j \in Jobs : row[j] = "COMPLETED" => row'[j] = "COMPLETED"]_vars

--------------------------------------------------------------------------------
(***************************************************************************)
(* The scheduler implements the promise of DelayedDelivery.                *)
(***************************************************************************)
AnswerOf(j) ==
  CASE call[j] = "new" -> "none"
    [] InProgress(j) -> "pending"
    [] OTHER -> call[j]

Promise == INSTANCE DelayedDelivery WITH
  Grace <- CleanupAge,
  minute <- now.minute,
  answer <- [j \in Jobs |-> AnswerOf(j)],
  due <- [j \in Jobs |-> executeAt[j].minute],
  delivered <- sent

(***************************************************************************)
(* Whatever fails, crashes or overlaps, callers see the abstract promise:  *)
(* only requested jobs are delivered, and none before the minute it is due.*)
(***************************************************************************)
KeepsPromise == Promise!Spec

(***************************************************************************)
(* While a firing can make up for every fault, accepted jobs are delivered *)
(* too.                                                                    *)
(***************************************************************************)
KeepsLivePromise == Promise!LiveSpec

================================================================================
