--------------------------- MODULE WorkflowExecutor ---------------------------
(***************************************************************************)
(* The workflow executor (internal/service/workflow_executor.go) behind    *)
(* its SQS consumer (internal/queue/sqs, internal/consumer).               *)
(*                                                                         *)
(* A worker receives a message, executes it with one call to DynamoDB, the *)
(* scheduler or Slack after the other, and deletes it when that went well. *)
(* A message it does not delete becomes visible again, for any worker, and *)
(* after MaxReceives deliveries it goes to the dead-letter queue.          *)
(*                                                                         *)
(* A message that starts a workflow makes a new run at every delivery.  A  *)
(* delay action ends the delivery; the scheduler sends a message that      *)
(* resumes the run.  Rows are written under an optimistic lock on the      *)
(* millisecond of their last update.                                       *)
(*                                                                         *)
(* All signals start the same workflow.  ACTION_0 of the code is action 1. *)
(***************************************************************************)
EXTENDS Naturals, Sequences, FiniteSets, Functions

CONSTANTS
  Signals,        \* one per message that starts the workflow
  Workers,        \* one per process: the consumer runs a single worker
  Actions,        \* the workflow's actions: "regular", "delay" or "short"
  NumConditions,  \* how many conditions it has
  MaxReceives,    \* maxReceiveCount of the queue (3)
  MaxCopies,      \* how often the scheduler sends one resume message at most
  Gaps,           \* milliseconds between two updates of a run: 0, 1 or both
  MayFail,        \* the kinds of fault that may strike
  MaxFaults,      \* how many faults strike at most
  NoRun, NoMessage

Indices == 1 .. Len(Actions)
Delays == {i \in Indices : Actions[i] = "delay"}

Faults == {"Receive", "Fetch", "Create", "GetRun", "Evaluate", "Update",
           "IgnoredUpdate", "UpdateReply", "LogStarted", "LogScheduled",
           "Action", "Schedule", "Delete", "Crash", "Timeout", "EarlyFire",
           "Duplicate"}
FaultLogs == Seq(Faults)

ASSUME ConstantsAssumption ==
  /\ Actions \in Seq({"regular", "delay", "short"})
  /\ NumConditions \in Nat
  /\ MaxReceives \in Nat \ {0}
  /\ MaxCopies \in Nat \ {0}
  /\ Gaps \subseteq Nat
  /\ MayFail \subseteq Faults
  /\ MaxFaults \in Nat
  /\ NoRun \notin Signals \X (1 .. MaxReceives)

\* <<s, n>> is the run made by the n-th delivery of the message of signal s.
Runs == Signals \X (1 .. MaxReceives)

Start(s) == [signal |-> s, run |-> NoRun, resumeFrom |-> 0, copy |-> 1]
Resume(r, i, k) == [signal |-> r[1], run |-> r, resumeFrom |-> i, copy |-> k]

StartMessages == {Start(s) : s \in Signals}
ResumeMessages == {Resume(r, i, k) : r \in Runs, i \in Delays, k \in 1 .. MaxCopies}
Messages == StartMessages \cup ResumeMessages

QueueStates == {"absent", "visible", "inflight", "deleted", "dead"}

FinalStatuses == {"COMPLETED", "FAILED"}
Statuses == {"TRIGGERED"} \cup FinalStatuses
\* CurrentState: a status, or what the run does at which index.
States == {<<s, 0>> : s \in Statuses}
            \cup ({"CONDITION"} \X (1 .. NumConditions))
            \cup ({"STARTED", "SCHEDULED", "COMPLETED"} \X Indices)
Rows == [status : Statuses, state : States, updatedAt : Nat]
NoRow == [status |-> "none", state |-> <<"none", 0>>, updatedAt |-> 0]

Steps == {"idle", "Failed", "Fetch", "CreateRun", "SetCondition", "Evaluate", "StopCompleted",
          "StopFailed", "GetRun", "SetResumed", "SetStarted", "LogStarted",
          "Execute", "SetCompleted", "SetScheduled", "LogScheduled",
          "MarkFailed", "MarkCompleted", "Delete"}

VARIABLES
  queue,      \* where each message is
  receives,   \* how often it was received
  fired,      \* how many resume messages the scheduler sent, per run and delay
  row,        \* the rows of workflow_runs
  clock,      \* the millisecond of the last update of a run, applied or not
  performed,  \* how often each action of each run took effect
  pc,         \* the next step of each worker
  msg,        \* the message it processes
  run,        \* the run it executes
  mine,       \* its copy of that run's row
  idx,        \* the condition or action it is at
  faults      \* the faults that struck, in their order

sqs == <<queue, receives, fired>>
table == <<row, clock>>
delivery == <<msg, run>>
vars == <<queue, receives, fired, row, clock, performed,
          pc, msg, run, mine, idx, faults>>

Init ==
  /\ queue = [m \in Messages |-> IF m \in StartMessages THEN "visible" ELSE "absent"]
  /\ receives = [m \in Messages |-> 0]
  /\ fired = [r \in Runs |-> [i \in Indices |-> 0]]
  /\ row = [r \in Runs |-> NoRow]
  /\ clock = [r \in Runs |-> 0]
  /\ performed = [r \in Runs |-> [i \in Indices |-> 0]]
  /\ pc = [w \in Workers |-> "idle"]
  /\ msg = [w \in Workers |-> NoMessage]
  /\ run = [w \in Workers |-> NoRun]
  /\ mine = [w \in Workers |-> NoRow]
  /\ idx = [w \in Workers |-> 0]
  /\ faults = <<>>

\* Every external call succeeds (Ok) or fails with an error (Fails).
Ok == UNCHANGED faults
Fails(f) ==
  /\ f \in MayFail
  /\ Len(faults) < MaxFaults
  /\ faults' = Append(faults, f)

\* The kinds of fault that struck so far.
Struck == Range(faults)

Goto(w, step) == pc' = [pc EXCEPT ![w] = step]

\* The worker forgets the message and turns to the next one.
Release(w) ==
  /\ Goto(w, "idle")
  /\ msg' = [msg EXCEPT ![w] = NoMessage]
  /\ run' = [run EXCEPT ![w] = NoRun]
  /\ mine' = [mine EXCEPT ![w] = NoRow]
  /\ idx' = [idx EXCEPT ![w] = 0]

--------------------------------------------------------------------------------
(***************************************************************************)
(* The queue.                                                              *)
(***************************************************************************)

\* The run a delivery works on: for a start message a new one.
RunOf(m) == IF m \in StartMessages THEN <<m.signal, receives[m] + 1>> ELSE m.run

\* ReceiveMessage; when its answer is lost or arrives after the stop signal,
\* the message is received but nobody processes it.
Receive(w, m) ==
  /\ pc[w] = "idle"
  /\ queue[m] = "visible"
  /\ receives[m] < MaxReceives
  /\ queue' = [queue EXCEPT ![m] = "inflight"]
  /\ receives' = [receives EXCEPT ![m] = @ + 1]
  /\ \/ /\ Ok
        /\ Goto(w, "Fetch")
        /\ msg' = [msg EXCEPT ![w] = m]
        /\ run' = [run EXCEPT ![w] = RunOf(m)]
     \/ /\ Fails("Receive")
        /\ UNCHANGED <<pc, delivery>>
  /\ UNCHANGED <<fired, table, performed, mine, idx>>

\* The visibility timeout ends; it is a fault that a worker still has the
\* message.
BecomeVisible(m) ==
  /\ queue[m] = "inflight"
  /\ IF \A w \in Workers : msg[w] # m THEN Ok ELSE Fails("Timeout")
  /\ queue' = [queue EXCEPT ![m] = "visible"]
  /\ UNCHANGED <<receives, fired, table, performed, pc, delivery, mine, idx>>

\* The redrive policy.
MoveToDeadLetters(m) ==
  /\ queue[m] = "visible"
  /\ receives[m] = MaxReceives
  /\ queue' = [queue EXCEPT ![m] = "dead"]
  /\ UNCHANGED <<receives, fired, table, performed, pc, delivery, mine, idx, faults>>

\* The worker that scheduled the job has not paused the run yet.
StillPausing(r, i) == \E w \in Workers : run[w] = r /\ idx[w] = i

\* The scheduler sends a resume message for an accepted job.  A job fires at
\* the start of its minute, so a delay of a minute may end a moment after it
\* began ("EarlyFire"); after a fault of its own the scheduler sends twice.
FireJob(r, i) ==
  /\ i \in Delays
  /\ fired[r][i] < MaxCopies
  /\ IF fired[r][i] < performed[r][i]
     THEN IF StillPausing(r, i) THEN Fails("EarlyFire") ELSE Ok
     ELSE Fails("Duplicate") /\ fired[r][i] >= 1
  /\ fired' = [fired EXCEPT ![r][i] = @ + 1]
  /\ queue' = [queue EXCEPT ![Resume(r, i, fired[r][i] + 1)] = "visible"]
  /\ UNCHANGED <<receives, table, performed, pc, delivery, mine, idx>>

Crash(w) ==
  /\ pc[w] # "idle"
  /\ Fails("Crash")
  /\ Release(w)
  /\ UNCHANGED <<sqs, table, performed>>

\* Seeded fault: the message is never deleted.
NeverDelete(w) ==
  /\ pc[w] = "Delete"
  /\ Ok
  /\ Release(w)
  /\ UNCHANGED <<sqs, table, performed>>

\* DeleteMessage, after the executor returned no error.
Delete(w) ==
  /\ pc[w] = "Delete"
  /\ \/ Ok /\ queue' = [queue EXCEPT ![msg[w]] = IF @ = "dead" THEN @ ELSE "deleted"]
     \/ Fails("Delete") /\ UNCHANGED queue
  /\ Release(w)
  /\ UNCHANGED <<receives, fired, table, performed>>

--------------------------------------------------------------------------------
(***************************************************************************)
(* Writes of a run's row.                                                  *)
(***************************************************************************)

\* The worker's copy of the row with a new status and state, stamped now.
Stamped(w, status, state) ==
  {[status |-> status, state |-> state, updatedAt |-> clock[run[w]] + d] : d \in Gaps}

\* The setters change the worker's copy, whatever becomes of the write.
Take(w, new) ==
  /\ mine' = [mine EXCEPT ![w] = new]
  /\ clock' = [clock EXCEPT ![run[w]] = new.updatedAt]

\* Seeded fault: rows are written without a condition.
NoLock(w) == TRUE

\* The condition of the PutItem.
LockHolds(w) == row[run[w]] = NoRow \/ row[run[w]].updatedAt = mine[w].updatedAt

Stored(w, new) ==
  /\ LockHolds(w)
  /\ Ok
  /\ row' = [row EXCEPT ![run[w]] = new]
  /\ Take(w, new)

\* An error: the lock is lost, nothing was written, or only the answer is lost.
NotStored(w, new, kind) ==
  /\ \/ ~LockHolds(w) /\ Ok /\ UNCHANGED row
     \/ Fails(kind) /\ UNCHANGED row
     \/ LockHolds(w) /\ Fails("UpdateReply") /\ row' = [row EXCEPT ![run[w]] = new]
  /\ Take(w, new)

\* An update whose error ends the execution.
Update(w, status, state, next, onError) ==
  /\ \E new \in Stamped(w, status, state) :
        \/ Stored(w, new) /\ Goto(w, next)
        \/ NotStored(w, new, "Update") /\ Goto(w, onError)
  /\ UNCHANGED <<sqs, performed, delivery, idx>>

\* An update whose error is only logged.
TryUpdate(w, status, state) ==
  \E new \in Stamped(w, status, state) :
     Stored(w, new) \/ NotStored(w, new, "IgnoredUpdate")

--------------------------------------------------------------------------------
(***************************************************************************)
(* Execute, a new run and its conditions.  An execution that returns an    *)
(* error goes to "Failed", where the worker lets go of the message.        *)
(***************************************************************************)

\* GetByID of the signal, GetWorkflow, and the choice of new or resumed run.
Fetch(w) ==
  /\ pc[w] = "Fetch"
  /\ \/ /\ Ok
        /\ Goto(w, IF msg[w] \in StartMessages THEN "CreateRun" ELSE "GetRun")
     \/ Fails("Fetch") /\ Goto(w, "Failed")
  /\ UNCHANGED <<sqs, table, performed, delivery, mine, idx>>

\* Seeded fault: the message is deleted although its execution failed.
DeleteFailed(w) ==
  /\ pc[w] = "Failed"
  /\ Goto(w, "Delete")
  /\ UNCHANGED <<sqs, table, performed, delivery, mine, idx, faults>>

\* ProcessMessage returns false: the message stays in flight.
Failed(w) ==
  /\ pc[w] = "Failed"
  /\ Release(w)
  /\ UNCHANGED <<sqs, table, performed, faults>>

\* Where executeActions continues at index i.
StepAt(i) == IF i \in Indices THEN "SetStarted" ELSE "MarkCompleted"

StartWith(w) ==
  IF NumConditions > 0 THEN Goto(w, "SetCondition") ELSE Goto(w, StepAt(1))

\* NewWorkflowRun and runRepo.Create, which is not conditional.
CreateRun(w) ==
  /\ pc[w] = "CreateRun"
  /\ LET new == [status |-> "TRIGGERED", state |-> <<"TRIGGERED", 0>>, updatedAt |-> 1]
         created == [row EXCEPT ![run[w]] = new]
     IN /\ Take(w, new)
        /\ \/ Ok /\ row' = created /\ StartWith(w)
           \/ Fails("Create") /\ row' \in {row, created} /\ Goto(w, "Failed")
  /\ idx' = [idx EXCEPT ![w] = 1]
  /\ UNCHANGED <<sqs, performed, delivery>>

\* evaluateConditions: the status of condition idx, its evaluation, and the
\* end of a run whose condition is not met or cannot be evaluated.  Errors of
\* these updates are ignored, and the execution succeeds.
SetCondition(w) ==
  /\ pc[w] = "SetCondition"
  /\ TryUpdate(w, mine[w].status, <<"CONDITION", idx[w]>>)
  /\ Goto(w, "Evaluate")
  /\ UNCHANGED <<sqs, performed, delivery, idx>>

\* Seeded fault: a condition is evaluated again and again.
EvaluateAgain(w) ==
  /\ pc[w] = "Evaluate"
  /\ Goto(w, "Evaluate")
  /\ UNCHANGED <<sqs, table, performed, delivery, mine, idx, faults>>

\* Seeded fault: the workflow stops and its run is left as it is.
StopUnmarked(w) ==
  /\ pc[w] = "Evaluate"
  /\ Goto(w, "Delete")
  /\ UNCHANGED <<sqs, table, performed, delivery, mine, idx, faults>>

Evaluate(w) ==
  /\ pc[w] = "Evaluate"
  /\ \/ /\ Ok
        /\ idx[w] < NumConditions
        /\ Goto(w, "SetCondition")
        /\ idx' = [idx EXCEPT ![w] = @ + 1]
     \/ /\ Ok
        /\ idx[w] = NumConditions
        /\ Goto(w, StepAt(1))
        /\ idx' = [idx EXCEPT ![w] = 1]
     \/ Ok /\ Goto(w, "StopCompleted") /\ UNCHANGED idx
     \/ Fails("Evaluate") /\ Goto(w, "StopFailed") /\ UNCHANGED idx
  /\ UNCHANGED <<sqs, table, performed, delivery, mine>>

StopRun(w) ==
  /\ \/ pc[w] = "StopCompleted" /\ TryUpdate(w, "COMPLETED", <<"COMPLETED", 0>>)
     \/ pc[w] = "StopFailed" /\ TryUpdate(w, "FAILED", <<"FAILED", 0>>)
  /\ Goto(w, "Delete")
  /\ UNCHANGED <<sqs, performed, delivery, idx>>

--------------------------------------------------------------------------------
(***************************************************************************)
(* resumeWorkflow: the delay action is marked completed, whatever the      *)
(* status of the run, and the run goes on with the action after it.        *)
(***************************************************************************)

GetRun(w) ==
  /\ pc[w] = "GetRun"
  /\ \/ /\ Ok
        /\ row[run[w]] # NoRow
        /\ Goto(w, "SetResumed")
        /\ mine' = [mine EXCEPT ![w] = row[run[w]]]
     \/ /\ Fails("GetRun")
        /\ Goto(w, "Failed")
        /\ UNCHANGED mine
  /\ UNCHANGED <<sqs, table, performed, delivery, idx>>

ResumeAt(w) == msg[w].resumeFrom + 1

SetResumed(w) ==
  /\ pc[w] = "SetResumed"
  /\ \E new \in Stamped(w, mine[w].status, <<"COMPLETED", msg[w].resumeFrom>>) :
        \/ Stored(w, new) /\ Goto(w, StepAt(ResumeAt(w)))
        \/ NotStored(w, new, "Update") /\ Goto(w, "Failed")
  /\ idx' = [idx EXCEPT ![w] = ResumeAt(w)]
  /\ UNCHANGED <<sqs, performed, delivery>>

--------------------------------------------------------------------------------
(***************************************************************************)
(* executeActions.  The writes of action logs matter only where their      *)
(* error ends the execution.                                               *)
(***************************************************************************)

SetStarted(w) ==
  /\ pc[w] = "SetStarted"
  /\ Update(w, mine[w].status, <<"STARTED", idx[w]>>, "LogStarted", "MarkFailed")

LogStarted(w) ==
  /\ pc[w] = "LogStarted"
  /\ \/ Ok /\ Goto(w, "Execute")
     \/ Fails("LogStarted") /\ Goto(w, "MarkFailed")
  /\ UNCHANGED <<sqs, table, performed, delivery, mine, idx>>

Perform(w) == performed' = [performed EXCEPT ![run[w]][idx[w]] = @ + 1]

\* Seeded fault: the workflow goes on after an action that failed.
SkipFailedAction(w) ==
  /\ Actions[idx[w]] = "regular"
  /\ \/ Ok /\ Perform(w)
     \/ Fails("Action") /\ UNCHANGED performed
  /\ Goto(w, "SetCompleted")

\* A regular action; a failed one took effect or not.
ExecuteRegular(w) ==
  /\ Actions[idx[w]] = "regular"
  /\ \/ Ok /\ Perform(w) /\ Goto(w, "SetCompleted")
     \/ /\ Fails("Action")
        /\ Perform(w) \/ UNCHANGED performed
        /\ Goto(w, "MarkFailed")

\* executeDelay: a job of the scheduler, or a sleep of less than a minute.
ExecuteDelay(w) ==
  \/ /\ Actions[idx[w]] \in {"delay", "short"}
     /\ Ok
     /\ Perform(w)
     /\ Goto(w, "SetScheduled")
  \/ /\ Actions[idx[w]] = "delay"
     /\ Fails("Schedule")
     /\ Perform(w) \/ UNCHANGED performed
     /\ Goto(w, "MarkFailed")

Execute(w) ==
  /\ pc[w] = "Execute"
  /\ ExecuteRegular(w) \/ ExecuteDelay(w)
  /\ UNCHANGED <<sqs, table, delivery, mine, idx>>

SetScheduled(w) ==
  /\ pc[w] = "SetScheduled"
  /\ Update(w, mine[w].status, <<"SCHEDULED", idx[w]>>, "LogScheduled", "MarkFailed")

\* Seeded fault: a delay does not pause the workflow.
DoNotPause(w) ==
  /\ pc[w] = "LogScheduled"
  /\ Ok
  /\ Goto(w, StepAt(idx[w] + 1))
  /\ idx' = [idx EXCEPT ![w] = @ + 1]
  /\ UNCHANGED <<sqs, table, performed, delivery, mine>>

\* The end of a delay action: the execution succeeds and the run is paused.
LogScheduled(w) ==
  /\ pc[w] = "LogScheduled"
  /\ \/ Ok /\ Goto(w, "Delete")
     \/ Fails("LogScheduled") /\ Goto(w, "MarkFailed")
  /\ UNCHANGED <<sqs, table, performed, delivery, mine, idx>>

\* Seeded fault: every action pauses the workflow.
PauseAlways(w) ==
  /\ pc[w] = "SetCompleted"
  /\ TryUpdate(w, mine[w].status, <<"COMPLETED", idx[w]>>)
  /\ Goto(w, "Delete")
  /\ UNCHANGED <<sqs, performed, delivery, idx>>

\* The end of a regular action: on to the next, written or not.
SetCompleted(w) ==
  /\ pc[w] = "SetCompleted"
  /\ TryUpdate(w, mine[w].status, <<"COMPLETED", idx[w]>>)
  /\ Goto(w, StepAt(idx[w] + 1))
  /\ idx' = [idx EXCEPT ![w] = @ + 1]
  /\ UNCHANGED <<sqs, performed, delivery>>

\* Seeded fault: a failed action leaves the run as it is.
DoNotMarkFailed(w) ==
  /\ pc[w] = "MarkFailed"
  /\ Goto(w, "Failed")
  /\ UNCHANGED <<sqs, table, performed, delivery, mine, idx, faults>>

\* handleActionFailure
MarkFailed(w) ==
  /\ pc[w] = "MarkFailed"
  /\ TryUpdate(w, "FAILED", <<"FAILED", 0>>)
  /\ Goto(w, "Failed")
  /\ UNCHANGED <<sqs, performed, delivery, idx>>

\* completeWorkflow
MarkCompleted(w) ==
  /\ pc[w] = "MarkCompleted"
  /\ Update(w, "COMPLETED", <<"COMPLETED", 0>>, "Delete", "Failed")

Step(w) ==
  \/ Fetch(w) \/ CreateRun(w) \/ SetCondition(w) \/ Evaluate(w) \/ StopRun(w)
  \/ GetRun(w) \/ SetResumed(w)
  \/ SetStarted(w) \/ LogStarted(w) \/ Execute(w)
  \/ SetScheduled(w) \/ LogScheduled(w) \/ SetCompleted(w)
  \/ MarkFailed(w) \/ MarkCompleted(w)
  \/ Failed(w) \/ Delete(w)

Next ==
  \/ \E w \in Workers : Step(w) \/ Crash(w) \/ \E m \in Messages : Receive(w, m)
  \/ \E m \in Messages : BecomeVisible(m) \/ MoveToDeadLetters(m)
  \/ \E r \in Runs, i \in Delays : FireJob(r, i)

Spec == Init /\ [][Next]_vars

\* Workers go on, poll the queue for every message, visibility timeouts end
\* and the scheduler sends what it accepted.
Fairness ==
  /\ \A w \in Workers : WF_vars(Step(w))
  /\ \A m \in Messages :
       /\ WF_vars(\E w \in Workers : Receive(w, m))
       /\ WF_vars(Ok /\ BecomeVisible(m))
       /\ WF_vars(MoveToDeadLetters(m))
  /\ \A r \in Runs, i \in Delays : WF_vars(Ok /\ FireJob(r, i))

FairSpec == Spec /\ Fairness

--------------------------------------------------------------------------------
(***************************************************************************)
(* What the executor promises.                                             *)
(***************************************************************************)

\* Every variable has its type; a worker that writes has a run and its row, a
\* worker at an action has the index of one.
TypeOK ==
  /\ queue \in [Messages -> QueueStates]
  /\ receives \in [Messages -> 0 .. MaxReceives]
  /\ fired \in [Runs -> [Indices -> 0 .. MaxCopies]]
  /\ row \in [Runs -> Rows \cup {NoRow}]
  /\ clock \in [Runs -> Nat]
  /\ performed \in [Runs -> [Indices -> Nat]]
  /\ pc \in [Workers -> Steps]
  /\ msg \in [Workers -> Messages \cup {NoMessage}]
  /\ run \in [Workers -> Runs \cup {NoRun}]
  /\ mine \in [Workers -> Rows \cup {NoRow}]
  /\ idx \in [Workers -> Nat]
  /\ faults \in FaultLogs
  /\ \A w \in Workers :
       /\ pc[w] # "idle" => msg[w] \in Messages /\ run[w] \in Runs
       /\ pc[w] \in {"SetStarted", "LogStarted", "Execute", "SetCompleted",
                     "SetScheduled", "LogScheduled"} => idx[w] \in Indices

\* No action of a run takes effect before all actions in front of it did, in
\* whatever order deliveries of the run's messages interleave and fail.
ActionsInOrder ==
  \A r \in Runs, i, j \in Indices :
    j < i /\ performed[r][i] > 0 => performed[r][j] > 0

\* No action behind a delay takes effect before the scheduler has sent the
\* message that ends this delay.
WaitsForDelay ==
  \A r \in Runs, d \in Delays, i \in Indices :
    d < i /\ performed[r][i] > 0 => fired[r][d] > 0

\* The optimistic lock: a row is only overwritten by a worker whose copy is the
\* row as it stands, in every field, so no update of another delivery is lost.
NoLostUpdate ==
  [][\A r \in Runs : row[r] # NoRow /\ row'[r] # row[r] =>
       \E w \in Workers : run[w] = r /\ mine[w] = row[r] /\ mine'[w] = row'[r]]_vars

\* What a delivery has to get done: the actions from i on, up to a delay.
DoneFrom(r, i) ==
  \A j \in Indices :
    j >= i /\ Delays \cap (i .. j - 1) = {} => performed[r][j] > 0

\* A condition stopped the run: nothing took effect, and the row says COMPLETED
\* if the condition was not met, FAILED if it could not be evaluated, unless an
\* update of a row whose error is ignored did not reach the table.
StoppedByCondition(r) ==
  /\ NumConditions > 0
  /\ \A i \in Indices : performed[r][i] = 0
  /\ row[r] # NoRow
  /\ \/ row[r].status = "COMPLETED"
     \/ row[r].status = "FAILED" /\ "Evaluate" \in Struck
     \/ "IgnoredUpdate" \in Struck

\* A message is deleted only when one of its deliveries has done its work: all
\* actions up to the next delay, whose resume job is accepted, or nothing at
\* all if a condition stopped the run.
DeletedWasHandled ==
  \A m \in Messages : queue[m] = "deleted" =>
    IF m \in StartMessages
    THEN \E r \in Runs : r[1] = m.signal /\ (DoneFrom(r, 1) \/ StoppedByCondition(r))
    ELSE DoneFrom(m.run, m.resumeFrom + 1)

\* No action of the workflow takes effect twice for one signal, in one run or
\* in the runs of several deliveries, while only calls fail that come before an
\* effect.
PerformedOncePerSignal ==
  Struck \subseteq {"Receive", "Fetch", "Create", "GetRun", "Evaluate"} =>
    \A r1, r2 \in Runs, i \in Indices :
      r1[1] = r2[1] /\ performed[r1][i] > 0 /\ performed[r2][i] > 0 =>
        r1 = r2 /\ performed[r1][i] = 1

\* Errors that the executor answers by marking the run FAILED, and those that
\* leave its row alone.
CleanErrors == {"Receive", "Fetch", "GetRun", "Evaluate", "LogStarted",
                "LogScheduled", "Action", "Schedule"}

\* When no message is left to process and no job to fire, every run has ended:
\* none stays TRIGGERED in the table, although calls failed, while there were
\* fewer of them than a message has deliveries.
NoRunLeftBehind ==
  /\ Struck \subseteq CleanErrors
  /\ Len(faults) < MaxReceives
  /\ \A m \in Messages : queue[m] \in {"absent", "deleted", "dead"}
  /\ \A w \in Workers : pc[w] = "idle"
  /\ \A r \in Runs, i \in Delays : fired[r][i] = performed[r][i]
  => \A r \in Runs : row[r] = NoRow \/ row[r].status \in FinalStatuses

\* What makes the queue or the scheduler deliver a message again after the
\* execution it asked for.
Redelivery == {"Duplicate", "Timeout", "EarlyFire", "Delete", "Crash", "UpdateReply"}

\* What may fail an execution after the job of its delay was accepted.
AfterAcceptance == {"Schedule", "Update", "LogScheduled"}
SeveralDelays == \E i, j \in Delays : i # j

\* A run that is COMPLETED is never written again, unless a message of it was
\* delivered once more, or in a workflow of several delays a delivery that had
\* resumed the run failed with its next job accepted: then this job and the
\* redelivered message both resume the run.
CompletedIsFinal ==
  [][/\ Struck' \cap Redelivery = {}
     /\ SeveralDelays => Struck' \cap AfterAcceptance = {}
     => \A r \in Runs : row[r].status = "COMPLETED" => row'[r] = row[r]]_vars

\* Every message in the queue is deleted or given up in the end, although
\* executions fail and workers crash.
EventuallyHandled ==
  \A m \in Messages : queue[m] = "visible" ~> queue[m] \in {"deleted", "dead"}

\* Every signal has a run that ends, unless something fails.
EventuallyFinal ==
  \A s \in Signals :
    <>(Struck # {} \/ \E r \in Runs : r[1] = s /\ row[r].status \in FinalStatuses)

\* A run in which an action took effect goes on to the next action, unless
\* something fails.
RunContinues ==
  \A r \in Runs, i \in Indices :
    i + 1 \in Indices =>
      (performed[r][i] > 0 ~> performed[r][i + 1] > 0 \/ Struck # {})
================================================================================
