----------------------------- MODULE QueueConsumer -----------------------------
(***************************************************************************)
(* The process of the ingestion service around Ingestion: the workers of   *)
(* the consumer (internal/queue/sqs/sqs_queue.go), which are started and   *)
(* stopped with the process (ManageExecutorQueueLifecycle), and restarts.  *)
(*                                                                         *)
(* A worker receives one message at a time, as the process is configured   *)
(* (MaxMessages: 1).  StopConsumer cancels the context of the receives and *)
(* closes stopCh in one step here: between the two a worker can only try   *)
(* another receive, which fails.  Each step that concerns a message or a   *)
(* request is a step of Ingestion.                                         *)
(***************************************************************************)
EXTENDS Ingestion

CONSTANT Workers

ASSUME WorkersAssumption == IsFiniteSet(Workers) /\ Workers # {}

ServiceSteps == {"running", "stopping", "stopped"}
WorkerSteps == {"exited", "poll", "got", "busy"}

VARIABLES
  service,  \* of the process: "running" from StartConsumer to StopConsumer
  worker,   \* the next step of each worker
  hand      \* the message that it has received, if any

process == <<service, worker, hand>>
serviceVars == <<vars, process>>

\* The process has started, and with it the consumer and its workers.
ServiceInit ==
  /\ Init
  /\ service = "running"
  /\ worker = [w \in Workers |-> "poll"]
  /\ hand = [w \in Workers |-> {}]

--------------------------------------------------------------------------------
(***************************************************************************)
(* Start and stop.                                                         *)
(***************************************************************************)
\* A process is started in the place of the one that ended.
StartConsumer ==
  /\ service' = "running"
  /\ worker' = [w \in Workers |-> "poll"]
  /\ hand' = [w \in Workers |-> {}]

\* The process is told to end; the context of the receives and stopCh are closed.
StopConsumer ==
  /\ service = "running"
  /\ Stop
  /\ service' = "stopping"
  /\ UNCHANGED <<worker, hand>>

\* wg.Wait.
WorkersGone ==
  /\ service = "stopping"
  /\ \A w \in Workers : worker[w] = "exited"
  /\ service' = "stopped"
  /\ UNCHANGED <<vars, worker, hand>>

\* The HTTP server, which is stopped after the consumer, waits for its requests.
Restart ==
  /\ service = "stopped"
  /\ \A r \in Requests : step[r] # "Send"
  /\ StartConsumer
  /\ UNCHANGED vars

Die == Crash /\ StartConsumer

--------------------------------------------------------------------------------
(***************************************************************************)
(* A worker.                                                               *)
(***************************************************************************)
\* The loop looks at stopCh before it receives again.
NextRound == IF service = "stopping" THEN "exited" ELSE "poll"

Move(w, s) == worker' = [worker EXCEPT ![w] = s] /\ UNCHANGED service

\* A receive that was on its way when its context was cancelled may still have
\* taken a message from the queue.
ReceiveMessage(w) ==
  /\ worker[w] = "poll"
  /\ \E m \in Messages : Receive(m) /\ hand' = [hand EXCEPT ![w] = {m}]
  /\ Move(w, "got")

\* Seeded fault: a receive that fails is tried again, whatever the reason.
PollForEver(w) == FALSE

\* The error of a cancelled receive ends the worker.
StopPolling(w) ==
  /\ worker[w] = "poll"
  /\ service = "stopping"
  /\ Move(w, "exited")
  /\ UNCHANGED <<vars, hand>>

\* Seeded fault: a worker that is told to stop forgets what it has received.
DropMessage(w) ==
  /\ worker[w] = "got"
  /\ \/ service = "running" /\ Move(w, "busy") /\ UNCHANGED <<vars, hand>>
     \/ /\ service = "stopping"
        /\ Move(w, "exited")
        /\ hand' = [hand EXCEPT ![w] = {}]
        /\ UNCHANGED vars

\* stopCh is looked at once more before a message is processed.
BeginMessage(w) ==
  /\ worker[w] = "got"
  /\ \/ service = "running" /\ Move(w, "busy") /\ UNCHANGED <<vars, hand>>
     \/ /\ service = "stopping"
        /\ \E m \in hand[w] : Abandon(m)
        /\ Move(w, "exited")
        /\ hand' = [hand EXCEPT ![w] = {}]

\* The context of the message is not the one that is cancelled: a worker that is
\* told to stop ends what it has begun.
ProcessMessage(w) ==
  /\ worker[w] = "busy"
  /\ \E m \in hand[w] : Fetch(m)
  /\ Move(w, NextRound)
  /\ hand' = [hand EXCEPT ![w] = {}]

Work(w) == ReceiveMessage(w) \/ StopPolling(w) \/ BeginMessage(w) \/ ProcessMessage(w)

--------------------------------------------------------------------------------
Handle(r) == Save(r) \/ \E v \in Versions : Send(r, v)

ServiceNext ==
  \/ \E r \in Requests : (Lookup(r) \/ Handle(r)) /\ UNCHANGED process
  \/ \E m \in Messages : BecomeVisible(m) /\ UNCHANGED process
  \/ \E w \in Workers : Work(w)
  \/ StopConsumer
  \/ WorkersGone
  \/ Restart
  \/ Die

ServiceSpec == ServiceInit /\ [][ServiceNext]_serviceVars

\* Requests that arrived and workers go on, the queue hides a message for a
\* minute only, and a process that ended is started again.
Fairness ==
  /\ \A r \in Requests : WF_serviceVars(Handle(r) /\ UNCHANGED process)
  /\ \A m \in Messages : WF_serviceVars(BecomeVisible(m) /\ UNCHANGED process)
  /\ \A w \in Workers : WF_serviceVars(Work(w))
  /\ WF_serviceVars(WorkersGone)
  /\ WF_serviceVars(Restart)

FairServiceSpec == ServiceSpec /\ Fairness

--------------------------------------------------------------------------------
(***************************************************************************)
(* What the service promises, besides what Ingestion does.                 *)
(***************************************************************************)

\* Every variable has its type.
ServiceTypeOK ==
  /\ TypeOK
  /\ service \in ServiceSteps
  /\ worker \in [Workers -> WorkerSteps]
  /\ hand \in [Workers -> SUBSET Messages]

\* When StopConsumer has returned no message is hidden by this process: each one
\* that it received is handled, or will be delivered again.
StoppedIsIdle ==
  service = "stopped" => \A m \in Messages : queue[m] # "taken"

\* Every message of a request that was answered with success starts a run,
\* although it may have been received before the signal was saved, or by a worker
\* that was just told to stop, unless as many faults strike, each of which costs
\* at most one delivery, as it has deliveries to spare.
AcceptedIsStarted ==
  \A m \in Messages :
    step[m[1]] \in Succeeded /\ queue[m] # "none" ~>
      m \in started \/ Len(faults) + 1 >= MaxReceives

\* StopConsumer returns, whatever the workers were at.
StopEnds == service = "stopping" ~> service # "stopping"
================================================================================
