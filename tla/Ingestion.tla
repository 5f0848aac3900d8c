------------------------------- MODULE Ingestion -------------------------------
(***************************************************************************)
(* How a signal enters the system: CreateSignalService of                  *)
(* internal/handler/signal_handler.go queues a message for the latest      *)
(* version of each workflow that matches, and only then saves the signal;  *)
(* the consumer of the queue needs the saved signal to start a run.        *)
(*                                                                         *)
(* A request is one POST of a signal; a client that repeats a signal makes *)
(* several.  What the workflow cache answers is any set of versions (see   *)
(* WorkflowCache); what a started run does is left out (see                *)
(* WorkflowExecutor).  QueueConsumer adds the workers of the consumer, how *)
(* they are started and stopped, and what eventually happens.              *)
(***************************************************************************)
EXTENDS Naturals, Sequences, FiniteSets, Functions

CONSTANTS
  Requests,     \* POSTs of a signal
  Signals,      \* signals: their type, organisation and time stamp
  SignalOf,     \* the signal of each request
  Workflows,    \* workflows, whatever their version
  Versions,     \* the workflow versions that match: pairs <<workflow, number>>
  MaxReceives,  \* deliveries of a message before it is put aside (3)
  MayFail,      \* the kinds of fault that may strike
  MaxFaults     \* how many faults strike at most

Faults == {"Lookup", "Send", "Save", "Fetch", "Slow", "Stop", "Crash"}
FaultLogs == Seq(Faults)

ASSUME ConstantsAssumption ==
  /\ IsFiniteSet(Requests)
  /\ SignalOf \in [Requests -> Signals]
  /\ IsFiniteSet(Versions)
  /\ Versions \subseteq Workflows \X Nat
  /\ MaxReceives \in Nat \ {0}
  /\ MayFail \subseteq Faults
  /\ MaxFaults \in Nat

Messages == Requests \X Versions
SignalOfMessage(m) == SignalOf[m[1]]

Succeeded == {"accepted", "duplicate"}
Steps == {"new", "Send"} \cup Succeeded \cup {"unmatched", "unsaved", "crashed"}
Places == {"none", "visible", "taken", "waiting", "handled", "dead"}

VARIABLES
  signals,   \* the table of signals
  step,      \* the next step of each request, or how it was answered
  chosen,    \* the versions that the request decided to queue
  todo,      \* those it has still to send
  unsent,    \* those whose send returned an error
  queue,     \* where each message is
  receives,  \* how often it was received, while it is in the queue
  started,   \* the messages that started a run
  faults     \* the faults that struck, in their order

consumer == <<receives, started>>
vars == <<signals, step, chosen, todo, unsent, queue, receives, started, faults>>

Init ==
  /\ signals = {}
  /\ step = [r \in Requests |-> "new"]
  /\ chosen = [r \in Requests |-> {}]
  /\ todo = [r \in Requests |-> {}]
  /\ unsent = [r \in Requests |-> {}]
  /\ queue = [m \in Messages |-> "none"]
  /\ receives = [m \in Messages |-> 0]
  /\ started = {}
  /\ faults = <<>>

Ok == UNCHANGED faults
Fails(f) ==
  /\ f \in MayFail
  /\ Len(faults) < MaxFaults
  /\ faults' = Append(faults, f)

\* The kinds of fault that struck so far.
Struck == Range(faults)

Goto(r, s) == step' = [step EXCEPT ![r] = s]
Put(m, place) == queue' = [queue EXCEPT ![m] = place]

--------------------------------------------------------------------------------
(***************************************************************************)
(* CreateSignalService.                                                    *)
(***************************************************************************)
\* filterLatestVersions: of each workflow that was found, its highest version.
Latest(found) ==
  {v \in found : \A u \in found : u[1] = v[1] => u[2] <= v[2]}

\* A request arrives, and the workflows for its signal are looked up.
Lookup(r) ==
  /\ step[r] = "new"
  /\ \/ /\ Ok
        /\ \E found \in SUBSET Versions :
             /\ chosen' = [chosen EXCEPT ![r] = Latest(found)]
             /\ todo' = [todo EXCEPT ![r] = Latest(found)]
        /\ Goto(r, "Send")
     \/ /\ Fails("Lookup")
        /\ Goto(r, "unmatched")
        /\ UNCHANGED <<chosen, todo>>
  /\ UNCHANGED <<signals, unsent, queue, consumer>>

\* A send that fails is skipped; its message may be in the queue all the same.
Send(r, v) ==
  /\ step[r] = "Send"
  /\ v \in todo[r]
  /\ todo' = [todo EXCEPT ![r] = @ \ {v}]
  /\ \/ Ok /\ Put(<<r, v>>, "visible") /\ UNCHANGED unsent
     \/ /\ Fails("Send")
        /\ unsent' = [unsent EXCEPT ![r] = @ \cup {v}]
        /\ Put(<<r, v>>, "visible") \/ UNCHANGED queue
  /\ UNCHANGED <<signals, step, chosen, consumer>>

\* Seeded fault: the signal is saved before anything is queued.
SaveFirst(r) ==
  /\ step[r] = "Send"
  /\ Ok
  /\ IF SignalOf[r] \in signals
     THEN todo[r] = {} /\ Goto(r, "duplicate")
     ELSE UNCHANGED step
  /\ signals' = signals \cup {SignalOf[r]}
  /\ UNCHANGED <<chosen, todo, unsent, queue, consumer>>

\* Seeded fault: the request does not wait for the sends.
SaveMeanwhile(r) ==
  /\ step[r] = "Send"
  /\ \/ /\ Ok
        /\ Goto(r, IF SignalOf[r] \in signals THEN "duplicate" ELSE "accepted")
        /\ signals' = signals \cup {SignalOf[r]}
     \/ Fails("Save") /\ Goto(r, "unsaved") /\ UNCHANGED signals
  /\ UNCHANGED <<chosen, todo, unsent, queue, consumer>>

\* The conditional put.  A duplicate is answered with success; of a put that
\* fails the answer alone may be lost.
Save(r) ==
  /\ step[r] = "Send"
  /\ todo[r] = {}
  /\ \/ /\ Ok
        /\ Goto(r, IF SignalOf[r] \in signals THEN "duplicate" ELSE "accepted")
        /\ signals' = signals \cup {SignalOf[r]}
     \/ /\ Fails("Save")
        /\ Goto(r, "unsaved")
        /\ signals' \in {signals, signals \cup {SignalOf[r]}}
  /\ UNCHANGED <<chosen, todo, unsent, queue, consumer>>

--------------------------------------------------------------------------------
(***************************************************************************)
(* The consumer of the queue.                                              *)
(***************************************************************************)
Receive(m) ==
  /\ queue[m] = "visible"
  /\ Put(m, "taken")
  /\ receives' = [receives EXCEPT ![m] = @ + 1]
  /\ UNCHANGED <<signals, step, chosen, todo, unsent, started, faults>>

\* Seeded fault: a message without its signal is deleted.
FetchOrDelete(m) ==
  /\ queue[m] = "taken"
  /\ Ok
  /\ Put(m, "handled")
  /\ started' = IF SignalOfMessage(m) \in signals THEN started \cup {m} ELSE started
  /\ UNCHANGED <<signals, step, chosen, todo, unsent, receives>>

\* Execute reads the signal; an error leaves the message in the queue, otherwise
\* it is deleted, and its count with it.
Fetch(m) ==
  /\ queue[m] = "taken"
  /\ \/ /\ Ok
        /\ SignalOfMessage(m) \in signals
        /\ started' = started \cup {m}
        /\ receives' = [receives EXCEPT ![m] = 0]
        /\ Put(m, "handled")
     \/ /\ Fails("Fetch") \/ (Ok /\ SignalOfMessage(m) \notin signals)
        /\ Put(m, "waiting")
        /\ UNCHANGED consumer
  /\ UNCHANGED <<signals, step, chosen, todo, unsent>>

\* After the visibility timeout of a minute, within which a request saves its
\* signal unless it is "Slow", the message is there again or is put aside.
BecomeVisible(m) ==
  /\ queue[m] = "waiting"
  /\ (Ok /\ step[m[1]] # "Send") \/ Fails("Slow")
  /\ Put(m, IF receives[m] < MaxReceives THEN "visible" ELSE "dead")
  /\ UNCHANGED <<signals, step, chosen, todo, unsent, consumer>>

\* A worker that is told to stop leaves a message that it has received alone.
Abandon(m) ==
  /\ queue[m] = "taken"
  /\ Put(m, "waiting")
  /\ UNCHANGED <<signals, step, chosen, todo, unsent, consumer, faults>>

Consume(m) == Receive(m) \/ Fetch(m) \/ Abandon(m) \/ BecomeVisible(m)

--------------------------------------------------------------------------------
\* The process dies: its requests get no answer, what it received comes back.
Crash ==
  /\ Fails("Crash")
  /\ step' = [r \in Requests |-> IF step[r] = "Send" THEN "crashed" ELSE step[r]]
  /\ queue' = [m \in Messages |-> IF queue[m] = "taken" THEN "waiting" ELSE queue[m]]
  /\ UNCHANGED <<signals, chosen, todo, unsent, consumer>>

\* The process is told to stop: see QueueConsumer.
Stop ==
  /\ Fails("Stop")
  /\ UNCHANGED <<signals, step, chosen, todo, unsent, queue, consumer>>

Next ==
  \/ \E r \in Requests : Lookup(r) \/ Save(r) \/ \E v \in Versions : Send(r, v)
  \/ \E m \in Messages : Consume(m)
  \/ Crash
  \/ Stop

Spec == Init /\ [][Next]_vars

--------------------------------------------------------------------------------
(***************************************************************************)
(* What ingestion promises.                                                *)
(***************************************************************************)

\* Every variable has its type.
TypeOK ==
  /\ signals \subseteq Signals
  /\ step \in [Requests -> Steps]
  /\ chosen \in [Requests -> SUBSET Versions]
  /\ todo \in [Requests -> SUBSET Versions]
  /\ unsent \in [Requests -> SUBSET Versions]
  /\ queue \in [Messages -> Places]
  /\ receives \in [Messages -> 0 .. MaxReceives]
  /\ started \subseteq Messages
  /\ faults \in FaultLogs

\* What a request decided to queue is in the queue or was, but for the sends
\* that returned an error.
Queued(r) == \A v \in chosen[r] \ unsent[r] : queue[<<r, v>>] # "none"

\* A signal in the table has been queued, in full, by a request that tried to
\* save it: a crash leaves no saved signal that nothing will be done for.
SavedIsQueued ==
  \A s \in signals : \E r \in Requests :
    SignalOf[r] = s /\ step[r] \in {"accepted", "unsaved"} /\ Queued(r)

\* A request that succeeded left its signal saved and skipped nothing that it
\* chose, whatever its other sends or an earlier request for the signal met.
SucceededIsQueued ==
  \A r \in Requests : step[r] \in Succeeded => SignalOf[r] \in signals /\ Queued(r)
================================================================================
