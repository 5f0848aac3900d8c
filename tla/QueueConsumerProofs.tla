-------------------------- MODULE QueueConsumerProofs --------------------------
(***************************************************************************)
(* Theorems about QueueConsumer, for any workers: it implements Ingestion, *)
(* so what is proved of Ingestion holds of the service, and a consumer     *)
(* that has stopped hides no message.                                      *)
(***************************************************************************)
EXTENDS QueueConsumer, IngestionProofs

\* A worker holds one message between its receipt and its end, otherwise none;
\* what is hidden is held; a stopped service has no worker left.
HandInv ==
  /\ \A w \in Workers :
       IF worker[w] \in {"got", "busy"} THEN \E m \in Messages : hand[w] = {m}
                                        ELSE hand[w] = {}
  /\ \A m \in Messages : queue[m] = "taken" => \E w \in Workers : m \in hand[w]
  /\ service = "stopped" => \A w \in Workers : worker[w] = "exited"

ServiceInv == ServiceTypeOK /\ HandInv

\* Each step of a worker is a step of Ingestion, or leaves its variables alone.
LEMMA WorkImplements ==
  ASSUME NEW w \in Workers, Work(w), \A v \in Workers : hand[v] \subseteq Messages
  PROVE  [Next]_vars
<1>1. CASE ReceiveMessage(w)
  BY <1>1 DEF ReceiveMessage, Next, Consume
<1>2. CASE StopPolling(w)
  BY <1>2 DEF StopPolling
<1>3. CASE BeginMessage(w)
  BY <1>3 DEF BeginMessage, Next, Consume
<1>4. CASE ProcessMessage(w)
  BY <1>4 DEF ProcessMessage, Next, Consume
<1>5. QED BY <1>1, <1>2, <1>3, <1>4 DEF Work

LEMMA StepImplements ==
  ASSUME ServiceTypeOK, [ServiceNext]_serviceVars
  PROVE  [Next]_vars
<1>1. CASE UNCHANGED serviceVars
  BY <1>1 DEF serviceVars
<1>2. CASE \E w \in Workers : Work(w)
  BY <1>2, WorkImplements DEF ServiceTypeOK
<1>3. CASE \E r \in Requests : (Lookup(r) \/ Handle(r)) /\ UNCHANGED process
  BY <1>3 DEF Handle, Next
<1>4. CASE \E m \in Messages : BecomeVisible(m) /\ UNCHANGED process
  BY <1>4 DEF Consume, Next
<1>5. CASE StopConsumer \/ WorkersGone \/ Restart \/ Die
  BY <1>5 DEF StopConsumer, WorkersGone, Restart, Die, Next
<1>6. QED BY <1>1, <1>2, <1>3, <1>4, <1>5 DEF ServiceNext

LEMMA ServiceInitially ==
  ASSUME ServiceInit
  PROVE  Typed /\ ServiceInv
<1>1. Typed
  BY TypedInit DEF ServiceInit
<1>2. ServiceTypeOK
  BY <1>1 DEF Typed, ServiceInit, ServiceTypeOK, ServiceSteps, WorkerSteps
<1>3. HandInv
  BY DEF ServiceInit, Init, HandInv
<1>4. QED BY <1>1, <1>2, <1>3 DEF ServiceInv

LEMMA ServiceTyped ==
  ASSUME Typed', ServiceTypeOK, [ServiceNext]_serviceVars
  PROVE  ServiceTypeOK'
<1> USE DEF ServiceTypeOK, ServiceSteps, WorkerSteps
<1>1. TypeOK'
  BY DEF Typed
<1>2. CASE UNCHANGED process
  BY <1>1, <1>2 DEF process
<1>3. ASSUME NEW w \in Workers, Work(w)
      PROVE  ServiceTypeOK'
  <2>1. \E s \in WorkerSteps : Move(w, s)
    BY <1>3 DEF Work, ReceiveMessage, StopPolling, BeginMessage, ProcessMessage, NextRound
  <2>2. hand' = hand \/ \E S \in SUBSET Messages : hand' = [hand EXCEPT ![w] = S]
    BY <1>3 DEF Work, ReceiveMessage, StopPolling, BeginMessage, ProcessMessage
  <2>3. QED BY <1>1, <2>1, <2>2 DEF Move
<1>4. CASE StopConsumer \/ WorkersGone \/ Restart \/ Die
  BY <1>1, <1>4 DEF StopConsumer, WorkersGone, Restart, Die, StartConsumer
<1>5. CASE UNCHANGED serviceVars
  BY <1>2, <1>5 DEF serviceVars
<1>6. QED BY <1>2, <1>3, <1>4, <1>5 DEF ServiceNext

LEMMA HandWork ==
  ASSUME Typed, ServiceInv, NEW w \in Workers, Work(w)
  PROVE  HandInv'
<1> USE DEF Typed, TypeOK, ServiceInv, ServiceTypeOK, HandInv
<1>1. CASE ReceiveMessage(w)
  <2>1. PICK m \in Messages :
          /\ queue' = [queue EXCEPT ![m] = "taken"]
          /\ hand' = [hand EXCEPT ![w] = {m}]
    BY <1>1 DEF ReceiveMessage, Receive, Put
  <2>2. /\ worker[w] = "poll" /\ hand[w] = {}
        /\ worker' = [worker EXCEPT ![w] = "got"]
        /\ service' = service
    BY <1>1 DEF ReceiveMessage, Move
  <2>3. QED BY <2>1, <2>2
<1>2. CASE StopPolling(w)
  BY <1>2 DEF StopPolling, Move, vars
<1>3. CASE worker[w] = "got" /\ Move(w, "busy") /\ UNCHANGED <<vars, hand>>
  BY <1>3 DEF Move, vars
<1>4. CASE \/ /\ worker[w] = "got" /\ service = "stopping"
              /\ \E m \in hand[w] : Abandon(m)
              /\ Move(w, "exited")
              /\ hand' = [hand EXCEPT ![w] = {}]
           \/ ProcessMessage(w)
  <2>1. PICK m \in Messages :
          /\ hand[w] = {m}
          /\ \E p \in Places \ {"taken"} : queue' = [queue EXCEPT ![m] = p]
    BY <1>4 DEF ProcessMessage, Abandon, Fetch, Put, Places
  <2>2. /\ hand' = [hand EXCEPT ![w] = {}]
        /\ service' = service
        /\ \E s \in {"exited", "poll"} : worker' = [worker EXCEPT ![w] = s]
        /\ worker[w] # "exited"
    BY <1>4 DEF ProcessMessage, Move, NextRound
  <2>3. QED BY <2>1, <2>2
<1>5. QED BY <1>1, <1>2, <1>3, <1>4 DEF Work, BeginMessage

LEMMA HandStep ==
  ASSUME Typed, ServiceInv, [ServiceNext]_serviceVars
  PROVE  HandInv'
<1> USE DEF HandInv
<1>1. CASE UNCHANGED process /\ \A m \in Messages : queue'[m] = "taken" => queue[m] = "taken"
  BY <1>1 DEF ServiceInv, process
<1>2. CASE UNCHANGED serviceVars
  BY <1>1, <1>2 DEF serviceVars, vars
<1>3. ASSUME NEW r \in Requests, (Lookup(r) \/ Handle(r)) /\ UNCHANGED process
      PROVE  HandInv'
  <2>1. queue' = queue \/ \E n \in Messages : queue' = [queue EXCEPT ![n] = "visible"]
    BY <1>3, MessageOfPair DEF Lookup, Handle, Save, Send, Put
  <2>2. QED BY <1>1, <1>3, <2>1 DEF Typed, TypeOK
<1>4. ASSUME NEW m \in Messages, BecomeVisible(m) /\ UNCHANGED process
      PROVE  HandInv'
  <2>1. \E p \in {"visible", "dead"} : queue' = [queue EXCEPT ![m] = p]
    BY <1>4 DEF BecomeVisible, Put
  <2>2. QED BY <1>1, <1>4, <2>1 DEF Typed, TypeOK
<1>5. CASE StopConsumer
  BY <1>5 DEF StopConsumer, Stop, ServiceInv
<1>6. CASE WorkersGone
  BY <1>6 DEF WorkersGone, vars, ServiceInv
<1>7. CASE Restart
  BY <1>7 DEF Restart, StartConsumer, vars, ServiceInv
<1>8. CASE Die
  BY <1>8 DEF Die, Crash, StartConsumer
<1>9. QED BY <1>2, <1>3, <1>4, <1>5, <1>6, <1>7, <1>8, HandWork DEF ServiceNext

LEMMA ServiceInvariant == ServiceSpec => [](Typed /\ ServiceInv)
<1>1. ServiceInit => Typed /\ ServiceInv
  BY ServiceInitially
<1>2. Typed /\ ServiceInv /\ [ServiceNext]_serviceVars => (Typed /\ ServiceInv)'
  <2> SUFFICES ASSUME Typed, ServiceInv, [ServiceNext]_serviceVars
               PROVE  (Typed /\ ServiceInv)'
    OBVIOUS
  <2>1. Typed'
    BY StepImplements, TypedStep DEF ServiceInv
  <2>2. ServiceTypeOK'
    BY <2>1, ServiceTyped DEF ServiceInv
  <2>3. HandInv'
    BY HandStep
  <2>4. QED BY <2>1, <2>2, <2>3 DEF ServiceInv
<1>3. QED BY <1>1, <1>2, PTL DEF ServiceSpec

\* The workers, their starts and their stops implement Ingestion: whatever is
\* proved of its steps holds of the service.
THEOREM ServiceImplementsIngestion == ServiceSpec => Spec
<1>1. ServiceInit => Init
  BY DEF ServiceInit
<1>2. ServiceInv /\ [ServiceNext]_serviceVars => [Next]_vars
  BY StepImplements DEF ServiceInv
<1>3. QED BY <1>1, <1>2, ServiceInvariant, PTL DEF ServiceSpec, Spec

\* A consumer that has stopped left no message hidden, for any number of
\* workers and wherever the stop met them.
THEOREM StopIsClean == ServiceSpec => []StoppedIsIdle
<1>1. ServiceInv => StoppedIsIdle
  BY DEF ServiceInv, HandInv, StoppedIsIdle
<1>2. QED BY <1>1, ServiceInvariant, PTL

\* The service never leaves a saved signal that was not queued.
THEOREM ServiceSavesWhatItQueued == ServiceSpec => []SavedIsQueued
  BY ServiceImplementsIngestion, NoSilentSignal

\* A request to the service that succeeded skipped nothing that it chose.
THEOREM ServiceSuccessIsComplete == ServiceSpec => []SucceededIsQueued
  BY ServiceImplementsIngestion, SuccessIsComplete
================================================================================
