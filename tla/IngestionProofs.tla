---------------------------- MODULE IngestionProofs ----------------------------
(***************************************************************************)
(* Theorems about Ingestion, for any requests, signals, workflow versions  *)
(* and bounds.                                                             *)
(***************************************************************************)
EXTENDS Ingestion, TLAPS

\* What a request has still to send is not in the queue yet; the rest of what
\* it chose is or was, but for the sends that failed.
SentInv ==
  \A r \in Requests, v \in Versions :
    /\ step[r] = "new" \/ v \in todo[r] => queue[<<r, v>>] = "none"
    /\ v \in chosen[r] => v \in todo[r] \cup unsent[r] \/ queue[<<r, v>>] # "none"

\* A message that can be received has deliveries left.
ReceivesLeft ==
  \A m \in Messages : queue[m] \in {"none", "visible"} => receives[m] < MaxReceives

Typed == TypeOK /\ SentInv /\ ReceivesLeft

\* The saved signals and the requests that saved them.
SavedInv ==
  /\ \A r \in Requests :
       /\ step[r] \in Succeeded \cup {"unsaved"} => todo[r] = {}
       /\ step[r] \in Succeeded => SignalOf[r] \in signals
  /\ \A s \in signals : \E r \in Requests :
       SignalOf[r] = s /\ step[r] \in {"accepted", "unsaved"}

LEMMA FaultsTyped ==
  ASSUME TypeOK, NEW kind, Ok \/ Fails(kind)
  PROVE  faults' \in FaultLogs
<1>1. faults \in Seq(Faults)
  BY DEF TypeOK, FaultLogs
<1>2. MayFail \subseteq Faults
  BY ConstantsAssumption
<1>3. QED BY <1>1, <1>2 DEF Ok, Fails, FaultLogs

LEMMA LatestIsFound ==
  ASSUME NEW found
  PROVE  Latest(found) \subseteq found
  BY DEF Latest

LEMMA MessageOfPair ==
  ASSUME NEW r \in Requests, NEW v \in Versions
  PROVE  <<r, v>> \in Messages
  BY DEF Messages

LEMMA PairOfMessage ==
  ASSUME NEW m \in Messages
  PROVE  m[1] \in Requests /\ m[2] \in Versions /\ m = <<m[1], m[2]>>
  BY DEF Messages

LEMMA TypedInit ==
  ASSUME Init
  PROVE  Typed
<1>1. 0 \in 0 .. MaxReceives /\ 0 < MaxReceives /\ <<>> \in FaultLogs
  BY ConstantsAssumption DEF FaultLogs
<1>2. TypeOK
  BY <1>1 DEF Init, TypeOK, Steps, Places
<1>3. SentInv
  BY MessageOfPair DEF Init, SentInv
<1>4. ReceivesLeft
  BY <1>1 DEF Init, ReceivesLeft
<1>5. QED BY <1>2, <1>3, <1>4 DEF Typed

LEMMA TypedLookup ==
  ASSUME Typed, NEW r \in Requests, Lookup(r)
  PROVE  Typed'
<1>1. faults' \in FaultLogs
  BY FaultsTyped DEF Lookup, Typed
<1>2. \/ UNCHANGED <<chosen, todo>> /\ Goto(r, "unmatched")
      \/ \E found \in SUBSET Versions :
           /\ chosen' = [chosen EXCEPT ![r] = Latest(found)]
           /\ todo' = [todo EXCEPT ![r] = Latest(found)]
           /\ Goto(r, "Send")
  BY DEF Lookup
<1>3. \/ UNCHANGED <<chosen, todo>> /\ step' = [step EXCEPT ![r] = "unmatched"]
      \/ \E vs \in SUBSET Versions :
           /\ chosen' = [chosen EXCEPT ![r] = vs]
           /\ todo' = [todo EXCEPT ![r] = vs]
           /\ step' = [step EXCEPT ![r] = "Send"]
  <2>1. \A found \in SUBSET Versions : Latest(found) \in SUBSET Versions
    BY LatestIsFound
  <2>2. QED BY <1>2, <2>1 DEF Goto
<1>4. UNCHANGED <<signals, unsent, queue, receives, started>> /\ step[r] = "new"
  BY DEF Lookup, consumer
<1>5. TypeOK'
  BY <1>1, <1>3, <1>4 DEF Typed, TypeOK, Steps
<1>6. SentInv'
  <2>1. \A q \in Requests, v \in Versions :
          q # r => UNCHANGED <<chosen[q], todo[q], step[q]>>
    BY <1>3 DEF Typed, TypeOK
  <2>2. \A v \in Versions :
          /\ queue[<<r, v>>] = "none"
          /\ v \in chosen'[r] => v \in todo'[r] \cup unsent[r] \/ queue[<<r, v>>] # "none"
    BY <1>3, <1>4 DEF Typed, TypeOK, SentInv
  <2>3. QED BY <1>4, <2>1, <2>2 DEF Typed, SentInv
<1>7. ReceivesLeft'
  BY <1>4 DEF Typed, ReceivesLeft
<1>8. QED BY <1>5, <1>6, <1>7 DEF Typed

LEMMA TypedSave ==
  ASSUME Typed, NEW r \in Requests, Save(r)
  PROVE  Typed'
<1>1. faults' \in FaultLogs
  BY FaultsTyped DEF Save, Typed
<1>2. SignalOf[r] \in Signals
  BY ConstantsAssumption
<1>3. /\ signals' \subseteq Signals
      /\ \E s \in Succeeded \cup {"unsaved"} : step' = [step EXCEPT ![r] = s]
      /\ UNCHANGED <<chosen, todo, unsent, queue, receives, started>>
  BY <1>2 DEF Save, Goto, Succeeded, consumer, Typed, TypeOK
<1>4. TypeOK'
  BY <1>1, <1>3 DEF Typed, TypeOK, Steps, Succeeded
<1>5. SentInv'
  BY <1>3 DEF Typed, TypeOK, SentInv, Succeeded
<1>6. ReceivesLeft'
  BY <1>3 DEF Typed, ReceivesLeft
<1>7. QED BY <1>4, <1>5, <1>6 DEF Typed

LEMMA TypedSend ==
  ASSUME Typed, NEW r \in Requests, NEW v \in Versions, Send(r, v)
  PROVE  Typed'
<1>1. faults' \in FaultLogs
  BY FaultsTyped DEF Send, Typed
<1>2. <<r, v>> \in Messages
  BY MessageOfPair
<1>3. /\ UNCHANGED <<signals, step, chosen, receives, started>>
      /\ step[r] = "Send"
      /\ v \in todo[r]
      /\ todo' = [todo EXCEPT ![r] = @ \ {v}]
      /\ \/ queue' = [queue EXCEPT ![<<r, v>>] = "visible"] /\ unsent' = unsent
         \/ /\ unsent' = [unsent EXCEPT ![r] = @ \cup {v}]
            /\ queue' = [queue EXCEPT ![<<r, v>>] = "visible"] \/ queue' = queue
  BY DEF Send, Put, consumer
<1>4. TypeOK'
  <2>1. queue' \in [Messages -> Places]
    BY <1>2, <1>3 DEF Typed, TypeOK, Places
  <2>2. todo' \in [Requests -> SUBSET Versions] /\ unsent' \in [Requests -> SUBSET Versions]
    BY <1>3 DEF Typed, TypeOK
  <2>3. QED BY <1>1, <1>3, <2>1, <2>2 DEF Typed, TypeOK
<1>5. SentInv'
  <2> SUFFICES ASSUME NEW q \in Requests, NEW u \in Versions
               PROVE  /\ step[q] = "new" \/ u \in todo'[q]
                           => queue'[<<q, u>>] = "none"
                      /\ u \in chosen[q] => u \in todo'[q] \cup unsent'[q]
                                             \/ queue'[<<q, u>>] # "none"
    BY <1>3 DEF SentInv
  <2>1. /\ step[q] = "new" \/ u \in todo[q] => queue[<<q, u>>] = "none"
        /\ u \in chosen[q] => u \in todo[q] \cup unsent[q] \/ queue[<<q, u>>] # "none"
        /\ <<q, u>> \in Messages
    BY MessageOfPair DEF Typed, SentInv
  <2>2. CASE q = r /\ u = v
    BY <1>2, <1>3, <2>1, <2>2 DEF Typed, TypeOK
  <2>3. CASE q # r \/ u # v
    <3>1. queue'[<<q, u>>] = queue[<<q, u>>]
      BY <1>3, <2>1, <2>3 DEF Typed, TypeOK
    <3>2. (u \in todo'[q] <=> u \in todo[q]) /\ (u \in unsent[q] => u \in unsent'[q])
      BY <1>3, <2>3 DEF Typed, TypeOK
    <3>3. QED BY <2>1, <3>1, <3>2
  <2>4. QED BY <2>2, <2>3
<1>6. ReceivesLeft'
  <2>1. receives[<<r, v>>] < MaxReceives
    BY <1>2, <1>3 DEF Typed, SentInv, ReceivesLeft
  <2>2. \A m \in Messages : queue'[m] = queue[m] \/ m = <<r, v>>
    BY <1>3 DEF Typed, TypeOK
  <2>3. QED BY <1>3, <2>1, <2>2 DEF Typed, ReceivesLeft
<1>7. QED BY <1>4, <1>5, <1>6 DEF Typed

\* The consumer moves one message, which is in the queue, to another place.
LEMMA ConsumeMoves ==
  ASSUME Typed, NEW m \in Messages, Consume(m)
  PROVE  /\ \E p \in Places \ {"none"} :
              /\ queue' = [queue EXCEPT ![m] = p]
              /\ p = "visible" => receives'[m] < MaxReceives
         /\ queue[m] # "none"
         /\ receives' \in [Messages -> 0 .. MaxReceives]
         /\ \A n \in Messages : n # m => receives'[n] = receives[n]
         /\ started' \subseteq Messages
         /\ faults' \in FaultLogs
         /\ UNCHANGED <<signals, step, chosen, todo, unsent>>
<1> USE DEF Typed, TypeOK
<1>1. CASE Receive(m)
  <2>1. receives[m] < MaxReceives
    BY <1>1 DEF Receive, ReceivesLeft
  <2>2. receives' = [receives EXCEPT ![m] = receives[m] + 1]
    BY <1>1 DEF Receive
  <2>3. receives[m] + 1 \in 0 .. MaxReceives
    BY <2>1, ConstantsAssumption
  <2>4. /\ queue' = [queue EXCEPT ![m] = "taken"]
        /\ queue[m] = "visible"
        /\ UNCHANGED <<signals, step, chosen, todo, unsent, started, faults>>
    BY <1>1 DEF Receive, Put
  <2>5. receives' \in [Messages -> 0 .. MaxReceives]
    BY <2>2, <2>3
  <2>6. \A n \in Messages : n # m => receives'[n] = receives[n]
    BY <2>2
  <2>7. "taken" \in Places \ {"none"} /\ "taken" # "visible"
    BY DEF Places
  <2>8. QED BY <2>4, <2>5, <2>6, <2>7
<1>2. CASE Fetch(m)
  <2>1. faults' \in FaultLogs
    BY <1>2, FaultsTyped DEF Fetch
  <2>2. started' \subseteq Messages /\ receives' \in [Messages -> 0 .. MaxReceives]
    BY <1>2, ConstantsAssumption DEF Fetch, consumer
  <2>3. \A n \in Messages : n # m => receives'[n] = receives[n]
    BY <1>2 DEF Fetch, consumer
  <2>4. QED BY <1>2, <2>1, <2>2, <2>3 DEF Fetch, Put, Places
<1>3. CASE BecomeVisible(m)
  <2>1. faults' \in FaultLogs
    BY <1>3, FaultsTyped DEF BecomeVisible
  <2>2. QED BY <1>3, <2>1 DEF BecomeVisible, Put, Places, consumer
<1>4. CASE Abandon(m)
  <2>1. /\ queue' = [queue EXCEPT ![m] = "waiting"]
        /\ queue[m] = "taken"
        /\ UNCHANGED <<signals, step, chosen, todo, unsent, receives, started, faults>>
    BY <1>4 DEF Abandon, Put, consumer
  <2>2. "waiting" \in Places \ {"none"} /\ "waiting" # "visible"
    BY DEF Places
  <2>3. QED BY <2>1, <2>2
<1>5. QED BY <1>1, <1>2, <1>3, <1>4 DEF Consume

LEMMA TypedConsume ==
  ASSUME Typed, NEW m \in Messages, Consume(m)
  PROVE  Typed'
<1>1. PICK p \in Places \ {"none"} :
        /\ queue' = [queue EXCEPT ![m] = p]
        /\ p = "visible" => receives'[m] < MaxReceives
  BY ConsumeMoves
<1>2. TypeOK'
  BY <1>1, ConsumeMoves DEF Typed, TypeOK
<1>3. \A n \in Messages : queue[n] = "none" <=> queue'[n] = "none"
  BY <1>1, ConsumeMoves DEF Typed, TypeOK
<1>4. SentInv'
  BY <1>3, ConsumeMoves, MessageOfPair DEF Typed, SentInv
<1>5. ReceivesLeft'
  BY <1>1, ConsumeMoves DEF Typed, TypeOK, ReceivesLeft
<1>6. QED BY <1>2, <1>4, <1>5 DEF Typed

LEMMA TypedCrash ==
  ASSUME Typed, Crash
  PROVE  Typed'
<1>1. faults' \in FaultLogs
  BY FaultsTyped DEF Crash, Typed
<1>2. /\ step' = [r \in Requests |-> IF step[r] = "Send" THEN "crashed" ELSE step[r]]
      /\ queue' = [m \in Messages |-> IF queue[m] = "taken" THEN "waiting" ELSE queue[m]]
      /\ UNCHANGED <<signals, chosen, todo, unsent, receives, started>>
  BY DEF Crash, consumer
<1>3. TypeOK'
  BY <1>1, <1>2 DEF Typed, TypeOK, Steps, Places
<1>4. \A m \in Messages : /\ queue[m] = "none" <=> queue'[m] = "none"
                          /\ queue[m] = "visible" <=> queue'[m] = "visible"
  BY <1>2
<1>5. \A r \in Requests : step'[r] = "new" => step[r] = "new"
  BY <1>2
<1>6. SentInv'
  BY <1>2, <1>4, <1>5, MessageOfPair DEF Typed, SentInv
<1>7. ReceivesLeft'
  BY <1>2, <1>4 DEF Typed, ReceivesLeft
<1>8. QED BY <1>3, <1>6, <1>7 DEF Typed

LEMMA TypedStop ==
  ASSUME Typed, Stop
  PROVE  Typed'
<1>1. faults' \in FaultLogs
  BY FaultsTyped DEF Stop, Typed
<1>2. UNCHANGED <<signals, step, chosen, todo, unsent, queue, receives, started>>
  BY DEF Stop, consumer
<1>3. QED BY <1>1, <1>2 DEF Typed, TypeOK, SentInv, ReceivesLeft

LEMMA TypedStep ==
  ASSUME Typed, [Next]_vars
  PROVE  Typed'
<1>1. CASE UNCHANGED vars
  BY <1>1 DEF vars, Typed, TypeOK, SentInv, ReceivesLeft
<1>2. QED BY <1>1, TypedLookup, TypedSave, TypedSend, TypedConsume, TypedCrash, TypedStop DEF Next

\* Every variable keeps its type, whatever fails; in particular no message is
\* received more often than the queue allows.
THEOREM TypeCorrect == Spec => []TypeOK
<1>1. Init => Typed
  BY TypedInit
<1>2. Typed /\ [Next]_vars => Typed'
  BY TypedStep
<1>3. Typed => TypeOK
  BY DEF Typed
<1>4. QED BY <1>1, <1>2, <1>3, PTL DEF Spec

--------------------------------------------------------------------------------
LEMMA SavedInit ==
  ASSUME Init
  PROVE  SavedInv
  BY DEF Init, SavedInv, Succeeded

LEMMA SavedRequest ==
  ASSUME Typed, SavedInv, NEW r \in Requests,
         Lookup(r) \/ Save(r) \/ \E v \in Versions : Send(r, v)
  PROVE  SavedInv'
<1> USE DEF Typed, TypeOK, SavedInv, Succeeded
<1>1. CASE Save(r)
  <2>1. /\ step[r] = "Send"
        /\ todo[r] = {}
        /\ todo' = todo
        /\ \/ /\ step' = [step EXCEPT ![r] = IF SignalOf[r] \in signals THEN "duplicate" ELSE "accepted"]
              /\ signals' = signals \cup {SignalOf[r]}
           \/ /\ step' = [step EXCEPT ![r] = "unsaved"]
              /\ signals' \in {signals, signals \cup {SignalOf[r]}}
    BY <1>1 DEF Save, Goto
  <2>2. \A s \in signals : \E q \in Requests :
          SignalOf[q] = s /\ step'[q] \in {"accepted", "unsaved"}
    BY <2>1
  <2>3. SignalOf[r] \in signals' =>
          SignalOf[r] \in signals \/ step'[r] \in {"accepted", "unsaved"}
    BY <2>1
  <2>4. \A q \in Requests :
          /\ step'[q] \in Succeeded \cup {"unsaved"} => todo'[q] = {}
          /\ step'[q] \in Succeeded => SignalOf[q] \in signals'
    BY <2>1
  <2>5. QED BY <2>1, <2>2, <2>3, <2>4
<1>2. CASE Lookup(r) \/ \E v \in Versions : Send(r, v)
  <2>1. /\ signals' = signals
        /\ step[r] \in {"new", "Send"}
        /\ \A q \in Requests : q # r => step'[q] = step[q] /\ todo'[q] = todo[q]
        /\ step'[r] \in {"Send", "unmatched"}
    BY <1>2 DEF Lookup, Send, Goto
  <2>2. QED BY <2>1
<1>3. QED BY <1>1, <1>2

LEMMA SavedStep ==
  ASSUME Typed, SavedInv, [Next]_vars
  PROVE  SavedInv'
<1>1. CASE UNCHANGED vars
  BY <1>1 DEF vars, SavedInv
<1>2. ASSUME NEW m \in Messages, Consume(m)
      PROVE  SavedInv'
  BY <1>2, ConsumeMoves DEF SavedInv
<1>3. CASE Crash
  <2>1. /\ signals' = signals /\ todo' = todo
        /\ \A r \in Requests : step'[r] = step[r] \/ (step[r] = "Send" /\ step'[r] = "crashed")
    BY <1>3 DEF Crash
  <2>2. QED BY <2>1 DEF SavedInv, Succeeded
<1>4. CASE Stop
  BY <1>4 DEF Stop, SavedInv
<1>5. QED BY <1>1, <1>2, <1>3, <1>4, SavedRequest DEF Next

LEMMA SavedInvariant == Spec => [](Typed /\ SavedInv)
<1>1. Init => Typed /\ SavedInv
  BY TypedInit, SavedInit
<1>2. Typed /\ SavedInv /\ [Next]_vars => (Typed /\ SavedInv)'
  BY TypedStep, SavedStep
<1>3. QED BY <1>1, <1>2, PTL DEF Spec

LEMMA FinishedIsQueued ==
  ASSUME Typed, SavedInv, NEW r \in Requests, step[r] \in Succeeded \cup {"unsaved"}
  PROVE  Queued(r)
  BY DEF Typed, TypeOK, SentInv, SavedInv, Queued

\* A crash or a lost answer never leaves a saved signal that was not queued.
THEOREM NoSilentSignal == Spec => []SavedIsQueued
<1>1. Typed /\ SavedInv => SavedIsQueued
  BY FinishedIsQueued DEF SavedInv, SavedIsQueued, Succeeded
<1>2. QED BY <1>1, SavedInvariant, PTL

\* Success means that the signal is saved and everything chosen was sent, but
\* for the sends that failed.
THEOREM SuccessIsComplete == Spec => []SucceededIsQueued
<1>1. Typed /\ SavedInv => SucceededIsQueued
  BY FinishedIsQueued DEF SavedInv, SucceededIsQueued
<1>2. QED BY <1>1, SavedInvariant, PTL
================================================================================
