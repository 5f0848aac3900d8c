-------------------------- MODULE ZkCoordinatorProofs --------------------------
(***************************************************************************)
(* Theorems about ZkCoordinator, for any callers, goroutines and bounds.   *)
(***************************************************************************)
EXTENDS ZkCoordinator, TLAPS

LEMMA ThreadsAreDistinct ==
  /\ {Session, Events, Watcher, Closer} \subseteq Threads
  /\ Callers \subseteq Threads /\ Reconnectors \subseteq Threads
  /\ Session # Events /\ Watcher # Closer /\ Watcher \notin Monitors /\ Closer \notin Monitors
  /\ \A c \in Callers : c \notin Reconnectors \cup {Session, Events, Watcher, Closer}
  /\ \A g \in Reconnectors : g \notin {Session, Events, Watcher, Closer}
  /\ \A t \in Threads : t # Free
  BY ConstantsAssumption DEF Threads, Monitors

LEMMA FaultsTyped ==
  ASSUME TypeOK, NEW kind, Ok \/ Fails(kind)
  PROVE  faults' \in FaultLogs
<1>1. faults \in Seq(Faults)
  BY DEF TypeOK, FaultLogs
<1>2. MayFail \subseteq Faults
  BY ConstantsAssumption
<1>3. QED BY <1>1, <1>2 DEF Ok, Fails, FaultLogs

LEMMA BrokenTyped ==
  ASSUME TypeOK, Broken
  PROVE  faults' \in FaultLogs
  BY FaultsTyped DEF Broken

\* The steps that a reconnect takes with the mutex.
Held == {"Attempt", "Relock"}

\* Whoever is in such a step holds the mutex; while it is held there is no
\* connection, but for the one that its holder could not store.
LockInv ==
  /\ \A t \in Threads : step[t] \in Held => lock = t
  /\ lock # Free => conn = "nil"
  /\ stray = IF lock # Free /\ step[lock] = "Relock" THEN 1 ELSE 0

\* A closed coordinator has no connection, and its context is cancelled.
CloseInv ==
  /\ step[Closer] # "idle" => cancelled
  /\ step[Closer] = "done" => conn = "nil" /\ stray = 0

IInv == TypeOK /\ LockInv /\ CloseInv

\* A step of a thread that neither takes nor gives back the mutex.
Quiet(t) ==
  /\ \E s \in Steps \ Held : step' = [step EXCEPT ![t] = s]
  /\ step[t] \notin Held
  /\ conn' \in {conn, "nil"}
  /\ session' \in {"none", "live", "lost"}
  /\ lost' \in BOOLEAN
  /\ node' \in Nat
  /\ version' \in [Callers -> Nat]
  /\ watch' \in {"unset", "armed", "changed", "invalid"}
  /\ handled' \in Nat
  /\ faults' \in FaultLogs
  /\ UNCHANGED <<stray, lock, attempt>>

LEMMA QuietKeeps ==
  ASSUME IInv, NEW t \in Threads, Quiet(t), cancelled' \in BOOLEAN
  PROVE  TypeOK' /\ LockInv'
<1>1. PICK s \in Steps \ Held : step' = [step EXCEPT ![t] = s]
  BY DEF Quiet
<1>2. step' \in [Threads -> Steps]
  BY <1>1 DEF IInv, TypeOK
<1>3. TypeOK'
  BY <1>2 DEF IInv, TypeOK, Quiet
<1>4. \A u \in Threads : step'[u] \in Held => step'[u] = step[u]
  BY <1>1 DEF IInv, TypeOK
<1>5. \A u \in Threads : step[u] = "Relock" <=> step'[u] = "Relock"
  BY <1>1 DEF IInv, TypeOK, Quiet, Held
<1>6. LockInv'
  <2>1. \A u \in Threads : step'[u] \in Held => lock' = u
    BY <1>4 DEF IInv, LockInv, Quiet
  <2>2. lock' # Free => conn' = "nil"
    BY DEF IInv, LockInv, Quiet
  <2>3. lock # Free => lock \in Threads
    BY DEF IInv, TypeOK
  <2>4. stray' = IF lock' # Free /\ step'[lock'] = "Relock" THEN 1 ELSE 0
    BY <1>5, <2>3 DEF IInv, LockInv, Quiet
  <2>5. QED BY <2>1, <2>2, <2>4 DEF LockInv
<1>7. QED BY <1>3, <1>6

\* ... and such a step of another thread than Close leaves a closed
\* coordinator closed.
LEMMA QuietStaysClosed ==
  ASSUME IInv, NEW t \in Threads \ {Closer}, Quiet(t), UNCHANGED cancelled
  PROVE  IInv'
<1>1. TypeOK' /\ LockInv'
  BY QuietKeeps DEF IInv, TypeOK
<1>2. step'[Closer] = step[Closer]
  BY ThreadsAreDistinct DEF Quiet, IInv, TypeOK
<1>3. CloseInv'
  BY <1>2 DEF Quiet, IInv, CloseInv
<1>4. QED BY <1>1, <1>3 DEF IInv

LEMMA InitIInv ==
  ASSUME Init
  PROVE  IInv
<1>1. 0 \in 0 .. Attempts /\ <<>> \in FaultLogs
  BY ConstantsAssumption DEF FaultLogs
<1>2. step \in [Threads -> {"Tick", "Loop", "idle"}]
  BY DEF Init
<1>3. step[Closer] = "idle"
  BY ThreadsAreDistinct DEF Init, Monitors
<1>4. {"Tick", "Loop", "idle"} \subseteq Steps
  BY DEF Steps, WatchSteps
<1>5. TypeOK
  BY <1>1, <1>2, <1>4 DEF Init, TypeOK
<1>6. LockInv
  BY <1>2 DEF Init, LockInv, Held
<1>7. CloseInv
  BY <1>3 DEF Init, CloseInv
<1>8. QED BY <1>5, <1>6, <1>7 DEF IInv

\* The library, and other processes, change the session, the watch and the node.
LEMMA LibraryStep ==
  ASSUME IInv, Establish \/ LoseSession \/ OtherWrites
  PROVE  IInv'
<1>1. faults' \in FaultLogs
  BY FaultsTyped DEF Establish, LoseSession, OtherWrites, IInv, TypeOK
<1>2. /\ session' \in {"none", "live", "lost"}
      /\ lost' \in BOOLEAN
      /\ watch' \in {"unset", "armed", "changed", "invalid"}
      /\ node' \in Nat
      /\ UNCHANGED <<conn, stray, lock, step, attempt, cancelled, version, handled>>
  <2> USE DEF IInv, TypeOK
  <2>1. CASE Establish \/ LoseSession
    BY <2>1 DEF Establish, LoseSession, Invalidated
  <2>2. CASE OtherWrites
    BY <2>2 DEF OtherWrites, Unchanged
  <2>3. QED BY <2>1, <2>2
<1>3. QED BY <1>1, <1>2 DEF IInv, TypeOK, LockInv, CloseInv

LEMMA TickStep ==
  ASSUME IInv, Tick
  PROVE  IInv'
<1>1. faults' \in FaultLogs
  BY FaultsTyped DEF Tick, IInv
<1>2. Quiet(Session) /\ UNCHANGED cancelled
  BY <1>1 DEF Tick, Quiet, Goto, Steps, ReconnectSteps, Held, connection, IInv, TypeOK
<1>3. QED BY <1>2, QuietStaysClosed, ThreadsAreDistinct, ConstantsAssumption DEF Monitors

LEMMA MonitorEventsStep ==
  ASSUME IInv, MonitorEvents
  PROVE  IInv'
<1>1. \E t \in Reconnectors \cup {Events} : Quiet(t)
  BY DEF MonitorEvents, Quiet, Goto, Steps, ReconnectSteps, Held, IInv, TypeOK
<1>2. UNCHANGED cancelled
  BY DEF MonitorEvents
<1>3. Reconnectors \cup {Events} \subseteq Threads \ {Closer}
  BY ThreadsAreDistinct, ConstantsAssumption DEF Monitors
<1>4. QED BY <1>1, <1>2, <1>3, QuietStaysClosed

LEMMA CallerStep ==
  ASSUME IInv, NEW c \in Callers, Call(c) \/ Caller(c)
  PROVE  IInv'
<1> USE DEF Unchanged, Quiet, Goto, Steps, CallSteps, Held
<1>1. c \in Threads \ {Closer}
  BY ThreadsAreDistinct
<1>2. CASE Call(c) \/ ReadConn(c)
  <2>1. Quiet(c) /\ UNCHANGED cancelled
    BY <1>2 DEF Call, ReadConn, IInv, TypeOK
  <2>2. QED BY <1>1, <2>1, QuietStaysClosed
<1>3. CASE GetVersion(c) \/ EnsureParent(c)
  <2>1. faults' \in FaultLogs
    BY <1>3, FaultsTyped, BrokenTyped DEF GetVersion, EnsureParent, IInv
  <2>2. Quiet(c) /\ UNCHANGED cancelled
    BY <1>3, <2>1 DEF GetVersion, EnsureParent, IInv, TypeOK
  <2>3. QED BY <1>1, <2>2, QuietStaysClosed
<1>4. CASE SetVersion(c) \/ CreateNode(c)
  <2>1. faults' \in FaultLogs
    BY <1>4, FaultsTyped, BrokenTyped DEF SetVersion, CreateNode, IInv
  <2>2. node' \in Nat /\ watch' \in {"unset", "armed", "changed", "invalid"}
    BY <1>4 DEF SetVersion, CreateNode, IInv, TypeOK
  <2>3. Quiet(c) /\ UNCHANGED cancelled
    BY <1>4, <2>1, <2>2 DEF SetVersion, CreateNode, IInv, TypeOK
  <2>4. QED BY <1>1, <2>3, QuietStaysClosed
<1>5. QED BY <1>2, <1>3, <1>4 DEF Caller

LEMMA WatchStep ==
  ASSUME IInv, StartWatch
  PROVE  IInv'
<1> USE DEF Unchanged, Quiet, Goto, Steps, WatchSteps, Held
<1>1. Watcher \in Threads \ {Closer}
  BY ThreadsAreDistinct
<1>2. CASE Loop \/ Wait
  <2>1. Quiet(Watcher) /\ UNCHANGED cancelled
    BY <1>2 DEF Loop, Wait, IInv, TypeOK
  <2>2. QED BY <1>1, <2>1, QuietStaysClosed
<1>3. CASE GetW
  <2>1. faults' \in FaultLogs
    BY <1>3, FaultsTyped, BrokenTyped DEF GetW, IInv
  <2>2. Quiet(Watcher) /\ UNCHANGED cancelled
    BY <1>3, <2>1 DEF GetW, IInv, TypeOK
  <2>3. QED BY <1>1, <2>2, QuietStaysClosed
<1>4. CASE Handle
  <2>1. faults' \in FaultLogs
    BY <1>4, FaultsTyped DEF Handle, IInv
  <2>2. Quiet(Watcher) /\ UNCHANGED cancelled
    BY <1>4, <2>1 DEF Handle, IInv, TypeOK
  <2>3. QED BY <1>1, <2>2, QuietStaysClosed
<1>5. QED BY <1>2, <1>3, <1>4 DEF StartWatch

LEMMA CloserStep ==
  ASSUME IInv, Cancel \/ Close
  PROVE  IInv'
<1>1. Closer \in Threads
  BY ThreadsAreDistinct
<1>2. cancelled' \in BOOLEAN /\ ((step'[Closer] = "Lock" /\ cancelled') \/ step'[Closer] = "done")
  BY <1>1 DEF Cancel, Close, Goto, IInv, TypeOK
<1>3. Quiet(Closer)
  BY <1>1 DEF Cancel, Close, CloseConn, Invalidated, Quiet, Goto, Steps, ReconnectSteps,
              Held, connection, IInv, TypeOK
<1>4. TypeOK' /\ LockInv'
  BY <1>1, <1>2, <1>3, QuietKeeps
<1>5. CASE Cancel
  <2>1. step'[Closer] = "Lock" /\ cancelled' = TRUE
    BY <1>1, <1>5 DEF Cancel, Goto, IInv, TypeOK
  <2>2. CloseInv'
    BY <2>1 DEF CloseInv
  <2>3. QED BY <1>4, <2>2 DEF IInv
<1>6. CASE Close
  <2>1. stray' = 0 /\ conn' = "nil" /\ cancelled'
    BY <1>6 DEF Close, CloseConn, IInv, LockInv, CloseInv
  <2>2. QED BY <2>1, <1>4 DEF CloseInv, IInv
<1>7. QED BY <1>4, <1>5, <1>6 DEF IInv

LEMMA LockStep ==
  ASSUME IInv, NEW t \in Reconnectors \cup {Session}, LockAndClose(t)
  PROVE  IInv'
<1>1. t \in Threads /\ t # Closer /\ t # Free
  BY ThreadsAreDistinct, ConstantsAssumption DEF Monitors
<1>2. /\ step' = [step EXCEPT ![t] = "Attempt"]
      /\ lock = Free /\ lock' = t
      /\ conn' = "nil"
      /\ UNCHANGED <<stray, cancelled>>
  BY DEF LockAndClose, Goto, CloseConn
<1>3. TypeOK'
  <2>1. step' \in [Threads -> Steps]
    BY <1>2 DEF Steps, ReconnectSteps, IInv, TypeOK
  <2>2. /\ attempt' = 0
        /\ session' = "lost"
        /\ lost' \in BOOLEAN
        /\ watch' \in {"unset", "armed", "changed", "invalid"}
        /\ UNCHANGED <<node, version, handled, faults>>
    BY DEF LockAndClose, CloseConn, Invalidated, IInv, TypeOK
  <2>3. 0 \in 0 .. Attempts
    BY ConstantsAssumption
  <2>4. QED BY <1>1, <1>2, <2>1, <2>2, <2>3 DEF IInv, TypeOK
<1>4. \A u \in Threads : step[u] \notin Held
  BY <1>2, ThreadsAreDistinct DEF IInv, LockInv
<1>5. LockInv'
  <2>1. \A u \in Threads : step'[u] \in Held => lock' = u
    BY <1>1, <1>2, <1>4 DEF IInv, TypeOK
  <2>2. stray' = 0 /\ step'[t] = "Attempt"
    BY <1>1, <1>2 DEF IInv, LockInv, TypeOK
  <2>3. QED BY <1>2, <2>1, <2>2 DEF LockInv
<1>6. step'[Closer] = step[Closer]
  BY <1>1, <1>2, ThreadsAreDistinct DEF IInv, TypeOK
<1>7. CloseInv'
  BY <1>2, <1>6 DEF IInv, CloseInv
<1>8. QED BY <1>3, <1>5, <1>7 DEF IInv

LEMMA ConnectStep ==
  ASSUME IInv, NEW t \in Reconnectors \cup {Session}, Connect(t)
  PROVE  IInv'
<1>1. t \in Threads /\ t # Closer /\ t # Free
  BY ThreadsAreDistinct, ConstantsAssumption DEF Monitors
<1>2. lock = t /\ stray = 0 /\ conn = "nil" /\ step[t] = "Attempt"
  BY <1>1 DEF Connect, IInv, LockInv, Held
<1>3. UNCHANGED <<conn, session, lost, cancelled, node, version, watch, handled>>
  BY DEF Connect
<1>4. faults' \in FaultLogs
  BY FaultsTyped DEF Connect, IInv
<1>5. \A u \in Threads : step[u] \in Held => u = t
  BY <1>2 DEF IInv, LockInv
<1>6. CASE Unlock(t) /\ UNCHANGED <<stray, attempt>>
  <2>1. PICK s \in {"Tick", "idle"} : step' = [step EXCEPT ![t] = s]
    BY <1>6 DEF Unlock, Goto
  <2>2. TypeOK'
    BY <1>3, <1>4, <1>6, <2>1 DEF Unlock, Steps, IInv, TypeOK
  <2>3. \A u \in Threads : step'[u] \notin Held
    BY <1>5, <2>1 DEF Held, IInv, TypeOK
  <2>4. LockInv'
    BY <1>2, <1>6, <2>3 DEF Unlock, LockInv
  <2>5. step'[Closer] = step[Closer]
    BY <1>1, <2>1, ThreadsAreDistinct DEF IInv, TypeOK
  <2>6. CloseInv'
    BY <1>3, <1>6, <2>5 DEF IInv, CloseInv
  <2>7. QED BY <2>2, <2>4, <2>6 DEF IInv
<1>7. CASE /\ ~cancelled
           /\ stray' = stray + 1
           /\ Goto(t, "Relock")
           /\ UNCHANGED <<attempt, lock>>
  <2>1. step' = [step EXCEPT ![t] = "Relock"]
    BY <1>7 DEF Goto
  <2>2. stray' = 1
    BY <1>2, <1>7
  <2>3. TypeOK'
    <3>1. step' \in [Threads -> Steps]
      BY <2>1 DEF Steps, ReconnectSteps, IInv, TypeOK
    <3>2. QED BY <1>3, <1>4, <1>7, <2>2, <3>1 DEF IInv, TypeOK
  <2>4. \A u \in Threads : step'[u] \in Held => lock' = u
    BY <1>2, <1>5, <1>7, <2>1 DEF IInv, TypeOK
  <2>5. step'[t] = "Relock"
    BY <1>1, <2>1 DEF IInv, TypeOK
  <2>6. LockInv'
    BY <1>1, <1>2, <1>3, <1>7, <2>2, <2>4, <2>5 DEF LockInv
  <2>7. step'[Closer] = step[Closer]
    BY <1>1, <2>1, ThreadsAreDistinct DEF IInv, TypeOK
  <2>8. CloseInv'
    BY <1>3, <1>7, <2>7 DEF IInv, CloseInv
  <2>9. QED BY <2>3, <2>6, <2>8 DEF IInv
<1>8. CASE /\ attempt < Attempts
           /\ attempt' = attempt + 1
           /\ UNCHANGED <<stray, step, lock>>
  <2>1. attempt' \in 0 .. Attempts
    BY <1>8, ConstantsAssumption DEF IInv, TypeOK
  <2>2. QED BY <1>3, <1>4, <1>8, <2>1 DEF IInv, TypeOK, LockInv, CloseInv
<1>9. QED BY <1>6, <1>7, <1>8 DEF Connect

LEMMA StepIInv ==
  ASSUME IInv, [Next]_vars
  PROVE  IInv'
<1>1. CASE UNCHANGED vars
  BY <1>1 DEF vars, IInv, TypeOK, LockInv, CloseInv
<1>2. QED BY <1>1, LibraryStep, TickStep, MonitorEventsStep, CallerStep, WatchStep,
             CloserStep, LockStep, ConnectStep DEF Next, Reconnect

\* The inductive invariant: types, who holds the mutex, and what is closed.
THEOREM Invariance == Spec => []IInv
<1>1. Init => IInv
  BY InitIInv
<1>2. IInv /\ [Next]_vars => IInv'
  BY StepIInv
<1>3. QED BY <1>1, <1>2, PTL DEF Spec

\* Every variable keeps its type.
THEOREM TypeCorrect == Spec => []TypeOK
<1>1. IInv => TypeOK
  BY DEF IInv
<1>2. QED BY <1>1, Invariance, PTL

\* However many goroutines reconnect, there is at most one connection.
THEOREM SingleConnection == Spec => []OneConnection
<1>1. IInv => OneConnection
  BY DEF IInv, LockInv, OneConnection
<1>2. QED BY <1>1, Invariance, PTL

\* After Close no connection is left, and none is made.
THEOREM StaysClosed == Spec => []ClosedForGood
<1>1. IInv => ClosedForGood
  BY DEF IInv, CloseInv, ClosedForGood
<1>2. QED BY <1>1, Invariance, PTL
================================================================================
