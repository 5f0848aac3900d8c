----------------------------- MODULE ZkCoordinator -----------------------------
(***************************************************************************)
(* The ZooKeeper coordinator (internal/coordinator/zk/zk_coordinator.go):  *)
(* one connection behind a RWMutex, used by calls of UpdateNode and        *)
(* UpsertNode, by the loop of one watch, by two monitors, by the           *)
(* goroutines that reconnect, and by Close.                                *)
(*                                                                         *)
(* handleReconnect holds the mutex and calls connect, which locks it       *)
(* again: a thread in step "Relock" waits for itself, and what the code    *)
(* has after that point (reestablishWatches) is never reached.  Read locks *)
(* only cover a copy of conn, so such a section is one step, possible when *)
(* no writer holds the mutex.                                              *)
(***************************************************************************)
EXTENDS Naturals, Sequences, FiniteSets, Functions

CONSTANTS
  Callers,       \* goroutines that call UpdateNode and UpsertNode
  Reconnectors,  \* goroutines that a loss of the session may start
  Attempts,      \* how often a reconnect tries (5)
  MaxNode,       \* bound: how many times the node is written
  MayFail,       \* the kinds of fault that may strike
  MaxFaults,     \* how many faults strike at most
  MayClose,      \* whether Close is called
  Session, Events, Watcher, Closer, Free

Faults == {"Loss", "Slow", "Connect", "Request", "Data"}
FaultLogs == Seq(Faults)
Monitors == {Session, Events}
Threads == Callers \cup Reconnectors \cup Monitors \cup {Watcher, Closer}

ASSUME ConstantsAssumption ==
  /\ Attempts \in Nat \ {0}
  /\ MaxNode \in Nat
  /\ MayFail \subseteq Faults
  /\ MaxFaults \in Nat
  /\ MayClose \in BOOLEAN
  /\ Session # Events /\ Watcher # Closer
  /\ Monitors \cap {Watcher, Closer} = {}
  /\ Callers \cap (Reconnectors \cup Monitors \cup {Watcher, Closer}) = {}
  /\ Reconnectors \cap (Monitors \cup {Watcher, Closer}) = {}
  /\ Free \notin Threads

ReconnectSteps == {"Lock", "Attempt", "Relock"}
CallSteps == {"Update", "Get", "Set", "Upsert", "Parent", "Create"}
WatchSteps == {"Loop", "GetW", "Wait", "Data"}
Steps == {"idle", "Tick", "done", "panicked"} \cup ReconnectSteps \cup CallSteps \cup WatchSteps

VARIABLES
  conn,       \* "open", or "nil" once it was closed
  session,    \* of conn: "none" at first, "live" or "lost"
  lost,       \* a loss is waiting in the events channel of conn
  stray,      \* connections that connect opened and could not store
  lock,       \* the writer that holds the mutex
  step,       \* the next step of each thread
  attempt,    \* attempts so far of the reconnect that holds the mutex
  cancelled,  \* the context of the coordinator
  node,       \* version of the node, 0 while it does not exist
  version,    \* the version that a call read and will set on
  watch,      \* "unset", "armed", "changed" or "invalid"
  handled,    \* the version of the data that the handler got last
  faults      \* the faults that struck, in their order

connection == <<conn, session, lost, stray>>
vars == <<conn, session, lost, stray, lock, step, attempt, cancelled, node,
          version, watch, handled, faults>>

\* NewZKCoordinator and one WatchNode.
Init ==
  /\ conn = "open"
  /\ session = "none"
  /\ lost = FALSE
  /\ stray = 0
  /\ lock = Free
  /\ step = [t \in Threads |->
       CASE t = Session -> "Tick" [] t = Watcher -> "Loop" [] OTHER -> "idle"]
  /\ attempt = 0
  /\ cancelled = FALSE
  /\ node = 0
  /\ version = [c \in Callers |-> 0]
  /\ watch = "unset"
  /\ handled = 0
  /\ faults = <<>>

Ok == UNCHANGED faults
Fails(f) ==
  /\ f \in MayFail
  /\ Len(faults) < MaxFaults
  /\ faults' = Append(faults, f)

\* The kinds of fault that struck so far.
Struck == Range(faults)

Goto(t, s) == step' = [step EXCEPT ![t] = s]

Invalidated == IF watch = "armed" THEN "invalid" ELSE watch

--------------------------------------------------------------------------------
(***************************************************************************)
(* The client library: it connects, and reconnects, by itself.             *)
(***************************************************************************)
Establish ==
  /\ conn = "open"
  /\ session # "live"
  /\ session' = "live"
  /\ UNCHANGED <<conn, lost, stray, lock, step, attempt, cancelled, node, version,
                 watch, handled, faults>>

LoseSession ==
  /\ conn = "open"
  /\ session = "live"
  /\ Fails("Loss")
  /\ session' = "lost"
  /\ lost' = TRUE
  /\ watch' \in {watch, Invalidated}
  /\ UNCHANGED <<conn, stray, lock, step, attempt, cancelled, node, version, handled>>

\* conn.Close, which may report a last loss, and conn = nil.
CloseConn ==
  /\ conn' = "nil"
  /\ session' = "lost"
  /\ lost' \in IF conn = "open" THEN {lost, TRUE} ELSE {lost}
  /\ watch' = Invalidated

--------------------------------------------------------------------------------
(***************************************************************************)
(* The monitors and handleReconnect.                                       *)
(***************************************************************************)

\* Every five seconds; a first session that takes longer ("Slow") counts as lost.
Tick ==
  /\ step[Session] = "Tick"
  /\ \/ cancelled /\ Goto(Session, "done") /\ Ok
     \/ /\ lock = Free
        /\ conn = "open"
        /\ (session = "lost" /\ Ok) \/ (session = "none" /\ Fails("Slow"))
        /\ Goto(Session, "Lock")
  /\ UNCHANGED <<connection, lock, attempt, cancelled, node, version, watch, handled>>

\* The channel of the events is closed with the connection.
MonitorEvents ==
  /\ step[Events] = "idle"
  /\ \/ /\ cancelled \/ (conn = "nil" /\ ~lost)
        /\ Goto(Events, "done")
        /\ UNCHANGED lost
     \/ /\ lost
        /\ lost' = FALSE
        /\ \E g \in Reconnectors : step[g] = "idle" /\ Goto(g, "Lock")
  /\ UNCHANGED <<conn, session, stray, lock, attempt, cancelled, node, version, watch,
                 handled, faults>>

\* Seeded fault: the connection is replaced without being closed.
LockOnly(t) ==
  /\ step[t] = "Lock"
  /\ lock = Free
  /\ lock' = t
  /\ Goto(t, "Attempt")
  /\ attempt' = 0
  /\ UNCHANGED <<connection, cancelled, node, version, watch, handled, faults>>

LockAndClose(t) ==
  /\ step[t] = "Lock"
  /\ lock = Free
  /\ lock' = t
  /\ CloseConn
  /\ Goto(t, "Attempt")
  /\ attempt' = 0
  /\ UNCHANGED <<stray, cancelled, node, version, handled, faults>>

\* The end of handleReconnect: the session monitor goes on, a goroutine ends.
Unlock(t) ==
  /\ lock' = Free
  /\ Goto(t, IF t = Session THEN "Tick" ELSE "idle")

\* Seeded fault: the context is not looked at.
ConnectAlways(t) ==
  /\ step[t] = "Attempt"
  /\ \/ attempt = Attempts /\ Unlock(t) /\ Ok /\ UNCHANGED <<stray, attempt>>
     \/ attempt < Attempts /\ Ok /\ stray' = stray + 1 /\ Unlock(t) /\ UNCHANGED attempt
     \/ attempt < Attempts /\ Fails("Connect") /\ attempt' = attempt + 1 /\ UNCHANGED <<stray, step, lock>>
  /\ UNCHANGED <<conn, session, lost, cancelled, node, version, watch, handled>>

\* One round of the loop: the context, zk.Connect, and the Lock in connect.
Connect(t) ==
  /\ step[t] = "Attempt"
  /\ \/ /\ cancelled \/ attempt = Attempts
        /\ Unlock(t)
        /\ Ok
        /\ UNCHANGED <<stray, attempt>>
     \/ /\ ~cancelled
        /\ attempt < Attempts
        /\ \/ Ok /\ stray' = stray + 1 /\ Goto(t, "Relock") /\ UNCHANGED attempt
           \/ Fails("Connect") /\ attempt' = attempt + 1 /\ UNCHANGED <<stray, step>>
        /\ UNCHANGED lock
  /\ UNCHANGED <<conn, session, lost, cancelled, node, version, watch, handled>>

Reconnect(t) == LockAndClose(t) \/ Connect(t)

--------------------------------------------------------------------------------
(***************************************************************************)
(* UpdateNode and UpsertNode, which call each other.                       *)
(***************************************************************************)
Unchanged == <<conn, session, lost, stray, lock, attempt, cancelled, handled>>

Works == conn = "open" /\ session = "live"

\* A request that fails, or that meets a connection which is closed or broken.
Broken == (session = "lost" /\ Ok) \/ Fails("Request")

Call(c) ==
  /\ step[c] = "idle"
  /\ node < MaxNode
  /\ \E s \in {"Update", "Upsert"} : Goto(c, s)
  /\ UNCHANGED <<Unchanged, node, version, watch, faults>>

\* The copy of conn under the read lock, and the error if there is none.
ReadConn(c) ==
  /\ lock = Free
  /\ \/ step[c] = "Update" /\ Goto(c, IF conn = "nil" THEN "idle" ELSE "Get")
     \/ step[c] = "Upsert" /\ Goto(c, IF conn = "nil" THEN "idle" ELSE "Parent")
  /\ UNCHANGED <<Unchanged, node, version, watch, faults>>

GetVersion(c) ==
  /\ step[c] = "Get"
  /\ \/ Works /\ Ok /\ Goto(c, IF node = 0 THEN "Upsert" ELSE "Set")
     \/ Broken /\ Goto(c, "idle")
  /\ version' = [version EXCEPT ![c] = IF step'[c] = "Set" THEN node ELSE 0]
  /\ UNCHANGED <<Unchanged, node, watch>>

\* Seeded fault: a conflict is tried again with the version that was read.
SetAgain(c) ==
  /\ step[c] = "Set"
  /\ \/ /\ Works
        /\ Ok
        /\ IF node = version[c]
           THEN /\ node' = node + 1
                /\ watch' = IF watch = "armed" THEN "changed" ELSE watch
                /\ Goto(c, "idle")
           ELSE UNCHANGED <<node, watch, step>>
     \/ Broken /\ Goto(c, "idle") /\ UNCHANGED <<node, watch>>
  /\ UNCHANGED <<Unchanged, version>>

SetVersion(c) ==
  /\ step[c] = "Set"
  /\ \/ /\ Works
        /\ Ok
        /\ IF node = version[c]
           THEN /\ node' = node + 1
                /\ watch' = IF watch = "armed" THEN "changed" ELSE watch
           ELSE UNCHANGED <<node, watch>>
     \/ Broken /\ UNCHANGED <<node, watch>>
  /\ Goto(c, "idle")
  /\ version' = [version EXCEPT ![c] = 0]
  /\ UNCHANGED Unchanged

\* ensureParentPath uses c.conn itself, without the mutex: a nil is dereferenced.
EnsureParent(c) ==
  /\ step[c] = "Parent"
  /\ \/ conn = "nil" /\ Ok /\ Goto(c, "panicked")
     \/ Works /\ Ok /\ Goto(c, "Create")
     \/ conn = "open" /\ Broken /\ Goto(c, "idle")
  /\ UNCHANGED <<Unchanged, node, version, watch>>

CreateNode(c) ==
  /\ step[c] = "Create"
  /\ \/ /\ Works
        /\ Ok
        /\ IF node = 0 THEN node' = 1 /\ Goto(c, "idle")
           ELSE UNCHANGED node /\ Goto(c, "Update")
     \/ Broken /\ Goto(c, "idle") /\ UNCHANGED node
  /\ UNCHANGED <<Unchanged, version, watch>>

Caller(c) ==
  ReadConn(c) \/ GetVersion(c) \/ SetVersion(c) \/ EnsureParent(c) \/ CreateNode(c)

--------------------------------------------------------------------------------
(***************************************************************************)
(* startWatch.                                                             *)
(***************************************************************************)
Loop ==
  /\ step[Watcher] = "Loop"
  /\ \/ cancelled /\ Goto(Watcher, "done")
     \/ ~cancelled /\ lock = Free /\ conn = "open" /\ Goto(Watcher, "GetW")
  /\ UNCHANGED <<Unchanged, node, version, watch, faults>>

GetW ==
  /\ step[Watcher] = "GetW"
  /\ \/ Works /\ Ok /\ node > 0 /\ watch' = "armed" /\ Goto(Watcher, "Wait")
     \/ Works /\ Ok /\ node = 0 /\ UNCHANGED watch /\ Goto(Watcher, "Loop")
     \/ Broken /\ UNCHANGED watch /\ Goto(Watcher, "Loop")
  /\ UNCHANGED <<Unchanged, node, version>>

\* Seeded fault: an event only arms the watch again.
WaitAndRearm ==
  /\ step[Watcher] = "Wait"
  /\ \/ cancelled /\ Goto(Watcher, "done") /\ UNCHANGED watch
     \/ watch \in {"changed", "invalid"} /\ watch' = "unset" /\ Goto(Watcher, "Loop")
  /\ UNCHANGED <<Unchanged, node, version, faults>>

Wait ==
  /\ step[Watcher] = "Wait"
  /\ \/ cancelled /\ Goto(Watcher, "done") /\ UNCHANGED watch
     \/ watch = "changed" /\ watch' = "unset" /\ Goto(Watcher, "Data")
     \/ watch = "invalid" /\ watch' = "unset" /\ Goto(Watcher, "Loop")
  /\ UNCHANGED <<Unchanged, node, version, faults>>

\* The Get of the new data, and the handler.
Handle ==
  /\ step[Watcher] = "Data"
  /\ \/ Works /\ Ok /\ handled' = node
     \/ /\ (session = "lost" /\ Ok) \/ Fails("Data")
        /\ UNCHANGED handled
  /\ Goto(Watcher, "Loop")
  /\ UNCHANGED <<conn, session, lost, stray, lock, attempt, cancelled, node, version, watch>>

StartWatch == Loop \/ GetW \/ Wait \/ Handle

--------------------------------------------------------------------------------
(***************************************************************************)
(* Close.                                                                  *)
(***************************************************************************)
\* Seeded fault: the context is left alone.
CancelNothing ==
  /\ MayClose
  /\ step[Closer] = "idle"
  /\ Goto(Closer, "Lock")
  /\ UNCHANGED <<connection, lock, attempt, cancelled, node, version, watch, handled, faults>>

Cancel ==
  /\ MayClose
  /\ step[Closer] = "idle"
  /\ cancelled' = TRUE
  /\ Goto(Closer, "Lock")
  /\ UNCHANGED <<connection, lock, attempt, node, version, watch, handled, faults>>

Close ==
  /\ step[Closer] = "Lock"
  /\ lock = Free
  /\ CloseConn
  /\ Goto(Closer, "done")
  /\ UNCHANGED <<stray, lock, attempt, cancelled, node, version, handled, faults>>

\* Another process, which runs the same code, creates or changes the node.
OtherWrites ==
  /\ node < MaxNode
  /\ node' = node + 1
  /\ watch' = IF watch = "armed" THEN "changed" ELSE watch
  /\ UNCHANGED <<Unchanged, step, version, faults>>

Next ==
  \/ Establish
  \/ LoseSession
  \/ OtherWrites
  \/ Tick
  \/ MonitorEvents
  \/ \E t \in Reconnectors \cup {Session} : Reconnect(t)
  \/ \E c \in Callers : Call(c) \/ Caller(c)
  \/ StartWatch
  \/ Cancel
  \/ Close

Spec == Init /\ [][Next]_vars

\* Goroutines go on, and the library gets a session while ZooKeeper is there.
Fairness ==
  /\ WF_vars(Establish)
  /\ WF_vars(Tick)
  /\ WF_vars(MonitorEvents)
  /\ \A t \in Reconnectors \cup {Session} : WF_vars(Reconnect(t))
  /\ \A c \in Callers : WF_vars(Caller(c))
  /\ WF_vars(StartWatch)
  /\ WF_vars(Close)

FairSpec == Spec /\ Fairness

--------------------------------------------------------------------------------
(***************************************************************************)
(* What the coordinator promises.                                          *)
(***************************************************************************)

\* Every variable has its type.
TypeOK ==
  /\ conn \in {"open", "nil"}
  /\ session \in {"none", "live", "lost"}
  /\ lost \in BOOLEAN
  /\ stray \in Nat
  /\ lock \in Threads \cup {Free}
  /\ step \in [Threads -> Steps]
  /\ attempt \in 0 .. Attempts
  /\ cancelled \in BOOLEAN
  /\ node \in Nat
  /\ version \in [Callers -> Nat]
  /\ watch \in {"unset", "armed", "changed", "invalid"}
  /\ handled \in Nat
  /\ faults \in FaultLogs

\* However many goroutines report one loss, and whatever fails meanwhile, there
\* is never more than one connection.
OneConnection ==
  stray <= 1 /\ (conn = "open" => stray = 0)

\* When Close has returned, there is no connection, and none is made by a
\* reconnect that was on its way.
ClosedForGood ==
  step[Closer] = "done" => conn = "nil" /\ stray = 0

\* A reconnect that was started keeps the mutex for ever (see Connect).
Reconnecting == Struck \cap {"Loss", "Slow"} # {}

\* No call of UpdateNode or UpsertNode, which call each other, goes on for ever,
\* whatever requests of other calls change or fail meanwhile.
CallsEnd ==
  \A c \in Callers : step[c] \in CallSteps ~> step[c] \notin CallSteps \/ Reconnecting

\* "Cancel context to stop all goroutines": after Close they all end.
ClosedStops ==
  step[Closer] # "idle" ~>
    \/ /\ \A t \in Monitors \cup {Watcher, Closer} : step[t] = "done"
       /\ \A g \in Reconnectors : step[g] = "idle"
    \/ Reconnecting

\* A change that meets an armed watch gets to the handler, unless its data cannot
\* be read or the coordinator is closed.
ChangeReachesHandler ==
  \A v \in 1 .. MaxNode :
    watch = "changed" /\ node = v ~>
      handled >= v \/ cancelled \/ Reconnecting \/ "Data" \in Struck

\* "handles ZK reconnection": after a loss there is a session again.
Reconnects ==
  session = "lost" ~> session = "live"
================================================================================
