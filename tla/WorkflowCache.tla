----------------------------- MODULE WorkflowCache -----------------------------
(***************************************************************************)
(* The workflow cache of one ingestion process                             *)
(* (internal/service/workflow_manager.go), kept up to date by a watch on a *)
(* ZooKeeper node that every creation of a workflow changes                *)
(* (internal/handler/workflow_handler.go).                                 *)
(*                                                                         *)
(* Callers look workflows up, by signal type or by id and version, in the  *)
(* cache or, after a miss, in the table, holding the manager's lock.  The  *)
(* watcher, one goroutine, reloads the cache when the node changes and     *)
(* then arms its one-shot watch again.                                     *)
(*                                                                         *)
(* A workflow here is one version of one: rows are created and never       *)
(* changed.  Time stamps in the node are left out: each write makes a new  *)
(* version of it and fires the watch, whatever it writes.                  *)
(***************************************************************************)
EXTENDS Naturals, Sequences, FiniteSets, Functions

CONSTANTS
  Workflows,   \* the workflows that may be created
  Types,       \* signal types
  TypeOf,      \* the signal type of each workflow
  PageSize,    \* how many rows the scan of a refresh returns at most (50)
  Callers,     \* goroutines that look workflows up
  Watcher,     \* the goroutine that starts the manager and watches the node
  MayFail,     \* the kinds of fault that may strike
  MaxFaults,   \* how many faults strike at most
  NoCall, Free

Faults == {"Save", "Trigger", "Scan", "Query", "Data", "StaleRead", "Restart"}
FaultLogs == Seq(Faults)
Threads == Callers \cup {Watcher}

ASSUME ConstantsAssumption ==
  /\ IsFiniteSet(Workflows)
  /\ TypeOf \in [Workflows -> Types]
  /\ Types \cap Workflows = {}
  /\ PageSize \in Nat \ {0}
  /\ MayFail \subseteq Faults
  /\ MaxFaults \in Nat
  /\ Watcher \notin Callers
  /\ Free \notin Threads
  /\ NoCall \notin Types \cup Workflows

CallerSteps == {"idle", "Lock", "Query", "Store"}
WatcherSteps == {"Lock", "Scan", "Store", "Arm", "Wait"}
CreatorSteps == {"new", "Get", "Set", "CreateNode", "done", "failed"}

VARIABLES
  rows,      \* the table of workflows
  cache,     \* workflowCache: the workflows it holds
  index,     \* signalTypeIndex: the workflows listed for each type
  listed,    \* the types that have an entry there
  lock,      \* who holds the write lock of the manager
  step,      \* the next step of each thread
  call,      \* what a caller looks up: a type or a workflow
  result,    \* what a thread read from the table
  node,      \* the version of /workflows/refresh, 0 while it does not exist
  watch,     \* "off" before WatchNode, then "unset", "armed" or "changed"
  creator,   \* the next step of the creation of each workflow
  version,   \* the version of the node that a creation read
  saved,     \* the version of the node when a workflow was saved (history)
  scanned,   \* the rows at the time of the watcher's last scan (history)
  covered,   \* those of the last scan that reached the cache (history)
  faults     \* the faults that struck, in their order

manager == <<cache, index, listed, lock>>
threads == <<step, call, result>>
creation == <<creator, version, saved>>
history == <<scanned, covered>>
vars == <<rows, cache, index, listed, lock, step, call, result, node, watch,
          creator, version, saved, scanned, covered, faults>>

OfType(t, ws) == {w \in ws : TypeOf[w] = t}

\* The HTTP server and the consumer serve before the manager has started.
Init ==
  /\ rows = {}
  /\ cache = {}
  /\ index = [t \in Types |-> {}]
  /\ listed = {}
  /\ lock = Free
  /\ step = [t \in Threads |-> IF t = Watcher THEN "Lock" ELSE "idle"]
  /\ call = [c \in Callers |-> NoCall]
  /\ result = [t \in Threads |-> {}]
  /\ node = 0
  /\ watch = "off"
  /\ creator = [w \in Workflows |-> "new"]
  /\ version = [w \in Workflows |-> 0]
  /\ saved = [w \in Workflows |-> 0]
  /\ scanned = {}
  /\ covered = {}
  /\ faults = <<>>

Ok == UNCHANGED faults
Fails(f) ==
  /\ f \in MayFail
  /\ Len(faults) < MaxFaults
  /\ faults' = Append(faults, f)

\* The kinds of fault that struck so far.
Struck == Range(faults)

--------------------------------------------------------------------------------
(***************************************************************************)
(* CreateWorkflowService, in any ingestion process.  The node of the       *)
(* workflow's own version, which it also writes, is read by nobody.        *)
(***************************************************************************)
Turn(w, s) == creator' = [creator EXCEPT ![w] = s]

\* The save, conditional on the key being new; its answer may be lost.
SaveWorkflow(w) ==
  /\ creator[w] = "new"
  /\ \/ Ok /\ rows' = rows \cup {w} /\ Turn(w, "Get")
     \/ Fails("Save") /\ rows' \in {rows, rows \cup {w}} /\ Turn(w, "failed")
  /\ saved' = [saved EXCEPT ![w] = node]
  /\ UNCHANGED <<manager, threads, node, watch, version, history>>

\* UpdateNode reads the version; where there is no node, UpsertNode creates it.
GetVersion(w) ==
  /\ creator[w] = "Get"
  /\ \/ Ok /\ Turn(w, IF node = 0 THEN "CreateNode" ELSE "Set")
     \/ Fails("Trigger") /\ Turn(w, "failed")
  /\ version' = [version EXCEPT ![w] = node]
  /\ UNCHANGED <<rows, manager, threads, node, watch, saved, history>>

ChangeNode ==
  /\ node' = node + 1
  /\ watch' = IF watch = "armed" THEN "changed" ELSE watch

\* Seeded fault: a node that was updated a moment ago is left as it is.
SetUnlessRecent(w) ==
  /\ creator[w] = "Set"
  /\ Ok
  /\ Turn(w, "done")
  /\ IF version[w] < 1 THEN ChangeNode ELSE UNCHANGED <<node, watch>>
  /\ UNCHANGED <<rows, manager, threads, version, saved, history>>

\* A conditional Set; the error of a conflict is ignored like any other, and an
\* answer may be lost.
SetVersion(w) ==
  /\ creator[w] = "Set"
  /\ \/ /\ Ok
        /\ IF node = version[w] THEN ChangeNode ELSE UNCHANGED <<node, watch>>
        /\ Turn(w, "done")
     \/ /\ Fails("Trigger")
        /\ (node = version[w] /\ ChangeNode) \/ UNCHANGED <<node, watch>>
        /\ Turn(w, "failed")
  /\ UNCHANGED <<rows, manager, threads, version, saved, history>>

\* A node that exists by now is updated after all.
CreateNode(w) ==
  /\ creator[w] = "CreateNode"
  /\ \/ Ok /\ node = 0 /\ node' = 1 /\ Turn(w, "done")
     \/ Ok /\ node > 0 /\ UNCHANGED node /\ Turn(w, "Get")
     \/ Fails("Trigger") /\ node' \in {node} \cup (IF node = 0 THEN {1} ELSE {}) /\ Turn(w, "failed")
  /\ UNCHANGED <<rows, manager, threads, watch, version, saved, history>>

Create(w) == SaveWorkflow(w) \/ GetVersion(w) \/ SetVersion(w) \/ CreateNode(w)

--------------------------------------------------------------------------------
(***************************************************************************)
(* The watcher: Start and startWatch with handleRefreshTrigger.            *)
(***************************************************************************)
Goto(t, s) == step' = [step EXCEPT ![t] = s]
Read(t, ws) == result' = [result EXCEPT ![t] = ws]

\* What one Scan returns: all rows or, of more than a page, any page of them.
Pages(ws) ==
  IF Cardinality(ws) <= PageSize THEN {ws}
  ELSE {p \in SUBSET ws : Cardinality(p) = PageSize}

RefreshLock ==
  /\ step[Watcher] = "Lock"
  /\ lock = Free
  /\ lock' = Watcher
  /\ Goto(Watcher, "Scan")
  /\ UNCHANGED <<rows, cache, index, listed, call, result, node, watch, creation, history, faults>>

\* Reads are eventually consistent ("StaleRead").  An error keeps the cache; at
\* startup it ends the process (see Restart).
RefreshScan ==
  /\ step[Watcher] = "Scan"
  /\ \/ /\ \/ Ok /\ \E p \in Pages(rows) : Read(Watcher, p)
           \/ /\ Fails("StaleRead")
              /\ \E p \in SUBSET rows : Cardinality(p) <= PageSize /\ Read(Watcher, p)
        /\ scanned' = rows
        /\ Goto(Watcher, "Store")
        /\ UNCHANGED lock
     \/ /\ watch # "off"
        /\ Fails("Scan")
        /\ lock' = Free
        /\ Goto(Watcher, "Arm")
        /\ UNCHANGED <<result, scanned>>
  /\ UNCHANGED <<rows, cache, index, listed, call, node, watch, creation, covered>>

\* Both maps are replaced; a type without workflows has no entry.
RefreshStore ==
  /\ step[Watcher] = "Store"
  /\ cache' = result[Watcher]
  /\ index' = [t \in Types |-> OfType(t, cache')]
  /\ listed' = {TypeOf[w] : w \in cache'}
  /\ covered' = scanned
  /\ lock' = Free
  /\ Goto(Watcher, "Arm")
  /\ Read(Watcher, {})
  /\ watch' = IF watch = "off" THEN "unset" ELSE watch
  /\ UNCHANGED <<rows, call, node, creation, scanned, faults>>

\* GetW, which succeeds once the node exists.
Arm ==
  /\ step[Watcher] = "Arm"
  /\ node > 0
  /\ watch' = "armed"
  /\ Goto(Watcher, "Wait")
  /\ UNCHANGED <<rows, manager, call, result, node, creation, history, faults>>


\* The event, and the Get of the node's data, without which nothing is refreshed.
NodeChanged ==
  /\ step[Watcher] = "Wait"
  /\ watch = "changed"
  /\ \/ Ok /\ Goto(Watcher, "Lock")
     \/ Fails("Data") /\ Goto(Watcher, "Arm")
  /\ watch' = "unset"
  /\ UNCHANGED <<rows, manager, call, result, node, creation, history>>

Watch == RefreshLock \/ RefreshScan \/ RefreshStore \/ Arm \/ NodeChanged

--------------------------------------------------------------------------------
(***************************************************************************)
(* GetWorkflowsBySignalType and GetWorkflow.  A lookup that finds its      *)
(* answer in the cache changes nothing.                                    *)
(***************************************************************************)
Cached(q) ==
  IF q \in Types THEN q \in listed /\ index[q] \subseteq cache ELSE q \in cache

Miss(c, q) ==
  /\ step[c] = "idle"
  /\ lock = Free
  /\ ~Cached(q)
  /\ call' = [call EXCEPT ![c] = q]
  /\ Goto(c, "Lock")
  /\ UNCHANGED <<rows, manager, result, node, watch, creation, history, faults>>

Return(c) ==
  /\ Goto(c, "idle")
  /\ call' = [call EXCEPT ![c] = NoCall]
  /\ Read(c, {})

\* Seeded fault: the table is read first and the lock is taken for the store.
AcquireLate(c) ==
  /\ step[c] = "Lock"
  /\ Goto(c, "Query")
  /\ UNCHANGED <<rows, manager, call, result, node, watch, creation, history, faults>>

\* The write lock and the second look.
Acquire(c) ==
  /\ step[c] = "Lock"
  /\ lock = Free
  /\ IF Cached(call[c]) THEN Return(c) /\ UNCHANGED lock
     ELSE lock' = c /\ Goto(c, "Query") /\ UNCHANGED <<call, result>>
  /\ UNCHANGED <<rows, cache, index, listed, node, watch, creation, history, faults>>

Matching(q, ws) == IF q \in Types THEN OfType(q, ws) ELSE ws \cap {q}

\* Seeded fault: a failed query returns without unlocking.
FailLocked(c) ==
  /\ step[c] = "Query"
  /\ Fails("Query") \/ (Ok /\ call[c] \notin Types \cup rows)
  /\ Return(c)
  /\ UNCHANGED <<rows, manager, node, watch, creation, history>>

\* The read of the table; an unknown id is an error.
Query(c) ==
  /\ step[c] = "Query"
  /\ \/ /\ \/ Ok /\ call[c] \in Types \cup rows /\ Read(c, Matching(call[c], rows))
           \/ /\ Fails("StaleRead")
              /\ call[c] \in Types
              /\ \E ws \in SUBSET rows : Read(c, Matching(call[c], ws))
        /\ Goto(c, "Store")
        /\ UNCHANGED <<call, lock>>
     \/ /\ Fails("Query") \/ (Ok /\ call[c] \notin Types \cup rows)
        /\ Return(c)
        /\ lock' = Free
  /\ UNCHANGED <<rows, cache, index, listed, node, watch, creation, history>>

\* What was read is cached; an empty answer for a type is cached, too.
Store(c) ==
  /\ step[c] = "Store"
  /\ cache' = cache \cup result[c]
  /\ IF call[c] \in Types
     THEN /\ index' = [index EXCEPT ![call[c]] = result[c]]
          /\ listed' = listed \cup {call[c]}
     ELSE UNCHANGED <<index, listed>>
  /\ lock' = Free
  /\ Return(c)
  /\ UNCHANGED <<rows, node, watch, creation, history, faults>>

LookUp(c) == Acquire(c) \/ Query(c) \/ Store(c)

--------------------------------------------------------------------------------
\* The process stops, at any time, and starts again with an empty cache.
Restart ==
  /\ Fails("Restart")
  /\ cache' = {}
  /\ index' = [t \in Types |-> {}]
  /\ listed' = {}
  /\ lock' = Free
  /\ step' = [t \in Threads |-> IF t = Watcher THEN "Lock" ELSE "idle"]
  /\ call' = [c \in Callers |-> NoCall]
  /\ result' = [t \in Threads |-> {}]
  /\ watch' = "off"
  /\ UNCHANGED <<rows, node, creation, history>>

Next ==
  \/ \E w \in Workflows : Create(w)
  \/ Watch
  \/ \E c \in Callers : LookUp(c) \/ \E q \in Types \cup Workflows : Miss(c, q)
  \/ Restart

Spec == Init /\ [][Next]_vars

\* Goroutines go on, and the lock is granted to all that wait for it: sync.Mutex
\* hands it over to a waiter that has waited for a millisecond.
Fairness ==
  /\ \A w \in Workflows : WF_vars(GetVersion(w)) /\ WF_vars(SetVersion(w)) /\ WF_vars(CreateNode(w))
  /\ SF_vars(RefreshLock)
  /\ WF_vars(RefreshScan \/ RefreshStore \/ Arm \/ NodeChanged)
  /\ \A c \in Callers : SF_vars(Acquire(c)) /\ WF_vars(Query(c) \/ Store(c))

FairSpec == Spec /\ Fairness

--------------------------------------------------------------------------------
(***************************************************************************)
(* What the cache promises.                                                *)
(***************************************************************************)

\* Every variable has its type.
TypeOK ==
  /\ rows \subseteq Workflows
  /\ cache \subseteq Workflows
  /\ index \in [Types -> SUBSET Workflows]
  /\ listed \subseteq Types
  /\ lock \in Threads \cup {Free}
  /\ step \in [Threads -> CallerSteps \cup WatcherSteps]
  /\ step[Watcher] \in WatcherSteps
  /\ \A c \in Callers : step[c] \in CallerSteps
  /\ call \in [Callers -> Types \cup Workflows \cup {NoCall}]
  /\ result \in [Threads -> SUBSET Workflows]
  /\ node \in Nat
  /\ watch \in {"off", "unset", "armed", "changed"}
  /\ creator \in [Workflows -> CreatorSteps]
  /\ version \in [Workflows -> Nat]
  /\ saved \in [Workflows -> Nat]
  /\ scanned \subseteq Workflows
  /\ covered \subseteq Workflows
  /\ faults \in FaultLogs

\* The answer to a lookup by signal type, from the cache or from the table.
Answer(t) == IF Cached(t) THEN index[t] ELSE OfType(t, rows)

\* A workflow that was in the table when the last refresh read it is in the
\* answer to every lookup since, although slow lookups store what they read; an
\* outdated read may miss it.
CoveredIsFound ==
  "StaleRead" \notin Struck => \A w \in covered : w \in Answer(TypeOf[w])

\* What the index lists is in the cache, so an entry answers every lookup of
\* its type: no type is read from the table again and again.
EntriesAnswer ==
  \A t \in listed : index[t] \subseteq cache

\* When a creation is done, the node has changed since its workflow was saved,
\* although the error of a conflict with another creation is ignored.
ChangedSinceSaved ==
  \A w \in Workflows : creator[w] = "done" => node > saved[w]


\* Every lookup ends, and the lock is never kept for ever.
LookupsEnd ==
  \A c \in Callers : step[c] # "idle" ~> step[c] = "idle"
================================================================================
