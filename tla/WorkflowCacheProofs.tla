-------------------------- MODULE WorkflowCacheProofs --------------------------
(***************************************************************************)
(* Theorems about WorkflowCache, for any workflows, signal types, callers  *)
(* and bounds.                                                             *)
(***************************************************************************)
EXTENDS WorkflowCache, FiniteSetTheorems, TLAPS

\* What is looked up where a caller works on something.
Typed ==
  /\ TypeOK
  /\ \A c \in Callers : step[c] # "idle" => call[c] \in Types \cup Workflows

LEMMA ThreadsAreDistinct ==
  /\ Watcher \in Threads
  /\ \A c \in Callers : c \in Threads /\ c # Watcher /\ c # Free
  /\ Free # Watcher
  BY ConstantsAssumption DEF Threads

LEMMA FaultsTyped ==
  ASSUME TypeOK, NEW kind, Ok \/ Fails(kind)
  PROVE  faults' \in FaultLogs
<1>1. faults \in Seq(Faults)
  BY DEF TypeOK, FaultLogs
<1>2. MayFail \subseteq Faults
  BY ConstantsAssumption
<1>3. QED BY <1>1, <1>2 DEF Ok, Fails, FaultLogs

LEMMA FaultStrikes ==
  ASSUME TypeOK, NEW kind, Fails(kind)
  PROVE  Struck \subseteq Struck' /\ kind \in Struck'
<1>1. faults \in Seq(Faults)
  BY DEF TypeOK, FaultLogs
<1>2. kind \in Faults
  BY ConstantsAssumption DEF Fails
<1>3. /\ faults' = Append(faults, kind)
      /\ Len(faults) \in Nat
      /\ Len(faults') = Len(faults) + 1
      /\ faults'[Len(faults) + 1] = kind
      /\ \A i \in 1 .. Len(faults) : faults'[i] = faults[i]
      /\ DOMAIN faults = 1 .. Len(faults)
      /\ DOMAIN faults' = 1 .. Len(faults) + 1
  BY <1>1, <1>2 DEF Fails
<1>4. QED BY <1>3 DEF Struck, Range

LEMMA StruckGrows ==
  ASSUME TypeOK, [Next]_vars
  PROVE  Struck \subseteq Struck'
<1>1. UNCHANGED faults \/ \E kind \in Faults : Fails(kind)
  BY DEF Next, vars, Create, SaveWorkflow, GetVersion, SetVersion, CreateNode, Watch,
         RefreshLock, RefreshScan, RefreshStore, Arm, NodeChanged, LookUp, Miss, Acquire,
         Query, Store, Restart, Ok, Faults
<1>2. CASE UNCHANGED faults
  BY <1>2 DEF Struck
<1>3. CASE \E kind \in Faults : Fails(kind)
  BY <1>3, FaultStrikes
<1>4. QED BY <1>1, <1>2, <1>3

LEMMA OfTypeIsSubset ==
  ASSUME NEW t, NEW ws
  PROVE  OfType(t, ws) \subseteq ws
  BY DEF OfType

LEMMA TypedInit ==
  ASSUME Init
  PROVE  Typed
<1>1. <<>> \in FaultLogs
  BY DEF FaultLogs
<1>2. QED BY <1>1, ThreadsAreDistinct
  DEF Init, Typed, TypeOK, WatcherSteps, CallerSteps, CreatorSteps

LEMMA TypedCreate ==
  ASSUME Typed, NEW w \in Workflows, Create(w)
  PROVE  Typed'
<1>1. faults' \in FaultLogs
  BY FaultsTyped DEF Create, SaveWorkflow, GetVersion, SetVersion, CreateNode, Typed
<1>2. /\ rows' \subseteq Workflows
      /\ creator' \in [Workflows -> CreatorSteps]
      /\ version' \in [Workflows -> Nat]
      /\ saved' \in [Workflows -> Nat]
      /\ node' \in Nat
      /\ watch' \in {"off", "unset", "armed", "changed"}
  BY DEF Create, SaveWorkflow, GetVersion, SetVersion, CreateNode, ChangeNode, Turn,
         CreatorSteps, Typed, TypeOK
<1>3. UNCHANGED <<cache, index, listed, lock, step, call, result, scanned, covered>>
  BY DEF Create, SaveWorkflow, GetVersion, SetVersion, CreateNode, manager, threads, history
<1>4. QED BY <1>1, <1>2, <1>3 DEF Typed, TypeOK

LEMMA TypedWatch ==
  ASSUME Typed, Watch
  PROVE  Typed'
<1>1. faults' \in FaultLogs
  BY FaultsTyped DEF Watch, RefreshLock, RefreshScan, RefreshStore, Arm, NodeChanged, Ok,
                     Typed, TypeOK
<1>2. \E s \in WatcherSteps : step' = [step EXCEPT ![Watcher] = s]
  BY DEF Watch, RefreshLock, RefreshScan, RefreshStore, Arm, NodeChanged, Goto, WatcherSteps
<1>3. /\ step' \in [Threads -> CallerSteps \cup WatcherSteps]
      /\ step'[Watcher] \in WatcherSteps
      /\ \A c \in Callers : step'[c] = step[c]
  BY <1>2, ThreadsAreDistinct DEF Typed, TypeOK
<1>4. UNCHANGED <<rows, call, creator, version, saved, node>>
  BY DEF Watch, RefreshLock, RefreshScan, RefreshStore, Arm, NodeChanged, creation, manager
<1>5. /\ lock' \in Threads \cup {Free}
      /\ watch' \in {"off", "unset", "armed", "changed"}
      /\ scanned' \subseteq Workflows
      /\ covered' \subseteq Workflows
  BY ThreadsAreDistinct
  DEF Watch, RefreshLock, RefreshScan, RefreshStore, Arm, NodeChanged, history, manager,
      Typed, TypeOK
<1>6. result' \in [Threads -> SUBSET Workflows]
  <2>1. \E ws \in SUBSET Workflows : result' = [result EXCEPT ![Watcher] = ws] \/ result' = result
    BY DEF Watch, RefreshLock, RefreshScan, RefreshStore, Arm, NodeChanged, Read, Pages,
           Typed, TypeOK
  <2>2. QED BY <2>1 DEF Typed, TypeOK
<1>7. /\ cache' \subseteq Workflows
      /\ index' \in [Types -> SUBSET Workflows]
      /\ listed' \subseteq Types
  <2>1. CASE RefreshStore
    <3>1. cache' \subseteq Workflows
      BY <2>1, ThreadsAreDistinct DEF RefreshStore, Typed, TypeOK
    <3>2. \A t \in Types : OfType(t, cache') \in SUBSET Workflows
      BY <3>1, OfTypeIsSubset
    <3>3. {TypeOf[w] : w \in cache'} \subseteq Types
      BY <3>1, ConstantsAssumption
    <3>4. QED BY <2>1, <3>1, <3>2, <3>3 DEF RefreshStore
  <2>2. CASE ~RefreshStore
    <3>1. UNCHANGED <<cache, index, listed>>
      BY <2>2 DEF Watch, RefreshLock, RefreshScan, Arm, NodeChanged, manager
    <3>2. QED BY <3>1 DEF Typed, TypeOK
  <2>3. QED BY <2>1, <2>2
<1>8. QED BY <1>1, <1>3, <1>4, <1>5, <1>6, <1>7 DEF Typed, TypeOK

\* What the steps of a caller have in common.
LEMMA CallerStep ==
  ASSUME Typed, NEW c \in Callers,
         LookUp(c) \/ \E q \in Types \cup Workflows : Miss(c, q)
  PROVE  /\ \E s \in CallerSteps : step' = [step EXCEPT ![c] = s]
         /\ \A v \in Threads \ {c} : step'[v] = step[v] /\ result'[v] = result[v]
         /\ \A v \in Callers \ {c} : call'[v] = call[v]
         /\ faults' \in FaultLogs
         /\ UNCHANGED <<rows, node, watch, creator, version, saved, scanned, covered>>
<1>1. faults' \in FaultLogs
  BY FaultsTyped DEF LookUp, Acquire, Query, Store, Miss, Ok, Typed, TypeOK
<1>2. \E s \in CallerSteps : step' = [step EXCEPT ![c] = s]
  BY DEF LookUp, Acquire, Query, Store, Miss, Return, Goto, CallerSteps
<1>3. \E ws : result' = [result EXCEPT ![c] = ws] \/ result' = result
  BY DEF LookUp, Acquire, Query, Store, Miss, Return, Read
<1>4. \E q : call' = [call EXCEPT ![c] = q] \/ call' = call
  BY DEF LookUp, Acquire, Query, Store, Miss, Return
<1>5. UNCHANGED <<rows, node, watch, creator, version, saved, scanned, covered>>
  BY DEF LookUp, Acquire, Query, Store, Miss, creation, history
<1>6. \A v \in Threads \ {c} : step'[v] = step[v] /\ result'[v] = result[v]
  BY <1>2, <1>3 DEF Typed, TypeOK
<1>7. \A v \in Callers \ {c} : call'[v] = call[v]
  BY <1>4 DEF Typed, TypeOK
<1>8. QED BY <1>1, <1>2, <1>5, <1>6, <1>7

LEMMA TypedCaller ==
  ASSUME Typed, NEW c \in Callers,
         LookUp(c) \/ \E q \in Types \cup Workflows : Miss(c, q)
  PROVE  Typed'
<1>1. /\ \E s \in CallerSteps : step' = [step EXCEPT ![c] = s]
      /\ \A v \in Threads \ {c} : step'[v] = step[v]
      /\ \A v \in Callers \ {c} : call'[v] = call[v]
      /\ faults' \in FaultLogs
      /\ UNCHANGED <<rows, node, watch, creator, version, saved, scanned, covered>>
  BY CallerStep
<1>2. /\ step' \in [Threads -> CallerSteps \cup WatcherSteps]
      /\ step'[Watcher] \in WatcherSteps
      /\ \A v \in Callers : step'[v] \in CallerSteps
  BY <1>1, ThreadsAreDistinct DEF Typed, TypeOK
<1>3. /\ call' \in [Callers -> Types \cup Workflows \cup {NoCall}]
      /\ step'[c] # "idle" => call'[c] \in Types \cup Workflows
  BY ThreadsAreDistinct
  DEF LookUp, Acquire, Query, Store, Miss, Return, Goto, Typed, TypeOK
<1>4. result' \in [Threads -> SUBSET Workflows]
  <2>1. \A q, ws : Matching(q, ws) \subseteq ws
    BY OfTypeIsSubset DEF Matching
  <2>2. \E ws \in SUBSET Workflows : result' = [result EXCEPT ![c] = ws] \/ result' = result
    BY <2>1 DEF LookUp, Acquire, Query, Store, Miss, Return, Read, Typed, TypeOK
  <2>3. QED BY <2>2 DEF Typed, TypeOK
<1>5. lock' \in Threads \cup {Free}
  BY ThreadsAreDistinct DEF LookUp, Acquire, Query, Store, Miss, manager, Typed, TypeOK
<1>6. /\ cache' \subseteq Workflows
      /\ index' \in [Types -> SUBSET Workflows]
      /\ listed' \subseteq Types
  <2>1. CASE Store(c)
    <3>1. result[c] \subseteq Workflows
      BY ThreadsAreDistinct DEF Typed, TypeOK
    <3>2. QED BY <2>1, <3>1 DEF Store, Typed, TypeOK
  <2>2. CASE ~Store(c)
    <3>1. UNCHANGED <<cache, index, listed>>
      BY <2>2 DEF LookUp, Acquire, Query, Miss, manager
    <3>2. QED BY <3>1 DEF Typed, TypeOK
  <2>3. QED BY <2>1, <2>2
<1>7. \A v \in Callers : step'[v] # "idle" => call'[v] \in Types \cup Workflows
  BY <1>1, <1>3, ThreadsAreDistinct DEF Typed
<1>8. QED BY <1>1, <1>2, <1>3, <1>4, <1>5, <1>6, <1>7 DEF Typed, TypeOK

LEMMA TypedRestart ==
  ASSUME Typed, Restart
  PROVE  Typed'
<1>1. faults' \in FaultLogs
  BY FaultsTyped DEF Restart, Typed
<1>2. QED BY <1>1, ThreadsAreDistinct
  DEF Restart, Typed, TypeOK, WatcherSteps, CallerSteps, creation, history

LEMMA TypedStep ==
  ASSUME Typed, [Next]_vars
  PROVE  Typed'
<1>1. CASE Next
  BY <1>1, TypedCreate, TypedWatch, TypedCaller, TypedRestart DEF Next
<1>2. CASE UNCHANGED vars
  BY <1>2 DEF vars, Typed, TypeOK
<1>3. QED BY <1>1, <1>2

LEMMA AlwaysTyped == Spec => []Typed
<1>1. QED BY TypedInit, TypedStep, PTL DEF Spec

\* Type correctness: whatever creations, refreshes, lookups, restarts and
\* faults do, every variable has its type.
THEOREM TypeCorrect == Spec => []TypeOK
<1>1. Typed => TypeOK
  BY DEF Typed
<1>2. QED BY <1>1, AlwaysTyped, PTL

(***************************************************************************)
(* The index.                                                              *)
(***************************************************************************)
LEMMA EntriesStep ==
  ASSUME Typed, EntriesAnswer, [Next]_vars
  PROVE  EntriesAnswer'
<1>1. CASE RefreshStore
  <2>1. \A t \in Types : index'[t] \subseteq cache'
    BY <1>1, OfTypeIsSubset DEF RefreshStore
  <2>2. listed' \subseteq Types
    BY <1>1, TypedWatch DEF Watch, Typed, TypeOK
  <2>3. QED BY <2>1, <2>2 DEF EntriesAnswer
<1>2. ASSUME NEW c \in Callers, Store(c)
      PROVE  EntriesAnswer'
  BY <1>2 DEF Store, EntriesAnswer, Typed, TypeOK
<1>3. CASE Restart
  BY <1>3 DEF Restart, EntriesAnswer
<1>4. CASE UNCHANGED <<cache, index, listed>>
  BY <1>4 DEF EntriesAnswer
<1>5. Next /\ ~RefreshStore /\ ~Restart /\ (\A c \in Callers : ~Store(c))
        => UNCHANGED <<cache, index, listed>>
  BY DEF Next, Create, SaveWorkflow, GetVersion, SetVersion, CreateNode, Watch, RefreshLock,
         RefreshScan, Arm, NodeChanged, LookUp, Miss, Acquire, Query, manager
<1>6. UNCHANGED vars => UNCHANGED <<cache, index, listed>>
  BY DEF vars
<1>7. QED BY <1>1, <1>2, <1>3, <1>4, <1>5, <1>6

\* What the index lists is in the cache, whatever fails: an entry answers every
\* lookup of its type.
THEOREM EntriesComplete == Spec => []EntriesAnswer
<1>1. Init => EntriesAnswer
  BY DEF Init, EntriesAnswer
<1>2. QED BY <1>1, AlwaysTyped, EntriesStep, PTL DEF Spec

(***************************************************************************)
(* The node.  A creation that loses against another one knows a version    *)
(* that was read after its save, so the change that won came later still.  *)
(***************************************************************************)
NodeInv ==
  \A w \in Workflows :
    /\ saved[w] <= node
    /\ creator[w] = "Set" => saved[w] <= version[w] /\ version[w] <= node
    /\ creator[w] = "CreateNode" => saved[w] = 0
    /\ creator[w] = "done" => saved[w] < node

LEMMA NodeCreate ==
  ASSUME Typed, NodeInv, NEW w \in Workflows, Create(w)
  PROVE  NodeInv'
<1> USE DEF Typed, TypeOK
<1>1. node' \in Nat /\ node <= node'
  BY DEF Create, SaveWorkflow, GetVersion, SetVersion, CreateNode, ChangeNode
<1>2. ASSUME NEW v \in Workflows, v # w
      PROVE  /\ saved'[v] <= node'
             /\ creator'[v] = "Set" => saved'[v] <= version'[v] /\ version'[v] <= node'
             /\ creator'[v] = "CreateNode" => saved'[v] = 0
             /\ creator'[v] = "done" => saved'[v] < node'
  <2>1. creator'[v] = creator[v] /\ version'[v] = version[v] /\ saved'[v] = saved[v]
    BY <1>2 DEF Create, SaveWorkflow, GetVersion, SetVersion, CreateNode, Turn
  <2>2. saved[v] \in Nat /\ version[v] \in Nat /\ node \in Nat
    OBVIOUS
  <2>3. QED BY <1>1, <2>1, <2>2 DEF NodeInv
<1>3. /\ saved'[w] <= node'
      /\ creator'[w] = "Set" => saved'[w] <= version'[w] /\ version'[w] <= node'
      /\ creator'[w] = "CreateNode" => saved'[w] = 0
      /\ creator'[w] = "done" => saved'[w] < node'
  <2>1. CASE SaveWorkflow(w)
    BY <2>1 DEF SaveWorkflow, Turn
  <2>2. CASE GetVersion(w)
    BY <2>2 DEF GetVersion, Turn, NodeInv
  <2>3. CASE SetVersion(w)
    <3>1. saved[w] <= version[w] /\ version[w] <= node /\ saved'[w] = saved[w]
      BY <2>3 DEF SetVersion, NodeInv
    <3>2. creator'[w] \in {"done", "failed"}
      BY <2>3 DEF SetVersion, Turn
    <3>3. CASE creator'[w] = "done"
      <4>1. IF node = version[w] THEN node' = node + 1 ELSE node' = node
        BY <2>3, <3>3 DEF SetVersion, Turn, ChangeNode
      <4>2. QED BY <3>1, <3>3, <4>1
    <3>4. CASE creator'[w] = "failed"
      BY <1>1, <3>1, <3>4
    <3>5. QED BY <3>2, <3>3, <3>4
  <2>4. CASE CreateNode(w)
    BY <2>4 DEF CreateNode, Turn, NodeInv
  <2>5. QED BY <2>1, <2>2, <2>3, <2>4 DEF Create
<1>4. QED BY <1>2, <1>3 DEF NodeInv

LEMMA NodeStep ==
  ASSUME Typed, NodeInv, [Next]_vars
  PROVE  NodeInv'
<1>1. CASE \E w \in Workflows : Create(w)
  BY <1>1, NodeCreate
<1>2. CASE UNCHANGED <<node, creator, version, saved>>
  BY <1>2 DEF NodeInv
<1>3. Next => (\E w \in Workflows : Create(w)) \/ UNCHANGED <<node, creator, version, saved>>
  BY DEF Next, Watch, RefreshLock, RefreshScan, RefreshStore, Arm, NodeChanged, LookUp,
         Miss, Acquire, Query, Store, Restart, creation
<1>4. UNCHANGED vars => UNCHANGED <<node, creator, version, saved>>
  BY DEF vars
<1>5. QED BY <1>1, <1>2, <1>3, <1>4

\* When a creation is done, the node has changed since its workflow was saved,
\* whatever other creations did to the node in between.
THEOREM EveryCreationTriggers == Spec => []ChangedSinceSaved
<1>1. Init => NodeInv
  BY DEF Init, NodeInv
<1>2. Typed /\ NodeInv => ChangedSinceSaved
  BY DEF NodeInv, ChangedSinceSaved, Typed, TypeOK
<1>3. QED BY <1>1, <1>2, AlwaysTyped, NodeStep, PTL DEF Spec

(***************************************************************************)
(* The refresh.  What a slow lookup stores was read under the lock, so no  *)
(* refresh has come between its read and its store (LockInv), and what it  *)
(* stores holds everything the last refresh has covered.                   *)
(***************************************************************************)
LockInv ==
  /\ step[Watcher] \in {"Scan", "Store"} <=> lock = Watcher
  /\ \A c \in Callers : step[c] \in {"Query", "Store"} <=> lock = c

CoverInv ==
  /\ covered \subseteq rows
  /\ scanned \subseteq rows
  /\ step[Watcher] = "Store" => result[Watcher] = scanned
  /\ \A t \in listed : OfType(t, covered) \subseteq index[t]
  /\ \A c \in Callers :
       step[c] = "Store" /\ call[c] \in Types => OfType(call[c], covered) \subseteq result[c]

ReadsAreFresh == "StaleRead" \notin Struck

LEMMA LockStep ==
  ASSUME Typed, LockInv, [Next]_vars
  PROVE  LockInv'
<1> USE ThreadsAreDistinct DEF Typed, TypeOK
<1>1. CASE \E w \in Workflows : Create(w)
  <2>1. UNCHANGED <<lock, step>>
    BY <1>1 DEF Create, SaveWorkflow, GetVersion, SetVersion, CreateNode, manager, threads
  <2>2. QED BY <2>1 DEF LockInv
<1>2. CASE Watch
  <2>1. /\ step'[Watcher] \in {"Scan", "Store"} <=> lock' = Watcher
        /\ lock' = lock \/ (lock \in {Free, Watcher} /\ lock' \in {Free, Watcher})
    BY <1>2 DEF Watch, RefreshLock, RefreshScan, RefreshStore, Arm, NodeChanged, Goto,
                manager, LockInv
  <2>2. \A c \in Callers : step'[c] = step[c]
    BY <1>2 DEF Watch, RefreshLock, RefreshScan, RefreshStore, Arm, NodeChanged, Goto
  <2>3. QED BY <2>1, <2>2 DEF LockInv
<1>3. ASSUME NEW c \in Callers, LookUp(c) \/ \E q \in Types \cup Workflows : Miss(c, q)
      PROVE  LockInv'
  <2>1. /\ step'[c] \in {"Query", "Store"} <=> lock' = c
        /\ lock' = lock \/ (lock \in {Free, c} /\ lock' \in {Free, c})
    BY <1>3 DEF LookUp, Acquire, Query, Store, Miss, Return, Goto, manager, LockInv
  <2>2. \A v \in Threads \ {c} : step'[v] = step[v]
    BY <1>3, CallerStep
  <2>3. QED BY <2>1, <2>2 DEF LockInv
<1>4. CASE Restart
  BY <1>4 DEF Restart, LockInv
<1>5. CASE UNCHANGED vars
  BY <1>5 DEF vars, LockInv
<1>6. QED BY <1>1, <1>2, <1>3, <1>4, <1>5 DEF Next

LEMMA FullPages ==
  ASSUME NEW ws \in SUBSET Workflows, Cardinality(Workflows) <= PageSize,
         NEW p \in Pages(ws)
  PROVE  p = ws
<1>1. Cardinality(ws) <= Cardinality(Workflows)
  BY FS_Subset, ConstantsAssumption
<1>2. Cardinality(ws) \in Nat /\ Cardinality(Workflows) \in Nat
  BY FS_Subset, FS_CardinalityType, ConstantsAssumption
<1>3. Cardinality(ws) <= PageSize
  BY <1>1, <1>2, ConstantsAssumption
<1>4. QED BY <1>3 DEF Pages

LEMMA OfTypeGrows ==
  ASSUME NEW t, NEW us, NEW ws, us \subseteq ws
  PROVE  OfType(t, us) \subseteq OfType(t, ws)
  BY DEF OfType

LEMMA CoverWatch ==
  ASSUME Typed, LockInv, CoverInv, Watch,
         Cardinality(Workflows) <= PageSize, ReadsAreFresh'
  PROVE  CoverInv'
<1>0. ~Fails("StaleRead")
  BY FaultStrikes DEF Typed, ReadsAreFresh
<1> USE ThreadsAreDistinct DEF Typed, TypeOK
<1>1. UNCHANGED <<rows, call>> /\ \A c \in Callers : step'[c] = step[c]
  BY DEF Watch, RefreshLock, RefreshScan, RefreshStore, Arm, NodeChanged, Goto, manager
<1>2. CASE RefreshStore
  <2>1. cache' = scanned /\ covered' = scanned /\ scanned' = scanned
    BY <1>2 DEF RefreshStore, CoverInv
  <2>2. \A t \in listed' : OfType(t, covered') \subseteq index'[t]
    <3>1. listed' \subseteq Types
      BY <1>2, TypedWatch DEF Watch
    <3>2. QED BY <1>2, <2>1, <3>1 DEF RefreshStore
  <2>3. \A c \in Callers : step'[c] # "Store"
    BY <1>1, <1>2 DEF RefreshStore, LockInv
  <2>4. step'[Watcher] # "Store"
    BY <1>2 DEF RefreshStore, Goto
  <2>5. QED BY <1>1, <2>1, <2>2, <2>3, <2>4 DEF CoverInv
<1>3. CASE RefreshScan
  <2>1. UNCHANGED <<covered, index, listed>> /\ \A c \in Callers : result'[c] = result[c]
    BY <1>3 DEF RefreshScan, Read
  <2>2. scanned' \subseteq rows /\ (step'[Watcher] = "Store" => result'[Watcher] = scanned')
    <3>1. CASE /\ Ok /\ \E p \in Pages(rows) : Read(Watcher, p)
               /\ scanned' = rows
      <4>1. PICK p \in Pages(rows) : Read(Watcher, p)
        BY <3>1
      <4>2. p = rows
        BY FullPages
      <4>3. result'[Watcher] = rows
        BY <4>1, <4>2 DEF Read
      <4>4. QED BY <3>1, <4>3
    <3>2. CASE Goto(Watcher, "Arm") /\ scanned' = scanned
      BY <3>2 DEF Goto, CoverInv
    <3>3. QED BY <1>0, <1>3, <3>1, <3>2 DEF RefreshScan
  <2>3. QED BY <1>1, <2>1, <2>2 DEF CoverInv
<1>4. CASE RefreshLock \/ Arm \/ NodeChanged
  <2>1. /\ UNCHANGED <<covered, scanned, index, listed, result>>
        /\ step'[Watcher] # "Store"
    BY <1>4 DEF RefreshLock, Arm, NodeChanged, Goto, manager, history
  <2>2. QED BY <1>1, <2>1 DEF CoverInv
<1>5. QED BY <1>2, <1>3, <1>4 DEF Watch

LEMMA CoverCaller ==
  ASSUME Typed, LockInv, CoverInv, ReadsAreFresh', NEW c \in Callers,
         LookUp(c) \/ \E q \in Types \cup Workflows : Miss(c, q)
  PROVE  CoverInv'
<1>0. ~Fails("StaleRead")
  BY FaultStrikes DEF Typed, ReadsAreFresh
<1> USE ThreadsAreDistinct DEF Typed, TypeOK
<1>1. /\ \A v \in Threads \ {c} : step'[v] = step[v] /\ result'[v] = result[v]
      /\ \A v \in Callers \ {c} : call'[v] = call[v]
      /\ UNCHANGED <<rows, scanned, covered>>
  BY CallerStep
<1>2. \A t \in listed' : OfType(t, covered) \subseteq index'[t]
  <2>1. CASE Store(c)
    BY <2>1 DEF Store, CoverInv
  <2>2. CASE ~Store(c)
    <3>1. UNCHANGED <<index, listed>>
      BY <2>2 DEF LookUp, Acquire, Query, Miss, manager
    <3>2. QED BY <3>1 DEF CoverInv
  <2>3. QED BY <2>1, <2>2
<1>3. step'[c] = "Store" /\ call'[c] \in Types => OfType(call'[c], covered) \subseteq result'[c]
  <2>1. CASE Query(c) /\ step'[c] = "Store" /\ call'[c] \in Types
    <3>1. Read(c, Matching(call[c], rows)) /\ call'[c] = call[c]
      BY <1>0, <2>1 DEF Query, Return, Goto
    <3>2. result'[c] = OfType(call[c], rows)
      BY <2>1, <3>1 DEF Read, Matching
    <3>3. QED BY <3>1, <3>2, OfTypeGrows DEF CoverInv
  <2>2. CASE ~Query(c)
    <3>1. step'[c] # "Store"
      BY <2>2 DEF LookUp, Acquire, Store, Miss, Return, Goto
    <3>2. QED BY <3>1
  <2>3. QED BY <2>1, <2>2
<1>4. QED BY <1>1, <1>2, <1>3 DEF CoverInv

LEMMA CoverStep ==
  ASSUME Typed, LockInv, CoverInv, [Next]_vars,
         Cardinality(Workflows) <= PageSize, ReadsAreFresh'
  PROVE  CoverInv'
<1>1. CASE \E w \in Workflows : Create(w)
  <2>1. /\ rows \subseteq rows'
        /\ UNCHANGED <<covered, scanned, index, listed, step, result, call>>
    BY <1>1 DEF Create, SaveWorkflow, GetVersion, SetVersion, CreateNode, manager, threads,
                history
  <2>2. QED BY <2>1 DEF CoverInv
<1>2. CASE Watch
  BY <1>2, CoverWatch
<1>3. ASSUME NEW c \in Callers, LookUp(c) \/ \E q \in Types \cup Workflows : Miss(c, q)
      PROVE  CoverInv'
  BY <1>3, CoverCaller
<1>4. CASE Restart
  BY <1>4, ThreadsAreDistinct DEF Restart, CoverInv, history
<1>5. CASE UNCHANGED vars
  BY <1>5 DEF vars, CoverInv
<1>6. QED BY <1>1, <1>2, <1>3, <1>4, <1>5 DEF Next

\* A workflow that was in the table when the last refresh read it is in the
\* answer to every lookup since, however slow lookups and refreshes interleave,
\* provided that all workflows fit on the page a refresh reads and that no read
\* was outdated.
THEOREM RefreshReachesLookups ==
  ASSUME Cardinality(Workflows) <= PageSize
  PROVE  Spec => []CoveredIsFound
<1> DEFINE FreshInv == ReadsAreFresh => CoverInv
<1>1. Init => LockInv /\ FreshInv
  BY ThreadsAreDistinct DEF Init, LockInv, CoverInv
<1>2. Typed /\ LockInv /\ FreshInv => CoveredIsFound
  BY ConstantsAssumption
  DEF Typed, TypeOK, CoverInv, CoveredIsFound, Answer, Cached, OfType, ReadsAreFresh
<1>3. Typed /\ LockInv /\ [Next]_vars => LockInv'
  BY LockStep
<1>4. Typed /\ LockInv /\ FreshInv /\ [Next]_vars => FreshInv'
  BY CoverStep, StruckGrows DEF Typed, ReadsAreFresh
<1> HIDE DEF FreshInv
<1>5. QED BY <1>1, <1>2, <1>3, <1>4, AlwaysTyped, PTL DEF Spec
================================================================================
