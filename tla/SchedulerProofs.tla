---------------------------- MODULE SchedulerProofs ----------------------------
(***************************************************************************)
(* Theorems about Scheduler, for any set of jobs, any bounds, any timing   *)
(* slack and any faults unless a theorem says otherwise.                   *)
(***************************************************************************)
EXTENDS Scheduler, FiniteSetTheorems, TLAPS

(***************************************************************************)
(* The variables keep their types, whatever fails.                         *)
(***************************************************************************)
LEMMA SuccInTimes ==
  ASSUME NEW t \in Times, Succ(t) \in Times
  PROVE  /\ Succ(t).minute \in Minutes
         /\ Succ(t).minute \in {t.minute, t.minute + 1}
  BY DEF Times, Succ, Minutes, Phases

LEMMA AdjustedIsLater ==
  ASSUME TypeOK, now.minute < LastMinute, NEW t \in Requests
  PROVE  Adjusted(t) \in Times /\ Adjusted(t).minute > now.minute
  BY ConstantsAssumption DEF TypeOK, Adjusted, Times, Minutes, Phases

LEMMA FaultsStep ==
  ASSUME [Next]_vars
  PROVE  UNCHANGED faults \/ \E f \in Faults : Fails(f)
  BY DEF Next, vars, ScheduleJob, CallStep, CreateJob, PushToBucket, Tick, ThreadStep,
         CheckLength, TransferBucket, RangeTemp, GetByID, DropJob, UpdateRunning, SetRow,
         SendToQueue, UpdateCompleted, RemoveFromTemp, Crash, Restart, Stop, Exit,
         TimeIsUp, Faults, Ok

LEMMA TypeStep ==
  ASSUME TypeOK, [Next]_vars
  PROVE  TypeOK'
<1>0. faults' \in FaultLogs
  <2>1. faults \in FaultLogs BY DEF TypeOK
  <2>2. QED BY <2>1, FaultsStep DEF Fails, FaultLogs
<1> USE <1>0, ConstantsAssumption DEF TypeOK, CallStates, Statuses, ThreadSteps,
      clients, lists, threads, Goto
<1>1. ASSUME NEW j \in Jobs, ScheduleJob(j) PROVE TypeOK'
  <2>1. executeAt' \in [Jobs -> Times] /\ calledAt' \in [Jobs -> Minutes]
    BY <1>1, AdjustedIsLater DEF ScheduleJob, Times
  <2>2. QED BY <1>1, <2>1 DEF ScheduleJob
<1>2. ASSUME NEW j \in Jobs, CallStep(j) PROVE TypeOK'
  <2>1. CASE CreateJob(j) BY <2>1 DEF CreateJob
  <2>2. CASE PushToBucket(j)
    <3>1. BucketWith(j) \in [Minutes -> SUBSET Jobs]
      <4>1. executeAt[j].minute \in Minutes BY DEF Times
      <4>2. QED BY <4>1 DEF BucketWith
    <3>2. bucket' \in [Minutes -> SUBSET Jobs] BY <2>2, <3>1 DEF PushToBucket
    <3>3. call' \in [Jobs -> CallStates] BY <2>2 DEF PushToBucket
    <3>4. QED BY <2>2, <3>2, <3>3 DEF PushToBucket
  <2>3. QED BY <1>2, <2>1, <2>2 DEF CallStep
<1>3. CASE Tick BY <1>3 DEF Tick
<1>4. ASSUME NEW t \in Threads, ThreadStep(t) PROVE TypeOK'
  <2>0. t[2] \in Minutes BY DEF Threads
  <2>1. CASE CheckLength(t) BY <2>1 DEF CheckLength
  <2>2. CASE TransferBucket(t)
    <3>1. /\ bucket' \in [Minutes -> SUBSET Jobs]
          /\ temp' \in [Minutes -> SUBSET Jobs]
      <4>1. CASE LuaAtomicTransfer(t[2]) BY <2>0, <4>1 DEF LuaAtomicTransfer
      <4>2. CASE UNCHANGED lists BY <4>2
      <4>3. QED BY <2>2, <4>1, <4>2 DEF TransferBucket
    <3>2. /\ work' \in [Threads -> SUBSET Jobs]
          /\ pc' \in [Threads -> ThreadSteps]
      BY <2>0, <2>2 DEF TransferBucket
    <3>3. QED BY <2>2, <3>1, <3>2 DEF TransferBucket
  <2>3. CASE RangeTemp(t) BY <2>0, <2>3 DEF RangeTemp
  <2>4. CASE GetByID(t) BY <2>4 DEF GetByID
  <2>5. CASE DropJob(t) BY <2>0, <2>5 DEF DropJob, TempWithoutJob, NextJob
  <2>6. CASE UpdateRunning(t) BY <2>6 DEF UpdateRunning, SetRow
  <2>7. CASE SendToQueue(t)
    <3>1. sent' \in [Jobs -> Nat] BY <2>7 DEF SendToQueue
    <3>2. QED BY <2>7, <3>1 DEF SendToQueue, NextJob
  <2>8. CASE UpdateCompleted(t) BY <2>8 DEF UpdateCompleted, SetRow
  <2>9. CASE RemoveFromTemp(t)
    BY <2>0, <2>9 DEF RemoveFromTemp, TempWithoutJob, NextJob
  <2>10. QED BY <1>4, <2>1, <2>2, <2>3, <2>4, <2>5, <2>6, <2>7, <2>8, <2>9 DEF ThreadStep
<1>5. CASE Crash BY <1>5 DEF Crash
<1>6. CASE Restart \/ Stop \/ Exit BY <1>6 DEF Restart, Stop, Exit
<1>7. CASE UNCHANGED vars BY <1>7 DEF vars
<1>8. QED BY <1>1, <1>2, <1>3, <1>4, <1>5, <1>6, <1>7 DEF Next, TimeIsUp

LEMMA NoFaults == <<>> \in FaultLogs
  BY DEF FaultLogs

LEMMA TypeInit == Init => TypeOK
  BY ConstantsAssumption, NoFaults
  DEF Init, TypeOK, Times, Minutes, Phases, CallStates, Statuses, ThreadSteps

(***************************************************************************)
(* Type correctness: whatever calls, firings, the clock, the process and   *)
(* the faults do, every variable keeps its type.                           *)
(***************************************************************************)
THEOREM TypeCorrect == Spec => []TypeOK
<1>1. TypeOK /\ [Next]_vars => TypeOK' BY TypeStep
<1>2. QED BY TypeInit, <1>1, PTL DEF Spec

--------------------------------------------------------------------------------
(***************************************************************************)
(* The inductive invariant.  The lists, the threads and the queue only     *)
(* know jobs whose call is over; a job stays with the minute of its        *)
(* executeAt; and a thread runs after its firing, on a minute that began.  *)
(***************************************************************************)
Called(j) == call[j] \in {"accepted", "failed"}
Placed(j, m) == executeAt[j].minute = m /\ Called(j) /\ row[j] # "none"
Holds(t, j) == j \in work[t] \/ j = job[t]

CallInv ==
  \A j \in Jobs :
    /\ call[j] # "new" => executeAt[j].minute > calledAt[j]
    /\ call[j] = "RPush" => row[j] # "none"

ListInv ==
  \A j \in Jobs, m \in Minutes :
    /\ j \in bucket[m] \/ j \in temp[m] => Placed(j, m)
    /\ ~(j \in bucket[m] /\ j \in temp[m])

FiredAt(t) ==
  [minute |-> FiredIn(t),
   phase |-> CASE t[1] = "main" -> 0 [] t[1] = "late" -> 1 [] t[1] = "cleanup" -> 2]

OnJob == {"Drop", "SetRunning", "Send", "SetCompleted", "LRem"}

ThreadInv ==
  \A t \in Threads :
    /\ Running(t) => NotBefore(now, FiredAt(t))
    /\ \A j \in Jobs : Holds(t, j) => pc[t] \in OnJob \cup {"GetByID"} /\ Placed(j, t[2])
    /\ pc[t] \in OnJob => job[t] \in Jobs

SentInv ==
  /\ \A j \in Jobs : sent[j] > 0 => Called(j) /\ executeAt[j].minute <= now.minute
  /\ \A j \in Jobs : row[j] = "COMPLETED" => sent[j] > 0
  /\ \A t \in Threads : pc[t] \in {"SetCompleted", "LRem"} => sent[job[t]] > 0

IInv == TypeOK /\ CallInv /\ ListInv /\ ThreadInv /\ SentInv

LEMMA InvInit == Init => IInv
<1> SUFFICES ASSUME Init PROVE CallInv /\ ListInv /\ ThreadInv /\ SentInv
  BY TypeInit DEF IInv
<1> USE DEF Init
<1>1. CallInv BY DEF CallInv
<1>2. ListInv BY DEF ListInv
<1>3. ThreadInv BY ConstantsAssumption DEF ThreadInv, Holds, Running, OnJob
<1>4. SentInv BY DEF SentInv
<1>5. QED BY <1>1, <1>2, <1>3, <1>4

LEMMA InvScheduleJob ==
  ASSUME IInv, NEW j \in Jobs, ScheduleJob(j)
  PROVE  CallInv' /\ ListInv' /\ ThreadInv' /\ SentInv'
<1> DEFINE others == Jobs \ {j}
<1>1. /\ executeAt'[j].minute > calledAt'[j]
      /\ call'[j] = "Create" /\ call[j] = "new"
      /\ \A k \in others : call'[k] = call[k] /\ executeAt'[k] = executeAt[k]
                           /\ calledAt'[k] = calledAt[k]
      /\ UNCHANGED <<now, row, bucket, temp, pc, work, job, sent>>
  BY AdjustedIsLater DEF IInv, ScheduleJob, TypeOK, lists, threads
<1>2. \A k \in Jobs, m \in Minutes : Placed(k, m) => Placed(k, m)'
  BY <1>1 DEF Placed, Called
<1>3. CallInv' BY <1>1 DEF IInv, CallInv
<1>4. ListInv' BY <1>1, <1>2 DEF IInv, ListInv
<1>5. ThreadInv' BY <1>1, <1>2 DEF IInv, ThreadInv, Holds, Running, Threads
<1>6. SentInv' BY <1>1 DEF IInv, SentInv, Called
<1>7. QED BY <1>3, <1>4, <1>5, <1>6

LEMMA InvCreateJob ==
  ASSUME IInv, NEW j \in Jobs, CreateJob(j)
  PROVE  CallInv' /\ ListInv' /\ ThreadInv' /\ SentInv'
<1>1. /\ call[j] = "Create"
      /\ (call'[j] = "RPush" /\ row'[j] = "SCHEDULED") \/ call'[j] = "failed"
      /\ row'[j] \in {row[j], "SCHEDULED"}
      /\ \A k \in Jobs \ {j} : call'[k] = call[k] /\ row'[k] = row[k]
      /\ UNCHANGED <<now, calledAt, executeAt, bucket, temp, pc, work, job, sent>>
  BY DEF IInv, CreateJob, TypeOK, lists, threads, Fails, Ok
<1>2. \A k \in Jobs, m \in Minutes : Placed(k, m) => Placed(k, m)'
  BY <1>1 DEF Placed, Called
<1>3. CallInv' BY <1>1 DEF IInv, CallInv
<1>4. ListInv' BY <1>1, <1>2 DEF IInv, ListInv
<1>5. ThreadInv' BY <1>1, <1>2 DEF IInv, ThreadInv, Holds, Running, Threads
<1>6. SentInv' BY <1>1 DEF IInv, SentInv, Called
<1>7. QED BY <1>3, <1>4, <1>5, <1>6

LEMMA InvPushToBucket ==
  ASSUME IInv, NEW j \in Jobs, PushToBucket(j)
  PROVE  CallInv' /\ ListInv' /\ ThreadInv' /\ SentInv'
<1>1. /\ call[j] = "RPush"
      /\ call'[j] \in {"accepted", "failed"}
      /\ bucket' \in {bucket, BucketWith(j)}
      /\ \A k \in Jobs \ {j} : call'[k] = call[k]
      /\ UNCHANGED <<now, calledAt, executeAt, row, temp, pc, work, job, sent>>
  BY DEF IInv, PushToBucket, TypeOK, threads, Fails, Ok
<1>2. \A k \in Jobs, m \in Minutes : Placed(k, m) => Placed(k, m)'
  BY <1>1 DEF Placed, Called
<1>3. CallInv' BY <1>1 DEF IInv, CallInv
<1>4. ListInv'
  <2>1. Placed(j, executeAt[j].minute)'
    BY <1>1 DEF IInv, CallInv, Placed, Called
  <2>2. \A m \in Minutes : j \notin temp[m]
    BY <1>1 DEF IInv, ListInv, Placed, Called
  <2>3. \A k \in Jobs, m \in Minutes :
          k \in bucket'[m] => k \in bucket[m] \/ (k = j /\ m = executeAt[j].minute)
    <3>1. executeAt[j].minute \in Minutes /\ bucket \in [Minutes -> SUBSET Jobs]
      BY DEF IInv, TypeOK, Times
    <3>2. \A m \in Minutes :
            BucketWith(j)[m] = IF m = executeAt[j].minute THEN bucket[m] \cup {j}
                                                          ELSE bucket[m]
      BY <3>1 DEF BucketWith
    <3>3. CASE bucket' = bucket BY <3>3
    <3>4. CASE bucket' = BucketWith(j) BY <3>2, <3>4
    <3>5. QED BY <1>1, <3>3, <3>4
  <2>4. QED BY <1>1, <1>2, <2>1, <2>2, <2>3 DEF IInv, ListInv
<1>5. ThreadInv' BY <1>1, <1>2 DEF IInv, ThreadInv, Holds, Running, Threads
<1>6. SentInv' BY <1>1 DEF IInv, SentInv, Called
<1>7. QED BY <1>3, <1>4, <1>5, <1>6

\* Time goes on.
LEMMA TickLater ==
  ASSUME TypeOK, Tick
  PROVE  /\ now' \in Times
         /\ \A t \in [minute : Nat, phase : Phases] : NotBefore(now, t) => NotBefore(now', t)
         /\ ~NotBefore(now, now')
<1>1. now \in Times /\ now' \in Times /\ now' = Succ(now)
  BY DEF Tick, TypeOK
<1>2. now.minute \in Nat /\ now.phase \in Nat /\ now.phase <= 2
  BY <1>1, ConstantsAssumption DEF Times, Minutes, Phases
<1>3. CASE now.phase = 2
  <2>1. now'.minute = now.minute + 1 /\ now'.phase = 0 BY <1>1, <1>3 DEF Succ
  <2>2. QED BY <1>1, <1>2, <2>1 DEF NotBefore
<1>4. CASE now.phase # 2
  <2>1. now'.minute = now.minute /\ now'.phase = now.phase + 1
    BY <1>1, <1>4 DEF Succ, Times
  <2>2. QED BY <1>1, <1>2, <2>1 DEF NotBefore, Phases
<1>5. QED BY <1>3, <1>4

LEMMA FiredAtType ==
  ASSUME NEW t \in Threads
  PROVE  FiredAt(t) \in [minute : Nat, phase : Phases] /\ FiredAt(t).minute >= t[2]
<1>1. t[2] \in Nat /\ t[1] \in Crons
  BY ConstantsAssumption DEF Threads, Minutes
<1>2. CASE t[1] = "main" BY <1>1, <1>2 DEF FiredAt, FiredIn, Phases
<1>3. CASE t[1] = "late" BY <1>1, <1>3 DEF FiredAt, FiredIn, Phases
<1>4. CASE t[1] = "cleanup"
  BY <1>1, <1>4, ConstantsAssumption DEF FiredAt, FiredIn, Phases
<1>5. QED BY <1>1, <1>2, <1>3, <1>4 DEF Crons

\* A thread runs after its minute has begun.
LEMMA RunningLate ==
  ASSUME IInv, NEW t \in Threads, Running(t)
  PROVE  t[2] <= now.minute
<1>1. NotBefore(now, FiredAt(t)) BY DEF IInv, ThreadInv
<1>2. now.minute \in Nat /\ t[2] \in Nat
  BY ConstantsAssumption DEF IInv, TypeOK, Times, Threads, Minutes
<1>3. FiredAt(t).minute \in Nat /\ FiredAt(t).minute >= t[2] BY FiredAtType
<1>4. QED BY <1>1, <1>2, <1>3 DEF NotBefore

\* Cron fires a thread at one time only.
LEMMA FiresWhenDue ==
  ASSUME NEW time \in Times, NEW t \in Threads, t \in Fires(time)
  PROVE  FiredAt(t) = time
<1>1. time = [minute |-> time.minute, phase |-> time.phase] /\ time.phase \in {0, 1, 2}
  BY DEF Times, Phases
<1>2. CASE time.phase = 0
  <2>1. t = <<"main", time.minute>> BY <1>2 DEF Fires
  <2>2. QED BY <1>1, <1>2, <2>1 DEF FiredAt, FiredIn
<1>3. CASE time.phase = 1
  <2>1. \E m \in Minutes : m + 1 = time.minute /\ t = <<"late", m>>
    BY <1>3 DEF Fires
  <2>2. QED BY <1>1, <1>3, <2>1 DEF FiredAt, FiredIn
<1>4. CASE time.phase = 2
  <2>1. \E m \in Minutes : m + CleanupAge = time.minute /\ t = <<"cleanup", m>>
    BY <1>4 DEF Fires
  <2>2. QED BY <1>1, <1>4, <2>1 DEF FiredAt, FiredIn
<1>5. QED BY <1>1, <1>2, <1>3, <1>4

LEMMA InvTick ==
  ASSUME IInv, Tick
  PROVE  CallInv' /\ ListInv' /\ ThreadInv' /\ SentInv'
<1>1. /\ now'.minute \in Nat /\ now.minute <= now'.minute
      /\ UNCHANGED <<call, calledAt, executeAt, row, bucket, temp, work, job, sent>>
  <2>1. now \in Times /\ Succ(now) \in Times /\ now' = Succ(now)
    BY DEF IInv, TypeOK, Tick
  <2>2. now.minute \in Nat BY <2>1, ConstantsAssumption DEF Times, Minutes
  <2>3. Succ(now).minute \in {now.minute, now.minute + 1} BY <2>1, SuccInTimes
  <2>4. QED BY <2>1, <2>2, <2>3 DEF Tick, clients, lists
<1>2. \A k \in Jobs, m \in Minutes : Placed(k, m) => Placed(k, m)'
  BY <1>1 DEF Placed, Called
<1>3. CallInv' BY <1>1 DEF IInv, CallInv
<1>4. ListInv' BY <1>1, <1>2 DEF IInv, ListInv
<1>5. ThreadInv'
  <2>1. ASSUME NEW t \in Threads
        PROVE  /\ Running(t)' => NotBefore(now, FiredAt(t))'
               /\ pc'[t] = pc[t] \/ (pc[t] = "idle" /\ pc'[t] = "LLen")
    <3>1. FiredAt(t)' = FiredAt(t) BY DEF FiredAt, FiredIn
    <3>2. Running(t) => NotBefore(now, FiredAt(t)) /\ NotBefore(now', FiredAt(t))
      BY TickLater, FiredAtType DEF IInv, ThreadInv
    <3>3. t \in Fires(now') => FiredAt(t) = now'
      BY TickLater, FiresWhenDue DEF IInv
    <3>4. NotBefore(now', now')
      BY TickLater, ConstantsAssumption DEF IInv, NotBefore, Times, Minutes, Phases
    <3>5. ~NotBefore(now, now') BY TickLater DEF IInv
    <3>6. pc'[t] = pc[t] \/ (t \in Fires(now') /\ pc'[t] = "LLen")
      BY DEF Tick
    <3>7. Running(t)' => t \in Fires(now') \/ Running(t)
      BY <3>6 DEF Running
    <3>8. QED BY <3>1, <3>2, <3>3, <3>4, <3>5, <3>6, <3>7 DEF Running
  <2>2. \A t \in Threads, j \in Jobs :
          Holds(t, j)' => pc'[t] \in OnJob \cup {"GetByID"} /\ Placed(j, t[2])'
    <3> SUFFICES ASSUME NEW t \in Threads, NEW j \in Jobs, Holds(t, j)'
                 PROVE  pc'[t] \in OnJob \cup {"GetByID"} /\ Placed(j, t[2])'
      OBVIOUS
    <3>1. Holds(t, j) /\ t[2] \in Minutes BY <1>1 DEF Holds, Threads
    <3>2. QED BY <1>2, <2>1, <3>1 DEF IInv, ThreadInv, OnJob
  <2>3. \A t \in Threads : pc'[t] \in OnJob => job'[t] \in Jobs
    BY <1>1, <2>1 DEF IInv, ThreadInv, OnJob
  <2>4. QED BY <2>1, <2>2, <2>3 DEF ThreadInv
<1>6. SentInv'
  <2>1. \A j \in Jobs : executeAt[j].minute \in Nat /\ now.minute \in Nat
    BY ConstantsAssumption DEF IInv, TypeOK, Times, Minutes
  <2>2. \A t \in Threads : pc'[t] \in {"SetCompleted", "LRem"} => pc[t] = pc'[t]
    BY DEF Tick
  <2>3. \A j \in Jobs : sent'[j] > 0 => Called(j)' /\ executeAt'[j].minute <= now'.minute
    BY <1>1, <2>1 DEF IInv, SentInv, Called
  <2>4. QED BY <1>1, <2>2, <2>3 DEF IInv, SentInv
<1>7. QED BY <1>3, <1>4, <1>5, <1>6

(***************************************************************************)
(* Thread steps.  What such a step leaves alone, and what it may do to the *)
(* ids a thread holds, is the same in most of them.                        *)
(***************************************************************************)
LEMMA ThreadStepFrame ==
  ASSUME NEW t \in Threads, ThreadStep(t)
  PROVE  UNCHANGED <<now, node, call, calledAt, executeAt>>
  BY DEF ThreadStep, CheckLength, TransferBucket, RangeTemp, GetByID, DropJob,
         UpdateRunning, SendToQueue, UpdateCompleted, RemoveFromTemp, clients

LEMMA PlacedKept ==
  ASSUME IInv, UNCHANGED <<call, executeAt>>,
         \A k \in Jobs : row[k] # "none" => row'[k] # "none",
         NEW j \in Jobs, NEW m, Placed(j, m)
  PROVE  Placed(j, m)'
  BY DEF Placed, Called

\* The ids thread t holds after a step that leaves row and the other threads alone.
LEMMA ThreadInvKept ==
  ASSUME IInv, NEW t \in Threads,
         UNCHANGED <<now, call, executeAt>>,
         \A k \in Jobs : row[k] # "none" => row'[k] # "none",
         \A u \in Threads \ {t} : pc'[u] = pc[u] /\ work'[u] = work[u] /\ job'[u] = job[u],
         Running(t),
         \A j \in Jobs : Holds(t, j)' =>
           pc'[t] \in OnJob \cup {"GetByID"} /\ (Holds(t, j) \/ Placed(j, t[2])),
         pc'[t] \in OnJob => job'[t] \in Jobs
  PROVE  ThreadInv'
<1>1. \A k \in Jobs, m \in Minutes : Placed(k, m) => Placed(k, m)'
  BY PlacedKept
<1>2. t[2] \in Minutes BY DEF Threads
<1>3. \A j \in Jobs : Holds(t, j)' => pc'[t] \in OnJob \cup {"GetByID"} /\ Placed(j, t[2])'
  BY <1>1, <1>2 DEF IInv, ThreadInv
<1>4. \A u \in Threads : NotBefore(now, FiredAt(u)) => NotBefore(now, FiredAt(u))'
  BY DEF NotBefore, FiredAt, FiredIn
<1>5. \A u \in Threads \ {t} :
         /\ Running(u)' => NotBefore(now, FiredAt(u))'
         /\ \A j \in Jobs : Holds(u, j)' => pc'[u] \in OnJob \cup {"GetByID"} /\ Placed(j, u[2])'
         /\ pc'[u] \in OnJob => job'[u] \in Jobs
  <2> SUFFICES ASSUME NEW u \in Threads \ {t}
               PROVE  /\ Running(u)' => NotBefore(now, FiredAt(u))'
                      /\ \A j \in Jobs : Holds(u, j)' =>
                           pc'[u] \in OnJob \cup {"GetByID"} /\ Placed(j, u[2])'
                      /\ pc'[u] \in OnJob => job'[u] \in Jobs
    OBVIOUS
  <2>1. u[2] \in Minutes BY DEF Threads
  <2>2. QED BY <1>1, <1>4, <2>1 DEF IInv, ThreadInv, Holds, Running
<1>6. Running(t)' => NotBefore(now, FiredAt(t))' BY <1>4 DEF IInv, ThreadInv
<1>7. QED BY <1>3, <1>5, <1>6 DEF ThreadInv

LEMMA InvCheckLength ==
  ASSUME IInv, NEW t \in Threads, CheckLength(t)
  PROVE  CallInv' /\ ListInv' /\ ThreadInv' /\ SentInv'
<1>1. /\ pc[t] = "LLen"
      /\ pc'[t] \in {"idle", "LRange", "Transfer"}
      /\ \A u \in Threads \ {t} : pc'[u] = pc[u]
      /\ UNCHANGED <<now, call, calledAt, executeAt, row, bucket, temp, work, job, sent>>
  BY DEF CheckLength, IInv, TypeOK, clients, lists, Goto
<1>2. CallInv' BY <1>1 DEF IInv, CallInv
<1>3. ListInv' BY <1>1 DEF IInv, ListInv, Placed, Called
<1>4. ThreadInv'
  <2>1. \A j \in Jobs : ~Holds(t, j) BY <1>1 DEF IInv, ThreadInv, OnJob
  <2>2. QED BY <1>1, <2>1, ThreadInvKept DEF Holds, Running, OnJob
<1>5. SentInv' BY <1>1 DEF IInv, SentInv, Called
<1>6. QED BY <1>2, <1>3, <1>4, <1>5

LEMMA InvTransferBucket ==
  ASSUME IInv, NEW t \in Threads, TransferBucket(t)
  PROVE  CallInv' /\ ListInv' /\ ThreadInv' /\ SentInv'
<1> DEFINE m == t[2]
<1>0. m \in Minutes BY DEF Threads
<1>1. /\ pc[t] = "Transfer"
      /\ \/ pc'[t] = "GetByID" /\ work'[t] = bucket[m]
         \/ pc'[t] = "idle" /\ work'[t] = work[t]
      /\ \A u \in Threads \ {t} : pc'[u] = pc[u] /\ work'[u] = work[u]
      /\ UNCHANGED <<now, call, calledAt, executeAt, row, job, sent>>
  BY DEF TransferBucket, IInv, TypeOK, clients, Goto
<1>2. CallInv' BY <1>1 DEF IInv, CallInv
<1>3. ListInv'
  <2>1. CASE UNCHANGED lists
    BY <1>1, <2>1 DEF IInv, ListInv, Placed, Called, lists
  <2>2. CASE LuaAtomicTransfer(m)
    <3>1. /\ bucket'[m] = {}
          /\ temp'[m] \subseteq temp[m] \cup bucket[m]
          /\ \A n \in Minutes \ {m} : bucket'[n] = bucket[n] /\ temp'[n] = temp[n]
      BY <1>0, <2>2 DEF LuaAtomicTransfer, IInv, TypeOK
    <3>2. QED BY <1>1, <3>1 DEF IInv, ListInv, Placed, Called
  <2>3. QED BY <2>1, <2>2 DEF TransferBucket
<1>4. ThreadInv'
  <2>1. \A j \in Jobs : ~Holds(t, j) BY <1>1 DEF IInv, ThreadInv, OnJob
  <2>2. \A j \in bucket[m] : Placed(j, m) BY <1>0 DEF IInv, TypeOK, ListInv
  <2>3. \A j \in Jobs : Holds(t, j)' => pc'[t] = "GetByID" /\ j \in bucket[m]
    BY <1>1, <2>1 DEF Holds
  <2>4. QED BY <1>1, <2>2, <2>3, ThreadInvKept DEF Running, OnJob
<1>5. SentInv' BY <1>1 DEF IInv, SentInv, Called
<1>6. QED BY <1>2, <1>3, <1>4, <1>5

LEMMA InvRangeTemp ==
  ASSUME IInv, NEW t \in Threads, RangeTemp(t)
  PROVE  CallInv' /\ ListInv' /\ ThreadInv' /\ SentInv'
<1> DEFINE m == t[2]
<1>0. m \in Minutes BY DEF Threads
<1>1. /\ pc[t] = "LRange"
      /\ \/ /\ pc'[t] = (IF temp[m] = {} THEN "idle" ELSE "GetByID")
            /\ work'[t] = temp[m]
         \/ pc'[t] = "idle" /\ work'[t] = work[t]
      /\ \A u \in Threads \ {t} : pc'[u] = pc[u] /\ work'[u] = work[u]
      /\ UNCHANGED <<now, call, calledAt, executeAt, row, bucket, temp, job, sent>>
  BY DEF RangeTemp, IInv, TypeOK, clients, lists, Goto
<1>2. CallInv' BY <1>1 DEF IInv, CallInv
<1>3. ListInv' BY <1>1 DEF IInv, ListInv, Placed, Called
<1>4. ThreadInv'
  <2>1. \A j \in Jobs : ~Holds(t, j) BY <1>1 DEF IInv, ThreadInv, OnJob
  <2>2. \A j \in temp[m] : Placed(j, m) BY <1>0 DEF IInv, TypeOK, ListInv
  <2>3. \A j \in Jobs : Holds(t, j)' => pc'[t] = "GetByID" /\ j \in temp[m]
    BY <1>1, <2>1 DEF Holds
  <2>4. QED BY <1>1, <2>2, <2>3, ThreadInvKept DEF Running, OnJob
<1>5. SentInv' BY <1>1 DEF IInv, SentInv, Called
<1>6. QED BY <1>2, <1>3, <1>4, <1>5

LEMMA InvGetByID ==
  ASSUME IInv, NEW t \in Threads, GetByID(t)
  PROVE  CallInv' /\ ListInv' /\ ThreadInv' /\ SentInv'
<1>1. /\ pc[t] = "GetByID"
      /\ job'[t] \in work[t] /\ work'[t] \subseteq work[t] /\ job'[t] \in Jobs
      /\ pc'[t] \in {"SetRunning", "Drop"}
      /\ \A u \in Threads \ {t} : pc'[u] = pc[u] /\ work'[u] = work[u] /\ job'[u] = job[u]
      /\ UNCHANGED <<now, call, calledAt, executeAt, row, bucket, temp, sent>>
  BY DEF GetByID, IInv, TypeOK, clients, lists, Goto
<1>2. CallInv' BY <1>1 DEF IInv, CallInv
<1>3. ListInv' BY <1>1 DEF IInv, ListInv, Placed, Called
<1>4. ThreadInv'
  <2>1. \A j \in Jobs : Holds(t, j)' => Holds(t, j) BY <1>1 DEF Holds
  <2>2. QED BY <1>1, <2>1, ThreadInvKept DEF Running, OnJob
<1>5. SentInv' BY <1>1 DEF IInv, SentInv, Called
<1>6. QED BY <1>2, <1>3, <1>4, <1>5

\* The two steps that take a job off TEMP and go on with the next one.
LEMMA InvLeaveTemp ==
  ASSUME IInv, NEW t \in Threads, DropJob(t) \/ RemoveFromTemp(t)
  PROVE  CallInv' /\ ListInv' /\ ThreadInv' /\ SentInv'
<1>0. t[2] \in Minutes BY DEF Threads
<1>1. /\ pc[t] \in OnJob
      /\ job'[t] = NoJob /\ temp' \in {temp, TempWithoutJob(t)}
      /\ pc'[t] = NextJob(t)
      /\ \A u \in Threads \ {t} : pc'[u] = pc[u] /\ job'[u] = job[u]
      /\ UNCHANGED <<now, call, calledAt, executeAt, row, bucket, work, sent>>
  BY DEF DropJob, RemoveFromTemp, IInv, TypeOK, clients, Goto, OnJob
<1>2. CallInv' BY <1>1 DEF IInv, CallInv
<1>3. ListInv'
  <2>1. \A m \in Minutes : temp'[m] \subseteq temp[m]
    BY <1>0, <1>1 DEF TempWithoutJob, IInv, TypeOK
  <2>2. QED BY <1>1, <2>1 DEF IInv, ListInv, Placed, Called
<1>4. ThreadInv'
  <2>1. \A j \in Jobs : Holds(t, j)' => Holds(t, j) /\ pc'[t] = "GetByID"
    BY <1>1, ConstantsAssumption DEF Holds, NextJob
  <2>2. pc'[t] \notin OnJob BY <1>1 DEF NextJob, OnJob
  <2>3. Running(t) BY <1>1 DEF Running, OnJob
  <2>4. QED BY <1>1, <2>1, <2>2, <2>3, ThreadInvKept
<1>5. SentInv' BY <1>1 DEF IInv, SentInv, Called, NextJob
<1>6. QED BY <1>2, <1>3, <1>4, <1>5

LEMMA InvUpdate ==
  ASSUME IInv, NEW t \in Threads, UpdateRunning(t) \/ UpdateCompleted(t)
  PROVE  CallInv' /\ ListInv' /\ ThreadInv' /\ SentInv'
<1>1. /\ \/ /\ pc[t] = "SetRunning" /\ pc'[t] = "Send"
            /\ row'[job[t]] \in {row[job[t]], "RUNNING"}
         \/ /\ pc[t] = "SetCompleted" /\ pc'[t] = "LRem"
            /\ row'[job[t]] \in {row[job[t]], "COMPLETED"}
      /\ job[t] \in Jobs
      /\ \A k \in Jobs \ {job[t]} : row'[k] = row[k]
      /\ \A u \in Threads \ {t} : pc'[u] = pc[u]
      /\ UNCHANGED <<now, call, calledAt, executeAt, bucket, temp, work, job, sent>>
  <2>1. pc[t] \in OnJob BY DEF UpdateRunning, UpdateCompleted, OnJob
  <2>2. job[t] \in Jobs BY <2>1 DEF IInv, ThreadInv
  <2>3. CASE UpdateRunning(t)
    BY <2>2, <2>3 DEF UpdateRunning, SetRow, IInv, TypeOK, clients, lists, Goto
  <2>4. CASE UpdateCompleted(t)
    BY <2>2, <2>4 DEF UpdateCompleted, SetRow, IInv, TypeOK, clients, lists, Goto
  <2>5. QED BY <2>3, <2>4
<1>2. \A k \in Jobs : row[k] # "none" => row'[k] # "none" BY <1>1
<1>3. CallInv' BY <1>1, <1>2 DEF IInv, CallInv
<1>4. ListInv' BY <1>1, <1>2 DEF IInv, ListInv, Placed, Called
<1>5. ThreadInv'
  <2>1. \A j \in Jobs : Holds(t, j)' => Holds(t, j) BY <1>1 DEF Holds
  <2>2. QED BY <1>1, <1>2, <2>1, ThreadInvKept DEF Running, OnJob
<1>6. SentInv' BY <1>1 DEF IInv, SentInv, Called
<1>7. QED BY <1>3, <1>4, <1>5, <1>6

LEMMA InvSendToQueue ==
  ASSUME IInv, NEW t \in Threads, SendToQueue(t)
  PROVE  CallInv' /\ ListInv' /\ ThreadInv' /\ SentInv'
<1>1. /\ pc[t] = "Send" /\ job[t] \in Jobs
      /\ \/ /\ pc'[t] = "SetCompleted" /\ job'[t] = job[t]
            /\ sent'[job[t]] = sent[job[t]] + 1
         \/ /\ pc'[t] = NextJob(t) /\ job'[t] = NoJob
            /\ sent'[job[t]] \in {sent[job[t]], sent[job[t]] + 1}
      /\ \A k \in Jobs \ {job[t]} : sent'[k] = sent[k]
      /\ \A u \in Threads \ {t} : pc'[u] = pc[u] /\ job'[u] = job[u]
      /\ UNCHANGED <<now, call, calledAt, executeAt, row, bucket, temp, work>>
  <2>1. pc[t] = "Send" BY DEF SendToQueue
  <2>2. job[t] \in Jobs BY <2>1 DEF IInv, ThreadInv, OnJob
  <2>3. QED BY <2>1, <2>2 DEF SendToQueue, IInv, TypeOK, clients, lists, Goto
<1>2. CallInv' BY <1>1 DEF IInv, CallInv
<1>3. ListInv' BY <1>1 DEF IInv, ListInv, Placed, Called
<1>4. ThreadInv'
  <2>1. \A j \in Jobs : Holds(t, j)' => Holds(t, j) /\ pc'[t] \in OnJob \cup {"GetByID"}
    BY <1>1, ConstantsAssumption DEF Holds, NextJob, OnJob
  <2>2. pc'[t] \in OnJob => job'[t] \in Jobs BY <1>1 DEF NextJob, OnJob
  <2>3. Running(t) BY <1>1 DEF Running
  <2>4. QED BY <1>1, <2>1, <2>2, <2>3, ThreadInvKept
<1>5. SentInv'
  <2>1. Called(job[t]) /\ executeAt[job[t]].minute = t[2]
    BY <1>1 DEF IInv, ThreadInv, Holds, Placed
  <2>2. t[2] <= now.minute
    BY <1>1, FiredAtType, RunningLate DEF IInv, Running
  <2>3. \A k \in Jobs : sent[k] \in Nat BY DEF IInv, TypeOK
  <2>4. \A k \in Jobs : sent[k] > 0 => sent'[k] > 0 BY <1>1, <2>3
  <2>5. \A k \in Jobs : sent'[k] > 0 => Called(k)' /\ executeAt'[k].minute <= now'.minute
    BY <1>1, <2>1, <2>2 DEF IInv, SentInv, Called
  <2>6. \A k \in Jobs : row'[k] = "COMPLETED" => sent'[k] > 0
    BY <1>1, <2>4 DEF IInv, SentInv
  <2>7. \A u \in Threads : pc'[u] \in {"SetCompleted", "LRem"} => sent'[job'[u]] > 0
    <3>1. pc'[t] \in {"SetCompleted", "LRem"} => sent'[job'[t]] > 0
      BY <1>1, <2>3 DEF NextJob
    <3>2. \A u \in Threads \ {t} :
            pc'[u] \in {"SetCompleted", "LRem"} => job'[u] \in Jobs /\ sent[job'[u]] > 0
      BY <1>1 DEF IInv, SentInv, ThreadInv, OnJob
    <3>3. QED BY <2>4, <3>1, <3>2
  <2>8. QED BY <2>5, <2>6, <2>7 DEF SentInv
<1>6. QED BY <1>2, <1>3, <1>4, <1>5

LEMMA InvCrash ==
  ASSUME IInv, Crash
  PROVE  CallInv' /\ ListInv' /\ ThreadInv' /\ SentInv'
<1>1. /\ \A j \in Jobs : call'[j] = IF InProgress(j) THEN "failed" ELSE call[j]
      /\ \A t \in Threads : pc'[t] = "idle" /\ work'[t] = {} /\ job'[t] = NoJob
      /\ UNCHANGED <<now, calledAt, executeAt, row, bucket, temp, sent>>
  BY DEF Crash, lists
<1>2. \A j \in Jobs : Called(j) => Called(j)' BY <1>1 DEF Called, InProgress
<1>3. CallInv' BY <1>1 DEF IInv, CallInv, InProgress
<1>4. ListInv' BY <1>1, <1>2 DEF IInv, ListInv, Placed
<1>5. ThreadInv' BY <1>1, ConstantsAssumption DEF ThreadInv, Holds, Running, OnJob
<1>6. SentInv' BY <1>1, <1>2 DEF IInv, SentInv
<1>7. QED BY <1>3, <1>4, <1>5, <1>6

LEMMA InvStep == ASSUME IInv, [Next]_vars PROVE IInv'
<1>1. TypeOK' BY TypeStep DEF IInv
<1>2. ASSUME NEW j \in Jobs, ScheduleJob(j) PROVE IInv'
  BY <1>1, <1>2, InvScheduleJob DEF IInv
<1>3. ASSUME NEW j \in Jobs, CallStep(j) PROVE IInv'
  BY <1>1, <1>3, InvCreateJob, InvPushToBucket DEF IInv, CallStep
<1>4. CASE Tick BY <1>1, <1>4, InvTick DEF IInv
<1>5. ASSUME NEW t \in Threads, ThreadStep(t) PROVE IInv'
  BY <1>1, <1>5, InvCheckLength, InvTransferBucket, InvRangeTemp, InvGetByID,
     InvLeaveTemp, InvUpdate, InvSendToQueue DEF IInv, ThreadStep
<1>6. CASE Crash BY <1>1, <1>6, InvCrash DEF IInv
<1>7. CASE UNCHANGED <<now, call, calledAt, executeAt, row, bucket, temp, pc, work, job, sent>>
  BY <1>1, <1>7 DEF IInv, CallInv, ListInv, ThreadInv, SentInv, Placed, Called, Holds,
     Running, NotBefore, FiredAt, FiredIn
<1>8. QED
  BY <1>2, <1>3, <1>4, <1>5, <1>6, <1>7
  DEF Next, vars, Restart, Stop, Exit, TimeIsUp, clients, lists, threads

(***************************************************************************)
(* Calls, lists, threads and the queue agree on every job, at any time and *)
(* whatever fails: the inductive invariant behind the theorems below.      *)
(***************************************************************************)
THEOREM Invariance == Spec => []IInv
<1>1. IInv /\ [Next]_vars => IInv' BY InvStep
<1>2. QED BY InvInit, <1>1, PTL DEF Spec

(***************************************************************************)
(* No job reaches its queue before the minute of its ExecuteAt, which is   *)
(* never the minute of the call or an earlier one.                         *)
(***************************************************************************)
THEOREM NeverEarly == Spec => []NeverBeforeItsMinute
<1>1. IInv => NeverBeforeItsMinute
  BY DEF IInv, SentInv, CallInv, Called, NeverBeforeItsMinute
<1>2. QED BY Invariance, <1>1, PTL

(***************************************************************************)
(* The transfer moves a job id, it does not copy it.                       *)
(***************************************************************************)
THEOREM SingleHome == Spec => []OneHome
<1>1. IInv => OneHome
  BY DEF IInv, ListInv, Placed, OneHome
<1>2. QED BY Invariance, <1>1, PTL

(***************************************************************************)
(* A row says COMPLETED only after a message went out.                     *)
(***************************************************************************)
THEOREM CompletedImpliesSent == Spec => []CompletedWasSent
<1>1. IInv => CompletedWasSent
  BY DEF IInv, SentInv, CompletedWasSent
<1>2. QED BY Invariance, <1>1, PTL

--------------------------------------------------------------------------------
(***************************************************************************)
(* While no read of a row has failed, and if no bucket outgrows Lua's      *)
(* stack, no accepted job disappears from the lists unsent: other faults,  *)
(* crashes and overlapping threads do not matter.  These are the two ways  *)
(* the code has of losing a job.                                           *)
(***************************************************************************)
BucketsFit ==
  /\ IsFiniteSet(Jobs)
  /\ Cardinality(Jobs) <= UnpackLimit

LEMMA FaultStrikes ==
  ASSUME TypeOK, NEW f, Fails(f)
  PROVE  Struck \subseteq Struck' /\ f \in Struck'
<1>1. faults \in Seq(Faults) /\ f \in Faults
  BY ConstantsAssumption DEF TypeOK, Fails, FaultLogs
<1>2. /\ faults' = Append(faults, f)
      /\ Len(faults') = Len(faults) + 1
      /\ faults'[Len(faults) + 1] = f
      /\ \A i \in 1 .. Len(faults) : faults'[i] = faults[i]
  BY <1>1 DEF Fails
<1>3. DOMAIN faults = 1 .. Len(faults) /\ DOMAIN faults' = 1 .. Len(faults) + 1
  BY <1>1, <1>2
<1>4. Len(faults) \in Nat BY <1>1
<1>5. QED BY <1>2, <1>3, <1>4 DEF Struck, Range

LEMMA StruckGrows ==
  ASSUME TypeOK, [Next]_vars
  PROVE  Struck \subseteq Struck'
<1>1. CASE UNCHANGED faults BY <1>1 DEF Struck
<1>2. CASE \E f \in Faults : Fails(f) BY <1>2, FaultStrikes
<1>3. QED BY <1>1, <1>2, FaultsStep

ReadsSucceed == "GetByID" \notin Struck
NeverDrops == \A t \in Threads : pc[t] # "Drop"

LEMMA TransferSucceeds ==
  ASSUME TypeOK, BucketsFit, NEW m \in Minutes
  PROVE  Cardinality(bucket[m]) <= UnpackLimit
<1>1. bucket[m] \subseteq Jobs BY DEF TypeOK
<1>2. /\ IsFiniteSet(bucket[m])
      /\ Cardinality(bucket[m]) <= Cardinality(Jobs)
  BY <1>1, FS_Subset DEF BucketsFit
<1>3. Cardinality(bucket[m]) \in Nat /\ Cardinality(Jobs) \in Nat
  BY <1>2, FS_CardinalityType DEF BucketsFit
<1>4. QED BY <1>2, <1>3, ConstantsAssumption DEF BucketsFit

LEMMA NeverDropsStep ==
  ASSUME IInv, NeverDrops, ReadsSucceed', [Next]_vars
  PROVE  NeverDrops'
<1> USE DEF NeverDrops, IInv, TypeOK
<1>1. ASSUME NEW t \in Threads, GetByID(t) PROVE NeverDrops'
  <2>0. ~Fails("GetByID") BY FaultStrikes DEF ReadsSucceed
  <2>1. \A j \in work[t] : row[j] # "none" /\ j \in Jobs
    BY DEF ThreadInv, Holds, Placed
  <2>2. pc'[t] = "SetRunning" BY <1>1, <2>1, <2>0 DEF GetByID, Goto
  <2>3. QED BY <1>1, <2>2 DEF GetByID, Goto
<1>2. ASSUME NEW t \in Threads, ThreadStep(t), ~GetByID(t) PROVE NeverDrops'
  BY <1>2 DEF ThreadStep, CheckLength, TransferBucket, RangeTemp, DropJob,
     UpdateRunning, SendToQueue, UpdateCompleted, RemoveFromTemp, Goto, NextJob
<1>3. CASE UNCHANGED pc BY <1>3
<1>4. CASE Tick BY <1>4 DEF Tick
<1>5. CASE Crash BY <1>5 DEF Crash
<1>6. QED
  BY <1>1, <1>2, <1>3, <1>4, <1>5
  DEF Next, vars, ScheduleJob, CallStep, CreateJob, PushToBucket, Restart, Stop, Exit,
      TimeIsUp, threads

Listed(j) == InBucket(j) \/ InTemp(j)

LEMMA VanishStep ==
  ASSUME IInv, IInv', NeverDrops, NothingVanishes, BucketsFit, ReadsSucceed', [Next]_vars
  PROVE  NothingVanishes'
<1> SUFFICES ASSUME NEW j \in Jobs, call'[j] = "accepted", ~Listed(j)', ~(sent'[j] > 0)
             PROVE  FALSE
  BY DEF NothingVanishes, Listed
<1> USE DEF IInv, TypeOK
<1>a. "GetByID" \notin Struck BY StruckGrows DEF ReadsSucceed
<1>0. sent[j] \in Nat /\ sent'[j] \in Nat OBVIOUS
<1>1. ASSUME NEW k \in Jobs, ScheduleJob(k) PROVE FALSE
  BY <1>1, <1>a DEF ScheduleJob, NothingVanishes, Listed, InBucket, InTemp, lists
<1>2. ASSUME NEW k \in Jobs, CreateJob(k) PROVE FALSE
  BY <1>2, <1>a DEF CreateJob, NothingVanishes, Listed, InBucket, InTemp, lists
<1>3. ASSUME NEW k \in Jobs, PushToBucket(k) PROVE FALSE
  <2>1. executeAt[k].minute \in Minutes BY DEF Times
  <2>2. BucketWith(k)[executeAt[k].minute] = bucket[executeAt[k].minute] \cup {k}
    BY <2>1 DEF BucketWith
  <2>3. \A m \in Minutes : bucket[m] \subseteq bucket'[m]
    BY <1>3, <2>1 DEF PushToBucket, BucketWith
  <2>4. UNCHANGED <<temp, sent>> BY <1>3 DEF PushToBucket
  <2>5. CASE k = j
    <3>1. bucket' = BucketWith(j) BY <1>3, <2>5 DEF PushToBucket
    <3>2. QED BY <2>1, <2>2, <2>5, <3>1 DEF Listed, InBucket
  <2>6. CASE k # j
    <3>1. call'[j] = call[j] BY <1>3, <2>6 DEF PushToBucket
    <3>2. QED BY <2>3, <2>4, <3>1, <1>a DEF NothingVanishes, Listed, InBucket, InTemp
  <2>7. QED BY <2>5, <2>6
<1>4. ASSUME NEW t \in Threads, TransferBucket(t) PROVE FALSE
  <2>0. t[2] \in Minutes BY DEF Threads
  <2>1. Cardinality(bucket[t[2]]) <= UnpackLimit BY <2>0, TransferSucceeds
  <2>2. UNCHANGED <<call, sent>> BY <1>4 DEF TransferBucket, clients
  <2>3. CASE UNCHANGED lists
    BY <2>2, <2>3, <1>a DEF NothingVanishes, Listed, InBucket, InTemp, lists
  <2>4. CASE LuaAtomicTransfer(t[2])
    <3>1. temp' = [temp EXCEPT ![t[2]] = @ \cup bucket[t[2]]]
      BY <2>1, <2>4 DEF LuaAtomicTransfer
    <3>2. \A m \in Minutes : bucket[m] \cup temp[m] \subseteq bucket'[m] \cup temp'[m]
      BY <2>0, <2>4, <3>1 DEF LuaAtomicTransfer
    <3>3. QED BY <2>2, <3>2, <1>a DEF NothingVanishes, Listed, InBucket, InTemp
  <2>5. QED BY <1>4, <2>3, <2>4 DEF TransferBucket
<1>5. ASSUME NEW t \in Threads, RemoveFromTemp(t) PROVE FALSE
  <2>0. t[2] \in Minutes BY DEF Threads
  <2>1. job[t] # j
    BY <1>0, <1>5 DEF RemoveFromTemp, SentInv
  <2>2. \A m \in Minutes : j \in temp[m] => j \in temp'[m]
    BY <1>5, <2>0, <2>1 DEF RemoveFromTemp, TempWithoutJob
  <2>3. UNCHANGED <<call, sent, bucket>> BY <1>5 DEF RemoveFromTemp, clients
  <2>4. QED BY <2>2, <2>3, <1>a DEF NothingVanishes, Listed, InBucket, InTemp
<1>6. ASSUME NEW t \in Threads, SendToQueue(t) PROVE FALSE
  <2>1. job[t] \in Jobs BY <1>6 DEF SendToQueue, ThreadInv, OnJob
  <2>2. sent[j] > 0 => sent'[j] > 0
    <3>1. sent' \in {sent, [sent EXCEPT ![job[t]] = @ + 1]} BY <1>6 DEF SendToQueue
    <3>2. CASE sent' = sent BY <3>2
    <3>3. CASE sent' = [sent EXCEPT ![job[t]] = @ + 1] BY <1>0, <2>1, <3>3
    <3>4. QED BY <3>1, <3>2, <3>3
  <2>3. UNCHANGED <<call, bucket, temp>> BY <1>6 DEF SendToQueue, clients, lists
  <2>4. QED BY <2>2, <2>3, <1>a DEF NothingVanishes, Listed, InBucket, InTemp
<1>7. CASE Crash
  BY <1>7, <1>a DEF Crash, InProgress, NothingVanishes, Listed, InBucket, InTemp, lists
<1>8. CASE UNCHANGED <<call, bucket, temp, sent>>
  BY <1>8, <1>a DEF NothingVanishes, Listed, InBucket, InTemp
<1>9. ASSUME NEW t \in Threads, ThreadStep(t) PROVE FALSE
  <2>1. ~DropJob(t) BY DEF NeverDrops, DropJob
  <2>2. QED
    BY <1>4, <1>5, <1>6, <1>8, <1>9, <2>1
    DEF ThreadStep, CheckLength, RangeTemp, GetByID, UpdateRunning, UpdateCompleted,
        clients, lists
<1>10. QED
  BY <1>1, <1>2, <1>3, <1>7, <1>8, <1>9
  DEF Next, CallStep, vars, Tick, Restart, Stop, Exit, TimeIsUp, clients, lists, threads

\* Whatever else fails, an accepted job leaves the lists only after a message for it
\* is in the queue, if no read of a row has failed and no bucket outgrows Lua's stack.
THEOREM NothingLost ==
  ASSUME BucketsFit
  PROVE  Spec => []NothingVanishes
<1> DEFINE NeverDropsYet == ReadsSucceed => NeverDrops
<1>1. Init => NeverDropsYet BY DEF Init, NeverDrops
<1>2. Init => NothingVanishes BY DEF Init, NothingVanishes
<1>3. IInv /\ [Next]_vars => (ReadsSucceed' => ReadsSucceed)
  BY StruckGrows DEF IInv, ReadsSucceed
<1>4. IInv /\ NeverDropsYet /\ [Next]_vars => NeverDropsYet'
  BY <1>3, NeverDropsStep
<1>5. IInv /\ IInv' /\ NeverDropsYet /\ NothingVanishes /\ [Next]_vars => NothingVanishes'
  <2>1. ~ReadsSucceed' => NothingVanishes' BY DEF NothingVanishes, ReadsSucceed
  <2>2. QED BY <1>3, <2>1, VanishStep
<1> HIDE DEF NeverDropsYet
<1>6. QED BY Invariance, <1>1, <1>2, <1>4, <1>5, PTL DEF Spec

--------------------------------------------------------------------------------
(***************************************************************************)
(* Who holds a job.  A thread that is not at a job has none, a process     *)
(* that is down has no threads, and calls and firings end within their     *)
(* slack.                                                                  *)
(***************************************************************************)
IdleInv ==
  /\ \A t \in Threads : pc[t] \notin OnJob => job[t] = NoJob
  /\ node = "down" => \A t \in Threads : ~Running(t)

LEMMA TickStarts ==
  ASSUME IInv, Tick, NEW t \in Threads
  PROVE  \/ pc'[t] = pc[t]
         \/ node = "up" /\ pc[t] = "idle" /\ pc'[t] = "LLen" /\ t \in Fires(now')
<1>1. pc'[t] = IF node = "up" /\ t \in Fires(now') THEN "LLen" ELSE pc[t]
  BY DEF Tick
<1>2. t \in Fires(now') => FiredAt(t) = now'
  BY TickLater, FiresWhenDue DEF IInv
<1>3. Running(t) => NotBefore(now, FiredAt(t)) /\ ~NotBefore(now, now')
  BY TickLater DEF IInv, ThreadInv
<1>4. QED BY <1>1, <1>2, <1>3 DEF Running

\* A thread changes its own state only, and what it holds next it held before,
\* or takes from the lists of its minute.
LEMMA ThreadStepOthers ==
  ASSUME TypeOK, NEW t \in Threads, ThreadStep(t)
  PROVE  \A u \in Threads \ {t} : pc'[u] = pc[u] /\ work'[u] = work[u] /\ job'[u] = job[u]
  BY DEF TypeOK, ThreadStep, CheckLength, TransferBucket, RangeTemp, GetByID, DropJob,
         UpdateRunning, SendToQueue, UpdateCompleted, RemoveFromTemp, Goto

LEMMA IdleStep == ASSUME IInv, IdleInv, [Next]_vars PROVE IdleInv'
<1> USE DEF IInv, TypeOK, IdleInv, Running
<1>1. ASSUME NEW t \in Threads, ThreadStep(t) PROVE IdleInv'
  <2>1. node' = node BY <1>1, ThreadStepFrame
  <2>2. pc[t] # "idle"
    BY <1>1 DEF ThreadStep, CheckLength, TransferBucket, RangeTemp, GetByID, DropJob,
       UpdateRunning, SendToQueue, UpdateCompleted, RemoveFromTemp
  <2>3. pc'[t] \notin OnJob => job'[t] = NoJob
    BY <1>1 DEF ThreadStep, CheckLength, TransferBucket, RangeTemp, GetByID, DropJob,
       UpdateRunning, SendToQueue, UpdateCompleted, RemoveFromTemp, OnJob, Goto
  <2>4. QED BY <1>1, <2>1, <2>2, <2>3, ThreadStepOthers
<1>2. CASE Tick
  <2>1. UNCHANGED <<job, node>> BY <1>2 DEF Tick
  <2>2. QED BY <1>2, <2>1, TickStarts DEF OnJob
<1>3. CASE Crash BY <1>3 DEF Crash
<1>4. CASE UNCHANGED <<pc, job>> /\ (node' = "down" => \A t \in Threads : ~Running(t))
  BY <1>4
<1>5. QED
  BY <1>1, <1>2, <1>3, <1>4
  DEF Next, vars, ScheduleJob, CallStep, CreateJob, PushToBucket, Restart, Stop, Exit,
      TimeIsUp, threads

LEMMA OnTimeStep == ASSUME IInv, IInv', OnTime(now), [Next]_vars PROVE OnTime(now)'
<1> USE DEF IInv, TypeOK, OnTime, Running, InProgress
<1>0. now.minute \in Nat /\ now'.minute \in Nat
  BY ConstantsAssumption DEF Times, Minutes
<1>1. ASSUME NEW t \in Threads, ThreadStep(t) PROVE OnTime(now)'
  <2>1. UNCHANGED <<now, call, calledAt>> BY <1>1, ThreadStepFrame
  <2>2. pc[t] # "idle"
    BY <1>1 DEF ThreadStep, CheckLength, TransferBucket, RangeTemp, GetByID, DropJob,
       UpdateRunning, SendToQueue, UpdateCompleted, RemoveFromTemp
  <2>3. QED BY <1>1, <2>1, <2>2, ThreadStepOthers DEF FiredIn
<1>2. CASE Tick
  <2>1. OnTime(Succ(now)) /\ now' = Succ(now) /\ UNCHANGED <<call, calledAt>>
    BY <1>2 DEF Tick, clients
  <2>2. ASSUME NEW t \in Threads, Running(t)'
        PROVE  now'.minute <= FiredIn(t) + ThreadSlack
    <3>1. CASE Running(t) BY <2>1, <3>1
    <3>2. CASE ~Running(t)
      <4>1. FiredAt(t) = now' BY <1>2, <2>2, <3>2, TickStarts, FiresWhenDue
      <4>2. FiredIn(t) = now'.minute BY <4>1 DEF FiredAt
      <4>3. QED BY <1>0, <4>2, ConstantsAssumption
    <3>3. QED BY <3>1, <3>2
  <2>3. QED BY <2>1, <2>2 DEF FiredIn
<1>3. ASSUME NEW j \in Jobs, ScheduleJob(j) PROVE OnTime(now)'
  <2>1. calledAt' = [calledAt EXCEPT ![j] = now.minute] /\ call' = [call EXCEPT ![j] = "Create"]
        /\ UNCHANGED <<now, pc>>
    BY <1>3 DEF ScheduleJob, threads
  <2>2. \A k \in Jobs : InProgress(k)' => now'.minute <= calledAt'[k] + CallSlack
    BY <1>0, <2>1, ConstantsAssumption
  <2>3. QED BY <2>1, <2>2 DEF FiredIn
<1>4. ASSUME NEW j \in Jobs, CallStep(j) PROVE OnTime(now)'
  <2>1. UNCHANGED <<now, calledAt, pc>> /\ InProgress(j)
    BY <1>4 DEF CallStep, CreateJob, PushToBucket, threads
  <2>2. \A k \in Jobs \ {j} : call'[k] = call[k]
    BY <1>4 DEF CallStep, CreateJob, PushToBucket
  <2>3. QED BY <2>1, <2>2 DEF FiredIn
<1>5. CASE Crash BY <1>5 DEF Crash
<1>6. CASE UNCHANGED <<now, call, calledAt, pc>> BY <1>6 DEF FiredIn
<1>7. QED
  BY <1>1, <1>2, <1>3, <1>4, <1>5, <1>6
  DEF Next, vars, Restart, Stop, Exit, TimeIsUp, clients, threads

(***************************************************************************)
(* Cleanup looks at a minute five minutes after it: by then main and late  *)
(* have ended.                                                             *)
(***************************************************************************)
FiringsEndInTime == ThreadSlack + 1 < CleanupAge

SweepDue(m) == NotBefore(now, [minute |-> m + CleanupAge, phase |-> 2])

LEMMA CleanupAlone ==
  ASSUME FiringsEndInTime, IInv, OnTime(now), NEW t \in Threads, SweepDue(t[2]), Running(t)
  PROVE  t = <<"cleanup", t[2]>>
<1>1. now.minute <= FiredIn(t) + ThreadSlack BY DEF OnTime
<1>2. now.minute \in Nat /\ t[2] \in Nat /\ t[1] \in Crons /\ t = <<t[1], t[2]>>
  BY ConstantsAssumption DEF IInv, TypeOK, Times, Threads, Minutes
<1>3. now.minute >= t[2] + CleanupAge
  BY <1>2, ConstantsAssumption DEF SweepDue, NotBefore
<1>4. t[1] = "main" => FALSE
  BY <1>1, <1>2, <1>3, ConstantsAssumption DEF FiredIn, FiringsEndInTime
<1>5. t[1] = "late" => FALSE
  BY <1>1, <1>2, <1>3, ConstantsAssumption DEF FiredIn, FiringsEndInTime
<1>6. QED BY <1>2, <1>4, <1>5 DEF Crons

\* A thread that reads TEMP is a cleanup, and due.
CleanupReads == \A t \in Threads : pc[t] = "LRange" => t[1] = "cleanup"

LEMMA CleanupReadsStep == ASSUME IInv, CleanupReads, [Next]_vars PROVE CleanupReads'
<1> USE DEF IInv, TypeOK, CleanupReads
<1>1. ASSUME NEW t \in Threads, ThreadStep(t) PROVE CleanupReads'
  <2>1. pc'[t] = "LRange" => t[1] = "cleanup"
    BY <1>1 DEF ThreadStep, CheckLength, TransferBucket, RangeTemp, GetByID, DropJob,
       UpdateRunning, SendToQueue, UpdateCompleted, RemoveFromTemp, Goto, NextJob
  <2>2. QED BY <1>1, <2>1, ThreadStepOthers
<1>2. CASE Tick BY <1>2, TickStarts
<1>3. CASE Crash BY <1>3 DEF Crash
<1>4. CASE UNCHANGED pc BY <1>4
<1>5. QED
  BY <1>1, <1>2, <1>3, <1>4
  DEF Next, vars, ScheduleJob, CallStep, CreateJob, PushToBucket, Restart, Stop, Exit,
      TimeIsUp, threads

LEMMA CleanupDue ==
  ASSUME IInv, NEW t \in Threads, t[1] = "cleanup", Running(t)
  PROVE  SweepDue(t[2])
  BY DEF IInv, ThreadInv, FiredAt, FiredIn, SweepDue

(***************************************************************************)
(* A job is in one hand: no two threads hold it, and none holds a job that *)
(* is still in its bucket, whatever fails and however the firings overlap. *)
(***************************************************************************)
OneHand ==
  \A j \in Jobs, t \in Threads : Holds(t, j) =>
    /\ \A u \in Threads : Holds(u, j) => u = t
    /\ ~InBucket(j)
    /\ ~(j \in work[t] /\ j = job[t])

\* What a thread holds after a step it held before or took from a list of its minute.
LEMMA HoldsAfter ==
  ASSUME IInv, IdleInv, NEW t \in Threads, ThreadStep(t), NEW j \in Jobs, Holds(t, j)'
  PROVE  \/ Holds(t, j)
         \/ TransferBucket(t) /\ j \in bucket[t[2]] /\ bucket'[t[2]] = {}
         \/ RangeTemp(t) /\ j \in temp[t[2]]
<1> USE DEF IInv, TypeOK, Holds
<1>0. t[2] \in Minutes BY DEF Threads
<1>1. CASE CheckLength(t) BY <1>1 DEF CheckLength
<1>2. CASE TransferBucket(t)
  <2>1. CASE work' = [work EXCEPT ![t] = bucket[t[2]]] /\ LuaAtomicTransfer(t[2])
    BY <1>0, <1>2, <2>1 DEF TransferBucket, LuaAtomicTransfer
  <2>2. CASE work' = work BY <1>2, <2>2 DEF TransferBucket
  <2>3. QED BY <1>2, <2>1, <2>2 DEF TransferBucket
<1>3. CASE RangeTemp(t) BY <1>3 DEF RangeTemp
<1>4. CASE GetByID(t) BY <1>4 DEF GetByID
<1>5. CASE DropJob(t) \/ SendToQueue(t) \/ RemoveFromTemp(t)
  BY <1>5, ConstantsAssumption DEF DropJob, SendToQueue, RemoveFromTemp
<1>6. CASE UpdateRunning(t) \/ UpdateCompleted(t)
  BY <1>6 DEF UpdateRunning, UpdateCompleted
<1>7. QED BY <1>1, <1>2, <1>3, <1>4, <1>5, <1>6 DEF ThreadStep

LEMMA BucketsShrink ==
  ASSUME TypeOK, NEW t \in Threads, ThreadStep(t), NEW m \in Minutes
  PROVE  bucket'[m] \subseteq bucket[m]
<1>1. CASE TransferBucket(t)
  BY <1>1 DEF TransferBucket, LuaAtomicTransfer, TypeOK, lists, Threads
<1>2. CASE ~TransferBucket(t)
  BY <1>2 DEF ThreadStep, CheckLength, RangeTemp, GetByID, DropJob,
     UpdateRunning, SendToQueue, UpdateCompleted, RemoveFromTemp, lists
<1>3. QED BY <1>1, <1>2

\* What cleanup reads nobody holds.
LEMMA NobodyHoldsSwept ==
  ASSUME FiringsEndInTime, IInv, OnTime(now), NEW m \in Minutes, SweepDue(m),
         NEW j \in temp[m], NEW t \in Threads, Holds(t, j)
  PROVE  t = <<"cleanup", m>>
<1>1. j \in Jobs BY DEF IInv, TypeOK
<1>2. Placed(j, t[2]) /\ Running(t) BY <1>1 DEF IInv, ThreadInv, Running, OnJob
<1>3. Placed(j, m) BY <1>1 DEF IInv, ListInv
<1>4. t[2] = m BY <1>2, <1>3 DEF Placed
<1>5. QED BY <1>2, <1>4, CleanupAlone

LEMMA OneHandThreadStep ==
  ASSUME FiringsEndInTime, IInv, IdleInv, CleanupReads, OnTime(now), OneHand,
         NEW t \in Threads, ThreadStep(t)
  PROVE  OneHand'
<1> USE DEF IInv, TypeOK
<1>0. t[2] \in Minutes BY DEF Threads
<1>1. \A u \in Threads \ {t}, j \in Jobs : Holds(u, j)' <=> Holds(u, j)
  BY ThreadStepOthers DEF Holds
<1>2. \A j \in Jobs : InBucket(j)' => InBucket(j)
  BY BucketsShrink DEF InBucket
\* A job that t takes was held by nobody else, and has left its bucket.
<1>3. ASSUME NEW j \in Jobs, Holds(t, j)'
      PROVE  ~InBucket(j)' /\ \A u \in Threads \ {t} : ~Holds(u, j)
  <2>1. CASE Holds(t, j) BY <1>2, <2>1 DEF OneHand
  <2>2. CASE TransferBucket(t) /\ j \in bucket[t[2]] /\ bucket'[t[2]] = {}
    <3>1. InBucket(j) BY <1>0, <2>2 DEF InBucket
    <3>2. \A n \in Minutes : j \in bucket[n] => n = t[2]
      BY <1>0, <2>2 DEF ListInv, Placed
    <3>3. ~InBucket(j)' BY <1>1, <1>3, <2>2, <3>2, BucketsShrink DEF InBucket
    <3>4. QED BY <3>1, <3>3 DEF OneHand
  <2>3. CASE RangeTemp(t) /\ j \in temp[t[2]]
    <3>1. t[1] = "cleanup" /\ Running(t)
      BY <2>3 DEF RangeTemp, CleanupReads, Running
    <3>2. SweepDue(t[2]) BY <3>1, CleanupDue
    <3>3. t = <<"cleanup", t[2]>> BY <3>1, <3>2, CleanupAlone
    <3>4. \A u \in Threads : Holds(u, j) => u = t
      BY <1>0, <2>3, <3>2, <3>3, NobodyHoldsSwept
    <3>5. ~InBucket(j) BY <1>0, <2>3 DEF InBucket, ListInv, Placed
    <3>6. QED BY <1>2, <3>4, <3>5
  <2>4. QED BY <1>3, <2>1, <2>2, <2>3, HoldsAfter
<1>4. \A j \in Jobs : ~(j \in work'[t] /\ j = job'[t])
  <2>1. CASE pc[t] \notin OnJob /\ job'[t] = job[t]
    BY <2>1, ConstantsAssumption DEF IdleInv
  <2>2. CASE GetByID(t) BY <2>2 DEF GetByID
  <2>3. CASE job'[t] \in {job[t], NoJob} /\ work' = work
    BY <2>3, ConstantsAssumption DEF OneHand, Holds
  <2>4. QED
    BY <2>1, <2>2, <2>3
    DEF ThreadStep, CheckLength, TransferBucket, RangeTemp, DropJob, UpdateRunning,
        SendToQueue, UpdateCompleted, RemoveFromTemp, OnJob
<1>5. \A u \in Threads \ {t} : work'[u] = work[u] /\ job'[u] = job[u]
  BY ThreadStepOthers
<1>6. SUFFICES ASSUME NEW j \in Jobs, NEW u \in Threads, Holds(u, j)'
               PROVE  /\ \A v \in Threads : Holds(v, j)' => v = u
                      /\ ~InBucket(j)'
                      /\ ~(j \in work'[u] /\ j = job'[u])
  BY DEF OneHand
<1>7. CASE u = t BY <1>1, <1>3, <1>4, <1>6, <1>7
<1>8. CASE u # t BY <1>1, <1>2, <1>3, <1>5, <1>6, <1>8 DEF OneHand
<1>9. QED BY <1>7, <1>8

LEMMA OneHandStep ==
  ASSUME FiringsEndInTime, IInv, IdleInv, CleanupReads, OnTime(now), OneHand, [Next]_vars
  PROVE  OneHand'
<1>1. ASSUME NEW t \in Threads, ThreadStep(t) PROVE OneHand'
  BY <1>1, OneHandThreadStep
<1>2. ASSUME NEW k \in Jobs, PushToBucket(k) PROVE OneHand'
  <2>1. UNCHANGED <<work, job>> BY <1>2 DEF PushToBucket, threads
  <2>2. \A t \in Threads : ~Holds(t, k)
    BY <1>2 DEF PushToBucket, IInv, ThreadInv, Placed, Called
  <2>3. executeAt[k].minute \in Minutes BY DEF IInv, TypeOK, Times
  <2>4. \A j \in Jobs \ {k} : InBucket(j)' => InBucket(j)
    BY <1>2, <2>3 DEF PushToBucket, BucketWith, InBucket, IInv, TypeOK
  <2>5. QED BY <2>1, <2>2, <2>4 DEF OneHand, Holds
<1>3. CASE Crash BY <1>3, ConstantsAssumption DEF Crash, OneHand, Holds
<1>4. CASE UNCHANGED <<bucket, work, job>> BY <1>4 DEF OneHand, Holds, InBucket
<1>5. QED
  BY <1>1, <1>2, <1>3, <1>4
  DEF Next, vars, ScheduleJob, CallStep, CreateJob, Tick, Restart, Stop, Exit,
      TimeIsUp, lists, threads

HandInv == IInv /\ IdleInv /\ CleanupReads /\ OnTime(now) /\ OneHand

LEMMA HandInit == Init => HandInv
<1> SUFFICES ASSUME Init PROVE IdleInv /\ CleanupReads /\ OnTime(now) /\ OneHand
  BY InvInit DEF HandInv
<1>1. IdleInv BY DEF Init, IdleInv
<1>2. CleanupReads BY DEF Init, CleanupReads
<1>3. OnTime(now) BY DEF Init, OnTime, InProgress, Running
<1>4. OneHand BY ConstantsAssumption DEF Init, OneHand, Holds
<1>5. QED BY <1>1, <1>2, <1>3, <1>4

LEMMA HandStep == ASSUME FiringsEndInTime, HandInv, [Next]_vars PROVE HandInv'
  BY InvStep, IdleStep, CleanupReadsStep, OnTimeStep, OneHandStep DEF HandInv

LEMMA HandInvariance == ASSUME FiringsEndInTime PROVE Spec => []HandInv
<1>1. HandInv /\ [Next]_vars => HandInv' BY HandStep
<1>2. QED BY HandInit, <1>1, PTL DEF Spec

(***************************************************************************)
(* While firings end before the cleanup of their minute, at most one       *)
(* thread works on a job and none on a job that is still in its bucket,    *)
(* whatever fails.                                                         *)
(***************************************************************************)
THEOREM OneThreadPerJob == ASSUME FiringsEndInTime PROVE Spec => []OneHand
<1>1. HandInv => OneHand BY DEF HandInv
<1>2. QED BY HandInvariance, <1>1, PTL

--------------------------------------------------------------------------------
(***************************************************************************)
(* A job that was dealt with.  Nobody will pick it up again: it is in no   *)
(* bucket, only a thread past the given steps holds it, and it is in TEMP  *)
(* only until this thread removes it.                                      *)
(***************************************************************************)
Held(j) == \E t \in Threads : Holds(t, j)

Done(j, steps) ==
  /\ ~InBucket(j)
  /\ \A t \in Threads : Holds(t, j) => j = job[t] /\ pc[t] \in steps
  /\ InTemp(j) => Held(j)

LEMMA TempAfter ==
  ASSUME TypeOK, NEW t \in Threads, ThreadStep(t), NEW j \in Jobs, InTemp(j)'
  PROVE  InTemp(j) \/ InBucket(j)
<1> USE DEF TypeOK, InTemp, InBucket
<1>0. t[2] \in Minutes BY DEF Threads
<1>1. CASE TransferBucket(t)
  BY <1>0, <1>1 DEF TransferBucket, LuaAtomicTransfer, lists
<1>2. CASE DropJob(t) \/ RemoveFromTemp(t)
  BY <1>0, <1>2 DEF DropJob, RemoveFromTemp, TempWithoutJob
<1>3. CASE UNCHANGED temp BY <1>3
<1>4. QED
  BY <1>1, <1>2, <1>3
  DEF ThreadStep, CheckLength, RangeTemp, GetByID, UpdateRunning, SendToQueue,
      UpdateCompleted, lists

LEMMA DoneThreadStep ==
  ASSUME FiringsEndInTime, HandInv, NEW t \in Threads, ThreadStep(t), ~Fails("LRem"),
         NEW j \in Jobs, NEW steps \in {{"SetCompleted", "LRem"}, {"LRem"}}, Done(j, steps)
  PROVE  Done(j, steps)'
<1> USE DEF HandInv, IInv, TypeOK
<1>0. t[2] \in Minutes BY DEF Threads
<1>1. ~InBucket(j)' BY BucketsShrink DEF Done, InBucket
<1>2. InTemp(j)' => InTemp(j) BY TempAfter DEF Done
<1>3. \A u \in Threads \ {t} :
        /\ Holds(u, j)' <=> Holds(u, j)
        /\ pc'[u] = pc[u] /\ job'[u] = job[u]
  BY ThreadStepOthers DEF Holds
<1>4. CASE Holds(t, j)
  <2>1. j = job[t] /\ pc[t] \in steps BY <1>4 DEF Done
  <2>2. CASE UpdateCompleted(t)
    <3>1. pc'[t] = "LRem" /\ UNCHANGED <<temp, work, job>>
      BY <2>2 DEF UpdateCompleted, Goto, lists
    <3>2. Holds(t, j)' /\ Held(j)' BY <1>4, <3>1 DEF Holds, Held
    <3>3. QED BY <1>1, <1>3, <2>1, <3>1, <3>2 DEF Done
  <2>3. CASE RemoveFromTemp(t)
    <3>1. temp' = TempWithoutJob(t) /\ job'[t] = NoJob /\ work' = work
      BY <2>3 DEF RemoveFromTemp
    <3>2. ~Holds(t, j)'
      BY <1>4, <2>1, <3>1, ConstantsAssumption DEF Holds, OneHand
    <3>3. \A m \in Minutes : j \in temp[m] => m = t[2]
      BY <1>0, <1>4 DEF ListInv, ThreadInv, Placed
    <3>4. ~InTemp(j)' BY <1>0, <2>1, <3>1, <3>3 DEF InTemp, TempWithoutJob
    <3>5. QED BY <1>1, <1>3, <3>2, <3>4 DEF Done
  <2>4. QED
    BY <2>1, <2>2, <2>3
    DEF ThreadStep, CheckLength, TransferBucket, RangeTemp, GetByID, DropJob,
        UpdateRunning, SendToQueue
<1>5. CASE ~Holds(t, j)
  <2>1. ~Holds(t, j)'
    <3>1. ~(j \in bucket[t[2]]) BY <1>0 DEF Done, InBucket
    <3>2. CASE RangeTemp(t) /\ j \in temp[t[2]]
      <4>1. t[1] = "cleanup" /\ Running(t)
        BY <3>2 DEF RangeTemp, CleanupReads, Running
      <4>2. SweepDue(t[2]) BY <4>1, CleanupDue
      <4>3. PICK u \in Threads : Holds(u, j)
        BY <1>0, <3>2 DEF Done, InTemp, Held
      <4>4. u = <<"cleanup", t[2]>> BY <1>0, <3>2, <4>2, <4>3, NobodyHoldsSwept
      <4>5. t = <<"cleanup", t[2]>> BY <4>1, <4>2, CleanupAlone
      <4>6. QED BY <1>5, <4>3, <4>4, <4>5
    <3>3. QED BY <1>5, <3>1, <3>2, HoldsAfter
  <2>2. QED BY <1>1, <1>2, <1>3, <1>5, <2>1 DEF Done, Held
<1>6. QED BY <1>4, <1>5

LEMMA DoneKept ==
  ASSUME FiringsEndInTime, HandInv, [Next]_vars, ~Fails("LRem"), ~Crash,
         NEW j \in Jobs, Called(j),
         NEW steps \in {{"SetCompleted", "LRem"}, {"LRem"}}, Done(j, steps)
  PROVE  Done(j, steps)'
<1> USE DEF HandInv
<1>1. ASSUME NEW t \in Threads, ThreadStep(t) PROVE Done(j, steps)'
  BY <1>1, DoneThreadStep
<1>2. ASSUME NEW k \in Jobs, PushToBucket(k) PROVE Done(j, steps)'
  <2>1. k # j BY <1>2 DEF PushToBucket, Called
  <2>2. executeAt[k].minute \in Minutes BY DEF IInv, TypeOK, Times
  <2>3. InBucket(j)' => InBucket(j)
    BY <1>2, <2>1, <2>2 DEF PushToBucket, BucketWith, InBucket, IInv, TypeOK
  <2>4. UNCHANGED <<temp, pc, work, job>> BY <1>2 DEF PushToBucket, threads
  <2>5. QED BY <2>3, <2>4 DEF Done, Held, Holds, InTemp
<1>3. CASE Tick
  <2>1. UNCHANGED <<bucket, temp, work, job>> BY <1>3 DEF Tick, lists
  <2>2. \A t \in Threads : pc[t] \in steps => pc'[t] = pc[t]
    BY <1>3, TickStarts
  <2>3. QED BY <2>1, <2>2 DEF Done, Held, Holds, InTemp, InBucket
<1>4. CASE UNCHANGED <<bucket, temp, pc, work, job>>
  BY <1>4 DEF Done, Held, Holds, InTemp, InBucket
<1>5. QED
  BY <1>1, <1>2, <1>3, <1>4
  DEF Next, vars, ScheduleJob, CallStep, CreateJob, Restart, Stop, Exit,
      TimeIsUp, lists, threads

LEMMA CrashStrikes == ASSUME TypeOK, Crash PROVE "Crash" \in Struck'
  BY FaultStrikes DEF Crash

LEMMA SentBySend ==
  ASSUME TypeOK, [Next]_vars, NEW j \in Jobs, sent'[j] # sent[j]
  PROVE  \E t \in Threads :
           SendToQueue(t) /\ job[t] = j /\ sent' = [sent EXCEPT ![j] = @ + 1]
<1>1. ASSUME NEW t \in Threads, SendToQueue(t)
      PROVE  SendToQueue(t) /\ job[t] = j /\ sent' = [sent EXCEPT ![j] = @ + 1]
  BY <1>1 DEF SendToQueue, TypeOK
<1>2. ASSUME NEW t \in Threads, ThreadStep(t) PROVE SendToQueue(t)
  BY <1>2 DEF ThreadStep, CheckLength, TransferBucket, RangeTemp, GetByID, DropJob,
     UpdateRunning, UpdateCompleted, RemoveFromTemp
<1>3. QED
  BY <1>1, <1>2
  DEF Next, vars, ScheduleJob, CallStep, CreateJob, PushToBucket, Tick, Crash, Restart,
      Stop, Exit, TimeIsUp

(***************************************************************************)
(* A job that was sent is done with, but for its status and its removal    *)
(* from TEMP by the thread that sent it.                                   *)
(***************************************************************************)
AfterSend == {"SetCompleted", "LRem"}

SentInvOnce ==
  Struck \cap {"Send", "LRem", "Crash"} = {} =>
    \A j \in Jobs : sent[j] > 0 => sent[j] = 1 /\ Done(j, AfterSend)

LEMMA SentOnceStep ==
  ASSUME FiringsEndInTime, HandInv, SentInvOnce, [Next]_vars
  PROVE  SentInvOnce'
<1> SUFFICES ASSUME Struck' \cap {"Send", "LRem", "Crash"} = {},
                    NEW j \in Jobs, sent'[j] > 0
             PROVE  sent'[j] = 1 /\ Done(j, AfterSend)'
  BY DEF SentInvOnce, AfterSend
<1> USE DEF HandInv, IInv, TypeOK
<1>1. Struck \cap {"Send", "LRem", "Crash"} = {} BY StruckGrows
<1>2. ~Fails("LRem") /\ ~Fails("Send") /\ ~Crash BY FaultStrikes, CrashStrikes
<1>3. CASE sent[j] > 0
  <2>1. sent[j] = 1 /\ Done(j, AfterSend) /\ Called(j)
    BY <1>1, <1>3 DEF SentInvOnce, SentInv
  <2>2. Done(j, AfterSend)' BY <1>2, <2>1, DoneKept DEF AfterSend
  <2>3. sent'[j] = sent[j]
    <3>1. \A t \in Threads : SendToQueue(t) => job[t] # j
      BY <2>1 DEF Done, AfterSend, Holds, SendToQueue
    <3>2. QED BY <3>1, SentBySend
  <2>4. QED BY <2>1, <2>2, <2>3
<1>4. CASE sent[j] = 0
  <2>1. PICK t \in Threads :
          SendToQueue(t) /\ job[t] = j /\ sent' = [sent EXCEPT ![j] = @ + 1]
    BY <1>4, SentBySend
  <2>2. pc'[t] = "SetCompleted" /\ UNCHANGED <<job, work, bucket>>
    BY <1>2, <2>1 DEF SendToQueue, Goto, lists
  <2>3. Holds(t, j) /\ Holds(t, j)' BY <2>1, <2>2 DEF Holds
  <2>4. \A u \in Threads : Holds(u, j)' => u = t
    BY <2>2, <2>3 DEF OneHand, Holds
  <2>5. ~InBucket(j)' BY <2>2, <2>3 DEF OneHand, InBucket
  <2>6. Done(j, AfterSend)'
    BY <2>1, <2>2, <2>3, <2>4, <2>5 DEF Done, Held, AfterSend
  <2>7. QED BY <1>4, <2>1, <2>6
<1>5. QED BY <1>3, <1>4

(***************************************************************************)
(* While firings end in time, a job is sent once, however main, late and   *)
(* cleanup overlap and whatever fails but the sends, the removals from     *)
(* TEMP and the process.                                                   *)
(***************************************************************************)
THEOREM NoDuplicates == ASSUME FiringsEndInTime PROVE Spec => []SentAtMostOnce
<1>1. Init => SentInvOnce BY DEF Init, SentInvOnce
<1>2. HandInv /\ SentInvOnce /\ [Next]_vars => SentInvOnce' BY SentOnceStep
<1>3. HandInv /\ SentInvOnce => SentAtMostOnce
  BY DEF SentInvOnce, SentAtMostOnce, HandInv, IInv, TypeOK
<1>4. QED BY HandInvariance, <1>1, <1>2, <1>3, PTL DEF Spec

--------------------------------------------------------------------------------
(***************************************************************************)
(* A job whose row says COMPLETED is done with, but for its removal from   *)
(* TEMP by the thread that completed it.                                   *)
(***************************************************************************)
CompletedInv ==
  Struck \cap {"LRem", "Crash"} = {} =>
    \A j \in Jobs : row[j] = "COMPLETED" => Done(j, {"LRem"})

\* Only the thread that has the job writes its row, after its creation.
LEMMA RowWrites ==
  ASSUME IInv, [Next]_vars, NEW j \in Jobs, row'[j] # row[j]
  PROVE  \/ ~Called(j) /\ row'[j] = "SCHEDULED"
         \/ \E t \in Threads :
              /\ job[t] = j
              /\ UpdateRunning(t) \/ (UpdateCompleted(t) /\ row'[j] = "COMPLETED")
<1> USE DEF IInv, TypeOK
<1>1. ASSUME NEW k \in Jobs, CreateJob(k) PROVE ~Called(j) /\ row'[j] = "SCHEDULED"
  BY <1>1 DEF CreateJob, Called
<1>2. ASSUME NEW t \in Threads, UpdateRunning(t) \/ UpdateCompleted(t)
      PROVE  job[t] = j /\ (UpdateCompleted(t) => row'[j] = "COMPLETED")
  <2>1. \E s \in {"RUNNING", "COMPLETED"} :
          /\ row' = [row EXCEPT ![job[t]] = s]
          /\ UpdateCompleted(t) => s = "COMPLETED"
    BY <1>2 DEF UpdateRunning, UpdateCompleted, SetRow
  <2>2. QED BY <1>2, <2>1
<1>3. ASSUME NEW t \in Threads, ThreadStep(t) PROVE UpdateRunning(t) \/ UpdateCompleted(t)
  BY <1>3 DEF ThreadStep, CheckLength, TransferBucket, RangeTemp, GetByID, DropJob,
     SendToQueue, RemoveFromTemp
<1>4. QED
  BY <1>1, <1>2, <1>3
  DEF Next, vars, ScheduleJob, CallStep, PushToBucket, Tick, Crash, Restart,
      Stop, Exit, TimeIsUp

LEMMA CompletedStaysStep ==
  ASSUME HandInv, CompletedInv, [Next]_vars, Struck' \cap {"LRem", "Crash"} = {},
         NEW j \in Jobs, row[j] = "COMPLETED"
  PROVE  row'[j] = "COMPLETED"
<1>1. Struck \cap {"LRem", "Crash"} = {} BY StruckGrows DEF HandInv, IInv
<1>2. Done(j, {"LRem"}) /\ Called(j) BY <1>1 DEF CompletedInv, HandInv, IInv, SentInv
<1>3. \A t \in Threads : job[t] = j => pc[t] = "LRem" BY <1>2 DEF Done, Holds
<1>4. \A t \in Threads : job[t] = j => ~UpdateRunning(t) BY <1>3 DEF UpdateRunning
<1>5. QED BY <1>2, <1>4, RowWrites DEF HandInv

LEMMA CompletedInvStep ==
  ASSUME FiringsEndInTime, HandInv, CompletedInv, [Next]_vars
  PROVE  CompletedInv'
<1> SUFFICES ASSUME Struck' \cap {"LRem", "Crash"} = {},
                    NEW j \in Jobs, row'[j] = "COMPLETED"
             PROVE  Done(j, {"LRem"})'
  BY DEF CompletedInv
<1> USE DEF HandInv, IInv, TypeOK
<1>1. Struck \cap {"LRem", "Crash"} = {} BY StruckGrows
<1>2. ~Fails("LRem") /\ ~Crash BY FaultStrikes, CrashStrikes
<1>3. CASE row[j] = "COMPLETED"
  <2>1. Done(j, {"LRem"}) /\ Called(j) BY <1>1, <1>3 DEF CompletedInv, SentInv
  <2>2. QED BY <1>2, <2>1, DoneKept
<1>4. CASE row[j] # "COMPLETED"
  <2>1. PICK t \in Threads : job[t] = j /\ (UpdateRunning(t) \/ UpdateCompleted(t))
    BY <1>4, RowWrites
  <2>2. UpdateCompleted(t)
    BY <2>1, <1>4 DEF UpdateRunning, SetRow
  <2>3. pc'[t] = "LRem" /\ UNCHANGED <<job, work, bucket>>
    BY <2>2 DEF UpdateCompleted, Goto, lists
  <2>4. Holds(t, j) /\ Holds(t, j)' BY <2>1, <2>3 DEF Holds
  <2>5. \A u \in Threads : Holds(u, j)' => u = t
    BY <2>3, <2>4 DEF OneHand, Holds
  <2>6. ~InBucket(j)' BY <2>3, <2>4 DEF OneHand, InBucket
  <2>7. QED BY <2>1, <2>3, <2>4, <2>5, <2>6 DEF Done, Held
<1>5. QED BY <1>3, <1>4

(***************************************************************************)
(* COMPLETED is final while firings end in time, no removal from TEMP has  *)
(* failed and the process has not crashed: main, late and cleanup never    *)
(* make a completed job RUNNING again.                                     *)
(***************************************************************************)
THEOREM CompletedStays == ASSUME FiringsEndInTime PROVE Spec => CompletedIsFinal
<1>1. Init => CompletedInv BY DEF Init, CompletedInv
<1>2. HandInv /\ CompletedInv /\ [Next]_vars => CompletedInv' BY CompletedInvStep
<1>3. HandInv /\ CompletedInv /\ [Next]_vars =>
        [Struck' \cap {"LRem", "Crash"} = {} =>
           \A j \in Jobs : row[j] = "COMPLETED" => row'[j] = "COMPLETED"]_vars
  BY CompletedStaysStep
<1>4. QED BY HandInvariance, <1>1, <1>2, <1>3, PTL DEF Spec, CompletedIsFinal

--------------------------------------------------------------------------------
(***************************************************************************)
(* While no transfer, send or removal has failed, every job in TEMP is in  *)
(* the hands of a thread.                                                  *)
(***************************************************************************)
HeldInv ==
  Struck \cap {"Transfer", "Send", "LRem", "Crash"} = {} =>
    \A j \in Jobs : InTemp(j) => Held(j)

\* What becomes of a job a thread holds: the thread keeps it, or the job leaves TEMP.
LEMMA HeldAfter ==
  ASSUME IInv, IdleInv, NEW t \in Threads, ThreadStep(t),
         ~Fails("Send"), ~Fails("LRem"), NEW j \in Jobs, Holds(t, j)
  PROVE  Holds(t, j)' \/ ~InTemp(j)'
<1> USE DEF IInv, TypeOK, Holds
<1>0. t[2] \in Minutes /\ pc[t] \in OnJob \cup {"GetByID"}
  BY DEF Threads, ThreadInv
<1>1. CASE GetByID(t)
  <2>1. j \in work[t] BY <1>1, ConstantsAssumption DEF GetByID, IdleInv, OnJob
  <2>2. QED BY <1>1, <2>1 DEF GetByID
<1>2. CASE DropJob(t) \/ RemoveFromTemp(t)
  <2>1. work' = work /\ temp' = TempWithoutJob(t)
    BY <1>2 DEF DropJob, RemoveFromTemp
  <2>2. CASE j \in work[t] BY <2>1, <2>2
  <2>3. CASE j = job[t]
    <3>1. \A m \in Minutes : j \in temp[m] => m = t[2]
      BY <1>0, <2>3 DEF ListInv, ThreadInv, Placed
    <3>2. QED BY <1>0, <2>1, <2>3, <3>1 DEF InTemp, TempWithoutJob
  <2>4. QED BY <2>2, <2>3
<1>3. CASE UNCHANGED <<work, job>> BY <1>3
<1>4. QED
  BY <1>0, <1>1, <1>2, <1>3
  DEF ThreadStep, CheckLength, TransferBucket, RangeTemp, UpdateRunning, SendToQueue,
      UpdateCompleted, OnJob

\* A job reaches TEMP in the hands of the thread that transfers it.
LEMMA TransferHolds ==
  ASSUME TypeOK, NEW t \in Threads, ThreadStep(t), ~Fails("Transfer"),
         NEW j \in Jobs, InTemp(j)', ~InTemp(j)
  PROVE  Holds(t, j)'
<1> USE DEF TypeOK, InTemp
<1>0. t[2] \in Minutes BY DEF Threads
<1>1. CASE TransferBucket(t)
  <2>1. LuaAtomicTransfer(t[2]) BY <1>1 DEF TransferBucket
  <2>2. j \in bucket[t[2]] /\ Cardinality(bucket[t[2]]) <= UnpackLimit
    BY <1>0, <2>1 DEF LuaAtomicTransfer
  <2>3. work' = [work EXCEPT ![t] = bucket[t[2]]]
    BY <1>1, <2>2 DEF TransferBucket
  <2>4. QED BY <2>2, <2>3 DEF Holds
<1>2. CASE DropJob(t) \/ RemoveFromTemp(t)
  BY <1>0, <1>2 DEF DropJob, RemoveFromTemp, TempWithoutJob
<1>3. CASE UNCHANGED temp BY <1>3
<1>4. QED
  BY <1>1, <1>2, <1>3
  DEF ThreadStep, CheckLength, RangeTemp, GetByID, UpdateRunning, SendToQueue,
      UpdateCompleted, lists

LEMMA HeldStep ==
  ASSUME IInv, IdleInv, HeldInv, [Next]_vars
  PROVE  HeldInv'
<1> SUFFICES ASSUME Struck' \cap {"Transfer", "Send", "LRem", "Crash"} = {},
                    NEW j \in Jobs, InTemp(j)'
             PROVE  Held(j)'
  BY DEF HeldInv
<1> USE DEF IInv, TypeOK
<1>1. Struck \cap {"Transfer", "Send", "LRem", "Crash"} = {} BY StruckGrows
<1>2. ~Fails("Transfer") /\ ~Fails("LRem") /\ ~Fails("Send") /\ ~Crash
  BY FaultStrikes, CrashStrikes
<1>3. ASSUME NEW t \in Threads, ThreadStep(t) PROVE Held(j)'
  <2>1. CASE InTemp(j)
    <3>1. PICK u \in Threads : Holds(u, j) BY <1>1, <2>1 DEF HeldInv, Held
    <3>2. CASE u = t BY <1>2, <1>3, <3>1, <3>2, HeldAfter DEF Held
    <3>3. CASE u # t BY <1>3, <3>1, <3>3, ThreadStepOthers DEF Held, Holds
    <3>4. QED BY <3>2, <3>3
  <2>2. CASE ~InTemp(j) BY <1>2, <1>3, <2>2, TransferHolds DEF Held
  <2>3. QED BY <2>1, <2>2
<1>4. CASE UNCHANGED <<temp, work, job>>
  BY <1>1, <1>4 DEF HeldInv, Held, Holds, InTemp
<1>5. QED
  BY <1>2, <1>3, <1>4
  DEF Next, vars, ScheduleJob, CallStep, CreateJob, PushToBucket, Tick, Restart,
      Stop, Exit, TimeIsUp, lists, threads

(***************************************************************************)
(* A graceful Stop leaves nothing half processed, for any timing: when the *)
(* process is down no thread is left to hold a job, so TEMP is empty.      *)
(***************************************************************************)
THEOREM StopIsClean == Spec => []StopLeavesNothingBehind
<1>1. Init => IdleInv BY HandInit DEF HandInv
<1>2. Init => HeldInv BY DEF Init, HeldInv, InTemp
<1>3. IInv /\ IdleInv /\ [Next]_vars => IdleInv' BY IdleStep
<1>4. IInv /\ IdleInv /\ HeldInv /\ [Next]_vars => HeldInv' BY HeldStep
<1>5. IInv /\ IdleInv /\ HeldInv => StopLeavesNothingBehind
  <2> SUFFICES ASSUME IInv, IdleInv, HeldInv, node = "down",
                      Struck \cap {"Transfer", "Send", "LRem", "Crash"} = {},
                      NEW m \in Minutes, NEW j \in temp[m]
               PROVE  FALSE
    BY DEF StopLeavesNothingBehind, IInv, TypeOK
  <2>1. j \in Jobs /\ InTemp(j) BY DEF IInv, TypeOK, InTemp
  <2>2. PICK t \in Threads : Holds(t, j) BY <2>1 DEF HeldInv, Held
  <2>3. Running(t) BY <2>1, <2>2 DEF IInv, ThreadInv, Running, OnJob
  <2>4. QED BY <2>3 DEF IdleInv
<1>6. QED BY Invariance, <1>1, <1>2, <1>3, <1>4, <1>5, PTL DEF Spec

--------------------------------------------------------------------------------
(***************************************************************************)
(* The late check of a minute finds all its jobs, if calls end within a    *)
(* minute: a call that began before the minute of its job has pushed it    *)
(* when that minute is over.                                               *)
(***************************************************************************)
CallsEndInTime == CallSlack <= 1

LateDue(m) == NotBefore(now, [minute |-> m + 1, phase |-> 1])

BucketInv ==
  Struck \cap {"LLen", "Transfer", "Crash", "Stop"} = {} =>
    /\ node = "up"
    /\ \A m \in Minutes :
         LateDue(m) /\ pc[<<"late", m>>] \notin {"LLen", "Transfer"} => bucket[m] = {}

\* Nothing is pushed to the bucket of a minute that is over.
LEMMA PushedInTime ==
  ASSUME CallsEndInTime, IInv, OnTime(now), NEW j \in Jobs, PushToBucket(j),
         NEW m \in Minutes, LateDue(m)
  PROVE  executeAt[j].minute # m
<1>1. now.minute <= calledAt[j] + CallSlack /\ executeAt[j].minute > calledAt[j]
  BY DEF PushToBucket, OnTime, InProgress, IInv, CallInv
<1>2. /\ now.minute \in Nat /\ calledAt[j] \in Nat /\ m \in Nat
      /\ executeAt[j].minute \in Nat /\ CallSlack \in Nat
  BY ConstantsAssumption DEF IInv, TypeOK, Times, Minutes
<1>3. now.minute >= m + 1 BY <1>2 DEF LateDue, NotBefore
<1>4. QED BY <1>1, <1>2, <1>3 DEF CallsEndInTime

\* A minute becomes due for the late check as cron starts it.
LEMMA LateFires ==
  ASSUME IInv, Tick, node = "up", NEW m \in Minutes, LateDue(m)', ~LateDue(m)
  PROVE  pc'[<<"late", m>>] = "LLen"
<1> DEFINE t == <<"late", m>>
<1>1. now \in Times /\ now' \in Times /\ now' = Succ(now)
  BY DEF Tick, IInv, TypeOK
<1>2. now.minute \in Nat /\ now.phase \in 0 .. 2 /\ m \in Nat
  BY <1>1, ConstantsAssumption DEF Times, Minutes, Phases
<1>3. now'.minute = m + 1 /\ now'.phase = 1
  <2>1. CASE now.phase = 2
    <3>1. now'.minute = now.minute + 1 /\ now'.phase = 0 BY <1>1, <2>1 DEF Succ
    <3>2. QED BY <1>2, <2>1, <3>1 DEF LateDue, NotBefore
  <2>2. CASE now.phase # 2
    <3>1. now'.minute = now.minute /\ now'.phase = now.phase + 1
      BY <1>1, <2>2 DEF Succ, Times
    <3>2. QED BY <1>2, <2>2, <3>1 DEF LateDue, NotBefore
  <2>3. QED BY <2>1, <2>2
<1>4. t \in Threads /\ t \in Fires(now')
  BY <1>3 DEF Fires, Threads, Crons
<1>5. QED BY <1>4 DEF Tick

LEMMA BucketThreadStep ==
  ASSUME IInv, BucketInv, NEW t \in Threads, ThreadStep(t),
         Struck' \cap {"LLen", "Transfer", "Crash", "Stop"} = {},
         NEW m \in Minutes, LateDue(m)', pc'[<<"late", m>>] \notin {"LLen", "Transfer"}
  PROVE  bucket'[m] = {}
<1> USE DEF IInv, TypeOK
<1>1. LateDue(m) BY ThreadStepFrame DEF LateDue, NotBefore
<1>2. Struck \cap {"LLen", "Transfer", "Crash", "Stop"} = {}
  BY StruckGrows, ThreadStepFrame DEF Next
<1>3. ~Fails("LLen") /\ ~Fails("Transfer") BY FaultStrikes
<1>4. CASE bucket[m] = {} BY <1>4, BucketsShrink
<1>5. CASE bucket[m] # {}
  <2>1. pc[<<"late", m>>] \in {"LLen", "Transfer"} BY <1>1, <1>2, <1>5 DEF BucketInv
  <2>2. t = <<"late", m>>
    <3>1. <<"late", m>> \in Threads BY DEF Threads, Crons
    <3>2. QED BY <2>1, <3>1, ThreadStepOthers
  <2>3. ~CheckLength(t)
    BY <1>3, <1>5, <2>2 DEF CheckLength, Goto
  <2>4. TransferBucket(t)
    BY <2>1, <2>2, <2>3
    DEF ThreadStep, RangeTemp, GetByID, DropJob, UpdateRunning, SendToQueue,
        UpdateCompleted, RemoveFromTemp
  <2>5. QED BY <1>3, <2>2, <2>4 DEF TransferBucket, LuaAtomicTransfer
<1>6. QED BY <1>4, <1>5

LEMMA BucketStep ==
  ASSUME CallsEndInTime, IInv, IInv', OnTime(now), BucketInv, [Next]_vars
  PROVE  BucketInv'
<1> SUFFICES ASSUME Struck' \cap {"LLen", "Transfer", "Crash", "Stop"} = {}
             PROVE  /\ node' = "up"
                    /\ \A m \in Minutes :
                         LateDue(m)' /\ pc'[<<"late", m>>] \notin {"LLen", "Transfer"}
                           => bucket'[m] = {}
  BY DEF BucketInv
<1>1. Struck \cap {"LLen", "Transfer", "Crash", "Stop"} = {} /\ node = "up"
  BY StruckGrows DEF BucketInv, IInv
<1>2. ~Crash /\ ~Stop BY FaultStrikes, CrashStrikes DEF Stop, IInv
<1>3. node' = "up"
  <2>1. ASSUME NEW t \in Threads, ThreadStep(t) PROVE node' = node
    BY <2>1, ThreadStepFrame
  <2>2. QED
    BY <1>1, <1>2, <2>1
    DEF Next, vars, ScheduleJob, CallStep, CreateJob, PushToBucket, Tick, Restart, Exit,
        TimeIsUp
<1>4. SUFFICES ASSUME NEW m \in Minutes, LateDue(m)',
                      pc'[<<"late", m>>] \notin {"LLen", "Transfer"}
               PROVE  bucket'[m] = {}
  BY <1>3
<1>5. ASSUME NEW t \in Threads, ThreadStep(t) PROVE bucket'[m] = {}
  BY <1>4, <1>5, BucketThreadStep
<1>6. ASSUME NEW j \in Jobs, PushToBucket(j) PROVE bucket'[m] = {}
  <2>1. UNCHANGED <<now, pc>> BY <1>6 DEF PushToBucket, threads
  <2>2. LateDue(m) BY <1>4, <2>1 DEF LateDue, NotBefore
  <2>3. bucket[m] = {} BY <1>1, <1>4, <2>1, <2>2 DEF BucketInv
  <2>4. executeAt[j].minute # m BY <1>6, <2>2, PushedInTime
  <2>5. QED BY <1>6, <2>3, <2>4 DEF PushToBucket, BucketWith, IInv, TypeOK
<1>7. CASE Tick
  <2>0. <<"late", m>> \in Threads BY DEF Threads, Crons
  <2>1. LateDue(m) BY <1>1, <1>4, <1>7, LateFires
  <2>2. pc'[<<"late", m>>] = pc[<<"late", m>>] BY <1>4, <1>7, <2>0, TickStarts
  <2>3. bucket' = bucket BY <1>7 DEF Tick, lists
  <2>4. QED BY <1>1, <1>4, <2>1, <2>2, <2>3 DEF BucketInv
<1>8. CASE UNCHANGED <<now, bucket, pc>>
  BY <1>1, <1>4, <1>8 DEF BucketInv, LateDue, NotBefore
<1>9. QED
  BY <1>2, <1>5, <1>6, <1>7, <1>8
  DEF Next, vars, ScheduleJob, CallStep, CreateJob, Restart, Exit, TimeIsUp, lists, threads

(***************************************************************************)
(* No job is stranded: if calls end within a minute, the bucket of a       *)
(* minute is empty for good once its late check is over, unless the length *)
(* of a list could not be read, a transfer failed, or the process was not  *)
(* there.                                                                  *)
(***************************************************************************)
THEOREM NothingStranded == ASSUME CallsEndInTime PROVE Spec => []NoJobStranded
<1>1. Init => BucketInv BY DEF Init, BucketInv
<1>2. Init => OnTime(now) BY HandInit DEF HandInv
<1>3. IInv /\ IInv' /\ OnTime(now) /\ [Next]_vars => OnTime(now)' BY OnTimeStep
<1>4. IInv /\ IInv' /\ OnTime(now) /\ BucketInv /\ [Next]_vars => BucketInv'
  BY BucketStep
<1>5. BucketInv => NoJobStranded BY DEF BucketInv, NoJobStranded, LateDue
<1>6. QED BY Invariance, <1>1, <1>2, <1>3, <1>4, <1>5, PTL DEF Spec

--------------------------------------------------------------------------------
(***************************************************************************)
(* The cleanup of a minute sees to what main and late left in TEMP.  Until *)
(* a call fails there is nothing to see to, and after one failed call none *)
(* of cleanup's own calls fails.                                           *)
(***************************************************************************)
SweepInv ==
  Len(faults) <= 1 /\ Struck \cap {"Crash", "Stop"} = {} =>
    /\ node = "up"
    /\ \A m \in Minutes : SweepDue(m) =>
         /\ faults = <<>> => pc[<<"cleanup", m>>] \in {"idle", "LLen"}
         /\ pc[<<"cleanup", m>>] \notin {"LLen", "LRange"} =>
              \A j \in temp[m] : Held(j)

LEMMA FaultsCount ==
  ASSUME TypeOK, [Next]_vars
  PROVE  /\ Len(faults) <= Len(faults')
         /\ faults' = <<>> => faults = <<>>
         /\ faults # <<>> /\ Len(faults') <= 1 => \A f \in Faults : ~Fails(f)
         /\ faults = <<>> => Struck = {}
<1>1. faults \in Seq(Faults) BY DEF TypeOK, FaultLogs
<1>2. Len(faults) \in Nat /\ (faults # <<>> => Len(faults) > 0) BY <1>1
<1>3. \A f \in Faults : Fails(f) =>
        Len(faults') = Len(faults) + 1 /\ faults' # <<>>
  BY <1>1, <1>2 DEF Fails
<1>4. faults = <<>> => Struck = {} BY DEF Struck, Range
<1>5. QED BY <1>2, <1>3, <1>4, FaultsStep

\* Without faults, TEMP of a minute that is due for cleanup is empty.
LEMMA NothingToSweep ==
  ASSUME FiringsEndInTime, HandInv, HeldInv, Struck = {}, NEW m \in Minutes, SweepDue(m),
         pc[<<"cleanup", m>>] \in {"idle", "LLen", "LRange"}
  PROVE  temp[m] = {}
<1> SUFFICES ASSUME NEW j \in temp[m] PROVE FALSE OBVIOUS
<1> USE DEF HandInv, IInv, TypeOK
<1>1. j \in Jobs /\ InTemp(j) BY DEF InTemp
<1>2. PICK t \in Threads : Holds(t, j) BY <1>1 DEF HeldInv, Held
<1>3. t = <<"cleanup", m>> BY <1>2, NobodyHoldsSwept
<1>4. QED BY <1>1, <1>2, <1>3 DEF ThreadInv, OnJob

\* Only the cleanup of a minute touches its TEMP when it is due.
LEMMA OthersLeaveTemp ==
  ASSUME FiringsEndInTime, HandInv, NEW m \in Minutes, SweepDue(m),
         NEW t \in Threads, ThreadStep(t), t # <<"cleanup", m>>
  PROVE  temp'[m] = temp[m]
<1> USE DEF HandInv, IInv, TypeOK
<1>1. Running(t)
  BY DEF Running, ThreadStep, CheckLength, TransferBucket, RangeTemp, GetByID, DropJob,
     UpdateRunning, SendToQueue, UpdateCompleted, RemoveFromTemp
<1>2. t[2] # m BY <1>1, CleanupAlone
<1>3. CASE TransferBucket(t)
  BY <1>2, <1>3 DEF TransferBucket, LuaAtomicTransfer, lists, Threads
<1>4. CASE DropJob(t) \/ RemoveFromTemp(t)
  BY <1>2, <1>4 DEF DropJob, RemoveFromTemp, TempWithoutJob, Threads
<1>5. CASE UNCHANGED temp BY <1>5
<1>6. QED
  BY <1>3, <1>4, <1>5
  DEF ThreadStep, CheckLength, RangeTemp, GetByID, UpdateRunning, SendToQueue,
      UpdateCompleted, lists

\* A minute becomes due for cleanup as cron starts it.
LEMMA CleanupFires ==
  ASSUME IInv, Tick, node = "up", NEW m \in Minutes, SweepDue(m)', ~SweepDue(m)
  PROVE  pc'[<<"cleanup", m>>] = "LLen"
<1> DEFINE t == <<"cleanup", m>>
<1>1. now \in Times /\ now' \in Times /\ now' = Succ(now)
  BY DEF Tick, IInv, TypeOK
<1>2. now.minute \in Nat /\ now.phase \in 0 .. 2 /\ m \in Nat /\ CleanupAge \in Nat
  BY <1>1, ConstantsAssumption DEF Times, Minutes, Phases
<1>3. now'.minute = m + CleanupAge /\ now'.phase = 2
  <2>1. CASE now.phase = 2
    <3>1. now'.minute = now.minute + 1 /\ now'.phase = 0 BY <1>1, <2>1 DEF Succ
    <3>2. QED BY <1>2, <2>1, <3>1 DEF SweepDue, NotBefore
  <2>2. CASE now.phase # 2
    <3>1. now'.minute = now.minute /\ now'.phase = now.phase + 1
      BY <1>1, <2>2 DEF Succ, Times
    <3>2. QED BY <1>2, <2>2, <3>1 DEF SweepDue, NotBefore
  <2>3. QED BY <2>1, <2>2
<1>4. t \in Threads /\ t \in Fires(now')
  BY <1>3 DEF Fires, Threads, Crons
<1>5. QED BY <1>4 DEF Tick

\* What cleanup does after a call has failed.
LEMMA SweepGoesOn ==
  ASSUME HandInv, NEW m \in Minutes, ThreadStep(<<"cleanup", m>>),
         \A f \in Faults : ~Fails(f),
         pc[<<"cleanup", m>>] \notin {"LLen", "LRange"} => \A j \in temp[m] : Held(j),
         pc'[<<"cleanup", m>>] \notin {"LLen", "LRange"},
         NEW j \in temp'[m]
  PROVE  Held(j)'
<1> DEFINE c == <<"cleanup", m>>
<1> USE DEF HandInv, IInv, TypeOK
<1>1. c \in Threads BY DEF Threads, Crons
<1>2. j \in Jobs /\ InTemp(j)'
  <2>1. TypeOK' BY TypeStep, <1>1 DEF Next
  <2>2. QED BY <2>1 DEF InTemp
<1>3. ~Fails("LLen") /\ ~Fails("LRange") /\ ~Fails("Send") /\ ~Fails("LRem")
        /\ ~Fails("Transfer")
  BY DEF Faults
<1>4. CASE CheckLength(c)
  BY <1>1, <1>3, <1>4 DEF CheckLength, Goto, lists
<1>5. CASE RangeTemp(c)
  <2>1. work'[c] = temp[m] /\ temp' = temp
    BY <1>1, <1>3, <1>5 DEF RangeTemp, lists
  <2>2. QED BY <1>1, <2>1 DEF Held, Holds
<1>6. CASE ~CheckLength(c) /\ ~RangeTemp(c)
  <2>1. \A k \in temp[m] : Held(k)
    BY <1>6 DEF ThreadStep, TransferBucket, GetByID, DropJob, UpdateRunning, SendToQueue,
       UpdateCompleted, RemoveFromTemp
  <2>2. CASE j \in temp[m]
    <3>1. PICK u \in Threads : Holds(u, j) BY <2>1, <2>2 DEF Held
    <3>2. CASE u = c BY <1>1, <1>2, <1>3, <3>1, <3>2, HeldAfter DEF Held
    <3>3. CASE u # c BY <1>1, <3>1, <3>3, ThreadStepOthers DEF Held, Holds
    <3>4. QED BY <3>2, <3>3
  <2>3. CASE j \notin temp[m]
    <3>1. TransferBucket(c)
      BY <1>1, <1>6, <2>3
      DEF ThreadStep, GetByID, DropJob, UpdateRunning, SendToQueue, UpdateCompleted,
          RemoveFromTemp, TempWithoutJob, lists
    <3>2. j \in bucket[m]
      BY <1>1, <2>3, <3>1 DEF TransferBucket, LuaAtomicTransfer, lists
    <3>3. ~InTemp(j) BY <1>2, <3>2 DEF InTemp, ListInv, Placed
    <3>4. Holds(c, j)' BY <1>1, <1>2, <1>3, <3>3, TransferHolds
    <3>5. QED BY <1>1, <3>4 DEF Held
  <2>4. QED BY <2>2, <2>3
<1>7. QED BY <1>4, <1>5, <1>6

LEMMA SweepThreadStep ==
  ASSUME FiringsEndInTime, HandInv, HeldInv, HeldInv', SweepInv,
         NEW t \in Threads, ThreadStep(t),
         Len(faults') <= 1, Struck' \cap {"Crash", "Stop"} = {},
         NEW m \in Minutes, SweepDue(m)'
  PROVE  /\ faults' = <<>> => pc'[<<"cleanup", m>>] \in {"idle", "LLen"}
         /\ pc'[<<"cleanup", m>>] \notin {"LLen", "LRange"} =>
              \A j \in temp'[m] : Held(j)'
<1> DEFINE c == <<"cleanup", m>>
<1> USE DEF HandInv, IInv, TypeOK
<1>1. c \in Threads BY DEF Threads, Crons
<1>2. SweepDue(m) BY ThreadStepFrame DEF SweepDue, NotBefore
<1>3. [Next]_vars BY DEF Next
<1>4. Len(faults) <= 1 /\ Struck \cap {"Crash", "Stop"} = {}
  <2>1. Len(faults) \in Nat /\ Len(faults') \in Nat
    <3>1. faults \in Seq(Faults) BY DEF FaultLogs
    <3>2. TypeOK' BY <1>3, TypeStep
    <3>3. faults' \in Seq(Faults) BY <3>2 DEF FaultLogs
    <3>4. QED BY <3>1, <3>3
  <2>2. QED BY <1>3, <2>1, FaultsCount, StruckGrows
<1>5. /\ faults = <<>> => pc[c] \in {"idle", "LLen"}
      /\ pc[c] \notin {"LLen", "LRange"} => \A j \in temp[m] : Held(j)
  BY <1>2, <1>4 DEF SweepInv
<1>6. CASE t # c
  <2>1. pc'[c] = pc[c] /\ work'[c] = work[c] /\ job'[c] = job[c]
    BY <1>1, <1>6, ThreadStepOthers
  <2>2. temp'[m] = temp[m] BY <1>2, <1>6, OthersLeaveTemp
  <2>3. \A j \in temp[m] : Held(j) => Holds(c, j)
    BY <1>2, NobodyHoldsSwept DEF Held
  <2>4. \A j \in temp[m] : Held(j) => Held(j)'
    BY <1>1, <2>1, <2>3 DEF Held, Holds
  <2>5. QED BY <1>3, <1>5, <2>1, <2>2, <2>4, FaultsCount
<1>7. CASE t = c /\ faults = <<>>
  <2>1. pc[c] = "LLen"
    BY <1>5, <1>7
    DEF ThreadStep, CheckLength, TransferBucket, RangeTemp, GetByID, DropJob,
        UpdateRunning, SendToQueue, UpdateCompleted, RemoveFromTemp
  <2>2. Struck = {} BY <1>3, <1>7, FaultsCount
  <2>3. temp[m] = {} BY <1>2, <2>1, <2>2, NothingToSweep
  <2>4. CheckLength(c)
    BY <1>7, <2>1
    DEF ThreadStep, TransferBucket, RangeTemp, GetByID, DropJob,
        UpdateRunning, SendToQueue, UpdateCompleted, RemoveFromTemp
  <2>5. pc'[c] = "idle" /\ temp' = temp
    BY <1>1, <2>3, <2>4 DEF CheckLength, Goto, lists
  <2>6. QED BY <2>3, <2>5
<1>8. CASE t = c /\ faults # <<>>
  <2>1. \A f \in Faults : ~Fails(f) BY <1>3, <1>8, FaultsCount
  <2>2. faults' # <<>> BY <1>3, <1>8, FaultsCount
  <2>3. QED BY <1>5, <1>8, <2>1, <2>2, SweepGoesOn
<1>9. QED BY <1>6, <1>7, <1>8

LEMMA SweepStep ==
  ASSUME FiringsEndInTime, HandInv, HeldInv, HeldInv', SweepInv, [Next]_vars
  PROVE  SweepInv'
<1> DEFINE Swept(m) ==
      /\ faults = <<>> => pc[<<"cleanup", m>>] \in {"idle", "LLen"}
      /\ pc[<<"cleanup", m>>] \notin {"LLen", "LRange"} => \A j \in temp[m] : Held(j)
<1> SUFFICES ASSUME Len(faults') <= 1, Struck' \cap {"Crash", "Stop"} = {}
             PROVE  node' = "up" /\ \A m \in Minutes : SweepDue(m)' => Swept(m)'
  BY DEF SweepInv
<1> USE DEF HandInv, IInv, TypeOK
<1>1. Len(faults) <= 1 /\ Struck \cap {"Crash", "Stop"} = {}
  <2>1. Len(faults) \in Nat /\ Len(faults') \in Nat
    <3>1. faults \in Seq(Faults) BY DEF FaultLogs
    <3>2. TypeOK' BY TypeStep
    <3>3. faults' \in Seq(Faults) BY <3>2 DEF FaultLogs
    <3>4. QED BY <3>1, <3>3
  <2>2. QED BY <2>1, FaultsCount, StruckGrows
<1>2. node = "up" /\ \A m \in Minutes : SweepDue(m) => Swept(m)
  BY <1>1 DEF SweepInv
<1>3. ~Crash /\ ~Stop BY FaultStrikes, CrashStrikes DEF Stop
<1>4. node' = "up"
  <2>1. ASSUME NEW t \in Threads, ThreadStep(t) PROVE node' = node
    BY <2>1, ThreadStepFrame
  <2>2. QED
    BY <1>2, <1>3, <2>1
    DEF Next, vars, ScheduleJob, CallStep, CreateJob, PushToBucket, Tick, Restart, Exit,
        TimeIsUp
<1>5. SUFFICES ASSUME NEW m \in Minutes, SweepDue(m)' PROVE Swept(m)'
  BY <1>4
<1>6. ASSUME NEW t \in Threads, ThreadStep(t) PROVE Swept(m)'
  BY <1>5, <1>6, SweepThreadStep
<1>7. CASE Tick
  <2>0. <<"cleanup", m>> \in Threads BY DEF Threads, Crons
  <2>1. UNCHANGED <<temp, work, job, faults>> BY <1>7 DEF Tick, lists
  <2>2. CASE SweepDue(m)
    <3>1. Swept(m) BY <1>2, <2>2
    <3>2. \A j \in temp[m] : Held(j)' <=> Held(j) BY <2>1 DEF Held, Holds
    <3>3. pc'[<<"cleanup", m>>] \in {pc[<<"cleanup", m>>], "LLen"}
      BY <1>7, <2>0, TickStarts
    <3>4. QED BY <2>1, <3>1, <3>2, <3>3
  <2>3. CASE ~SweepDue(m) BY <1>2, <1>5, <1>7, <2>3, CleanupFires
  <2>4. QED BY <2>2, <2>3
<1>8. CASE UNCHANGED <<now, temp, pc, work, job>>
  <2>1. Swept(m) BY <1>2, <1>5, <1>8 DEF SweepDue, NotBefore
  <2>2. \A j \in temp[m] : Held(j)' <=> Held(j) BY <1>8 DEF Held, Holds
  <2>3. QED BY <1>8, <2>1, <2>2, FaultsCount
<1>9. QED
  BY <1>3, <1>6, <1>7, <1>8
  DEF Next, vars, ScheduleJob, CallStep, CreateJob, PushToBucket, Restart, Exit,
      TimeIsUp, lists, threads

(***************************************************************************)
(* When the cleanup of a minute is over, what main or late left in TEMP    *)
(* after one failed call, of any kind, has been seen to, while firings end *)
(* before the cleanup of their minute.                                     *)
(***************************************************************************)
THEOREM CleanupSweeps == ASSUME FiringsEndInTime PROVE Spec => []TempSwept
<1>1. Init => HeldInv BY DEF Init, HeldInv, InTemp
<1>2. Init => SweepInv
  <2>1. ASSUME Init, NEW m \in Minutes PROVE ~SweepDue(m)
    BY <2>1, ConstantsAssumption DEF Init, SweepDue, NotBefore, Minutes
  <2>2. QED BY <2>1 DEF Init, SweepInv
<1>3. HandInv /\ HeldInv /\ [Next]_vars => HeldInv' BY HeldStep DEF HandInv
<1>4. HandInv /\ HeldInv /\ HeldInv' /\ SweepInv /\ [Next]_vars => SweepInv'
  BY SweepStep
<1>5. SweepInv => TempSwept
  BY DEF SweepInv, TempSwept, SweepDue, Held, Holds
<1>6. QED BY HandInvariance, <1>1, <1>2, <1>3, <1>4, <1>5, PTL DEF Spec

--------------------------------------------------------------------------------
(***************************************************************************)
(* The scheduler implements the abstract promise: every step is a step of  *)
(* DelayedDelivery, or is not visible there.                               *)
(***************************************************************************)
LEMMA PromiseInit == Init => Promise!Init
<1> SUFFICES ASSUME Init PROVE Promise!Init OBVIOUS
<1>1. \A j \in Jobs : AnswerOf(j) = "none" BY DEF Init, AnswerOf, InProgress
<1>2. QED BY <1>1 DEF Init, Promise!Init

LEMMA PromiseStep ==
  ASSUME IInv, [Next]_vars
  PROVE  [Promise!Next]_Promise!vars
<1> USE DEF Promise!Next, Promise!vars
<1> DEFINE answer == [j \in Jobs |-> AnswerOf(j)]
           due == [j \in Jobs |-> executeAt[j].minute]
<1>1. ASSUME NEW j \in Jobs, ScheduleJob(j) PROVE Promise!Request(j)
  <2>1. /\ call[j] = "new" /\ call' = [call EXCEPT ![j] = "Create"]
        /\ UNCHANGED <<now, sent>>
    BY <1>1 DEF ScheduleJob
  <2>2. PICK m \in Minutes : m > now.minute /\ due' = [due EXCEPT ![j] = m]
    <3>1. PICK t \in Requests : executeAt' = [executeAt EXCEPT ![j] = Adjusted(t)]
      BY <1>1 DEF ScheduleJob
    <3>2. Adjusted(t) \in Times /\ Adjusted(t).minute > now.minute
      BY <1>1, AdjustedIsLater DEF ScheduleJob, IInv
    <3>3. Adjusted(t).minute \in Minutes BY <3>2 DEF Times
    <3>4. due' = [due EXCEPT ![j] = Adjusted(t).minute]
      BY <3>1 DEF IInv, TypeOK
    <3>5. QED BY <3>2, <3>3, <3>4
  <2>3. answer' = [answer EXCEPT ![j] = "pending"] /\ answer[j] = "none"
    <3>1. AnswerOf(j) = "none" /\ AnswerOf(j)' = "pending"
      BY <2>1 DEF AnswerOf, InProgress, IInv, TypeOK
    <3>2. \A k \in Jobs \ {j} : AnswerOf(k)' = AnswerOf(k)
      BY <2>1 DEF AnswerOf, InProgress, IInv, TypeOK
    <3>3. QED BY <3>1, <3>2
  <2>4. QED BY <2>1, <2>2, <2>3 DEF Promise!Request, Promise!Minutes, Minutes
\* Calls: a success is only visible at its end, a failure at once.
<1>2. ASSUME NEW S \in SUBSET Jobs,
             \A k \in S : InProgress(k) /\ call'[k] = "failed",
             \A k \in Jobs \ S : call'[k] = call[k],
             UNCHANGED <<now, executeAt, sent>>
      PROVE  Promise!Fail(S)
  <2>1. \A k \in S : AnswerOf(k) = "pending" BY <1>2 DEF AnswerOf, InProgress
  <2>2. \A k \in S : AnswerOf(k)' = "failed" BY <1>2 DEF AnswerOf, InProgress
  <2>3. \A k \in Jobs \ S : AnswerOf(k)' = AnswerOf(k) BY <1>2 DEF AnswerOf, InProgress
  <2>4. answer' = [k \in Jobs |-> IF k \in S THEN "failed" ELSE answer[k]]
    BY <2>2, <2>3
  <2>5. QED BY <1>2, <2>1, <2>4 DEF Promise!Fail
<1>3. ASSUME NEW j \in Jobs, CreateJob(j) PROVE [Promise!Next]_Promise!vars
  <2>1. CASE call'[j] = "failed"
    <3>1. Promise!Fail({j})
      BY <1>2, <1>3, <2>1 DEF CreateJob, InProgress, IInv, TypeOK
    <3>2. QED BY <3>1
  <2>2. CASE call'[j] # "failed"
    <3>1. call[j] = "Create" /\ call' = [call EXCEPT ![j] = "RPush"]
      BY <1>3, <2>2 DEF CreateJob, IInv, TypeOK
    <3>2. \A k \in Jobs : AnswerOf(k)' = AnswerOf(k)
      BY <3>1 DEF AnswerOf, InProgress, IInv, TypeOK
    <3>3. QED BY <1>3, <3>2 DEF CreateJob
  <2>3. QED BY <2>1, <2>2
<1>4. ASSUME NEW j \in Jobs, PushToBucket(j) PROVE [Promise!Next]_Promise!vars
  <2>1. CASE call'[j] = "failed"
    <3>1. Promise!Fail({j})
      BY <1>2, <1>4, <2>1 DEF PushToBucket, InProgress, threads, IInv, TypeOK
    <3>2. QED BY <3>1
  <2>2. CASE call'[j] # "failed"
    <3>1. call[j] = "RPush" /\ call' = [call EXCEPT ![j] = "accepted"]
      BY <1>4, <2>2 DEF PushToBucket, IInv, TypeOK
    <3>2. AnswerOf(j) = "pending" /\ AnswerOf(j)' = "accepted"
      BY <3>1 DEF AnswerOf, InProgress, IInv, TypeOK
    <3>3. \A k \in Jobs \ {j} : AnswerOf(k)' = AnswerOf(k)
      BY <3>1 DEF AnswerOf, InProgress, IInv, TypeOK
    <3>4. answer' = [answer EXCEPT ![j] = "accepted"] BY <3>2, <3>3
    <3>5. Promise!Accept(j) BY <1>4, <3>2, <3>4 DEF Promise!Accept, PushToBucket
    <3>6. QED BY <3>5
  <2>3. QED BY <2>1, <2>2
<1>5. CASE Crash
  <2>1. Promise!Fail({j \in Jobs : InProgress(j)})
    BY <1>2, <1>5 DEF Crash, InProgress
  <2>2. QED BY <2>1
\* Of the clock only the turn of the minute is visible.
<1>6. CASE Tick
  <2>1. UNCHANGED <<call, executeAt, sent>> BY <1>6 DEF Tick, clients
  <2>2. \A k \in Jobs : AnswerOf(k)' = AnswerOf(k) BY <2>1 DEF AnswerOf, InProgress
  <2>3. now' \in Times /\ now'.minute \in {now.minute, now.minute + 1}
    BY <1>6, SuccInTimes DEF Tick, IInv, TypeOK
  <2>4. CASE now'.minute = now.minute BY <2>1, <2>2, <2>4
  <2>5. CASE now'.minute = now.minute + 1
    <3>1. now.minute < LastMinute
      BY <2>3, <2>5, ConstantsAssumption DEF Times, Minutes, IInv, TypeOK
    <3>2. Promise!MinutePasses BY <2>1, <2>2, <2>5, <3>1 DEF Promise!MinutePasses
    <3>3. QED BY <3>2
  <2>6. QED BY <2>3, <2>4, <2>5
\* Of the threads only what reaches the queue is visible.
<1>7. CASE UNCHANGED <<now, call, executeAt, sent>>
  <2>1. \A k \in Jobs : AnswerOf(k)' = AnswerOf(k) BY <1>7 DEF AnswerOf, InProgress
  <2>2. QED BY <1>7, <2>1
<1>8. ASSUME NEW t \in Threads, SendToQueue(t) PROVE [Promise!Next]_Promise!vars
  <2>1. CASE sent' = sent BY <1>7, <1>8, <2>1 DEF SendToQueue, clients
  <2>2. CASE sent' # sent
    <3>1. job[t] \in Jobs BY <1>8 DEF SendToQueue, IInv, ThreadInv, OnJob
    <3>2. sent' = [sent EXCEPT ![job[t]] = @ + 1]
      BY <1>8, <2>2 DEF SendToQueue
    <3>3. Called(job[t]) /\ executeAt[job[t]].minute = t[2]
      BY <3>1 DEF IInv, ThreadInv, Holds, Placed
    <3>4. t[2] <= now.minute
      BY <1>8, RunningLate DEF SendToQueue, Running
    <3>5. AnswerOf(job[t]) \in {"accepted", "failed"}
      BY <3>3 DEF Called, AnswerOf, InProgress
    <3>6. UNCHANGED <<now, call, executeAt>> BY <1>8 DEF SendToQueue, clients
    <3>7. \A k \in Jobs : AnswerOf(k)' = AnswerOf(k) BY <3>6 DEF AnswerOf, InProgress
    <3>8. Promise!Deliver(job[t])
      BY <3>1, <3>2, <3>3, <3>4, <3>5, <3>6, <3>7 DEF Promise!Deliver
    <3>9. QED BY <3>1, <3>8
  <2>3. QED BY <2>1, <2>2
<1>9. ASSUME NEW t \in Threads, ThreadStep(t) PROVE [Promise!Next]_Promise!vars
  <2>1. CASE SendToQueue(t) BY <1>8, <2>1
  <2>2. CASE ~SendToQueue(t)
    <3>1. UNCHANGED <<now, call, executeAt, sent>>
      BY <1>9, <2>2
      DEF ThreadStep, CheckLength, TransferBucket, RangeTemp, GetByID, DropJob,
          UpdateRunning, UpdateCompleted, RemoveFromTemp, clients
    <3>2. QED BY <1>7, <3>1
  <2>3. QED BY <2>1, <2>2
<1>10. ASSUME NEW j \in Jobs, ScheduleJob(j) PROVE [Promise!Next]_Promise!vars
  BY <1>1, <1>10
<1>11. QED
  BY <1>3, <1>4, <1>5, <1>6, <1>7, <1>9, <1>10
  DEF Next, CallStep, vars, Restart, Stop, Exit, TimeIsUp, clients, lists, threads

\* Whatever fails, crashes or overlaps, every step of the scheduler is a step of the
\* abstract promise or leaves what callers see as it is.
THEOREM PromiseKept == Spec => KeepsPromise
<1>1. IInv /\ [Next]_vars => [Promise!Next]_Promise!vars BY PromiseStep
<1>2. QED BY Invariance, PromiseInit, <1>1, PTL DEF Spec, KeepsPromise, Promise!Spec

================================================================================
