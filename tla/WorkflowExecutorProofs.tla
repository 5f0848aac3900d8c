------------------------ MODULE WorkflowExecutorProofs ------------------------
(***************************************************************************)
(* Theorems about WorkflowExecutor, for any workflow, any signals and      *)
(* workers, any bounds and any faults.                                     *)
(***************************************************************************)
EXTENDS WorkflowExecutor, TLAPS

(***************************************************************************)
(* Types.  A worker knows its message and its run from Receive on, and at  *)
(* the steps that write it has a copy of a row that exists.                *)
(***************************************************************************)
ActionSteps == {"SetStarted", "LogStarted", "Execute", "SetCompleted",
                "SetScheduled", "LogScheduled"}
HasCopy == ActionSteps \cup {"SetCondition", "Evaluate", "StopCompleted", "StopFailed",
                             "SetResumed", "MarkFailed", "MarkCompleted"}

WorkerInv ==
  \A w \in Workers :
    /\ pc[w] = "CreateRun" => msg[w] \in StartMessages
    /\ pc[w] \in {"GetRun", "SetResumed"} => msg[w] \in ResumeMessages
    /\ pc[w] # "idle" /\ msg[w] \in ResumeMessages => run[w] = msg[w].run
    /\ pc[w] \in {"SetCondition", "Evaluate"} => idx[w] \in 1 .. NumConditions
    /\ pc[w] \in HasCopy => mine[w] \in Rows /\ row[run[w]] \in Rows

Typed == TypeOK /\ WorkerInv

\* What a write leaves behind, whether it was applied or not.
Wrote(w, new) ==
  /\ mine' = [mine EXCEPT ![w] = new]
  /\ clock' = [clock EXCEPT ![run[w]] = new.updatedAt]
  /\ row' = row \/ (LockHolds(w) /\ row' = [row EXCEPT ![run[w]] = new])
  /\ faults' \in FaultLogs

LEMMA LengthIsNat == Len(Actions) \in Nat
  BY ConstantsAssumption

LEMMA NoRowIsNoRow == NoRow \notin Rows
  BY DEF NoRow, Rows, Statuses, FinalStatuses

LEMMA StampIsRow ==
  ASSUME NEW w, clock[run[w]] \in Nat, NEW status \in Statuses, NEW state \in States,
         NEW new \in Stamped(w, status, state)
  PROVE  /\ new \in Rows
         /\ \E d \in Gaps : new.updatedAt = clock[run[w]] + d
  BY ConstantsAssumption DEF Stamped, Rows

LEMMA FaultsTyped ==
  ASSUME TypeOK, NEW kind, Ok \/ Fails(kind)
  PROVE  faults' \in FaultLogs
<1>1. faults \in Seq(Faults)
  BY DEF TypeOK, FaultLogs
<1>2. MayFail \subseteq Faults
  BY ConstantsAssumption
<1>3. QED BY <1>1, <1>2 DEF Ok, Fails, FaultLogs

LEMMA StoredWrites ==
  ASSUME TypeOK, NEW w, NEW new, Stored(w, new)
  PROVE  Wrote(w, new)
  BY FaultsTyped DEF Stored, Wrote, Take

LEMMA NotStoredWrites ==
  ASSUME TypeOK, NEW w, NEW new, NEW kind, NotStored(w, new, kind)
  PROVE  Wrote(w, new)
<1>1. faults' \in FaultLogs
  BY FaultsTyped DEF NotStored
<1>2. row' = row \/ (LockHolds(w) /\ row' = [row EXCEPT ![run[w]] = new])
  BY DEF NotStored
<1>3. QED BY <1>1, <1>2 DEF NotStored, Wrote, Take

LEMMA UpdateWrites ==
  ASSUME TypeOK, NEW w \in Workers, run[w] \in Runs,
         NEW status \in Statuses, NEW state \in States, NEW next, NEW onError,
         Update(w, status, state, next, onError)
  PROVE  /\ \E new \in Rows :
              Wrote(w, new) /\ \E d \in Gaps : new.updatedAt = clock[run[w]] + d
         /\ pc' = [pc EXCEPT ![w] = next] \/ pc' = [pc EXCEPT ![w] = onError]
         /\ UNCHANGED <<sqs, performed, delivery, idx>>
<1>1. PICK new \in Stamped(w, status, state) :
         \/ Stored(w, new) /\ Goto(w, next)
         \/ NotStored(w, new, "Update") /\ Goto(w, onError)
  BY DEF Update
<1>2. clock[run[w]] \in Nat
  BY DEF TypeOK
<1>3. new \in Rows /\ \E d \in Gaps : new.updatedAt = clock[run[w]] + d
  BY <1>2, StampIsRow
<1>4. Wrote(w, new)
  BY <1>1, StoredWrites, NotStoredWrites
<1>5. QED BY <1>1, <1>3, <1>4 DEF Goto, Update

LEMMA TryUpdateWrites ==
  ASSUME TypeOK, NEW w \in Workers, run[w] \in Runs,
         NEW status \in Statuses, NEW state \in States, TryUpdate(w, status, state)
  PROVE  \E new \in Rows :
           Wrote(w, new) /\ \E d \in Gaps : new.updatedAt = clock[run[w]] + d
<1>1. PICK new \in Stamped(w, status, state) :
         Stored(w, new) \/ NotStored(w, new, "IgnoredUpdate")
  BY DEF TryUpdate
<1>2. clock[run[w]] \in Nat
  BY DEF TypeOK
<1>3. new \in Rows /\ \E d \in Gaps : new.updatedAt = clock[run[w]] + d
  BY <1>2, StampIsRow
<1>4. Wrote(w, new)
  BY <1>1, StoredWrites, NotStoredWrites
<1>5. QED BY <1>3, <1>4

(***************************************************************************)
(* Every step that writes a row has the same shape.                        *)
(***************************************************************************)
Writes(w) ==
  \/ SetCondition(w) \/ StopRun(w) \/ SetResumed(w) \/ SetStarted(w)
  \/ SetScheduled(w) \/ SetCompleted(w) \/ MarkFailed(w) \/ MarkCompleted(w)

AfterWrite == {"idle", "Evaluate", "Delete", "Failed", "LogStarted", "LogScheduled",
               "SetStarted", "MarkFailed", "MarkCompleted"}

WriteStep(w, new, next, i) ==
  /\ Wrote(w, new)
  /\ \E d \in Gaps : new.updatedAt = clock[run[w]] + d
  /\ pc[w] \in HasCopy
  /\ pc' = [pc EXCEPT ![w] = next]
  /\ idx' = [idx EXCEPT ![w] = i]
  /\ next \in ActionSteps => i \in Indices
  /\ next = "Evaluate" => i \in 1 .. NumConditions
  /\ UNCHANGED <<queue, receives, fired, performed, msg, run>>

LEMMA StatesOfActions ==
  /\ \A i \in Indices : /\ <<"STARTED", i>> \in States
                        /\ <<"SCHEDULED", i>> \in States
                        /\ <<"COMPLETED", i>> \in States
  /\ \A i \in 1 .. NumConditions : <<"CONDITION", i>> \in States
  /\ \A s \in Statuses : <<s, 0>> \in States
  BY DEF States

LEMMA StepAtTyped ==
  ASSUME NEW i \in Nat
  PROVE  /\ StepAt(i) \in {"SetStarted", "MarkCompleted"}
         /\ StepAt(i) = "SetStarted" => i \in Indices
  BY DEF StepAt

LEMMA ResumeIndex ==
  ASSUME NEW m \in ResumeMessages
  PROVE  /\ m.resumeFrom \in Delays
         /\ m.run \in Runs
         /\ m.resumeFrom \in Indices
         /\ m \notin StartMessages
         /\ m \in Messages
<1>1. PICK r \in Runs, i \in Delays, k \in 1 .. MaxCopies : m = Resume(r, i, k)
  BY DEF ResumeMessages
<1>2. m.run = r /\ m.resumeFrom = i
  BY <1>1 DEF Resume
<1>3. NoRun \notin Runs
  BY ConstantsAssumption DEF Runs
<1>4. m \notin StartMessages
  BY <1>2, <1>3 DEF StartMessages, Start
<1>5. QED BY <1>2, <1>4 DEF Delays, Messages

LEMMA IndexIsNat == Indices \subseteq Nat \ {0}
  BY LengthIsNat DEF Indices

LEMMA WritesAreWriteSteps ==
  ASSUME Typed, NEW w \in Workers, Writes(w)
  PROVE  \E new \in Rows, next \in AfterWrite, i \in Nat : WriteStep(w, new, next, i)
<1>0. pc[w] \in HasCopy /\ pc[w] # "idle"
  BY DEF Writes, SetCondition, StopRun, SetResumed, SetStarted, SetScheduled,
         SetCompleted, MarkFailed, MarkCompleted, HasCopy, ActionSteps
<1>1. run[w] \in Runs /\ mine[w].status \in Statuses /\ idx[w] \in Nat
  BY <1>0 DEF Typed, TypeOK, WorkerInv, Rows
<1>2. CASE SetCondition(w)
  <2>1. idx[w] \in 1 .. NumConditions
    BY <1>2 DEF SetCondition, Typed, WorkerInv
  <2>2. PICK new \in Rows :
           Wrote(w, new) /\ \E d \in Gaps : new.updatedAt = clock[run[w]] + d
    BY <1>1, <1>2, <2>1, StatesOfActions, TryUpdateWrites DEF SetCondition, Typed
  <2>3. WriteStep(w, new, "Evaluate", idx[w])
    BY <1>0, <1>2, <2>1, <2>2
    DEF SetCondition, Goto, WriteStep, ActionSteps, sqs, delivery, Typed, TypeOK
  <2>4. QED BY <1>1, <2>3 DEF AfterWrite
<1>3. CASE StopRun(w)
  <2>1. PICK new \in Rows :
           Wrote(w, new) /\ \E d \in Gaps : new.updatedAt = clock[run[w]] + d
    BY <1>1, <1>3, StatesOfActions, TryUpdateWrites
    DEF StopRun, Typed, Statuses, FinalStatuses
  <2>2. WriteStep(w, new, "Delete", idx[w])
    BY <1>0, <1>3, <2>1 DEF StopRun, Goto, WriteStep, ActionSteps, sqs, delivery, Typed, TypeOK
  <2>3. QED BY <1>1, <2>2 DEF AfterWrite
<1>4. CASE SetResumed(w)
  <2>0. msg[w] \in ResumeMessages
    BY <1>4 DEF SetResumed, Typed, WorkerInv
  <2>1. msg[w].resumeFrom \in Indices /\ ResumeAt(w) \in Nat
    <3>1. msg[w].resumeFrom \in Indices BY <2>0, ResumeIndex
    <3>2. msg[w].resumeFrom \in Nat BY <3>1, IndexIsNat
    <3>3. QED BY <3>1, <3>2 DEF ResumeAt
  <2>2. PICK new \in Stamped(w, mine[w].status, <<"COMPLETED", msg[w].resumeFrom>>) :
           \/ Stored(w, new) /\ Goto(w, StepAt(ResumeAt(w)))
           \/ NotStored(w, new, "Update") /\ Goto(w, "Failed")
    BY <1>4 DEF SetResumed
  <2>3. new \in Rows /\ \E d \in Gaps : new.updatedAt = clock[run[w]] + d
    BY <1>1, <2>1, StatesOfActions, StampIsRow DEF Typed, TypeOK
  <2>4. Wrote(w, new)
    BY <2>2, StoredWrites, NotStoredWrites DEF Typed
  <2>5. \/ WriteStep(w, new, StepAt(ResumeAt(w)), ResumeAt(w))
        \/ WriteStep(w, new, "Failed", ResumeAt(w))
    BY <1>0, <1>4, <2>1, <2>2, <2>3, <2>4, StepAtTyped
    DEF SetResumed, Goto, WriteStep, ActionSteps, sqs, delivery
  <2>6. QED BY <2>1, <2>3, <2>5, StepAtTyped DEF AfterWrite
<1>5. CASE SetStarted(w)
  <2>1. idx[w] \in Indices
    BY <1>5 DEF SetStarted, Typed, TypeOK
  <2>2. /\ \E new \in Rows :
              Wrote(w, new) /\ \E d \in Gaps : new.updatedAt = clock[run[w]] + d
        /\ pc' = [pc EXCEPT ![w] = "LogStarted"] \/ pc' = [pc EXCEPT ![w] = "MarkFailed"]
        /\ UNCHANGED <<sqs, performed, delivery, idx>>
    BY <1>1, <1>5, <2>1, StatesOfActions, UpdateWrites DEF SetStarted, Typed
  <2>3. PICK new \in Rows :
           Wrote(w, new) /\ \E d \in Gaps : new.updatedAt = clock[run[w]] + d
    BY <2>2
  <2>4. \/ WriteStep(w, new, "LogStarted", idx[w])
        \/ WriteStep(w, new, "MarkFailed", idx[w])
    BY <1>0, <1>1, <2>1, <2>2, <2>3
    DEF WriteStep, ActionSteps, sqs, delivery, Typed, TypeOK
  <2>5. QED BY <1>1, <2>4 DEF AfterWrite
<1>6. CASE SetScheduled(w)
  <2>1. idx[w] \in Indices
    BY <1>6 DEF SetScheduled, Typed, TypeOK
  <2>2. /\ \E new \in Rows :
              Wrote(w, new) /\ \E d \in Gaps : new.updatedAt = clock[run[w]] + d
        /\ pc' = [pc EXCEPT ![w] = "LogScheduled"] \/ pc' = [pc EXCEPT ![w] = "MarkFailed"]
        /\ UNCHANGED <<sqs, performed, delivery, idx>>
    BY <1>1, <1>6, <2>1, StatesOfActions, UpdateWrites DEF SetScheduled, Typed
  <2>3. PICK new \in Rows :
           Wrote(w, new) /\ \E d \in Gaps : new.updatedAt = clock[run[w]] + d
    BY <2>2
  <2>4. \/ WriteStep(w, new, "LogScheduled", idx[w])
        \/ WriteStep(w, new, "MarkFailed", idx[w])
    BY <1>0, <1>1, <2>1, <2>2, <2>3
    DEF WriteStep, ActionSteps, sqs, delivery, Typed, TypeOK
  <2>5. QED BY <1>1, <2>4 DEF AfterWrite
<1>7. CASE SetCompleted(w)
  <2>1. idx[w] \in Indices /\ idx[w] + 1 \in Nat
    BY <1>7, IndexIsNat DEF SetCompleted, Typed, TypeOK
  <2>2. PICK new \in Rows :
           Wrote(w, new) /\ \E d \in Gaps : new.updatedAt = clock[run[w]] + d
    BY <1>1, <1>7, <2>1, StatesOfActions, TryUpdateWrites DEF SetCompleted, Typed
  <2>3. WriteStep(w, new, StepAt(idx[w] + 1), idx[w] + 1)
    BY <1>0, <1>7, <2>1, <2>2, StepAtTyped
    DEF SetCompleted, Goto, WriteStep, ActionSteps, sqs, delivery
  <2>4. QED BY <2>1, <2>3, StepAtTyped DEF AfterWrite
<1>8. CASE MarkFailed(w)
  <2>1. PICK new \in Rows :
           Wrote(w, new) /\ \E d \in Gaps : new.updatedAt = clock[run[w]] + d
    BY <1>1, <1>8, StatesOfActions, TryUpdateWrites
    DEF MarkFailed, Typed, Statuses, FinalStatuses
  <2>2. WriteStep(w, new, "Failed", idx[w])
    BY <1>0, <1>8, <2>1 DEF MarkFailed, Goto, WriteStep, ActionSteps, sqs, delivery, Typed, TypeOK
  <2>3. QED BY <1>1, <2>2 DEF AfterWrite
<1>9. CASE MarkCompleted(w)
  <2>1. "COMPLETED" \in Statuses
    BY DEF Statuses, FinalStatuses
  <2>2. /\ \E new \in Rows :
              Wrote(w, new) /\ \E d \in Gaps : new.updatedAt = clock[run[w]] + d
        /\ pc' = [pc EXCEPT ![w] = "Delete"] \/ pc' = [pc EXCEPT ![w] = "Failed"]
        /\ UNCHANGED <<sqs, performed, delivery, idx>>
    BY <1>1, <1>9, <2>1, StatesOfActions, UpdateWrites DEF MarkCompleted, Typed
  <2>3. QED BY <1>0, <1>1, <2>2
    DEF WriteStep, ActionSteps, AfterWrite, sqs, delivery, Typed, TypeOK
<1>10. QED BY <1>2, <1>3, <1>4, <1>5, <1>6, <1>7, <1>8, <1>9 DEF Writes

LEMMA TypedWrite ==
  ASSUME Typed, NEW w \in Workers, Writes(w)
  PROVE  Typed'
<1>1. PICK new \in Rows, next \in AfterWrite, i \in Nat : WriteStep(w, new, next, i)
  BY WritesAreWriteSteps
<1>2. run[w] \in Runs /\ new.updatedAt \in Nat
  BY <1>1 DEF WriteStep, HasCopy, ActionSteps, Typed, TypeOK, Rows
<1>3. row' \in [Runs -> Rows \cup {NoRow}]
  BY <1>1, <1>2 DEF WriteStep, Wrote, Typed, TypeOK
<1>4. \A r \in Runs : row[r] \in Rows => row'[r] \in Rows
  BY <1>1, <1>2 DEF WriteStep, Wrote, Typed, TypeOK
<1>5. TypeOK'
  <2>1. /\ pc' \in [Workers -> Steps]
        /\ mine' \in [Workers -> Rows \cup {NoRow}]
        /\ clock' \in [Runs -> Nat]
        /\ idx' \in [Workers -> Nat]
        /\ faults' \in FaultLogs
    BY <1>1, <1>2 DEF WriteStep, Wrote, Typed, TypeOK, AfterWrite, Steps
  <2>2. ASSUME NEW v \in Workers
        PROVE  /\ pc'[v] # "idle" => msg'[v] \in Messages /\ run'[v] \in Runs
               /\ pc'[v] \in ActionSteps => idx'[v] \in Indices
    BY <1>1, <2>2 DEF WriteStep, Typed, TypeOK, HasCopy, ActionSteps, AfterWrite
  <2>3. QED BY <1>1, <1>3, <2>1, <2>2 DEF WriteStep, Typed, TypeOK, ActionSteps
<1>6. WorkerInv'
  <2> SUFFICES ASSUME NEW v \in Workers
               PROVE  /\ pc'[v] = "CreateRun" => msg'[v] \in StartMessages
                      /\ pc'[v] \in {"GetRun", "SetResumed"} => msg'[v] \in ResumeMessages
                      /\ pc'[v] # "idle" /\ msg'[v] \in ResumeMessages => run'[v] = msg'[v].run
                      /\ pc'[v] \in {"SetCondition", "Evaluate"} => idx'[v] \in 1 .. NumConditions
                      /\ pc'[v] \in HasCopy => mine'[v] \in Rows /\ row'[run'[v]] \in Rows
    BY DEF WorkerInv
  <2>1. CASE v = w
    <3>1. pc[w] # "idle" /\ row[run[w]] \in Rows
      BY <1>1 DEF WriteStep, Typed, WorkerInv, HasCopy, ActionSteps
    <3>2. pc'[w] = next /\ idx'[w] = i /\ mine'[w] = new
      BY <1>1 DEF WriteStep, Wrote, Typed, TypeOK
    <3>3. QED BY <1>1, <1>2, <1>4, <2>1, <3>1, <3>2
      DEF WriteStep, AfterWrite, Typed, WorkerInv
  <2>2. CASE v # w
    <3>1. /\ pc'[v] = pc[v] /\ idx'[v] = idx[v] /\ mine'[v] = mine[v]
          /\ msg'[v] = msg[v] /\ run'[v] = run[v]
      BY <1>1, <2>2 DEF WriteStep, Wrote, Typed, TypeOK
    <3>2. pc[v] \in HasCopy => run[v] \in Runs
      BY DEF Typed, TypeOK, HasCopy, ActionSteps
    <3>3. QED BY <1>4, <3>1, <3>2 DEF Typed, WorkerInv
  <2>3. QED BY <2>1, <2>2
<1>7. QED BY <1>5, <1>6 DEF Typed

\* The steps of a worker that neither write nor touch the queue, but Execute.
Turns(w) ==
  \/ Fetch(w) \/ Evaluate(w) \/ GetRun(w) \/ LogStarted(w) \/ LogScheduled(w)
  \/ Failed(w) \/ Crash(w)

LEMMA TypedTurn ==
  ASSUME Typed, NEW w \in Workers, Turns(w)
  PROVE  Typed'
<1> USE DEF Typed, TypeOK, WorkerInv
<1>0. pc[w] \in Steps /\ faults' \in FaultLogs
  BY FaultsTyped DEF Turns, Fetch, Evaluate, GetRun, LogStarted, LogScheduled, Failed, Crash, Ok
<1>1. CASE Fetch(w)
  <2>1. \/ pc' = [pc EXCEPT ![w] = "Failed"]
        \/ pc' = [pc EXCEPT ![w] = "CreateRun"] /\ msg[w] \in StartMessages
        \/ pc' = [pc EXCEPT ![w] = "GetRun"] /\ msg[w] \notin StartMessages
    BY <1>1 DEF Fetch, Goto
  <2>2. pc[w] # "idle" /\ msg[w] \in StartMessages \cup ResumeMessages
    BY <1>1 DEF Fetch, Messages
  <2>3. TypeOK'
    BY <1>0, <1>1, <2>1, <2>2 DEF Fetch, sqs, table, delivery, Steps
  <2>4. QED BY <1>1, <2>1, <2>2, <2>3 DEF Fetch, sqs, table, delivery, HasCopy, ActionSteps
<1>2. CASE Evaluate(w)
  <2>1. \/ /\ pc' = [pc EXCEPT ![w] = "SetCondition"]
           /\ idx' = [idx EXCEPT ![w] = idx[w] + 1]
           /\ idx[w] + 1 \in 1 .. NumConditions
        \/ pc' = [pc EXCEPT ![w] = "SetStarted"] /\ idx' = [idx EXCEPT ![w] = 1] /\ 1 \in Indices
        \/ pc' = [pc EXCEPT ![w] = "MarkCompleted"] /\ idx' = [idx EXCEPT ![w] = 1]
        \/ pc' = [pc EXCEPT ![w] = "StopCompleted"] /\ idx' = idx
        \/ pc' = [pc EXCEPT ![w] = "StopFailed"] /\ idx' = idx
    <3>1. idx[w] \in 1 .. NumConditions
      BY <1>2 DEF Evaluate
    <3>2. idx[w] < NumConditions => idx[w] + 1 \in 1 .. NumConditions
      BY <3>1, ConstantsAssumption
    <3>3. \/ StepAt(1) = "SetStarted" /\ 1 \in Indices
          \/ StepAt(1) = "MarkCompleted"
      BY DEF StepAt
    <3>4. QED BY <1>2, <3>2, <3>3 DEF Evaluate, Goto
  <2>2. pc[w] = "Evaluate" /\ mine[w] \in Rows /\ row[run[w]] \in Rows
    BY <1>2 DEF Evaluate, HasCopy
  <2>3. UNCHANGED <<queue, receives, fired, row, clock, performed, msg, run, mine>>
    BY <1>2 DEF Evaluate, sqs, table, delivery
  <2>4. pc' \in [Workers -> Steps] /\ idx' \in [Workers -> Nat]
    <3>1. 1 \in Nat /\ 1 .. NumConditions \subseteq Nat
      BY ConstantsAssumption
    <3>2. \E i \in Nat : idx' = [idx EXCEPT ![w] = i] \/ idx' = idx
      BY <2>1, <3>1
    <3>3. QED BY <2>1, <3>2 DEF Steps
  <2>5. ASSUME NEW v \in Workers
        PROVE  /\ pc'[v] # "idle" => msg'[v] \in Messages /\ run'[v] \in Runs
               /\ pc'[v] \in ActionSteps => idx'[v] \in Indices
    BY <2>1, <2>2, <2>3 DEF ActionSteps
  <2>6. TypeOK'
    BY <1>0, <2>3, <2>4, <2>5 DEF ActionSteps
  <2>7. QED BY <2>1, <2>2, <2>3, <2>6 DEF HasCopy, ActionSteps
<1>3. CASE GetRun(w)
  <2>1. \/ pc' = [pc EXCEPT ![w] = "Failed"] /\ mine' = mine
        \/ /\ pc' = [pc EXCEPT ![w] = "SetResumed"]
           /\ mine' = [mine EXCEPT ![w] = row[run[w]]]
           /\ row[run[w]] \in Rows
    BY <1>3 DEF GetRun, Goto
  <2>2. TypeOK'
    BY <1>0, <1>3, <2>1 DEF GetRun, sqs, table, delivery, Steps
  <2>3. QED BY <1>3, <2>1, <2>2 DEF GetRun, sqs, table, delivery, HasCopy, ActionSteps
<1>4. CASE LogStarted(w) \/ LogScheduled(w)
  <2>1. \/ pc' = [pc EXCEPT ![w] = "Execute"] /\ pc[w] = "LogStarted"
        \/ pc' = [pc EXCEPT ![w] = "MarkFailed"]
        \/ pc' = [pc EXCEPT ![w] = "Delete"]
    BY <1>4 DEF LogStarted, LogScheduled, Goto
  <2>2. pc[w] \in {"LogStarted", "LogScheduled"} /\ mine[w] \in Rows /\ row[run[w]] \in Rows
    BY <1>4 DEF LogStarted, LogScheduled, HasCopy, ActionSteps
  <2>3. TypeOK'
    BY <1>0, <1>4, <2>1, <2>2 DEF LogStarted, LogScheduled, sqs, table, delivery, Steps
  <2>4. QED BY <1>4, <2>1, <2>2, <2>3
    DEF LogStarted, LogScheduled, sqs, table, delivery, HasCopy, ActionSteps
<1>5. CASE Failed(w) \/ Crash(w)
  <2>1. Release(w) /\ UNCHANGED <<sqs, table, performed>>
    BY <1>5 DEF Failed, Crash
  <2>2. TypeOK'
    BY <1>0, <2>1 DEF Release, Goto, sqs, table, Steps
  <2>3. QED BY <2>1, <2>2 DEF Release, Goto, sqs, table, HasCopy, ActionSteps
<1>6. QED BY <1>1, <1>2, <1>3, <1>4, <1>5 DEF Turns

LEMMA TypedCreate ==
  ASSUME Typed, NEW w \in Workers, CreateRun(w)
  PROVE  Typed'
<1> USE DEF Typed, TypeOK, WorkerInv
<1> DEFINE new == [status |-> "TRIGGERED", state |-> <<"TRIGGERED", 0>>, updatedAt |-> 1]
<1>0. faults' \in FaultLogs
  BY FaultsTyped DEF CreateRun
<1>1. pc[w] = "CreateRun" /\ msg[w] \in StartMessages /\ run[w] \in Runs
  BY DEF CreateRun
<1>2. new \in Rows
  BY DEF Rows, Statuses, States
<1>3. \/ /\ row' = [row EXCEPT ![run[w]] = new]
         /\ \/ pc' = [pc EXCEPT ![w] = "SetCondition"] /\ 1 \in 1 .. NumConditions
            \/ pc' = [pc EXCEPT ![w] = "SetStarted"] /\ 1 \in Indices
            \/ pc' = [pc EXCEPT ![w] = "MarkCompleted"]
      \/ /\ row' \in {row, [row EXCEPT ![run[w]] = new]}
         /\ pc' = [pc EXCEPT ![w] = "Failed"]
  <2>1. NumConditions > 0 => 1 \in 1 .. NumConditions
    BY ConstantsAssumption
  <2>2. StepAt(1) \in {"SetStarted", "MarkCompleted"} /\ (StepAt(1) = "SetStarted" => 1 \in Indices)
    BY StepAtTyped
  <2>3. QED BY <2>1, <2>2 DEF CreateRun, StartWith, Goto
<1>4. /\ mine' = [mine EXCEPT ![w] = new]
      /\ clock' = [clock EXCEPT ![run[w]] = 1]
      /\ idx' = [idx EXCEPT ![w] = 1]
      /\ UNCHANGED <<queue, receives, fired, performed, msg, run>>
  BY DEF CreateRun, Take, sqs, delivery
<1> HIDE DEF new
<1>5. /\ row' \in [Runs -> Rows \cup {NoRow}]
      /\ \A r \in Runs : row[r] \in Rows => row'[r] \in Rows
      /\ pc'[w] \in HasCopy => row'[run[w]] \in Rows
  <2>1. row' = row \/ row' = [row EXCEPT ![run[w]] = new]
    BY <1>3
  <2>2. pc'[w] \in HasCopy => row' = [row EXCEPT ![run[w]] = new]
    BY <1>3 DEF HasCopy, ActionSteps
  <2>3. QED BY <1>1, <1>2, <2>1, <2>2
<1>6. /\ pc' \in [Workers -> Steps]
      /\ mine' \in [Workers -> Rows \cup {NoRow}]
      /\ clock' \in [Runs -> Nat]
      /\ idx' \in [Workers -> Nat]
  <2>1. 1 \in Nat
    OBVIOUS
  <2>2. QED BY <1>1, <1>2, <1>3, <1>4, <2>1 DEF Steps
<1>7. ASSUME NEW v \in Workers
      PROVE  /\ pc'[v] # "idle" => msg'[v] \in Messages /\ run'[v] \in Runs
             /\ pc'[v] \in ActionSteps => idx'[v] \in Indices
  BY <1>1, <1>3, <1>4 DEF ActionSteps
<1>8. TypeOK'
  BY <1>0, <1>4, <1>5, <1>6, <1>7 DEF ActionSteps
<1>9. ASSUME NEW v \in Workers, v # w
      PROVE  /\ pc'[v] = pc[v] /\ idx'[v] = idx[v] /\ mine'[v] = mine[v]
             /\ msg'[v] = msg[v] /\ run'[v] = run[v]
             /\ pc[v] \in HasCopy => run[v] \in Runs
  BY <1>3, <1>4, <1>9 DEF HasCopy, ActionSteps
<1>10. msg[w] \notin ResumeMessages
  BY <1>1, ResumeIndex
<1>11. ASSUME NEW v \in Workers
       PROVE  /\ pc'[v] = "CreateRun" => msg'[v] \in StartMessages
              /\ pc'[v] \in {"GetRun", "SetResumed"} => msg'[v] \in ResumeMessages
              /\ pc'[v] # "idle" /\ msg'[v] \in ResumeMessages => run'[v] = msg'[v].run
              /\ pc'[v] \in {"SetCondition", "Evaluate"} => idx'[v] \in 1 .. NumConditions
              /\ pc'[v] \in HasCopy => mine'[v] \in Rows /\ row'[run'[v]] \in Rows
  <2>1. CASE v = w
    BY <1>1, <1>2, <1>3, <1>4, <1>5, <1>10, <2>1
  <2>2. CASE v # w
    BY <1>5, <1>9, <2>2
  <2>3. QED BY <2>1, <2>2
<1>12. QED BY <1>8, <1>11

\* What Execute does: the action takes effect or not, and the run goes on.
LEMMA ExecuteEffect ==
  ASSUME Typed, NEW w \in Workers, Execute(w)
  PROVE  /\ pc[w] = "Execute" /\ run[w] \in Runs /\ idx[w] \in Indices
         /\ faults' \in FaultLogs
         /\ UNCHANGED <<sqs, table, delivery, mine, idx>>
         /\ \/ /\ performed' = [performed EXCEPT ![run[w]][idx[w]] = @ + 1]
               /\ \/ pc' = [pc EXCEPT ![w] = "SetCompleted"] /\ idx[w] \notin Delays
                  \/ pc' = [pc EXCEPT ![w] = "SetScheduled"]
                  \/ pc' = [pc EXCEPT ![w] = "MarkFailed"]
            \/ performed' = performed /\ pc' = [pc EXCEPT ![w] = "MarkFailed"]
<1>1. pc[w] = "Execute" /\ run[w] \in Runs /\ idx[w] \in Indices
  BY DEF Execute, Typed, TypeOK
<1>2. faults' \in FaultLogs
  BY FaultsTyped DEF Execute, ExecuteRegular, ExecuteDelay, Typed
<1>3. Actions[idx[w]] = "regular" => idx[w] \notin Delays
  BY DEF Delays
<1>4. CASE ExecuteRegular(w)
  BY <1>1, <1>2, <1>3, <1>4 DEF Execute, ExecuteRegular, Perform, Goto
<1>5. CASE ExecuteDelay(w)
  BY <1>1, <1>2, <1>5 DEF Execute, ExecuteDelay, Perform, Goto
<1>6. QED BY <1>4, <1>5 DEF Execute

LEMMA TypedExecute ==
  ASSUME Typed, NEW w \in Workers, Execute(w)
  PROVE  Typed'
<1> USE DEF Typed, TypeOK, WorkerInv
<1>1. /\ pc[w] = "Execute" /\ run[w] \in Runs /\ idx[w] \in Indices
      /\ faults' \in FaultLogs
      /\ UNCHANGED <<queue, receives, fired, row, clock, msg, run, mine, idx>>
  BY ExecuteEffect DEF sqs, table, delivery
<1>2. /\ \/ pc' = [pc EXCEPT ![w] = "SetCompleted"]
         \/ pc' = [pc EXCEPT ![w] = "SetScheduled"]
         \/ pc' = [pc EXCEPT ![w] = "MarkFailed"]
      /\ performed' = performed \/ performed' = [performed EXCEPT ![run[w]][idx[w]] = @ + 1]
  BY ExecuteEffect
<1>3. performed' \in [Runs -> [Indices -> Nat]]
  <2>1. performed \in [Runs -> [Indices -> Nat]]
    OBVIOUS
  <2>2. performed[run[w]] \in [Indices -> Nat]
    BY <1>1, <2>1
  <2>3. [performed[run[w]] EXCEPT ![idx[w]] = @ + 1] \in [Indices -> Nat]
    BY <1>1, <2>2
  <2>4. QED BY <1>1, <1>2, <2>1, <2>3
<1>4. TypeOK'
  BY <1>1, <1>2, <1>3 DEF Steps
<1>5. QED BY <1>1, <1>2, <1>4 DEF HasCopy, ActionSteps

(***************************************************************************)
(* The queue.                                                              *)
(***************************************************************************)
LEMMA RunOfTyped ==
  ASSUME Typed, NEW m \in Messages, receives[m] < MaxReceives
  PROVE  /\ RunOf(m) \in Runs
         /\ m \in ResumeMessages => RunOf(m) = m.run
<1>1. CASE m \in StartMessages
  <2>1. m.signal \in Signals
    BY <1>1 DEF StartMessages, Start
  <2>2. receives[m] + 1 \in 1 .. MaxReceives
    BY ConstantsAssumption DEF Typed, TypeOK
  <2>3. QED BY <1>1, <2>1, <2>2, ResumeIndex DEF RunOf, Runs
<1>2. CASE m \notin StartMessages
  BY <1>2, ResumeIndex DEF RunOf, Messages
<1>3. QED BY <1>1, <1>2

LEMMA TypedReceive ==
  ASSUME Typed, NEW w \in Workers, NEW m \in Messages, Receive(w, m)
  PROVE  Typed'
<1> USE DEF Typed, TypeOK, WorkerInv
<1>0. faults' \in FaultLogs
  BY FaultsTyped DEF Receive
<1>1. pc[w] = "idle" /\ receives[m] < MaxReceives
  BY DEF Receive
<1>2. RunOf(m) \in Runs /\ (m \in ResumeMessages => RunOf(m) = m.run)
  BY <1>1, RunOfTyped
<1>3. queue' \in [Messages -> QueueStates] /\ receives' \in [Messages -> 0 .. MaxReceives]
  <2>1. receives[m] + 1 \in 0 .. MaxReceives
    BY <1>1, ConstantsAssumption
  <2>2. QED BY <2>1 DEF Receive, QueueStates
<1>4. UNCHANGED <<fired, row, clock, performed, mine, idx>>
  BY DEF Receive, table
<1>5. CASE UNCHANGED <<pc, delivery>>
  BY <1>0, <1>3, <1>4, <1>5 DEF delivery
<1>6. CASE /\ pc' = [pc EXCEPT ![w] = "Fetch"]
           /\ msg' = [msg EXCEPT ![w] = m]
           /\ run' = [run EXCEPT ![w] = RunOf(m)]
  <2>1. TypeOK'
    BY <1>0, <1>2, <1>3, <1>4, <1>6 DEF Steps
  <2>2. QED BY <1>2, <1>4, <1>6, <2>1 DEF HasCopy, ActionSteps
<1>7. QED BY <1>5, <1>6 DEF Receive, Goto

LEMMA TypedQueueStep ==
  ASSUME Typed, NEW m \in Messages, BecomeVisible(m) \/ MoveToDeadLetters(m)
  PROVE  Typed'
<1> USE DEF Typed, TypeOK, WorkerInv
<1>1. faults' \in FaultLogs
  BY FaultsTyped DEF BecomeVisible, MoveToDeadLetters, Ok
<1>2. UNCHANGED <<receives, fired, table, performed, pc, delivery, mine, idx>>
  BY DEF BecomeVisible, MoveToDeadLetters
<1>3. queue' \in [Messages -> QueueStates]
  BY DEF BecomeVisible, MoveToDeadLetters, QueueStates
<1>4. QED BY <1>1, <1>2, <1>3 DEF table, delivery

LEMMA DelayIsIndex == Delays \subseteq Indices
  BY DEF Delays

LEMMA ResumeIsMessage ==
  ASSUME NEW r \in Runs, NEW i \in Delays, NEW k \in 1 .. MaxCopies
  PROVE  Resume(r, i, k) \in ResumeMessages /\ Resume(r, i, k) \in Messages
  BY DEF ResumeMessages, Messages

LEMMA TypedFire ==
  ASSUME Typed, NEW r \in Runs, NEW i \in Delays, FireJob(r, i)
  PROVE  Typed'
<1> USE DEF Typed, TypeOK, WorkerInv
<1>1. faults' \in FaultLogs
  BY FaultsTyped DEF FireJob
<1>2. UNCHANGED <<receives, table, performed, pc, delivery, mine, idx>>
  BY DEF FireJob
<1>3. i \in Indices /\ fired[r][i] + 1 \in 1 .. MaxCopies
  <2>1. i \in Indices
    BY DelayIsIndex
  <2>2. fired[r][i] \in 0 .. MaxCopies /\ fired[r][i] < MaxCopies
    BY <2>1 DEF FireJob
  <2>3. QED BY <2>1, <2>2, ConstantsAssumption
<1>4. fired' \in [Runs -> [Indices -> 0 .. MaxCopies]]
  <2>1. fired[r][i] + 1 \in 0 .. MaxCopies
    BY <1>3, ConstantsAssumption
  <2>2. QED BY <1>3, <2>1 DEF FireJob
<1>5. queue' \in [Messages -> QueueStates]
  BY DEF FireJob, QueueStates
<1>6. QED BY <1>1, <1>2, <1>4, <1>5 DEF table, delivery

LEMMA TypedDelete ==
  ASSUME Typed, NEW w \in Workers, Delete(w)
  PROVE  Typed'
<1> USE DEF Typed, TypeOK, WorkerInv
<1>1. faults' \in FaultLogs
  BY FaultsTyped DEF Delete
<1>2. UNCHANGED <<receives, fired, row, clock, performed>>
  BY DEF Delete, table
<1>3. queue' \in [Messages -> QueueStates]
  BY DEF Delete, QueueStates
<1>4. /\ pc' = [pc EXCEPT ![w] = "idle"]
      /\ msg' = [msg EXCEPT ![w] = NoMessage]
      /\ run' = [run EXCEPT ![w] = NoRun]
      /\ mine' = [mine EXCEPT ![w] = NoRow]
      /\ idx' = [idx EXCEPT ![w] = 0]
  BY DEF Delete, Release, Goto
<1>5. TypeOK'
  BY <1>1, <1>2, <1>3, <1>4 DEF Steps
<1>6. QED BY <1>2, <1>4, <1>5 DEF HasCopy, ActionSteps

LEMMA TypedInit ==
  ASSUME Init
  PROVE  Typed
<1>1. 0 \in 0 .. MaxReceives /\ 0 \in 0 .. MaxCopies /\ <<>> \in FaultLogs
  BY ConstantsAssumption DEF FaultLogs
<1>2. TypeOK
  BY <1>1 DEF Init, TypeOK, QueueStates, Steps
<1>3. QED BY <1>2 DEF Init, Typed, WorkerInv, HasCopy, ActionSteps

\* The steps of Next, by the lemmas that treat them.
LEMMA NextCases ==
  ASSUME Next
  PROVE  \/ \E w \in Workers : Writes(w)
         \/ \E w \in Workers : Turns(w)
         \/ \E w \in Workers : CreateRun(w)
         \/ \E w \in Workers : Execute(w)
         \/ \E w \in Workers : Delete(w)
         \/ \E w \in Workers, m \in Messages : Receive(w, m)
         \/ \E m \in Messages : BecomeVisible(m) \/ MoveToDeadLetters(m)
         \/ \E r \in Runs, i \in Delays : FireJob(r, i)
  BY DEF Next, Step, Writes, Turns

LEMMA TypedStep ==
  ASSUME Typed, [Next]_vars
  PROVE  Typed'
<1>1. CASE Next
  BY <1>1, NextCases, TypedWrite, TypedTurn, TypedCreate, TypedExecute, TypedDelete,
     TypedReceive, TypedQueueStep, TypedFire
<1>2. CASE UNCHANGED vars
  BY <1>2 DEF vars, Typed, TypeOK, WorkerInv, LockHolds
<1>3. QED BY <1>1, <1>2

LEMMA AlwaysTyped == Spec => []Typed
<1>1. QED BY TypedInit, TypedStep, PTL DEF Spec

\* Type correctness: whatever workers, queue, scheduler and faults do, every
\* variable has its type, and a worker that writes has a run and its row.
THEOREM TypeCorrect == Spec => []TypeOK
<1>1. Typed => TypeOK
  BY DEF Typed
<1>2. QED BY <1>1, AlwaysTyped, PTL

(***************************************************************************)
(* Order.  ActionsInOrder and WaitsForDelay alone are not inductive: they  *)
(* do not say what a worker may do next, nor what a message in the queue   *)
(* stands for.  OrderInv adds that a worker at an action has everything in *)
(* front of it behind it, that a resume message exists only after a job    *)
(* that fired, and that a job fires only for a delay that took effect.     *)
(***************************************************************************)
Reached(r, i) ==
  \A j \in Indices :
    j < i => performed[r][j] > 0 /\ (j \in Delays => fired[r][j] > 0)

OrderInv ==
  /\ \A r \in Runs, i \in Indices :
       /\ performed[r][i] > 0 => Reached(r, i)
       /\ fired[r][i] > 0 => performed[r][i] > 0
  /\ \A m \in ResumeMessages :
       queue[m] # "absent" => fired[m.run][m.resumeFrom] > 0
  /\ \A w \in Workers :
       /\ pc[w] # "idle" => queue[msg[w]] # "absent"
       /\ pc[w] \in ActionSteps => Reached(run[w], idx[w])
       /\ pc[w] = "SetCompleted" => performed[run[w]][idx[w]] > 0 /\ idx[w] \notin Delays

\* A step that concerns one worker only: it becomes idle, or it is at an action
\* that the run has reached.
LEMMA OrderFrame ==
  ASSUME Typed, OrderInv, NEW w \in Workers,
         UNCHANGED <<queue, fired, performed>>,
         \A v \in Workers \ {w} : /\ pc'[v] = pc[v] /\ idx'[v] = idx[v]
                                  /\ msg'[v] = msg[v] /\ run'[v] = run[v],
         \/ pc'[w] = "idle"
         \/ /\ pc[w] # "idle"
            /\ pc'[w] # "SetCompleted"
            /\ msg'[w] = msg[w] /\ run'[w] = run[w]
            /\ pc'[w] \in ActionSteps => Reached(run[w], idx'[w])
  PROVE  OrderInv'
<1>1. \A r, i : Reached(r, i) => Reached(r, i)'
  BY DEF Reached
<1>2. /\ \A r \in Runs, i \in Indices :
           /\ performed'[r][i] > 0 => Reached(r, i)'
           /\ fired'[r][i] > 0 => performed'[r][i] > 0
      /\ \A m \in ResumeMessages :
           queue'[m] # "absent" => fired'[m.run][m.resumeFrom] > 0
  BY <1>1 DEF OrderInv
<1>3. ASSUME NEW v \in Workers
      PROVE  /\ pc'[v] # "idle" => queue'[msg'[v]] # "absent"
             /\ pc'[v] \in ActionSteps => Reached(run[v], idx[v])'
             /\ pc'[v] = "SetCompleted" =>
                  performed'[run'[v]][idx'[v]] > 0 /\ idx'[v] \notin Delays
  <2>1. CASE v # w
    <3>1. pc'[v] = pc[v] /\ idx'[v] = idx[v] /\ msg'[v] = msg[v] /\ run'[v] = run[v]
      BY <2>1
    <3>2. QED BY <3>1 DEF OrderInv, Reached
  <2>2. CASE v = w /\ pc'[w] = "idle"
    BY <2>2 DEF ActionSteps
  <2>3. CASE v = w /\ pc'[w] # "idle"
    <3>1. pc'[w] \in ActionSteps => Reached(run[w], idx[w])'
      BY <2>3 DEF Reached
    <3>2. QED BY <2>3, <3>1 DEF OrderInv
  <2>4. QED BY <2>1, <2>2, <2>3
<1>4. QED BY <1>2, <1>3 DEF OrderInv

LEMMA OrderWrite ==
  ASSUME Typed, OrderInv, NEW w \in Workers, Writes(w)
  PROVE  OrderInv'
<1>1. PICK new \in Rows, next \in AfterWrite, i \in Nat : WriteStep(w, new, next, i)
  BY WritesAreWriteSteps
<1>2. /\ pc' = [pc EXCEPT ![w] = next] /\ idx' = [idx EXCEPT ![w] = i]
      /\ pc[w] \in HasCopy
      /\ UNCHANGED <<queue, fired, performed, msg, run>>
  BY <1>1 DEF WriteStep
<1>3. pc'[w] = next /\ idx'[w] = i /\ pc[w] # "idle"
  BY <1>2 DEF Typed, TypeOK, HasCopy, ActionSteps
<1>4. next \in ActionSteps => Reached(run[w], i)
  <2>1. CASE pc[w] \in {"SetStarted", "SetScheduled"}
    <3>1. SetStarted(w) \/ SetScheduled(w)
      BY <2>1 DEF Writes, SetCondition, StopRun, SetResumed, SetCompleted, MarkFailed,
                  MarkCompleted
    <3>2. idx' = idx
      BY <3>1 DEF SetStarted, SetScheduled, Update
    <3>3. i = idx[w]
      BY <1>3, <3>2
    <3>4. QED BY <2>1, <3>3 DEF OrderInv, ActionSteps
  <2>2. CASE pc[w] = "SetCompleted"
    <3>1. SetCompleted(w)
      BY <2>2 DEF Writes, SetCondition, StopRun, SetResumed, SetStarted, SetScheduled,
                  MarkFailed, MarkCompleted
    <3>2. idx' = [idx EXCEPT ![w] = @ + 1]
      BY <3>1 DEF SetCompleted
    <3>3. i = idx[w] + 1
      BY <1>3, <3>2 DEF Typed, TypeOK
    <3>4. /\ Reached(run[w], idx[w])
          /\ performed[run[w]][idx[w]] > 0 /\ idx[w] \notin Delays
          /\ idx[w] \in Nat
      BY <2>2 DEF OrderInv, ActionSteps, Typed, TypeOK
    <3>5. \A j \in Indices : j < idx[w] + 1 => j < idx[w] \/ j = idx[w]
      BY <3>4, IndexIsNat
    <3>6. QED BY <3>3, <3>4, <3>5 DEF Reached
  <2>3. CASE pc[w] = "SetResumed"
    <3>1. SetResumed(w)
      BY <2>3 DEF Writes, SetCondition, StopRun, SetStarted, SetScheduled, SetCompleted,
                  MarkFailed, MarkCompleted
    <3>2. idx' = [idx EXCEPT ![w] = ResumeAt(w)]
      BY <3>1 DEF SetResumed
    <3>3. i = msg[w].resumeFrom + 1
      BY <1>3, <3>2 DEF ResumeAt, Typed, TypeOK
    <3>4. /\ msg[w] \in ResumeMessages /\ run[w] = msg[w].run
          /\ queue[msg[w]] # "absent"
      BY <2>3 DEF OrderInv, Typed, WorkerInv
    <3>5. DEFINE d == msg[w].resumeFrom
    <3>6. run[w] \in Runs /\ d \in Indices /\ d \in Nat
      BY <3>4, ResumeIndex, IndexIsNat
    <3>7. fired[run[w]][d] > 0
      BY <3>4 DEF OrderInv
    <3>8. performed[run[w]][d] > 0 /\ Reached(run[w], d)
      BY <3>6, <3>7 DEF OrderInv
    <3>9. \A j \in Indices : j < d + 1 => j < d \/ j = d
      BY <3>6, IndexIsNat
    <3>10. QED BY <3>3, <3>7, <3>8, <3>9 DEF Reached
  <2>4. CASE pc[w] \notin {"SetStarted", "SetScheduled", "SetCompleted", "SetResumed"}
    <3>1. SetCondition(w) \/ StopRun(w) \/ MarkFailed(w) \/ MarkCompleted(w)
      BY <2>4 DEF Writes, SetStarted, SetScheduled, SetCompleted, SetResumed
    <3>2. pc'[w] \in {"Evaluate", "Delete", "Failed"}
      BY <1>2, <3>1
      DEF SetCondition, StopRun, MarkFailed, MarkCompleted, Update, Goto, Typed, TypeOK
    <3>3. QED BY <1>3, <3>2 DEF ActionSteps
  <2>5. QED BY <2>1, <2>2, <2>3, <2>4
<1>5. next # "SetCompleted"
  BY DEF AfterWrite
<1>6. \A v \in Workers \ {w} : pc'[v] = pc[v] /\ idx'[v] = idx[v]
  BY <1>2
<1>7. QED BY <1>2, <1>3, <1>4, <1>5, <1>6, OrderFrame

LEMMA FirstIsReached ==
  ASSUME NEW r
  PROVE  Reached(r, 1)
<1>1. \A j \in Indices : ~(j < 1)
  BY IndexIsNat
<1>2. QED BY <1>1 DEF Reached

LEMMA OrderTurn ==
  ASSUME Typed, OrderInv, NEW w \in Workers, Turns(w)
  PROVE  OrderInv'
<1>1. UNCHANGED <<queue, fired, performed>>
  BY DEF Turns, Fetch, Evaluate, GetRun, LogStarted, LogScheduled, Failed, Crash, sqs
<1>2. CASE Failed(w) \/ Crash(w)
  <2>1. Release(w)
    BY <1>2 DEF Failed, Crash
  <2>2. pc'[w] = "idle"
    BY <2>1 DEF Release, Goto, Typed, TypeOK
  <2>3. \A v \in Workers \ {w} : /\ pc'[v] = pc[v] /\ idx'[v] = idx[v]
                                 /\ msg'[v] = msg[v] /\ run'[v] = run[v]
    BY <2>1 DEF Release, Goto, Typed, TypeOK
  <2>4. QED BY <1>1, <2>2, <2>3, OrderFrame
<1>3. CASE Fetch(w) \/ GetRun(w)
  <2>1. /\ UNCHANGED <<msg, run, idx>>
        /\ pc[w] # "idle"
        /\ \E s \in {"CreateRun", "GetRun", "SetResumed", "Failed"} :
             pc' = [pc EXCEPT ![w] = s]
    BY <1>3 DEF Fetch, GetRun, Goto, delivery
  <2>2. pc'[w] \notin ActionSteps /\ pc'[w] # "SetCompleted"
    BY <2>1 DEF ActionSteps, Typed, TypeOK
  <2>3. ASSUME NEW v \in Workers, v # w
        PROVE  pc'[v] = pc[v] /\ idx'[v] = idx[v] /\ msg'[v] = msg[v] /\ run'[v] = run[v]
    BY <2>1, <2>3 DEF Typed, TypeOK
  <2>4. pc'[w] # "SetCompleted" /\ msg'[w] = msg[w] /\ run'[w] = run[w] /\ pc[w] # "idle"
    BY <2>1 DEF Typed, TypeOK
  <2>5. QED BY <1>1, <2>2, <2>3, <2>4, OrderFrame
<1>4. CASE Evaluate(w)
  <2>1. /\ UNCHANGED <<msg, run>>
        /\ pc[w] # "idle"
        /\ \/ /\ pc' = [pc EXCEPT ![w] = StepAt(1)]
              /\ idx' = [idx EXCEPT ![w] = 1]
           \/ /\ pc' = [pc EXCEPT ![w] = "SetCondition"]
              /\ idx' = [idx EXCEPT ![w] = @ + 1]
           \/ /\ \/ pc' = [pc EXCEPT ![w] = "StopCompleted"]
                 \/ pc' = [pc EXCEPT ![w] = "StopFailed"]
              /\ idx' = idx
    BY <1>4 DEF Evaluate, Goto, delivery
  <2>2. ASSUME NEW v \in Workers, v # w
        PROVE  pc'[v] = pc[v] /\ idx'[v] = idx[v] /\ msg'[v] = msg[v] /\ run'[v] = run[v]
    BY <2>1, <2>2 DEF Typed, TypeOK
  <2>3. pc'[w] \in ActionSteps => idx'[w] = 1
    BY <2>1 DEF ActionSteps, Typed, TypeOK
  <2>4. pc'[w] # "SetCompleted"
    BY <2>1, StepAtTyped DEF Typed, TypeOK
  <2>5. QED BY <1>1, <2>1, <2>2, <2>3, <2>4, FirstIsReached, OrderFrame
<1>5. CASE LogStarted(w) \/ LogScheduled(w)
  <2>1. /\ UNCHANGED <<msg, run, idx>>
        /\ pc[w] \in {"LogStarted", "LogScheduled"}
        /\ \E s \in {"Execute", "MarkFailed", "Delete"} : pc' = [pc EXCEPT ![w] = s]
    BY <1>5 DEF LogStarted, LogScheduled, Goto, delivery
  <2>2. Reached(run[w], idx'[w])
    BY <2>1 DEF OrderInv, ActionSteps
  <2>3. ASSUME NEW v \in Workers, v # w
        PROVE  pc'[v] = pc[v] /\ idx'[v] = idx[v] /\ msg'[v] = msg[v] /\ run'[v] = run[v]
    BY <2>1, <2>3 DEF Typed, TypeOK
  <2>4. pc'[w] # "SetCompleted" /\ msg'[w] = msg[w] /\ run'[w] = run[w] /\ pc[w] # "idle"
    BY <2>1 DEF Typed, TypeOK
  <2>5. QED BY <1>1, <2>2, <2>3, <2>4, OrderFrame
<1>6. QED BY <1>2, <1>3, <1>4, <1>5 DEF Turns

LEMMA OrderCreate ==
  ASSUME Typed, OrderInv, NEW w \in Workers, CreateRun(w)
  PROVE  OrderInv'
<1>1. /\ UNCHANGED <<queue, fired, performed, msg, run>>
      /\ pc[w] # "idle"
      /\ idx' = [idx EXCEPT ![w] = 1]
      /\ \E s \in {"SetCondition", "SetStarted", "MarkCompleted", "Failed"} :
           pc' = [pc EXCEPT ![w] = s]
  BY StepAtTyped DEF CreateRun, StartWith, Goto, sqs, delivery
<1>2. /\ idx'[w] = 1
      /\ pc'[w] # "SetCompleted"
      /\ \A v \in Workers \ {w} : pc'[v] = pc[v] /\ idx'[v] = idx[v]
  BY <1>1 DEF Typed, TypeOK
<1>3. QED BY <1>1, <1>2, FirstIsReached, OrderFrame

LEMMA OrderExecute ==
  ASSUME Typed, OrderInv, NEW w \in Workers, Execute(w)
  PROVE  OrderInv'
<1>1. /\ pc[w] = "Execute" /\ run[w] \in Runs /\ idx[w] \in Indices
      /\ UNCHANGED <<queue, fired, msg, run, idx>>
      /\ \/ /\ performed' = [performed EXCEPT ![run[w]][idx[w]] = @ + 1]
            /\ \/ pc' = [pc EXCEPT ![w] = "SetCompleted"] /\ idx[w] \notin Delays
               \/ pc' = [pc EXCEPT ![w] = "SetScheduled"]
               \/ pc' = [pc EXCEPT ![w] = "MarkFailed"]
         \/ performed' = performed /\ pc' = [pc EXCEPT ![w] = "MarkFailed"]
  BY ExecuteEffect DEF sqs, delivery
<1>2. /\ \A r \in Runs, i \in Indices : performed[r][i] > 0 => performed'[r][i] > 0
      /\ \A r \in Runs, i \in Indices :
           performed'[r][i] > 0 => performed[r][i] > 0 \/ (r = run[w] /\ i = idx[w])
      /\ performed' # performed => performed'[run[w]][idx[w]] > 0
  <2>1. performed[run[w]][idx[w]] + 1 > 0
    BY <1>1 DEF Typed, TypeOK
  <2>2. CASE performed' = performed
    BY <2>2
  <2>3. CASE performed' = [performed EXCEPT ![run[w]][idx[w]] = @ + 1]
    BY <1>1, <2>1, <2>3 DEF Typed, TypeOK
  <2>4. QED BY <1>1, <2>2, <2>3
<1>3. \A r \in Runs : \A i : Reached(r, i) => Reached(r, i)'
  BY <1>1, <1>2 DEF Reached
<1>4. Reached(run[w], idx[w])
  BY <1>1 DEF OrderInv, ActionSteps
<1>5. \A r \in Runs, i \in Indices :
        /\ performed'[r][i] > 0 => Reached(r, i)'
        /\ fired'[r][i] > 0 => performed'[r][i] > 0
  BY <1>1, <1>2, <1>3, <1>4 DEF OrderInv
<1>6. \A m \in ResumeMessages :
        queue'[m] # "absent" => fired'[m.run][m.resumeFrom] > 0
  BY <1>1 DEF OrderInv
<1>7. ASSUME NEW v \in Workers
      PROVE  /\ pc'[v] # "idle" => queue'[msg'[v]] # "absent"
             /\ pc'[v] \in ActionSteps => Reached(run[v], idx[v])'
             /\ pc'[v] = "SetCompleted" =>
                  performed'[run'[v]][idx'[v]] > 0 /\ idx'[v] \notin Delays
  <2>1. CASE v = w
    <3>1. queue'[msg'[w]] # "absent"
      BY <1>1 DEF OrderInv
    <3>2. Reached(run[w], idx[w])'
      BY <1>1, <1>2, <1>4 DEF Reached
    <3>3. pc'[w] = "SetCompleted" =>
            performed'[run'[w]][idx'[w]] > 0 /\ idx'[w] \notin Delays
      BY <1>1, <1>2 DEF Typed, TypeOK
    <3>4. QED BY <2>1, <3>1, <3>2, <3>3
  <2>2. CASE v # w
    <3>1. pc'[v] = pc[v] /\ idx'[v] = idx[v] /\ msg'[v] = msg[v] /\ run'[v] = run[v]
      BY <1>1, <2>2 DEF Typed, TypeOK
    <3>2. pc[v] \in ActionSteps => run[v] \in Runs /\ idx[v] \in Indices
      BY DEF ActionSteps, Typed, TypeOK
    <3>3. pc'[v] \in ActionSteps => Reached(run[v], idx[v])'
      BY <1>1, <1>2, <3>1, <3>2 DEF OrderInv, Reached
    <3>4. pc'[v] = "SetCompleted" =>
            performed'[run'[v]][idx'[v]] > 0 /\ idx'[v] \notin Delays
      BY <1>2, <3>1, <3>2 DEF OrderInv, ActionSteps
    <3>5. QED BY <1>1, <3>1, <3>3, <3>4 DEF OrderInv
  <2>3. QED BY <2>1, <2>2
<1>8. QED BY <1>5, <1>6, <1>7 DEF OrderInv

LEMMA OrderReceive ==
  ASSUME Typed, OrderInv, NEW w \in Workers, NEW m \in Messages, Receive(w, m)
  PROVE  OrderInv'
<1>1. /\ queue' = [queue EXCEPT ![m] = "inflight"] /\ queue[m] = "visible"
      /\ UNCHANGED <<fired, performed, idx>>
      /\ \/ UNCHANGED <<pc, msg, run>>
         \/ /\ pc' = [pc EXCEPT ![w] = "Fetch"]
            /\ msg' = [msg EXCEPT ![w] = m]
            /\ run' = [run EXCEPT ![w] = RunOf(m)]
  BY DEF Receive, Goto, delivery
<1>2. \A n \in Messages : queue'[n] # "absent" <=> queue[n] # "absent"
  BY <1>1 DEF Typed, TypeOK
<1>3. ResumeMessages \subseteq Messages
  BY DEF Messages
<1>4. ASSUME NEW v \in Workers
      PROVE  /\ pc'[v] # "idle" => queue'[msg'[v]] # "absent"
             /\ pc'[v] \in ActionSteps => Reached(run[v], idx[v])'
             /\ pc'[v] = "SetCompleted" =>
                  performed'[run'[v]][idx'[v]] > 0 /\ idx'[v] \notin Delays
  <2>1. pc[v] # "idle" => msg[v] \in Messages
    BY DEF Typed, TypeOK
  <2>2. CASE pc'[v] = pc[v] /\ msg'[v] = msg[v] /\ run'[v] = run[v]
    BY <1>1, <1>2, <2>1, <2>2 DEF OrderInv, Reached
  <2>3. CASE pc'[v] = "Fetch" /\ msg'[v] = m
    BY <1>1, <1>2, <2>3 DEF ActionSteps
  <2>4. QED BY <1>1, <2>2, <2>3 DEF Typed, TypeOK
<1>5. \A r, i : Reached(r, i) => Reached(r, i)'
  BY <1>1 DEF Reached
<1>6. QED BY <1>1, <1>2, <1>3, <1>4, <1>5 DEF OrderInv

LEMMA OrderQueueStep ==
  ASSUME Typed, OrderInv, NEW m \in Messages, BecomeVisible(m) \/ MoveToDeadLetters(m)
  PROVE  OrderInv'
<1>1. /\ UNCHANGED <<fired, performed, pc, msg, run, idx>>
      /\ queue[m] # "absent"
      /\ \E s \in {"visible", "dead"} : queue' = [queue EXCEPT ![m] = s]
  BY DEF BecomeVisible, MoveToDeadLetters, delivery
<1>2. \A n \in Messages : queue'[n] # "absent" <=> queue[n] # "absent"
  BY <1>1 DEF Typed, TypeOK
<1>3. ResumeMessages \subseteq Messages
  BY DEF Messages
<1>4. ASSUME NEW v \in Workers
      PROVE  pc[v] # "idle" => msg[v] \in Messages
  BY DEF Typed, TypeOK
<1>5. QED BY <1>1, <1>2, <1>3, <1>4 DEF OrderInv, Reached

LEMMA OrderDelete ==
  ASSUME Typed, OrderInv, NEW w \in Workers, Delete(w)
  PROVE  OrderInv'
<1>1. /\ UNCHANGED <<fired, performed>>
      /\ pc[w] # "idle"
      /\ \/ queue' = queue
         \/ queue' = [queue EXCEPT ![msg[w]] = IF @ = "dead" THEN @ ELSE "deleted"]
      /\ pc' = [pc EXCEPT ![w] = "idle"]
      /\ msg' = [msg EXCEPT ![w] = NoMessage]
      /\ run' = [run EXCEPT ![w] = NoRun]
      /\ idx' = [idx EXCEPT ![w] = 0]
  BY DEF Delete, Release, Goto
<1>2. \A n \in Messages : queue'[n] # "absent" <=> queue[n] # "absent"
  <2>1. queue[msg[w]] # "absent"
    BY <1>1 DEF OrderInv
  <2>2. QED BY <1>1, <2>1 DEF Typed, TypeOK
<1>3. ResumeMessages \subseteq Messages
  BY DEF Messages
<1>4. ASSUME NEW v \in Workers
      PROVE  /\ pc'[v] # "idle" => queue'[msg'[v]] # "absent"
             /\ pc'[v] \in ActionSteps => Reached(run[v], idx[v])'
             /\ pc'[v] = "SetCompleted" =>
                  performed'[run'[v]][idx'[v]] > 0 /\ idx'[v] \notin Delays
  <2>1. pc[v] # "idle" => msg[v] \in Messages
    BY DEF Typed, TypeOK
  <2>2. CASE v # w
    <3>1. pc'[v] = pc[v] /\ idx'[v] = idx[v] /\ msg'[v] = msg[v] /\ run'[v] = run[v]
      BY <1>1, <2>2 DEF Typed, TypeOK
    <3>2. QED BY <1>1, <1>2, <2>1, <3>1 DEF OrderInv, Reached
  <2>3. CASE v = w
    BY <1>1, <2>3 DEF ActionSteps, Typed, TypeOK
  <2>4. QED BY <2>2, <2>3
<1>5. \A r, i : Reached(r, i) => Reached(r, i)'
  BY <1>1 DEF Reached
<1>6. QED BY <1>1, <1>2, <1>3, <1>4, <1>5 DEF OrderInv

LEMMA OrderFire ==
  ASSUME Typed, OrderInv, NEW r \in Runs, NEW i \in Delays, FireJob(r, i)
  PROVE  OrderInv'
<1>1. /\ UNCHANGED <<performed, pc, msg, run, idx>>
      /\ fired' = [fired EXCEPT ![r][i] = @ + 1]
      /\ fired[r][i] < MaxCopies
      /\ fired[r][i] < performed[r][i] \/ fired[r][i] >= 1
      /\ queue' = [queue EXCEPT ![Resume(r, i, fired[r][i] + 1)] = "visible"]
  BY DEF FireJob, delivery
<1>2. i \in Indices /\ fired[r][i] \in Nat /\ performed[r][i] \in Nat
  BY DelayIsIndex DEF Typed, TypeOK
<1>3. /\ fired'[r][i] > 0
      /\ \A q \in Runs, j \in Indices : fired[q][j] > 0 => fired'[q][j] > 0
      /\ \A q \in Runs, j \in Indices :
           fired'[q][j] > 0 => fired[q][j] > 0 \/ (q = r /\ j = i)
  <2>1. fired[r][i] + 1 > 0
    BY <1>2
  <2>2. QED BY <1>1, <1>2, <2>1 DEF Typed, TypeOK
<1>4. performed[r][i] > 0
  BY <1>1, <1>2 DEF OrderInv
<1>5. \A q \in Runs : \A j : Reached(q, j) => Reached(q, j)'
  BY <1>1, <1>3 DEF Reached
<1>6. \A q \in Runs, j \in Indices :
        /\ performed'[q][j] > 0 => Reached(q, j)'
        /\ fired'[q][j] > 0 => performed'[q][j] > 0
  BY <1>1, <1>3, <1>4, <1>5 DEF OrderInv
<1>7. DEFINE new == Resume(r, i, fired[r][i] + 1)
<1>8. new.run = r /\ new.resumeFrom = i
  BY DEF Resume
<1> HIDE DEF new
<1>9. \A m \in Messages : queue'[m] = queue[m] \/ (m = new /\ queue'[m] = "visible")
  BY <1>1 DEF new, Typed, TypeOK
<1>10. ASSUME NEW m \in ResumeMessages, queue'[m] # "absent"
       PROVE  fired'[m.run][m.resumeFrom] > 0
  <2>1. m \in Messages /\ m.run \in Runs /\ m.resumeFrom \in Indices
    BY ResumeIndex
  <2>2. CASE m = new
    BY <1>3, <1>8, <2>2
  <2>3. CASE m # new
    BY <1>3, <1>9, <1>10, <2>1, <2>3 DEF OrderInv
  <2>4. QED BY <2>2, <2>3
<1>11. ASSUME NEW v \in Workers
       PROVE  /\ pc'[v] # "idle" => queue'[msg'[v]] # "absent"
              /\ pc'[v] \in ActionSteps => Reached(run[v], idx[v])'
              /\ pc'[v] = "SetCompleted" =>
                   performed'[run'[v]][idx'[v]] > 0 /\ idx'[v] \notin Delays
  <2>1. pc[v] # "idle" => msg[v] \in Messages /\ run[v] \in Runs
    BY DEF Typed, TypeOK
  <2>2. pc'[v] # "idle" => queue'[msg'[v]] # "absent"
    BY <1>1, <1>9, <2>1 DEF OrderInv
  <2>3. pc'[v] \in ActionSteps => Reached(run[v], idx[v])'
    BY <1>1, <1>3, <2>1 DEF OrderInv, Reached, ActionSteps
  <2>4. QED BY <1>1, <2>2, <2>3 DEF OrderInv
<1>12. QED BY <1>6, <1>10, <1>11 DEF OrderInv

LEMMA OrderInit ==
  ASSUME Init
  PROVE  OrderInv
<1>1. \A m \in ResumeMessages : queue[m] = "absent"
  BY ResumeIndex DEF Init
<1>2. \A r \in Runs, i \in Indices : performed[r][i] = 0 /\ fired[r][i] = 0
  BY DEF Init
<1>3. \A w \in Workers : pc[w] = "idle"
  BY DEF Init
<1>4. QED BY <1>1, <1>2, <1>3 DEF OrderInv, ActionSteps

LEMMA OrderStep ==
  ASSUME Typed, OrderInv, [Next]_vars
  PROVE  OrderInv'
<1>1. CASE Next
  BY <1>1, NextCases, OrderWrite, OrderTurn, OrderCreate, OrderExecute, OrderDelete,
     OrderReceive, OrderQueueStep, OrderFire
<1>2. CASE UNCHANGED vars
  BY <1>2 DEF vars, OrderInv, Reached
<1>3. QED BY <1>1, <1>2

LEMMA AlwaysInOrder == Spec => []OrderInv
<1>1. QED BY AlwaysTyped, OrderInit, OrderStep, PTL DEF Spec

\* No action of a run takes effect before all actions in front of it did, in
\* whatever order deliveries of the run's messages interleave and fail.
THEOREM OrderKept == Spec => []ActionsInOrder
<1>1. OrderInv => ActionsInOrder
  BY DEF OrderInv, Reached, ActionsInOrder
<1>2. QED BY <1>1, AlwaysInOrder, PTL

\* No action behind a delay takes effect before the scheduler has sent the
\* message that ends this delay, whatever is redelivered or sent twice.
THEOREM DelayKept == Spec => []WaitsForDelay
<1>1. OrderInv => WaitsForDelay
  BY DelayIsIndex DEF OrderInv, Reached, WaitsForDelay
<1>2. QED BY <1>1, AlwaysInOrder, PTL

(***************************************************************************)
(* The optimistic lock.  It compares times; where two updates of a run are *)
(* never stamped with the same millisecond, equal times mean equal rows    *)
(* (LockInv).  This rests on CreateRun, whose PutItem has no condition,    *)
(* never hitting a row that exists: a run is made for one delivery only.   *)
(***************************************************************************)
Starting(w) == pc[w] \in {"Fetch", "CreateRun"} /\ msg[w] \in StartMessages

LockInv ==
  /\ \A r \in Runs :
       /\ row[r].updatedAt <= clock[r]
       /\ row[r] # NoRow => r[2] <= receives[Start(r[1])]
  /\ \A w \in Workers : pc[w] \in HasCopy =>
       /\ mine[w].updatedAt <= clock[run[w]]
       /\ mine[w].updatedAt = row[run[w]].updatedAt => mine[w] = row[run[w]]
  /\ \A w \in Workers : Starting(w) =>
       /\ msg[w] = Start(run[w][1])
       /\ run[w][2] <= receives[msg[w]]
       /\ row[run[w]] = NoRow
  /\ \A v, w \in Workers : Starting(v) /\ Starting(w) /\ run[v] = run[w] => v = w

\* A step that writes no row and concerns one worker only.
LEMMA LockFrame ==
  ASSUME Typed, LockInv, NEW w \in Workers,
         UNCHANGED <<row, clock, receives>>,
         \A v \in Workers \ {w} : /\ pc'[v] = pc[v] /\ mine'[v] = mine[v]
                                  /\ msg'[v] = msg[v] /\ run'[v] = run[v],
         pc'[w] \in HasCopy => /\ run'[w] = run[w] /\ run[w] \in Runs
                               /\ \/ pc[w] \in HasCopy /\ mine'[w] = mine[w]
                                  \/ mine'[w] = row[run[w]],
         pc'[w] \in {"Fetch", "CreateRun"} =>
           pc[w] = "Fetch" /\ msg'[w] = msg[w] /\ run'[w] = run[w]
  PROVE  LockInv'
<1>1. \A r \in Runs : /\ row'[r].updatedAt <= clock'[r]
                      /\ row'[r] # NoRow => r[2] <= receives'[Start(r[1])]
  BY DEF LockInv
<1>2. ASSUME NEW v \in Workers, pc'[v] \in HasCopy
      PROVE  /\ mine'[v].updatedAt <= clock'[run'[v]]
             /\ mine'[v].updatedAt = row'[run'[v]].updatedAt => mine'[v] = row'[run'[v]]
  <2>1. CASE v = w
    BY <1>2, <2>1 DEF LockInv
  <2>2. CASE v # w
    BY <1>2, <2>2 DEF LockInv
  <2>3. QED BY <2>1, <2>2
<1>3. ASSUME NEW v \in Workers, Starting(v)'
      PROVE  /\ Starting(v) /\ run'[v] = run[v] /\ msg'[v] = msg[v]
             /\ msg'[v] = Start(run'[v][1])
             /\ run'[v][2] <= receives'[msg'[v]]
             /\ row'[run'[v]] = NoRow
  <2>1. Starting(v) /\ run'[v] = run[v] /\ msg'[v] = msg[v]
    <3>1. CASE v = w
      BY <1>3, <3>1 DEF Starting
    <3>2. CASE v # w
      BY <1>3, <3>2 DEF Starting
    <3>3. QED BY <3>1, <3>2
  <2>2. QED BY <2>1 DEF LockInv
<1>4. \A u, v \in Workers : Starting(u)' /\ Starting(v)' /\ run'[u] = run'[v] => u = v
  BY <1>3 DEF LockInv
<1>5. QED BY <1>1, <1>2, <1>3, <1>4 DEF LockInv

\* A write is stamped later than every row and every copy of the run.
LEMMA WriteIsLater ==
  ASSUME Typed, LockInv, 0 \notin Gaps, NEW w \in Workers, run[w] \in Runs,
         NEW new \in Rows, \E d \in Gaps : new.updatedAt = clock[run[w]] + d
  PROVE  /\ new.updatedAt \in Nat
         /\ clock[run[w]] < new.updatedAt
         /\ row[run[w]].updatedAt \in Nat
         /\ row[run[w]].updatedAt < new.updatedAt
         /\ \A v \in Workers : pc[v] \in HasCopy /\ run[v] = run[w] =>
              mine[v].updatedAt < new.updatedAt
<1>1. PICK d \in Gaps : new.updatedAt = clock[run[w]] + d
  OBVIOUS
<1>2. d \in Nat /\ d # 0
  BY ConstantsAssumption
<1>3. clock[run[w]] \in Nat
  BY DEF Typed, TypeOK
<1>4. row[run[w]].updatedAt \in Nat
  <2>1. row[run[w]] \in Rows \cup {NoRow}
    BY DEF Typed, TypeOK
  <2>2. QED BY <2>1 DEF Rows, NoRow
<1>5. new.updatedAt \in Nat
  BY DEF Rows
<1>6. clock[run[w]] < new.updatedAt
  BY <1>1, <1>2, <1>3
<1>7. row[run[w]].updatedAt <= clock[run[w]]
  BY DEF LockInv
<1>8. ASSUME NEW v \in Workers, pc[v] \in HasCopy, run[v] = run[w]
      PROVE  mine[v].updatedAt < new.updatedAt
  <2>1. mine[v].updatedAt <= clock[run[w]]
    BY <1>8 DEF LockInv
  <2>2. mine[v].updatedAt \in Nat
    BY <1>8 DEF Typed, WorkerInv, Rows
  <2>3. QED BY <1>3, <1>5, <1>6, <2>1, <2>2
<1>9. QED BY <1>3, <1>4, <1>5, <1>6, <1>7, <1>8

LEMMA LockWrite ==
  ASSUME Typed, LockInv, 0 \notin Gaps, NEW w \in Workers, Writes(w)
  PROVE  LockInv'
<1>1. PICK new \in Rows, next \in AfterWrite, i \in Nat : WriteStep(w, new, next, i)
  BY WritesAreWriteSteps
<1>2. /\ mine' = [mine EXCEPT ![w] = new]
      /\ clock' = [clock EXCEPT ![run[w]] = new.updatedAt]
      /\ row' = row \/ row' = [row EXCEPT ![run[w]] = new]
      /\ pc' = [pc EXCEPT ![w] = next]
      /\ pc[w] \in HasCopy
      /\ UNCHANGED <<receives, msg, run>>
  BY <1>1 DEF WriteStep, Wrote
<1>3. run[w] \in Runs /\ row[run[w]] \in Rows /\ row[run[w]] # NoRow
  BY <1>2, NoRowIsNoRow DEF Typed, TypeOK, WorkerInv, HasCopy, ActionSteps
<1>4. /\ new.updatedAt \in Nat
      /\ clock[run[w]] < new.updatedAt
      /\ row[run[w]].updatedAt \in Nat
      /\ row[run[w]].updatedAt < new.updatedAt
      /\ \A v \in Workers : pc[v] \in HasCopy /\ run[v] = run[w] =>
           mine[v].updatedAt < new.updatedAt
  BY <1>1, <1>3, WriteIsLater DEF WriteStep
<1>5. /\ mine'[w] = new
      /\ pc'[w] = next
      /\ clock'[run[w]] = new.updatedAt
      /\ row'[run[w]] = row[run[w]] \/ row'[run[w]] = new
      /\ \A r \in Runs \ {run[w]} : clock'[r] = clock[r] /\ row'[r] = row[r]
      /\ \A v \in Workers \ {w} : pc'[v] = pc[v] /\ mine'[v] = mine[v]
  BY <1>2, <1>3 DEF Typed, TypeOK
<1>6. ASSUME NEW r \in Runs
      PROVE  /\ row'[r].updatedAt <= clock'[r]
             /\ row'[r] # NoRow => r[2] <= receives'[Start(r[1])]
  <2>1. CASE r = run[w]
    BY <1>2, <1>3, <1>4, <1>5, <2>1 DEF LockInv
  <2>2. CASE r # run[w]
    BY <1>2, <1>5, <2>2 DEF LockInv
  <2>3. QED BY <2>1, <2>2
<1>7. ASSUME NEW v \in Workers, pc'[v] \in HasCopy
      PROVE  /\ mine'[v].updatedAt <= clock'[run'[v]]
             /\ mine'[v].updatedAt = row'[run'[v]].updatedAt => mine'[v] = row'[run'[v]]
  <2>1. CASE v = w
    BY <1>2, <1>4, <1>5, <2>1
  <2>2. CASE v # w /\ run[v] = run[w]
    <3>1. pc[v] \in HasCopy /\ mine'[v] = mine[v] /\ run'[v] = run[w]
      BY <1>2, <1>5, <1>7, <2>2
    <3>2. mine[v].updatedAt < new.updatedAt /\ mine[v].updatedAt \in Nat
      BY <1>4, <2>2, <3>1 DEF Typed, WorkerInv, Rows
    <3>3. mine[v].updatedAt = row[run[w]].updatedAt => mine[v] = row[run[w]]
      BY <2>2, <3>1 DEF LockInv
    <3>4. QED BY <1>4, <1>5, <3>1, <3>2, <3>3
  <2>3. CASE v # w /\ run[v] # run[w]
    <3>1. pc[v] \in HasCopy /\ mine'[v] = mine[v] /\ run'[v] = run[v] /\ run[v] \in Runs
      BY <1>2, <1>5, <1>7, <2>3 DEF Typed, TypeOK, HasCopy, ActionSteps
    <3>2. QED BY <1>5, <2>3, <3>1 DEF LockInv
  <2>4. QED BY <2>1, <2>2, <2>3
<1>8. ASSUME NEW v \in Workers, Starting(v)'
      PROVE  /\ Starting(v)
             /\ msg'[v] = Start(run'[v][1])
             /\ run'[v][2] <= receives'[msg'[v]]
             /\ row'[run'[v]] = NoRow
  <2>1. v # w /\ Starting(v) /\ run[v] \in Runs
    BY <1>2, <1>5, <1>8 DEF Starting, AfterWrite, Typed, TypeOK
  <2>2. row[run[v]] = NoRow
    BY <2>1 DEF LockInv
  <2>3. run[v] # run[w]
    BY <1>3, <2>2
  <2>4. QED BY <1>2, <1>5, <2>1, <2>2, <2>3 DEF LockInv
<1>9. \A u, v \in Workers : Starting(u)' /\ Starting(v)' /\ run'[u] = run'[v] => u = v
  BY <1>2, <1>8 DEF LockInv
<1>10. QED BY <1>6, <1>7, <1>8, <1>9 DEF LockInv

LEMMA LockTurn ==
  ASSUME Typed, LockInv, NEW w \in Workers, Turns(w) \/ Execute(w) \/ Delete(w)
  PROVE  LockInv'
<1>1. UNCHANGED <<row, clock, receives>>
  BY DEF Turns, Fetch, Evaluate, GetRun, LogStarted, LogScheduled, Failed, Crash,
         Execute, Delete, sqs, table
<1>2. CASE Failed(w) \/ Crash(w) \/ Delete(w)
  <2>1. Release(w)
    BY <1>2 DEF Failed, Crash, Delete
  <2>2. /\ pc'[w] = "idle"
        /\ \A v \in Workers \ {w} : /\ pc'[v] = pc[v] /\ mine'[v] = mine[v]
                                    /\ msg'[v] = msg[v] /\ run'[v] = run[v]
    BY <2>1 DEF Release, Goto, Typed, TypeOK
  <2>3. pc'[w] \notin HasCopy
    BY <2>2 DEF HasCopy, ActionSteps
  <2>4. QED BY <1>1, <2>2, <2>3, LockFrame
<1>3. CASE Fetch(w)
  <2>1. /\ pc[w] = "Fetch" /\ UNCHANGED <<mine, msg, run>>
        /\ \E s \in {"CreateRun", "GetRun", "Failed"} : pc' = [pc EXCEPT ![w] = s]
    BY <1>3 DEF Fetch, Goto, delivery
  <2>2. /\ pc'[w] \in {"CreateRun", "GetRun", "Failed"}
        /\ \A v \in Workers \ {w} : pc'[v] = pc[v]
    BY <2>1 DEF Typed, TypeOK
  <2>3. pc'[w] \notin HasCopy
    BY <2>2 DEF HasCopy, ActionSteps
  <2>4. QED BY <1>1, <2>1, <2>2, <2>3, LockFrame
<1>4. CASE GetRun(w)
  <2>1. /\ pc[w] = "GetRun" /\ UNCHANGED <<msg, run>>
        /\ \/ pc' = [pc EXCEPT ![w] = "Failed"] /\ mine' = mine
           \/ pc' = [pc EXCEPT ![w] = "SetResumed"] /\ mine' = [mine EXCEPT ![w] = row[run[w]]]
    BY <1>4 DEF GetRun, Goto, delivery
  <2>2. \A v \in Workers \ {w} : pc'[v] = pc[v] /\ mine'[v] = mine[v]
    BY <2>1 DEF Typed, TypeOK
  <2>3. /\ run[w] \in Runs
        /\ pc'[w] \in {"Failed", "SetResumed"}
        /\ pc'[w] = "SetResumed" => mine'[w] = row[run[w]]
    BY <2>1 DEF Typed, TypeOK
  <2>4. "Failed" \notin HasCopy
    BY DEF HasCopy, ActionSteps
  <2>5. QED BY <1>1, <2>1, <2>2, <2>3, <2>4, LockFrame
<1>5. CASE Evaluate(w) \/ LogStarted(w) \/ LogScheduled(w) \/ Execute(w)
  <2>1. UNCHANGED <<mine, msg, run>>
    BY <1>5, ExecuteEffect DEF Evaluate, LogStarted, LogScheduled, delivery
  <2>2. pc[w] \in HasCopy
    BY <1>5 DEF Evaluate, LogStarted, LogScheduled, Execute, HasCopy, ActionSteps
  <2>3. \E s \in Steps \ {"Fetch", "CreateRun"} : pc' = [pc EXCEPT ![w] = s]
    BY <1>5, ExecuteEffect DEF Evaluate, LogStarted, LogScheduled, Goto, StepAt, Steps
  <2>4. pc'[w] \notin {"Fetch", "CreateRun"} /\ \A v \in Workers \ {w} : pc'[v] = pc[v]
    BY <2>3 DEF Typed, TypeOK
  <2>5. run[w] \in Runs
    BY <2>2 DEF Typed, TypeOK, HasCopy, ActionSteps
  <2>6. QED BY <1>1, <2>1, <2>2, <2>4, <2>5, LockFrame
<1>6. QED BY <1>2, <1>3, <1>4, <1>5 DEF Turns

LEMMA LockCreate ==
  ASSUME Typed, LockInv, NEW w \in Workers, CreateRun(w)
  PROVE  LockInv'
<1> DEFINE new == [status |-> "TRIGGERED", state |-> <<"TRIGGERED", 0>>, updatedAt |-> 1]
<1>1. /\ pc[w] = "CreateRun" /\ Starting(w) /\ run[w] \in Runs
      /\ row[run[w]] = NoRow
      /\ msg[w] = Start(run[w][1])
      /\ run[w][2] <= receives[msg[w]]
  BY DEF CreateRun, Typed, TypeOK, WorkerInv, LockInv, Starting
<1>2. /\ mine' = [mine EXCEPT ![w] = new]
      /\ clock' = [clock EXCEPT ![run[w]] = 1]
      /\ UNCHANGED <<receives, msg, run>>
      /\ \/ row' = [row EXCEPT ![run[w]] = new]
         \/ row' = row /\ pc' = [pc EXCEPT ![w] = "Failed"]
      /\ \E s \in {"SetCondition", "SetStarted", "MarkCompleted", "Failed"} :
           pc' = [pc EXCEPT ![w] = s]
  BY StepAtTyped DEF CreateRun, Take, StartWith, Goto, sqs, delivery
<1>3. new.updatedAt = 1
  OBVIOUS
<1> HIDE DEF new
<1>4. /\ mine'[w] = new
      /\ clock'[run[w]] = 1
      /\ row'[run[w]] \in {NoRow, new}
      /\ pc'[w] \in {"SetCondition", "SetStarted", "MarkCompleted", "Failed"}
      /\ pc'[w] \in HasCopy => row'[run[w]] = new
      /\ \A r \in Runs \ {run[w]} : clock'[r] = clock[r] /\ row'[r] = row[r]
      /\ \A v \in Workers \ {w} : pc'[v] = pc[v] /\ mine'[v] = mine[v]
  BY <1>1, <1>2 DEF Typed, TypeOK, HasCopy, ActionSteps
<1>5. ASSUME NEW r \in Runs
      PROVE  /\ row'[r].updatedAt <= clock'[r]
             /\ row'[r] # NoRow => r[2] <= receives'[Start(r[1])]
  <2>1. CASE r = run[w]
    BY <1>1, <1>2, <1>3, <1>4, <2>1 DEF NoRow
  <2>2. CASE r # run[w]
    BY <1>2, <1>4, <2>2 DEF LockInv
  <2>3. QED BY <2>1, <2>2
<1>6. ASSUME NEW v \in Workers, pc'[v] \in HasCopy
      PROVE  /\ mine'[v].updatedAt <= clock'[run'[v]]
             /\ mine'[v].updatedAt = row'[run'[v]].updatedAt => mine'[v] = row'[run'[v]]
  <2>1. CASE v = w
    BY <1>2, <1>3, <1>4, <1>6, <2>1
  <2>2. CASE v # w
    <3>1. pc[v] \in HasCopy /\ mine'[v] = mine[v] /\ run'[v] = run[v] /\ run[v] \in Runs
      BY <1>2, <1>4, <1>6, <2>2 DEF Typed, TypeOK, HasCopy, ActionSteps
    <3>2. row[run[v]] # NoRow
      BY <3>1, NoRowIsNoRow DEF Typed, WorkerInv
    <3>3. run[v] # run[w]
      BY <1>1, <3>2
    <3>4. QED BY <1>4, <3>1, <3>3 DEF LockInv
  <2>3. QED BY <2>1, <2>2
<1>7. ASSUME NEW v \in Workers, Starting(v)'
      PROVE  /\ Starting(v)
             /\ msg'[v] = Start(run'[v][1])
             /\ run'[v][2] <= receives'[msg'[v]]
             /\ row'[run'[v]] = NoRow
  <2>1. v # w /\ Starting(v) /\ run[v] \in Runs
    BY <1>2, <1>4, <1>7 DEF Starting, Typed, TypeOK
  <2>2. run[v] # run[w]
    BY <1>1, <2>1 DEF LockInv
  <2>3. QED BY <1>2, <1>4, <2>1, <2>2 DEF LockInv
<1>8. \A u, v \in Workers : Starting(u)' /\ Starting(v)' /\ run'[u] = run'[v] => u = v
  BY <1>2, <1>7 DEF LockInv
<1>9. QED BY <1>5, <1>6, <1>7, <1>8 DEF LockInv

LEMMA LockReceive ==
  ASSUME Typed, LockInv, NEW w \in Workers, NEW m \in Messages, Receive(w, m)
  PROVE  LockInv'
<1>1. /\ pc[w] = "idle" /\ receives[m] < MaxReceives
      /\ receives' = [receives EXCEPT ![m] = @ + 1]
      /\ UNCHANGED <<row, clock, mine>>
      /\ \/ UNCHANGED <<pc, msg, run>>
         \/ /\ pc' = [pc EXCEPT ![w] = "Fetch"]
            /\ msg' = [msg EXCEPT ![w] = m]
            /\ run' = [run EXCEPT ![w] = RunOf(m)]
  BY DEF Receive, Goto, delivery, table
<1>2. \A n \in Messages : /\ receives[n] \in Nat /\ receives'[n] \in Nat
                          /\ receives[n] <= receives'[n]
  BY <1>1, ConstantsAssumption DEF Typed, TypeOK
<1>3. receives'[m] = receives[m] + 1
  BY <1>1 DEF Typed, TypeOK
<1>4. \A r \in Runs : Start(r[1]) \in Messages /\ r[2] \in Nat
  BY DEF Messages, StartMessages, Runs
<1>5. ASSUME NEW r \in Runs
      PROVE  /\ row'[r].updatedAt <= clock'[r]
             /\ row'[r] # NoRow => r[2] <= receives'[Start(r[1])]
  BY <1>1, <1>2, <1>4 DEF LockInv
<1>6. ASSUME NEW v \in Workers, pc'[v] \in HasCopy
      PROVE  /\ mine'[v].updatedAt <= clock'[run'[v]]
             /\ mine'[v].updatedAt = row'[run'[v]].updatedAt => mine'[v] = row'[run'[v]]
  <2>1. pc'[v] = pc[v] /\ run'[v] = run[v]
    BY <1>1, <1>6 DEF HasCopy, ActionSteps, Typed, TypeOK
  <2>2. QED BY <1>1, <1>6, <2>1 DEF LockInv
<1>7. \A v \in Workers : Starting(v) => /\ run[v] \in Runs
                                        /\ msg[v] = Start(run[v][1])
                                        /\ run[v][2] <= receives[msg[v]]
                                        /\ row[run[v]] = NoRow
  BY DEF LockInv, Starting, Typed, TypeOK
<1>8. CASE UNCHANGED <<pc, msg, run>>
  <2>1. \A v \in Workers : Starting(v)' <=> Starting(v)
    BY <1>8 DEF Starting
  <2>2. ASSUME NEW v \in Workers, Starting(v)'
        PROVE  /\ msg'[v] = Start(run'[v][1])
               /\ run'[v][2] <= receives'[msg'[v]]
               /\ row'[run'[v]] = NoRow
    BY <1>1, <1>2, <1>4, <1>7, <1>8, <2>1, <2>2
  <2>3. QED BY <1>5, <1>6, <1>8, <2>1, <2>2 DEF LockInv
<1>9. CASE /\ pc' = [pc EXCEPT ![w] = "Fetch"]
           /\ msg' = [msg EXCEPT ![w] = m]
           /\ run' = [run EXCEPT ![w] = RunOf(m)]
  <2>1. /\ msg'[w] = m /\ run'[w] = RunOf(m)
        /\ \A v \in Workers \ {w} : /\ pc'[v] = pc[v] /\ msg'[v] = msg[v]
                                    /\ run'[v] = run[v]
    BY <1>9 DEF Typed, TypeOK
  <2>2. \A v \in Workers \ {w} : Starting(v)' <=> Starting(v)
    BY <2>1 DEF Starting
  <2>3. ASSUME m \in StartMessages
        PROVE  /\ RunOf(m) \in Runs
               /\ m = Start(RunOf(m)[1])
               /\ RunOf(m)[2] = receives[m] + 1
    <3>1. m = Start(m.signal)
      BY <2>3 DEF StartMessages, Start
    <3>2. RunOf(m) = <<m.signal, receives[m] + 1>>
      BY <2>3 DEF RunOf
    <3>3. QED BY <1>1, <3>1, <3>2, RunOfTyped
  <2>4. ASSUME m \in StartMessages
        PROVE  row[RunOf(m)] = NoRow
    <3>1. row[RunOf(m)] # NoRow => receives[m] + 1 <= receives[m]
      BY <2>3, <2>4 DEF LockInv
    <3>2. QED BY <1>2, <3>1
  <2>5. ASSUME m \in StartMessages, NEW v \in Workers, Starting(v), run[v] = RunOf(m)
        PROVE  FALSE
    <3>1. receives[m] + 1 <= receives[m]
      BY <1>7, <2>3, <2>5
    <3>2. QED BY <1>2, <3>1
  <2>6. ASSUME NEW v \in Workers, Starting(v)'
        PROVE  /\ msg'[v] = Start(run'[v][1])
               /\ run'[v][2] <= receives'[msg'[v]]
               /\ row'[run'[v]] = NoRow
    <3>1. CASE v # w
      <4>1. Starting(v)
        BY <2>2, <2>6, <3>1
      <4>2. QED BY <1>1, <1>2, <1>4, <1>7, <2>1, <3>1, <4>1
    <3>2. CASE v = w
      <4>1. m \in StartMessages
        BY <2>1, <2>6, <3>2 DEF Starting
      <4>2. QED BY <1>1, <1>2, <1>3, <2>1, <2>3, <2>4, <3>2, <4>1
    <3>3. QED BY <3>1, <3>2
  <2>7. ASSUME NEW u \in Workers, NEW v \in Workers,
               Starting(u)', Starting(v)', run'[u] = run'[v]
        PROVE  u = v
    <3>1. Starting(w)' => m \in StartMessages
      BY <2>1 DEF Starting
    <3>2. CASE u = w /\ v # w
      BY <2>1, <2>2, <2>5, <2>7, <3>1, <3>2
    <3>3. CASE v = w /\ u # w
      BY <2>1, <2>2, <2>5, <2>7, <3>1, <3>3
    <3>4. CASE u # w /\ v # w
      BY <2>1, <2>2, <2>7, <3>4 DEF LockInv
    <3>5. QED BY <3>2, <3>3, <3>4
  <2>8. QED BY <1>5, <1>6, <2>6, <2>7 DEF LockInv
<1>10. QED BY <1>1, <1>8, <1>9

LEMMA LockStep ==
  ASSUME Typed, LockInv, 0 \notin Gaps, [Next]_vars
  PROVE  LockInv'
<1>1. CASE Next
  <2>1. CASE \/ \E m \in Messages : BecomeVisible(m) \/ MoveToDeadLetters(m)
             \/ \E r \in Runs, i \in Delays : FireJob(r, i)
    <3>1. UNCHANGED <<row, clock, receives, pc, mine, msg, run>>
      BY <2>1 DEF BecomeVisible, MoveToDeadLetters, FireJob, table, delivery
    <3>2. QED BY <3>1 DEF LockInv, Starting
  <2>2. QED BY <1>1, <2>1, NextCases, LockWrite, LockTurn, LockCreate, LockReceive
<1>2. CASE UNCHANGED vars
  BY <1>2 DEF vars, LockInv, Starting
<1>3. QED BY <1>1, <1>2

\* Only a worker whose copy is the row as it stands overwrites a row.
LEMMA LockHeld ==
  ASSUME Typed, LockInv, [Next]_vars,
         NEW r \in Runs, row[r] # NoRow, row'[r] # row[r]
  PROVE  \E w \in Workers : run[w] = r /\ mine[w] = row[r] /\ mine'[w] = row'[r]
<1>1. Next
  BY DEF vars
<1>2. ASSUME NEW w \in Workers, Writes(w)
      PROVE  \E v \in Workers : run[v] = r /\ mine[v] = row[r] /\ mine'[v] = row'[r]
  <2>1. PICK new \in Rows, next \in AfterWrite, i \in Nat : WriteStep(w, new, next, i)
    BY <1>2, WritesAreWriteSteps
  <2>2. /\ mine' = [mine EXCEPT ![w] = new]
        /\ LockHolds(w) /\ row' = [row EXCEPT ![run[w]] = new]
        /\ pc[w] \in HasCopy
    BY <2>1 DEF WriteStep, Wrote
  <2>3. r = run[w] /\ mine'[w] = new /\ row'[r] = new
    BY <2>2 DEF Typed, TypeOK
  <2>4. mine[w] = row[r]
    BY <2>2, <2>3 DEF LockHolds, LockInv
  <2>5. QED BY <2>3, <2>4
<1>3. ASSUME NEW w \in Workers, CreateRun(w)
      PROVE  FALSE
  <2>1. row[run[w]] = NoRow
    BY <1>3 DEF CreateRun, Typed, WorkerInv, LockInv, Starting
  <2>2. row' = row \/ row' = [row EXCEPT ![run[w]] = row'[run[w]]]
    BY <1>3 DEF CreateRun, Typed, TypeOK
  <2>3. QED BY <2>1, <2>2 DEF Typed, TypeOK
<1>4. ASSUME \/ \E w \in Workers : Turns(w) \/ Execute(w) \/ Delete(w)
             \/ \E w \in Workers, m \in Messages : Receive(w, m)
             \/ \E m \in Messages : BecomeVisible(m) \/ MoveToDeadLetters(m)
             \/ \E q \in Runs, i \in Delays : FireJob(q, i)
      PROVE  FALSE
  <2>1. row' = row
    BY <1>4 DEF Turns, Fetch, Evaluate, GetRun, LogStarted, LogScheduled, Failed, Crash,
                Execute, Delete, Receive, BecomeVisible, MoveToDeadLetters, FireJob, table
  <2>2. QED BY <2>1
<1>5. QED BY <1>1, <1>2, <1>3, <1>4, NextCases

LEMMA LockInit ==
  ASSUME Init
  PROVE  LockInv
<1>1. \A r \in Runs : row[r] = NoRow /\ clock[r] = 0
  BY DEF Init
<1>2. \A w \in Workers : pc[w] = "idle"
  BY DEF Init
<1>3. NoRow.updatedAt = 0
  BY DEF NoRow
<1>4. QED BY <1>1, <1>2, <1>3 DEF LockInv, Starting, HasCopy, ActionSteps

\* The optimistic lock: where every update of a run has a millisecond of its
\* own, a row is only overwritten by a worker whose copy is the row as it
\* stands, so no update of another delivery is lost, whatever strikes.
THEOREM LockKept ==
  ASSUME 0 \notin Gaps
  PROVE  Spec => NoLostUpdate
<1> DEFINE Held == \A r \in Runs : row[r] # NoRow /\ row'[r] # row[r] =>
                     \E w \in Workers : run[w] = r /\ mine[w] = row[r] /\ mine'[w] = row'[r]
<1>1. Typed /\ LockInv /\ [Next]_vars => Held
  BY LockHeld
<1>2. Typed /\ LockInv /\ [Next]_vars => LockInv'
  BY LockStep
<1>3. QED BY <1>1, <1>2, AlwaysTyped, LockInit, PTL DEF Spec, NoLostUpdate

(***************************************************************************)
(* What a deleted message left behind.  DeletedWasHandled alone does not   *)
(* say what a worker has still to do before it deletes a message.  A run   *)
(* that a condition may stop is left untouched by everyone: only the       *)
(* delivery that made it owns it, and nobody resumes a run none of whose   *)
(* delays took effect.                                                     *)
(***************************************************************************)
CondSteps == {"SetCondition", "Evaluate", "StopCompleted", "StopFailed"}
EarlySteps == {"Fetch", "CreateRun"} \cup CondSteps

Untouched(r) == \A i \in Indices : performed[r][i] = 0

Owns(w) == pc[w] # "idle" /\ msg[w] \in StartMessages

OwnerInv ==
  /\ \A r \in Runs : Untouched(r) \/ r[2] <= receives[Start(r[1])]
  /\ \A w \in Workers :
       /\ Owns(w) => msg[w] = Start(run[w][1]) /\ run[w][2] <= receives[msg[w]]
       /\ Owns(w) /\ pc[w] \in EarlySteps => Untouched(run[w])
       /\ pc[w] \in CondSteps => msg[w] \in StartMessages /\ NumConditions > 0
  /\ \A u, v \in Workers : Owns(u) /\ Owns(v) /\ run[u] = run[v] => u = v

\* A step of one worker after which it is idle or works on the same message.
LEMMA OwnerFrame ==
  ASSUME Typed, OwnerInv, NEW w \in Workers,
         UNCHANGED <<receives, performed>>,
         \A v \in Workers \ {w} : pc'[v] = pc[v] /\ msg'[v] = msg[v] /\ run'[v] = run[v],
         \/ pc'[w] = "idle"
         \/ /\ pc[w] # "idle"
            /\ msg'[w] = msg[w] /\ run'[w] = run[w]
            /\ pc'[w] \in EarlySteps => pc[w] \in EarlySteps
            /\ pc'[w] \in CondSteps => msg[w] \in StartMessages /\ NumConditions > 0
  PROVE  OwnerInv'
<1>1. ASSUME NEW v \in Workers, pc'[v] # "idle"
      PROVE  /\ pc[v] # "idle" /\ msg'[v] = msg[v] /\ run'[v] = run[v]
             /\ pc'[v] \in EarlySteps => pc[v] \in EarlySteps
             /\ pc'[v] \in CondSteps => msg[v] \in StartMessages /\ NumConditions > 0
  <2>1. CASE v = w
    BY <1>1, <2>1
  <2>2. CASE v # w
    BY <1>1, <2>2 DEF OwnerInv
  <2>3. QED BY <2>1, <2>2
<1>2. \A r : Untouched(r)' <=> Untouched(r)
  BY DEF Untouched
<1>3. \A v \in Workers : Owns(v)' => Owns(v)
  BY <1>1 DEF Owns
<1>4. \A v \in Workers : pc'[v] \in CondSteps => pc'[v] # "idle"
  BY DEF CondSteps
<1>5. ASSUME NEW v \in Workers
      PROVE  /\ Owns(v)' => msg'[v] = Start(run'[v][1]) /\ run'[v][2] <= receives'[msg'[v]]
             /\ Owns(v)' /\ pc'[v] \in EarlySteps => Untouched(run[v])'
             /\ pc'[v] \in CondSteps => msg'[v] \in StartMessages /\ NumConditions > 0
  <2>1. CASE Owns(v)'
    <3>1. Owns(v) /\ pc'[v] # "idle" /\ receives' = receives
      BY <1>3, <2>1 DEF Owns
    <3>2. QED BY <1>1, <1>2, <3>1 DEF OwnerInv
  <2>2. CASE ~Owns(v)'
    BY <1>1, <1>4, <2>2 DEF Owns
  <2>3. QED BY <2>1, <2>2
<1>6. ASSUME NEW u \in Workers, NEW v \in Workers, Owns(u)', Owns(v)', run'[u] = run'[v]
      PROVE  u = v
  BY <1>1, <1>3, <1>6 DEF Owns, OwnerInv
<1>7. \A r \in Runs : Untouched(r)' \/ r[2] <= receives'[Start(r[1])]
  BY <1>2 DEF OwnerInv
<1>8. QED BY <1>5, <1>6, <1>7 DEF OwnerInv

\* Where each write leads.
LEMMA WriteMoves ==
  ASSUME Typed, NEW w \in Workers, Writes(w)
  PROVE  /\ \A v \in Workers \ {w} : pc'[v] = pc[v] /\ idx'[v] = idx[v]
         /\ UNCHANGED <<queue, receives, fired, performed, msg, run>>
         /\ \/ /\ pc[w] = "SetCondition"
               /\ pc'[w] = "Evaluate"
            \/ /\ pc[w] \in {"StopCompleted", "StopFailed"}
               /\ pc'[w] = "Delete"
            \/ /\ pc[w] = "SetResumed"
               /\ \/ pc'[w] = "Failed"
                  \/ pc'[w] = StepAt(ResumeAt(w)) /\ idx'[w] = ResumeAt(w)
            \/ /\ pc[w] = "SetStarted"
               /\ pc'[w] \in {"LogStarted", "MarkFailed"} /\ idx'[w] = idx[w]
            \/ /\ pc[w] = "SetScheduled"
               /\ pc'[w] \in {"LogScheduled", "MarkFailed"} /\ idx'[w] = idx[w]
            \/ /\ pc[w] = "SetCompleted"
               /\ pc'[w] = StepAt(idx[w] + 1) /\ idx'[w] = idx[w] + 1
            \/ /\ pc[w] = "MarkFailed"
               /\ pc'[w] = "Failed"
            \/ /\ pc[w] = "MarkCompleted"
               /\ pc'[w] \in {"Delete", "Failed"}
<1>1. PICK new \in Rows, next \in AfterWrite, i \in Nat : WriteStep(w, new, next, i)
  BY WritesAreWriteSteps
<1>2. /\ \A v \in Workers \ {w} : pc'[v] = pc[v] /\ idx'[v] = idx[v]
      /\ UNCHANGED <<queue, receives, fired, performed, msg, run>>
  BY <1>1 DEF WriteStep, Typed, TypeOK
<1>3. pc \in [Workers -> Steps] /\ idx \in [Workers -> Nat]
  BY DEF Typed, TypeOK
<1>4. CASE SetCondition(w)
  BY <1>2, <1>3, <1>4 DEF SetCondition, Goto
<1>5. CASE StopRun(w)
  BY <1>2, <1>3, <1>5 DEF StopRun, Goto
<1>6. CASE SetResumed(w)
  BY <1>2, <1>3, <1>6 DEF SetResumed, Goto
<1>7. CASE SetStarted(w)
  BY <1>2, <1>3, <1>7 DEF SetStarted, Update, Goto
<1>8. CASE SetScheduled(w)
  BY <1>2, <1>3, <1>8 DEF SetScheduled, Update, Goto
<1>9. CASE SetCompleted(w)
  BY <1>2, <1>3, <1>9 DEF SetCompleted, Goto
<1>10. CASE MarkFailed(w)
  BY <1>2, <1>3, <1>10 DEF MarkFailed, Goto
<1>11. CASE MarkCompleted(w)
  BY <1>2, <1>3, <1>11 DEF MarkCompleted, Update, Goto
<1>12. QED BY <1>4, <1>5, <1>6, <1>7, <1>8, <1>9, <1>10, <1>11 DEF Writes

\* Where the other steps of a worker lead.
LEMMA TurnMoves ==
  ASSUME Typed, NEW w \in Workers, Turns(w)
  PROVE  /\ \A v \in Workers \ {w} : /\ pc'[v] = pc[v] /\ idx'[v] = idx[v]
                                     /\ msg'[v] = msg[v] /\ run'[v] = run[v]
         /\ UNCHANGED <<queue, receives, fired, performed>>
         /\ \/ pc'[w] = "idle"
            \/ /\ msg'[w] = msg[w] /\ run'[w] = run[w]
               /\ \/ /\ pc[w] = "Fetch"
                     /\ pc'[w] \in {"CreateRun", "GetRun", "Failed"}
                  \/ /\ pc[w] = "Evaluate"
                     /\ \/ pc'[w] \in CondSteps
                        \/ pc'[w] = StepAt(1) /\ idx'[w] = 1
                  \/ pc[w] = "GetRun" /\ pc'[w] \in {"SetResumed", "Failed"}
                  \/ /\ pc[w] = "LogStarted"
                     /\ pc'[w] \in {"Execute", "MarkFailed"} /\ idx'[w] = idx[w]
                  \/ /\ pc[w] = "LogScheduled"
                     /\ pc'[w] \in {"Delete", "MarkFailed"} /\ idx'[w] = idx[w]
<1>1. /\ pc \in [Workers -> Steps] /\ idx \in [Workers -> Nat]
      /\ msg \in [Workers -> Messages \cup {NoMessage}]
      /\ run \in [Workers -> Runs \cup {NoRun}]
  BY DEF Typed, TypeOK
<1>2. CASE Fetch(w)
  BY <1>1, <1>2 DEF Fetch, Goto, sqs, delivery
<1>3. CASE Evaluate(w)
  BY <1>1, <1>3 DEF Evaluate, Goto, sqs, delivery, CondSteps
<1>4. CASE GetRun(w)
  BY <1>1, <1>4 DEF GetRun, Goto, sqs, delivery
<1>5. CASE LogStarted(w)
  BY <1>1, <1>5 DEF LogStarted, Goto, sqs, delivery
<1>6. CASE LogScheduled(w)
  BY <1>1, <1>6 DEF LogScheduled, Goto, sqs, delivery
<1>7. CASE Failed(w) \/ Crash(w)
  BY <1>1, <1>7 DEF Failed, Crash, Release, Goto, sqs
<1>8. QED BY <1>2, <1>3, <1>4, <1>5, <1>6, <1>7 DEF Turns

LEMMA CreateMoves ==
  ASSUME Typed, NEW w \in Workers, CreateRun(w)
  PROVE  /\ pc[w] = "CreateRun" /\ msg[w] \in StartMessages
         /\ UNCHANGED <<queue, receives, fired, performed, msg, run>>
         /\ \A v \in Workers \ {w} : pc'[v] = pc[v] /\ idx'[v] = idx[v]
         /\ idx'[w] = 1
         /\ \/ pc'[w] = "SetCondition" /\ NumConditions > 0
            \/ pc'[w] = StepAt(1)
            \/ pc'[w] = "Failed"
<1>1. pc \in [Workers -> Steps] /\ idx \in [Workers -> Nat]
  BY DEF Typed, TypeOK
<1>2. pc[w] = "CreateRun" /\ msg[w] \in StartMessages
  BY DEF CreateRun, Typed, WorkerInv
<1>3. \/ pc' = [pc EXCEPT ![w] = "SetCondition"] /\ NumConditions > 0
      \/ pc' = [pc EXCEPT ![w] = StepAt(1)]
      \/ pc' = [pc EXCEPT ![w] = "Failed"]
  BY DEF CreateRun, StartWith, Goto
<1>4. idx' = [idx EXCEPT ![w] = 1] /\ UNCHANGED <<queue, receives, fired, performed, msg, run>>
  BY DEF CreateRun, sqs, delivery
<1>5. QED BY <1>1, <1>2, <1>3, <1>4

LEMMA NextStepIsLate ==
  ASSUME NEW i
  PROVE  StepAt(i) \notin EarlySteps /\ StepAt(i) # "idle"
  BY DEF StepAt, EarlySteps, CondSteps

LEMMA OwnerWorker ==
  ASSUME Typed, OwnerInv, NEW w \in Workers,
         Writes(w) \/ Turns(w) \/ CreateRun(w) \/ Delete(w)
  PROVE  OwnerInv'
<1>1. CASE Writes(w)
  <2>1. /\ \A v \in Workers \ {w} : pc'[v] = pc[v]
        /\ UNCHANGED <<receives, performed, msg, run>>
        /\ pc[w] # "idle"
        /\ pc'[w] \in EarlySteps => pc[w] = "SetCondition" /\ pc'[w] = "Evaluate"
    BY <1>1, WriteMoves, NextStepIsLate DEF EarlySteps, CondSteps
  <2>2. pc'[w] \in CondSteps => msg[w] \in StartMessages /\ NumConditions > 0
    BY <2>1 DEF OwnerInv, EarlySteps, CondSteps
  <2>3. pc'[w] \in EarlySteps => pc[w] \in EarlySteps
    BY <2>1 DEF EarlySteps, CondSteps
  <2>4. QED BY <2>1, <2>2, <2>3, OwnerFrame
<1>2. CASE Turns(w)
  <2>1. /\ \A v \in Workers \ {w} : pc'[v] = pc[v] /\ msg'[v] = msg[v] /\ run'[v] = run[v]
        /\ UNCHANGED <<receives, performed>>
        /\ \/ pc'[w] = "idle"
           \/ /\ msg'[w] = msg[w] /\ run'[w] = run[w] /\ pc[w] # "idle"
              /\ pc'[w] \in EarlySteps => pc[w] \in EarlySteps
              /\ pc'[w] \in CondSteps => pc[w] \in CondSteps
    BY <1>2, TurnMoves, NextStepIsLate DEF EarlySteps, CondSteps
  <2>2. pc[w] \in CondSteps => msg[w] \in StartMessages /\ NumConditions > 0
    BY DEF OwnerInv
  <2>3. QED BY <2>1, <2>2, OwnerFrame
<1>3. CASE CreateRun(w)
  <2>1. /\ \A v \in Workers \ {w} : pc'[v] = pc[v]
        /\ UNCHANGED <<receives, performed, msg, run>>
        /\ pc[w] = "CreateRun"
        /\ pc'[w] \in CondSteps => msg[w] \in StartMessages /\ NumConditions > 0
    BY <1>3, CreateMoves, NextStepIsLate DEF EarlySteps, CondSteps
  <2>2. pc[w] \in EarlySteps
    BY <2>1 DEF EarlySteps
  <2>3. QED BY <2>1, <2>2, OwnerFrame
<1>4. CASE Delete(w)
  <2>1. /\ \A v \in Workers \ {w} : pc'[v] = pc[v] /\ msg'[v] = msg[v] /\ run'[v] = run[v]
        /\ pc'[w] = "idle"
        /\ UNCHANGED <<receives, performed>>
    BY <1>4 DEF Delete, Release, Goto, Typed, TypeOK
  <2>2. QED BY <2>1, OwnerFrame
<1>5. QED BY <1>1, <1>2, <1>3, <1>4

\* A worker at an action either owns its run, or resumes one whose delay took effect.
LEMMA TouchedOrOwned ==
  ASSUME Typed, OrderInv, NEW w \in Workers, pc[w] # "idle", Untouched(run[w])
  PROVE  Owns(w)
<1>1. CASE msg[w] \in ResumeMessages
  <2>1. run[w] = msg[w].run /\ queue[msg[w]] # "absent"
    BY <1>1 DEF Typed, WorkerInv, OrderInv
  <2>2. run[w] \in Runs /\ msg[w].resumeFrom \in Indices
    BY <1>1, <2>1, ResumeIndex
  <2>3. performed[run[w]][msg[w].resumeFrom] > 0
    BY <1>1, <2>1, <2>2 DEF OrderInv
  <2>4. QED BY <2>2, <2>3 DEF Untouched
<1>2. CASE msg[w] \notin ResumeMessages
  BY <1>2 DEF Owns, Typed, TypeOK, Messages
<1>3. QED BY <1>1, <1>2

LEMMA ExecuteMoves ==
  ASSUME Typed, NEW w \in Workers, Execute(w)
  PROVE  /\ pc[w] = "Execute" /\ run[w] \in Runs /\ idx[w] \in Indices
         /\ UNCHANGED <<queue, receives, fired, msg, run, idx>>
         /\ \A v \in Workers \ {w} : pc'[v] = pc[v]
         /\ pc'[w] \in {"SetCompleted", "SetScheduled", "MarkFailed"}
         /\ \A r \in Runs \ {run[w]} : performed'[r] = performed[r]
         /\ \A r \in Runs, i \in Indices : performed[r][i] > 0 => performed'[r][i] > 0
         /\ pc'[w] \in {"SetCompleted", "SetScheduled"} => performed'[run[w]][idx[w]] > 0
<1>1. /\ pc[w] = "Execute" /\ run[w] \in Runs /\ idx[w] \in Indices
      /\ UNCHANGED <<queue, receives, fired, msg, run, idx>>
  BY ExecuteEffect DEF sqs, delivery
<1>2. \/ /\ performed' = [performed EXCEPT ![run[w]][idx[w]] = @ + 1]
         /\ \/ pc' = [pc EXCEPT ![w] = "SetCompleted"]
            \/ pc' = [pc EXCEPT ![w] = "SetScheduled"]
            \/ pc' = [pc EXCEPT ![w] = "MarkFailed"]
      \/ performed' = performed /\ pc' = [pc EXCEPT ![w] = "MarkFailed"]
  BY ExecuteEffect
<1>3. pc \in [Workers -> Steps] /\ performed \in [Runs -> [Indices -> Nat]]
  BY DEF Typed, TypeOK
<1>4. /\ \A v \in Workers \ {w} : pc'[v] = pc[v]
      /\ pc'[w] \in {"SetCompleted", "SetScheduled", "MarkFailed"}
  BY <1>2, <1>3
<1>5. CASE performed' = performed
  BY <1>1, <1>2, <1>3, <1>4, <1>5
<1>6. CASE performed' = [performed EXCEPT ![run[w]][idx[w]] = @ + 1]
  <2>1. performed[run[w]] \in [Indices -> Nat]
    BY <1>1, <1>3
  <2>2. /\ performed'[run[w]] = [performed[run[w]] EXCEPT ![idx[w]] = @ + 1]
        /\ \A r \in Runs \ {run[w]} : performed'[r] = performed[r]
    BY <1>1, <1>3, <1>6
  <2>3. /\ performed'[run[w]][idx[w]] = performed[run[w]][idx[w]] + 1
        /\ \A i \in Indices \ {idx[w]} : performed'[run[w]][i] = performed[run[w]][i]
    BY <1>1, <2>1, <2>2
  <2>4. performed[run[w]][idx[w]] \in Nat
    BY <1>1, <2>1
  <2>5. ASSUME NEW r \in Runs, NEW i \in Indices, performed[r][i] > 0
        PROVE  performed'[r][i] > 0
    <3>1. CASE r = run[w] /\ i = idx[w]
      BY <2>3, <2>4, <3>1
    <3>2. CASE r = run[w] /\ i # idx[w]
      BY <2>3, <2>5, <3>2
    <3>3. CASE r # run[w]
      BY <2>2, <2>5, <3>3
    <3>4. QED BY <3>1, <3>2, <3>3
  <2>6. QED BY <1>1, <1>4, <2>2, <2>3, <2>4, <2>5
<1>7. QED BY <1>2, <1>5, <1>6

LEMMA OwnerExecute ==
  ASSUME Typed, OrderInv, OwnerInv, NEW w \in Workers, Execute(w)
  PROVE  OwnerInv'
<1>1. /\ pc[w] = "Execute" /\ run[w] \in Runs
      /\ UNCHANGED <<receives, msg, run>>
      /\ \A v \in Workers \ {w} : pc'[v] = pc[v]
      /\ pc'[w] \in {"SetCompleted", "SetScheduled", "MarkFailed"}
      /\ \A r \in Runs \ {run[w]} : performed'[r] = performed[r]
  BY ExecuteMoves
<1>2. pc'[w] # "idle" /\ pc'[w] \notin EarlySteps /\ pc'[w] \notin CondSteps
  BY <1>1 DEF EarlySteps, CondSteps
<1>3. \A v \in Workers : Owns(v)' <=> Owns(v)
  BY <1>1, <1>2 DEF Owns
<1>4. \A r \in Runs \ {run[w]} : Untouched(r)' <=> Untouched(r)
  BY <1>1 DEF Untouched
<1>5. run[w][2] <= receives[Start(run[w][1])]
  <2>1. CASE Untouched(run[w])
    <3>1. Owns(w)
      BY <1>1, <2>1, TouchedOrOwned
    <3>2. QED BY <3>1 DEF OwnerInv
  <2>2. CASE ~Untouched(run[w])
    BY <1>1, <2>2 DEF OwnerInv
  <2>3. QED BY <2>1, <2>2
<1>6. \A r \in Runs : Untouched(r)' \/ r[2] <= receives'[Start(r[1])]
  BY <1>1, <1>4, <1>5 DEF OwnerInv
<1>7. ASSUME NEW v \in Workers, Owns(v)', pc'[v] \in EarlySteps
      PROVE  Untouched(run[v])'
  <2>1. v # w /\ Owns(v) /\ pc[v] \in EarlySteps /\ Untouched(run[v]) /\ run'[v] = run[v]
    BY <1>1, <1>2, <1>3, <1>7 DEF OwnerInv
  <2>2. run[v] \in Runs
    BY <2>1 DEF Owns, Typed, TypeOK
  <2>3. run[v] # run[w]
    <3>1. SUFFICES ASSUME run[v] = run[w] PROVE FALSE
      OBVIOUS
    <3>2. Owns(w)
      BY <1>1, <2>1, <3>1, TouchedOrOwned
    <3>3. QED BY <2>1, <3>1, <3>2 DEF OwnerInv
  <2>4. QED BY <1>4, <2>1, <2>2, <2>3
<1>8. ASSUME NEW v \in Workers
      PROVE  /\ Owns(v)' => msg'[v] = Start(run'[v][1]) /\ run'[v][2] <= receives'[msg'[v]]
             /\ pc'[v] \in CondSteps => msg'[v] \in StartMessages /\ NumConditions > 0
  <2>1. Owns(v)' => msg'[v] = Start(run'[v][1]) /\ run'[v][2] <= receives'[msg'[v]]
    BY <1>1, <1>3 DEF OwnerInv
  <2>2. pc'[v] \in CondSteps => msg'[v] \in StartMessages /\ NumConditions > 0
    BY <1>1, <1>2 DEF OwnerInv
  <2>3. QED BY <2>1, <2>2
<1>9. \A u, v \in Workers : Owns(u)' /\ Owns(v)' /\ run'[u] = run'[v] => u = v
  BY <1>1, <1>3 DEF OwnerInv
<1>10. QED BY <1>6, <1>7, <1>8, <1>9 DEF OwnerInv

LEMMA OwnerReceive ==
  ASSUME Typed, OwnerInv, NEW w \in Workers, NEW m \in Messages, Receive(w, m)
  PROVE  OwnerInv'
<1>1. /\ pc[w] = "idle" /\ receives[m] < MaxReceives
      /\ receives' = [receives EXCEPT ![m] = @ + 1]
      /\ UNCHANGED performed
      /\ \/ UNCHANGED <<pc, msg, run>>
         \/ /\ pc' = [pc EXCEPT ![w] = "Fetch"]
            /\ msg' = [msg EXCEPT ![w] = m]
            /\ run' = [run EXCEPT ![w] = RunOf(m)]
  BY DEF Receive, Goto, delivery
<1>2. \A n \in Messages : /\ receives[n] \in Nat /\ receives'[n] \in Nat
                          /\ receives[n] <= receives'[n]
  BY <1>1, ConstantsAssumption DEF Typed, TypeOK
<1>3. receives'[m] = receives[m] + 1
  BY <1>1 DEF Typed, TypeOK
<1>4. \A r \in Runs : Start(r[1]) \in Messages /\ r[2] \in Nat
  BY DEF Messages, StartMessages, Runs
<1>5. \A r : Untouched(r)' <=> Untouched(r)
  BY <1>1 DEF Untouched
<1>6. \A r \in Runs : Untouched(r)' \/ r[2] <= receives'[Start(r[1])]
  BY <1>2, <1>4, <1>5 DEF OwnerInv
<1>7. \A v \in Workers : Owns(v) => /\ msg[v] = Start(run[v][1])
                                    /\ run[v][2] <= receives[msg[v]]
                                    /\ msg[v] \in Messages /\ run[v] \in Runs
  BY DEF OwnerInv, Owns, Typed, TypeOK
<1>8. \A v \in Workers : Owns(v) => run[v][2] <= receives'[msg[v]]
  BY <1>2, <1>4, <1>7
<1>9. CASE UNCHANGED <<pc, msg, run>>
  <2>1. \A v \in Workers : Owns(v)' <=> Owns(v)
    BY <1>9 DEF Owns
  <2>2. ASSUME NEW v \in Workers
        PROVE  /\ Owns(v)' => msg'[v] = Start(run'[v][1]) /\ run'[v][2] <= receives'[msg'[v]]
               /\ Owns(v)' /\ pc'[v] \in EarlySteps => Untouched(run[v])'
               /\ pc'[v] \in CondSteps => msg'[v] \in StartMessages /\ NumConditions > 0
    <3>1. Owns(v)' => msg'[v] = Start(run'[v][1]) /\ run'[v][2] <= receives'[msg'[v]]
      BY <1>7, <1>8, <1>9, <2>1
    <3>2. Owns(v)' /\ pc'[v] \in EarlySteps => Untouched(run[v])'
      BY <1>5, <1>9, <2>1 DEF OwnerInv
    <3>3. QED BY <1>9, <3>1, <3>2 DEF OwnerInv
  <2>3. \A u, v \in Workers : Owns(u)' /\ Owns(v)' /\ run'[u] = run'[v] => u = v
    BY <1>9, <2>1 DEF OwnerInv
  <2>4. QED BY <1>6, <2>2, <2>3 DEF OwnerInv
<1>10. CASE /\ pc' = [pc EXCEPT ![w] = "Fetch"]
            /\ msg' = [msg EXCEPT ![w] = m]
            /\ run' = [run EXCEPT ![w] = RunOf(m)]
  <2>1. /\ pc'[w] = "Fetch" /\ msg'[w] = m /\ run'[w] = RunOf(m)
        /\ \A v \in Workers \ {w} : /\ pc'[v] = pc[v] /\ msg'[v] = msg[v]
                                    /\ run'[v] = run[v]
    BY <1>10 DEF Typed, TypeOK
  <2>2. \A v \in Workers \ {w} : Owns(v)' <=> Owns(v)
    BY <2>1 DEF Owns
  <2>3. ASSUME m \in StartMessages
        PROVE  /\ RunOf(m) \in Runs
               /\ m = Start(RunOf(m)[1])
               /\ RunOf(m)[2] = receives[m] + 1
    <3>1. m = Start(m.signal)
      BY <2>3 DEF StartMessages, Start
    <3>2. RunOf(m) = <<m.signal, receives[m] + 1>>
      BY <2>3 DEF RunOf
    <3>3. QED BY <1>1, <3>1, <3>2, RunOfTyped
  <2>4. ASSUME m \in StartMessages
        PROVE  Untouched(RunOf(m))
    <3>1. Untouched(RunOf(m)) \/ receives[m] + 1 <= receives[m]
      BY <2>3, <2>4 DEF OwnerInv
    <3>2. QED BY <1>2, <3>1
  <2>5. ASSUME m \in StartMessages, NEW v \in Workers, Owns(v), run[v] = RunOf(m)
        PROVE  FALSE
    <3>1. receives[m] + 1 <= receives[m]
      BY <1>7, <2>3, <2>5
    <3>2. QED BY <1>2, <3>1
  <2>6. Owns(w)' => m \in StartMessages
    BY <2>1 DEF Owns
  <2>7. ASSUME NEW v \in Workers
        PROVE  /\ Owns(v)' => msg'[v] = Start(run'[v][1]) /\ run'[v][2] <= receives'[msg'[v]]
               /\ Owns(v)' /\ pc'[v] \in EarlySteps => Untouched(run[v])'
               /\ pc'[v] \in CondSteps => msg'[v] \in StartMessages /\ NumConditions > 0
    <3>1. CASE v # w
      <4>1. Owns(v)' => msg'[v] = Start(run'[v][1]) /\ run'[v][2] <= receives'[msg'[v]]
        BY <1>7, <1>8, <2>1, <2>2, <3>1
      <4>2. Owns(v)' /\ pc'[v] \in EarlySteps => Untouched(run[v])'
        BY <1>5, <2>1, <2>2, <3>1 DEF OwnerInv
      <4>3. pc'[v] \in CondSteps => msg'[v] \in StartMessages /\ NumConditions > 0
        BY <2>1, <3>1 DEF OwnerInv
      <4>4. QED BY <4>1, <4>2, <4>3
    <3>2. CASE v = w
      <4>1. pc'[v] \notin CondSteps
        BY <2>1, <3>2 DEF CondSteps
      <4>2. Owns(v)' => msg'[v] = Start(run'[v][1]) /\ run'[v][2] <= receives'[msg'[v]]
        BY <1>2, <1>3, <2>1, <2>3, <2>6, <3>2
      <4>3. Owns(v)' => Untouched(run[v])'
        BY <1>5, <2>1, <2>4, <2>6, <3>2 DEF Untouched
      <4>4. QED BY <4>1, <4>2, <4>3
    <3>3. QED BY <3>1, <3>2
  <2>8. ASSUME NEW u \in Workers, NEW v \in Workers, Owns(u)', Owns(v)', run'[u] = run'[v]
        PROVE  u = v
    <3>1. CASE u = w /\ v # w
      BY <2>1, <2>2, <2>5, <2>6, <2>8, <3>1
    <3>2. CASE v = w /\ u # w
      BY <2>1, <2>2, <2>5, <2>6, <2>8, <3>2
    <3>3. CASE u # w /\ v # w
      BY <2>1, <2>2, <2>8, <3>3 DEF OwnerInv
    <3>4. QED BY <3>1, <3>2, <3>3
  <2>9. QED BY <1>6, <2>7, <2>8 DEF OwnerInv
<1>11. QED BY <1>1, <1>9, <1>10

LEMMA OwnerStep ==
  ASSUME Typed, OrderInv, OwnerInv, [Next]_vars
  PROVE  OwnerInv'
<1>1. CASE Next
  <2>1. CASE \/ \E m \in Messages : BecomeVisible(m) \/ MoveToDeadLetters(m)
             \/ \E r \in Runs, i \in Delays : FireJob(r, i)
    <3>1. UNCHANGED <<receives, performed, pc, msg, run>>
      BY <2>1 DEF BecomeVisible, MoveToDeadLetters, FireJob, delivery
    <3>2. QED BY <3>1 DEF OwnerInv, Owns, Untouched
  <2>2. QED BY <1>1, <2>1, NextCases, OwnerWorker, OwnerExecute, OwnerReceive
<1>2. CASE UNCHANGED vars
  BY <1>2 DEF vars, OwnerInv, Owns, Untouched
<1>3. QED BY <1>1, <1>2

LEMMA OwnerInit ==
  ASSUME Init
  PROVE  OwnerInv
<1>1. \A r \in Runs : Untouched(r)
  BY DEF Init, Untouched
<1>2. \A w \in Workers : pc[w] = "idle"
  BY DEF Init
<1>3. QED BY <1>1, <1>2 DEF OwnerInv, Owns, EarlySteps, CondSteps

(***************************************************************************)
(* The faults that struck only grow, and a step that strikes one says so.  *)
(***************************************************************************)
LEMMA FaultStrikes ==
  ASSUME TypeOK, NEW f, Fails(f)
  PROVE  f \in Faults /\ Struck' = Struck \cup {f} /\ Len(faults') = Len(faults) + 1
<1>1. faults \in Seq(Faults) /\ f \in Faults
  BY ConstantsAssumption DEF TypeOK, FaultLogs, Fails
<1>2. faults' = Append(faults, f)
  BY DEF Fails
<1>3. /\ Len(faults) \in Nat /\ DOMAIN faults = 1 .. Len(faults)
      /\ DOMAIN faults' = 1 .. Len(faults) + 1
      /\ Len(faults') = Len(faults) + 1
      /\ faults'[Len(faults) + 1] = f
      /\ \A i \in 1 .. Len(faults) : faults'[i] = faults[i]
  BY <1>1, <1>2
<1>4. \A x \in Range(faults') : x \in Range(faults) \cup {f}
  <2> SUFFICES ASSUME NEW i \in DOMAIN faults'
               PROVE  faults'[i] \in Range(faults) \cup {f}
    BY DEF Range
  <2>1. i = Len(faults) + 1 \/ i \in 1 .. Len(faults)
    BY <1>3
  <2>2. QED BY <1>3, <2>1 DEF Range
<1>5. f \in Range(faults')
  <2>1. Len(faults) + 1 \in DOMAIN faults'
    BY <1>3
  <2>2. QED BY <1>3, <2>1 DEF Range
<1>6. \A x \in Range(faults) : x \in Range(faults')
  <2> SUFFICES ASSUME NEW i \in DOMAIN faults
               PROVE  faults[i] \in Range(faults')
    BY DEF Range
  <2>1. i \in DOMAIN faults' /\ faults'[i] = faults[i]
    BY <1>3
  <2>2. QED BY <2>1 DEF Range
<1>7. QED BY <1>1, <1>3, <1>4, <1>5, <1>6 DEF Struck

LEMMA NothingStrikes ==
  ASSUME Ok
  PROVE  Struck' = Struck /\ Len(faults') = Len(faults)
  BY DEF Ok, Struck

LEMMA FaultCount ==
  ASSUME TypeOK
  PROVE  Len(faults) \in Nat
  BY DEF TypeOK, FaultLogs

\* The faults a step may strike: one or none.
Struggles == Ok \/ \E f \in Faults : Fails(f)

LEMMA KindIsFault ==
  ASSUME NEW f, Fails(f)
  PROVE  f \in Faults
  BY ConstantsAssumption DEF Fails

LEMMA StepStruggles ==
  ASSUME Next
  PROVE  Struggles
<1>1. \A w \in Workers : Writes(w) => Struggles
  BY KindIsFault DEF Writes, SetCondition, StopRun, SetResumed, SetStarted, SetScheduled,
         SetCompleted, MarkFailed, MarkCompleted, TryUpdate, Update, Stored, NotStored, Struggles
<1>2. \A w \in Workers : Turns(w) => Struggles
  BY KindIsFault DEF Turns, Fetch, Evaluate, GetRun, LogStarted, LogScheduled, Failed, Crash, Ok, Struggles
<1>3. \A w \in Workers : CreateRun(w) \/ Execute(w) \/ Delete(w) => Struggles
  BY KindIsFault DEF CreateRun, Execute, ExecuteRegular, ExecuteDelay, Delete, Struggles
<1>4. \A w \in Workers, m \in Messages : Receive(w, m) => Struggles
  BY KindIsFault DEF Receive, Struggles
<1>5. \A m \in Messages : BecomeVisible(m) \/ MoveToDeadLetters(m) => Struggles
  BY KindIsFault DEF BecomeVisible, MoveToDeadLetters, Ok, Struggles
<1>6. \A r \in Runs, i \in Delays : FireJob(r, i) => Struggles
  BY KindIsFault DEF FireJob, Struggles
<1>7. QED BY <1>1, <1>2, <1>3, <1>4, <1>5, <1>6, NextCases

LEMMA FaultsGrow ==
  ASSUME TypeOK, [Next]_vars
  PROVE  Struck \subseteq Struck' /\ Len(faults) <= Len(faults')
<1>1. CASE Next
  BY <1>1, StepStruggles, FaultStrikes, NothingStrikes, FaultCount DEF Struggles
<1>2. CASE UNCHANGED vars
  BY <1>2, FaultCount DEF vars, Struck
<1>3. QED BY <1>1, <1>2

(***************************************************************************)
(* A step of a worker leaves the others alone, and its message and its run *)
(* as they are until it lets go of them.                                   *)
(***************************************************************************)
Works(w, r) == pc[w] # "idle" /\ run[w] = r

Alone(w) ==
  \A v \in Workers \ {w} : /\ pc'[v] = pc[v] /\ idx'[v] = idx[v] /\ mine'[v] = mine[v]
                           /\ msg'[v] = msg[v] /\ run'[v] = run[v]

Moves(w) == Writes(w) \/ Turns(w) \/ CreateRun(w) \/ Execute(w) \/ Delete(w)

LEMMA MovesAlone ==
  ASSUME Typed, NEW w \in Workers, Moves(w)
  PROVE  /\ Alone(w)
         /\ UNCHANGED <<receives, fired>>
         /\ pc[w] # "idle"
         /\ pc'[w] = "idle" \/ (msg'[w] = msg[w] /\ run'[w] = run[w])
<1>0. /\ pc \in [Workers -> Steps] /\ idx \in [Workers -> Nat]
      /\ msg \in [Workers -> Messages \cup {NoMessage}]
      /\ run \in [Workers -> Runs \cup {NoRun}]
      /\ mine \in [Workers -> Rows \cup {NoRow}]
  BY DEF Typed, TypeOK
<1>1. CASE Writes(w)
  <2>1. PICK new \in Rows, next \in AfterWrite, i \in Nat : WriteStep(w, new, next, i)
    BY <1>1, WritesAreWriteSteps
  <2>2. QED BY <1>0, <2>1 DEF WriteStep, Wrote, Alone, HasCopy, ActionSteps
<1>2. CASE Turns(w)
  <2>1. CASE Crash(w) \/ Failed(w)
    BY <1>0, <2>1 DEF Crash, Failed, Release, Goto, sqs, Alone
  <2>2. CASE GetRun(w)
    BY <1>0, <2>2 DEF GetRun, Goto, sqs, delivery, Alone
  <2>3. CASE Fetch(w) \/ Evaluate(w) \/ LogStarted(w) \/ LogScheduled(w)
    BY <1>0, <2>3 DEF Fetch, Evaluate, LogStarted, LogScheduled, Goto, sqs, delivery, Alone
  <2>4. QED BY <1>2, <2>1, <2>2, <2>3 DEF Turns
<1>3. CASE CreateRun(w)
  BY <1>0, <1>3 DEF CreateRun, StartWith, Goto, Take, sqs, delivery, Alone
<1>4. CASE Execute(w)
  BY <1>0, <1>4, ExecuteEffect DEF sqs, delivery, Alone
<1>5. CASE Delete(w)
  BY <1>0, <1>5 DEF Delete, Release, Goto, Alone
<1>6. QED BY <1>1, <1>2, <1>3, <1>4, <1>5 DEF Moves

\* What becomes of a write: the status of the new row, and where a write that
\* is not stored leads.
StatusWritten(w) ==
  IF pc[w] \in {"StopCompleted", "MarkCompleted"} THEN "COMPLETED"
  ELSE IF pc[w] \in {"StopFailed", "MarkFailed"} THEN "FAILED" ELSE mine[w].status

Guarded == {"SetStarted", "SetScheduled", "SetResumed", "MarkCompleted"}

LEMMA WriteOutcome ==
  ASSUME Typed, NEW w \in Workers, Writes(w)
  PROVE  \E new \in Rows :
           /\ new.status = StatusWritten(w)
           /\ IF pc[w] \in Guarded
              THEN \/ Stored(w, new) /\ pc'[w] \notin {"MarkFailed", "Failed"}
                   \/ NotStored(w, new, "Update") /\ pc'[w] \in {"MarkFailed", "Failed"}
              ELSE Stored(w, new) \/ NotStored(w, new, "IgnoredUpdate")
<1>0. pc[w] \in HasCopy /\ pc \in [Workers -> Steps]
  BY DEF Writes, SetCondition, StopRun, SetResumed, SetStarted, SetScheduled,
         SetCompleted, MarkFailed, MarkCompleted, HasCopy, ActionSteps, Typed, TypeOK
<1>1. run[w] \in Runs /\ mine[w].status \in Statuses /\ clock[run[w]] \in Nat
  BY <1>0 DEF Typed, TypeOK, WorkerInv, Rows, HasCopy, ActionSteps
<1>2. ASSUME NEW status \in Statuses, NEW state \in States, NEW new \in Stamped(w, status, state)
      PROVE  new \in Rows /\ new.status = status
  BY <1>1, <1>2, StampIsRow DEF Stamped
<1>3. "COMPLETED" \in Statuses /\ "FAILED" \in Statuses
  BY DEF Statuses, FinalStatuses
<1>4. CASE SetCondition(w)
  <2>1. idx[w] \in 1 .. NumConditions /\ pc[w] = "SetCondition"
    BY <1>4 DEF SetCondition, Typed, WorkerInv
  <2>2. PICK new \in Stamped(w, mine[w].status, <<"CONDITION", idx[w]>>) :
          Stored(w, new) \/ NotStored(w, new, "IgnoredUpdate")
    BY <1>4 DEF SetCondition, TryUpdate
  <2>3. <<"CONDITION", idx[w]>> \in States
    BY <2>1, StatesOfActions
  <2>4. QED BY <1>1, <1>2, <2>1, <2>2, <2>3 DEF StatusWritten, Guarded
<1>5. CASE StopRun(w)
  <2>1. PICK status \in {"COMPLETED", "FAILED"} :
          /\ status = StatusWritten(w)
          /\ TryUpdate(w, status, <<status, 0>>)
    BY <1>5 DEF StopRun, StatusWritten
  <2>2. PICK new \in Stamped(w, status, <<status, 0>>) :
          Stored(w, new) \/ NotStored(w, new, "IgnoredUpdate")
    BY <2>1 DEF TryUpdate
  <2>3. status \in Statuses /\ <<status, 0>> \in States
    BY <1>3, StatesOfActions
  <2>4. pc[w] \notin Guarded
    BY <1>5 DEF StopRun, Guarded
  <2>5. QED BY <1>2, <2>1, <2>2, <2>3, <2>4
<1>6. CASE SetResumed(w)
  <2>1. msg[w].resumeFrom \in Indices /\ ResumeAt(w) \in Nat /\ pc[w] = "SetResumed"
    <3>1. msg[w] \in ResumeMessages /\ pc[w] = "SetResumed"
      BY <1>6 DEF SetResumed, Typed, WorkerInv
    <3>2. msg[w].resumeFrom \in Indices
      BY <3>1, ResumeIndex
    <3>3. msg[w].resumeFrom \in Nat
      BY <3>2, IndexIsNat
    <3>4. QED BY <3>1, <3>2, <3>3 DEF ResumeAt
  <2>2. PICK new \in Stamped(w, mine[w].status, <<"COMPLETED", msg[w].resumeFrom>>) :
           \/ Stored(w, new) /\ Goto(w, StepAt(ResumeAt(w)))
           \/ NotStored(w, new, "Update") /\ Goto(w, "Failed")
    BY <1>6 DEF SetResumed
  <2>3. <<"COMPLETED", msg[w].resumeFrom>> \in States
    BY <2>1, StatesOfActions
  <2>4. new \in Rows /\ new.status = mine[w].status
    BY <1>1, <1>2, <2>2, <2>3
  <2>5. \/ Stored(w, new) /\ pc'[w] \notin {"MarkFailed", "Failed"}
        \/ NotStored(w, new, "Update") /\ pc'[w] \in {"MarkFailed", "Failed"}
    BY <1>0, <2>1, <2>2, StepAtTyped DEF Goto
  <2>6. QED BY <2>1, <2>4, <2>5 DEF StatusWritten, Guarded
<1>7. CASE SetStarted(w) \/ SetScheduled(w)
  <2>1. PICK state \in States :
           \/ pc[w] = "SetStarted" /\ Update(w, mine[w].status, state, "LogStarted", "MarkFailed")
           \/ pc[w] = "SetScheduled" /\ Update(w, mine[w].status, state, "LogScheduled", "MarkFailed")
    <3>1. idx[w] \in Indices
      BY <1>7 DEF SetStarted, SetScheduled, Typed, TypeOK
    <3>2. QED BY <1>7, <3>1, StatesOfActions DEF SetStarted, SetScheduled
  <2>2. PICK new \in Stamped(w, mine[w].status, state) :
           \/ Stored(w, new) /\ (Goto(w, "LogStarted") \/ Goto(w, "LogScheduled"))
           \/ NotStored(w, new, "Update") /\ Goto(w, "MarkFailed")
    BY <2>1 DEF Update
  <2>3. new \in Rows /\ new.status = mine[w].status
    BY <1>1, <1>2, <2>2
  <2>4. \/ Stored(w, new) /\ pc'[w] \notin {"MarkFailed", "Failed"}
        \/ NotStored(w, new, "Update") /\ pc'[w] \in {"MarkFailed", "Failed"}
    BY <1>0, <2>2 DEF Goto
  <2>5. QED BY <2>1, <2>3, <2>4 DEF StatusWritten, Guarded
<1>8. CASE SetCompleted(w)
  <2>1. idx[w] \in Indices /\ pc[w] = "SetCompleted"
    BY <1>8 DEF SetCompleted, Typed, TypeOK
  <2>2. PICK new \in Stamped(w, mine[w].status, <<"COMPLETED", idx[w]>>) :
          Stored(w, new) \/ NotStored(w, new, "IgnoredUpdate")
    BY <1>8 DEF SetCompleted, TryUpdate
  <2>3. <<"COMPLETED", idx[w]>> \in States
    BY <2>1, StatesOfActions
  <2>4. QED BY <1>1, <1>2, <2>1, <2>2, <2>3 DEF StatusWritten, Guarded
<1>9. CASE MarkFailed(w)
  <2>1. PICK new \in Stamped(w, "FAILED", <<"FAILED", 0>>) :
          Stored(w, new) \/ NotStored(w, new, "IgnoredUpdate")
    BY <1>9 DEF MarkFailed, TryUpdate
  <2>2. pc[w] = "MarkFailed" /\ <<"FAILED", 0>> \in States
    BY <1>3, <1>9, StatesOfActions DEF MarkFailed
  <2>3. QED BY <1>2, <1>3, <2>1, <2>2 DEF StatusWritten, Guarded
<1>10. CASE MarkCompleted(w)
  <2>1. pc[w] = "MarkCompleted" /\ <<"COMPLETED", 0>> \in States
    BY <1>3, <1>10, StatesOfActions DEF MarkCompleted
  <2>2. PICK new \in Stamped(w, "COMPLETED", <<"COMPLETED", 0>>) :
           \/ Stored(w, new) /\ Goto(w, "Delete")
           \/ NotStored(w, new, "Update") /\ Goto(w, "Failed")
    BY <1>10 DEF MarkCompleted, Update
  <2>3. new \in Rows /\ new.status = "COMPLETED"
    BY <1>2, <1>3, <2>1, <2>2
  <2>4. \/ Stored(w, new) /\ pc'[w] \notin {"MarkFailed", "Failed"}
        \/ NotStored(w, new, "Update") /\ pc'[w] \in {"MarkFailed", "Failed"}
    BY <1>0, <2>2 DEF Goto
  <2>5. QED BY <2>1, <2>3, <2>4 DEF StatusWritten, Guarded
<1>11. QED BY <1>4, <1>5, <1>6, <1>7, <1>8, <1>9, <1>10 DEF Writes

(***************************************************************************)
(* A run that a condition stopped.  While the delivery that made a run     *)
(* evaluates its conditions, its copy is the row; so the last write of it  *)
(* reaches the table, unless an update failed, and what it says stays, as  *)
(* nobody else works on the run.                                           *)
(***************************************************************************)
Begun(w) ==
  pc[w] \in CondSteps =>
    /\ row[run[w]] # NoRow
    /\ mine[w] = row[run[w]] \/ "IgnoredUpdate" \in Struck
    /\ pc[w] = "StopFailed" => "Evaluate" \in Struck

BegunInv == \A w \in Workers : Begun(w)

\* Who evaluates conditions is the only one who works on the run.
LEMMA BegunAlone ==
  ASSUME Typed, OrderInv, OwnerInv, NEW v \in Workers, pc[v] \in CondSteps,
         NEW w \in Workers, pc[w] # "idle", run[w] = run[v]
  PROVE  w = v
<1>1. Owns(v) /\ Untouched(run[v])
  BY DEF OwnerInv, Owns, EarlySteps, CondSteps
<1>2. Owns(w)
  BY <1>1, TouchedOrOwned
<1>3. QED BY <1>1, <1>2 DEF OwnerInv

LEMMA BegunFrame ==
  ASSUME NEW v, Begun(v), Struck \subseteq Struck',
         pc'[v] = pc[v], run'[v] = run[v], mine'[v] = mine[v],
         pc[v] \in CondSteps => row'[run[v]] = row[run[v]]
  PROVE  Begun(v)'
  BY DEF Begun

\* What a write at a condition leaves: the copy and the row agree.
LEMMA BegunWrite ==
  ASSUME Typed, NEW w \in Workers, Begun(w), Writes(w), pc[w] \in CondSteps
  PROVE  \E new \in Rows :
           /\ new.status = StatusWritten(w)
           /\ mine'[w] = new
           /\ \/ row'[run[w]] = new
              \/ row'[run[w]] # NoRow /\ "IgnoredUpdate" \in Struck'
<1>1. PICK new \in Rows :
        /\ new.status = StatusWritten(w)
        /\ Stored(w, new) \/ NotStored(w, new, "IgnoredUpdate")
  BY WriteOutcome DEF Guarded, CondSteps
<1>2. run[w] \in Runs /\ mine'[w] = new
  BY <1>1 DEF Stored, NotStored, Take, Typed, TypeOK, CondSteps
<1>3. CASE row' = [row EXCEPT ![run[w]] = new]
  BY <1>1, <1>2, <1>3 DEF Typed, TypeOK
<1>4. CASE row' # [row EXCEPT ![run[w]] = new]
  <2>1. row' = row /\ ((~LockHolds(w) /\ Ok) \/ Fails("IgnoredUpdate"))
    BY <1>1, <1>4 DEF Stored, NotStored
  <2>2. row[run[w]] # NoRow /\ (LockHolds(w) \/ "IgnoredUpdate" \in Struck)
    BY DEF Begun, LockHolds
  <2>3. "IgnoredUpdate" \in Struck'
    BY <2>1, <2>2, FaultStrikes, NothingStrikes DEF Typed
  <2>4. QED BY <1>1, <1>2, <2>1, <2>2, <2>3
<1>5. QED BY <1>3, <1>4

LEMMA BegunCreate ==
  ASSUME Typed, NEW w \in Workers, CreateRun(w), pc'[w] \in CondSteps
  PROVE  Begun(w)'
<1>1. run' = run /\ run[w] \in Runs /\ pc \in [Workers -> Steps]
  BY CreateMoves DEF Typed, TypeOK
<1>2. PICK new :
        /\ new = [status |-> "TRIGGERED", state |-> <<"TRIGGERED", 0>>, updatedAt |-> 1]
        /\ mine' = [mine EXCEPT ![w] = new]
        /\ row' = [row EXCEPT ![run[w]] = new] \/ Goto(w, "Failed")
  BY DEF CreateRun, Take
<1>3. row' = [row EXCEPT ![run[w]] = new]
  BY <1>1, <1>2 DEF Goto, CondSteps
<1>4. row'[run[w]] = new /\ mine'[w] = new
  BY <1>1, <1>2, <1>3 DEF Typed, TypeOK
<1>5. new # NoRow
  BY <1>2 DEF NoRow
<1>6. pc'[w] # "StopFailed"
  BY <1>1 DEF CreateRun, StartWith, Goto, StepAt
<1>7. QED BY <1>1, <1>4, <1>5, <1>6 DEF Begun

LEMMA BegunStep ==
  ASSUME Typed, OrderInv, OwnerInv, BegunInv, [Next]_vars
  PROVE  BegunInv'
<1>1. Struck \subseteq Struck'
  BY FaultsGrow DEF Typed
<1>2. ASSUME NEW w \in Workers, Writes(w)
      PROVE  BegunInv'
  <2>1. PICK new \in Rows, next \in AfterWrite, i \in Nat : WriteStep(w, new, next, i)
    BY <1>2, WritesAreWriteSteps
  <2>2. /\ Alone(w) /\ pc[w] # "idle" /\ run' = run
        /\ row' = row \/ row' = [row EXCEPT ![run[w]] = new]
    BY <1>2, <2>1, MovesAlone DEF Moves, WriteStep, Wrote
  <2>3. ASSUME NEW v \in Workers \ {w}
        PROVE  Begun(v)'
    <3>1. pc[v] \in CondSteps => run[v] # run[w] /\ run[v] \in Runs
      BY <2>2, BegunAlone DEF Typed, TypeOK, CondSteps
    <3>2. pc[v] \in CondSteps => row'[run[v]] = row[run[v]]
      BY <2>2, <3>1 DEF Typed, TypeOK
    <3>3. QED BY <1>1, <2>2, <3>2, BegunFrame DEF BegunInv, Alone
  <2>4. Begun(w)'
    <3> SUFFICES ASSUME pc'[w] \in CondSteps PROVE Begun(w)'
      BY DEF Begun
    <3>1. pc[w] = "SetCondition" /\ pc'[w] = "Evaluate"
      BY <1>2, WriteMoves, NextStepIsLate DEF CondSteps, EarlySteps
    <3>2. PICK mark \in Rows :
            /\ mine'[w] = mark
            /\ \/ row'[run[w]] = mark
               \/ row'[run[w]] # NoRow /\ "IgnoredUpdate" \in Struck'
      BY <1>2, <3>1, BegunWrite DEF BegunInv, CondSteps
    <3>3. QED BY <2>2, <3>1, <3>2, NoRowIsNoRow DEF Begun
  <2>5. QED BY <2>3, <2>4 DEF BegunInv
<1>3. ASSUME NEW w \in Workers, Evaluate(w)
      PROVE  BegunInv'
  <2>1. Alone(w) /\ row' = row
    BY <1>3, MovesAlone DEF Moves, Turns, Evaluate, table
  <2>2. \A v \in Workers \ {w} : Begun(v)'
    BY <1>1, <2>1, BegunFrame DEF BegunInv, Alone
  <2>3. pc[w] = "Evaluate" /\ UNCHANGED <<run, mine>> /\ pc \in [Workers -> Steps]
    BY <1>3 DEF Evaluate, delivery, Typed, TypeOK
  <2>4. pc'[w] = "StopFailed" => "Evaluate" \in Struck'
    BY <1>3, <2>3, FaultStrikes DEF Evaluate, Goto, StepAt, Typed
  <2>5. Begun(w)'
    BY <1>1, <2>1, <2>3, <2>4 DEF BegunInv, Begun, CondSteps
  <2>6. QED BY <2>2, <2>5 DEF BegunInv
<1>4. ASSUME NEW w \in Workers, CreateRun(w)
      PROVE  BegunInv'
  <2>1. Alone(w) /\ pc[w] # "idle"
    BY <1>4, MovesAlone DEF Moves
  <2>2. row' = row \/ \E new : row' = [row EXCEPT ![run[w]] = new]
    BY <1>4 DEF CreateRun
  <2>3. ASSUME NEW v \in Workers \ {w}
        PROVE  Begun(v)'
    <3>1. pc[v] \in CondSteps => run[v] # run[w] /\ run[v] \in Runs
      BY <2>1, BegunAlone DEF Typed, TypeOK, CondSteps
    <3>2. pc[v] \in CondSteps => row'[run[v]] = row[run[v]]
      BY <2>2, <3>1 DEF Typed, TypeOK
    <3>3. QED BY <1>1, <2>1, <3>2, BegunFrame DEF BegunInv, Alone
  <2>4. Begun(w)'
    BY <1>4, BegunCreate DEF Begun
  <2>5. QED BY <2>3, <2>4 DEF BegunInv
<1>5. ASSUME NEW w \in Workers, (Turns(w) /\ ~Evaluate(w)) \/ Execute(w) \/ Delete(w)
      PROVE  BegunInv'
  <2>1. Alone(w) /\ row' = row
    BY <1>5, MovesAlone
    DEF Moves, Turns, Fetch, GetRun, LogStarted, LogScheduled, Failed, Crash, Execute, Delete, table
  <2>2. \A v \in Workers \ {w} : Begun(v)'
    BY <1>1, <2>1, BegunFrame DEF BegunInv, Alone
  <2>3. pc'[w] \notin CondSteps
    <3>1. CASE Turns(w) /\ ~Evaluate(w)
      BY <3>1 DEF Turns, Fetch, GetRun, LogStarted, LogScheduled, Failed, Crash, Release, Goto,
                  CondSteps, Typed, TypeOK
    <3>2. CASE Execute(w)
      BY <3>2, ExecuteMoves DEF CondSteps
    <3>3. CASE Delete(w)
      BY <3>3 DEF Delete, Release, Goto, CondSteps, Typed, TypeOK
    <3>4. QED BY <1>5, <3>1, <3>2, <3>3
  <2>4. QED BY <2>2, <2>3 DEF BegunInv, Begun
<1>6. ASSUME NEW w \in Workers, NEW m \in Messages, Receive(w, m)
      PROVE  BegunInv'
  <2>1. UNCHANGED <<row, mine>>
    BY <1>6 DEF Receive, table
  <2>2. \A v \in Workers : \/ pc'[v] = pc[v] /\ run'[v] = run[v]
                           \/ pc'[v] = "Fetch"
    BY <1>6 DEF Receive, Goto, delivery, Typed, TypeOK
  <2>3. QED BY <1>1, <2>1, <2>2, BegunFrame DEF BegunInv, Begun, CondSteps
<1>7. ASSUME UNCHANGED <<row, pc, run, mine>>
      PROVE  BegunInv'
  BY <1>1, <1>7, BegunFrame DEF BegunInv
<1>8. CASE UNCHANGED vars
  BY <1>7, <1>8 DEF vars
<1>9. CASE Next
  <2>1. \A m \in Messages : BecomeVisible(m) \/ MoveToDeadLetters(m)
                              => UNCHANGED <<row, pc, run, mine>>
    BY DEF BecomeVisible, MoveToDeadLetters, table, delivery
  <2>2. \A r \in Runs, i \in Delays : FireJob(r, i) => UNCHANGED <<row, pc, run, mine>>
    BY DEF FireJob, table, delivery
  <2>3. QED BY <1>2, <1>3, <1>4, <1>5, <1>6, <1>7, <1>9, <2>1, <2>2, NextCases
<1>10. QED BY <1>8, <1>9

LEMMA BegunInit ==
  ASSUME Init
  PROVE  BegunInv
  BY DEF Init, BegunInv, Begun, CondSteps

\* What a delivery leaves when a condition stops its run.
LEMMA StopMarks ==
  ASSUME Typed, OwnerInv, BegunInv, NEW w \in Workers, Writes(w),
         pc[w] \in {"StopCompleted", "StopFailed"}, Struck \subseteq Struck'
  PROVE  StoppedByCondition(run[w])'
<1>1. NumConditions > 0 /\ Untouched(run[w])
  BY DEF OwnerInv, Owns, EarlySteps, CondSteps
<1>2. UNCHANGED <<performed, run>>
  BY WriteMoves
<1>3. PICK new \in Rows :
        /\ new.status = StatusWritten(w)
        /\ \/ row'[run[w]] = new
           \/ row'[run[w]] # NoRow /\ "IgnoredUpdate" \in Struck'
  BY BegunWrite DEF BegunInv, CondSteps
<1>4. pc[w] = "StopFailed" => "Evaluate" \in Struck'
  BY DEF BegunInv, Begun, CondSteps
<1>5. /\ row'[run[w]] # NoRow
      /\ \/ row'[run[w]].status = "COMPLETED"
         \/ row'[run[w]].status = "FAILED" /\ "Evaluate" \in Struck'
         \/ "IgnoredUpdate" \in Struck'
  BY <1>3, <1>4, NoRowIsNoRow DEF StatusWritten
<1>6. QED BY <1>1, <1>2, <1>5 DEF StoppedByCondition, Untouched

\* It stays so, when its delivery is over or has only the message to delete.
StopsStay ==
  \A r \in Runs :
    /\ StoppedByCondition(r)
    /\ \A w \in Workers : Owns(w) /\ run[w] = r => pc[w] = "Delete"
    => StoppedByCondition(r)'

LEMMA StopsStayStep ==
  ASSUME Typed, OrderInv, [Next]_vars
  PROVE  StopsStay
<1> SUFFICES ASSUME NEW r \in Runs, StoppedByCondition(r),
                    \A w \in Workers : Owns(w) /\ run[w] = r => pc[w] = "Delete"
             PROVE  StoppedByCondition(r)'
  BY DEF StopsStay
<1>1. \A w \in Workers : pc[w] # "idle" /\ run[w] = r => pc[w] = "Delete"
  BY TouchedOrOwned DEF StoppedByCondition, Untouched
<1>2. Struck \subseteq Struck'
  BY FaultsGrow DEF Typed
<1>3. ASSUME row'[r] = row[r], performed'[r] = performed[r]
      PROVE  StoppedByCondition(r)'
  BY <1>2, <1>3 DEF StoppedByCondition
<1>4. ASSUME NEW w \in Workers, Writes(w)
      PROVE  StoppedByCondition(r)'
  <2>1. PICK new \in Rows, next \in AfterWrite, i \in Nat : WriteStep(w, new, next, i)
    BY <1>4, WritesAreWriteSteps
  <2>2. run[w] # r
    BY <1>1, <2>1 DEF WriteStep, HasCopy, ActionSteps
  <2>3. row'[r] = row[r] /\ performed' = performed
    BY <2>1, <2>2 DEF WriteStep, Wrote, Typed, TypeOK
  <2>4. QED BY <1>3, <2>3
<1>5. ASSUME NEW w \in Workers, CreateRun(w)
      PROVE  StoppedByCondition(r)'
  <2>1. run[w] # r /\ performed' = performed
    BY <1>1, <1>5, CreateMoves
  <2>2. row' = row \/ \E new : row' = [row EXCEPT ![run[w]] = new]
    BY <1>5 DEF CreateRun
  <2>3. row'[r] = row[r]
    BY <2>1, <2>2 DEF Typed, TypeOK
  <2>4. QED BY <1>3, <2>1, <2>3
<1>6. ASSUME NEW w \in Workers, Execute(w)
      PROVE  StoppedByCondition(r)'
  <2>1. run[w] # r /\ row' = row
    BY <1>1, <1>6 DEF Execute, table
  <2>2. performed'[r] = performed[r]
    BY <1>6, <2>1, ExecuteMoves
  <2>3. QED BY <1>3, <2>1, <2>2
<1>7. CASE \/ \E w \in Workers : Turns(w) \/ Delete(w)
           \/ \E w \in Workers, m \in Messages : Receive(w, m)
           \/ \E m \in Messages : BecomeVisible(m) \/ MoveToDeadLetters(m)
           \/ \E q \in Runs, i \in Delays : FireJob(q, i)
           \/ UNCHANGED vars
  <2>1. UNCHANGED <<row, performed>>
    BY <1>7 DEF Turns, Fetch, Evaluate, GetRun, LogStarted, LogScheduled, Failed, Crash,
                Delete, Receive, BecomeVisible, MoveToDeadLetters, FireJob, table, vars
  <2>2. QED BY <1>3, <2>1
<1>8. QED BY <1>4, <1>5, <1>6, <1>7, NextCases

(***************************************************************************)
(* What a delivery has behind it at each step, from the action that its    *)
(* message begins with.                                                    *)
(***************************************************************************)
First(m) == IF m \in StartMessages THEN 1 ELSE m.resumeFrom + 1

DoneBetween(r, b, i) ==
  /\ b <= i
  /\ \A j \in Indices : b <= j /\ j < i => performed[r][j] > 0 /\ j \notin Delays

\* A delivery of m that worked on r has done its work.
DidWork(r, m) ==
  \/ DoneFrom(r, First(m))
  \/ m \in StartMessages /\ StoppedByCondition(r)

WorkerProgress(w) ==
  /\ pc[w] \in ActionSteps \cup {"MarkCompleted"} =>
       DoneBetween(run[w], First(msg[w]), idx[w])
  /\ pc[w] = "MarkCompleted" => \A j \in Indices : j < idx[w]
  /\ pc[w] \in {"SetScheduled", "LogScheduled"} =>
       idx[w] \in Delays /\ performed[run[w]][idx[w]] > 0
  /\ pc[w] = "Delete" => DidWork(run[w], msg[w])

\* The run that a deleted start message leaves behind; on one that a condition
\* stopped there is nobody left who would work.
LeftBehind(m) ==
  \E r \in Runs :
    /\ r[1] = m.signal
    /\ \/ DoneFrom(r, 1)
       \/ /\ StoppedByCondition(r)
          /\ r[2] <= receives[m]
          /\ \A w \in Workers : Owns(w) => run[w] # r

HandledInv ==
  /\ \A w \in Workers : WorkerProgress(w)
  /\ \A m \in Messages : queue[m] = "deleted" =>
       IF m \in StartMessages THEN LeftBehind(m)
       ELSE DoneFrom(m.run, m.resumeFrom + 1)

LEMMA StepAtEnd ==
  ASSUME NEW i \in Nat \ {0}, StepAt(i) = "MarkCompleted"
  PROVE  \A j \in Indices : j < i
<1>1. i \notin 1 .. Len(Actions)
  BY DEF StepAt, Indices
<1>2. QED BY <1>1, LengthIsNat DEF Indices

\* A worker that turns to the action its message begins with has nothing to show.
LEMMA NothingBetween ==
  ASSUME NEW r, NEW i \in Nat
  PROVE  DoneBetween(r, i, i)
  BY IndexIsNat DEF DoneBetween

LEMMA FirstIsNat ==
  ASSUME NEW m \in Messages
  PROVE  First(m) \in Nat \ {0}
<1>1. CASE m \in StartMessages
  BY <1>1 DEF First
<1>2. CASE m \notin StartMessages
  <2>1. m.resumeFrom \in Nat
    BY <1>2, ResumeIndex, IndexIsNat DEF Messages
  <2>2. QED BY <1>2, <2>1 DEF First
<1>3. QED BY <1>1, <1>2

\* No step takes an effect back.
EffectsKept ==
  \A r \in Runs, i \in Indices : performed[r][i] > 0 => performed'[r][i] > 0

\* Progress of a worker whose variables stay as they are.
LEMMA ProgressStays ==
  ASSUME Typed, OwnerInv, StopsStay, EffectsKept, NEW v \in Workers, WorkerProgress(v),
         pc'[v] = pc[v], msg'[v] = msg[v], run'[v] = run[v], idx'[v] = idx[v]
  PROVE  WorkerProgress(v)'
<1>1. pc[v] # "idle" => run[v] \in Runs
  BY DEF Typed, TypeOK
<1>2. ASSUME pc[v] \in ActionSteps \cup {"MarkCompleted"}
      PROVE  DoneBetween(run[v], First(msg[v]), idx[v])'
  <2>1. run[v] \in Runs /\ DoneBetween(run[v], First(msg[v]), idx[v])
    BY <1>1, <1>2 DEF WorkerProgress, ActionSteps
  <2>2. QED BY <2>1 DEF DoneBetween, First, EffectsKept
<1>3. ASSUME pc[v] \in {"SetScheduled", "LogScheduled"}
      PROVE  idx'[v] \in Delays /\ performed'[run'[v]][idx'[v]] > 0
  <2>1. idx[v] \in Delays /\ performed[run[v]][idx[v]] > 0 /\ run[v] \in Runs
    BY <1>1, <1>3 DEF WorkerProgress
  <2>2. QED BY <2>1, DelayIsIndex DEF EffectsKept
<1>4. ASSUME pc[v] = "Delete"
      PROVE  DidWork(run[v], msg[v])'
  <2>1. PICK r \in Runs : r = run[v]
    BY <1>1, <1>4
  <2>2. DidWork(r, msg[v])
    BY <1>4, <2>1 DEF WorkerProgress
  <2>3. CASE DoneFrom(r, First(msg[v]))
    BY <2>1, <2>3 DEF DidWork, DoneFrom, First, EffectsKept
  <2>4. CASE msg[v] \in StartMessages /\ StoppedByCondition(r)
    <3>1. Owns(v) /\ run[v] = r
      BY <1>4, <2>1, <2>4 DEF Owns
    <3>2. \A w \in Workers : Owns(w) /\ run[w] = r => w = v
      BY <3>1 DEF OwnerInv
    <3>3. StoppedByCondition(r)'
      BY <1>4, <2>4, <3>2 DEF StopsStay
    <3>4. StoppedByCondition(run[v])'
      BY <2>1, <3>3 DEF StoppedByCondition
    <3>5. QED BY <2>4, <3>4 DEF DidWork
  <2>5. QED BY <2>2, <2>3, <2>4 DEF DidWork
<1>5. QED BY <1>2, <1>3, <1>4 DEF WorkerProgress

\* A step after which more was received, and nobody new owns a run that a
\* deleted message left behind.
LEMMA DeletedStays ==
  ASSUME Typed, HandledInv, StopsStay, EffectsKept,
         NEW m \in Messages, queue[m] = "deleted",
         receives[m] \in Nat, receives'[m] \in Nat, receives[m] <= receives'[m],
         \A v \in Workers, r \in Runs :
           Owns(v)' /\ run'[v] = r /\ m \in StartMessages /\ r[1] = m.signal
             /\ r[2] <= receives[m] => Owns(v) /\ run[v] = r
  PROVE  IF m \in StartMessages THEN LeftBehind(m)' ELSE DoneFrom(m.run, m.resumeFrom + 1)'
<1>1. CASE m \in StartMessages
  <2>1. PICK r \in Runs :
          /\ r[1] = m.signal
          /\ \/ DoneFrom(r, 1)
             \/ /\ StoppedByCondition(r)
                /\ r[2] <= receives[m]
                /\ \A v \in Workers : Owns(v) => run[v] # r
    BY <1>1 DEF HandledInv, LeftBehind
  <2>2. CASE DoneFrom(r, 1)
    <3>1. DoneFrom(r, 1)'
      BY <2>2 DEF DoneFrom, EffectsKept
    <3>2. QED BY <1>1, <2>1, <3>1 DEF LeftBehind
  <2>3. CASE /\ StoppedByCondition(r)
             /\ r[2] <= receives[m]
             /\ \A v \in Workers : Owns(v) => run[v] # r
    <3>1. StoppedByCondition(r)'
      BY <2>3 DEF StopsStay
    <3>2. r[2] \in Nat
      BY DEF Runs
    <3>3. r[2] <= receives'[m]
      BY <2>3, <3>2
    <3>4. \A v \in Workers : Owns(v)' => run'[v] # r
      BY <1>1, <2>1, <2>3
    <3>5. QED BY <1>1, <2>1, <3>1, <3>3, <3>4 DEF LeftBehind
  <2>4. QED BY <2>1, <2>2, <2>3
<1>2. CASE m \notin StartMessages
  <2>1. m.run \in Runs /\ DoneFrom(m.run, m.resumeFrom + 1)
    BY <1>2, ResumeIndex DEF HandledInv, Messages
  <2>2. QED BY <1>2, <2>1 DEF DoneFrom, EffectsKept
<1>3. QED BY <1>1, <1>2

\* A step of one worker that leaves the queue alone.
LEMMA HandledFrame ==
  ASSUME Typed, OwnerInv, HandledInv, StopsStay, EffectsKept, NEW w \in Workers,
         UNCHANGED <<queue, receives>>,
         \A v \in Workers \ {w} : /\ pc'[v] = pc[v] /\ idx'[v] = idx[v]
                                  /\ msg'[v] = msg[v] /\ run'[v] = run[v],
         \/ pc'[w] = "idle"
         \/ pc[w] # "idle" /\ msg'[w] = msg[w] /\ run'[w] = run[w],
         WorkerProgress(w)'
  PROVE  HandledInv'
<1>1. \A v \in Workers : Owns(v)' => Owns(v) /\ run'[v] = run[v]
  BY DEF Owns
<1>2. ASSUME NEW v \in Workers
      PROVE  WorkerProgress(v)'
  <2>1. CASE v = w
    BY <2>1
  <2>2. CASE v # w
    BY <2>2, ProgressStays DEF HandledInv
  <2>3. QED BY <2>1, <2>2
<1>3. ASSUME NEW m \in Messages, queue'[m] = "deleted"
      PROVE  IF m \in StartMessages THEN LeftBehind(m)' ELSE DoneFrom(m.run, m.resumeFrom + 1)'
  <2>1. receives[m] \in Nat /\ receives'[m] = receives[m]
    BY ConstantsAssumption DEF Typed, TypeOK
  <2>2. QED BY <1>1, <1>3, <2>1, DeletedStays
<1>4. QED BY <1>2, <1>3 DEF HandledInv

LEMMA HandledWrite ==
  ASSUME Typed, OrderInv, OwnerInv, BegunInv, HandledInv, StopsStay,
         Struck \subseteq Struck', NEW w \in Workers, Writes(w)
  PROVE  HandledInv'
<1>1. /\ \A v \in Workers \ {w} : pc'[v] = pc[v] /\ idx'[v] = idx[v]
      /\ UNCHANGED <<queue, receives, performed, msg, run>>
  BY WriteMoves
<1>2. WorkerProgress(w) /\ pc[w] # "idle" /\ idx[w] \in Nat
  <2>1. pc[w] # "idle"
    BY WriteMoves
  <2>2. QED BY <2>1 DEF HandledInv, Typed, TypeOK
<1>3. msg[w] \in Messages /\ run[w] \in Runs
  BY <1>2 DEF Typed, TypeOK
<1>4. \A b, i : DoneBetween(run[w], b, i) => DoneBetween(run[w], b, i)'
  BY <1>1 DEF DoneBetween
<1>5. ASSUME pc'[w] \in {"Evaluate", "Failed", "MarkFailed"}
      PROVE  WorkerProgress(w)'
  BY <1>5 DEF WorkerProgress, ActionSteps
<1>6. ASSUME pc[w] \in {"StopCompleted", "StopFailed"} /\ pc'[w] = "Delete"
      PROVE  WorkerProgress(w)'
  <2>1. msg[w] \in StartMessages
    BY <1>6 DEF OwnerInv, CondSteps
  <2>2. StoppedByCondition(run[w])'
    BY <1>6, StopMarks
  <2>3. DidWork(run[w], msg[w])'
    BY <1>1, <2>1, <2>2 DEF DidWork
  <2>4. QED BY <1>6, <2>3 DEF WorkerProgress, ActionSteps
<1>7. ASSUME /\ pc[w] = "SetResumed"
             /\ pc'[w] = StepAt(ResumeAt(w)) /\ idx'[w] = ResumeAt(w)
      PROVE  WorkerProgress(w)'
  <2>1. msg[w] \in ResumeMessages
    BY <1>7 DEF Typed, WorkerInv
  <2>2. First(msg[w]) = ResumeAt(w) /\ ResumeAt(w) \in Nat \ {0}
    BY <1>3, <2>1, ResumeIndex, FirstIsNat DEF First, ResumeAt
  <2>3. DoneBetween(run[w], First(msg[w]), idx[w])'
    <3>1. DoneBetween(run[w], ResumeAt(w), ResumeAt(w))
      BY <2>2, NothingBetween
    <3>2. First(msg[w])' = ResumeAt(w) /\ idx'[w] = ResumeAt(w) /\ run'[w] = run[w]
      BY <1>1, <1>7, <2>2 DEF First
    <3>3. QED BY <1>1, <3>1, <3>2 DEF DoneBetween
  <2>4. pc'[w] = "MarkCompleted" => \A j \in Indices : j < idx'[w]
    BY <1>7, <2>2, StepAtEnd
  <2>5. pc'[w] \in {"SetStarted", "MarkCompleted"}
    BY <1>7 DEF StepAt
  <2>6. QED BY <2>3, <2>4, <2>5 DEF WorkerProgress
<1>8. ASSUME /\ pc[w] \in {"SetStarted", "SetScheduled"}
             /\ pc'[w] \in {"LogStarted", "LogScheduled"} /\ idx'[w] = idx[w]
             /\ pc[w] = "SetStarted" => pc'[w] = "LogStarted"
      PROVE  WorkerProgress(w)'
  <2>1. DoneBetween(run[w], First(msg[w]), idx[w])
    BY <1>2, <1>8 DEF WorkerProgress, ActionSteps
  <2>2. DoneBetween(run[w], First(msg[w]), idx[w])'
    BY <1>1, <1>8, <2>1 DEF DoneBetween, First
  <2>3. pc'[w] = "LogScheduled" => idx'[w] \in Delays /\ performed'[run'[w]][idx'[w]] > 0
    BY <1>1, <1>2, <1>8 DEF WorkerProgress
  <2>4. QED BY <1>8, <2>2, <2>3 DEF WorkerProgress
<1>9. ASSUME /\ pc[w] = "SetCompleted"
             /\ pc'[w] = StepAt(idx[w] + 1) /\ idx'[w] = idx[w] + 1
      PROVE  WorkerProgress(w)'
  <2>1. DoneBetween(run[w], First(msg[w]), idx[w])
    BY <1>2, <1>9 DEF WorkerProgress, ActionSteps
  <2>2. performed[run[w]][idx[w]] > 0 /\ idx[w] \notin Delays
    BY <1>9 DEF OrderInv
  <2>3. \A j \in Indices : j < idx[w] + 1 => j < idx[w] \/ j = idx[w]
    BY <1>2, IndexIsNat
  <2>4. First(msg[w]) <= idx[w] + 1
    BY <1>2, <1>3, <2>1, FirstIsNat DEF DoneBetween
  <2>5. DoneBetween(run[w], First(msg[w]), idx[w] + 1)
    BY <2>1, <2>2, <2>3, <2>4 DEF DoneBetween
  <2>6. DoneBetween(run[w], First(msg[w]), idx[w])'
    BY <1>1, <1>9, <2>5 DEF DoneBetween, First
  <2>7. idx[w] + 1 \in Nat \ {0}
    BY <1>2
  <2>8. pc'[w] = "MarkCompleted" => \A j \in Indices : j < idx'[w]
    BY <1>9, <2>7, StepAtEnd
  <2>9. pc'[w] \in {"SetStarted", "MarkCompleted"}
    BY <1>9 DEF StepAt
  <2>10. QED BY <2>6, <2>8, <2>9 DEF WorkerProgress
<1>10. ASSUME pc[w] = "MarkCompleted" /\ pc'[w] = "Delete"
       PROVE  WorkerProgress(w)'
  <2>1. /\ DoneBetween(run[w], First(msg[w]), idx[w])
        /\ \A j \in Indices : j < idx[w]
    BY <1>2, <1>10 DEF WorkerProgress
  <2>2. DoneFrom(run[w], First(msg[w]))
    BY <2>1 DEF DoneFrom, DoneBetween
  <2>3. DidWork(run[w], msg[w])'
    BY <1>1, <2>2 DEF DidWork, DoneFrom, First
  <2>4. QED BY <1>10, <2>3 DEF WorkerProgress, ActionSteps
<1>11. WorkerProgress(w)'
  BY <1>5, <1>6, <1>7, <1>8, <1>9, <1>10, WriteMoves
<1>12. QED BY <1>1, <1>2, <1>11, HandledFrame DEF EffectsKept

LEMMA HandledTurn ==
  ASSUME Typed, OwnerInv, HandledInv, StopsStay, NEW w \in Workers, Turns(w)
  PROVE  HandledInv'
<1>1. /\ \A v \in Workers \ {w} : /\ pc'[v] = pc[v] /\ idx'[v] = idx[v]
                                  /\ msg'[v] = msg[v] /\ run'[v] = run[v]
      /\ UNCHANGED <<queue, receives, performed>>
      /\ pc'[w] = "idle" \/ (pc[w] # "idle" /\ msg'[w] = msg[w] /\ run'[w] = run[w])
  BY TurnMoves
<1>2. WorkerProgress(w)
  BY DEF HandledInv
<1>3. ASSUME pc'[w] \in {"idle", "CreateRun", "GetRun", "Failed", "SetResumed", "MarkFailed"} \cup CondSteps
      PROVE  WorkerProgress(w)'
  BY <1>3 DEF WorkerProgress, ActionSteps, CondSteps
<1>4. ASSUME /\ pc[w] = "Evaluate" /\ msg'[w] = msg[w] /\ run'[w] = run[w]
             /\ pc'[w] = StepAt(1) /\ idx'[w] = 1
      PROVE  WorkerProgress(w)'
  <2>1. First(msg[w])' = 1
    BY <1>4 DEF OwnerInv, CondSteps, First
  <2>2. DoneBetween(run[w], First(msg[w]), idx[w])'
    <3>1. DoneBetween(run[w], 1, 1)
      BY NothingBetween
    <3>2. QED BY <1>1, <1>4, <2>1, <3>1 DEF DoneBetween
  <2>3. pc'[w] = "MarkCompleted" => \A j \in Indices : j < idx'[w]
    BY <1>4, StepAtEnd
  <2>4. pc'[w] \in {"SetStarted", "MarkCompleted"}
    BY <1>4 DEF StepAt
  <2>5. QED BY <2>2, <2>3, <2>4 DEF WorkerProgress
<1>5. ASSUME /\ pc[w] = "LogStarted" /\ pc'[w] = "Execute" /\ idx'[w] = idx[w]
             /\ msg'[w] = msg[w] /\ run'[w] = run[w]
      PROVE  WorkerProgress(w)'
  <2>1. DoneBetween(run[w], First(msg[w]), idx[w])
    BY <1>2, <1>5 DEF WorkerProgress, ActionSteps
  <2>2. DoneBetween(run[w], First(msg[w]), idx[w])'
    BY <1>1, <1>5, <2>1 DEF DoneBetween, First
  <2>3. QED BY <1>5, <2>2 DEF WorkerProgress
<1>6. ASSUME /\ pc[w] = "LogScheduled" /\ pc'[w] = "Delete"
             /\ msg'[w] = msg[w] /\ run'[w] = run[w]
      PROVE  WorkerProgress(w)'
  <2>1. /\ DoneBetween(run[w], First(msg[w]), idx[w])
        /\ idx[w] \in Delays /\ performed[run[w]][idx[w]] > 0
    BY <1>2, <1>6 DEF WorkerProgress, ActionSteps
  <2>2. First(msg[w]) \in Nat /\ idx[w] \in Nat
    BY <1>6, FirstIsNat DEF Typed, TypeOK
  <2>3. ASSUME NEW j \in Indices, j >= First(msg[w]), Delays \cap (First(msg[w]) .. j - 1) = {}
        PROVE  performed[run[w]][j] > 0
    <3>1. j \in Nat
      BY IndexIsNat
    <3>2. CASE j < idx[w]
      BY <2>1, <2>2, <2>3, <3>1, <3>2 DEF DoneBetween
    <3>3. CASE j = idx[w]
      BY <2>1, <3>3
    <3>4. CASE j > idx[w]
      <4>1. idx[w] \in First(msg[w]) .. j - 1
        BY <2>1, <2>2, <3>1, <3>4 DEF DoneBetween
      <4>2. QED BY <2>1, <2>3, <4>1
    <3>5. QED BY <2>2, <3>1, <3>2, <3>3, <3>4
  <2>4. DoneFrom(run[w], First(msg[w]))
    BY <2>3 DEF DoneFrom
  <2>5. DidWork(run[w], msg[w])'
    BY <1>1, <1>6, <2>4 DEF DidWork, DoneFrom, First
  <2>6. QED BY <1>6, <2>5 DEF WorkerProgress, ActionSteps
<1>7. WorkerProgress(w)'
  BY <1>3, <1>4, <1>5, <1>6, TurnMoves
<1>8. QED BY <1>1, <1>7, HandledFrame DEF EffectsKept

LEMMA HandledCreate ==
  ASSUME Typed, OwnerInv, HandledInv, StopsStay, NEW w \in Workers, CreateRun(w)
  PROVE  HandledInv'
<1>1. /\ pc[w] = "CreateRun" /\ msg[w] \in StartMessages
      /\ UNCHANGED <<queue, receives, performed, msg, run>>
      /\ \A v \in Workers \ {w} : pc'[v] = pc[v] /\ idx'[v] = idx[v]
      /\ idx'[w] = 1
      /\ pc'[w] = StepAt(1) \/ pc'[w] \in {"SetCondition", "Failed"}
  BY CreateMoves
<1>2. CASE pc'[w] \in {"SetCondition", "Failed"}
  <2>1. WorkerProgress(w)'
    BY <1>2 DEF WorkerProgress, ActionSteps
  <2>2. QED BY <1>1, <2>1, HandledFrame DEF EffectsKept
<1>3. CASE pc'[w] = StepAt(1)
  <2>1. DoneBetween(run[w], 1, 1)
    BY NothingBetween
  <2>2. DoneBetween(run[w], First(msg[w]), idx[w])'
    BY <1>1, <2>1 DEF DoneBetween, First
  <2>3. pc'[w] = "MarkCompleted" => \A j \in Indices : j < idx'[w]
    BY <1>1, <1>3, StepAtEnd
  <2>4. pc'[w] \in {"SetStarted", "MarkCompleted"}
    BY <1>3 DEF StepAt
  <2>5. WorkerProgress(w)'
    BY <2>2, <2>3, <2>4 DEF WorkerProgress
  <2>6. QED BY <1>1, <2>5, HandledFrame DEF EffectsKept
<1>4. QED BY <1>1, <1>2, <1>3

\* Workflows whose delays are all jobs of the scheduler: a short delay ends a
\* delivery for good (RunContinues fails, and DeletedWasHandled with it).
NoShortDelays == \A i \in Indices : Actions[i] # "short"

LEMMA HandledExecute ==
  ASSUME Typed, OwnerInv, HandledInv, StopsStay, NoShortDelays,
         NEW w \in Workers, Execute(w)
  PROVE  HandledInv'
<1>1. /\ pc[w] = "Execute" /\ run[w] \in Runs /\ idx[w] \in Indices
      /\ UNCHANGED <<queue, receives, msg, run, idx>>
      /\ \A v \in Workers \ {w} : pc'[v] = pc[v]
      /\ pc'[w] \in {"SetCompleted", "SetScheduled", "MarkFailed"}
      /\ EffectsKept
      /\ pc'[w] \in {"SetCompleted", "SetScheduled"} => performed'[run[w]][idx[w]] > 0
  BY ExecuteMoves DEF EffectsKept
<1>2. pc'[w] = "SetScheduled" => idx[w] \in Delays
  <2>1. pc \in [Workers -> Steps]
    BY DEF Typed, TypeOK
  <2>2. pc'[w] = "SetScheduled" => Actions[idx[w]] \in {"delay", "short"}
    BY <2>1 DEF Execute, ExecuteRegular, ExecuteDelay, Goto
  <2>3. QED BY <1>1, <2>2 DEF NoShortDelays, Delays
<1>3. DoneBetween(run[w], First(msg[w]), idx[w])
  BY <1>1 DEF HandledInv, WorkerProgress, ActionSteps
<1>4. DoneBetween(run[w], First(msg[w]), idx[w])'
  BY <1>1, <1>3 DEF DoneBetween, First, EffectsKept
<1>5. WorkerProgress(w)'
  BY <1>1, <1>2, <1>4 DEF WorkerProgress
<1>6. QED BY <1>1, <1>5, HandledFrame

LEMMA HandledDelete ==
  ASSUME Typed, OwnerInv, HandledInv, StopsStay, NEW w \in Workers, Delete(w)
  PROVE  HandledInv'
<1>1. /\ pc[w] = "Delete"
      /\ queue' = queue \/ \E q : queue' = [queue EXCEPT ![msg[w]] = q]
      /\ UNCHANGED <<receives, performed>>
      /\ EffectsKept
      /\ Release(w)
  BY DEF Delete, EffectsKept
<1>2. msg[w] \in Messages /\ run[w] \in Runs
  BY <1>1 DEF Typed, TypeOK
<1>3. \A m \in Messages \ {msg[w]} : queue'[m] = queue[m]
  BY <1>1 DEF Typed, TypeOK
<1>4. /\ pc'[w] = "idle"
      /\ \A v \in Workers \ {w} : /\ pc'[v] = pc[v] /\ idx'[v] = idx[v]
                                  /\ msg'[v] = msg[v] /\ run'[v] = run[v]
  BY <1>1 DEF Release, Goto, Typed, TypeOK
<1>5. ASSUME NEW v \in Workers
      PROVE  WorkerProgress(v)'
  <2>1. CASE v = w
    BY <1>4, <2>1 DEF WorkerProgress, ActionSteps
  <2>2. CASE v # w
    BY <1>1, <1>4, <2>2, ProgressStays DEF HandledInv
  <2>3. QED BY <2>1, <2>2
<1>6. \A v \in Workers : Owns(v)' => v # w /\ Owns(v) /\ run'[v] = run[v]
  BY <1>4 DEF Owns
<1>7. ASSUME NEW m \in Messages, queue[m] = "deleted"
      PROVE  IF m \in StartMessages THEN LeftBehind(m)' ELSE DoneFrom(m.run, m.resumeFrom + 1)'
  <2>1. receives[m] \in Nat /\ receives'[m] = receives[m]
    BY <1>1, ConstantsAssumption DEF Typed, TypeOK
  <2>2. QED BY <1>1, <1>6, <1>7, <2>1, DeletedStays
<1>8. DidWork(run[w], msg[w])
  BY <1>1 DEF HandledInv, WorkerProgress
<1>9. CASE msg[w] \in StartMessages
  <2>1. PICK r \in Runs, m \in Messages : r = run[w] /\ m = msg[w]
    BY <1>2
  <2>2. m = Start(r[1]) /\ r[2] <= receives[m]
    BY <1>1, <1>9, <2>1 DEF OwnerInv, Owns
  <2>3. \A v \in Workers : Owns(v)' => run'[v] # r
    BY <1>1, <1>6, <1>9, <2>1 DEF OwnerInv, Owns
  <2>4. r[1] = m.signal
    BY <2>2 DEF Start
  <2>5. DoneFrom(r, 1) \/ StoppedByCondition(r)
    BY <1>8, <1>9, <2>1 DEF DidWork, First
  <2>6. \A v \in Workers : Owns(v) /\ run[v] = r => pc[v] = "Delete"
    BY <1>1, <1>9, <2>1 DEF OwnerInv, Owns
  <2>7. DoneFrom(r, 1)' \/ StoppedByCondition(r)'
    BY <1>1, <2>5, <2>6 DEF DoneFrom, StopsStay
  <2>8. LeftBehind(m)'
    BY <1>1, <2>2, <2>3, <2>4, <2>7 DEF LeftBehind
  <2>9. m \in StartMessages /\ \A n \in Messages \ {m} : queue'[n] = queue[n]
    BY <1>3, <1>9, <2>1
  <2>10. QED BY <1>5, <1>7, <2>8, <2>9 DEF HandledInv
<1>10. CASE msg[w] \notin StartMessages
  <2>1. msg[w] \in ResumeMessages
    BY <1>2, <1>10 DEF Messages
  <2>2. run[w] = msg[w].run
    BY <1>1, <2>1 DEF Typed, WorkerInv
  <2>3. DoneFrom(msg[w].run, msg[w].resumeFrom + 1)
    BY <1>8, <1>10, <2>2 DEF DidWork, First
  <2>4. PICK m \in Messages : m = msg[w]
    BY <1>2
  <2>5. DoneFrom(m.run, m.resumeFrom + 1)'
    BY <1>1, <2>3, <2>4 DEF DoneFrom
  <2>6. m \notin StartMessages /\ \A n \in Messages \ {m} : queue'[n] = queue[n]
    BY <1>3, <1>10, <2>4
  <2>7. QED BY <1>5, <1>7, <2>5, <2>6 DEF HandledInv
<1>11. QED BY <1>9, <1>10

LEMMA HandledReceive ==
  ASSUME Typed, OwnerInv, HandledInv, StopsStay, NEW w \in Workers, NEW n \in Messages, Receive(w, n)
  PROVE  HandledInv'
<1>1. /\ pc[w] = "idle" /\ receives[n] < MaxReceives
      /\ queue[n] = "visible"
      /\ queue' = [queue EXCEPT ![n] = "inflight"]
      /\ receives' = [receives EXCEPT ![n] = @ + 1]
      /\ UNCHANGED <<performed, idx>>
      /\ EffectsKept
      /\ \/ UNCHANGED <<pc, msg, run>>
         \/ /\ pc' = [pc EXCEPT ![w] = "Fetch"]
            /\ msg' = [msg EXCEPT ![w] = n]
            /\ run' = [run EXCEPT ![w] = RunOf(n)]
  BY DEF Receive, Goto, delivery, EffectsKept
<1>2. /\ \A v \in Workers \ {w} : pc'[v] = pc[v] /\ msg'[v] = msg[v] /\ run'[v] = run[v]
      /\ \/ pc'[w] = pc[w] /\ msg'[w] = msg[w] /\ run'[w] = run[w]
         \/ pc'[w] = "Fetch" /\ msg'[w] = n /\ run'[w] = RunOf(n)
  BY <1>1 DEF Typed, TypeOK
<1>3. ASSUME NEW v \in Workers
      PROVE  WorkerProgress(v)'
  <2>1. WorkerProgress(v)
    BY DEF HandledInv
  <2>2. CASE pc'[v] = pc[v] /\ msg'[v] = msg[v] /\ run'[v] = run[v]
    BY <1>1, <2>1, <2>2, ProgressStays
  <2>3. CASE pc'[v] = "Fetch"
    BY <2>3 DEF WorkerProgress, ActionSteps
  <2>4. QED BY <1>2, <2>2, <2>3
<1>4. \A m \in Messages : /\ receives[m] \in Nat /\ receives'[m] \in Nat
                          /\ receives[m] <= receives'[m]
  BY <1>1, ConstantsAssumption DEF Typed, TypeOK
<1>5. ASSUME NEW m \in Messages, queue'[m] = "deleted"
      PROVE  IF m \in StartMessages THEN LeftBehind(m)' ELSE DoneFrom(m.run, m.resumeFrom + 1)'
  <2>1. m # n /\ queue[m] = "deleted"
    BY <1>1, <1>5 DEF Typed, TypeOK
  <2>2. ASSUME NEW v \in Workers, NEW r \in Runs,
               Owns(v)', run'[v] = r, m \in StartMessages, r[1] = m.signal
        PROVE  Owns(v) /\ run[v] = r
    <3>1. CASE pc'[v] = pc[v] /\ msg'[v] = msg[v] /\ run'[v] = run[v]
      BY <2>2, <3>1 DEF Owns
    <3>2. CASE v = w /\ msg'[w] = n /\ run'[w] = RunOf(n)
      <4>1. n \in StartMessages
        BY <2>2, <3>2 DEF Owns
      <4>2. n = Start(n.signal) /\ m = Start(m.signal)
        BY <2>2, <4>1 DEF StartMessages, Start
      <4>3. RunOf(n)[1] = n.signal
        BY <4>1 DEF RunOf
      <4>4. n = m
        BY <2>2, <3>2, <4>2, <4>3
      <4>5. QED BY <2>1, <4>4
    <3>3. QED BY <1>2, <3>1, <3>2
  <2>3. QED BY <1>1, <1>4, <2>1, <2>2, DeletedStays
<1>6. QED BY <1>3, <1>5 DEF HandledInv

LEMMA HandledRest ==
  ASSUME Typed, OwnerInv, HandledInv, StopsStay,
         \/ \E m \in Messages : BecomeVisible(m) \/ MoveToDeadLetters(m)
         \/ \E r \in Runs, i \in Delays : FireJob(r, i)
         \/ UNCHANGED vars
  PROVE  HandledInv'
<1>1. UNCHANGED <<receives, performed, pc, msg, run, idx>> /\ EffectsKept
  BY DEF BecomeVisible, MoveToDeadLetters, FireJob, delivery, vars, EffectsKept
<1>2. \A m \in Messages : queue'[m] = "deleted" => queue[m] = "deleted"
  <2>1. \/ \E m, q : q # "deleted" /\ queue' = [queue EXCEPT ![m] = q]
        \/ queue' = queue
    BY DEF BecomeVisible, MoveToDeadLetters, FireJob, vars
  <2>2. QED BY <2>1 DEF Typed, TypeOK
<1>3. \A v \in Workers : WorkerProgress(v)'
  BY <1>1, ProgressStays DEF HandledInv
<1>4. ASSUME NEW m \in Messages, queue'[m] = "deleted"
      PROVE  IF m \in StartMessages THEN LeftBehind(m)' ELSE DoneFrom(m.run, m.resumeFrom + 1)'
  <2>1. receives[m] \in Nat
    BY ConstantsAssumption DEF Typed, TypeOK
  <2>2. \A v \in Workers : Owns(v)' <=> Owns(v)
    BY <1>1 DEF Owns
  <2>3. QED BY <1>1, <1>2, <1>4, <2>1, <2>2, DeletedStays
<1>5. QED BY <1>3, <1>4 DEF HandledInv

LEMMA HandledStep ==
  ASSUME Typed, OrderInv, OwnerInv, BegunInv, HandledInv, NoShortDelays, [Next]_vars
  PROVE  HandledInv'
<1> StopsStay /\ Struck \subseteq Struck'
  BY StopsStayStep, FaultsGrow DEF Typed
<1>1. CASE Next
  BY <1>1, NextCases, HandledWrite, HandledTurn, HandledCreate, HandledExecute,
     HandledDelete, HandledReceive, HandledRest
<1>2. CASE UNCHANGED vars
  BY <1>2, HandledRest
<1>3. QED BY <1>1, <1>2

LEMMA HandledInit ==
  ASSUME Init
  PROVE  HandledInv
<1>1. \A w \in Workers : pc[w] = "idle"
  BY DEF Init
<1>2. \A m \in Messages : queue[m] # "deleted"
  BY DEF Init
<1>3. QED BY <1>1, <1>2 DEF HandledInv, WorkerProgress, ActionSteps

\* A deleted message was handled, whatever strikes: its deliveries, however they
\* crash, overlap and repeat, performed all that it asks for, or a condition
\* stopped its run, as the row of the run says unless an update of it failed
\* unnoticed (executeNewWorkflow, evaluateConditions), in any workflow without
\* short delays.
THEOREM NothingDeletedUnhandled ==
  ASSUME NoShortDelays
  PROVE  Spec => []DeletedWasHandled
<1>1. HandledInv => DeletedWasHandled
  BY DEF HandledInv, LeftBehind, DeletedWasHandled
<1>2. Typed /\ OrderInv /\ OwnerInv /\ [Next]_vars => OwnerInv'
  BY OwnerStep
<1>3. Typed /\ OrderInv /\ OwnerInv /\ BegunInv /\ [Next]_vars => BegunInv'
  BY BegunStep
<1>4. Typed /\ OrderInv /\ OwnerInv /\ BegunInv /\ HandledInv /\ [Next]_vars => HandledInv'
  BY HandledStep
<1>5. QED
  BY <1>1, <1>2, <1>3, <1>4, AlwaysTyped, AlwaysInOrder, OwnerInit, BegunInit, HandledInit,
     PTL DEF Spec

(***************************************************************************)
(* A run that has ended stays ended: every copy of its row has its status. *)
(***************************************************************************)
LEMMA FinalStays ==
  ASSUME Typed, LockInv, [Next]_vars,
         NEW r \in Runs, row[r].status \in FinalStatuses
  PROVE  row'[r].status \in FinalStatuses
<1>1. CASE row'[r] = row[r]
  BY <1>1
<1>2. CASE row'[r] # row[r]
  <2>1. row[r] # NoRow
    BY DEF NoRow, FinalStatuses
  <2>2. Next
    BY <1>2 DEF vars
  <2>3. ASSUME NEW w \in Workers, Writes(w)
        PROVE  row'[r].status \in FinalStatuses
    <3>1. PICK new \in Rows :
            /\ new.status = StatusWritten(w)
            /\ Stored(w, new) \/ NotStored(w, new, "Update") \/ NotStored(w, new, "IgnoredUpdate")
      BY <2>3, WriteOutcome
    <3>2. LockHolds(w) /\ row' = [row EXCEPT ![run[w]] = new]
      BY <1>2, <3>1 DEF Stored, NotStored
    <3>3. r = run[w] /\ row'[r] = new
      BY <1>2, <3>2 DEF Typed, TypeOK
    <3>4. pc[w] \in HasCopy
      BY <2>3, WritesAreWriteSteps DEF WriteStep
    <3>5. mine[w] = row[r]
      BY <2>1, <3>2, <3>3, <3>4 DEF LockHolds, LockInv
    <3>6. QED BY <3>1, <3>3, <3>5 DEF StatusWritten, FinalStatuses
  <2>4. ASSUME NEW w \in Workers, CreateRun(w)
        PROVE  FALSE
    <3>1. row[run[w]] = NoRow
      BY <2>4 DEF CreateRun, Typed, WorkerInv, LockInv, Starting
    <3>2. row' = row \/ row' = [row EXCEPT ![run[w]] = row'[run[w]]]
      BY <2>4 DEF CreateRun, Typed, TypeOK
    <3>3. QED BY <1>2, <2>1, <3>1, <3>2 DEF Typed, TypeOK
  <2>5. ASSUME \/ \E w \in Workers : Turns(w) \/ Execute(w) \/ Delete(w)
               \/ \E w \in Workers, m \in Messages : Receive(w, m)
               \/ \E m \in Messages : BecomeVisible(m) \/ MoveToDeadLetters(m)
               \/ \E q \in Runs, i \in Delays : FireJob(q, i)
        PROVE  FALSE
    <3>1. row' = row
      BY <2>5 DEF Turns, Fetch, Evaluate, GetRun, LogStarted, LogScheduled, Failed, Crash,
                  Execute, Delete, Receive, BecomeVisible, MoveToDeadLetters, FireJob, table
    <3>2. QED BY <1>2, <3>1
  <2>6. QED BY <2>2, <2>3, <2>4, <2>5, NextCases
<1>3. QED BY <1>1, <1>2

(***************************************************************************)
(* Who holds a message, and which messages there are.  As long as nothing  *)
(* strikes that delivers a message again after the execution it asked for, *)
(* a message in process is in flight and has one worker, a start message   *)
(* has made no run since the one in process, and no job fires twice.       *)
(***************************************************************************)
Calm == Struck \cap Redelivery = {}

Holds(w, m) == pc[w] # "idle" /\ msg[w] = m

JobInv ==
  \A r \in Runs, d \in Delays, k \in 1 .. MaxCopies :
    queue[Resume(r, d, k)] # "absent" => k <= fired[r][d]

HolderInv ==
  /\ \A w \in Workers : pc[w] # "idle" => queue[msg[w]] = "inflight"
  /\ \A v, w \in Workers : pc[w] # "idle" /\ Holds(v, msg[w]) => v = w
  /\ \A w \in Workers : Owns(w) => run[w] = <<msg[w].signal, receives[msg[w]]>>
  /\ \A r \in Runs, d \in Delays : fired[r][d] <= performed[r][d]

LEMMA CalmBefore ==
  ASSUME TypeOK, [Next]_vars, Calm'
  PROVE  Calm
  BY FaultsGrow DEF Calm

LEMMA ResumeParts ==
  ASSUME NEW r, NEW d, NEW k
  PROVE  /\ Resume(r, d, k).run = r /\ Resume(r, d, k).resumeFrom = d
         /\ Resume(r, d, k).copy = k
  BY DEF Resume

\* What a job that fires puts into the queue was never there before.
LEMMA JobIsNew ==
  ASSUME Typed, JobInv, NEW r \in Runs, NEW d \in Delays, FireJob(r, d)
  PROVE  /\ fired[r][d] \in Nat /\ fired[r][d] + 1 \in 1 .. MaxCopies
         /\ Resume(r, d, fired[r][d] + 1) \in ResumeMessages
         /\ Resume(r, d, fired[r][d] + 1) \in Messages
         /\ queue[Resume(r, d, fired[r][d] + 1)] = "absent"
         /\ queue' = [queue EXCEPT ![Resume(r, d, fired[r][d] + 1)] = "visible"]
         /\ fired' = [fired EXCEPT ![r][d] = @ + 1]
         /\ \A q \in Runs, e \in Indices :
              fired'[q][e] = IF q = r /\ e = d THEN fired[r][d] + 1 ELSE fired[q][e]
<1>1. d \in Indices /\ fired[r][d] \in 0 .. MaxCopies /\ fired[r][d] < MaxCopies
  BY DelayIsIndex DEF FireJob, Typed, TypeOK
<1>2. fired[r][d] \in Nat /\ fired[r][d] + 1 \in 1 .. MaxCopies
  BY <1>1, ConstantsAssumption
<1>3. queue[Resume(r, d, fired[r][d] + 1)] = "absent"
  BY <1>2 DEF JobInv
<1>4. /\ queue' = [queue EXCEPT ![Resume(r, d, fired[r][d] + 1)] = "visible"]
      /\ fired' = [fired EXCEPT ![r][d] = @ + 1]
  BY DEF FireJob
<1>5. \A q \in Runs, e \in Indices :
        fired'[q][e] = IF q = r /\ e = d THEN fired[r][d] + 1 ELSE fired[q][e]
  <2>1. fired \in [Runs -> [Indices -> 0 .. MaxCopies]]
    BY DEF Typed, TypeOK
  <2>2. QED BY <1>1, <1>4, <2>1
<1>6. QED BY <1>2, <1>3, <1>4, <1>5, ResumeIsMessage

LEMMA JobInit ==
  ASSUME Init
  PROVE  JobInv
<1>1. \A m \in ResumeMessages : queue[m] = "absent"
  BY ResumeIndex DEF Init
<1>2. QED BY <1>1, ResumeIsMessage DEF JobInv

LEMMA JobStep ==
  ASSUME Typed, OrderInv, JobInv, [Next]_vars
  PROVE  JobInv'
<1>1. ASSUME fired' = fired,
             \A m \in Messages : queue'[m] # "absent" => queue[m] # "absent"
      PROVE  JobInv'
  BY <1>1, ResumeIsMessage DEF JobInv
<1>2. CASE UNCHANGED vars
  BY <1>1, <1>2 DEF vars
<1>3. ASSUME NEW w \in Workers, Writes(w) \/ Turns(w) \/ CreateRun(w) \/ Execute(w)
      PROVE  JobInv'
  <2>1. UNCHANGED <<queue, fired>>
    BY <1>3, WriteMoves, TurnMoves, CreateMoves, ExecuteMoves
  <2>2. QED BY <1>1, <2>1
<1>4. ASSUME NEW w \in Workers, Delete(w)
      PROVE  JobInv'
  <2>1. /\ fired' = fired /\ pc[w] # "idle"
        /\ \/ queue' = queue
           \/ queue' = [queue EXCEPT ![msg[w]] = IF @ = "dead" THEN @ ELSE "deleted"]
    BY <1>4 DEF Delete
  <2>2. queue[msg[w]] # "absent"
    BY <2>1 DEF OrderInv
  <2>3. QED BY <1>1, <2>1, <2>2 DEF Typed, TypeOK
<1>5. ASSUME NEW w \in Workers, NEW m \in Messages, Receive(w, m)
      PROVE  JobInv'
  <2>1. fired' = fired /\ queue[m] = "visible" /\ queue' = [queue EXCEPT ![m] = "inflight"]
    BY <1>5 DEF Receive
  <2>2. QED BY <1>1, <2>1 DEF Typed, TypeOK
<1>6. ASSUME NEW m \in Messages, BecomeVisible(m) \/ MoveToDeadLetters(m)
      PROVE  JobInv'
  <2>1. /\ fired' = fired /\ queue[m] \in {"inflight", "visible"}
        /\ queue' = [queue EXCEPT ![m] = "visible"] \/ queue' = [queue EXCEPT ![m] = "dead"]
    BY <1>6 DEF BecomeVisible, MoveToDeadLetters
  <2>2. QED BY <1>1, <2>1 DEF Typed, TypeOK
<1>7. ASSUME NEW r \in Runs, NEW d \in Delays, FireJob(r, d)
      PROVE  JobInv'
  <2> DEFINE new == Resume(r, d, fired[r][d] + 1)
  <2>1. /\ fired[r][d] \in Nat /\ new \in Messages
        /\ queue' = [queue EXCEPT ![new] = "visible"]
        /\ \A q \in Runs, e \in Indices :
             fired'[q][e] = IF q = r /\ e = d THEN fired[r][d] + 1 ELSE fired[q][e]
    BY <1>7, JobIsNew
  <2>2. new.run = r /\ new.resumeFrom = d /\ new.copy = fired[r][d] + 1
    BY ResumeParts
  <2> HIDE DEF new
  <2> SUFFICES ASSUME NEW q \in Runs, NEW e \in Delays, NEW k \in 1 .. MaxCopies,
                      queue'[Resume(q, e, k)] # "absent"
               PROVE  k <= fired'[q][e]
    BY DEF JobInv
  <2>3. Resume(q, e, k) \in Messages /\ e \in Indices /\ k \in Nat
    BY ResumeIsMessage, DelayIsIndex
  <2>4. fired[q][e] \in Nat
    BY <2>3, ConstantsAssumption DEF Typed, TypeOK
  <2>5. CASE Resume(q, e, k) = new
    <3>1. q = r /\ e = d /\ k = fired[r][d] + 1
      BY <2>2, <2>5, ResumeParts
    <3>2. QED BY <2>1, <2>3, <3>1
  <2>6. CASE Resume(q, e, k) # new
    <3>1. k <= fired[q][e]
      BY <2>1, <2>3, <2>6 DEF JobInv, Typed, TypeOK
    <3>2. QED BY <2>1, <2>3, <2>4, <3>1
  <2>7. QED BY <2>5, <2>6
<1>8. QED BY <1>2, <1>3, <1>4, <1>5, <1>6, <1>7, NextCases

LEMMA HolderInit ==
  ASSUME Init
  PROVE  HolderInv
<1>1. \A r \in Runs, d \in Delays : fired[r][d] = 0 /\ performed[r][d] = 0
  BY DelayIsIndex DEF Init
<1>2. \A w \in Workers : pc[w] = "idle"
  BY DEF Init
<1>3. QED BY <1>1, <1>2 DEF HolderInv, Holds, Owns

\* What Execute adds to the effects.
LEMMA Effects ==
  ASSUME Typed, NEW w \in Workers, Execute(w)
  PROVE  \/ performed' = performed
         \/ /\ run[w] \in Runs /\ idx[w] \in Indices
            /\ \A r \in Runs, i \in Indices :
                 performed'[r][i] = IF r = run[w] /\ i = idx[w]
                                    THEN performed[r][i] + 1 ELSE performed[r][i]
<1>1. /\ run[w] \in Runs /\ idx[w] \in Indices
      /\ \/ performed' = [performed EXCEPT ![run[w]][idx[w]] = @ + 1]
         \/ performed' = performed
  BY ExecuteEffect
<1>2. performed \in [Runs -> [Indices -> Nat]]
  BY DEF Typed, TypeOK
<1>3. QED BY <1>1, <1>2

\* Only Execute changes the effects, only FireJob sends.
LEMMA NoEffects ==
  ASSUME Typed, NEW w \in Workers, Writes(w) \/ Turns(w) \/ CreateRun(w) \/ Delete(w)
  PROVE  UNCHANGED <<fired, performed>>
  BY WriteMoves, TurnMoves, CreateMoves DEF Delete

\* A step of a worker: its message stays in flight until the worker lets go.
LEMMA HolderMoves ==
  ASSUME Typed, HolderInv, Calm', NEW w \in Workers, Moves(w)
  PROVE  HolderInv'
<1>1. /\ Alone(w) /\ UNCHANGED <<receives, fired>> /\ pc[w] # "idle"
      /\ pc'[w] = "idle" \/ (msg'[w] = msg[w] /\ run'[w] = run[w])
  BY MovesAlone
<1>2. \A v \in Workers : pc'[v] # "idle" =>
        pc[v] # "idle" /\ msg'[v] = msg[v] /\ run'[v] = run[v]
  BY <1>1 DEF Alone
<1>3. \A v \in Workers : pc'[v] # "idle" => queue'[msg'[v]] = queue[msg[v]]
  <2>1. CASE Delete(w)
    <3>1. pc'[w] = "idle" /\ (queue' = queue \/ \E x : queue' = [queue EXCEPT ![msg[w]] = x])
      BY <2>1 DEF Delete, Release, Goto, Typed, TypeOK
    <3>2. ASSUME NEW v \in Workers, pc'[v] # "idle"
          PROVE  msg[v] # msg[w] /\ msg'[v] = msg[v] /\ msg[v] \in Messages
      BY <1>1, <1>2, <3>1, <3>2 DEF HolderInv, Holds, Typed, TypeOK
    <3>3. queue \in [Messages -> QueueStates]
      BY DEF Typed, TypeOK
    <3>4. QED BY <3>1, <3>2, <3>3
  <2>2. CASE ~Delete(w)
    <3>1. queue' = queue
      BY <2>2, WriteMoves, TurnMoves, CreateMoves, ExecuteMoves DEF Moves
    <3>2. QED BY <1>2, <3>1
  <2>3. QED BY <2>1, <2>2
<1>4. \A r \in Runs, d \in Delays : fired'[r][d] <= performed'[r][d]
  <2>1. CASE Execute(w)
    <3>1. \A r \in Runs, d \in Delays :
            d \in Indices /\ performed[r][d] \in Nat /\ fired[r][d] \in Nat
      BY DelayIsIndex, ConstantsAssumption DEF Typed, TypeOK
    <3>2. QED BY <1>1, <2>1, <3>1, Effects DEF HolderInv
  <2>2. CASE ~Execute(w)
    BY <2>2, NoEffects DEF Moves, HolderInv
  <2>3. QED BY <2>1, <2>2
<1>5. \A v \in Workers : pc'[v] # "idle" => queue'[msg'[v]] = "inflight"
  BY <1>2, <1>3 DEF HolderInv
<1>6. \A u, v \in Workers : pc'[v] # "idle" /\ Holds(u, msg[v])' => u = v
  BY <1>2 DEF Holds, HolderInv
<1>7. \A v \in Workers : Owns(v)' => run'[v] = <<msg'[v].signal, receives'[msg'[v]]>>
  BY <1>1, <1>2 DEF Owns, HolderInv
<1>8. QED BY <1>4, <1>5, <1>6, <1>7 DEF HolderInv, Holds

LEMMA HolderReceive ==
  ASSUME Typed, HolderInv, NEW w \in Workers, NEW m \in Messages, Receive(w, m)
  PROVE  HolderInv'
<1>1. /\ pc[w] = "idle" /\ queue[m] = "visible" /\ receives[m] < MaxReceives
      /\ queue' = [queue EXCEPT ![m] = "inflight"]
      /\ receives' = [receives EXCEPT ![m] = @ + 1]
      /\ UNCHANGED <<fired, performed>>
      /\ \/ UNCHANGED <<pc, msg, run>>
         \/ /\ pc' = [pc EXCEPT ![w] = "Fetch"]
            /\ msg' = [msg EXCEPT ![w] = m]
            /\ run' = [run EXCEPT ![w] = RunOf(m)]
  BY DEF Receive, Goto, delivery
<1>2. \A v \in Workers : pc[v] # "idle" => msg[v] \in Messages /\ msg[v] # m /\ v # w
  BY <1>1 DEF HolderInv, Typed, TypeOK
<1>3. /\ queue'[m] = "inflight" /\ receives'[m] = receives[m] + 1
      /\ \A n \in Messages : n # m => queue'[n] = queue[n] /\ receives'[n] = receives[n]
  BY <1>1 DEF Typed, TypeOK
<1>4. \A v \in Workers : pc'[v] # "idle" =>
        \/ pc[v] # "idle" /\ msg'[v] = msg[v] /\ run'[v] = run[v]
        \/ v = w /\ msg'[v] = m /\ run'[v] = RunOf(m)
  BY <1>1 DEF Typed, TypeOK
<1>5. \A v \in Workers : pc'[v] # "idle" => queue'[msg'[v]] = "inflight"
  BY <1>2, <1>3, <1>4 DEF HolderInv
<1>6. \A u, v \in Workers : pc'[v] # "idle" /\ Holds(u, msg[v])' => u = v
  BY <1>2, <1>4 DEF Holds, HolderInv
<1>7. \A v \in Workers : Owns(v)' => run'[v] = <<msg'[v].signal, receives'[msg'[v]]>>
  <2> SUFFICES ASSUME NEW v \in Workers, Owns(v)'
               PROVE  run'[v] = <<msg'[v].signal, receives'[msg'[v]]>>
    OBVIOUS
  <2>1. pc'[v] # "idle" /\ msg'[v] \in StartMessages
    BY DEF Owns
  <2>2. CASE pc[v] # "idle" /\ msg'[v] = msg[v] /\ run'[v] = run[v]
    BY <1>2, <1>3, <2>1, <2>2 DEF Owns, HolderInv
  <2>3. CASE v = w /\ msg'[v] = m /\ run'[v] = RunOf(m)
    BY <1>3, <2>1, <2>3 DEF RunOf
  <2>4. QED BY <1>4, <2>1, <2>2, <2>3
<1>8. QED BY <1>1, <1>5, <1>6, <1>7 DEF HolderInv, Holds

LEMMA HolderQueue ==
  ASSUME Typed, HolderInv, Calm', NEW m \in Messages, BecomeVisible(m) \/ MoveToDeadLetters(m)
  PROVE  HolderInv'
<1>1. /\ UNCHANGED <<receives, fired, performed, pc, msg, run>>
      /\ queue' = [queue EXCEPT ![m] = "visible"] \/ queue' = [queue EXCEPT ![m] = "dead"]
  BY DEF BecomeVisible, MoveToDeadLetters, delivery
<1>2. \A w \in Workers : pc[w] # "idle" => msg[w] # m
  <2>1. CASE BecomeVisible(m)
    <3>1. ~Fails("Timeout")
      BY FaultStrikes DEF Calm, Redelivery, Typed
    <3>2. QED BY <2>1, <3>1 DEF BecomeVisible
  <2>2. CASE MoveToDeadLetters(m)
    BY <2>2 DEF MoveToDeadLetters, HolderInv
  <2>3. QED BY <2>1, <2>2
<1>3. \A w \in Workers : pc'[w] # "idle" => queue'[msg'[w]] = queue[msg[w]]
  BY <1>1, <1>2 DEF Typed, TypeOK
<1>4. QED BY <1>1, <1>3 DEF HolderInv, Holds, Owns

LEMMA HolderFire ==
  ASSUME Typed, JobInv, HolderInv, Calm', NEW r \in Runs, NEW d \in Delays, FireJob(r, d)
  PROVE  HolderInv'
<1>1. /\ UNCHANGED <<receives, performed, pc, msg, run>>
      /\ fired[r][d] < performed[r][d] \/ Fails("Duplicate")
  BY DEF FireJob, delivery
<1>2. ~Fails("Duplicate")
  BY FaultStrikes DEF Calm, Redelivery, Typed
<1>3. /\ fired[r][d] \in Nat
      /\ queue[Resume(r, d, fired[r][d] + 1)] = "absent"
      /\ queue' = [queue EXCEPT ![Resume(r, d, fired[r][d] + 1)] = "visible"]
      /\ \A q \in Runs, e \in Indices :
           fired'[q][e] = IF q = r /\ e = d THEN fired[r][d] + 1 ELSE fired[q][e]
  BY JobIsNew
<1>4. \A q \in Runs, e \in Delays : fired'[q][e] <= performed'[q][e]
  <2>1. \A q \in Runs, e \in Delays : e \in Indices /\ performed[q][e] \in Nat
    BY DelayIsIndex DEF Typed, TypeOK
  <2>2. QED BY <1>1, <1>2, <1>3, <2>1 DEF HolderInv
<1>5. \A w \in Workers : pc'[w] # "idle" => queue'[msg'[w]] = queue[msg[w]]
  BY <1>1, <1>3 DEF HolderInv
<1>6. QED BY <1>1, <1>4, <1>5 DEF HolderInv, Holds, Owns

LEMMA HolderStep ==
  ASSUME Typed, JobInv, HolderInv, Calm', [Next]_vars
  PROVE  HolderInv'
<1>1. CASE Next
  BY <1>1, NextCases, HolderMoves, HolderReceive, HolderQueue, HolderFire DEF Moves
<1>2. CASE UNCHANGED vars
  BY <1>2 DEF vars, HolderInv, Holds, Owns
<1>3. QED BY <1>1, <1>2

(***************************************************************************)
(* One token for every run.  A run is resumed by one of its messages or    *)
(* worked on, or waits for the job of one delay; never two of these at the *)
(* same time, except that a worker still pauses at the delay whose job it  *)
(* has just had accepted.  It holds as long as nothing delivers a message  *)
(* again after the execution it asked for.  In a workflow of several       *)
(* delays an error after acceptance makes a second token, too; if the      *)
(* executor can write, it marks the run FAILED then, so a run that has not *)
(* ended still has one.                                                    *)
(***************************************************************************)
Exclusive(r) ==
  /\ Calm
  /\ SeveralDelays /\ Struck \cap AfterAcceptance # {} =>
       /\ 0 \notin Gaps
       /\ Struck \subseteq CleanErrors
       /\ row[r].status \notin FinalStatuses

Pending(r, d) == fired[r][d] < performed[r][d]
Waiting(m) == queue[m] \in {"visible", "inflight"}
ResumesOf(r) == {m \in ResumeMessages : m.run = r}

\* A worker that has had a job accepted and not let go of its message.
PausesAt(w) ==
  \/ pc[w] \in {"SetScheduled", "LogScheduled", "Delete"}
  \/ pc[w] \in {"MarkFailed", "Failed"} /\ msg[w] \in StartMessages
  \/ pc[w] = "MarkFailed" /\ SeveralDelays /\ Struck \cap AfterAcceptance # {}

OneToken(r) ==
  /\ \A v, w \in Workers : Works(v, r) /\ Works(w, r) => v = w
  /\ \A w \in Workers, m \in ResumesOf(r) : Works(w, r) /\ Waiting(m) => msg[w] = m
  /\ \A w \in Workers, d \in Delays : Works(w, r) /\ Pending(r, d) => idx[w] = d /\ PausesAt(w)
  /\ \A m, n \in ResumesOf(r) : Waiting(m) /\ Waiting(n) => m = n
  /\ \A d \in Delays, m \in ResumesOf(r) :
       Pending(r, d) /\ Waiting(m) => \E w \in Workers : Holds(w, m)
  /\ \A d, e \in Delays : Pending(r, d) /\ Pending(r, e) => d = e
  /\ \A d \in Delays : performed[r][d] <= fired[r][d] + 1

\* Errors of a write, after which a worker's copy may differ from the row.
WriteErrors == {"Update", "IgnoredUpdate", "UpdateReply"}

\* The worker's copy is the row as it stands.
InStep(r) ==
  \A w \in Workers :
    /\ Works(w, r)
    /\ \/ pc[w] \in {"LogStarted", "Execute", "SetScheduled"}
       \/ pc[w] \in HasCopy /\ Struck \cap WriteErrors = {}
    => LockHolds(w)

TokenInv == \A r \in Runs : Exclusive(r) => OneToken(r) /\ InStep(r)

\* A delivery that resumes a run is behind the delay it resumes from.
ResumeInv ==
  \A w \in Workers :
    pc[w] \in ActionSteps /\ msg[w] \in ResumeMessages => msg[w].resumeFrom < idx[w]

\* What these invariants rest on.
Base == Typed /\ OrderInv /\ OwnerInv /\ ResumeInv /\ JobInv /\ (0 \notin Gaps => LockInv)

LEMMA ResumeInit ==
  ASSUME Init
  PROVE  ResumeInv
  BY DEF Init, ResumeInv, ActionSteps

LEMMA ResumeFrame ==
  ASSUME Typed, ResumeInv, NEW w \in Workers,
         \A v \in Workers \ {w} : pc'[v] = pc[v] /\ idx'[v] = idx[v] /\ msg'[v] = msg[v],
         \/ pc'[w] \notin ActionSteps
         \/ msg'[w] \in StartMessages
         \/ pc[w] \in ActionSteps /\ msg'[w] = msg[w] /\ idx'[w] \in {idx[w], idx[w] + 1}
         \/ msg'[w] \in ResumeMessages => msg'[w].resumeFrom < idx'[w]
  PROVE  ResumeInv'
<1>1. ASSUME NEW v \in Workers, pc'[v] \in ActionSteps, msg'[v] \in ResumeMessages
      PROVE  msg'[v].resumeFrom < idx'[v]
  <2>1. CASE v # w
    BY <1>1, <2>1 DEF ResumeInv
  <2>2. CASE v = w
    <3>1. msg'[w] \notin StartMessages
      BY <1>1, <2>2, ResumeIndex
    <3>2. CASE pc[w] \in ActionSteps /\ msg'[w] = msg[w] /\ idx'[w] \in {idx[w], idx[w] + 1}
      <4>1. msg[w].resumeFrom \in Indices
        BY <1>1, <2>2, <3>2, ResumeIndex
      <4>2. msg[w].resumeFrom \in Nat /\ idx[w] \in Nat
        BY <4>1, IndexIsNat DEF Typed, TypeOK
      <4>3. msg[w].resumeFrom < idx[w]
        BY <1>1, <2>2, <3>2 DEF ResumeInv
      <4>4. QED BY <2>2, <3>2, <4>2, <4>3
    <3>3. QED BY <1>1, <2>2, <3>1, <3>2
  <2>3. QED BY <2>1, <2>2
<1>2. QED BY <1>1 DEF ResumeInv

LEMMA ResumeStep ==
  ASSUME Typed, OwnerInv, ResumeInv, [Next]_vars
  PROVE  ResumeInv'
<1>1. ASSUME NEW w \in Workers, Writes(w)
      PROVE  ResumeInv'
  <2>1. /\ \A v \in Workers \ {w} : pc'[v] = pc[v] /\ idx'[v] = idx[v] /\ msg'[v] = msg[v]
        /\ msg' = msg
    BY <1>1, WriteMoves
  <2>2. CASE pc[w] = "SetResumed"
    <3>1. msg[w] \in ResumeMessages
      BY <2>2 DEF Typed, WorkerInv
    <3>2. msg[w].resumeFrom \in Indices
      BY <3>1, ResumeIndex
    <3>3. msg[w].resumeFrom < ResumeAt(w)
      <4>1. msg[w].resumeFrom \in Nat
        BY <3>2, IndexIsNat
      <4>2. QED BY <4>1 DEF ResumeAt
    <3>4. pc'[w] = "Failed" \/ idx'[w] = ResumeAt(w)
      BY <1>1, <2>2, WriteMoves
    <3>5. QED BY <2>1, <3>3, <3>4, ResumeFrame DEF ActionSteps
  <2>3. CASE pc[w] # "SetResumed"
    <3>1. \/ pc'[w] \notin ActionSteps
          \/ pc[w] \in ActionSteps /\ idx'[w] \in {idx[w], idx[w] + 1}
      BY <1>1, <2>3, WriteMoves DEF ActionSteps
    <3>2. QED BY <2>1, <3>1, ResumeFrame
  <2>4. QED BY <2>2, <2>3
<1>2. ASSUME NEW w \in Workers, Turns(w)
      PROVE  ResumeInv'
  <2>1. /\ \A v \in Workers \ {w} : pc'[v] = pc[v] /\ idx'[v] = idx[v] /\ msg'[v] = msg[v]
        /\ \/ pc'[w] \notin ActionSteps
           \/ msg'[w] = msg[w] /\ pc[w] = "Evaluate"
           \/ msg'[w] = msg[w] /\ pc[w] \in ActionSteps /\ idx'[w] = idx[w]
    BY <1>2, TurnMoves DEF ActionSteps, CondSteps
  <2>2. pc[w] = "Evaluate" => msg[w] \in StartMessages
    BY DEF OwnerInv, CondSteps
  <2>3. QED BY <2>1, <2>2, ResumeFrame
<1>3. ASSUME NEW w \in Workers, CreateRun(w)
      PROVE  ResumeInv'
  BY <1>3, CreateMoves, ResumeFrame
<1>4. ASSUME NEW w \in Workers, Execute(w)
      PROVE  ResumeInv'
  <2>1. /\ pc[w] = "Execute" /\ UNCHANGED <<msg, idx>>
        /\ \A v \in Workers \ {w} : pc'[v] = pc[v]
    BY <1>4, ExecuteMoves
  <2>2. QED BY <2>1, ResumeFrame DEF ActionSteps
<1>5. ASSUME NEW w \in Workers, Delete(w)
      PROVE  ResumeInv'
  <2>1. Alone(w) /\ pc'[w] = "idle"
    BY <1>5, MovesAlone DEF Moves, Delete, Release, Goto, Typed, TypeOK
  <2>2. QED BY <2>1, ResumeFrame DEF Alone, ActionSteps
<1>6. ASSUME NEW w \in Workers, NEW m \in Messages, Receive(w, m)
      PROVE  ResumeInv'
  <2>1. /\ idx' = idx
        /\ \/ UNCHANGED <<pc, msg>>
           \/ pc' = [pc EXCEPT ![w] = "Fetch"] /\ msg' = [msg EXCEPT ![w] = m]
    BY <1>6 DEF Receive, Goto, delivery
  <2>2. CASE UNCHANGED <<pc, msg>>
    BY <2>1, <2>2 DEF ResumeInv
  <2>3. CASE pc' = [pc EXCEPT ![w] = "Fetch"] /\ msg' = [msg EXCEPT ![w] = m]
    <3>1. /\ pc'[w] = "Fetch"
          /\ \A v \in Workers \ {w} : pc'[v] = pc[v] /\ idx'[v] = idx[v] /\ msg'[v] = msg[v]
      BY <2>1, <2>3 DEF Typed, TypeOK
    <3>2. QED BY <3>1, ResumeFrame DEF ActionSteps
  <2>4. QED BY <2>1, <2>2, <2>3
<1>7. ASSUME \/ \E m \in Messages : BecomeVisible(m) \/ MoveToDeadLetters(m)
             \/ \E r \in Runs, i \in Delays : FireJob(r, i)
      PROVE  ResumeInv'
  <2>1. UNCHANGED <<pc, msg, idx>>
    BY <1>7 DEF BecomeVisible, MoveToDeadLetters, FireJob, delivery
  <2>2. QED BY <2>1 DEF ResumeInv
<1>8. CASE UNCHANGED vars
  BY <1>8 DEF vars, ResumeInv
<1>9. QED BY <1>1, <1>2, <1>3, <1>4, <1>5, <1>6, <1>7, <1>8, NextCases

LEMMA BaseInit ==
  ASSUME Init
  PROVE  Base
  BY TypedInit, OrderInit, OwnerInit, ResumeInit, JobInit, LockInit DEF Base

LEMMA BaseStep ==
  ASSUME Base, [Next]_vars
  PROVE  Base'
  BY TypedStep, OrderStep, OwnerStep, ResumeStep, JobStep, LockStep DEF Base

\* A run that is exclusive after a step was so before it.
LEMMA ExclusiveBefore ==
  ASSUME Base, [Next]_vars, NEW r \in Runs, Exclusive(r)'
  PROVE  Exclusive(r)
<1>1. Struck \subseteq Struck' /\ Calm
  BY FaultsGrow, CalmBefore DEF Base, Typed, Exclusive
<1>2. 0 \notin Gaps /\ row'[r].status \notin FinalStatuses => row[r].status \notin FinalStatuses
  BY FinalStays DEF Base
<1>3. QED BY <1>1, <1>2 DEF Exclusive

\* A worker that works on the run has the run's resume message or a start message.
LEMMA HolderWorks ==
  ASSUME Typed, NEW r \in Runs, NEW w \in Workers, NEW m \in ResumesOf(r), Holds(w, m)
  PROVE  Works(w, r)
  BY DEF Typed, WorkerInv, Holds, Works, ResumesOf

LEMMA ResumesAre ==
  ASSUME NEW r, NEW m \in ResumesOf(r)
  PROVE  m \in ResumeMessages /\ m \in Messages /\ m \notin StartMessages /\ m.run = r
  BY ResumeIndex DEF ResumesOf

\* A step of a worker that leaves the effects on the run alone: if a job of the
\* run is pending, the worker goes on pausing or lets go of its message.
LEMMA TokenFrame ==
  ASSUME Typed, NEW r \in Runs, OneToken(r), NEW w \in Workers,
         Struck \subseteq Struck', Alone(w), pc[w] # "idle",
         pc'[w] = "idle" \/ (msg'[w] = msg[w] /\ run'[w] = run[w]),
         fired'[r] = fired[r], performed'[r] = performed[r],
         \A m \in Messages : Waiting(m)' => Waiting(m),
         \A d \in Delays : Works(w, r) /\ Pending(r, d) =>
           \/ pc'[w] = "idle" /\ (msg[w] \in StartMessages \/ queue'[msg[w]] \notin {"visible", "inflight"})
           \/ pc'[w] # "idle" /\ idx'[w] = idx[w] /\ PausesAt(w)'
  PROVE  OneToken(r)'
<1>1. \A v \in Workers : Works(v, r)' =>
        Works(v, r) /\ msg'[v] = msg[v] /\ (v # w => pc'[v] = pc[v] /\ idx'[v] = idx[v])
  BY DEF Works, Alone
<1>2. \A d \in Delays : Pending(r, d)' <=> Pending(r, d)
  BY DEF Pending
<1>3. \A m \in ResumesOf(r) : Waiting(m)' => Waiting(m)
  BY ResumesAre
<1>4. \A v \in Workers, d \in Delays : Works(v, r)' /\ Pending(r, d)' => idx'[v] = d /\ PausesAt(v)'
  <2> SUFFICES ASSUME NEW v \in Workers, NEW d \in Delays, Works(v, r)', Pending(r, d)'
               PROVE  idx'[v] = d /\ PausesAt(v)'
    OBVIOUS
  <2>1. Works(v, r) /\ Pending(r, d) /\ idx[v] = d /\ PausesAt(v)
    BY <1>1, <1>2 DEF OneToken
  <2>2. CASE v = w
    BY <2>1, <2>2 DEF Works
  <2>3. CASE v # w
    BY <1>1, <2>1, <2>3 DEF PausesAt
  <2>4. QED BY <2>2, <2>3
<1>5. \A d \in Delays, m \in ResumesOf(r) :
        Pending(r, d)' /\ Waiting(m)' => \E v \in Workers : Holds(v, m)'
  <2> SUFFICES ASSUME NEW d \in Delays, NEW m \in ResumesOf(r), Pending(r, d)', Waiting(m)'
               PROVE  \E v \in Workers : Holds(v, m)'
    OBVIOUS
  <2>1. PICK v \in Workers : Holds(v, m)
    BY <1>2, <1>3 DEF OneToken
  <2>2. CASE v # w
    BY <2>1, <2>2 DEF Holds, Alone
  <2>3. CASE v = w
    <3>1. Works(w, r) /\ msg[w] = m
      BY <2>1, <2>3, HolderWorks DEF Holds
    <3>2. pc'[w] # "idle"
      BY <1>2, <3>1, ResumesAre DEF Waiting
    <3>3. QED BY <3>1, <3>2 DEF Holds
  <2>4. QED BY <2>2, <2>3
<1>6. /\ \A u, v \in Workers : Works(u, r)' /\ Works(v, r)' => u = v
      /\ \A v \in Workers, m \in ResumesOf(r) : Works(v, r)' /\ Waiting(m)' => msg'[v] = m
      /\ \A m, n \in ResumesOf(r) : Waiting(m)' /\ Waiting(n)' => m = n
      /\ \A d, e \in Delays : Pending(r, d)' /\ Pending(r, e)' => d = e
      /\ \A d \in Delays : performed'[r][d] <= fired'[r][d] + 1
  BY <1>1, <1>2, <1>3 DEF OneToken
<1>7. QED BY <1>4, <1>5, <1>6 DEF OneToken, ResumesOf

\* A write at a delay whose job is accepted: the worker goes on pausing.
LEMMA TokenWrite ==
  ASSUME Base, NEW r \in Runs, OneToken(r), InStep(r), Exclusive(r)', [Next]_vars,
         NEW w \in Workers, Writes(w)
  PROVE  OneToken(r)'
<1>1. /\ Alone(w) /\ pc[w] # "idle"
      /\ UNCHANGED <<queue, fired, performed, msg, run>>
  BY WriteMoves, MovesAlone DEF Base, Moves
<1>2. ASSUME NEW d \in Delays, Works(w, r), Pending(r, d)
      PROVE  pc'[w] # "idle" /\ idx'[w] = idx[w] /\ PausesAt(w)'
  <2>1. idx[w] = d /\ PausesAt(w)
    BY <1>2 DEF OneToken
  <2>2. pc[w] \in {"SetScheduled", "MarkFailed"}
    BY <2>1, WriteMoves DEF PausesAt, Base
  <2>3. PICK new \in Rows :
          /\ new.status = StatusWritten(w)
          /\ IF pc[w] \in Guarded
             THEN \/ Stored(w, new) /\ pc'[w] \notin {"MarkFailed", "Failed"}
                  \/ NotStored(w, new, "Update") /\ pc'[w] \in {"MarkFailed", "Failed"}
             ELSE Stored(w, new) \/ NotStored(w, new, "IgnoredUpdate")
    BY WriteOutcome DEF Base
  <2>4. ~Fails("UpdateReply")
    BY FaultStrikes DEF Exclusive, Calm, Redelivery, Base, Typed
  <2>5. CASE pc[w] = "SetScheduled"
    <3>1. pc'[w] \in {"LogScheduled", "MarkFailed"} /\ idx'[w] = idx[w]
      BY <2>5, WriteMoves DEF Base
    <3>2. CASE pc'[w] = "LogScheduled"
      BY <3>1, <3>2 DEF PausesAt
    <3>3. CASE pc'[w] = "MarkFailed"
      <4>1. Fails("Update")
        <5>1. LockHolds(w)
          BY <1>2, <2>5 DEF InStep
        <5>2. QED BY <2>3, <2>4, <2>5, <3>3, <5>1 DEF Guarded, NotStored
      <4>2. Struck' \cap AfterAcceptance # {}
        BY <4>1, FaultStrikes DEF AfterAcceptance, Base, Typed
      <4>3. CASE msg[w] \in StartMessages
        BY <1>1, <3>1, <3>3, <4>3 DEF PausesAt
      <4>4. CASE msg[w] \in ResumeMessages
        <5>1. msg[w].resumeFrom < idx[w] /\ msg[w].resumeFrom \in Delays
          BY <2>5, <4>4, ResumeIndex DEF Base, ResumeInv, ActionSteps
        <5>2. msg[w].resumeFrom \in Nat /\ d \in Nat
          BY <5>1, DelayIsIndex, IndexIsNat
        <5>3. SeveralDelays
          BY <2>1, <5>1, <5>2 DEF SeveralDelays
        <5>4. QED BY <1>1, <3>1, <3>3, <4>2, <5>3 DEF PausesAt
      <4>5. QED BY <1>1, <4>3, <4>4 DEF Base, Typed, TypeOK, Messages
    <3>4. QED BY <3>1, <3>2, <3>3
  <2>6. CASE pc[w] = "MarkFailed"
    <3>1. pc'[w] = "Failed" /\ idx'[w] = idx[w]
      <4>1. MarkFailed(w)
        BY <2>6 DEF Writes, SetCondition, StopRun, SetResumed, SetStarted, SetScheduled,
                    SetCompleted, MarkCompleted
      <4>2. QED BY <4>1 DEF MarkFailed, Goto, Base, Typed, TypeOK
    <3>2. CASE msg[w] \in StartMessages
      BY <1>1, <3>1, <3>2 DEF PausesAt
    <3>3. CASE SeveralDelays /\ Struck \cap AfterAcceptance # {}
      <4>1. Struck \subseteq Struck'
        BY FaultsGrow DEF Base, Typed
      <4>2. Struck' \subseteq CleanErrors /\ row'[r].status \notin FinalStatuses
        BY <3>3, <4>1 DEF Exclusive
      <4>3. LockHolds(w)
        BY <1>2, <2>6, <4>1, <4>2
        DEF InStep, HasCopy, ActionSteps, CleanErrors, WriteErrors
      <4>4. ~Fails("IgnoredUpdate")
        BY <4>2, FaultStrikes DEF CleanErrors, Base, Typed
      <4>5. row' = [row EXCEPT ![run[w]] = new]
        BY <2>3, <2>4, <2>6, <4>3, <4>4 DEF Guarded, Stored, NotStored
      <4>6. row'[r].status = "FAILED"
        BY <1>2, <2>3, <2>6, <4>5 DEF Works, StatusWritten, Base, Typed, TypeOK
      <4>7. QED BY <4>2, <4>6 DEF FinalStatuses
    <3>4. QED BY <2>1, <2>6, <3>2, <3>3 DEF PausesAt
  <2>7. QED BY <2>2, <2>5, <2>6
<1>3. Struck \subseteq Struck'
  BY FaultsGrow DEF Base, Typed
<1>4. QED BY <1>1, <1>2, <1>3, TokenFrame DEF Base, Waiting

LEMMA TokenTurn ==
  ASSUME Base, NEW r \in Runs, OneToken(r), Exclusive(r)', [Next]_vars,
         NEW w \in Workers, Turns(w)
  PROVE  OneToken(r)'
<1>1. /\ Alone(w) /\ pc[w] # "idle"
      /\ UNCHANGED <<queue, fired, performed>>
      /\ pc'[w] = "idle" \/ (msg'[w] = msg[w] /\ run'[w] = run[w])
  BY TurnMoves, MovesAlone DEF Base, Moves
<1>2. ASSUME NEW d \in Delays, Works(w, r), Pending(r, d)
      PROVE  \/ pc'[w] = "idle" /\ msg[w] \in StartMessages
             \/ pc'[w] # "idle" /\ idx'[w] = idx[w] /\ PausesAt(w)'
  <2>1. idx[w] = d /\ PausesAt(w)
    BY <1>2 DEF OneToken
  <2>2. ~Crash(w)
    BY FaultStrikes DEF Crash, Exclusive, Calm, Redelivery, Base, Typed
  <2>3. CASE Failed(w)
    BY <2>1, <2>3 DEF Failed, Release, Goto, PausesAt, Base, Typed, TypeOK
  <2>4. CASE ~Failed(w)
    <3>1. LogScheduled(w)
      BY <2>1, <2>2, <2>4 DEF Turns, Fetch, Evaluate, GetRun, LogStarted, PausesAt
    <3>2. /\ pc[w] = "LogScheduled" /\ idx'[w] = idx[w]
          /\ \/ pc'[w] = "Delete"
             \/ pc'[w] = "MarkFailed" /\ Fails("LogScheduled")
      BY <3>1 DEF LogScheduled, Goto, Base, Typed, TypeOK
    <3>3. CASE pc'[w] = "Delete"
      BY <3>2, <3>3 DEF PausesAt
    <3>4. CASE pc'[w] = "MarkFailed"
      <4>1. msg'[w] = msg[w]
        BY <1>1, <3>4
      <4>2. Struck' \cap AfterAcceptance # {}
        BY <3>2, <3>4, FaultStrikes DEF AfterAcceptance, Base, Typed
      <4>3. CASE msg[w] \in StartMessages
        BY <3>2, <3>4, <4>1, <4>3 DEF PausesAt
      <4>4. CASE msg[w] \in ResumeMessages
        <5>1. msg[w].resumeFrom < idx[w] /\ msg[w].resumeFrom \in Delays
          BY <3>2, <4>4, ResumeIndex DEF Base, ResumeInv, ActionSteps
        <5>2. msg[w].resumeFrom \in Nat /\ d \in Nat
          BY <5>1, DelayIsIndex, IndexIsNat
        <5>3. SeveralDelays
          BY <2>1, <5>1, <5>2 DEF SeveralDelays
        <5>4. QED BY <3>2, <3>4, <4>2, <5>3 DEF PausesAt
      <4>5. QED BY <1>1, <4>3, <4>4 DEF Base, Typed, TypeOK, Messages
    <3>5. QED BY <3>2, <3>3, <3>4
  <2>5. QED BY <2>3, <2>4
<1>3. Struck \subseteq Struck'
  BY FaultsGrow DEF Base, Typed
<1>4. QED BY <1>1, <1>2, <1>3, TokenFrame DEF Base, Waiting

LEMMA TokenCreate ==
  ASSUME Base, NEW r \in Runs, OneToken(r), [Next]_vars, NEW w \in Workers, CreateRun(w)
  PROVE  OneToken(r)'
<1>1. /\ Alone(w) /\ pc[w] = "CreateRun"
      /\ UNCHANGED <<queue, fired, performed, msg, run>>
  BY CreateMoves, MovesAlone DEF Base, Moves
<1>2. \A d \in Delays : ~(Works(w, r) /\ Pending(r, d))
  BY <1>1 DEF OneToken, PausesAt
<1>3. Struck \subseteq Struck'
  BY FaultsGrow DEF Base, Typed
<1>4. QED BY <1>1, <1>2, <1>3, TokenFrame DEF Base, Waiting

LEMMA TokenDelete ==
  ASSUME Base, NEW r \in Runs, OneToken(r), Calm', HolderInv, [Next]_vars,
         NEW w \in Workers, Delete(w)
  PROVE  OneToken(r)'
<1>1. /\ Alone(w) /\ pc[w] # "idle" /\ msg[w] \in Messages
      /\ UNCHANGED <<fired, performed>>
  BY MovesAlone DEF Base, Moves, Delete, Typed, TypeOK
<1>2. ~Fails("Delete")
  BY FaultStrikes DEF Calm, Redelivery, Base, Typed
<1>3. pc'[w] = "idle" /\ queue' = [queue EXCEPT ![msg[w]] = "deleted"]
  <2>1. queue[msg[w]] = "inflight"
    BY <1>1 DEF HolderInv
  <2>2. QED BY <1>2, <2>1 DEF Delete, Release, Goto, Base, Typed, TypeOK
<1>4. queue'[msg[w]] = "deleted" /\ \A m \in Messages : Waiting(m)' => Waiting(m)
  BY <1>1, <1>3 DEF Waiting, Base, Typed, TypeOK
<1>5. Struck \subseteq Struck'
  BY FaultsGrow DEF Base, Typed
<1>6. QED BY <1>1, <1>3, <1>4, <1>5, TokenFrame DEF Base

LEMMA TokenExecute ==
  ASSUME Base, NEW r \in Runs, OneToken(r), [Next]_vars, NEW w \in Workers, Execute(w)
  PROVE  OneToken(r)'
<1>1. /\ Alone(w) /\ pc[w] = "Execute" /\ run[w] \in Runs /\ idx[w] \in Indices
      /\ UNCHANGED <<queue, fired, msg, run, idx>>
      /\ pc'[w] \in {"SetCompleted", "SetScheduled", "MarkFailed"}
  BY ExecuteMoves, MovesAlone DEF Base, Moves
<1>2. \A d \in Delays : ~(Works(w, r) /\ Pending(r, d))
  BY <1>1 DEF OneToken, PausesAt
<1>3. Struck \subseteq Struck'
  BY FaultsGrow DEF Base, Typed
<1>4. CASE performed'[r] = performed[r]
  BY <1>1, <1>2, <1>3, <1>4, TokenFrame DEF Base, Waiting
<1>5. CASE performed'[r] # performed[r]
  <2>1. /\ run[w] = r /\ Works(w, r)
        /\ \A i \in Indices :
             performed'[r][i] = IF i = idx[w] THEN performed[r][i] + 1 ELSE performed[r][i]
    <3>1. run[w] = r
      BY <1>5, ExecuteMoves DEF Base
    <3>2. performed' # performed
      BY <1>5
    <3>3. QED BY <1>1, <3>1, <3>2, Effects DEF Works, Base
  <2>2. \A d \in Delays : /\ d \in Indices
                          /\ performed[r][d] \in Nat /\ fired[r][d] \in Nat
                          /\ performed[r][d] <= fired[r][d]
    <3>1. \A d \in Delays : /\ d \in Indices
                            /\ performed[r][d] \in Nat /\ fired[r][d] \in Nat
      BY DelayIsIndex, ConstantsAssumption DEF Base, Typed, TypeOK
    <3>2. QED BY <1>2, <2>1, <3>1 DEF Pending
  <2>3. \A d \in Delays : Pending(r, d)' => d = idx[w]
    BY <1>1, <2>1, <2>2 DEF Pending
  <2>4. \A d \in Delays : performed'[r][d] <= fired'[r][d] + 1
    BY <1>1, <2>1, <2>2
  <2>5. \A v \in Workers : Works(v, r)' <=> Works(v, r)
    BY <1>1 DEF Works, Alone
  <2>6. \A v \in Workers : Works(v, r) => v = w
    BY <2>1 DEF OneToken
  <2>7. \A m \in ResumesOf(r) : (Waiting(m)' <=> Waiting(m)) /\ (Waiting(m) => msg[w] = m)
    BY <1>1, <2>1 DEF OneToken, Waiting
  <2>8. ASSUME NEW d \in Delays, Pending(r, d)'
        PROVE  idx'[w] = d /\ PausesAt(w)'
    <3>1. idx[w] = d /\ idx'[w] = d /\ Actions[d] = "delay"
      BY <1>1, <2>3, <2>8 DEF Delays
    <3>2. pc'[w] = "SetScheduled" \/ (pc'[w] = "MarkFailed" /\ Fails("Schedule"))
      BY <1>1, <3>1 DEF Execute, ExecuteRegular, ExecuteDelay, Goto, Base, Typed, TypeOK
    <3>3. CASE pc'[w] = "SetScheduled"
      BY <3>1, <3>3 DEF PausesAt
    <3>4. CASE pc'[w] = "MarkFailed" /\ Fails("Schedule")
      <4>1. Struck' \cap AfterAcceptance # {}
        BY <3>4, FaultStrikes DEF AfterAcceptance, Base, Typed
      <4>2. CASE msg[w] \in StartMessages
        BY <1>1, <3>1, <3>4, <4>2 DEF PausesAt
      <4>3. CASE msg[w] \in ResumeMessages
        <5>1. msg[w].resumeFrom < idx[w] /\ msg[w].resumeFrom \in Delays
          BY <1>1, <4>3, ResumeIndex DEF Base, ResumeInv, ActionSteps
        <5>2. msg[w].resumeFrom \in Nat /\ d \in Nat
          BY <5>1, DelayIsIndex, IndexIsNat
        <5>3. SeveralDelays
          BY <3>1, <5>1, <5>2 DEF SeveralDelays
        <5>4. QED BY <3>1, <3>4, <4>1, <5>3 DEF PausesAt
      <4>4. QED BY <1>1, <4>2, <4>3 DEF Base, Typed, TypeOK, Messages
    <3>5. QED BY <3>2, <3>3, <3>4
  <2>9. \A m \in ResumesOf(r) : Waiting(m)' => Holds(w, m)'
    BY <1>1, <2>7 DEF Holds
  <2>10. /\ \A u, v \in Workers : Works(u, r)' /\ Works(v, r)' => u = v
         /\ \A v \in Workers, m \in ResumesOf(r) : Works(v, r)' /\ Waiting(m)' => msg'[v] = m
         /\ \A m, n \in ResumesOf(r) : Waiting(m)' /\ Waiting(n)' => m = n
    BY <1>1, <2>5, <2>6, <2>7
  <2>11. \A v \in Workers, d \in Delays :
           Works(v, r)' /\ Pending(r, d)' => idx'[v] = d /\ PausesAt(v)'
    BY <2>5, <2>6, <2>8
  <2>12. \A d, e \in Delays : Pending(r, d)' /\ Pending(r, e)' => d = e
    BY <2>3
  <2>13. QED BY <2>4, <2>9, <2>10, <2>11, <2>12 DEF OneToken, ResumesOf
<1>6. QED BY <1>4, <1>5

\* Nobody works on the run that the next delivery of a start message makes.
LEMMA NewRun ==
  ASSUME Base, HolderInv, NEW s \in Signals,
         NEW r \in Runs, r = <<s, receives[Start(s)] + 1>>
  PROVE  /\ Untouched(r)
         /\ \A w \in Workers : ~Works(w, r)
         /\ \A d \in Delays : ~Pending(r, d)
         /\ \A m \in ResumesOf(r) : ~Waiting(m)
<1>1. receives[Start(s)] \in Nat /\ r[1] = s /\ r[2] = receives[Start(s)] + 1
  <2>1. Start(s) \in Messages
    BY DEF Messages, StartMessages
  <2>2. QED BY <2>1, ConstantsAssumption DEF Base, Typed, TypeOK
<1>2. Untouched(r)
  BY <1>1 DEF Base, OwnerInv
<1>3. ASSUME NEW w \in Workers, Works(w, r)
      PROVE  FALSE
  <2>1. Owns(w)
    BY <1>2, <1>3, TouchedOrOwned DEF Works, Base
  <2>2. run[w][2] <= receives[Start(run[w][1])]
    BY <2>1 DEF Base, OwnerInv
  <2>3. QED BY <1>1, <1>3, <2>2 DEF Works
<1>4. \A d \in Delays : d \in Indices /\ performed[r][d] = 0 /\ fired[r][d] = 0
  <2>1. \A d \in Delays : d \in Indices /\ performed[r][d] = 0
    BY <1>2, DelayIsIndex DEF Untouched
  <2>2. \A d \in Delays : fired[r][d] \in Nat
    BY <2>1, ConstantsAssumption DEF Base, Typed, TypeOK
  <2>3. QED BY <2>1, <2>2 DEF HolderInv
<1>5. ASSUME NEW m \in ResumesOf(r), Waiting(m)
      PROVE  FALSE
  <2>1. m \in ResumeMessages /\ m.run = r /\ m.resumeFrom \in Delays
    BY ResumesAre, ResumeIndex
  <2>2. fired[r][m.resumeFrom] > 0
    BY <1>5, <2>1 DEF Base, OrderInv, Waiting
  <2>3. QED BY <1>4, <2>1, <2>2
<1>6. QED BY <1>2, <1>3, <1>4, <1>5 DEF Pending

\* Whoever receives a message is the only one to work on its run.
LEMMA FreeRun ==
  ASSUME Base, HolderInv, NEW m \in Messages, queue[m] = "visible", receives[m] < MaxReceives,
         OneToken(RunOf(m))
  PROVE  /\ \A w \in Workers : ~Works(w, RunOf(m))
         /\ \A d \in Delays : ~Pending(RunOf(m), d)
         /\ \A n \in ResumesOf(RunOf(m)) : Waiting(n) => n = m
<1>1. \A w \in Workers : ~Holds(w, m)
  BY DEF HolderInv, Holds
<1>2. CASE m \in StartMessages
  <2>1. PICK s \in Signals : m = Start(s)
    BY <1>2 DEF StartMessages
  <2>2. RunOf(m) = <<s, receives[Start(s)] + 1>> /\ RunOf(m) \in Runs
    BY <1>2, <2>1, RunOfTyped DEF RunOf, Start, Base
  <2>3. QED BY <2>2, NewRun
<1>3. CASE m \in ResumeMessages
  <2>1. m \in ResumesOf(RunOf(m)) /\ RunOf(m) \in Runs
    BY <1>3, RunOfTyped, ResumeIndex DEF ResumesOf, Base
  <2>2. Waiting(m)
    BY DEF Waiting
  <2>3. QED BY <1>1, <2>1, <2>2 DEF OneToken, Works, Holds
<1>4. QED BY <1>2, <1>3 DEF Messages

LEMMA TokenReceive ==
  ASSUME Base, HolderInv, NEW r \in Runs, OneToken(r), [Next]_vars,
         NEW w \in Workers, NEW m \in Messages, Receive(w, m)
  PROVE  OneToken(r)'
<1>1. /\ pc[w] = "idle" /\ queue[m] = "visible" /\ receives[m] < MaxReceives
      /\ queue' = [queue EXCEPT ![m] = "inflight"]
      /\ UNCHANGED <<fired, performed, idx>>
      /\ \/ UNCHANGED <<pc, msg, run>>
         \/ /\ pc' = [pc EXCEPT ![w] = "Fetch"]
            /\ msg' = [msg EXCEPT ![w] = m]
            /\ run' = [run EXCEPT ![w] = RunOf(m)]
  BY DEF Receive, Goto, delivery
<1>2. \A n \in Messages : Waiting(n)' <=> Waiting(n)
  BY <1>1 DEF Waiting, Base, Typed, TypeOK
<1>3. \A d \in Delays : Pending(r, d)' <=> Pending(r, d)
  BY <1>1 DEF Pending
<1>4. Struck \subseteq Struck'
  BY FaultsGrow DEF Base, Typed
<1>5. \A n \in ResumesOf(r) : n \in Messages
  BY ResumesAre
<1>6. CASE UNCHANGED <<pc, msg, run>>
  <2>1. \A v \in Workers : PausesAt(v) => PausesAt(v)'
    BY <1>4, <1>6 DEF PausesAt
  <2>2. QED BY <1>1, <1>2, <1>3, <1>5, <1>6, <2>1 DEF OneToken, Works, Holds, ResumesOf
<1>7. CASE /\ pc' = [pc EXCEPT ![w] = "Fetch"]
           /\ msg' = [msg EXCEPT ![w] = m]
           /\ run' = [run EXCEPT ![w] = RunOf(m)]
  <2>1. /\ pc'[w] = "Fetch" /\ msg'[w] = m /\ run'[w] = RunOf(m)
        /\ \A v \in Workers \ {w} : pc'[v] = pc[v] /\ msg'[v] = msg[v] /\ run'[v] = run[v]
    BY <1>7 DEF Base, Typed, TypeOK
  <2>2. \A v \in Workers : PausesAt(v) /\ v # w => PausesAt(v)'
    BY <1>4, <2>1 DEF PausesAt
  <2>3. \A n \in ResumesOf(r) : (\E v \in Workers : Holds(v, n)) => \E v \in Workers : Holds(v, n)'
    BY <1>1, <2>1 DEF Holds
  <2>4. CASE r # RunOf(m)
    <3>1. \A v \in Workers : Works(v, r)' => v # w /\ Works(v, r)
      BY <2>1, <2>4 DEF Works
    <3>2. \A v \in Workers, d \in Delays : Works(v, r)' /\ Pending(r, d)' => idx'[v] = d /\ PausesAt(v)'
      BY <1>1, <1>3, <2>2, <3>1 DEF OneToken
    <3>3. \A d \in Delays, n \in ResumesOf(r) :
            Pending(r, d)' /\ Waiting(n)' => \E v \in Workers : Holds(v, n)'
      BY <1>2, <1>3, <1>5, <2>3 DEF OneToken
    <3>4. /\ \A u, v \in Workers : Works(u, r)' /\ Works(v, r)' => u = v
          /\ \A v \in Workers, n \in ResumesOf(r) : Works(v, r)' /\ Waiting(n)' => msg'[v] = n
      BY <1>2, <1>5, <2>1, <3>1 DEF OneToken
    <3>5. QED BY <1>1, <1>2, <1>3, <1>5, <3>2, <3>3, <3>4 DEF OneToken, ResumesOf
  <2>5. CASE r = RunOf(m)
    <3>1. /\ \A v \in Workers : ~Works(v, r)
          /\ \A d \in Delays : ~Pending(r, d)
          /\ \A n \in ResumesOf(r) : Waiting(n) => n = m
      BY <1>1, <2>5, FreeRun
    <3>2. \A v \in Workers : Works(v, r)' => v = w
      BY <2>1, <3>1 DEF Works
    <3>3. \A v \in Workers, n \in ResumesOf(r) : Works(v, r)' /\ Waiting(n)' => msg'[v] = n
      BY <1>2, <1>5, <2>1, <3>1, <3>2
    <3>4. \A n, p \in ResumesOf(r) : Waiting(n)' /\ Waiting(p)' => n = p
      BY <1>2, <1>5, <3>1
    <3>5. QED BY <1>1, <1>3, <3>1, <3>2, <3>3, <3>4 DEF OneToken, ResumesOf
  <2>6. QED BY <2>4, <2>5
<1>8. QED BY <1>1, <1>6, <1>7

LEMMA TokenQueue ==
  ASSUME Base, NEW r \in Runs, OneToken(r), [Next]_vars,
         NEW m \in Messages, BecomeVisible(m) \/ MoveToDeadLetters(m)
  PROVE  OneToken(r)'
<1>1. /\ UNCHANGED <<fired, performed, pc, msg, run, idx>>
      /\ \/ queue' = [queue EXCEPT ![m] = "visible"] /\ queue[m] = "inflight"
         \/ queue' = [queue EXCEPT ![m] = "dead"]
  BY DEF BecomeVisible, MoveToDeadLetters, delivery
<1>2. \A n \in ResumesOf(r) : Waiting(n)' => Waiting(n)
  BY <1>1, ResumesAre DEF Waiting, Base, Typed, TypeOK
<1>3. Struck \subseteq Struck'
  BY FaultsGrow DEF Base, Typed
<1>4. \A v \in Workers : PausesAt(v) => PausesAt(v)'
  BY <1>1, <1>3 DEF PausesAt
<1>5. /\ \A v \in Workers : Works(v, r)' <=> Works(v, r)
      /\ \A v \in Workers : \A n : Holds(v, n)' <=> Holds(v, n)
      /\ \A d \in Delays : Pending(r, d)' <=> Pending(r, d)
  BY <1>1 DEF Works, Holds, Pending
<1>6. \A v \in Workers, d \in Delays : Works(v, r)' /\ Pending(r, d)' => idx'[v] = d /\ PausesAt(v)'
  BY <1>1, <1>4, <1>5 DEF OneToken
<1>7. \A d \in Delays, n \in ResumesOf(r) :
        Pending(r, d)' /\ Waiting(n)' => \E v \in Workers : Holds(v, n)'
  BY <1>2, <1>5 DEF OneToken
<1>8. QED BY <1>1, <1>2, <1>5, <1>6, <1>7 DEF OneToken, ResumesOf

\* A job fires when nobody works on its run and no message of it waits.
LEMMA TokenFire ==
  ASSUME Base, HolderInv, NEW r \in Runs, OneToken(r), Calm', [Next]_vars,
         NEW q \in Runs, NEW d \in Delays, FireJob(q, d)
  PROVE  OneToken(r)'
<1> DEFINE new == Resume(q, d, fired[q][d] + 1)
<1>1. /\ UNCHANGED <<performed, pc, msg, run, idx>>
      /\ ~Fails("EarlyFire") /\ ~Fails("Duplicate")
  BY FaultStrikes DEF FireJob, delivery, Calm, Redelivery, Base, Typed
<1>2. fired[q][d] < performed[q][d] /\ ~StillPausing(q, d)
  BY <1>1 DEF FireJob
<1>3. /\ fired[q][d] \in Nat /\ new \in ResumeMessages /\ new \in Messages
      /\ queue[new] = "absent"
      /\ queue' = [queue EXCEPT ![new] = "visible"]
      /\ \A p \in Runs, e \in Indices :
           fired'[p][e] = IF p = q /\ e = d THEN fired[q][d] + 1 ELSE fired[p][e]
  BY JobIsNew DEF Base
<1>4. new.run = q
  BY ResumeParts
<1> HIDE DEF new
<1>5. \A m \in Messages : Waiting(m)' <=> (Waiting(m) \/ m = new)
  BY <1>3 DEF Waiting, Base, Typed, TypeOK
<1>6. Struck \subseteq Struck'
  BY FaultsGrow DEF Base, Typed
<1>7. \A v \in Workers : PausesAt(v) => PausesAt(v)'
  BY <1>1, <1>6 DEF PausesAt
<1>8. /\ \A v \in Workers : Works(v, r)' <=> Works(v, r)
      /\ \A v \in Workers : \A n : Holds(v, n)' <=> Holds(v, n)
  BY <1>1 DEF Works, Holds
<1>9. \A m \in ResumesOf(r) : m \in Messages /\ m.run = r /\ m \in ResumeMessages
  BY ResumesAre
<1>10. CASE r # q
  <2>1. \A e \in Delays : fired'[r][e] = fired[r][e] /\ (Pending(r, e)' <=> Pending(r, e))
    BY <1>1, <1>3, <1>10, DelayIsIndex DEF Pending
  <2>2. \A m \in ResumesOf(r) : Waiting(m)' <=> Waiting(m)
    BY <1>4, <1>5, <1>9, <1>10
  <2>3. \A v \in Workers, e \in Delays : Works(v, r)' /\ Pending(r, e)' => idx'[v] = e /\ PausesAt(v)'
    BY <1>1, <1>7, <1>8, <2>1 DEF OneToken
  <2>4. \A e \in Delays, n \in ResumesOf(r) :
          Pending(r, e)' /\ Waiting(n)' => \E v \in Workers : Holds(v, n)'
    BY <1>8, <2>1, <2>2 DEF OneToken
  <2>5. QED BY <1>1, <1>8, <2>1, <2>2, <2>3, <2>4 DEF OneToken, ResumesOf
<1>11. CASE r = q
  <2>1. Pending(r, d)
    BY <1>2, <1>11 DEF Pending
  <2>2. \A v \in Workers : ~Works(v, r)
    BY <1>2, <1>11, <2>1 DEF OneToken, Works, StillPausing
  <2>3. \A m \in ResumesOf(r) : ~Waiting(m)
    BY <2>1, <2>2, HolderWorks DEF OneToken, Base
  <2>4. \A e \in Delays : /\ e \in Indices
                          /\ performed[r][e] \in Nat /\ fired[r][e] \in Nat
                          /\ performed[r][e] <= fired[r][e] + 1
                          /\ Pending(r, e) => e = d
    <3>1. \A e \in Delays : /\ e \in Indices
                            /\ performed[r][e] \in Nat /\ fired[r][e] \in Nat
      BY DelayIsIndex, ConstantsAssumption DEF Base, Typed, TypeOK
    <3>2. QED BY <2>1, <3>1 DEF OneToken
  <2>5. \A e \in Delays : ~Pending(r, e)'
    BY <1>1, <1>3, <1>11, <2>4 DEF Pending
  <2>6. \A e \in Delays : performed'[r][e] <= fired'[r][e] + 1
    BY <1>1, <1>3, <1>11, <2>4
  <2>7. \A m, n \in ResumesOf(r) : Waiting(m)' /\ Waiting(n)' => m = n
    BY <1>5, <1>9, <2>3
  <2>8. QED BY <1>8, <2>2, <2>5, <2>6, <2>7 DEF OneToken, ResumesOf
<1>12. QED BY <1>10, <1>11

LEMMA TokenStep ==
  ASSUME Base, HolderInv, NEW r \in Runs, OneToken(r), InStep(r), Exclusive(r)', [Next]_vars
  PROVE  OneToken(r)'
<1>0. Calm'
  BY DEF Exclusive
<1>1. CASE Next
  BY <1>0, <1>1, NextCases, TokenWrite, TokenTurn, TokenCreate, TokenExecute, TokenDelete,
     TokenReceive, TokenQueue, TokenFire
<1>2. CASE UNCHANGED vars
  BY <1>2 DEF vars, OneToken, Works, Holds, Pending, Waiting, ResumesOf, PausesAt, Struck
<1>3. QED BY <1>1, <1>2

(***************************************************************************)
(* The only worker of a run keeps a copy that is the row as it stands,     *)
(* until one of its writes fails.                                          *)
(***************************************************************************)

\* A step that leaves the rows and the copies alone.
LEMMA InStepFrame ==
  ASSUME NEW r, InStep(r), Struck \subseteq Struck', UNCHANGED <<row, mine>>,
         \A v \in Workers : Works(v, r)' /\ pc'[v] \in HasCopy =>
           /\ Works(v, r) /\ run'[v] = run[v]
           /\ \/ pc'[v] = pc[v]
              \/ /\ pc[v] \in HasCopy
                 /\ pc'[v] \in {"LogStarted", "Execute", "SetScheduled"} =>
                      pc[v] \in {"LogStarted", "Execute", "SetScheduled"}
  PROVE  InStep(r)'
<1> SUFFICES ASSUME NEW v \in Workers, Works(v, r)',
                    \/ pc'[v] \in {"LogStarted", "Execute", "SetScheduled"}
                    \/ pc'[v] \in HasCopy /\ Struck' \cap WriteErrors = {}
             PROVE  LockHolds(v)'
  BY DEF InStep
<1>1. Works(v, r) /\ run'[v] = run[v]
  BY DEF HasCopy, ActionSteps
<1>2. \/ pc[v] \in {"LogStarted", "Execute", "SetScheduled"}
      \/ pc[v] \in HasCopy /\ Struck \cap WriteErrors = {}
  BY DEF HasCopy, ActionSteps
<1>3. LockHolds(v)
  BY <1>1, <1>2 DEF InStep
<1>4. QED BY <1>1, <1>3 DEF LockHolds

LEMMA InStepWrite ==
  ASSUME Base, NEW r \in Runs, OneToken(r), InStep(r), Exclusive(r)', [Next]_vars,
         NEW w \in Workers, Writes(w)
  PROVE  InStep(r)'
<1>1. /\ Alone(w) /\ pc[w] # "idle" /\ run' = run
  BY WriteMoves, MovesAlone DEF Base, Moves
<1>2. PICK new \in Rows :
        /\ new.status = StatusWritten(w)
        /\ IF pc[w] \in Guarded
           THEN \/ Stored(w, new) /\ pc'[w] \notin {"MarkFailed", "Failed"}
                \/ NotStored(w, new, "Update") /\ pc'[w] \in {"MarkFailed", "Failed"}
           ELSE Stored(w, new) \/ NotStored(w, new, "IgnoredUpdate")
  BY WriteOutcome DEF Base
<1>3. /\ run[w] \in Runs /\ pc[w] \in HasCopy
      /\ mine' = [mine EXCEPT ![w] = new]
      /\ row' = row \/ row' = [row EXCEPT ![run[w]] = new]
  <2>1. pc[w] \in HasCopy
    BY WritesAreWriteSteps DEF WriteStep, Base
  <2>2. QED BY <1>1, <1>2, <2>1 DEF Stored, NotStored, Take, Base, Typed, TypeOK
<1>4. Struck \subseteq Struck'
  BY FaultsGrow DEF Base, Typed
<1> SUFFICES ASSUME NEW v \in Workers, Works(v, r)',
                    \/ pc'[v] \in {"LogStarted", "Execute", "SetScheduled"}
                    \/ pc'[v] \in HasCopy /\ Struck' \cap WriteErrors = {}
             PROVE  LockHolds(v)'
  BY DEF InStep
<1>5. CASE v # w
  <2>1. Works(v, r) /\ run'[v] = run[v] /\ pc'[v] = pc[v] /\ mine'[v] = mine[v]
    BY <1>1, <1>5 DEF Works, Alone
  <2>2. run[w] # r
    BY <1>1, <1>5, <2>1 DEF OneToken, Works
  <2>3. row'[r] = row[r]
    BY <1>3, <2>2 DEF Base, Typed, TypeOK
  <2>4. LockHolds(v)
    BY <1>4, <2>1 DEF InStep
  <2>5. QED BY <2>1, <2>3, <2>4 DEF LockHolds, Works
<1>6. CASE v = w
  <2>0. Works(w, r) /\ run[w] = r
    BY <1>1, <1>6 DEF Works
  <2>1. ASSUME Stored(w, new)
        PROVE  LockHolds(w)'
    <3>1. row'[r] = new /\ mine'[w] = new
      BY <1>3, <2>0, <2>1 DEF Stored, Base, Typed, TypeOK
    <3>2. QED BY <1>1, <2>0, <3>1 DEF LockHolds
  <2>2. CASE pc'[w] \in {"LogStarted", "Execute", "SetScheduled"}
    <3>1. pc[w] \in Guarded /\ pc'[w] \notin {"MarkFailed", "Failed"}
      BY <2>2, WriteMoves DEF StepAt, Guarded, Base
    <3>2. QED BY <1>2, <1>6, <2>1, <3>1
  <2>3. CASE Struck' \cap WriteErrors = {}
    <3>1. LockHolds(w)
      BY <1>3, <1>4, <2>0, <2>3 DEF InStep
    <3>2. ~Fails("Update") /\ ~Fails("IgnoredUpdate") /\ ~Fails("UpdateReply")
      BY <2>3, FaultStrikes DEF WriteErrors, Base, Typed
    <3>3. Stored(w, new)
      BY <1>2, <3>1, <3>2 DEF NotStored
    <3>4. QED BY <1>6, <2>1, <3>3
  <2>4. QED BY <1>6, <2>2, <2>3
<1>7. QED BY <1>5, <1>6

LEMMA InStepTurn ==
  ASSUME Base, NEW r \in Runs, InStep(r), [Next]_vars, NEW w \in Workers, Turns(w)
  PROVE  InStep(r)'
<1>1. /\ Alone(w) /\ pc[w] # "idle"
      /\ pc'[w] = "idle" \/ (msg'[w] = msg[w] /\ run'[w] = run[w])
  BY MovesAlone DEF Base, Moves
<1>2. Struck \subseteq Struck'
  BY FaultsGrow DEF Base, Typed
<1>3. row' = row
  BY DEF Turns, Fetch, Evaluate, GetRun, LogStarted, LogScheduled, Failed, Crash, table
<1>4. CASE GetRun(w)
  <2> SUFFICES ASSUME NEW v \in Workers, Works(v, r)',
                      \/ pc'[v] \in {"LogStarted", "Execute", "SetScheduled"}
                      \/ pc'[v] \in HasCopy /\ Struck' \cap WriteErrors = {}
               PROVE  LockHolds(v)'
    BY DEF InStep
  <2>1. CASE v = w
    <3>1. pc'[w] \in HasCopy
      BY <2>1 DEF HasCopy, ActionSteps
    <3>2. mine'[w] = row[run[w]] /\ run'[w] = run[w]
      BY <1>4, <3>1 DEF GetRun, Goto, delivery, HasCopy, ActionSteps, Base, Typed, TypeOK
    <3>3. QED BY <1>3, <2>1, <3>2 DEF LockHolds
  <2>2. CASE v # w
    <3>1. /\ Works(v, r) /\ run'[v] = run[v] /\ pc'[v] = pc[v] /\ mine'[v] = mine[v]
      BY <1>1, <2>2 DEF Works, Alone
    <3>2. LockHolds(v)
      BY <1>2, <3>1 DEF InStep
    <3>3. QED BY <1>3, <3>1, <3>2 DEF LockHolds
  <2>3. QED BY <2>1, <2>2
<1>5. CASE Failed(w) \/ Crash(w)
  <2>1. pc'[w] = "idle"
    BY <1>5 DEF Failed, Crash, Release, Goto, Base, Typed, TypeOK
  <2> SUFFICES ASSUME NEW v \in Workers, Works(v, r)',
                      \/ pc'[v] \in {"LogStarted", "Execute", "SetScheduled"}
                      \/ pc'[v] \in HasCopy /\ Struck' \cap WriteErrors = {}
               PROVE  LockHolds(v)'
    BY DEF InStep
  <2>2. v # w
    BY <2>1 DEF Works
  <2>3. /\ Works(v, r) /\ run'[v] = run[v] /\ pc'[v] = pc[v] /\ mine'[v] = mine[v]
    BY <1>1, <2>2 DEF Works, Alone
  <2>4. LockHolds(v)
    BY <1>2, <2>3 DEF InStep
  <2>5. QED BY <1>3, <2>3, <2>4 DEF LockHolds
<1>6. CASE Fetch(w) \/ Evaluate(w) \/ LogStarted(w) \/ LogScheduled(w)
  <2>1. UNCHANGED <<row, mine>>
    BY <1>3, <1>6 DEF Fetch, Evaluate, LogStarted, LogScheduled
  <2>2. \/ pc'[w] \notin HasCopy
        \/ /\ pc[w] \in HasCopy
           /\ pc'[w] \in {"LogStarted", "Execute", "SetScheduled"} =>
                pc[w] \in {"LogStarted", "Execute", "SetScheduled"}
    BY <1>6 DEF Fetch, Evaluate, LogStarted, LogScheduled, Goto, StepAt, HasCopy, ActionSteps,
                Base, Typed, TypeOK
  <2>3. \A v \in Workers : Works(v, r)' /\ pc'[v] \in HasCopy =>
          /\ Works(v, r) /\ run'[v] = run[v]
          /\ \/ pc'[v] = pc[v]
             \/ /\ pc[v] \in HasCopy
                /\ pc'[v] \in {"LogStarted", "Execute", "SetScheduled"} =>
                     pc[v] \in {"LogStarted", "Execute", "SetScheduled"}
    <3> SUFFICES ASSUME NEW v \in Workers, Works(v, r)', pc'[v] \in HasCopy
                 PROVE  /\ Works(v, r) /\ run'[v] = run[v]
                        /\ \/ pc'[v] = pc[v]
                           \/ /\ pc[v] \in HasCopy
                              /\ pc'[v] \in {"LogStarted", "Execute", "SetScheduled"} =>
                                   pc[v] \in {"LogStarted", "Execute", "SetScheduled"}
      OBVIOUS
    <3>1. CASE v = w
      BY <1>1, <2>2, <3>1 DEF Works
    <3>2. CASE v # w
      BY <1>1, <3>2 DEF Works, Alone
    <3>3. QED BY <3>1, <3>2
  <2>4. QED BY <1>2, <2>1, <2>3, InStepFrame
<1>7. QED BY <1>4, <1>5, <1>6 DEF Turns

LEMMA InStepCreate ==
  ASSUME Base, NEW r \in Runs, OneToken(r), InStep(r), [Next]_vars,
         NEW w \in Workers, CreateRun(w)
  PROVE  InStep(r)'
<1>1. /\ Alone(w) /\ pc[w] # "idle" /\ run' = run /\ run[w] \in Runs
  BY CreateMoves, MovesAlone DEF Base, Moves, Typed, TypeOK
<1>2. PICK new :
        /\ mine' = [mine EXCEPT ![w] = new]
        /\ \/ row' = [row EXCEPT ![run[w]] = new]
           \/ row' = row /\ Goto(w, "Failed")
  BY DEF CreateRun, Take
<1>3. Struck \subseteq Struck'
  BY FaultsGrow DEF Base, Typed
<1> SUFFICES ASSUME NEW v \in Workers, Works(v, r)',
                    \/ pc'[v] \in {"LogStarted", "Execute", "SetScheduled"}
                    \/ pc'[v] \in HasCopy /\ Struck' \cap WriteErrors = {}
             PROVE  LockHolds(v)'
  BY DEF InStep
<1>4. CASE v = w
  <2>1. pc'[w] # "Failed"
    BY <1>4 DEF HasCopy, ActionSteps
  <2>2. row'[run[w]] = new /\ mine'[w] = new
    BY <1>1, <1>2, <2>1 DEF Goto, Base, Typed, TypeOK
  <2>3. QED BY <1>1, <1>4, <2>2 DEF LockHolds
<1>5. CASE v # w
  <2>1. Works(v, r) /\ run'[v] = run[v] /\ pc'[v] = pc[v] /\ mine'[v] = mine[v]
    BY <1>1, <1>5 DEF Works, Alone
  <2>2. run[w] # r
    BY <1>1, <1>5, <2>1 DEF OneToken, Works
  <2>3. row'[r] = row[r]
    BY <1>2, <2>2 DEF Base, Typed, TypeOK
  <2>4. LockHolds(v)
    BY <1>3, <2>1 DEF InStep
  <2>5. QED BY <2>1, <2>3, <2>4 DEF LockHolds, Works
<1>6. QED BY <1>4, <1>5

LEMMA InStepRest ==
  ASSUME Base, NEW r \in Runs, InStep(r), [Next]_vars,
         \/ \E w \in Workers : Execute(w) \/ Delete(w)
         \/ \E w \in Workers, m \in Messages : Receive(w, m)
         \/ \E m \in Messages : BecomeVisible(m) \/ MoveToDeadLetters(m)
         \/ \E q \in Runs, d \in Delays : FireJob(q, d)
  PROVE  InStep(r)'
<1>1. Struck \subseteq Struck' /\ row' = row
  BY FaultsGrow DEF Base, Typed, Execute, Delete, Receive, BecomeVisible, MoveToDeadLetters,
                    FireJob, table
<1>2. ASSUME NEW w \in Workers, Execute(w)
      PROVE  InStep(r)'
  <2>1. /\ Alone(w) /\ mine' = mine /\ pc[w] = "Execute" /\ UNCHANGED <<run>>
    BY <1>2, ExecuteMoves, MovesAlone DEF Base, Moves, Execute
  <2>2. \A v \in Workers : Works(v, r)' /\ pc'[v] \in HasCopy =>
          /\ Works(v, r) /\ run'[v] = run[v]
          /\ \/ pc'[v] = pc[v]
             \/ /\ pc[v] \in HasCopy
                /\ pc'[v] \in {"LogStarted", "Execute", "SetScheduled"} =>
                     pc[v] \in {"LogStarted", "Execute", "SetScheduled"}
    BY <2>1 DEF Works, Alone, HasCopy, ActionSteps
  <2>3. QED BY <1>1, <2>1, <2>2, InStepFrame
<1>3. ASSUME NEW w \in Workers, Delete(w)
      PROVE  InStep(r)'
  <2>1. /\ Alone(w) /\ pc'[w] = "idle"
    BY <1>3, MovesAlone DEF Base, Moves, Delete, Release, Goto, Typed, TypeOK
  <2> SUFFICES ASSUME NEW v \in Workers, Works(v, r)',
                      \/ pc'[v] \in {"LogStarted", "Execute", "SetScheduled"}
                      \/ pc'[v] \in HasCopy /\ Struck' \cap WriteErrors = {}
               PROVE  LockHolds(v)'
    BY DEF InStep
  <2>2. Works(v, r) /\ run'[v] = run[v] /\ pc'[v] = pc[v] /\ mine'[v] = mine[v]
    BY <2>1 DEF Works, Alone
  <2>3. LockHolds(v)
    BY <1>1, <2>2 DEF InStep
  <2>4. QED BY <1>1, <2>2, <2>3 DEF LockHolds
<1>4. ASSUME NEW w \in Workers, NEW m \in Messages, Receive(w, m)
      PROVE  InStep(r)'
  <2>1. /\ mine' = mine
        /\ \A v \in Workers : \/ pc'[v] = pc[v] /\ run'[v] = run[v]
                              \/ pc'[v] = "Fetch"
    BY <1>4 DEF Receive, Goto, delivery, Base, Typed, TypeOK
  <2>2. \A v \in Workers : pc'[v] \in HasCopy => pc'[v] # "Fetch"
    BY DEF HasCopy, ActionSteps
  <2>3. \A v \in Workers : Works(v, r)' /\ pc'[v] \in HasCopy =>
          Works(v, r) /\ run'[v] = run[v] /\ pc'[v] = pc[v]
    BY <2>1, <2>2 DEF Works
  <2>4. QED BY <1>1, <2>1, <2>3, InStepFrame
<1>5. ASSUME \/ \E m \in Messages : BecomeVisible(m) \/ MoveToDeadLetters(m)
             \/ \E q \in Runs, d \in Delays : FireJob(q, d)
      PROVE  InStep(r)'
  <2>1. UNCHANGED <<mine, pc, run>>
    BY <1>5 DEF BecomeVisible, MoveToDeadLetters, FireJob, delivery
  <2>2. QED BY <1>1, <2>1, InStepFrame DEF Works
<1>6. QED BY <1>2, <1>3, <1>4, <1>5

LEMMA InStepStep ==
  ASSUME Base, NEW r \in Runs, OneToken(r), InStep(r), Exclusive(r)', [Next]_vars
  PROVE  InStep(r)'
<1>1. CASE Next
  BY <1>1, NextCases, InStepWrite, InStepTurn, InStepCreate, InStepRest
<1>2. CASE UNCHANGED vars
  BY <1>2 DEF vars, InStep, Works, LockHolds, Struck
<1>3. QED BY <1>1, <1>2

\* The invariant that the theorems below rest on.
TokensInv == Base /\ (Calm => HolderInv) /\ TokenInv

LEMMA TokensInit ==
  ASSUME Init
  PROVE  TokensInv
<1>1. \A w \in Workers : pc[w] = "idle"
  BY DEF Init
<1>2. \A r \in Runs, d \in Delays : fired[r][d] = 0 /\ performed[r][d] = 0
  BY DelayIsIndex DEF Init
<1>3. \A r : \A m \in ResumesOf(r) : queue[m] = "absent"
  BY ResumesAre DEF Init
<1>4. ASSUME NEW r \in Runs
      PROVE  OneToken(r) /\ InStep(r)
  BY <1>1, <1>2, <1>3 DEF OneToken, InStep, Works, Pending, Waiting
<1>5. QED BY <1>4, BaseInit, HolderInit DEF TokensInv, TokenInv

LEMMA TokensStep ==
  ASSUME TokensInv, [Next]_vars
  PROVE  TokensInv'
<1>1. Base'
  BY BaseStep DEF TokensInv
<1>2. Calm' => Calm /\ HolderInv'
  BY CalmBefore, HolderStep DEF TokensInv, Base, Typed
<1>3. ASSUME NEW r \in Runs, Exclusive(r)'
      PROVE  OneToken(r)' /\ InStep(r)'
  <2>1. Exclusive(r) /\ Calm
    BY <1>3, ExclusiveBefore DEF TokensInv, Exclusive
  <2>2. OneToken(r) /\ InStep(r) /\ HolderInv
    BY <2>1 DEF TokensInv, TokenInv
  <2>3. QED BY <1>3, <2>2, TokenStep, InStepStep DEF TokensInv
<1>4. QED BY <1>1, <1>2, <1>3 DEF TokensInv, TokenInv

LEMMA AlwaysTokens == Spec => []TokensInv
<1>1. QED BY TokensInit, TokensStep, PTL DEF Spec

(***************************************************************************)
(* A run that is COMPLETED is not written again.  Nobody is left who would *)
(* write it: its worker deletes its message, no job of it is pending, and  *)
(* no other message of it waits.                                           *)
(***************************************************************************)
MadeInv == \A r \in Runs : row[r] # NoRow => r[2] <= receives[Start(r[1])]

LEMMA MadeInit ==
  ASSUME Init
  PROVE  MadeInv
  BY DEF Init, MadeInv

LEMMA MadeStep ==
  ASSUME Base, MadeInv, [Next]_vars
  PROVE  MadeInv'
<1>1. \A r \in Runs : /\ Start(r[1]) \in Messages /\ r[2] \in Nat
                      /\ receives[Start(r[1])] \in Nat
  <2>1. \A r \in Runs : Start(r[1]) \in Messages /\ r[2] \in Nat
    BY DEF Messages, StartMessages, Runs
  <2>2. QED BY <2>1, ConstantsAssumption DEF Base, Typed, TypeOK
<1>2. ASSUME NEW w \in Workers, Writes(w)
      PROVE  MadeInv'
  <2>1. PICK new \in Rows, next \in AfterWrite, i \in Nat : WriteStep(w, new, next, i)
    BY <1>2, WritesAreWriteSteps DEF Base
  <2>2. /\ receives' = receives /\ row[run[w]] \in Rows
        /\ row' = row \/ row' = [row EXCEPT ![run[w]] = new]
    BY <2>1 DEF WriteStep, Wrote, Base, Typed, WorkerInv
  <2>3. \A r \in Runs : row'[r] # NoRow => row[r] # NoRow
    BY <2>2, NoRowIsNoRow DEF Base, Typed, TypeOK
  <2>4. QED BY <2>2, <2>3 DEF MadeInv
<1>3. ASSUME NEW w \in Workers, CreateRun(w)
      PROVE  MadeInv'
  <2>1. /\ receives' = receives /\ Owns(w)
        /\ row' = row \/ row' = [row EXCEPT ![run[w]] = row'[run[w]]]
    BY <1>3 DEF CreateRun, sqs, Owns, Base, Typed, TypeOK, WorkerInv
  <2>2. run[w][2] <= receives[Start(run[w][1])]
    BY <2>1 DEF Base, OwnerInv
  <2>3. \A r \in Runs : row'[r] # NoRow => row[r] # NoRow \/ r = run[w]
    BY <2>1 DEF Base, Typed, TypeOK
  <2>4. QED BY <2>1, <2>2, <2>3 DEF MadeInv
<1>4. ASSUME \/ \E w \in Workers : Turns(w) \/ Execute(w) \/ Delete(w)
             \/ \E m \in Messages : BecomeVisible(m) \/ MoveToDeadLetters(m)
             \/ \E q \in Runs, i \in Delays : FireJob(q, i)
      PROVE  MadeInv'
  <2>1. row' = row /\ receives' = receives
    BY <1>4 DEF Turns, Fetch, Evaluate, GetRun, LogStarted, LogScheduled, Failed, Crash,
                Execute, Delete, BecomeVisible, MoveToDeadLetters, FireJob, table, sqs
  <2>2. QED BY <2>1 DEF MadeInv
<1>5. ASSUME NEW w \in Workers, NEW m \in Messages, Receive(w, m)
      PROVE  MadeInv'
  <2>1. row' = row /\ receives' = [receives EXCEPT ![m] = @ + 1]
    BY <1>5 DEF Receive, table
  <2>2. \A n \in Messages : receives'[n] = receives[n] \/ receives'[n] = receives[n] + 1
    BY <2>1 DEF Base, Typed, TypeOK
  <2>3. QED BY <1>1, <2>1, <2>2 DEF MadeInv
<1>6. CASE UNCHANGED vars
  BY <1>6 DEF vars, MadeInv
<1>7. QED BY <1>2, <1>3, <1>4, <1>5, <1>6, NextCases

Undisturbed == Calm /\ (SeveralDelays => Struck \cap AfterAcceptance = {})

Ended(r) ==
  /\ row[r].status = "COMPLETED" =>
       /\ \A w \in Workers : Works(w, r) => pc[w] = "Delete"
       /\ \A d \in Delays : ~Pending(r, d)
       /\ \A m \in ResumesOf(r) : Waiting(m) => \E w \in Workers : Holds(w, m)
  /\ \A w \in Workers : Works(w, r) /\ pc[w] \in HasCopy => mine[w].status # "COMPLETED"

EndInv == TokensInv /\ MadeInv /\ (Undisturbed => \A r \in Runs : Ended(r))

LEMMA CompletedKept ==
  ASSUME Base, NEW r \in Runs, Ended(r), row[r].status = "COMPLETED", [Next]_vars
  PROVE  row'[r] = row[r]
<1>1. ASSUME NEW w \in Workers, Writes(w)
      PROVE  row'[r] = row[r]
  <2>1. PICK new \in Rows, next \in AfterWrite, i \in Nat : WriteStep(w, new, next, i)
    BY <1>1, WritesAreWriteSteps DEF Base
  <2>2. pc[w] \in HasCopy /\ (row' = row \/ row' = [row EXCEPT ![run[w]] = new])
    BY <2>1 DEF WriteStep, Wrote
  <2>3. run[w] # r
    BY <2>2 DEF Ended, Works, HasCopy, ActionSteps
  <2>4. QED BY <2>2, <2>3 DEF Base, Typed, TypeOK
<1>2. ASSUME NEW w \in Workers, CreateRun(w)
      PROVE  row'[r] = row[r]
  <2>1. pc[w] = "CreateRun" /\ (row' = row \/ \E x : row' = [row EXCEPT ![run[w]] = x])
    BY <1>2 DEF CreateRun
  <2>2. run[w] # r
    BY <2>1 DEF Ended, Works
  <2>3. QED BY <2>1, <2>2 DEF Base, Typed, TypeOK
<1>3. ASSUME \/ \E w \in Workers : Turns(w) \/ Execute(w) \/ Delete(w)
             \/ \E w \in Workers, m \in Messages : Receive(w, m)
             \/ \E m \in Messages : BecomeVisible(m) \/ MoveToDeadLetters(m)
             \/ \E q \in Runs, i \in Delays : FireJob(q, i)
             \/ UNCHANGED vars
      PROVE  row'[r] = row[r]
  BY <1>3 DEF Turns, Fetch, Evaluate, GetRun, LogStarted, LogScheduled, Failed, Crash,
              Execute, Delete, Receive, BecomeVisible, MoveToDeadLetters, FireJob, table, vars
<1>4. QED BY <1>1, <1>2, <1>3, NextCases

Quiet(r) ==
  /\ \A w \in Workers : Works(w, r) => pc[w] = "Delete"
  /\ \A d \in Delays : ~Pending(r, d)
  /\ \A m \in ResumesOf(r) : Waiting(m) => \E w \in Workers : Holds(w, m)

\* Nobody starts to work again on a run that is quiet.
LEMMA QuietMoves ==
  ASSUME Base, HolderInv, Calm', NEW r \in Runs, Quiet(r), NEW w \in Workers, Moves(w)
  PROVE  Quiet(r)'
<1>1. /\ Alone(w) /\ pc[w] # "idle" /\ fired' = fired /\ msg[w] \in Messages
      /\ pc'[w] = "idle" \/ (msg'[w] = msg[w] /\ run'[w] = run[w])
  BY MovesAlone DEF Base, Typed, TypeOK
<1>2. ~Fails("Delete") /\ ~Crash(w)
  BY FaultStrikes DEF Crash, Calm, Redelivery, Base, Typed
<1>3. Works(w, r) => Delete(w)
  <2>1. Works(w, r) => pc[w] = "Delete"
    BY DEF Quiet
  <2>2. pc[w] = "Delete" => ~Writes(w) /\ ~CreateRun(w) /\ ~Execute(w)
    BY WriteMoves, CreateMoves, ExecuteMoves DEF Base
  <2>3. pc[w] = "Delete" => ~Turns(w)
    BY <1>2 DEF Turns, Fetch, Evaluate, GetRun, LogStarted, LogScheduled, Failed
  <2>4. QED BY <2>1, <2>2, <2>3 DEF Moves
<1>4. Delete(w) => pc'[w] = "idle" /\ queue' = [queue EXCEPT ![msg[w]] = "deleted"]
  <2>1. queue[msg[w]] = "inflight"
    BY <1>1 DEF HolderInv
  <2>2. QED BY <1>1, <1>2, <2>1 DEF Delete, Release, Goto, Base, Typed, TypeOK
<1>5. \A m \in Messages : Waiting(m)' => Waiting(m) /\ (Delete(w) => m # msg[w])
  <2>1. CASE Delete(w)
    BY <1>1, <1>4, <2>1 DEF Waiting, Base, Typed, TypeOK
  <2>2. CASE ~Delete(w)
    <3>1. queue' = queue
      BY <2>2, WriteMoves, TurnMoves, CreateMoves, ExecuteMoves DEF Moves, Base
    <3>2. QED BY <2>2, <3>1 DEF Waiting
  <2>3. QED BY <2>1, <2>2
<1>6. performed'[r] = performed[r]
  <2>1. CASE Execute(w)
    <3>1. run[w] # r
      BY <1>1, <1>3, <2>1, ExecuteMoves DEF Works, Delete, Base
    <3>2. QED BY <2>1, <3>1, ExecuteMoves DEF Base
  <2>2. CASE ~Execute(w)
    BY <2>2, NoEffects DEF Moves, Base
  <2>3. QED BY <2>1, <2>2
<1>7. \A v \in Workers : Works(v, r)' => Works(v, r) /\ v # w /\ pc'[v] = pc[v]
  BY <1>1, <1>3, <1>4 DEF Works, Alone
<1>8. ASSUME NEW m \in ResumesOf(r), Waiting(m)'
      PROVE  \E v \in Workers : Holds(v, m)'
  <2>1. m \in Messages
    BY ResumesAre
  <2>2. PICK v \in Workers : Holds(v, m)
    BY <1>5, <1>8, <2>1 DEF Quiet
  <2>3. v # w
    <3>1. v = w => Works(w, r) /\ msg[w] = m
      BY <2>2, HolderWorks DEF Holds, Base
    <3>2. QED BY <1>3, <1>5, <1>8, <2>1, <3>1
  <2>4. QED BY <1>1, <2>2, <2>3 DEF Holds, Alone
<1>9. QED BY <1>1, <1>6, <1>7, <1>8 DEF Quiet, Pending, ResumesOf

LEMMA QuietReceive ==
  ASSUME Base, HolderInv, MadeInv, NEW r \in Runs, row[r] # NoRow, Quiet(r),
         NEW w \in Workers, NEW m \in Messages, Receive(w, m)
  PROVE  Quiet(r)'
<1>1. /\ pc[w] = "idle" /\ queue[m] = "visible" /\ receives[m] < MaxReceives
      /\ queue' = [queue EXCEPT ![m] = "inflight"]
      /\ UNCHANGED <<fired, performed>>
      /\ \/ UNCHANGED <<pc, msg, run>>
         \/ /\ pc' = [pc EXCEPT ![w] = "Fetch"]
            /\ msg' = [msg EXCEPT ![w] = m]
            /\ run' = [run EXCEPT ![w] = RunOf(m)]
  BY DEF Receive, Goto, delivery
<1>2. RunOf(m) # r
  <2>1. CASE m \in StartMessages
    <3>1. PICK s \in Signals : m = Start(s)
      BY <2>1 DEF StartMessages
    <3>2. RunOf(m) = <<s, receives[m] + 1>> /\ receives[m] \in Nat
      BY <2>1, <3>1, ConstantsAssumption DEF RunOf, Start, Base, Typed, TypeOK
    <3>3. RunOf(m) = r => r[1] = s /\ r[2] = receives[m] + 1
      BY <3>2
    <3>4. QED BY <3>1, <3>2, <3>3 DEF MadeInv
  <2>2. CASE m \in ResumeMessages
    <3>1. RunOf(m) = m.run /\ \A v \in Workers : ~Holds(v, m)
      BY <1>1, <2>2, RunOfTyped DEF HolderInv, Holds, Base
    <3>2. Waiting(m)
      BY <1>1 DEF Waiting
    <3>3. QED BY <2>2, <3>1, <3>2 DEF Quiet, ResumesOf
  <2>3. QED BY <2>1, <2>2 DEF Messages
<1>3. \A v \in Workers : Works(v, r)' => Works(v, r) /\ pc'[v] = pc[v]
  BY <1>1, <1>2 DEF Works, Base, Typed, TypeOK
<1>4. \A n \in Messages : Waiting(n)' <=> Waiting(n)
  BY <1>1 DEF Waiting, Base, Typed, TypeOK
<1>5. \A v \in Workers : \A n : Holds(v, n) => Holds(v, n)'
  BY <1>1 DEF Holds, Base, Typed, TypeOK
<1>6. \A n \in ResumesOf(r) : Waiting(n)' => \E v \in Workers : Holds(v, n)'
  BY <1>4, <1>5, ResumesAre DEF Quiet
<1>7. QED BY <1>1, <1>3, <1>6 DEF Quiet, Pending, ResumesOf

LEMMA QuietRest ==
  ASSUME Base, HolderInv, Calm', NEW r \in Runs, Quiet(r),
         \/ \E m \in Messages : BecomeVisible(m) \/ MoveToDeadLetters(m)
         \/ \E q \in Runs, d \in Delays : FireJob(q, d)
  PROVE  Quiet(r)'
<1>1. ASSUME NEW m \in Messages, BecomeVisible(m) \/ MoveToDeadLetters(m)
      PROVE  Quiet(r)'
  <2>1. /\ UNCHANGED <<fired, performed, pc, msg, run>>
        /\ \/ queue' = [queue EXCEPT ![m] = "visible"] /\ queue[m] = "inflight"
           \/ queue' = [queue EXCEPT ![m] = "dead"]
    BY <1>1 DEF BecomeVisible, MoveToDeadLetters, delivery
  <2>2. \A n \in ResumesOf(r) : Waiting(n)' => Waiting(n)
    BY <2>1, ResumesAre DEF Waiting, Base, Typed, TypeOK
  <2>3. QED BY <2>1, <2>2 DEF Quiet, Works, Holds, Pending, ResumesOf
<1>2. ASSUME NEW q \in Runs, NEW d \in Delays, FireJob(q, d)
      PROVE  Quiet(r)'
  <2> DEFINE new == Resume(q, d, fired[q][d] + 1)
  <2>1. UNCHANGED <<performed, pc, msg, run>> /\ fired[q][d] < performed[q][d]
    <3>1. ~Fails("Duplicate")
      BY FaultStrikes DEF Calm, Redelivery, Base, Typed
    <3>2. QED BY <1>2, <3>1 DEF FireJob, delivery
  <2>2. q # r
    BY <2>1 DEF Quiet, Pending
  <2>3. /\ new \in Messages /\ queue' = [queue EXCEPT ![new] = "visible"]
        /\ \A e \in Indices : fired'[r][e] = fired[r][e]
    BY <1>2, <2>2, JobIsNew DEF Base
  <2>4. new.run = q
    BY ResumeParts
  <2> HIDE DEF new
  <2>5. \A n \in ResumesOf(r) : Waiting(n)' => Waiting(n)
    BY <2>2, <2>3, <2>4, ResumesAre DEF Waiting, Base, Typed, TypeOK
  <2>6. \A e \in Delays : Pending(r, e)' <=> Pending(r, e)
    BY <2>1, <2>3, DelayIsIndex DEF Pending
  <2>7. QED BY <2>1, <2>5, <2>6 DEF Quiet, Works, Holds, ResumesOf
<1>3. QED BY <1>1, <1>2

\* The step that makes a run COMPLETED leaves it quiet.
LEMMA CompletedIsQuiet ==
  ASSUME Base, NEW r \in Runs, OneToken(r), Ended(r), Calm', [Next]_vars,
         row[r].status # "COMPLETED", row'[r].status = "COMPLETED"
  PROVE  Quiet(r)'
<1>1. ASSUME NEW w \in Workers, Writes(w)
      PROVE  Quiet(r)'
  <2>1. PICK new \in Rows :
          /\ new.status = StatusWritten(w)
          /\ IF pc[w] \in Guarded
             THEN \/ Stored(w, new) /\ pc'[w] \notin {"MarkFailed", "Failed"}
                  \/ NotStored(w, new, "Update") /\ pc'[w] \in {"MarkFailed", "Failed"}
             ELSE Stored(w, new) \/ NotStored(w, new, "IgnoredUpdate")
    BY <1>1, WriteOutcome DEF Base
  <2>2. ~Fails("UpdateReply")
    BY FaultStrikes DEF Calm, Redelivery, Base, Typed
  <2>3. Stored(w, new)
    BY <2>1, <2>2 DEF NotStored
  <2>4. run[w] = r /\ new.status = "COMPLETED"
    BY <2>3 DEF Stored, Base, Typed, TypeOK
  <2>5. pc[w] \in HasCopy /\ Works(w, r)
    BY <1>1, <2>4, WritesAreWriteSteps DEF WriteStep, HasCopy, ActionSteps, Works, Base
  <2>6. pc[w] \in {"StopCompleted", "MarkCompleted"}
    BY <2>1, <2>4, <2>5 DEF StatusWritten, Ended
  <2>7. pc'[w] = "Delete"
    <3>1. pc'[w] # "Failed" \/ pc[w] = "StopCompleted"
      <4>1. Stored(w, new) => pc'[w] # "Failed" \/ pc[w] = "StopCompleted" \/ NotStored(w, new, "Update")
        BY <2>1, <2>6 DEF Guarded
      <4>2. ~NotStored(w, new, "Update")
        <5>1. row' # row
          BY <2>3
        <5>2. QED BY <2>2, <5>1 DEF NotStored
      <4>3. QED BY <2>3, <4>1, <4>2
    <3>2. QED BY <1>1, <2>6, <3>1, WriteMoves DEF Base
  <2>8. Alone(w) /\ UNCHANGED <<queue, fired, performed, msg, run>>
    BY <1>1, WriteMoves, MovesAlone DEF Base, Moves
  <2>9. \A v \in Workers : Works(v, r)' => pc'[v] = "Delete"
    BY <2>5, <2>7, <2>8 DEF OneToken, Works, Alone
  <2>10. \A d \in Delays : ~Pending(r, d)'
    BY <2>5, <2>6, <2>8 DEF OneToken, PausesAt, Pending
  <2>11. \A m \in ResumesOf(r) : Waiting(m)' => Holds(w, m)'
    BY <2>5, <2>7, <2>8 DEF OneToken, Waiting, Holds
  <2>12. QED BY <2>9, <2>10, <2>11 DEF Quiet, ResumesOf
<1>2. ASSUME NEW w \in Workers, CreateRun(w)
      PROVE  FALSE
  <2>1. PICK new : new.status = "TRIGGERED" /\ (row' = row \/ row' = [row EXCEPT ![run[w]] = new])
    BY <1>2 DEF CreateRun
  <2>2. QED BY <2>1 DEF Base, Typed, TypeOK
<1>3. ASSUME \/ \E w \in Workers : Turns(w) \/ Execute(w) \/ Delete(w)
             \/ \E w \in Workers, m \in Messages : Receive(w, m)
             \/ \E m \in Messages : BecomeVisible(m) \/ MoveToDeadLetters(m)
             \/ \E q \in Runs, i \in Delays : FireJob(q, i)
             \/ UNCHANGED vars
      PROVE  FALSE
  BY <1>3 DEF Turns, Fetch, Evaluate, GetRun, LogStarted, LogScheduled, Failed, Crash,
              Execute, Delete, Receive, BecomeVisible, MoveToDeadLetters, FireJob, table, vars
<1>4. QED BY <1>1, <1>2, <1>3, NextCases

\* A worker that may still write has no copy that is COMPLETED.
LEMMA CopiesKept ==
  ASSUME Base, NEW r \in Runs, Ended(r), [Next]_vars,
         NEW v \in Workers, Works(v, r)', pc'[v] \in HasCopy
  PROVE  mine'[v].status # "COMPLETED"
<1>1. ASSUME NEW w \in Workers, Moves(w)
      PROVE  mine'[v].status # "COMPLETED"
  <2>1. Alone(w) /\ pc[w] # "idle" /\ (pc'[w] = "idle" \/ (msg'[w] = msg[w] /\ run'[w] = run[w]))
    BY <1>1, MovesAlone DEF Base
  <2>2. CASE v # w
    BY <2>1, <2>2 DEF Alone, Works, Ended
  <2>3. CASE v = w
    <3>1. Works(w, r) /\ run'[w] = r
      BY <2>1, <2>3 DEF Works
    <3>2. CASE Writes(w)
      <4>1. PICK new \in Rows :
              /\ new.status = StatusWritten(w)
              /\ Stored(w, new) \/ NotStored(w, new, "Update") \/ NotStored(w, new, "IgnoredUpdate")
        BY <3>2, WriteOutcome DEF Base
      <4>2. mine'[w] = new
        BY <4>1 DEF Stored, NotStored, Take, Base, Typed, TypeOK
      <4>3. pc[w] \notin {"StopCompleted", "MarkCompleted"}
        BY <2>3, <3>2, WriteMoves DEF HasCopy, ActionSteps, Base
      <4>4. pc[w] \in HasCopy
        BY <3>2, WritesAreWriteSteps DEF WriteStep, Base
      <4>5. QED BY <2>3, <3>1, <4>1, <4>2, <4>3, <4>4 DEF StatusWritten, Ended
    <3>3. CASE GetRun(w)
      <4>1. row[r].status # "COMPLETED"
        BY <3>1, <3>3 DEF GetRun, Ended
      <4>2. mine'[w] = row[r]
        BY <2>3, <3>1, <3>3 DEF GetRun, Goto, HasCopy, ActionSteps, Works, Base, Typed, TypeOK
      <4>3. QED BY <2>3, <4>1, <4>2
    <3>4. CASE CreateRun(w)
      BY <2>3, <3>4 DEF CreateRun, Take, Base, Typed, TypeOK
    <3>5. CASE Execute(w)
      <4>1. pc[w] \in HasCopy /\ mine' = mine
        BY <3>5 DEF Execute, HasCopy, ActionSteps
      <4>2. QED BY <2>3, <3>1, <4>1 DEF Ended
    <3>6. CASE Delete(w) \/ Failed(w) \/ Crash(w)
      <4>1. pc'[w] = "idle"
        BY <3>6 DEF Delete, Failed, Crash, Release, Goto, Base, Typed, TypeOK
      <4>2. QED BY <2>3, <4>1 DEF HasCopy, ActionSteps
    <3>7. CASE Fetch(w) \/ Evaluate(w) \/ LogStarted(w) \/ LogScheduled(w)
      <4>1. mine' = mine
        BY <3>7 DEF Fetch, Evaluate, LogStarted, LogScheduled
      <4>2. pc[w] \in HasCopy
        BY <2>3, <3>7 DEF Fetch, Evaluate, LogStarted, LogScheduled, Goto, HasCopy, ActionSteps,
                          Base, Typed, TypeOK
      <4>3. QED BY <2>3, <3>1, <4>1, <4>2 DEF Ended
    <3>8. QED BY <1>1, <3>2, <3>3, <3>4, <3>5, <3>6, <3>7 DEF Moves, Turns
  <2>4. QED BY <2>2, <2>3
<1>2. ASSUME \/ \E w \in Workers, m \in Messages : Receive(w, m)
             \/ \E m \in Messages : BecomeVisible(m) \/ MoveToDeadLetters(m)
             \/ \E q \in Runs, i \in Delays : FireJob(q, i)
             \/ UNCHANGED vars
      PROVE  mine'[v].status # "COMPLETED"
  <2>1. mine' = mine /\ ((pc'[v] = pc[v] /\ run'[v] = run[v]) \/ pc'[v] = "Fetch")
    BY <1>2 DEF Receive, Goto, BecomeVisible, MoveToDeadLetters, FireJob, delivery, vars,
                Base, Typed, TypeOK
  <2>2. QED BY <2>1 DEF HasCopy, ActionSteps, Works, Ended
<1>3. QED BY <1>1, <1>2, NextCases DEF Moves

LEMMA EndedStep ==
  ASSUME Base, HolderInv, MadeInv, NEW r \in Runs, OneToken(r), Ended(r), Calm', [Next]_vars
  PROVE  Ended(r)'
<1>1. \A v \in Workers : Works(v, r)' /\ pc'[v] \in HasCopy => mine'[v].status # "COMPLETED"
  BY CopiesKept
<1>2. ASSUME row'[r].status = "COMPLETED"
      PROVE  Quiet(r)'
  <2>1. CASE row[r].status # "COMPLETED"
    BY <1>2, <2>1, CompletedIsQuiet
  <2>2. CASE row[r].status = "COMPLETED"
    <3>1. Quiet(r) /\ row[r] # NoRow
      BY <2>2 DEF Ended, Quiet, NoRow
    <3>2. CASE UNCHANGED vars
      BY <3>1, <3>2 DEF vars, Quiet, Works, Holds, Pending, Waiting, ResumesOf
    <3>3. QED BY <3>1, <3>2, NextCases, QuietMoves, QuietReceive, QuietRest DEF Moves
  <2>3. QED BY <2>1, <2>2
<1>3. QED BY <1>1, <1>2 DEF Ended, Quiet

LEMMA EndInit ==
  ASSUME Init
  PROVE  EndInv
<1>1. \A r \in Runs : row[r] = NoRow
  BY DEF Init
<1>2. NoRow.status # "COMPLETED"
  BY DEF NoRow
<1>3. \A w \in Workers : pc[w] = "idle"
  BY DEF Init
<1>4. QED BY <1>1, <1>2, <1>3, TokensInit, MadeInit DEF EndInv, Ended, Works

LEMMA UndisturbedBefore ==
  ASSUME TypeOK, [Next]_vars, Undisturbed'
  PROVE  Undisturbed
  BY FaultsGrow, CalmBefore DEF Undisturbed

LEMMA EndStep ==
  ASSUME EndInv, [Next]_vars
  PROVE  EndInv'
<1>1. TokensInv' /\ MadeInv'
  BY TokensStep, MadeStep DEF EndInv, TokensInv
<1>2. ASSUME Undisturbed', NEW r \in Runs
      PROVE  Ended(r)'
  <2>1. Undisturbed /\ Calm'
    BY <1>2, UndisturbedBefore DEF EndInv, TokensInv, Base, Typed, Undisturbed
  <2>2. Exclusive(r) /\ Calm
    BY <2>1 DEF Undisturbed, Exclusive
  <2>3. QED BY <2>1, <2>2, EndedStep DEF EndInv, TokensInv, TokenInv
<1>3. QED BY <1>1, <1>2 DEF EndInv

\* A run that is COMPLETED is never written again, unless a message of it was
\* delivered once more, or in a workflow of several delays a delivery failed
\* with its job accepted; whatever other calls fail, and however rows are stamped.
THEOREM CompletedStays == Spec => CompletedIsFinal
<1> DEFINE Kept == /\ Struck' \cap Redelivery = {}
                   /\ SeveralDelays => Struck' \cap AfterAcceptance = {}
                   => \A r \in Runs : row[r].status = "COMPLETED" => row'[r] = row[r]
<1>1. EndInv /\ [Next]_vars => Kept
  <2> SUFFICES ASSUME EndInv, [Next]_vars, Undisturbed',
                      NEW r \in Runs, row[r].status = "COMPLETED"
               PROVE  row'[r] = row[r]
    BY DEF Undisturbed, Calm
  <2>1. Undisturbed
    BY UndisturbedBefore DEF EndInv, TokensInv, Base, Typed
  <2>2. QED BY <2>1, CompletedKept DEF EndInv, TokensInv
<1>2. QED BY <1>1, EndInit, EndStep, PTL DEF Spec, CompletedIsFinal

(***************************************************************************)
(* Effects once for every signal.  The token of a run carries the place    *)
(* from which nothing has taken effect yet, and a run in which something   *)
(* took effect is the one that the last delivery of its start message      *)
(* made: this delivery goes on or has deleted the message.                 *)
(***************************************************************************)
EarlyErrors == {"Receive", "Fetch", "Create", "GetRun", "Evaluate"}

NothingFrom(r, i) == \A j \in Indices : j >= i => performed[r][j] = 0

\* The first action of the run that a worker has still in front of it.
Ahead(w) ==
  IF pc[w] \in {"SetStarted", "LogStarted", "Execute"} THEN idx[w]
  ELSE IF pc[w] \in {"SetCompleted", "SetScheduled", "LogScheduled"} THEN idx[w] + 1
  ELSE First(msg[w])

AtEnd == {"MarkCompleted", "Delete"}

Once(r) ==
  /\ \A w \in Workers : Works(w, r) =>
       pc[w] # "MarkFailed" /\ (pc[w] \in AtEnd \/ NothingFrom(r, Ahead(w)))
  /\ \A d \in Delays : Pending(r, d) => NothingFrom(r, d + 1)
  /\ \A m \in ResumesOf(r) :
       Waiting(m) => NothingFrom(r, First(m)) \/ \E w \in Workers : Holds(w, m)
  /\ \A i \in Indices : performed[r][i] <= 1
  /\ Untouched(r) \/ /\ r[2] = receives[Start(r[1])]
                     /\ \/ queue[Start(r[1])] = "deleted"
                        \/ \E w \in Workers : Holds(w, Start(r[1]))

OnceInv == TokensInv /\ (Struck \subseteq EarlyErrors => \A r \in Runs : Once(r))

LEMMA StartIsMessage ==
  ASSUME NEW r \in Runs
  PROVE  Start(r[1]) \in StartMessages /\ Start(r[1]) \in Messages
  BY DEF Runs, StartMessages, Messages

\* A step of a worker that leaves the effects on the run alone.
LEMMA OnceFrame ==
  ASSUME Base, HolderInv, NEW r \in Runs, Once(r), NEW w \in Workers,
         Alone(w), pc[w] # "idle",
         pc'[w] = "idle" \/ (msg'[w] = msg[w] /\ run'[w] = run[w]),
         UNCHANGED <<receives, fired>>, performed'[r] = performed[r],
         \A m \in Messages : /\ Waiting(m)' => Waiting(m)
                             /\ queue[m] = "deleted" => queue'[m] = "deleted",
         Works(w, r) /\ pc'[w] # "idle" =>
           pc'[w] # "MarkFailed" /\ (pc'[w] \in AtEnd \/ NothingFrom(r, Ahead(w)')),
         Works(w, r) /\ pc'[w] = "idle" =>
           queue'[msg[w]] = "deleted" \/ NothingFrom(r, First(msg[w]))
  PROVE  Once(r)'
<1>1. \A i : NothingFrom(r, i)' <=> NothingFrom(r, i)
  BY DEF NothingFrom
<1>2. \A d \in Delays : Pending(r, d)' <=> Pending(r, d)
  BY DEF Pending
<1>3. \A v \in Workers : Works(v, r)' =>
        pc'[v] # "MarkFailed" /\ (pc'[v] \in AtEnd \/ NothingFrom(r, Ahead(v))')
  <2> SUFFICES ASSUME NEW v \in Workers, Works(v, r)'
               PROVE  pc'[v] # "MarkFailed" /\ (pc'[v] \in AtEnd \/ NothingFrom(r, Ahead(v))')
    OBVIOUS
  <2>1. CASE v = w
    <3>1. Works(w, r) /\ pc'[w] # "idle"
      BY <2>1 DEF Works
    <3>2. pc'[w] \notin AtEnd => NothingFrom(r, Ahead(w))'
      BY <3>1 DEF NothingFrom
    <3>3. QED BY <2>1, <3>1, <3>2
  <2>2. CASE v # w
    <3>1. /\ Works(v, r) /\ pc'[v] = pc[v] /\ idx'[v] = idx[v] /\ msg'[v] = msg[v]
      BY <2>2 DEF Works, Alone
    <3>2. Ahead(v)' = Ahead(v)
      BY <3>1 DEF Ahead, First
    <3>3. QED BY <3>1, <3>2 DEF Once, NothingFrom
  <2>3. QED BY <2>1, <2>2
<1>4. ASSUME NEW m \in ResumesOf(r), Waiting(m)'
      PROVE  NothingFrom(r, First(m))' \/ \E v \in Workers : Holds(v, m)'
  <2>1. m \in Messages /\ First(m)' = First(m)
    BY ResumesAre DEF First
  <2>2. NothingFrom(r, First(m)) \/ \E v \in Workers : Holds(v, m)
    BY <1>4, <2>1 DEF Once
  <2>3. CASE NothingFrom(r, First(m))
    BY <2>3 DEF NothingFrom, First
  <2>4. ASSUME NEW v \in Workers, Holds(v, m)
        PROVE  NothingFrom(r, First(m))' \/ \E u \in Workers : Holds(u, m)'
    <3>1. CASE v # w \/ pc'[w] # "idle"
      BY <2>4, <3>1 DEF Holds, Alone
    <3>2. CASE v = w /\ pc'[w] = "idle"
      <4>1. Works(w, r) /\ msg[w] = m
        BY <2>4, <3>2, HolderWorks DEF Holds, Base
      <4>2. NothingFrom(r, First(m))
        BY <1>4, <3>2, <4>1 DEF Waiting
      <4>3. QED BY <4>2 DEF NothingFrom, First
    <3>3. QED BY <3>1, <3>2
  <2>5. QED BY <2>2, <2>3, <2>4
<1>5. ASSUME ~Untouched(r)'
      PROVE  /\ r[2] = receives'[Start(r[1])]
             /\ \/ queue'[Start(r[1])] = "deleted"
                \/ \E v \in Workers : Holds(v, Start(r[1]))'
  <2>1. ~Untouched(r)
    BY <1>5 DEF Untouched
  <2>2. /\ r[2] = receives[Start(r[1])]
        /\ queue[Start(r[1])] = "deleted" \/ \E v \in Workers : Holds(v, Start(r[1]))
    BY <2>1 DEF Once
  <2>3. Start(r[1]) \in StartMessages /\ Start(r[1]) \in Messages
    BY StartIsMessage
  <2>4. ASSUME NEW v \in Workers, Holds(v, Start(r[1]))
        PROVE  queue'[Start(r[1])] = "deleted" \/ \E u \in Workers : Holds(u, Start(r[1]))'
    <3>1. CASE v # w \/ pc'[w] # "idle"
      BY <2>4, <3>1 DEF Holds, Alone
    <3>2. CASE v = w /\ pc'[w] = "idle"
      <4>1. Owns(w) /\ msg[w] = Start(r[1])
        BY <2>3, <2>4, <3>2 DEF Owns, Holds
      <4>2. run[w] = <<r[1], r[2]>>
        BY <2>2, <4>1 DEF HolderInv, Start
      <4>3. Works(w, r)
        BY <4>1, <4>2 DEF Owns, Works, Runs
      <4>4. ~NothingFrom(r, 1)
        BY <2>1, IndexIsNat DEF NothingFrom, Untouched
      <4>5. First(msg[w]) = 1
        BY <4>1 DEF Owns, First
      <4>6. QED BY <3>2, <4>1, <4>3, <4>4, <4>5
    <3>3. QED BY <3>1, <3>2
  <2>5. QED BY <2>2, <2>3, <2>4
<1>6. \A d \in Delays : Pending(r, d)' => NothingFrom(r, d + 1)'
  BY <1>2 DEF Once, NothingFrom
<1>7. \A i \in Indices : performed'[r][i] <= 1
  BY DEF Once
<1>8. QED BY <1>3, <1>4, <1>5, <1>6, <1>7 DEF Once, ResumesOf

LEMMA OnceWrite ==
  ASSUME Base, HolderInv, NEW r \in Runs, OneToken(r), InStep(r), Once(r),
         Struck' \subseteq EarlyErrors, [Next]_vars, NEW w \in Workers, Writes(w)
  PROVE  Once(r)'
<1>1. /\ Alone(w) /\ pc[w] # "idle"
      /\ UNCHANGED <<queue, receives, fired, performed, msg, run>>
  BY WriteMoves, MovesAlone DEF Base, Moves
<1>2. Struck \subseteq Struck'
  BY FaultsGrow DEF Base, Typed
<1>3. ASSUME Works(w, r)
      PROVE  /\ pc'[w] \notin {"MarkFailed", "Failed"}
  <2>1. PICK new \in Rows :
          /\ IF pc[w] \in Guarded
             THEN \/ Stored(w, new) /\ pc'[w] \notin {"MarkFailed", "Failed"}
                  \/ NotStored(w, new, "Update") /\ pc'[w] \in {"MarkFailed", "Failed"}
             ELSE Stored(w, new) \/ NotStored(w, new, "IgnoredUpdate")
    BY WriteOutcome DEF Base
  <2>2. pc[w] \in HasCopy /\ Struck \cap WriteErrors = {}
    BY <1>2, WritesAreWriteSteps DEF WriteStep, EarlyErrors, WriteErrors, Base
  <2>3. LockHolds(w)
    BY <1>3, <2>2 DEF InStep
  <2>4. ~Fails("Update") /\ ~Fails("UpdateReply")
    BY FaultStrikes DEF EarlyErrors, Base, Typed
  <2>5. pc[w] # "MarkFailed"
    BY <1>3 DEF Once
  <2>6. CASE pc[w] \in Guarded
    BY <2>1, <2>3, <2>4, <2>6 DEF NotStored
  <2>7. CASE pc[w] \notin Guarded
    BY <2>5, <2>7, WriteMoves DEF Guarded, StepAt, Base
  <2>8. QED BY <2>6, <2>7
<1>4. ASSUME Works(w, r), pc'[w] # "idle"
      PROVE  pc'[w] # "MarkFailed" /\ (pc'[w] \in AtEnd \/ NothingFrom(r, Ahead(w)'))
  <2>1. NothingFrom(r, Ahead(w)) \/ pc[w] \in AtEnd
    BY <1>4 DEF Once
  <2>2. pc'[w] \in AtEnd \/ (Ahead(w)' = Ahead(w) /\ pc[w] \notin AtEnd)
    <3>1. CASE pc[w] = "SetCondition"
      BY <1>1, <3>1, WriteMoves DEF Ahead, AtEnd, First, Base
    <3>2. CASE pc[w] \in {"StopCompleted", "StopFailed"}
      BY <3>2, WriteMoves DEF AtEnd, Base
    <3>3. CASE pc[w] = "SetResumed"
      <4>1. pc'[w] = StepAt(ResumeAt(w)) /\ idx'[w] = ResumeAt(w)
        BY <1>3, <1>4, <3>3, WriteMoves DEF Base
      <4>2. msg[w] \in ResumeMessages
        BY <3>3 DEF Base, Typed, WorkerInv
      <4>3. First(msg[w]) = ResumeAt(w)
        BY <4>2, ResumeIndex DEF First, ResumeAt
      <4>4. QED BY <1>1, <3>3, <4>1, <4>3 DEF StepAt, AtEnd, Ahead
    <3>4. CASE pc[w] \in {"SetStarted", "SetScheduled"}
      BY <1>1, <1>3, <1>4, <3>4, WriteMoves DEF Ahead, AtEnd, Base
    <3>5. CASE pc[w] = "SetCompleted"
      BY <1>1, <3>5, WriteMoves DEF Ahead, AtEnd, StepAt, Base
    <3>6. CASE pc[w] = "MarkCompleted"
      BY <1>3, <1>4, <3>6, WriteMoves DEF AtEnd, Base
    <3>7. CASE pc[w] = "MarkFailed"
      BY <1>4, <3>7 DEF Once
    <3>8. QED BY <3>1, <3>2, <3>3, <3>4, <3>5, <3>6, <3>7, WriteMoves DEF Base
  <2>3. QED BY <1>3, <1>4, <2>1, <2>2
<1>5. pc'[w] # "idle"
  BY WriteMoves DEF StepAt, Base
<1>6. QED BY <1>1, <1>4, <1>5, OnceFrame DEF Waiting

LEMMA OnceTurn ==
  ASSUME Base, HolderInv, NEW r \in Runs, Once(r),
         Struck' \subseteq EarlyErrors, [Next]_vars, NEW w \in Workers, Turns(w)
  PROVE  Once(r)'
<1>1. /\ Alone(w) /\ pc[w] # "idle"
      /\ UNCHANGED <<queue, receives, fired, performed>>
      /\ pc'[w] = "idle" \/ (msg'[w] = msg[w] /\ run'[w] = run[w])
  BY TurnMoves, MovesAlone DEF Base, Moves
<1>2. ~Crash(w) /\ ~Fails("LogStarted") /\ ~Fails("LogScheduled")
  BY FaultStrikes DEF Crash, EarlyErrors, Base, Typed
<1>3. ASSUME Works(w, r), pc'[w] # "idle"
      PROVE  pc'[w] # "MarkFailed" /\ (pc'[w] \in AtEnd \/ NothingFrom(r, Ahead(w)'))
  <2>0. pc'[w] # "MarkFailed"
    <3>1. LogStarted(w) \/ LogScheduled(w) => pc'[w] # "MarkFailed"
      BY <1>2 DEF LogStarted, LogScheduled, Goto, Base, Typed, TypeOK
    <3>2. Fetch(w) \/ Evaluate(w) \/ GetRun(w) \/ Failed(w) => pc'[w] # "MarkFailed"
      BY DEF Fetch, Evaluate, GetRun, Failed, Release, Goto, StepAt, Base, Typed, TypeOK
    <3>3. QED BY <1>2, <3>1, <3>2 DEF Turns
  <2>1. NothingFrom(r, Ahead(w)) \/ pc[w] \in AtEnd
    BY <1>3 DEF Once
  <2>2. pc'[w] \in AtEnd \/ (Ahead(w)' = Ahead(w) /\ pc[w] \notin AtEnd)
    <3>1. CASE pc[w] = "Fetch"
      BY <1>1, <1>3, <3>1, TurnMoves DEF Ahead, AtEnd, First, Base
    <3>2. CASE pc[w] = "Evaluate"
      <4>1. msg[w] \in StartMessages /\ First(msg[w]) = 1 /\ msg'[w] = msg[w]
        BY <1>1, <1>3, <3>2 DEF Base, OwnerInv, CondSteps, First
      <4>2. pc'[w] \in CondSteps \/ (pc'[w] = StepAt(1) /\ idx'[w] = 1)
        BY <1>3, <3>2, TurnMoves DEF Base
      <4>3. QED BY <3>2, <4>1, <4>2 DEF Ahead, AtEnd, StepAt, CondSteps
    <3>3. CASE pc[w] = "GetRun"
      BY <1>1, <1>3, <3>3, TurnMoves DEF Ahead, AtEnd, First, Base
    <3>4. CASE pc[w] = "LogStarted"
      BY <1>1, <1>3, <2>0, <3>4, TurnMoves DEF Ahead, AtEnd, Base
    <3>5. CASE pc[w] = "LogScheduled"
      BY <1>3, <2>0, <3>5, TurnMoves DEF AtEnd, Base
    <3>6. QED BY <1>3, <3>1, <3>2, <3>3, <3>4, <3>5, TurnMoves DEF Base
  <2>3. QED BY <2>0, <2>1, <2>2
<1>4. ASSUME Works(w, r), pc'[w] = "idle"
      PROVE  NothingFrom(r, First(msg[w]))
  <2>1. pc[w] = "Failed"
    BY <1>2, <1>4 DEF Turns, Fetch, Evaluate, GetRun, LogStarted, LogScheduled, Failed, Goto,
                      StepAt, Base, Typed, TypeOK
  <2>2. QED BY <1>4, <2>1 DEF Once, AtEnd, Ahead
<1>5. QED BY <1>1, <1>3, <1>4, OnceFrame DEF Waiting

LEMMA OnceCreate ==
  ASSUME Base, HolderInv, NEW r \in Runs, Once(r), NEW w \in Workers, CreateRun(w)
  PROVE  Once(r)'
<1>1. /\ Alone(w) /\ pc[w] = "CreateRun" /\ msg[w] \in StartMessages
      /\ UNCHANGED <<queue, receives, fired, performed, msg, run>>
      /\ idx'[w] = 1
      /\ pc'[w] \in {"SetCondition", "Failed", StepAt(1)}
  BY CreateMoves, MovesAlone DEF Base, Moves
<1>2. ASSUME Works(w, r)
      PROVE  pc'[w] # "MarkFailed" /\ (pc'[w] \in AtEnd \/ NothingFrom(r, Ahead(w)'))
  <2>1. NothingFrom(r, 1)
    BY <1>1, <1>2 DEF Once, AtEnd, Ahead, First
  <2>2. pc'[w] \in AtEnd \/ Ahead(w)' = 1
    BY <1>1 DEF Ahead, AtEnd, First, StepAt
  <2>3. QED BY <1>1, <2>1, <2>2 DEF StepAt
<1>3. pc'[w] # "idle"
  BY <1>1 DEF StepAt
<1>4. QED BY <1>1, <1>2, <1>3, OnceFrame DEF Waiting

LEMMA OnceDelete ==
  ASSUME Base, HolderInv, NEW r \in Runs, Once(r),
         Struck' \subseteq EarlyErrors, NEW w \in Workers, Delete(w)
  PROVE  Once(r)'
<1>1. /\ Alone(w) /\ pc[w] # "idle" /\ msg[w] \in Messages /\ pc'[w] = "idle"
      /\ UNCHANGED <<receives, fired, performed>>
  BY MovesAlone DEF Base, Moves, Delete, Release, Goto, Typed, TypeOK
<1>2. ~Fails("Delete")
  BY FaultStrikes DEF EarlyErrors, Base, Typed
<1>3. queue' = [queue EXCEPT ![msg[w]] = "deleted"]
  <2>1. queue[msg[w]] = "inflight"
    BY <1>1 DEF HolderInv
  <2>2. QED BY <1>2, <2>1 DEF Delete, Base, Typed, TypeOK
<1>4. /\ queue'[msg[w]] = "deleted"
      /\ \A m \in Messages : /\ Waiting(m)' => Waiting(m)
                             /\ queue[m] = "deleted" => queue'[m] = "deleted"
  BY <1>1, <1>3 DEF Waiting, Base, Typed, TypeOK
<1>5. QED BY <1>1, <1>4, OnceFrame

LEMMA OnceExecute ==
  ASSUME Base, HolderInv, NEW r \in Runs, OneToken(r), Once(r),
         Struck' \subseteq EarlyErrors, NEW w \in Workers, Execute(w)
  PROVE  Once(r)'
<1>1. /\ Alone(w) /\ pc[w] = "Execute" /\ run[w] \in Runs /\ idx[w] \in Indices
      /\ UNCHANGED <<queue, receives, fired, msg, run, idx>>
      /\ pc'[w] \in {"SetCompleted", "SetScheduled", "MarkFailed"}
  BY ExecuteMoves, MovesAlone DEF Base, Moves
<1>2. pc'[w] # "MarkFailed"
  <2>1. ~Fails("Action") /\ ~Fails("Schedule")
    BY FaultStrikes DEF EarlyErrors, Base, Typed
  <2>2. QED BY <1>1, <2>1
    DEF Execute, ExecuteRegular, ExecuteDelay, Goto, Base, Typed, TypeOK
<1>3. CASE run[w] # r
  <2>1. performed'[r] = performed[r] /\ ~Works(w, r)
    BY <1>3, ExecuteMoves DEF Works, Base
  <2>2. QED BY <1>1, <2>1, OnceFrame DEF Waiting
<1>4. CASE run[w] = r
  <2>1. Works(w, r) /\ NothingFrom(r, idx[w])
    BY <1>1, <1>4 DEF Works, Once, AtEnd, Ahead
  <2>2. \A i \in Indices :
          performed'[r][i] = IF i = idx[w] THEN performed[r][i] + 1 ELSE performed[r][i]
    <3>1. performed' # performed
      <4>1. performed[r][idx[w]] = 0
        BY <1>1, <2>1, IndexIsNat DEF NothingFrom
      <4>2. performed'[r][idx[w]] > 0
        BY <1>1, <1>2, <1>4, ExecuteMoves DEF Base
      <4>3. QED BY <4>1, <4>2
    <3>2. QED BY <1>4, <3>1, Effects DEF Base
  <2>3. \A i \in Indices : i \in Nat /\ performed[r][i] \in Nat /\ performed[r][i] <= 1
    BY IndexIsNat DEF Once, Base, Typed, TypeOK
  <2>4. NothingFrom(r, idx[w] + 1)' /\ \A i \in Indices : performed'[r][i] <= 1
    BY <1>1, <2>1, <2>2, <2>3 DEF NothingFrom
  <2>5. \A v \in Workers : Works(v, r)' => v = w
    BY <1>1, <2>1 DEF OneToken, Works, Alone
  <2>6. \A v \in Workers : Works(v, r)' =>
          pc'[v] # "MarkFailed" /\ (pc'[v] \in AtEnd \/ NothingFrom(r, Ahead(v))')
    <3>1. Ahead(w)' = idx[w] + 1
      BY <1>1, <1>2 DEF Ahead
    <3>2. NothingFrom(r, Ahead(w))'
      BY <1>1, <2>4, <3>1 DEF NothingFrom
    <3>3. QED BY <1>2, <2>5, <3>2
  <2>7. ASSUME NEW d \in Delays, Pending(r, d)'
        PROVE  NothingFrom(r, d + 1)'
    <3>1. ~Pending(r, d)
      BY <1>1, <2>1 DEF OneToken, PausesAt
    <3>2. d = idx[w]
      BY <1>1, <2>2, <2>7, <3>1, DelayIsIndex DEF Pending
    <3>3. QED BY <1>1, <2>4, <3>2 DEF NothingFrom
  <2>8. \A m \in ResumesOf(r) : Waiting(m)' => Holds(w, m)'
    <3>1. \A m \in ResumesOf(r) : Waiting(m) => msg[w] = m
      BY <2>1 DEF OneToken
    <3>2. QED BY <1>1, <3>1 DEF Waiting, Holds
  <2>9. /\ r[2] = receives[Start(r[1])]
        /\ queue[Start(r[1])] = "deleted" \/ \E v \in Workers : Holds(v, Start(r[1]))
    <3>1. CASE msg[w] \in StartMessages
      <4>1. Owns(w) /\ msg[w] = Start(r[1]) /\ Holds(w, Start(r[1]))
        BY <1>1, <1>4, <3>1 DEF Owns, Holds, Base, OwnerInv
      <4>2. run[w][2] = receives[msg[w]]
        BY <4>1 DEF HolderInv
      <4>3. QED BY <1>4, <4>1, <4>2
    <3>2. CASE msg[w] \in ResumeMessages
      <4>1. ~Untouched(r)
        <5>1. ~Owns(w)
          BY <3>2, ResumeIndex DEF Owns
        <5>2. QED BY <1>1, <1>4, <5>1, TouchedOrOwned DEF Base
      <4>2. QED BY <4>1 DEF Once
    <3>3. QED BY <1>1, <3>1, <3>2 DEF Base, Typed, TypeOK, Messages
  <2>10. /\ r[2] = receives'[Start(r[1])]
         /\ queue'[Start(r[1])] = "deleted" \/ \E v \in Workers : Holds(v, Start(r[1]))'
    <3>1. \A v \in Workers : \A m : Holds(v, m) => Holds(v, m)'
      BY <1>1 DEF Holds, Alone
    <3>2. QED BY <1>1, <2>9, <3>1
  <2>11. QED BY <2>4, <2>6, <2>7, <2>8, <2>10 DEF Once, ResumesOf
<1>5. QED BY <1>3, <1>4

LEMMA OnceReceive ==
  ASSUME Base, HolderInv, NEW r \in Runs, Once(r),
         NEW w \in Workers, NEW m \in Messages, Receive(w, m)
  PROVE  Once(r)'
<1>1. /\ pc[w] = "idle" /\ queue[m] = "visible" /\ receives[m] < MaxReceives
      /\ queue' = [queue EXCEPT ![m] = "inflight"]
      /\ receives' = [receives EXCEPT ![m] = @ + 1]
      /\ UNCHANGED <<fired, performed, idx>>
      /\ \/ UNCHANGED <<pc, msg, run>>
         \/ /\ pc' = [pc EXCEPT ![w] = "Fetch"]
            /\ msg' = [msg EXCEPT ![w] = m]
            /\ run' = [run EXCEPT ![w] = RunOf(m)]
  BY DEF Receive, Goto, delivery
<1>2. /\ \A n \in Messages : Waiting(n)' <=> Waiting(n)
      /\ \A v \in Workers : \A n : Holds(v, n) => Holds(v, n)'
      /\ \A v \in Workers : ~Holds(v, m)
  BY <1>1 DEF Waiting, Holds, HolderInv, Base, Typed, TypeOK
<1>3. \A v \in Workers : Works(v, r)' =>
        \/ Works(v, r) /\ pc'[v] = pc[v] /\ msg'[v] = msg[v]
        \/ v = w /\ pc'[v] = "Fetch" /\ msg'[v] = m /\ r = RunOf(m)
  BY <1>1 DEF Works, Base, Typed, TypeOK
<1>4. r = RunOf(m) => NothingFrom(r, First(m))
  <2>1. CASE m \in StartMessages
    <3>1. PICK s \in Signals : m = Start(s)
      BY <2>1 DEF StartMessages
    <3>2. RunOf(m) = <<s, receives[Start(s)] + 1>>
      BY <2>1, <3>1 DEF RunOf, Start
    <3>3. r = RunOf(m) => Untouched(r)
      BY <3>2, NewRun
    <3>4. QED BY <3>3 DEF Untouched, NothingFrom
  <2>2. CASE m \in ResumeMessages
    <3>1. r = RunOf(m) => m \in ResumesOf(r)
      BY <1>1, <2>2, RunOfTyped DEF ResumesOf, Base
    <3>2. Waiting(m)
      BY <1>1 DEF Waiting
    <3>3. QED BY <1>2, <3>1, <3>2 DEF Once
  <2>3. QED BY <2>1, <2>2 DEF Messages
<1>5. ASSUME NEW v \in Workers, Works(v, r)'
      PROVE  pc'[v] # "MarkFailed" /\ (pc'[v] \in AtEnd \/ NothingFrom(r, Ahead(v))')
  <2>1. CASE Works(v, r) /\ pc'[v] = pc[v] /\ msg'[v] = msg[v]
    <3>1. Ahead(v)' = Ahead(v)
      BY <1>1, <2>1 DEF Ahead, First
    <3>2. QED BY <1>1, <2>1, <3>1 DEF Once, NothingFrom
  <2>2. CASE pc'[v] = "Fetch" /\ msg'[v] = m /\ r = RunOf(m)
    <3>1. Ahead(v)' = First(m)
      BY <2>2 DEF Ahead, First
    <3>2. NothingFrom(r, Ahead(v))'
      BY <1>1, <1>4, <2>2, <3>1 DEF NothingFrom
    <3>3. QED BY <2>2, <3>2
  <2>3. QED BY <1>3, <1>5, <2>1, <2>2
<1>6. ASSUME NEW n \in ResumesOf(r), Waiting(n)'
      PROVE  NothingFrom(r, First(n))' \/ \E v \in Workers : Holds(v, n)'
  <2>1. NothingFrom(r, First(n)) \/ \E v \in Workers : Holds(v, n)
    BY <1>2, <1>6, ResumesAre DEF Once
  <2>2. QED BY <1>1, <1>2, <2>1 DEF NothingFrom, First
<1>7. ASSUME ~Untouched(r)'
      PROVE  /\ r[2] = receives'[Start(r[1])]
             /\ \/ queue'[Start(r[1])] = "deleted"
                \/ \E v \in Workers : Holds(v, Start(r[1]))'
  <2>1. /\ r[2] = receives[Start(r[1])]
        /\ queue[Start(r[1])] = "deleted" \/ \E v \in Workers : Holds(v, Start(r[1]))
    BY <1>1, <1>7 DEF Once, Untouched
  <2>2. Start(r[1]) # m /\ Start(r[1]) \in Messages
    BY <1>1, <1>2, <2>1, StartIsMessage
  <2>3. /\ receives'[Start(r[1])] = receives[Start(r[1])]
        /\ queue'[Start(r[1])] = queue[Start(r[1])]
    BY <1>1, <2>2 DEF Base, Typed, TypeOK
  <2>4. QED BY <1>2, <2>1, <2>3
<1>8. \A d \in Delays : Pending(r, d)' => NothingFrom(r, d + 1)'
  BY <1>1 DEF Once, Pending, NothingFrom
<1>9. \A i \in Indices : performed'[r][i] <= 1
  BY <1>1 DEF Once
<1>10. QED BY <1>5, <1>6, <1>7, <1>8, <1>9 DEF Once, ResumesOf

LEMMA OnceQueue ==
  ASSUME Base, HolderInv, NEW r \in Runs, Once(r), Struck' \subseteq EarlyErrors,
         NEW m \in Messages, BecomeVisible(m) \/ MoveToDeadLetters(m)
  PROVE  Once(r)'
<1>1. /\ UNCHANGED <<receives, fired, performed, pc, msg, run, idx>>
      /\ queue[m] \in {"inflight", "visible"}
      /\ \/ queue' = [queue EXCEPT ![m] = "visible"] /\ queue[m] = "inflight"
         \/ queue' = [queue EXCEPT ![m] = "dead"]
  BY DEF BecomeVisible, MoveToDeadLetters, delivery
<1>2. /\ \A n \in ResumesOf(r) : Waiting(n)' => Waiting(n)
      /\ queue[Start(r[1])] = "deleted" => queue'[Start(r[1])] = "deleted"
  BY <1>1, ResumesAre, StartIsMessage DEF Waiting, Base, Typed, TypeOK
<1>3. /\ \A v \in Workers : Works(v, r)' <=> Works(v, r)
      /\ \A v \in Workers : \A n : Holds(v, n)' <=> Holds(v, n)
      /\ \A d \in Delays : Pending(r, d)' <=> Pending(r, d)
      /\ \A i : NothingFrom(r, i)' <=> NothingFrom(r, i)
      /\ \A v \in Workers : Ahead(v)' = Ahead(v)
      /\ Untouched(r)' <=> Untouched(r)
  BY <1>1 DEF Works, Holds, Pending, NothingFrom, Ahead, First, Untouched
<1>4. \A v \in Workers : Works(v, r)' =>
        pc'[v] # "MarkFailed" /\ (pc'[v] \in AtEnd \/ NothingFrom(r, Ahead(v))')
  <2> SUFFICES ASSUME NEW v \in Workers, Works(v, r)'
               PROVE  pc'[v] # "MarkFailed" /\ (pc'[v] \in AtEnd \/ NothingFrom(r, Ahead(v))')
    OBVIOUS
  <2>1. pc[v] # "MarkFailed" /\ (pc[v] \in AtEnd \/ NothingFrom(r, Ahead(v)))
    BY <1>3 DEF Once
  <2>2. NothingFrom(r, Ahead(v)) => NothingFrom(r, Ahead(v))'
    BY <1>1, <1>3 DEF NothingFrom
  <2>3. QED BY <1>1, <2>1, <2>2
<1>5. \A n \in ResumesOf(r) :
        Waiting(n)' => NothingFrom(r, First(n))' \/ \E v \in Workers : Holds(v, n)'
  BY <1>1, <1>2, <1>3 DEF Once, NothingFrom, First
<1>6. \/ Untouched(r)'
      \/ /\ r[2] = receives'[Start(r[1])]
         /\ \/ queue'[Start(r[1])] = "deleted"
            \/ \E v \in Workers : Holds(v, Start(r[1]))'
  BY <1>1, <1>2, <1>3 DEF Once
<1>7. /\ \A d \in Delays : Pending(r, d)' => NothingFrom(r, d + 1)'
      /\ \A i \in Indices : performed'[r][i] <= 1
  BY <1>1, <1>3 DEF Once, NothingFrom
<1>8. QED BY <1>4, <1>5, <1>6, <1>7 DEF Once, ResumesOf

LEMMA OnceFire ==
  ASSUME Base, NEW r \in Runs, Once(r), Struck' \subseteq EarlyErrors,
         NEW q \in Runs, NEW d \in Delays, FireJob(q, d)
  PROVE  Once(r)'
<1> DEFINE new == Resume(q, d, fired[q][d] + 1)
<1>1. /\ UNCHANGED <<receives, performed, pc, msg, run, idx>>
      /\ fired[q][d] < performed[q][d]
  <2>1. ~Fails("Duplicate")
    BY FaultStrikes DEF EarlyErrors, Base, Typed
  <2>2. QED BY <2>1 DEF FireJob, delivery
<1>2. /\ fired[q][d] \in Nat /\ new \in ResumeMessages /\ new \in Messages
      /\ queue[new] = "absent"
      /\ queue' = [queue EXCEPT ![new] = "visible"]
      /\ \A p \in Runs, e \in Indices :
           fired'[p][e] = IF p = q /\ e = d THEN fired[q][d] + 1 ELSE fired[p][e]
  BY JobIsNew DEF Base
<1>3. new.run = q /\ First(new) = d + 1
  BY <1>2, ResumeParts, ResumeIndex DEF First
<1> HIDE DEF new
<1>4. \A m \in Messages : Waiting(m)' => Waiting(m) \/ m = new
  BY <1>2 DEF Waiting, Base, Typed, TypeOK
<1>5. queue[Start(r[1])] = "deleted" => queue'[Start(r[1])] = "deleted"
  BY <1>2 DEF Base, Typed, TypeOK
<1>6. \A e \in Delays : Pending(r, e)' => Pending(r, e)
  <2>1. \A e \in Delays : e \in Indices /\ performed[r][e] \in Nat
    BY DelayIsIndex DEF Base, Typed, TypeOK
  <2>2. QED BY <1>1, <1>2, <2>1 DEF Pending
<1>7. /\ \A v \in Workers : Works(v, r)' <=> Works(v, r)
      /\ \A v \in Workers : \A n : Holds(v, n)' <=> Holds(v, n)
      /\ \A i : NothingFrom(r, i)' <=> NothingFrom(r, i)
      /\ \A v \in Workers : Ahead(v)' = Ahead(v)
      /\ Untouched(r)' <=> Untouched(r)
  BY <1>1 DEF Works, Holds, NothingFrom, Ahead, First, Untouched
<1>8. \A v \in Workers : Works(v, r)' =>
        pc'[v] # "MarkFailed" /\ (pc'[v] \in AtEnd \/ NothingFrom(r, Ahead(v))')
  <2> SUFFICES ASSUME NEW v \in Workers, Works(v, r)'
               PROVE  pc'[v] # "MarkFailed" /\ (pc'[v] \in AtEnd \/ NothingFrom(r, Ahead(v))')
    OBVIOUS
  <2>1. pc[v] # "MarkFailed" /\ (pc[v] \in AtEnd \/ NothingFrom(r, Ahead(v)))
    BY <1>7 DEF Once
  <2>2. NothingFrom(r, Ahead(v)) => NothingFrom(r, Ahead(v))'
    BY <1>1, <1>7 DEF NothingFrom
  <2>3. QED BY <1>1, <2>1, <2>2
<1>9. ASSUME NEW m \in ResumesOf(r), Waiting(m)'
      PROVE  NothingFrom(r, First(m))' \/ \E v \in Workers : Holds(v, m)'
  <2>1. CASE m = new
    <3>1. q = r /\ Pending(r, d)
      BY <1>1, <1>3, <1>9, <2>1, ResumesAre DEF Pending
    <3>2. NothingFrom(r, d + 1)
      BY <3>1 DEF Once
    <3>3. First(m)' = First(m)
      BY DEF First
    <3>4. QED BY <1>1, <1>3, <2>1, <3>2, <3>3 DEF NothingFrom
  <2>2. CASE m # new
    BY <1>1, <1>4, <1>7, <1>9, <2>2, ResumesAre DEF Once, NothingFrom, First
  <2>3. QED BY <2>1, <2>2
<1>10. /\ \A e \in Delays : Pending(r, e)' => NothingFrom(r, e + 1)'
       /\ \A i \in Indices : performed'[r][i] <= 1
  BY <1>1, <1>6 DEF Once, NothingFrom
<1>11. \/ Untouched(r)'
       \/ /\ r[2] = receives'[Start(r[1])]
          /\ \/ queue'[Start(r[1])] = "deleted"
             \/ \E v \in Workers : Holds(v, Start(r[1]))'
  BY <1>1, <1>5, <1>7 DEF Once
<1>12. QED BY <1>8, <1>9, <1>10, <1>11 DEF Once, ResumesOf

LEMMA OnceInit ==
  ASSUME Init
  PROVE  OnceInv
<1>1. \A w \in Workers : pc[w] = "idle"
  BY DEF Init
<1>2. \A r \in Runs : /\ \A i \in Indices : performed[r][i] = 0
                      /\ \A d \in Delays : ~Pending(r, d)
  BY DelayIsIndex DEF Init, Pending
<1>3. \A r : \A m \in ResumesOf(r) : ~Waiting(m)
  BY ResumesAre DEF Init, Waiting
<1>4. \A r \in Runs : Once(r)
  BY <1>1, <1>2, <1>3 DEF Once, Works, Untouched
<1>5. QED BY <1>4, TokensInit DEF OnceInv

LEMMA EarlyIsExclusive ==
  ASSUME Struck \subseteq EarlyErrors, NEW r
  PROVE  Calm /\ Exclusive(r)
  BY DEF EarlyErrors, Calm, Redelivery, Exclusive, AfterAcceptance

LEMMA OnceStep ==
  ASSUME OnceInv, [Next]_vars
  PROVE  OnceInv'
<1>1. TokensInv' /\ Base
  BY TokensStep DEF OnceInv, TokensInv
<1>2. ASSUME Struck' \subseteq EarlyErrors, NEW r \in Runs
      PROVE  Once(r)'
  <2>1. Struck \subseteq EarlyErrors
    BY <1>1, <1>2, FaultsGrow DEF Base, Typed
  <2>2. Once(r) /\ OneToken(r) /\ InStep(r) /\ HolderInv
    BY <2>1, EarlyIsExclusive DEF OnceInv, TokensInv, TokenInv
  <2>3. CASE Next
    BY <1>1, <1>2, <2>2, <2>3, NextCases, OnceWrite, OnceTurn, OnceCreate, OnceExecute,
       OnceDelete, OnceReceive, OnceQueue, OnceFire
  <2>4. CASE UNCHANGED vars
    BY <2>2, <2>4 DEF vars, Once, Works, Holds, Pending, Waiting, ResumesOf, NothingFrom,
                      Ahead, First, Untouched
  <2>5. QED BY <2>3, <2>4
<1>3. QED BY <1>1, <1>2 DEF OnceInv

\* While only calls fail that come before an effect, no action takes effect
\* twice for one signal, in one run or in the runs of several deliveries, for
\* any workflow, any number of signals, processes, deliveries and faults.
THEOREM EffectsOnce == Spec => []PerformedOncePerSignal
<1>1. OnceInv => PerformedOncePerSignal
  <2> SUFFICES ASSUME OnceInv, Struck \subseteq EarlyErrors,
                      NEW r1 \in Runs, NEW r2 \in Runs, NEW i \in Indices,
                      r1[1] = r2[1], performed[r1][i] > 0, performed[r2][i] > 0
               PROVE  r1 = r2 /\ performed[r1][i] = 1
    BY DEF PerformedOncePerSignal, EarlyErrors
  <2>1. Once(r1) /\ Once(r2)
    BY DEF OnceInv
  <2>2. performed[r1][i] \in Nat /\ performed[r2][i] \in Nat
    BY DEF OnceInv, TokensInv, Base, Typed, TypeOK
  <2>3. ~Untouched(r1) /\ ~Untouched(r2)
    BY <2>2 DEF Untouched
  <2>4. r1[2] = r2[2]
    BY <2>1, <2>3 DEF Once
  <2>5. r1 = r2
    BY <2>4 DEF Runs
  <2>6. performed[r1][i] <= 1
    BY <2>1 DEF Once
  <2>7. QED BY <2>2, <2>5, <2>6
<1>2. QED BY <1>1, OnceInit, OnceStep, PTL DEF Spec

(***************************************************************************)
(* No run is left behind.  A run whose row is TRIGGERED keeps its token:   *)
(* a worker, a job that will fire, or a resume message; a worker of it     *)
(* lets go only with a job pending or with a resume message that comes     *)
(* back, and this message is not given up, because it was received at most *)
(* once more often than calls have failed.                                 *)
(***************************************************************************)
ClockAdvances == SeveralDelays => 0 \notin Gaps

Clean == Struck \subseteq CleanErrors /\ Len(faults) < MaxReceives

Paused == {"SetScheduled", "LogScheduled", "Delete"}

Carried(r) ==
  /\ \A w \in Workers : Works(w, r) =>
       /\ pc[w] \in Paused => idx[w] \in Delays /\ Pending(r, idx[w])
       /\ pc[w] = "Failed" => msg[w] \in ResumeMessages
  /\ \/ \E w \in Workers : Works(w, r)
     \/ \E d \in Delays : Pending(r, d)
     \/ \E m \in ResumesOf(r) : Waiting(m)
  /\ \A m \in ResumesOf(r) : Waiting(m) =>
       /\ receives[m] <= Len(faults) + 1
       /\ \/ receives[m] <= Len(faults)
          \/ \E w \in Workers : Holds(w, m) /\ pc[w] # "Failed"

Live(r) ==
  /\ \A w \in Workers : Works(w, r) =>
       /\ pc[w] \in HasCopy => mine[w] = row[r]
       /\ Starting(w) => row[r] = NoRow
  /\ row[r].status = "TRIGGERED" => Carried(r)

\* What is not in the queue yet was never received.
FreshInv == \A m \in Messages : queue[m] = "absent" => receives[m] = 0

LiveInv ==
  /\ TokensInv /\ MadeInv /\ FreshInv
  /\ Clean => \A r \in Runs : Exclusive(r) => Live(r)

LEMMA CountsAreNat ==
  ASSUME Base
  PROVE  /\ MaxReceives \in Nat /\ Len(faults) \in Nat
         /\ \A m \in Messages : receives[m] \in Nat
         /\ \A r \in Runs, d \in Delays : fired[r][d] \in Nat /\ performed[r][d] \in Nat
<1>1. \A r \in Runs, d \in Delays : fired[r][d] \in Nat /\ performed[r][d] \in Nat
  BY ConstantsAssumption, DelayIsIndex DEF Base, Typed, TypeOK
<1>2. QED BY <1>1, FaultCount, ConstantsAssumption DEF Base, Typed, TypeOK

\* A step of a worker of another run.
LEMMA LiveOther ==
  ASSUME Base, NEW r \in Runs, Live(r), [Next]_vars, NEW w \in Workers, Alone(w),
         pc[w] # "idle", ~Works(w, r),
         pc'[w] = "idle" \/ (msg'[w] = msg[w] /\ run'[w] = run[w]),
         UNCHANGED <<receives, fired>>, row'[r] = row[r], performed'[r] = performed[r],
         \A m \in ResumesOf(r) : Waiting(m)' <=> Waiting(m)
  PROVE  Live(r)'
<1>1. \A v \in Workers :
        /\ Works(v, r)' <=> Works(v, r)
        /\ Works(v, r) => v # w /\ pc'[v] = pc[v] /\ idx'[v] = idx[v] /\ msg'[v] = msg[v]
                                /\ mine'[v] = mine[v]
  BY DEF Works, Alone
<1>2. \A v \in Workers, m \in ResumesOf(r) : Holds(v, m) => Holds(v, m)' /\ pc'[v] = pc[v]
  BY <1>1, HolderWorks DEF Holds, Base
<1>3. \A d \in Delays : Pending(r, d)' <=> Pending(r, d)
  BY DEF Pending
<1>4. ASSUME Carried(r)
      PROVE  Carried(r)'
  <2>1. \A m \in ResumesOf(r) : Waiting(m)' =>
          /\ receives'[m] <= Len(faults') + 1
          /\ \/ receives'[m] <= Len(faults')
             \/ \E v \in Workers : Holds(v, m)' /\ pc'[v] # "Failed"
    <3> SUFFICES ASSUME NEW m \in ResumesOf(r), Waiting(m)'
                 PROVE  /\ receives'[m] <= Len(faults') + 1
                        /\ \/ receives'[m] <= Len(faults')
                           \/ \E v \in Workers : Holds(v, m)' /\ pc'[v] # "Failed"
      OBVIOUS
    <3>1. receives[m] \in Nat /\ Len(faults) \in Nat /\ receives'[m] = receives[m]
      BY CountsAreNat, ResumesAre
    <3>2. Len(faults) <= Len(faults') /\ Len(faults') \in Nat
      BY FaultsGrow, TypedStep, FaultCount DEF Base, Typed
    <3>3. /\ receives[m] <= Len(faults) + 1
          /\ \/ receives[m] <= Len(faults)
             \/ \E v \in Workers : Holds(v, m) /\ pc[v] # "Failed"
      BY <1>4 DEF Carried
    <3>4. QED BY <1>2, <3>1, <3>2, <3>3
  <2>2. \A v \in Workers : Works(v, r)' =>
          /\ pc'[v] \in Paused => idx'[v] \in Delays /\ Pending(r, idx[v])'
          /\ pc'[v] = "Failed" => msg'[v] \in ResumeMessages
    BY <1>1, <1>3, <1>4 DEF Carried
  <2>3. \/ \E v \in Workers : Works(v, r)'
        \/ \E d \in Delays : Pending(r, d)'
        \/ \E m \in ResumesOf(r) : Waiting(m)'
    BY <1>1, <1>3, <1>4 DEF Carried
  <2>4. \A v \in Workers : Works(v, r)' => idx'[v] = idx[v]
    BY <1>1
  <2>5. \A v \in Workers : Works(v, r)' =>
          /\ pc'[v] \in Paused => idx'[v] \in Delays /\ Pending(r, idx[v])'
          /\ pc'[v] = "Failed" => msg'[v] \in ResumeMessages
    BY <2>2, <2>4
  <2>6. \A v \in Workers : Works(v, r)' => (Pending(r, idx[v])' <=> fired'[r][idx'[v]] < performed'[r][idx'[v]])
    BY <2>4 DEF Pending
  <2>7. QED BY <2>1, <2>3, <2>5, <2>6 DEF Carried, ResumesOf
<1>5. \A v \in Workers : Works(v, r)' =>
        /\ pc'[v] \in HasCopy => mine'[v] = row'[r]
        /\ Starting(v)' => row'[r] = NoRow
  BY <1>1 DEF Live, Starting
<1>6. QED BY <1>4, <1>5 DEF Live

\* A step of the worker of the run, which keeps its message.
LEMMA LiveOwn ==
  ASSUME Base, NEW r \in Runs, OneToken(r), NEW w \in Workers, Alone(w), Works(w, r),
         pc'[w] # "idle", UNCHANGED <<queue, receives, fired>>,
         msg'[w] = msg[w], run'[w] = run[w],
         pc'[w] \in HasCopy => mine'[w] = row'[r],
         Starting(w)' => row'[r] = NoRow,
         row'[r].status = "TRIGGERED" =>
           /\ pc'[w] \in Paused => idx'[w] \in Delays /\ fired[r][idx'[w]] < performed'[r][idx'[w]]
           /\ pc'[w] = "Failed" => msg[w] \in ResumeMessages
           /\ \A m \in ResumesOf(r) : Waiting(m) =>
                /\ receives[m] <= Len(faults') + 1
                /\ receives[m] <= Len(faults') \/ pc'[w] # "Failed"
  PROVE  Live(r)'
<1>1. \A v \in Workers : Works(v, r)' => v = w
  BY DEF OneToken, Works, Alone
<1>2. Works(w, r)'
  BY DEF Works
<1>3. \A m \in ResumesOf(r) : (Waiting(m)' <=> Waiting(m)) /\ (Waiting(m) => Holds(w, m)')
  BY DEF OneToken, Waiting, Holds
<1>4. ASSUME row'[r].status = "TRIGGERED"
      PROVE  Carried(r)'
  <2>1. pc'[w] \in Paused => idx'[w] \in Delays /\ Pending(r, idx[w])'
    BY <1>4 DEF Pending
  <2>2. \A v \in Workers : Works(v, r)' =>
          /\ pc'[v] \in Paused => idx'[v] \in Delays /\ Pending(r, idx[v])'
          /\ pc'[v] = "Failed" => msg'[v] \in ResumeMessages
    BY <1>1, <1>4, <2>1 DEF Pending
  <2>3. \A m \in ResumesOf(r) : Waiting(m)' =>
          /\ receives'[m] <= Len(faults') + 1
          /\ \/ receives'[m] <= Len(faults')
             \/ \E v \in Workers : Holds(v, m)' /\ pc'[v] # "Failed"
    BY <1>3, <1>4
  <2>4. QED BY <1>2, <2>2, <2>3 DEF Carried, ResumesOf, Pending
<1>5. \A v \in Workers : Works(v, r)' =>
        /\ pc'[v] \in HasCopy => mine'[v] = row'[r]
        /\ Starting(v)' => row'[r] = NoRow
  BY <1>1
<1>6. QED BY <1>4, <1>5 DEF Live

\* What follows from a message's count while its run is TRIGGERED.
LEMMA CountKept ==
  ASSUME Base, NEW r \in Runs, Carried(r), [Next]_vars, receives' = receives
  PROVE  \A m \in ResumesOf(r) : Waiting(m) => receives[m] <= Len(faults') + 1
<1>1. \A m \in ResumesOf(r) : receives[m] \in Nat
  BY CountsAreNat, ResumesAre
<1>2. Len(faults) \in Nat /\ Len(faults') \in Nat /\ Len(faults) <= Len(faults')
  BY CountsAreNat, FaultsGrow, TypedStep, FaultCount DEF Base, Typed
<1>3. QED BY <1>1, <1>2 DEF Carried

\* Without an error of a write, the worker of a run stores what it writes.
LEMMA CleanWrite ==
  ASSUME Base, NEW r \in Runs, InStep(r), Struck' \subseteq CleanErrors, [Next]_vars,
         NEW w \in Workers, Writes(w), Works(w, r)
  PROVE  /\ row'[r].status = StatusWritten(w) /\ mine'[w] = row'[r]
         /\ pc[w] \in Guarded => pc'[w] \notin {"MarkFailed", "Failed"}
<1>1. PICK new \in Rows :
        /\ new.status = StatusWritten(w)
        /\ IF pc[w] \in Guarded
           THEN \/ Stored(w, new) /\ pc'[w] \notin {"MarkFailed", "Failed"}
                \/ NotStored(w, new, "Update") /\ pc'[w] \in {"MarkFailed", "Failed"}
           ELSE Stored(w, new) \/ NotStored(w, new, "IgnoredUpdate")
  BY WriteOutcome DEF Base
<1>2. Struck \subseteq Struck' /\ pc[w] \in HasCopy
  BY FaultsGrow, WritesAreWriteSteps DEF WriteStep, Base, Typed
<1>3. LockHolds(w)
  BY <1>2 DEF InStep, CleanErrors, WriteErrors
<1>4. ~Fails("Update") /\ ~Fails("IgnoredUpdate") /\ ~Fails("UpdateReply")
  BY FaultStrikes DEF CleanErrors, Base, Typed
<1>5. Stored(w, new) /\ (pc[w] \in Guarded => pc'[w] \notin {"MarkFailed", "Failed"})
  BY <1>1, <1>3, <1>4 DEF NotStored
<1>6. row'[r] = new /\ mine'[w] = new
  BY <1>5 DEF Stored, Take, Works, Base, Typed, TypeOK
<1>7. QED BY <1>1, <1>5, <1>6

LEMMA LiveWrite ==
  ASSUME Base, NEW r \in Runs, OneToken(r), InStep(r), Live(r),
         Struck' \subseteq CleanErrors, [Next]_vars, NEW w \in Workers, Writes(w)
  PROVE  Live(r)'
<1>1. /\ Alone(w) /\ pc[w] # "idle"
      /\ UNCHANGED <<queue, receives, fired, performed, msg, run>>
  BY WriteMoves, MovesAlone DEF Base, Moves
<1>2. CASE ~Works(w, r)
  <2>1. PICK new \in Rows, next \in AfterWrite, i \in Nat : WriteStep(w, new, next, i)
    BY WritesAreWriteSteps DEF Base
  <2>2. row'[r] = row[r]
    BY <1>1, <1>2, <2>1 DEF WriteStep, Wrote, Works, Base, Typed, TypeOK
  <2>3. QED BY <1>1, <1>2, <2>2, LiveOther DEF Waiting
<1>3. CASE Works(w, r)
  <2>1. /\ row'[r].status = StatusWritten(w) /\ mine'[w] = row'[r]
        /\ pc[w] \in Guarded => pc'[w] \notin {"MarkFailed", "Failed"}
    BY <1>3, CleanWrite
  <2>2. pc[w] \in HasCopy
    BY WritesAreWriteSteps DEF WriteStep, Base
  <2>3. pc'[w] # "idle" /\ ~Starting(w)'
    BY WriteMoves DEF StepAt, Starting, Base
  <2>4. ASSUME row'[r].status = "TRIGGERED"
        PROVE  /\ pc'[w] \in Paused => idx'[w] \in Delays /\ fired[r][idx'[w]] < performed'[r][idx'[w]]
               /\ pc'[w] # "Failed"
               /\ \A m \in ResumesOf(r) : Waiting(m) => receives[m] <= Len(faults') + 1
    <3>1. pc[w] \notin {"StopCompleted", "StopFailed", "MarkFailed", "MarkCompleted"}
      BY <2>1, <2>4 DEF StatusWritten
    <3>2. row[r].status = "TRIGGERED"
      BY <1>3, <2>1, <2>2, <2>4, <3>1 DEF StatusWritten, Live
    <3>3. Carried(r)
      BY <3>2 DEF Live
    <3>4. pc'[w] # "Failed"
      BY <2>1, <3>1, WriteMoves DEF Guarded, StepAt, Base
    <3>5. pc'[w] \in Paused => pc[w] = "SetScheduled" /\ idx'[w] = idx[w]
      BY <3>1, WriteMoves DEF Paused, StepAt, Base
    <3>6. pc[w] = "SetScheduled" => idx[w] \in Delays /\ Pending(r, idx[w])
      BY <1>3, <3>3 DEF Carried, Paused
    <3>7. QED BY <1>1, <3>3, <3>4, <3>5, <3>6, CountKept DEF Pending
  <2>5. QED BY <1>1, <1>3, <2>1, <2>3, <2>4, LiveOwn
<1>4. QED BY <1>2, <1>3

LEMMA LiveTurn ==
  ASSUME Base, HolderInv, NEW r \in Runs, OneToken(r), InStep(r), Live(r),
         Struck' \subseteq CleanErrors, [Next]_vars, NEW w \in Workers, Turns(w)
  PROVE  Live(r)'
<1>1. /\ Alone(w) /\ pc[w] # "idle"
      /\ UNCHANGED <<queue, receives, fired, performed>>
      /\ pc'[w] = "idle" \/ (msg'[w] = msg[w] /\ run'[w] = run[w])
  BY TurnMoves, MovesAlone DEF Base, Moves
<1>2. row' = row /\ ~Crash(w)
  <2>1. ~Crash(w)
    BY FaultStrikes DEF Crash, CleanErrors, Base, Typed
  <2>2. QED BY <2>1 DEF Turns, Fetch, Evaluate, GetRun, LogStarted, LogScheduled, Failed, table
<1>3. CASE ~Works(w, r)
  BY <1>1, <1>2, <1>3, LiveOther DEF Waiting
<1>4. CASE Works(w, r) /\ Failed(w)
  <2>1. pc'[w] = "idle" /\ pc[w] = "Failed" /\ faults' = faults
    BY <1>4 DEF Failed, Release, Goto, Base, Typed, TypeOK
  <2>2. \A v \in Workers : ~Works(v, r)'
    BY <1>1, <1>4, <2>1 DEF OneToken, Works, Alone
  <2>3. \A m \in ResumesOf(r) : Waiting(m)' <=> Waiting(m)
    BY <1>1 DEF Waiting
  <2>4. ASSUME Carried(r)
        PROVE  Carried(r)'
    <3>1. msg[w] \in ResumeMessages /\ msg[w] \in ResumesOf(r) /\ Waiting(msg[w])
      <4>1. msg[w] \in ResumeMessages
        BY <1>4, <2>1, <2>4 DEF Carried
      <4>2. msg[w].run = r
        BY <1>1, <1>4, <4>1 DEF Works, Base, Typed, WorkerInv
      <4>3. queue[msg[w]] = "inflight"
        BY <1>1 DEF HolderInv
      <4>4. QED BY <4>1, <4>2, <4>3 DEF ResumesOf, Waiting
    <3>2. \A m \in ResumesOf(r) : Waiting(m) => receives[m] <= Len(faults)
      <4>1. \A m \in ResumesOf(r) : Waiting(m) => m = msg[w]
        BY <1>4 DEF OneToken
      <4>2. \A v \in Workers : Holds(v, msg[w]) => v = w
        BY <1>1 DEF HolderInv
      <4>3. QED BY <2>1, <2>4, <4>1, <4>2 DEF Carried
    <3>3. \A m \in ResumesOf(r) : receives[m] \in Nat /\ Len(faults) \in Nat
      BY CountsAreNat, ResumesAre
    <3>4. \E m \in ResumesOf(r) : Waiting(m)'
      BY <2>3, <3>1
    <3>5. QED BY <1>1, <2>1, <2>2, <2>3, <3>2, <3>3, <3>4 DEF Carried, ResumesOf
  <2>5. QED BY <1>2, <2>2, <2>4 DEF Live
<1>5. CASE Works(w, r) /\ ~Failed(w)
  <2>1. pc'[w] # "idle" /\ msg'[w] = msg[w] /\ run'[w] = run[w]
    <3>1. pc'[w] # "idle"
      BY <1>2, <1>5 DEF Turns, Fetch, Evaluate, GetRun, LogStarted, LogScheduled, Goto, StepAt,
                        Base, Typed, TypeOK
    <3>2. QED BY <1>1, <3>1
  <2>2. pc'[w] \in HasCopy => mine'[w] = row'[r]
    <3>1. CASE GetRun(w)
      BY <1>2, <1>5, <3>1 DEF GetRun, Goto, Works, HasCopy, ActionSteps, Base, Typed, TypeOK
    <3>2. CASE ~GetRun(w)
      <4>1. mine' = mine /\ (pc'[w] \in HasCopy => pc[w] \in HasCopy)
        BY <1>2, <1>5, <3>2 DEF Turns, Fetch, Evaluate, LogStarted, LogScheduled, Goto,
                                HasCopy, ActionSteps, Base, Typed, TypeOK
      <4>2. QED BY <1>2, <1>5, <4>1 DEF Live
    <3>3. QED BY <3>1, <3>2
  <2>3. Starting(w)' => row'[r] = NoRow
    <3>1. Starting(w)' => Starting(w)
      BY <2>1, TurnMoves DEF Starting, CondSteps, StepAt, Base
    <3>2. QED BY <1>2, <1>5, <3>1 DEF Live
  <2>4. ASSUME row'[r].status = "TRIGGERED"
        PROVE  /\ pc'[w] \in Paused => idx'[w] \in Delays /\ fired[r][idx'[w]] < performed'[r][idx'[w]]
               /\ pc'[w] = "Failed" => msg[w] \in ResumeMessages
               /\ \A m \in ResumesOf(r) : Waiting(m) =>
                    /\ receives[m] <= Len(faults') + 1
                    /\ receives[m] <= Len(faults') \/ pc'[w] # "Failed"
    <3>1. Carried(r)
      BY <1>2, <2>4 DEF Live
    <3>2. pc'[w] \in Paused => pc[w] = "LogScheduled" /\ idx'[w] = idx[w]
      BY <2>1, TurnMoves DEF Paused, CondSteps, StepAt, Base
    <3>3. pc[w] = "LogScheduled" => idx[w] \in Delays /\ Pending(r, idx[w])
      BY <1>5, <3>1 DEF Carried, Paused
    <3>4. ASSUME pc'[w] = "Failed"
          PROVE  \/ Fails("Fetch") /\ pc[w] = "Fetch"
                 \/ Fails("GetRun") /\ pc[w] = "GetRun"
      <4>1. pc[w] \in {"Fetch", "GetRun"}
        BY <2>1, <3>4, TurnMoves DEF StepAt, CondSteps, Base
      <4>2. Fetch(w) \/ GetRun(w)
        BY <1>2, <1>5, <4>1 DEF Turns, Evaluate, LogStarted, LogScheduled
      <4>3. pc \in [Workers -> Steps]
        BY DEF Base, Typed, TypeOK
      <4>4. CASE Fetch(w)
        BY <3>4, <4>3, <4>4 DEF Fetch, Goto
      <4>5. CASE GetRun(w)
        BY <3>4, <4>3, <4>5 DEF GetRun, Goto
      <4>6. QED BY <4>2, <4>4, <4>5
    <3>5. pc'[w] = "Failed" => msg[w] \in ResumeMessages
      <4>1. pc[w] = "GetRun" => msg[w] \in ResumeMessages
        BY DEF Base, Typed, WorkerInv
      <4>2. pc[w] = "Fetch" => ~Starting(w)
        BY <1>2, <1>5, <2>4 DEF Live, NoRow
      <4>3. pc[w] = "Fetch" => msg[w] \in ResumeMessages
        BY <4>2 DEF Starting, Base, Typed, TypeOK, Messages
      <4>4. QED BY <3>4, <4>1, <4>3
    <3>6. pc'[w] = "Failed" => Len(faults') = Len(faults) + 1
      BY <3>4, FaultStrikes DEF Base, Typed
    <3>7. \A m \in ResumesOf(r) : Waiting(m) => receives[m] <= Len(faults) + 1
      BY <3>1 DEF Carried
    <3>8. QED BY <1>1, <3>1, <3>2, <3>3, <3>5, <3>6, <3>7, CountKept DEF Pending
  <2>5. QED BY <1>1, <1>5, <2>1, <2>2, <2>3, <2>4, LiveOwn
<1>6. QED BY <1>3, <1>4, <1>5

LEMMA LiveCreate ==
  ASSUME Base, NEW r \in Runs, OneToken(r), Live(r),
         Struck' \subseteq CleanErrors, [Next]_vars, NEW w \in Workers, CreateRun(w)
  PROVE  Live(r)'
<1>1. /\ Alone(w) /\ pc[w] # "idle" /\ msg[w] \in StartMessages
      /\ UNCHANGED <<queue, receives, fired, performed, msg, run>>
  BY CreateMoves, MovesAlone DEF Base, Moves
<1>2. PICK new : /\ row' = [row EXCEPT ![run[w]] = new]
                 /\ mine' = [mine EXCEPT ![w] = new]
                 /\ StartWith(w)
  <2>1. ~Fails("Create")
    <3>1. "Create" \notin CleanErrors
      BY DEF CleanErrors
    <3>2. QED BY <3>1, FaultStrikes DEF Base, Typed
  <2>2. QED BY <2>1 DEF CreateRun, Take
<1>3. CASE ~Works(w, r)
  <2>1. row'[r] = row[r]
    BY <1>1, <1>2, <1>3 DEF Works, Base, Typed, TypeOK
  <2>2. QED BY <1>1, <1>3, <2>1, LiveOther DEF Waiting
<1>4. CASE Works(w, r)
  <2>1. row'[r] = mine'[w]
    BY <1>2, <1>4 DEF Works, Base, Typed, TypeOK
  <2>2. pc'[w] \in {"SetCondition", "SetStarted", "MarkCompleted"}
    BY <1>2 DEF StartWith, Goto, StepAt, Base, Typed, TypeOK
  <2>3. \A m \in ResumesOf(r) : ~Waiting(m)
    BY <1>1, <1>4, ResumesAre DEF OneToken
  <2>4. pc'[w] \notin Paused /\ pc'[w] # "Failed" /\ pc'[w] # "idle" /\ ~Starting(w)'
    BY <2>2 DEF Paused, Starting
  <2>5. QED BY <1>1, <1>4, <2>1, <2>3, <2>4, LiveOwn
<1>5. QED BY <1>3, <1>4

LEMMA LiveExecute ==
  ASSUME NoShortDelays, Base, HolderInv, NEW r \in Runs, OneToken(r), Live(r),
         Struck' \subseteq CleanErrors, [Next]_vars, NEW w \in Workers, Execute(w)
  PROVE  Live(r)'
<1>1. /\ Alone(w) /\ pc[w] = "Execute" /\ run[w] \in Runs /\ idx[w] \in Indices
      /\ UNCHANGED <<queue, receives, fired, msg, run, idx, row, mine>>
      /\ pc'[w] \in {"SetCompleted", "SetScheduled", "MarkFailed"}
  BY ExecuteMoves, MovesAlone DEF Base, Moves, Execute, table
<1>2. CASE ~Works(w, r)
  <2>1. performed'[r] = performed[r]
    BY <1>1, <1>2, ExecuteMoves DEF Works, Base
  <2>2. QED BY <1>1, <1>2, <2>1, LiveOther DEF Waiting
<1>3. CASE Works(w, r)
  <2>1. pc'[w] \in HasCopy => mine'[w] = row'[r]
    BY <1>1, <1>3 DEF Live, HasCopy, ActionSteps
  <2>2. pc'[w] \in Paused => idx[w] \in Delays /\ fired[r][idx[w]] < performed'[r][idx[w]]
    <3>1. pc'[w] \in Paused => Actions[idx[w]] \in {"delay", "short"} /\ Perform(w)
      BY <1>1 DEF Execute, ExecuteRegular, ExecuteDelay, Goto, Paused, Base, Typed, TypeOK
    <3>2. Actions[idx[w]] = "delay" => idx[w] \in Delays
      BY <1>1 DEF Delays
    <3>3. Perform(w) => performed'[r][idx[w]] = performed[r][idx[w]] + 1
      BY <1>1, <1>3 DEF Perform, Works, Base, Typed, TypeOK
    <3>4. idx[w] \in Delays => /\ fired[r][idx[w]] <= performed[r][idx[w]]
                               /\ fired[r][idx[w]] \in Nat /\ performed[r][idx[w]] \in Nat
      BY CountsAreNat DEF HolderInv
    <3>5. Actions[idx[w]] # "short"
      BY <1>1 DEF NoShortDelays
    <3>6. QED BY <3>1, <3>2, <3>3, <3>4, <3>5
  <2>3. row'[r].status = "TRIGGERED" =>
          \A m \in ResumesOf(r) : Waiting(m) => receives[m] <= Len(faults') + 1
    BY <1>1, CountKept DEF Live
  <2>4. ~Starting(w)' /\ pc'[w] # "idle" /\ pc'[w] # "Failed"
    BY <1>1 DEF Starting
  <2>5. QED BY <1>1, <1>3, <2>1, <2>2, <2>3, <2>4, LiveOwn
<1>4. QED BY <1>2, <1>3

LEMMA LiveDelete ==
  ASSUME Base, HolderInv, NEW r \in Runs, OneToken(r), Live(r),
         Struck' \subseteq CleanErrors, [Next]_vars, NEW w \in Workers, Delete(w)
  PROVE  Live(r)'
<1>1. /\ Alone(w) /\ pc[w] = "Delete" /\ pc'[w] = "idle" /\ msg[w] \in Messages
      /\ UNCHANGED <<receives, fired, performed, row>>
  BY MovesAlone DEF Base, Moves, Delete, Release, Goto, table, Typed, TypeOK
<1>2. /\ faults' = faults
      /\ queue' = [queue EXCEPT ![msg[w]] = "deleted"]
  <2>1. queue[msg[w]] = "inflight"
    BY <1>1 DEF HolderInv
  <2>2. ~Fails("Delete")
    BY FaultStrikes DEF CleanErrors, Base, Typed
  <2>3. QED BY <1>1, <2>1, <2>2 DEF Delete, Ok, Base, Typed, TypeOK
<1>3. CASE ~Works(w, r)
  <2>1. \A m \in ResumesOf(r) : m # msg[w]
    BY <1>1, <1>3, HolderWorks DEF Holds, Base
  <2>2. \A m \in ResumesOf(r) : Waiting(m)' <=> Waiting(m)
    BY <1>2, <2>1, ResumesAre DEF Waiting, Base, Typed, TypeOK
  <2>3. QED BY <1>1, <1>3, <2>2, LiveOther
<1>4. CASE Works(w, r)
  <2>1. \A v \in Workers : ~Works(v, r)'
    BY <1>1, <1>4 DEF OneToken, Works, Alone
  <2>2. \A m \in ResumesOf(r) : ~Waiting(m)'
    <3>1. \A m \in ResumesOf(r) : Waiting(m) => m = msg[w]
      BY <1>4 DEF OneToken
    <3>2. QED BY <1>1, <1>2, <3>1, ResumesAre DEF Waiting, Base, Typed, TypeOK
  <2>3. Carried(r) => \E d \in Delays : Pending(r, d)'
    BY <1>1, <1>4 DEF Carried, Paused, Pending
  <2>4. QED BY <1>1, <2>1, <2>2, <2>3 DEF Live, Carried, ResumesOf
<1>5. QED BY <1>3, <1>4

LEMMA FreshStep ==
  ASSUME Base, FreshInv, [Next]_vars
  PROVE  FreshInv'
<1>1. ASSUME receives' = receives, \A m \in Messages : queue'[m] = "absent" => queue[m] = "absent"
      PROVE  FreshInv'
  BY <1>1 DEF FreshInv
<1>2. CASE UNCHANGED vars
  BY <1>1, <1>2 DEF vars
<1>3. ASSUME NEW w \in Workers, Writes(w) \/ Turns(w) \/ CreateRun(w) \/ Execute(w)
      PROVE  FreshInv'
  <2>1. UNCHANGED <<queue, receives>>
    BY <1>3, WriteMoves, TurnMoves, CreateMoves, ExecuteMoves DEF Base
  <2>2. QED BY <1>1, <2>1
<1>4. ASSUME NEW w \in Workers, Delete(w)
      PROVE  FreshInv'
  <2>1. /\ receives' = receives
        /\ \/ queue' = queue
           \/ queue' = [queue EXCEPT ![msg[w]] = IF @ = "dead" THEN @ ELSE "deleted"]
    BY <1>4 DEF Delete
  <2>2. \A m \in Messages : queue'[m] = "absent" => queue[m] = "absent"
    BY <2>1 DEF Base, Typed, TypeOK
  <2>3. QED BY <1>1, <2>1, <2>2
<1>5. ASSUME NEW w \in Workers, NEW m \in Messages, Receive(w, m)
      PROVE  FreshInv'
  <2>1. /\ queue' = [queue EXCEPT ![m] = "inflight"]
        /\ receives' = [receives EXCEPT ![m] = @ + 1]
    BY <1>5 DEF Receive
  <2>2. QED BY <2>1 DEF FreshInv, Base, Typed, TypeOK
<1>6. ASSUME NEW m \in Messages, BecomeVisible(m) \/ MoveToDeadLetters(m)
      PROVE  FreshInv'
  <2>1. /\ receives' = receives
        /\ queue' = [queue EXCEPT ![m] = "visible"] \/ queue' = [queue EXCEPT ![m] = "dead"]
    BY <1>6 DEF BecomeVisible, MoveToDeadLetters
  <2>2. \A n \in Messages : queue'[n] = "absent" => queue[n] = "absent"
    BY <2>1 DEF Base, Typed, TypeOK
  <2>3. QED BY <1>1, <2>1, <2>2
<1>7. ASSUME NEW r \in Runs, NEW d \in Delays, FireJob(r, d)
      PROVE  FreshInv'
  <2>1. receives' = receives /\ \E n : queue' = [queue EXCEPT ![n] = "visible"]
    BY <1>7 DEF FireJob
  <2>2. \A n \in Messages : queue'[n] = "absent" => queue[n] = "absent"
    BY <2>1 DEF Base, Typed, TypeOK
  <2>3. QED BY <1>1, <2>1, <2>2
<1>8. QED BY <1>2, <1>3, <1>4, <1>5, <1>6, <1>7, NextCases

\* A message that nobody holds was received at most as often as calls failed.
LEMMA VisibleCount ==
  ASSUME HolderInv, NEW r \in Runs, Carried(r), NEW m \in ResumesOf(r), queue[m] = "visible"
  PROVE  receives[m] <= Len(faults)
  BY DEF HolderInv, Holds, Carried, Waiting

LEMMA LiveReceive ==
  ASSUME Base, HolderInv, MadeInv, NEW r \in Runs, Live(r), [Next]_vars,
         NEW w \in Workers, NEW m \in Messages, Receive(w, m)
  PROVE  Live(r)'
<1>1. /\ pc[w] = "idle" /\ queue[m] = "visible" /\ receives[m] < MaxReceives
      /\ queue' = [queue EXCEPT ![m] = "inflight"]
      /\ receives' = [receives EXCEPT ![m] = @ + 1]
      /\ UNCHANGED <<fired, performed, idx, mine, row>>
      /\ \/ UNCHANGED <<pc, msg, run>> /\ Fails("Receive")
         \/ /\ pc' = [pc EXCEPT ![w] = "Fetch"]
            /\ msg' = [msg EXCEPT ![w] = m]
            /\ run' = [run EXCEPT ![w] = RunOf(m)]
  BY DEF Receive, Goto, delivery, table
<1>2. /\ \A n \in Messages : Waiting(n)' <=> Waiting(n)
      /\ \A v \in Workers : \A n : Holds(v, n) => Holds(v, n)' /\ pc'[v] = pc[v]
      /\ \A d \in Delays : Pending(r, d)' <=> Pending(r, d)
  BY <1>1 DEF Waiting, Holds, Pending, Base, Typed, TypeOK
<1>3. \A v \in Workers : Works(v, r)' =>
        \/ Works(v, r) /\ pc'[v] = pc[v] /\ msg'[v] = msg[v]
        \/ v = w /\ pc'[v] = "Fetch" /\ msg'[v] = m /\ r = RunOf(m)
  BY <1>1 DEF Works, Base, Typed, TypeOK
<1>4. \A v \in Workers : Works(v, r) => Works(v, r)'
  BY <1>1 DEF Works, Base, Typed, TypeOK
<1>5. r = RunOf(m) /\ m \in StartMessages => row[r] = NoRow
  <2> SUFFICES ASSUME r = RunOf(m), m \in StartMessages
               PROVE  row[r] = NoRow
    OBVIOUS
  <2>1. PICK s \in Signals : m = Start(s)
    BY DEF StartMessages
  <2>2. r = <<s, receives[m] + 1>> /\ receives[m] \in Nat
    BY <2>1, CountsAreNat DEF RunOf, Start
  <2>3. r[1] = s /\ r[2] = receives[m] + 1
    BY <2>2
  <2>4. QED BY <2>1, <2>2, <2>3 DEF MadeInv
<1>6. \A v \in Workers : Works(v, r)' =>
        /\ pc'[v] \in HasCopy => mine'[v] = row'[r]
        /\ Starting(v)' => row'[r] = NoRow
  BY <1>1, <1>3, <1>5 DEF Live, Starting, HasCopy, ActionSteps
<1>7. ASSUME Carried(r), row[r].status = "TRIGGERED"
      PROVE  Carried(r)'
  <2>1. ASSUME NEW v \in Workers, Works(v, r)'
        PROVE  /\ pc'[v] \in Paused => idx'[v] \in Delays /\ Pending(r, idx[v])'
               /\ pc'[v] = "Failed" => msg'[v] \in ResumeMessages
    BY <1>1, <1>3, <1>7, <2>1 DEF Carried, Paused, Pending
  <2>2. \/ \E v \in Workers : Works(v, r)'
        \/ \E d \in Delays : Pending(r, d)'
        \/ \E n \in ResumesOf(r) : Waiting(n)'
    BY <1>2, <1>4, <1>7, ResumesAre DEF Carried
  <2>3. ASSUME NEW n \in ResumesOf(r), Waiting(n)'
        PROVE  /\ receives'[n] <= Len(faults') + 1
               /\ \/ receives'[n] <= Len(faults')
                  \/ \E v \in Workers : Holds(v, n)' /\ pc'[v] # "Failed"
    <3>1. /\ n \in Messages /\ receives[n] \in Nat /\ Len(faults) \in Nat
          /\ Len(faults') \in Nat /\ Len(faults) <= Len(faults')
      BY CountsAreNat, ResumesAre, FaultsGrow, TypedStep, FaultCount DEF Base, Typed
    <3>2. CASE n # m
      <4>1. receives'[n] = receives[n]
        BY <1>1, <3>1, <3>2 DEF Base, Typed, TypeOK
      <4>2. /\ receives[n] <= Len(faults) + 1
            /\ \/ receives[n] <= Len(faults)
               \/ \E v \in Workers : Holds(v, n) /\ pc[v] # "Failed"
        BY <1>2, <1>7, <2>3, <3>1 DEF Carried
      <4>3. QED BY <1>2, <3>1, <4>1, <4>2
    <3>3. CASE n = m
      <4>1. receives[m] <= Len(faults) /\ receives'[m] = receives[m] + 1
        BY <1>1, <1>7, <3>3, VisibleCount DEF Base, Typed, TypeOK
      <4>2. CASE Fails("Receive")
        <5>1. Len(faults') = Len(faults) + 1
          BY <4>2, FaultStrikes DEF Base, Typed
        <5>2. QED BY <3>1, <3>3, <4>1, <5>1
      <4>3. CASE pc' = [pc EXCEPT ![w] = "Fetch"] /\ msg' = [msg EXCEPT ![w] = m]
        <5>1. Holds(w, n)' /\ pc'[w] # "Failed"
          BY <3>3, <4>3 DEF Holds, Base, Typed, TypeOK
        <5>2. QED BY <3>1, <3>3, <4>1, <5>1
      <4>4. QED BY <1>1, <4>2, <4>3
    <3>4. QED BY <3>2, <3>3
  <2>4. QED BY <2>1, <2>2, <2>3 DEF Carried, ResumesOf, Pending
<1>8. QED BY <1>1, <1>6, <1>7 DEF Live

LEMMA LiveQueue ==
  ASSUME Base, HolderInv, Clean, NEW r \in Runs, Live(r), [Next]_vars,
         NEW m \in Messages, BecomeVisible(m) \/ MoveToDeadLetters(m)
  PROVE  Live(r)'
<1>1. /\ UNCHANGED <<receives, fired, performed, pc, msg, run, idx, mine, row>>
      /\ \/ queue' = [queue EXCEPT ![m] = "visible"] /\ queue[m] = "inflight"
         \/ /\ queue' = [queue EXCEPT ![m] = "dead"]
            /\ queue[m] = "visible" /\ receives[m] = MaxReceives
  BY DEF BecomeVisible, MoveToDeadLetters, delivery, table
<1>2. ASSUME Carried(r)
      PROVE  Carried(r)'
  <2>1. \A n \in ResumesOf(r) : Waiting(n)' <=> Waiting(n)
    <3>1. ASSUME m \in ResumesOf(r), queue[m] = "visible"
          PROVE  receives[m] < MaxReceives
      <4>1. receives[m] <= Len(faults) /\ Len(faults) < MaxReceives
        BY <1>2, <3>1, VisibleCount DEF Clean
      <4>2. QED BY <4>1, CountsAreNat
    <3>2. m \in ResumesOf(r) => queue' = [queue EXCEPT ![m] = "visible"] /\ queue[m] = "inflight"
      BY <1>1, <3>1, CountsAreNat
    <3>3. QED BY <1>1, <3>2, ResumesAre DEF Waiting, Base, Typed, TypeOK
  <2>2. \A n \in ResumesOf(r) : Waiting(n)' =>
          /\ receives'[n] <= Len(faults') + 1
          /\ \/ receives'[n] <= Len(faults')
             \/ \E v \in Workers : Holds(v, n)' /\ pc'[v] # "Failed"
    <3> SUFFICES ASSUME NEW n \in ResumesOf(r), Waiting(n)'
                 PROVE  /\ receives'[n] <= Len(faults') + 1
                        /\ \/ receives'[n] <= Len(faults')
                           \/ \E v \in Workers : Holds(v, n)' /\ pc'[v] # "Failed"
      OBVIOUS
    <3>1. /\ receives[n] \in Nat /\ Len(faults) \in Nat
          /\ Len(faults') \in Nat /\ Len(faults) <= Len(faults')
      BY CountsAreNat, ResumesAre, FaultsGrow, TypedStep, FaultCount DEF Base, Typed
    <3>2. /\ receives[n] <= Len(faults) + 1
          /\ \/ receives[n] <= Len(faults)
             \/ \E v \in Workers : Holds(v, n) /\ pc[v] # "Failed"
      BY <1>2, <2>1 DEF Carried
    <3>3. QED BY <1>1, <3>1, <3>2 DEF Holds
  <2>3. \A v \in Workers : Works(v, r)' =>
          /\ pc'[v] \in Paused => idx'[v] \in Delays /\ Pending(r, idx[v])'
          /\ pc'[v] = "Failed" => msg'[v] \in ResumeMessages
    BY <1>1, <1>2 DEF Carried, Works, Pending
  <2>4. \/ \E v \in Workers : Works(v, r)'
        \/ \E d \in Delays : Pending(r, d)'
        \/ \E n \in ResumesOf(r) : Waiting(n)'
    BY <1>1, <1>2, <2>1 DEF Carried, Works, Pending
  <2>5. QED BY <2>2, <2>3, <2>4 DEF Carried, ResumesOf, Pending
<1>3. \A v \in Workers : Works(v, r)' =>
        /\ pc'[v] \in HasCopy => mine'[v] = row'[r]
        /\ Starting(v)' => row'[r] = NoRow
  BY <1>1 DEF Live, Works, Starting
<1>4. QED BY <1>1, <1>2, <1>3 DEF Live

LEMMA LiveFire ==
  ASSUME Base, FreshInv, NEW r \in Runs, OneToken(r), Live(r),
         Struck' \subseteq CleanErrors, [Next]_vars,
         NEW q \in Runs, NEW d \in Delays, FireJob(q, d)
  PROVE  Live(r)'
<1> DEFINE new == Resume(q, d, fired[q][d] + 1)
<1>1. /\ UNCHANGED <<receives, performed, pc, msg, run, idx, mine, row>>
      /\ fired[q][d] < performed[q][d] /\ ~StillPausing(q, d)
  <2>1. ~Fails("Duplicate") /\ ~Fails("EarlyFire")
    BY FaultStrikes DEF CleanErrors, Base, Typed
  <2>2. QED BY <2>1 DEF FireJob, delivery, table
<1>2. /\ fired[q][d] \in Nat /\ new \in ResumeMessages /\ new \in Messages
      /\ queue[new] = "absent"
      /\ queue' = [queue EXCEPT ![new] = "visible"]
      /\ \A p \in Runs, e \in Indices :
           fired'[p][e] = IF p = q /\ e = d THEN fired[q][d] + 1 ELSE fired[p][e]
  BY JobIsNew DEF Base
<1>3. new.run = q
  BY ResumeParts
<1> HIDE DEF new
<1>4. /\ \A m \in Messages : Waiting(m)' <=> Waiting(m) \/ m = new
      /\ receives[new] = 0 /\ ~Waiting(new)
  BY <1>2 DEF Waiting, FreshInv, Base, Typed, TypeOK
<1>5. \A e \in Delays : q # r \/ e # d => (Pending(r, e)' <=> Pending(r, e))
  BY <1>1, <1>2, DelayIsIndex DEF Pending
<1>6. ASSUME Carried(r)
      PROVE  Carried(r)'
  <2>1. ASSUME NEW v \in Workers, Works(v, r)'
        PROVE  /\ pc'[v] \in Paused => idx'[v] \in Delays /\ Pending(r, idx[v])'
               /\ pc'[v] = "Failed" => msg'[v] \in ResumeMessages
    <3>1. Works(v, r)
      BY <1>1, <2>1 DEF Works
    <3>2. /\ pc[v] \in Paused => idx[v] \in Delays /\ Pending(r, idx[v])
          /\ pc[v] = "Failed" => msg[v] \in ResumeMessages
      BY <1>6, <3>1 DEF Carried
    <3>3. q # r \/ idx[v] # d
      BY <1>1, <3>1 DEF StillPausing, Works
    <3>4. idx[v] \in Delays => (Pending(r, idx[v])' <=> Pending(r, idx[v]))
      <4>1. idx'[v] = idx[v]
        BY <1>1
      <4>2. QED BY <1>5, <3>3, <4>1 DEF Pending
    <3>5. QED BY <1>1, <3>2, <3>4
  <2>2. \/ \E v \in Workers : Works(v, r)'
        \/ \E e \in Delays : Pending(r, e)'
        \/ \E n \in ResumesOf(r) : Waiting(n)'
    <3>1. CASE q = r
      BY <1>2, <1>3, <1>4, <3>1 DEF ResumesOf
    <3>2. CASE q # r
      BY <1>1, <1>4, <1>5, <1>6, <3>2, ResumesAre DEF Carried, Works
    <3>3. QED BY <3>1, <3>2
  <2>3. ASSUME NEW n \in ResumesOf(r), Waiting(n)'
        PROVE  /\ receives'[n] <= Len(faults') + 1
               /\ \/ receives'[n] <= Len(faults')
                  \/ \E v \in Workers : Holds(v, n)' /\ pc'[v] # "Failed"
    <3>1. /\ n \in Messages /\ receives[n] \in Nat /\ Len(faults) \in Nat
          /\ Len(faults') \in Nat /\ Len(faults) <= Len(faults')
      BY CountsAreNat, ResumesAre, FaultsGrow, TypedStep, FaultCount DEF Base, Typed
    <3>2. CASE n = new
      BY <1>1, <1>4, <3>1, <3>2
    <3>3. CASE n # new
      <4>1. /\ receives[n] <= Len(faults) + 1
            /\ \/ receives[n] <= Len(faults)
               \/ \E v \in Workers : Holds(v, n) /\ pc[v] # "Failed"
        BY <1>4, <1>6, <2>3, <3>1, <3>3 DEF Carried
      <4>2. QED BY <1>1, <3>1, <4>1 DEF Holds
    <3>4. QED BY <3>2, <3>3
  <2>4. QED BY <2>1, <2>2, <2>3 DEF Carried, ResumesOf, Pending
<1>7. \A v \in Workers : Works(v, r)' =>
        /\ pc'[v] \in HasCopy => mine'[v] = row'[r]
        /\ Starting(v)' => row'[r] = NoRow
  BY <1>1 DEF Live, Works, Starting
<1>8. QED BY <1>1, <1>6, <1>7 DEF Live

LEMMA LiveInit ==
  ASSUME Init
  PROVE  LiveInv
<1>1. /\ \A w \in Workers : pc[w] = "idle"
      /\ \A r \in Runs : row[r] = NoRow
      /\ FreshInv
  BY DEF Init, FreshInv
<1>2. NoRow.status # "TRIGGERED"
  BY DEF NoRow
<1>3. \A r \in Runs : Live(r)
  BY <1>1, <1>2 DEF Live, Works
<1>4. QED BY <1>1, <1>3, TokensInit, MadeInit DEF LiveInv

LEMMA LiveStep ==
  ASSUME NoShortDelays, LiveInv, [Next]_vars
  PROVE  LiveInv'
<1>1. TokensInv' /\ MadeInv' /\ FreshInv' /\ Base
  BY TokensStep, MadeStep, FreshStep DEF LiveInv, TokensInv
<1>2. ASSUME Clean', NEW r \in Runs, Exclusive(r)'
      PROVE  Live(r)'
  <2>1. Clean /\ Struck' \subseteq CleanErrors
    <3>1. Struck \subseteq Struck' /\ Len(faults) <= Len(faults')
      BY <1>1, FaultsGrow DEF Base, Typed
    <3>2. Len(faults) \in Nat /\ Len(faults') \in Nat /\ MaxReceives \in Nat
      BY <1>1, CountsAreNat, FaultCount DEF TokensInv, Base, Typed
    <3>3. QED BY <1>2, <3>1, <3>2 DEF Clean
  <2>2. Exclusive(r) /\ Calm
    BY <1>1, <1>2, ExclusiveBefore DEF Exclusive
  <2>3. Live(r) /\ OneToken(r) /\ InStep(r) /\ HolderInv /\ MadeInv /\ FreshInv
    BY <2>1, <2>2 DEF LiveInv, TokensInv, TokenInv
  <2>4. CASE Next
    BY <1>1, <2>1, <2>3, <2>4, NextCases, LiveWrite, LiveTurn, LiveCreate, LiveExecute,
       LiveDelete, LiveReceive, LiveQueue, LiveFire
  <2>5. CASE UNCHANGED vars
    BY <2>3, <2>5 DEF vars, Live, Carried, Works, Holds, Pending, Waiting, ResumesOf, Starting
  <2>6. QED BY <2>4, <2>5
<1>3. QED BY <1>1, <1>2 DEF LiveInv

\* When nothing is left to process, every run has ended, although calls failed,
\* while there were fewer of them than a message has deliveries.  It assumes
\* that no delay is shorter than a minute, because such a delay ends the run's
\* execution without a job, and in a workflow of several delays that the clock
\* advances between two updates of a run.
THEOREM EveryRunEnds ==
  ASSUME NoShortDelays, ClockAdvances
  PROVE  Spec => []NoRunLeftBehind
<1>1. LiveInv => NoRunLeftBehind
  <2> SUFFICES ASSUME LiveInv, Clean,
                      \A m \in Messages : queue[m] \in {"absent", "deleted", "dead"},
                      \A w \in Workers : pc[w] = "idle",
                      \A r \in Runs, i \in Delays : fired[r][i] = performed[r][i],
                      NEW r \in Runs, row[r] # NoRow, row[r].status \notin FinalStatuses
               PROVE  FALSE
    BY DEF NoRunLeftBehind, Clean
  <2>1. row[r].status = "TRIGGERED"
    BY DEF LiveInv, TokensInv, Base, Typed, TypeOK, Rows, Statuses
  <2>2. Exclusive(r)
    BY DEF Clean, CleanErrors, Redelivery, Calm, Exclusive, ClockAdvances
  <2>3. Carried(r)
    BY <2>1, <2>2 DEF LiveInv, Live
  <2>4. \A d \in Delays : ~Pending(r, d)
    <3>1. \A d \in Delays : fired[r][d] \in Nat
      BY CountsAreNat DEF LiveInv, TokensInv
    <3>2. QED BY <3>1 DEF Pending
  <2>5. \A m \in ResumesOf(r) : ~Waiting(m)
    BY ResumesAre DEF Waiting
  <2>6. QED BY <2>3, <2>4, <2>5 DEF Carried, Works
<1>2. QED BY <1>1, LiveInit, LiveStep, PTL DEF Spec
================================================================================
