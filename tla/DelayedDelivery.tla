---------------------------- MODULE DelayedDelivery ----------------------------
(***************************************************************************)
(* What the scheduler promises its callers: a job is delivered to its      *)
(* queue, at least once, and never before the minute it is due.  The lists, *)
(* the table, the cron functions and the process are not visible here.     *)
(***************************************************************************)
EXTENDS Naturals

CONSTANTS
  Jobs,
  LastMinute,
  Grace         \* minutes a delivery may take after the job is due

VARIABLES
  minute,       \* the current minute
  answer,       \* what the caller knows: "none", "pending", "accepted", "failed"
  due,          \* the minute a job is due
  delivered     \* how often a job has been delivered

vars == <<minute, answer, due, delivered>>
Minutes == 0 .. LastMinute

TypeOK ==
  /\ minute \in Minutes
  /\ answer \in [Jobs -> {"none", "pending", "accepted", "failed"}]
  /\ due \in [Jobs -> Minutes]
  /\ delivered \in [Jobs -> Nat]

Init ==
  /\ minute = 0
  /\ answer = [j \in Jobs |-> "none"]
  /\ due = [j \in Jobs |-> 0]
  /\ delivered = [j \in Jobs |-> 0]

\* A caller asks for a job, which is due in a minute to come.
Request(j) ==
  /\ answer[j] = "none"
  /\ answer' = [answer EXCEPT ![j] = "pending"]
  /\ \E m \in Minutes : m > minute /\ due' = [due EXCEPT ![j] = m]
  /\ UNCHANGED <<minute, delivered>>

Accept(j) ==
  /\ answer[j] = "pending"
  /\ answer' = [answer EXCEPT ![j] = "accepted"]
  /\ UNCHANGED <<minute, due, delivered>>

\* Some callers get an error: their jobs may be delivered all the same.
Fail(S) ==
  /\ \A j \in S : answer[j] = "pending"
  /\ answer' = [j \in Jobs |-> IF j \in S THEN "failed" ELSE answer[j]]
  /\ UNCHANGED <<minute, due, delivered>>

Deliver(j) ==
  /\ answer[j] \in {"accepted", "failed"}
  /\ due[j] <= minute
  /\ delivered' = [delivered EXCEPT ![j] = @ + 1]
  /\ UNCHANGED <<minute, answer, due>>

MinutePasses ==
  /\ minute < LastMinute
  /\ minute' = minute + 1
  /\ UNCHANGED <<answer, due, delivered>>

Next ==
  \/ \E j \in Jobs : Request(j) \/ Accept(j) \/ Deliver(j)
  \/ \E S \in SUBSET Jobs : Fail(S)
  \/ MinutePasses

Spec == Init /\ [][Next]_vars

\* An accepted job is delivered, if time lasts.
Delivery ==
  \A j \in Jobs :
    answer[j] = "accepted" /\ due[j] + Grace <= LastMinute ~> delivered[j] > 0

LiveSpec == Spec /\ Delivery
================================================================================
