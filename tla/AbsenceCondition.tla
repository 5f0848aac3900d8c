--------------------------- MODULE AbsenceCondition ----------------------------
(***************************************************************************)
(* An absence condition: evaluateAbsence of                                *)
(* internal/service/condition_evaluator.go asks GetSignalsSince of         *)
(* internal/repository/dynamodb/signal_repo.go for the signals of one type *)
(* and organisation since the signal that started the run.                 *)
(*                                                                         *)
(* Times are compared as they are written, to the second and in the time   *)
(* zone of whoever wrote them: a signal keeps the zone of its client, the  *)
(* end of the window has that of the server.  All signals are of one type, *)
(* that of the condition.  The clocks of clients are not those of the      *)
(* server, so a signal may bear any time.                                  *)
(***************************************************************************)
EXTENDS Integers, Sequences, FiniteSets, Functions

CONSTANTS
  Orgs,        \* organisations
  Zones,       \* offsets from UTC, in seconds
  ServerZone,  \* that of the server
  Instants,    \* the instants of a second that signals bear
  LastSecond,  \* the last second of the model
  PageSize,    \* how many rows a query reads at most
  Duration,    \* what the condition of each run asks for, in seconds
  Unsupported, \* a duration that is written in no format the code reads
  MaxSignals,  \* how many signals are saved at most
  Runs,        \* runs of workflows with an absence condition
  MayFail,     \* the kinds of fault that may strike
  MaxFaults    \* how many faults strike at most

Faults == {"Query"}
FaultLogs == Seq(Faults)
Seconds == 0 .. LastSecond

ASSUME ConstantsAssumption ==
  /\ Zones \subseteq Int
  /\ ServerZone \in Int
  /\ LastSecond \in Nat
  /\ PageSize \in Nat \ {0}
  /\ Duration \in [Runs -> Int \cup {Unsupported}]
  /\ Unsupported \notin Int
  /\ MaxSignals \in Nat
  /\ MayFail \subseteq Faults
  /\ MaxFaults \in Nat

\* A signal of the type, and its key: the zone is not part of it.
Rows == [org : Orgs, at : Seconds, instant : Instants, zone : Zones]
SignalID(r) == <<r.org, r.at, r.instant>>

VARIABLES
  now,      \* the second, by the clock of the server
  rows,     \* the table of signals
  indexed,  \* those that every copy of the index on the type knows
  about,    \* the signal that started each run, once it has
  until,    \* the end of the window of its condition
  verdict,  \* what the condition said, or where its evaluation is
  faults    \* the faults that struck, in their order

table == <<now, rows, indexed>>
vars == <<table, about, until, verdict, faults>>

Verdicts == {"none", "asked", "silent", "broken", "failed"}

Init ==
  /\ now = 0
  /\ rows = {}
  /\ indexed = {}
  /\ about = [e \in Runs |-> {}]
  /\ until = [e \in Runs |-> 0]
  /\ verdict = [e \in Runs |-> "none"]
  /\ faults = <<>>

Ok == UNCHANGED faults
Fails(f) ==
  /\ f \in MayFail
  /\ Len(faults) < MaxFaults
  /\ faults' = Append(faults, f)

\* The kinds of fault that struck so far.
Struck == Range(faults)

--------------------------------------------------------------------------------
(***************************************************************************)
(* Times as they are written.                                              *)
(***************************************************************************)
Text(second, zone) == [local |-> second + zone, zone |-> zone]

\* The characters that end a time: "+hh:mm" sorts before "-hh:mm", and both
\* before "Z"; of two of the same sign the smaller offset comes first.
SuffixAtMost(z, y) ==
  IF z > 0 THEN z <= y \/ y <= 0
  ELSE IF z < 0 THEN y = 0 \/ (y < 0 /\ y <= z)
  ELSE y = 0

\* The order of strings.
AtMost(t, u) ==
  \/ t.local < u.local
  \/ t.local = u.local /\ SuffixAtMost(t.zone, u.zone)

TimestampOf(r) == Text(r.at, r.zone)

--------------------------------------------------------------------------------
Tick ==
  /\ now < LastSecond
  /\ now' = now + 1
  /\ UNCHANGED <<rows, indexed, about, until, verdict, faults>>

\* The conditional put: the first signal with its key stays.
Create(r) ==
  /\ Cardinality(rows) < MaxSignals
  /\ \A q \in rows : SignalID(q) # SignalID(r)
  /\ rows' = rows \cup {r}
  /\ UNCHANGED <<now, indexed, about, until, verdict, faults>>

\* The index follows the table.
Index(r) ==
  /\ r \in rows \ indexed
  /\ indexed' = indexed \cup {r}
  /\ UNCHANGED <<now, rows, about, until, verdict, faults>>

Decide(e, v) == verdict' = [verdict EXCEPT ![e] = v]

\* parseDuration, which takes what Go reads and a list of other formats.
Parses(e) == Duration[e] # Unsupported

\* A run has started, and evaluates its condition at once.  A duration that does
\* not parse is an error; else the window ends now.  The timestamp of a signal
\* parses, as it was formatted when the signal was made.
Ask(e) ==
  /\ verdict[e] = "none"
  /\ \E s \in rows : about' = [about EXCEPT ![e] = {s}]
  /\ \/ Parses(e) /\ Decide(e, "asked") /\ until' = [until EXCEPT ![e] = now]
     \/ ~ Parses(e) /\ Decide(e, "failed") /\ UNCHANGED until
  /\ UNCHANGED <<table, faults>>

\* Seeded fault: the window begins at a time that is written in the server's zone.
WindowFromHere(known, s, end) ==
  {r \in known : /\ AtMost(Text(s.at, ServerZone), TimestampOf(r))
                 /\ AtMost(TimestampOf(r), Text(end, ServerZone))}

\* The rows that the query of a run may read out of those that its copy of the
\* index knows: the first page, which its filter on the organisation comes after.
Window(known, s, end) ==
  {r \in known : /\ AtMost(TimestampOf(s), TimestampOf(r))
                 /\ AtMost(TimestampOf(r), Text(end, ServerZone))}

FirstPages(S) ==
  {P \in SUBSET S :
     IF Cardinality(S) <= PageSize THEN P = S
     ELSE /\ Cardinality(P) = PageSize
          /\ \A p \in P, q \in S \ P : AtMost(TimestampOf(p), TimestampOf(q))}

\* Seeded fault: all that the window holds counts, the signal itself included.
NewWithItself(found, s) == {r \in found : r.org = s.org}

\* The signals of the organisation, but for the one that the run is about.
New(found, s) == {r \in found : r.org = s.org /\ SignalID(r) # SignalID(s)}

\* DynamoDB refuses a window that ends before it begins, as texts go.
Inverted(s, end) == ~ AtMost(TimestampOf(s), Text(end, ServerZone))

\* Seeded fault: a query that finds nothing at all is an error.
GetSignalsOrFail(e) ==
  /\ verdict[e] = "asked"
  /\ \E s \in about[e], known \in SUBSET rows :
       /\ indexed \subseteq known
       /\ Decide(e, IF Window(known, s, until[e]) = {} THEN "failed"
                    ELSE IF New(known, s) = {} THEN "silent" ELSE "broken")
  /\ Ok
  /\ UNCHANGED <<table, about, until>>

GetSignalsSince(e) ==
  /\ verdict[e] = "asked"
  /\ \E s \in about[e] :
       \/ Fails("Query") /\ Decide(e, "failed")
       \/ Ok /\ Inverted(s, until[e]) /\ Decide(e, "failed")
       \/ /\ Ok
          /\ ~ Inverted(s, until[e])
          /\ \E known \in SUBSET rows : \E found \in FirstPages(Window(known, s, until[e])) :
               /\ indexed \subseteq known
               /\ Decide(e, IF New(found, s) = {} THEN "silent" ELSE "broken")
  /\ UNCHANGED <<table, about, until>>

Next ==
  \/ Tick
  \/ \E r \in Rows : Create(r) \/ Index(r)
  \/ \E e \in Runs : Ask(e) \/ GetSignalsSince(e)

Spec == Init /\ [][Next]_vars

--------------------------------------------------------------------------------
(***************************************************************************)
(* What an absence condition says of the signals.                          *)
(***************************************************************************)

\* Every variable has its type.
TypeOK ==
  /\ now \in Seconds
  /\ rows \subseteq Rows
  /\ indexed \subseteq rows
  /\ about \in [Runs -> SUBSET Rows]
  /\ until \in [Runs -> Seconds]
  /\ verdict \in [Runs -> Verdicts]
  /\ faults \in FaultLogs

\* A run is let pass although another signal of its organisation came in the
\* window and was indexed: never, while all signals fit a page, for a client
\* that keeps to one zone, unless that is further east than the server.
HeardIsNotSilent ==
  [][\A e \in Runs : \A s \in about[e], r \in indexed :
       /\ verdict[e] = "asked" /\ verdict'[e] = "silent"
       /\ Cardinality(rows) <= PageSize
       /\ r.org = s.org /\ SignalID(r) # SignalID(s)
       /\ r.zone = s.zone /\ r.zone <= ServerZone
       => ~ (s.at <= r.at /\ r.at <= until[e])]_vars

\* A condition that does not hold was broken by another signal of the
\* organisation, which was stamped no earlier, to the second, unless its client
\* is further east.
OnlyNewsBreaksSilence ==
  \A e \in Runs : verdict[e] = "broken" =>
    \E s \in about[e], r \in rows :
      /\ r.org = s.org
      /\ SignalID(r) # SignalID(s)
      /\ r.at >= s.at \/ r.zone > s.zone

\* A run whose condition could not be evaluated, although no query failed, asks
\* for a duration that does not parse, or was started by a client that is further
\* east than the server, or whose clock is ahead.
FailureIsExplained ==
  \A e \in Runs : verdict[e] = "failed" /\ "Query" \notin Struck =>
    \/ ~ Parses(e)
    \/ \E s \in about[e] : s.zone > ServerZone \/ s.at > until[e]

\* An absence condition is evaluated after the waiting period: a run that it
\* lets pass has been silent for the duration that it asks for.
SilentForDuration ==
  \A e \in Runs : verdict[e] = "silent" =>
    \A s \in about[e] : until[e] >= s.at + Duration[e]
================================================================================
