------------------------ MODULE AbsenceConditionProofs -------------------------
(***************************************************************************)
(* Theorems about AbsenceCondition, for any organisations, zones, page     *)
(* size and number of signals and runs.                                    *)
(***************************************************************************)
EXTENDS AbsenceCondition, FiniteSetTheorems, TLAPS

\* The table is finite, and a run that asks is about one signal of it.
AboutInv ==
  /\ IsFiniteSet(rows)
  /\ \A e \in Runs : verdict[e] # "none" => \E s \in rows : about[e] = {s}

Inv == TypeOK /\ AboutInv /\ OnlyNewsBreaksSilence /\ FailureIsExplained

LEMMA FaultsTyped ==
  ASSUME TypeOK, NEW kind, Ok \/ Fails(kind)
  PROVE  /\ faults' \in FaultLogs
         /\ Struck \subseteq Struck'
         /\ Fails(kind) => kind \in Struck'
<1>1. faults \in Seq(Faults)
  BY DEF TypeOK, FaultLogs
<1>2. MayFail \subseteq Faults
  BY ConstantsAssumption
<1>3. CASE Ok
  <2>1. Struck' = Struck
    BY <1>3 DEF Ok, Struck, Range
  <2>2. ~ Fails(kind) \/ kind \in Struck'
    <3> SUFFICES ASSUME Fails(kind) PROVE FALSE
      OBVIOUS
    <3>1. Len(faults') = Len(faults) + 1
      BY <1>1, <1>2 DEF Fails
    <3>2. QED BY <1>1, <1>3, <3>1 DEF Ok
  <2>3. QED BY <1>1, <1>3, <2>1, <2>2 DEF Ok, FaultLogs
<1>4. CASE Fails(kind)
  <2>1. kind \in Faults /\ faults' = Append(faults, kind)
    BY <1>2, <1>4 DEF Fails
  <2>2. /\ faults' \in Seq(Faults)
        /\ DOMAIN faults' = 1 .. Len(faults) + 1
        /\ DOMAIN faults = 1 .. Len(faults)
        /\ Len(faults) \in Nat
        /\ \A i \in 1 .. Len(faults) : faults'[i] = faults[i]
        /\ faults'[Len(faults) + 1] = kind
    BY <1>1, <2>1
  <2>3. Struck \subseteq Struck' /\ kind \in Struck'
    BY <2>2 DEF Struck, Range
  <2>4. QED BY <2>2, <2>3 DEF FaultLogs
<1>5. QED BY <1>3, <1>4

\* Of two times as they are written the later one is later, or was written
\* further east.
LEMMA LaterOrEast ==
  ASSUME NEW a \in Int, NEW b \in Int, NEW y \in Int, NEW z \in Int,
         AtMost(Text(a, y), Text(b, z))
  PROVE  b >= a \/ z > y
  BY DEF AtMost, Text

\* A time that is not written later was written further west, or is earlier.
LEMMA NotAtMost ==
  ASSUME NEW a \in Int, NEW b \in Int, NEW y \in Int, NEW z \in Int,
         ~ AtMost(Text(a, y), Text(b, z))
  PROVE  a > b \/ y > z
  BY DEF AtMost, Text, SuffixAtMost

LEMMA SameZone ==
  ASSUME NEW a \in Int, NEW b \in Int, NEW y \in Int, NEW z \in Int, a <= b, y <= z
  PROVE  AtMost(Text(a, y), Text(b, z))
  BY NotAtMost

LEMMA RowNumbers ==
  ASSUME NEW r \in Rows
  PROVE  r.at \in Int /\ r.zone \in Int
<1>1. r.at \in Seconds /\ r.zone \in Zones
  BY DEF Rows
<1>2. Zones \subseteq Int /\ Seconds \subseteq Int
  BY ConstantsAssumption DEF Seconds
<1>3. QED BY <1>1, <1>2

LEMMA EndIsNumber ==
  ASSUME TypeOK, NEW e \in Runs
  PROVE  until[e] \in Int /\ ServerZone \in Int
<1>1. until[e] \in Seconds
  BY DEF TypeOK
<1>2. QED BY <1>1, ConstantsAssumption DEF Seconds

LEMMA Initially ==
  ASSUME Init
  PROVE  Inv
<1>1. 0 \in Seconds /\ <<>> \in FaultLogs
  BY ConstantsAssumption DEF Seconds, FaultLogs
<1>2. TypeOK
  BY <1>1 DEF Init, TypeOK, Verdicts
<1>3. IsFiniteSet(rows)
  BY FS_EmptySet DEF Init
<1>4. QED BY <1>2, <1>3 DEF Init, Inv, AboutInv, OnlyNewsBreaksSilence, FailureIsExplained

\* What the rows and the runs remain when only the table changes.
LEMMA TableStep ==
  ASSUME Inv, Tick \/ \E r \in Rows : Create(r) \/ Index(r)
  PROVE  Inv'
<1>1. /\ UNCHANGED <<about, until, verdict, faults>>
      /\ rows \subseteq rows'
      /\ rows' = rows \/ \E r \in Rows : rows' = rows \cup {r}
  BY DEF Tick, Create, Index
<1>2. now' \in Seconds
  BY ConstantsAssumption DEF Tick, Create, Index, Inv, TypeOK, Seconds
<1>3. rows' \subseteq Rows /\ indexed' \subseteq rows'
  BY DEF Tick, Create, Index, Inv, TypeOK
<1>4. TypeOK'
  BY <1>1, <1>2, <1>3 DEF Inv, TypeOK
<1>5. IsFiniteSet(rows')
  BY <1>1, FS_AddElement DEF Inv, AboutInv
<1>6. Struck' = Struck
  BY <1>1 DEF Struck, Range
<1>7. QED
  BY <1>1, <1>4, <1>5, <1>6 DEF Inv, AboutInv, OnlyNewsBreaksSilence, FailureIsExplained, Parses

LEMMA AskStep ==
  ASSUME Inv, NEW e \in Runs, Ask(e)
  PROVE  Inv'
<1>1. /\ UNCHANGED <<now, rows, indexed, faults>>
      /\ \/ verdict' = [verdict EXCEPT ![e] = "asked"]
         \/ verdict' = [verdict EXCEPT ![e] = "failed"] /\ ~ Parses(e)
      /\ until' \in {until, [until EXCEPT ![e] = now]}
      /\ \E s \in rows : about' = [about EXCEPT ![e] = {s}]
  BY DEF Ask, Decide, table
<1>2. TypeOK'
  BY <1>1 DEF Inv, TypeOK, Verdicts
<1>3. AboutInv'
  BY <1>1 DEF Inv, TypeOK, AboutInv
<1>4. Struck' = Struck
  BY <1>1 DEF Struck, Range
<1>5. \A d \in Runs \ {e} : /\ verdict'[d] = verdict[d] /\ about'[d] = about[d]
                            /\ until'[d] = until[d]
  BY <1>1 DEF Inv, TypeOK
<1>6. verdict'[e] # "broken" /\ (verdict'[e] = "failed" => ~ Parses(e))
  BY <1>1 DEF Inv, TypeOK
<1>7. OnlyNewsBreaksSilence'
  BY <1>1, <1>5, <1>6 DEF Inv, OnlyNewsBreaksSilence
<1>8. FailureIsExplained'
  BY <1>4, <1>5, <1>6 DEF Inv, FailureIsExplained, Parses
<1>9. QED BY <1>2, <1>3, <1>7, <1>8 DEF Inv

\* What an answer to the query tells of the rows.
LEMMA AnswerOf ==
  ASSUME Inv, NEW e \in Runs, GetSignalsSince(e)
  PROVE  \E s \in rows :
           /\ about[e] = {s}
           /\ \/ /\ verdict' = [verdict EXCEPT ![e] = "failed"]
                 /\ Fails("Query") \/ (Ok /\ Inverted(s, until[e]))
              \/ /\ Ok
                 /\ \E known \in SUBSET rows : \E found \in FirstPages(Window(known, s, until[e])) :
                      /\ indexed \subseteq known
                      /\ verdict' = [verdict EXCEPT ![e] =
                           IF New(found, s) = {} THEN "silent" ELSE "broken"]
         /\ UNCHANGED <<now, rows, indexed, about, until>>
<1>1. PICK s \in rows : about[e] = {s}
  BY DEF GetSignalsSince, Inv, AboutInv
<1>2. /\ \/ Fails("Query") /\ Decide(e, "failed")
         \/ Ok /\ Inverted(s, until[e]) /\ Decide(e, "failed")
         \/ /\ Ok
            /\ \E known \in SUBSET rows : \E found \in FirstPages(Window(known, s, until[e])) :
                 /\ indexed \subseteq known
                 /\ Decide(e, IF New(found, s) = {} THEN "silent" ELSE "broken")
      /\ UNCHANGED <<now, rows, indexed, about, until>>
  BY <1>1 DEF GetSignalsSince, table
<1>3. QED BY <1>1, <1>2 DEF Decide

LEMMA FirstPageIsFound ==
  ASSUME NEW S, NEW P \in FirstPages(S)
  PROVE  P \subseteq S
  BY DEF FirstPages

LEMMA AnswerStep ==
  ASSUME Inv, NEW e \in Runs, GetSignalsSince(e)
  PROVE  Inv'
<1>1. PICK s \in rows :
        /\ about[e] = {s}
        /\ \/ /\ verdict' = [verdict EXCEPT ![e] = "failed"]
              /\ Fails("Query") \/ (Ok /\ Inverted(s, until[e]))
           \/ /\ Ok
              /\ \E known \in SUBSET rows : \E found \in FirstPages(Window(known, s, until[e])) :
                   /\ indexed \subseteq known
                   /\ verdict' = [verdict EXCEPT ![e] =
                        IF New(found, s) = {} THEN "silent" ELSE "broken"]
  BY AnswerOf
<1>2. UNCHANGED <<now, rows, indexed, about, until>>
  BY AnswerOf
<1>3. /\ faults' \in FaultLogs /\ Struck \subseteq Struck'
      /\ Fails("Query") => "Query" \in Struck'
  BY <1>1, FaultsTyped DEF Inv
<1>4. \E v \in {"silent", "broken", "failed"} : verdict' = [verdict EXCEPT ![e] = v]
  BY <1>1
<1>5. TypeOK'
  BY <1>2, <1>3, <1>4 DEF Inv, TypeOK, Verdicts
<1>6. AboutInv'
  BY <1>1, <1>2, <1>4 DEF Inv, TypeOK, AboutInv
<1>7. s \in Rows
  BY DEF Inv, TypeOK
<1>8. s.at \in Int /\ s.zone \in Int /\ until[e] \in Int /\ ServerZone \in Int
  BY <1>7, RowNumbers, EndIsNumber DEF Inv
<1>9. OnlyNewsBreaksSilence'
  <2>1. ASSUME verdict'[e] = "broken"
        PROVE  \E r \in rows : /\ r.org = s.org /\ SignalID(r) # SignalID(s)
                               /\ r.at >= s.at \/ r.zone > s.zone
    <3> PICK known \in SUBSET rows :
          \E found \in FirstPages(Window(known, s, until[e])) :
            verdict' = [verdict EXCEPT ![e] = IF New(found, s) = {} THEN "silent" ELSE "broken"]
      BY <1>1, <2>1 DEF Inv, TypeOK
    <3>1. PICK found \in FirstPages(Window(known, s, until[e])) :
            verdict' = [verdict EXCEPT ![e] = IF New(found, s) = {} THEN "silent" ELSE "broken"]
      OBVIOUS
    <3>2. New(found, s) # {}
      BY <2>1, <3>1 DEF Inv, TypeOK
    <3>3. PICK r \in found : r.org = s.org /\ SignalID(r) # SignalID(s)
      BY <3>2 DEF New
    <3>4. r \in rows /\ AtMost(Text(s.at, s.zone), Text(r.at, r.zone))
      BY <3>3, FirstPageIsFound DEF Window, TimestampOf
    <3>5. r.at \in Int /\ r.zone \in Int
      BY <3>4, RowNumbers DEF Inv, TypeOK
    <3>6. QED BY <1>8, <3>3, <3>4, <3>5, LaterOrEast
  <2>2. QED BY <1>1, <1>2, <1>4, <2>1 DEF Inv, TypeOK, OnlyNewsBreaksSilence
<1>10. FailureIsExplained'
  <2>1. ASSUME verdict'[e] = "failed", "Query" \notin Struck'
        PROVE  s.zone > ServerZone \/ s.at > until[e]
    <3>1. Inverted(s, until[e])
      BY <1>1, <1>3, <2>1 DEF Inv, TypeOK
    <3>2. QED BY <1>8, <3>1, NotAtMost DEF Inverted, TimestampOf
  <2>2. QED BY <1>1, <1>2, <1>3, <1>4, <2>1 DEF Inv, TypeOK, FailureIsExplained, Parses
<1>11. QED BY <1>5, <1>6, <1>9, <1>10 DEF Inv

LEMMA Step ==
  ASSUME Inv, [Next]_vars
  PROVE  Inv'
<1>1. CASE UNCHANGED vars
  BY <1>1 DEF vars, table, Inv, TypeOK, AboutInv, OnlyNewsBreaksSilence, FailureIsExplained,
  Parses, Struck, Range
<1>2. QED BY <1>1, TableStep, AskStep, AnswerStep DEF Next

LEMMA Invariant == Spec => []Inv
<1>1. Init => Inv
  BY Initially
<1>2. Inv /\ [Next]_vars => Inv'
  BY Step
<1>3. QED BY <1>1, <1>2, PTL DEF Spec

\* Every variable keeps its type.
THEOREM TypeCorrect == Spec => []TypeOK
<1>1. Inv => TypeOK
  BY DEF Inv
<1>2. QED BY <1>1, Invariant, PTL

\* A condition is broken by a signal that is news, whatever the index lags and
\* the page leaves out.
THEOREM NewsBreaksSilence == Spec => []OnlyNewsBreaksSilence
<1>1. Inv => OnlyNewsBreaksSilence
  BY DEF Inv
<1>2. QED BY <1>1, Invariant, PTL

\* An evaluation fails by a failed query, by a duration that does not parse, or
\* for a client east of the server or ahead of its clock.
THEOREM FailuresHaveReasons == Spec => []FailureIsExplained
<1>1. Inv => FailureIsExplained
  BY DEF Inv
<1>2. QED BY <1>1, Invariant, PTL

--------------------------------------------------------------------------------
\* The window of a client that keeps to one zone takes in what was indexed.
LEMMA HeardIsRead ==
  ASSUME Inv, NEW e \in Runs, GetSignalsSince(e), verdict'[e] = "silent",
         Cardinality(rows) <= PageSize,
         NEW s \in about[e], NEW r \in indexed,
         r.org = s.org, SignalID(r) # SignalID(s),
         r.zone = s.zone, r.zone <= ServerZone
  PROVE  ~ (s.at <= r.at /\ r.at <= until[e])
<1> SUFFICES ASSUME s.at <= r.at, r.at <= until[e] PROVE FALSE
  OBVIOUS
<1>1. PICK q \in rows :
        /\ about[e] = {q}
        /\ \/ /\ verdict' = [verdict EXCEPT ![e] = "failed"]
              /\ Fails("Query") \/ (Ok /\ Inverted(q, until[e]))
           \/ /\ Ok
              /\ \E known \in SUBSET rows : \E found \in FirstPages(Window(known, q, until[e])) :
                   /\ indexed \subseteq known
                   /\ verdict' = [verdict EXCEPT ![e] =
                        IF New(found, q) = {} THEN "silent" ELSE "broken"]
  BY AnswerOf
<1>2. s = q
  BY <1>1
<1> PICK known \in SUBSET rows :
      \E found \in FirstPages(Window(known, s, until[e])) :
        /\ indexed \subseteq known
        /\ verdict' = [verdict EXCEPT ![e] = IF New(found, s) = {} THEN "silent" ELSE "broken"]
  BY <1>1, <1>2 DEF Inv, TypeOK
<1>3. PICK found \in FirstPages(Window(known, s, until[e])) :
        /\ indexed \subseteq known
        /\ verdict' = [verdict EXCEPT ![e] = IF New(found, s) = {} THEN "silent" ELSE "broken"]
  OBVIOUS
<1>4. New(found, s) = {}
  BY <1>3 DEF Inv, TypeOK
<1>5. found = Window(known, s, until[e])
  <2>1. Window(known, s, until[e]) \subseteq rows
    BY DEF Window
  <2>2. /\ Cardinality(Window(known, s, until[e])) <= Cardinality(rows)
        /\ Cardinality(rows) \in Nat
        /\ Cardinality(Window(known, s, until[e])) \in Nat
    BY <2>1, FS_Subset, FS_CardinalityType DEF Inv, AboutInv
  <2>3. Cardinality(Window(known, s, until[e])) <= PageSize
    BY <2>2, ConstantsAssumption
  <2>4. QED BY <1>3, <2>3 DEF FirstPages
<1>6. /\ s.at \in Int /\ r.at \in Int /\ until[e] \in Int
      /\ s.zone \in Int /\ r.zone \in Int /\ ServerZone \in Int
  <2>1. s \in Rows /\ r \in Rows
    BY <1>2 DEF Inv, TypeOK
  <2>2. QED BY <2>1, RowNumbers, EndIsNumber DEF Inv
<1>7. AtMost(Text(s.at, s.zone), Text(r.at, r.zone))
  BY <1>6, SameZone
<1>8. AtMost(Text(r.at, r.zone), Text(until[e], ServerZone))
  BY <1>6, SameZone
<1>9. r \in found
  BY <1>3, <1>5, <1>7, <1>8 DEF Window, TimestampOf
<1>10. QED BY <1>4, <1>9 DEF New

\* Whatever was indexed in time is heard, while the signals fit a page, from
\* clients that keep to one zone, which is not east of the server.
THEOREM SilenceIsHonest == Spec => HeardIsNotSilent
<1> DEFINE Honest ==
      \A e \in Runs : \A s \in about[e], r \in indexed :
        /\ verdict[e] = "asked" /\ verdict'[e] = "silent"
        /\ Cardinality(rows) <= PageSize
        /\ r.org = s.org /\ SignalID(r) # SignalID(s)
        /\ r.zone = s.zone /\ r.zone <= ServerZone
        => ~ (s.at <= r.at /\ r.at <= until[e])
<1>1. Inv /\ [Next]_vars => [Honest]_vars
  <2> SUFFICES ASSUME Inv, Next PROVE Honest
    OBVIOUS
  <2>1. CASE Tick \/ \E r \in Rows : Create(r) \/ Index(r)
    BY <2>1 DEF Tick, Create, Index
  <2>2. ASSUME NEW d \in Runs, Ask(d)
        PROVE  Honest
    BY <2>2 DEF Ask, Decide, Inv, TypeOK
  <2>3. ASSUME NEW d \in Runs, GetSignalsSince(d)
        PROVE  Honest
    <3> SUFFICES ASSUME NEW e \in Runs, verdict[e] = "asked", verdict'[e] = "silent"
                 PROVE  \A s \in about[e], r \in indexed :
                          /\ Cardinality(rows) <= PageSize
                          /\ r.org = s.org /\ SignalID(r) # SignalID(s)
                          /\ r.zone = s.zone /\ r.zone <= ServerZone
                          => ~ (s.at <= r.at /\ r.at <= until[e])
      OBVIOUS
    <3>1. \E v \in {"silent", "broken", "failed"} : verdict' = [verdict EXCEPT ![d] = v]
      BY <2>3, AnswerOf
    <3>2. e = d
      BY <3>1 DEF Inv, TypeOK
    <3>3. QED BY <2>3, <3>2, HeardIsRead
  <2>4. QED BY <2>1, <2>2, <2>3 DEF Next
<1>2. QED BY <1>1, Invariant, PTL DEF Spec, HeardIsNotSilent
================================================================================
