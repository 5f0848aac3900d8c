----------------------------- MODULE ListingProofs -----------------------------
(***************************************************************************)
(* Theorems about Listing, for any runs, workflows, limits and order.      *)
(***************************************************************************)
EXTENDS Listing, TLAPS

\* The rows listed are those up to the token's, and they hold all that has been
\* there all the while up to it.
PageInv ==
  /\ client # "listing" => token = {}
  /\ client = "idle" \/ (client = "listing" /\ token = {}) => listed = {}
  /\ \A t \in token, x \in listed : Place[x] <= Place[t]
  /\ client = "idle" => steady = {}
  /\ steady \subseteq Contents(view)
  /\ \A t \in token, x \in steady : Place[x] <= Place[t] => x \in listed

Inv == TypeOK /\ PageInv /\ NoneTwice /\ SteadyIsListed

LEMMA FaultsTyped ==
  ASSUME TypeOK, NEW kind, Ok \/ Fails(kind)
  PROVE  faults' \in FaultLogs
<1>1. faults \in Seq(Faults)
  BY DEF TypeOK, FaultLogs
<1>2. MayFail \subseteq Faults
  BY ConstantsAssumption
<1>3. QED BY <1>1, <1>2 DEF Ok, Fails, FaultLogs

LEMMA PlaceNumber ==
  ASSUME NEW x \in Rows
  PROVE  Place[x] \in Nat
  BY ConstantsAssumption

LEMMA ContentsAreRows ==
  ASSUME TypeOK
  PROVE  Contents(view) \subseteq Rows
  BY DEF TypeOK, Contents, GetRunningWorkflows, List, ListBySignalType, Rows

LEMMA Initially ==
  ASSUME Init
  PROVE  Inv
<1>1. <<>> \in FaultLogs
  BY DEF FaultLogs
<1>2. TypeOK
  BY <1>1 DEF Init, TypeOK, Views
<1>3. QED BY <1>2 DEF Init, Inv, PageInv, NoneTwice, SteadyIsListed

LEMMA TableStep ==
  ASSUME Inv,
         \/ \E r \in Runs : StartRun(r) \/ EndRun(r)
         \/ \E w \in Workflows : CreateWorkflow(w)
  PROVE  Inv'
<1>1. UNCHANGED <<client, token, listed, repeated, view, asked, faults>>
  BY DEF StartRun, EndRun, CreateWorkflow, answer, query
<1>2. steady' \subseteq steady
  BY DEF StartRun, EndRun, CreateWorkflow
<1>3. /\ status' \in [Runs -> {"none", "TRIGGERED", "ended"}]
      /\ created' \subseteq Workflows
  BY DEF StartRun, EndRun, CreateWorkflow, Inv, TypeOK
<1>4. TypeOK'
  BY <1>1, <1>2, <1>3 DEF Inv, TypeOK
<1>5. steady' \subseteq Contents(view)'
  <2>1. CASE \E r \in Runs : StartRun(r) \/ EndRun(r)
    <3>1. PICK r \in Runs : StartRun(r) \/ EndRun(r)
      BY <2>1
    <3>2. /\ created' = created
          /\ \A q \in Runs : q # r => status'[q] = status[q]
          /\ status'[r] = "TRIGGERED" \/ r \notin steady'
      BY <3>1 DEF StartRun, EndRun, Inv, TypeOK
    <3>3. QED
      BY <1>1, <1>2, <3>2
      DEF Inv, PageInv, Contents, GetRunningWorkflows, List, ListBySignalType
  <2>2. CASE \E w \in Workflows : CreateWorkflow(w)
    <3>1. status' = status /\ created \subseteq created'
      BY <2>2 DEF CreateWorkflow
    <3>2. QED
      BY <1>1, <1>2, <3>1
      DEF Inv, PageInv, Contents, GetRunningWorkflows, List, ListBySignalType
  <2>3. QED BY <2>1, <2>2
<1>6. QED BY <1>1, <1>2, <1>4, <1>5 DEF Inv, PageInv, NoneTwice, SteadyIsListed

LEMMA BeginStep ==
  ASSUME Inv, Begin
  PROVE  Inv'
<1>1. /\ client = "idle" /\ client' = "listing"
      /\ UNCHANGED <<status, created, token, listed, repeated, faults>>
      /\ asked' \in Asked /\ view' \in Views
      /\ steady' = Contents(view')
  BY DEF Begin, tables
<1>2. Contents(view') = Contents(view)'
  BY <1>1 DEF Contents, GetRunningWorkflows, List, ListBySignalType
<1>3. steady' \subseteq Rows
  BY <1>1 DEF Inv, TypeOK, Contents, GetRunningWorkflows, List, ListBySignalType, Rows
<1>4. TypeOK'
  BY <1>1, <1>3, ConstantsAssumption DEF Inv, TypeOK
<1>5. QED BY <1>1, <1>2, <1>4 DEF Inv, PageInv, NoneTwice, SteadyIsListed

\* A page of what comes after the token goes on where the last one ended.
LEMMA PageStep ==
  ASSUME Inv, NextPage
  PROVE  Inv'
<1>1. faults' \in FaultLogs
  BY FaultsTyped DEF NextPage, Inv
<1>2. /\ UNCHANGED <<status, created, view, asked, steady>>
      /\ client = "listing"
  BY DEF NextPage, tables, query
<1>3. Contents(view)' = Contents(view)
  BY <1>2 DEF Contents, GetRunningWorkflows, List, ListBySignalType
<1>4. CASE UNCHANGED answer
  <2>1. TypeOK'
    BY <1>1, <1>2, <1>4 DEF answer, Inv, TypeOK
  <2>2. QED BY <1>2, <1>3, <1>4, <2>1 DEF answer, Inv, PageInv, NoneTwice, SteadyIsListed
<1>5. ASSUME NEW P \in Pages(After(Contents(view)), LimitOf(asked)),
             Receive(P),
             \/ EncodeNextToken(P) /\ client' = client
             \/ P = After(Contents(view)) /\ token' = {} /\ client' = "done"
      PROVE  Inv'
  <2>1. /\ P \subseteq After(Contents(view))
        /\ \A p \in P, q \in After(Contents(view)) \ P : Place[p] < Place[q]
    BY DEF Pages
  <2>2. /\ P \subseteq Rows
        /\ \A t \in token, p \in P : Place[p] > Place[t]
    BY <2>1, ContentsAreRows DEF After, Inv
  <2>3. /\ token \subseteq Rows /\ listed \subseteq Rows /\ steady \subseteq Rows
        /\ steady \subseteq Contents(view)
    BY DEF Inv, TypeOK, PageInv
  <2>4. listed \cap P = {}
    <3> SUFFICES ASSUME NEW x \in listed, x \in P
                 PROVE  FALSE
      OBVIOUS
    <3>1. PICK t \in token : TRUE
      BY <1>2 DEF Inv, PageInv
    <3>2. Place[x] <= Place[t] /\ Place[x] > Place[t]
      BY <2>2 DEF Inv, PageInv
    <3>3. QED BY <2>3, <3>2, PlaceNumber
  <2>5. listed' = listed \cup P /\ repeated' = {}
    BY <1>5, <2>4 DEF Receive, Inv, NoneTwice
  \* What is steady was listed before, is on this page or comes after it.
  <2>6. \A x \in steady : x \in listed' \/ x \in After(Contents(view)) \ P
    <3> SUFFICES ASSUME NEW x \in steady, x \notin After(Contents(view))
                 PROVE  x \in listed
      BY <2>5
    <3>1. PICK t \in token : ~ (Place[x] > Place[t])
      BY <2>3 DEF After
    <3>2. Place[x] <= Place[t]
      BY <2>3, <3>1, PlaceNumber
    <3>3. QED BY <3>2 DEF Inv, PageInv
  <2>7. CASE P = After(Contents(view)) /\ token' = {} /\ client' = "done"
    <3>1. TypeOK'
      BY <1>1, <1>2, <2>2, <2>3, <2>5, <2>7 DEF Inv, TypeOK
    <3>2. QED
      BY <1>2, <1>3, <2>5, <2>6, <2>7, <3>1 DEF Inv, PageInv, NoneTwice, SteadyIsListed
  <2>8. CASE EncodeNextToken(P) /\ client' = client
    <3>1. PICK t \in P : (\A y \in P : Place[y] <= Place[t]) /\ token' = {t}
      BY <2>8 DEF EncodeNextToken
    <3>2. TypeOK'
      BY <1>1, <1>2, <2>2, <2>3, <2>5, <2>8, <3>1 DEF Inv, TypeOK
    <3>3. ASSUME NEW x \in listed'
          PROVE  Place[x] <= Place[t]
      <4>1. CASE x \in P
        BY <3>1, <4>1
      <4>2. CASE x \in listed
        <5>1. PICK u \in token : TRUE
          BY <1>2, <4>2 DEF Inv, PageInv
        <5>2. Place[x] <= Place[u] /\ Place[t] > Place[u]
          BY <2>2, <4>2 DEF Inv, PageInv
        <5>3. Place[x] \in Nat /\ Place[u] \in Nat /\ Place[t] \in Nat
          BY <2>2, <2>3, <4>2, PlaceNumber
        <5>4. QED BY <5>2, <5>3
      <4>3. QED BY <2>5, <4>1, <4>2
    <3>4. ASSUME NEW x \in steady, Place[x] <= Place[t]
          PROVE  x \in listed'
      <4>1. SUFFICES ASSUME x \in After(Contents(view)) \ P
                     PROVE  FALSE
        BY <2>6
      <4>2. Place[t] < Place[x]
        BY <2>1, <4>1
      <4>3. Place[x] \in Nat /\ Place[t] \in Nat
        BY <2>2, <2>3, PlaceNumber
      <4>4. QED BY <3>4, <4>2, <4>3
    <3>5. PageInv'
      BY <1>2, <1>3, <2>3, <2>8, <3>1, <3>3, <3>4 DEF PageInv
    <3>6. QED BY <1>2, <2>5, <2>8, <3>2, <3>5 DEF Inv, NoneTwice, SteadyIsListed
  <2>9. QED BY <1>5, <2>7, <2>8
<1>6. QED BY <1>4, <1>5 DEF NextPage

LEMMA Step ==
  ASSUME Inv, [Next]_vars
  PROVE  Inv'
<1>1. CASE UNCHANGED vars
  BY <1>1
  DEF vars, tables, answer, query, Inv, TypeOK, PageInv, NoneTwice, SteadyIsListed,
      Contents, GetRunningWorkflows, List, ListBySignalType
<1>2. QED BY <1>1, TableStep, BeginStep, PageStep DEF Next

LEMMA Invariant == Spec => []Inv
<1>1. Init => Inv
  BY Initially
<1>2. Inv /\ [Next]_vars => Inv'
  BY Step
<1>3. QED BY <1>1, <1>2, PTL DEF Spec

\* Every variable keeps its type.
THEOREM TypeCorrect == Spec => []TypeOK
<1>1. Inv => TypeOK
  BY DEF Inv
<1>2. QED BY <1>1, Invariant, PTL

\* No row is listed twice, whatever the limits, the pages that DynamoDB cuts
\* short and the rows that come and go.
THEOREM PagesAreDisjoint == Spec => []NoneTwice
<1>1. Inv => NoneTwice
  BY DEF Inv
<1>2. QED BY <1>1, Invariant, PTL

\* What stays is listed.
THEOREM ListingIsComplete == Spec => []SteadyIsListed
<1>1. Inv => SteadyIsListed
  BY DEF Inv
<1>2. QED BY <1>1, Invariant, PTL
================================================================================
