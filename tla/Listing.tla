-------------------------------- MODULE Listing --------------------------------
(***************************************************************************)
(* The listings of runs and workflows, page by page: ListRunsService and   *)
(* ListWorkflowsService of internal/handler, over GetRunningWorkflows,     *)
(* List and ListBySignalType of internal/repository/dynamodb.  Runs start  *)
(* and end, and workflows are created, between two pages.                  *)
(*                                                                         *)
(* A token is the key of the last row of a page.  encodeNextToken writes   *)
(* each attribute with its type, so that decodeNextToken gives back the    *)
(* same key: it is kept here as the row, which may have left the index     *)
(* since.  What an index shows is what it has caught up with.              *)
(***************************************************************************)
EXTENDS Integers, Sequences, FiniteSets, Functions

CONSTANTS
  Runs,
  Workflows,     \* workflow versions
  OfType,        \* those for the signal type that a client may ask for
  Place,         \* where a row stands in the order of its index
  Asked,         \* what a client may ask for as a limit; 0 if it is no number
  DefaultLimit,  \* 50
  MaxLimit,      \* 100
  MayFail,       \* the kinds of fault that may strike
  MaxFaults      \* how many faults strike at most

Rows == Runs \cup Workflows
Faults == {"Query"}
FaultLogs == Seq(Faults)

ASSUME ConstantsAssumption ==
  /\ Runs \cap Workflows = {}
  /\ IsFiniteSet(Rows)
  /\ OfType \subseteq Workflows
  /\ Place \in [Rows -> Nat]
  /\ \A x, y \in Rows : Place[x] = Place[y] => x = y
  /\ Asked \subseteq Int
  /\ DefaultLimit \in Nat \ {0}
  /\ MaxLimit \in Nat \ {0}
  /\ MayFail \subseteq Faults
  /\ MaxFaults \in Nat

VARIABLES
  status,    \* of each run: "none" until it starts, "ended" if it is no more TRIGGERED
  created,   \* the workflow versions in the table
  client,    \* whether the client is "idle", "listing" or "done"
  view,      \* what it lists
  asked,     \* the limit that it asks for
  token,     \* the row whose key is its token, if it has one
  listed,    \* the rows that it was given
  repeated,  \* those that it was given again
  steady,    \* what was there to be listed from the start until now
  faults     \* the faults that struck, in their order

tables == <<status, created>>
answer == <<client, token, listed, repeated>>
query == <<view, asked>>
vars == <<tables, answer, query, steady, faults>>

Views == {"runs", "workflows", "workflows of a type"}

Init ==
  /\ status = [r \in Runs |-> "none"]
  /\ created = {}
  /\ client = "idle"
  /\ view = "runs"
  /\ asked = 0
  /\ token = {}
  /\ listed = {}
  /\ repeated = {}
  /\ steady = {}
  /\ faults = <<>>

Ok == UNCHANGED faults
Fails(f) ==
  /\ f \in MayFail
  /\ Len(faults) < MaxFaults
  /\ faults' = Append(faults, f)

--------------------------------------------------------------------------------
(***************************************************************************)
(* What there is to list.                                                  *)
(***************************************************************************)
GetRunningWorkflows == {r \in Runs : status[r] = "TRIGGERED"}
List == created
ListBySignalType == created \cap OfType

Contents(what) ==
  IF what = "runs" THEN GetRunningWorkflows
  ELSE IF what = "workflows" THEN List
  ELSE ListBySignalType

StartRun(r) ==
  /\ status[r] = "none"
  /\ status' = [status EXCEPT ![r] = "TRIGGERED"]
  /\ UNCHANGED <<created, answer, query, steady, faults>>

EndRun(r) ==
  /\ status[r] = "TRIGGERED"
  /\ status' = [status EXCEPT ![r] = "ended"]
  /\ steady' = steady \ {r}
  /\ UNCHANGED <<created, answer, query, faults>>

CreateWorkflow(w) ==
  /\ w \notin created
  /\ created' = created \cup {w}
  /\ UNCHANGED <<status, answer, query, steady, faults>>

--------------------------------------------------------------------------------
(***************************************************************************)
(* A client lists all there is.                                            *)
(***************************************************************************)
Begin ==
  /\ client = "idle"
  /\ client' = "listing"
  /\ asked' \in Asked
  /\ \E what \in Views : view' = what /\ steady' = Contents(what)
  /\ UNCHANGED <<tables, token, listed, repeated, faults>>

\* Seeded fault: what is no number is asked for as 0.
LimitOrNone(a) == IF a > MaxLimit THEN MaxLimit ELSE a

\* The limit of a request: a number, which is cut, or the default.
LimitOf(a) ==
  IF a > 0 THEN (IF a > MaxLimit THEN MaxLimit ELSE a) ELSE DefaultLimit

\* Seeded fault: the token counts the rows that were listed.
AfterSoMany(S) ==
  {x \in S : Cardinality({y \in S : Place[y] < Place[x]}) >= Cardinality(listed)}

\* ExclusiveStartKey.
After(S) == {x \in S : \A t \in token : Place[x] > Place[t]}

\* DynamoDB reads rows in their order up to the limit, or to a size.
Pages(S, limit) ==
  {P \in SUBSET S : /\ Cardinality(P) <= limit
                    /\ \A p \in P, q \in S \ P : Place[p] < Place[q]}

\* encodeNextToken, of the key of the last row.
EncodeNextToken(P) ==
  \E t \in P : (\A y \in P : Place[y] <= Place[t]) /\ token' = {t}

Receive(P) ==
  /\ listed' = listed \cup P
  /\ repeated' = repeated \cup (listed \cap P)

\* Seeded fault: a page that is not full is taken for the last one.
NextUntilShort ==
  /\ client = "listing"
  /\ \E P \in Pages(After(Contents(view)), LimitOf(asked)) :
       /\ Receive(P)
       /\ IF Cardinality(P) = LimitOf(asked)
          THEN EncodeNextToken(P) /\ UNCHANGED client
          ELSE token' = {} /\ client' = "done"
  /\ UNCHANGED <<tables, query, steady, faults>>

\* The next page.  There is a LastEvaluatedKey, and so a token, if rows are left
\* or none is but the limit was reached.  A request that fails is made again.
NextPage ==
  /\ client = "listing"
  /\ \/ /\ Ok
        /\ \E P \in Pages(After(Contents(view)), LimitOf(asked)) :
             /\ Receive(P)
             /\ \/ /\ P = After(Contents(view)) => Cardinality(P) = LimitOf(asked)
                   /\ EncodeNextToken(P)
                   /\ UNCHANGED client
                \/ /\ P = After(Contents(view))
                   /\ token' = {}
                   /\ client' = "done"
     \/ Fails("Query") /\ UNCHANGED answer
  /\ UNCHANGED <<tables, query, steady>>

Next ==
  \/ \E r \in Runs : StartRun(r) \/ EndRun(r)
  \/ \E w \in Workflows : CreateWorkflow(w)
  \/ Begin
  \/ NextPage

Spec == Init /\ [][Next]_vars

\* A client that has begun asks for the next page, with the limit it began with,
\* until there is none.
FairSpec == Spec /\ WF_vars(NextPage)

--------------------------------------------------------------------------------
(***************************************************************************)
(* What a listing promises.                                                *)
(***************************************************************************)

\* Every variable has its type.
TypeOK ==
  /\ status \in [Runs -> {"none", "TRIGGERED", "ended"}]
  /\ created \subseteq Workflows
  /\ client \in {"idle", "listing", "done"}
  /\ view \in Views
  /\ asked \in Int
  /\ token \subseteq Rows
  /\ listed \subseteq Rows
  /\ repeated \subseteq Rows
  /\ steady \subseteq Rows
  /\ faults \in FaultLogs

\* No row is on two pages of a listing, whatever comes and goes between them.
NoneTwice == repeated = {}

\* A listing that has ended has shown all that was there from its first page to
\* its last, although the row of a token may have gone.
SteadyIsListed == client = "done" => steady \subseteq listed

\* A listing comes to its end, although rows are added while it lasts.
ListingEnds == client = "listing" ~> client = "done"
================================================================================
