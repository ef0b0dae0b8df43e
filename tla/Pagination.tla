------------------------------ MODULE Pagination ------------------------------
(***************************************************************************)
(* The listings of internal/api (workspaces, snapshots, tasks): the newest  *)
(* `limit' rows older than the cursor, and as the next cursor the           *)
(* created_at of the last row, which is not a key.  Rows come and go while  *)
(* a client follows the cursors to the end: they are inserted, with the     *)
(* time at which their statement began, deleted, and change the status the  *)
(* listing is filtered by.                                                  *)
(***************************************************************************)
EXTENDS Integers, FiniteSets

CONSTANTS
  Row,           \* rows that may ever match the listing
  Time,          \* values of created_at
  DefaultLimit,  \* 20: when the request has none, or none that can be parsed
  MaxLimit,      \* 100
  Limit          \* bound: the limits a request may ask for; 0: none

ASSUME RowAssumption  == IsFiniteSet(Row)
ASSUME TimeAssumption == Time \subseteq Nat
ASSUME LimitAssumption ==
  /\ Limit \subseteq Int
  /\ DefaultLimit \in Nat \ {0} /\ MaxLimit \in Nat \ {0}

VARIABLES
  at,        \* created_at of each row; it does not change
  visible,   \* rows that are inserted, not deleted and pass the filter
  cursor,    \* what the client sends next
  page,      \* the last response
  earlier,   \* rows of the responses before it
  steady     \* for the properties: rows visible from the first request on

listing == <<cursor, page, earlier, steady>>
pageVars == <<at, visible, listing>>

(* No cursor in the request: nothing bounds the first page.  No next_cursor *)
(* in the response: the client stops.                                       *)
First == [kind |-> "first", time |-> 0]
End   == [kind |-> "end", time |-> 0]

(* Mutant: the time is written without its fraction. *)
AfterSecond(t) == [kind |-> "after", time |-> t - (t % 2)]

(* encodeCursor and decodeCursor: RFC3339Nano keeps what PostgreSQL stores. *)
After(t) == [kind |-> "after", time |-> t]
Cursor == {First, End} \cup [kind : {"after"}, time : Time]

PageTypeOK ==
  /\ at \in [Row -> Time]
  /\ visible \subseteq Row
  /\ cursor \in Cursor
  /\ page \subseteq Row /\ earlier \subseteq Row /\ steady \subseteq visible

PageInit ==
  /\ at \in [Row -> Time] /\ visible \in SUBSET Row
  /\ cursor = First
  /\ page = {} /\ earlier = {} /\ steady = {}

-----------------------------------------------------------------------------
(* parseLimit *)
ParseLimit(n) ==
  IF n < 1 THEN DefaultLimit ELSE IF n > MaxLimit THEN MaxLimit ELSE n

(* Mutant: the cursor's own row is looked at again. *)
CandidatesFrom ==
  {r \in visible : cursor.kind = "after" => at[r] <= cursor.time}

(* WHERE created_at < cursor *)
Candidates ==
  {r \in visible : cursor.kind = "after" => at[r] < cursor.time}

(* ORDER BY created_at DESC LIMIT n: rows with the same time in any order. *)
Newest(n) ==
  {P \in SUBSET Candidates :
     /\ Cardinality(P) = n
     /\ \A p \in P, r \in Candidates \ P : at[r] <= at[p]}

Respond(P) == page' = P /\ earlier' = earlier \cup page

(* Mutant: the cursor is taken from the first row of the page. *)
FullPageOfFirst(n) ==
  \E P \in Newest(n) :
    /\ Respond(P)
    /\ cursor' \in {After(at[p]) : p \in {q \in P : \A r \in P : at[r] <= at[q]}}

FullPage(n) ==
  \E P \in Newest(n) :
    /\ Respond(P)
    /\ cursor' \in {After(at[p]) : p \in {q \in P : \A r \in P : at[q] <= at[r]}}

(* A page with fewer rows has no next_cursor. *)
LastPage(n) ==
  /\ Cardinality(Candidates) < n
  /\ Respond(Candidates)
  /\ cursor' = End

(* One request of the client. *)
List ==
  /\ cursor # End
  /\ \E n \in Limit : FullPage(ParseLimit(n)) \/ LastPage(ParseLimit(n))
  /\ steady' = IF cursor = First THEN visible ELSE steady
  /\ UNCHANGED <<at, visible>>

(* An INSERT, or a task that comes to match the filter. *)
Appear(r) ==
  /\ r \notin visible /\ visible' = visible \cup {r}
  /\ UNCHANGED <<at, listing>>

(* deleted_at is set, or a task does not match the filter any more. *)
Vanish(r) ==
  /\ r \in visible /\ visible' = visible \ {r}
  /\ steady' = steady \ {r}
  /\ UNCHANGED <<at, cursor, page, earlier>>

PageNext == List \/ \E r \in Row : Appear(r) \/ Vanish(r)

PageSpec == PageInit /\ [][PageNext]_pageVars

(* The client asks on while it is given a cursor. *)
PageFairSpec == PageSpec /\ WF_pageVars(List)

-----------------------------------------------------------------------------
Listed == earlier \cup page

(* Nothing is listed twice, and nothing out of order: each row is older     *)
(* than every row of the pages before, whatever is inserted meanwhile.      *)
NewestFirst == \A p \in page, e \in earlier : at[p] < at[e]

(* When the client is told that it has come to the end it has seen every    *)
(* row that was there all the time, except rows with the created_at of one  *)
(* that it has seen: with distinct times nothing is missed.                 *)
NothingIsMissed ==
  cursor = End => \A r \in steady \ Listed : \E e \in Listed : at[e] = at[r]

(* The client comes to the end, however many rows are inserted meanwhile.   *)
ListingEnds == <>(cursor = End)
=============================================================================
