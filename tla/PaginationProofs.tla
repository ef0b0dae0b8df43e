--------------------------- MODULE PaginationProofs ---------------------------
(***************************************************************************)
(* Proofs about Pagination, for any rows, times and limits: a listing       *)
(* repeats nothing, keeps its order and misses nothing but ties.            *)
(***************************************************************************)
EXTENDS Pagination, FiniteSetTheorems, TLAPS

(* A request is answered with one row at least, unless there is none: with  *)
(* a limit of zero the full page would be empty and have no last row.       *)
LEMMA LimitIsPositive ==
  \A n \in Limit : ParseLimit(n) \in Nat \ {0}
BY LimitAssumption DEF ParseLimit

(* A full page: rows from the candidates, none left out is newer than one   *)
(* that is in, and the cursor is the time of the oldest.                    *)
LEMMA FullPageIs ==
  ASSUME NEW n \in Nat \ {0}, FullPage(n), at \in [Row -> Time], visible \subseteq Row
  PROVE  /\ page' \subseteq Candidates
         /\ \A p \in page', r \in Candidates \ page' : at[r] <= at[p]
         /\ earlier' = earlier \cup page
         /\ \E p \in page' : cursor' = After(at[p]) /\ \A q \in page' : at[p] <= at[q]
BY DEF FullPage, Newest, Respond

(* The cursor is the time of the oldest row that has been listed; a row     *)
(* that was there all the time is listed, or still ahead, or shares its     *)
(* time with a listed one.                                                  *)
CursorIsOldest ==
  /\ cursor = First => Listed = {}
  /\ cursor.kind = "after" =>
       /\ \A r \in Listed : cursor.time <= at[r]
       /\ \E e \in Listed : at[e] = cursor.time

SteadyIsAccounted ==
  cursor # First =>
    \A r \in steady \ Listed :
      \/ cursor.kind = "after" /\ at[r] < cursor.time
      \/ \E e \in Listed : at[e] = at[r]

PageInv == PageTypeOK /\ CursorIsOldest /\ NewestFirst /\ SteadyIsAccounted

LEMMA TimesAreInts == \A t \in Time : t \in Int
BY TimeAssumption

LEMMA CursorsDiffer ==
  /\ First # End
  /\ \A t : After(t) # First /\ After(t) # End /\ After(t).kind = "after" /\ After(t).time = t
  /\ First.kind # "after" /\ End.kind # "after"
BY DEF First, End, After

LEMMA CursorKinds ==
  ASSUME PageTypeOK
  PROVE  /\ cursor \in {First, End} \/ (cursor.kind = "after" /\ cursor.time \in Time)
BY DEF PageTypeOK, Cursor

LEMMA ListKeepsInv ==
  ASSUME PageInv, List
  PROVE  PageInv'
<1>1. PICK n \in Limit : FullPage(ParseLimit(n)) \/ LastPage(ParseLimit(n))
  BY DEF List
<1>2. /\ cursor # End
      /\ at' = at /\ visible' = visible
      /\ steady' = IF cursor = First THEN visible ELSE steady
  BY DEF List
<1> DEFINE k == ParseLimit(n)
<1>3. k \in Nat \ {0}
  BY LimitIsPositive
<1>4. /\ at \in [Row -> Time] /\ visible \subseteq Row /\ steady \subseteq visible
      /\ page \subseteq Row /\ earlier \subseteq Row
      /\ \A r \in Row : at[r] \in Int
  <2>1. PageTypeOK
    BY DEF PageInv
  <2>2. at \in [Row -> Time]
    BY <2>1 DEF PageTypeOK
  <2>3. \A r \in Row : at[r] \in Int
    BY <2>2, TimesAreInts
  <2> QED BY <2>1, <2>2, <2>3 DEF PageTypeOK
<1>5. cursor = First \/ (cursor.kind = "after" /\ cursor.time \in Int)
  <2>1. PageTypeOK
    BY DEF PageInv
  <2>2. cursor \in {First, End} \/ (cursor.kind = "after" /\ cursor.time \in Time)
    BY <2>1, CursorKinds
  <2> QED BY <2>2, <1>2, TimesAreInts
<1>6. /\ Candidates \subseteq visible
      /\ \A r \in visible \ Candidates : cursor.kind = "after" /\ ~(at[r] < cursor.time)
      /\ \A r \in Candidates : cursor.kind = "after" => at[r] < cursor.time
  BY DEF Candidates
<1>7. /\ page' \subseteq Candidates /\ earlier' = Listed /\ Listed' = Listed \cup page'
  <2>1. CASE FullPage(k)
    BY <2>1, <1>3, <1>4, FullPageIs DEF Listed
  <2>2. CASE LastPage(k)
    BY <2>2 DEF LastPage, Respond, Listed
  <2> QED BY <1>1, <2>1, <2>2
<1>8. NewestFirst'
  (* What is listed is at least as new as the cursor, the page is older. *)
  <2> SUFFICES ASSUME NEW p \in page', NEW e \in Listed
      PROVE  at[p] < at[e]
    BY <1>7, <1>2 DEF NewestFirst
  <2>1. CASE cursor = First
    BY <2>1 DEF PageInv, CursorIsOldest
  <2>2. CASE cursor.kind = "after" /\ cursor.time \in Int
    <3>1. at[p] < cursor.time /\ cursor.time <= at[e]
      BY <2>2, <1>6, <1>7 DEF PageInv, CursorIsOldest
    <3>2. at[p] \in Int /\ at[e] \in Int
      BY <1>4, <1>6, <1>7 DEF Listed
    <3> QED BY <3>1, <3>2, <2>2
  <2> QED BY <1>5, <2>1, <2>2
<1>9. PageTypeOK' /\ CursorIsOldest' /\ SteadyIsAccounted'
  <2>0. page' \subseteq Row /\ earlier' \subseteq Row /\ steady' \subseteq visible'
    BY <1>2, <1>4, <1>6, <1>7 DEF Listed
  (* A row that was there, is not listed and is not a candidate is          *)
  (* accounted for already.                                                 *)
  <2>1. ASSUME NEW r \in steady' \ Listed', r \notin Candidates
        PROVE  \E e \in Listed' : at[e] = at[r]
    <3>1. r \in visible /\ r \notin Listed /\ cursor.kind = "after" /\ ~(at[r] < cursor.time)
      BY <2>1, <1>2, <1>4, <1>6, <1>7
    <3>2. cursor # First /\ r \in steady
      BY <3>1, <1>2, CursorsDiffer, <2>1
    <3>3. \E e \in Listed : at[e] = at[r]
      BY <3>1, <3>2 DEF PageInv, SteadyIsAccounted
    <3> QED BY <3>3, <1>7
  <2>2. CASE FullPage(k)
    <3>1. PICK p \in page' : cursor' = After(at[p]) /\ \A q \in page' : at[p] <= at[q]
      BY <2>2, <1>3, <1>4, FullPageIs
    <3>2. \A q \in page', r \in Candidates \ page' : at[r] <= at[q]
      BY <2>2, <1>3, <1>4, FullPageIs
    <3>3. /\ cursor' # First /\ cursor'.kind = "after" /\ cursor'.time = at[p]
          /\ p \in Row /\ at[p] \in Time /\ p \in Listed'
      BY <3>1, CursorsDiffer, <1>4, <1>6, <1>7
    <3>4. PageTypeOK'
      BY <2>0, <1>2, <1>4, <3>1, <3>3 DEF PageTypeOK, Cursor, After
    <3>5. ASSUME NEW r \in Listed'
          PROVE  at[p] <= at[r]
      <4>1. CASE r \in page'
        BY <4>1, <3>1
      <4>2. CASE r \in Listed
        BY <4>2, <1>8, <1>7, <1>2, <1>4, <3>3 DEF NewestFirst, Listed
      <4> QED BY <1>7, <4>1, <4>2
    <3>6. CursorIsOldest'
      BY <3>3, <3>5, <1>2 DEF CursorIsOldest
    <3>7. ASSUME NEW r \in steady' \ Listed'
          PROVE  at[r] < at[p] \/ \E e \in Listed' : at[e] = at[r]
      <4>1. CASE r \in Candidates
        BY <4>1, <3>2, <3>3, <1>4, <1>6, <1>7
      <4>2. CASE r \notin Candidates
        BY <4>2, <2>1
      <4> QED BY <4>1, <4>2
    <3>8. SteadyIsAccounted'
      BY <3>3, <3>7, <1>2 DEF SteadyIsAccounted
    <3> QED BY <3>4, <3>6, <3>8
  <2>3. CASE LastPage(k)
    <3>1. page' = Candidates /\ cursor' = End
      BY <2>3 DEF LastPage, Respond
    <3>2. PageTypeOK'
      BY <2>0, <3>1, <1>2, <1>4 DEF PageTypeOK, Cursor
    <3>3. CursorIsOldest'
      BY <3>1, CursorsDiffer DEF CursorIsOldest
    <3>4. SteadyIsAccounted'
      BY <3>1, <1>7, <2>1, <1>2 DEF SteadyIsAccounted
    <3> QED BY <3>2, <3>3, <3>4
  <2> QED BY <1>1, <2>2, <2>3
<1> QED BY <1>8, <1>9 DEF PageInv

LEMMA PageInvHolds == PageSpec => []PageInv
<1>1. PageInit => PageInv
  BY CursorsDiffer
  DEF PageInit, PageInv, PageTypeOK, Cursor, CursorIsOldest, NewestFirst,
      SteadyIsAccounted, Listed
<1>2. PageInv /\ [PageNext]_pageVars => PageInv'
  <2> SUFFICES ASSUME PageInv, [PageNext]_pageVars
      PROVE  PageInv'
    OBVIOUS
  <2> USE DEF PageInv, PageTypeOK, CursorIsOldest, NewestFirst, SteadyIsAccounted,
              Listed, listing
  <2>1. CASE List
    BY <2>1, ListKeepsInv
  <2>2. ASSUME NEW r \in Row, Appear(r)
        PROVE  PageInv'
    BY <2>2 DEF Appear
  <2>3. ASSUME NEW r \in Row, Vanish(r)
        PROVE  PageInv'
    <3>1. /\ at' = at /\ cursor' = cursor /\ page' = page /\ earlier' = earlier
          /\ visible' = visible \ {r} /\ steady' = steady \ {r}
      BY <2>3 DEF Vanish
    <3> QED BY <3>1
  <2>4. CASE UNCHANGED pageVars
    BY <2>4 DEF pageVars
  <2> QED BY <2>1, <2>2, <2>3, <2>4 DEF PageNext
<1> QED BY <1>1, <1>2, PTL DEF PageSpec

-----------------------------------------------------------------------------
(* The variables keep their types; in particular every cursor a client is   *)
(* given is the created_at of a row.                                        *)
THEOREM PageTypes == PageSpec => []PageTypeOK
BY PageInvHolds, PTL DEF PageInv

(* No row is listed twice and the pages follow each other from the newest   *)
(* to the oldest, whatever is inserted and deleted meanwhile.               *)
THEOREM ListingIsOrdered == PageSpec => []NewestFirst
BY PageInvHolds, PTL DEF PageInv

(* A listing that has ended has shown every row that was visible from its   *)
(* first page on, but for rows that share their time with a listed row.     *)
THEOREM ListingIsComplete == PageSpec => []NothingIsMissed
<1>1. PageInv => NothingIsMissed
  BY CursorsDiffer DEF PageInv, SteadyIsAccounted, NothingIsMissed
<1> QED BY <1>1, PageInvHolds, PTL
=============================================================================
