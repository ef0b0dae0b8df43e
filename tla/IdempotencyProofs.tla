--------------------------- MODULE IdempotencyProofs ---------------------------
(***************************************************************************)
(* Proofs about Idempotency, for any clients, requests, invocations and     *)
(* faults: one key is one task, and what a client is told about it is true. *)
(***************************************************************************)
EXTENDS Idempotency, TLAPS

(* A row was inserted for somebody's request. *)
IsWanted(row) ==
  \E c \in Client : /\ row.op = Wanted[c].op /\ row.key = Wanted[c].key
                    /\ row.hash = HashOf(Wanted[c])
RowsAreWanted == \A row \in tasks : IsWanted(row)

(* An invocation that is busy is so for a client. *)
HandlersServe ==
  \A h \in Handler : Busy(h) => handlers[h].client \in Client

(* The answer a client has, in terms of the rows. *)
AnswerIsTrue(c) ==
  /\ answers[c] \in TaskId => \E row \in tasks :
       /\ row.id = answers[c]
       /\ row.op = Wanted[c].op /\ row.key = Wanted[c].key
       /\ row.hash = HashOf(Wanted[c])
  /\ answers[c] = "mismatch" => \E d \in Client :
       /\ Wanted[d].op = Wanted[c].op /\ Wanted[d].key = Wanted[c].key
       /\ Wanted[d].body # Wanted[c].body
AnswersAreTrue == \A c \in Client : AnswerIsTrue(c)

IdInv ==
  /\ IdTypeOK /\ HandlersServe /\ RowsAreWanted
  /\ OneTaskPerKey /\ AnswersAreTrue

(* What a row that was inserted for a request looks like. *)
LEMMA WantedRow ==
  ASSUME NEW row, row \in tasks, IdInv
  PROVE  /\ row \in TaskRows
         /\ row.op \in {"snapshot_drop", "set_current"} => row.hash[2] \in Snapshot
<1>1. row \in TaskRows
  BY DEF IdInv, IdTypeOK
<1>2. PICK c \in Client : row.op = Wanted[c].op /\ row.hash = HashOf(Wanted[c])
  BY DEF IdInv, RowsAreWanted, IsWanted
<1>3. row.hash[2] = Wanted[c].body
  BY <1>2 DEF HashOf
<1> QED BY <1>1, <1>2, <1>3, WantedAssumption

-----------------------------------------------------------------------------
(* Steps that leave the rows alone: what has to be shown of them. *)

LEMMA HandlerMoves ==
  ASSUME IdInv, NEW h \in Handler, NEW s \in HandlerState,
         s.pc # "idle" => s.client \in Client,
         handlers' = [handlers EXCEPT ![h] = s]
  PROVE  handlers' \in [Handler -> HandlerState] /\ HandlersServe'
BY DEF IdInv, IdTypeOK, HandlersServe, Busy

LEMMA GotoMoves ==
  ASSUME IdInv, NEW h \in Handler, Busy(h), NEW p \in Pc, Goto(h, p)
  PROVE  handlers' \in [Handler -> HandlerState] /\ HandlersServe'
<1> DEFINE s == [handlers[h] EXCEPT !.pc = p]
<1>1. handlers[h] \in HandlerState /\ handlers[h].client \in Client
  BY DEF IdInv, IdTypeOK, HandlersServe
<1>2. s \in HandlerState /\ s.client \in Client
  BY <1>1 DEF HandlerState
<1>3. handlers' = [handlers EXCEPT ![h] = s]
  BY DEF Goto
<1> HIDE DEF s
<1> QED BY <1>2, <1>3, HandlerMoves

LEMMA DoneMoves ==
  ASSUME IdInv, NEW h \in Handler, Done(h)
  PROVE  handlers' \in [Handler -> HandlerState] /\ HandlersServe'
<1>1. IdleHandler \in HandlerState /\ IdleHandler.pc = "idle"
  BY DEF IdleHandler, HandlerState, Pc
<1>2. handlers' = [handlers EXCEPT ![h] = IdleHandler]
  BY DEF Done
<1> QED BY <1>1, <1>2, HandlerMoves

(* The invariant follows from the parts a step is about. *)
LEMMA RowsStay ==
  ASSUME IdInv, tasks' = tasks,
         handlers' \in [Handler -> HandlerState], HandlersServe',
         workspace' \in {"absent", "open", "disabled"}, deleted' \subseteq Snapshot,
         current' \in Snapshot \cup {NoSnapshot}, losses' \in 0..Losses,
         answers' \in [Client -> Answer], AnswersAreTrue'
  PROVE  IdInv'
BY DEF IdInv, IdTypeOK, RowsAreWanted, OneTaskPerKey

LEMMA AnswersStay ==
  ASSUME IdInv, tasks \subseteq tasks', answers' = answers
  PROVE  answers' \in [Client -> Answer] /\ AnswersAreTrue'
BY DEF IdInv, IdTypeOK, AnswersAreTrue, AnswerIsTrue

LEMMA StoreStays ==
  ASSUME IdInv, UNCHANGED store
  PROVE  /\ tasks' = tasks /\ workspace' \in {"absent", "open", "disabled"}
         /\ deleted' \subseteq Snapshot /\ current' \in Snapshot \cup {NoSnapshot}
BY DEF IdInv, IdTypeOK, store

LEMMA LossesStay ==
  ASSUME IdInv, UNCHANGED losses \/ Lose
  PROVE  losses' \in 0..Losses
<1>1. losses \in 0..Losses
  BY DEF IdInv, IdTypeOK
<1> QED BY <1>1, LossesAssumption DEF Lose

(* A reply that is true, or one that is neither a task nor a mismatch. *)
LEMMA ReplyIsTrue ==
  ASSUME IdInv, NEW h \in Handler, Busy(h), NEW a \in Answer, Reply(h, a),
         tasks \subseteq tasks',
         a \in TaskId => \E row \in tasks' :
           /\ row.id = a
           /\ row.op = For(h).op /\ row.key = For(h).key /\ row.hash = HashOf(For(h)),
         a = "mismatch" => \E d \in Client :
           /\ Wanted[d].op = For(h).op /\ Wanted[d].key = For(h).key
           /\ Wanted[d].body # For(h).body
  PROVE  /\ answers' \in [Client -> Answer] /\ AnswersAreTrue'
         /\ handlers' \in [Handler -> HandlerState] /\ HandlersServe'
         /\ losses' \in 0..Losses
<1>1. handlers' \in [Handler -> HandlerState] /\ HandlersServe'
  BY DoneMoves DEF Reply
<1>2. losses' \in 0..Losses
  BY LossesStay DEF Reply
<1>3. CASE UNCHANGED answers
  BY <1>1, <1>2, <1>3, AnswersStay
<1>4. CASE answers' = [answers EXCEPT ![handlers[h].client] = a]
  <2>0. handlers[h].client \in Client /\ answers \in [Client -> Answer]
    BY DEF IdInv, IdTypeOK, HandlersServe
  <2>1. PICK c \in Client : c = handlers[h].client
    BY <2>0
  <2>2. answers' \in [Client -> Answer]
    BY <1>4, <2>0
  <2>3. AnswerIsTrue(c)'
    <3>1. answers'[c] = a /\ For(h) = Wanted[c]
      BY <1>4, <2>0, <2>1 DEF For
    <3> QED BY <3>1 DEF AnswerIsTrue
  <2>4. ASSUME NEW d \in Client, d # c
        PROVE  AnswerIsTrue(d)'
    <3>1. answers'[d] = answers[d] /\ AnswerIsTrue(d)
      BY <1>4, <2>0, <2>1, <2>4 DEF IdInv, AnswersAreTrue
    <3> QED BY <3>1 DEF AnswerIsTrue
  <2> QED BY <1>1, <1>2, <2>2, <2>3, <2>4 DEF AnswersAreTrue
<1> QED BY <1>3, <1>4 DEF Reply

-----------------------------------------------------------------------------
(* The steps. *)

LEMMA PlainReply ==
  ASSUME IdInv, NEW h \in Handler, Busy(h), UNCHANGED store,
         NEW a \in {"refused", "already"}, Reply(h, a)
  PROVE  IdInv'
<1>1. a \in Answer /\ a \notin TaskId /\ a # "mismatch"
  BY TaskIdAssumption DEF Answer
<1>2. tasks \subseteq tasks'
  BY StoreStays
<1> QED BY <1>1, <1>2, ReplyIsTrue, StoreStays, RowsStay

LEMMA PlainGoto ==
  ASSUME IdInv, NEW h \in Handler, Busy(h), UNCHANGED store,
         NEW p \in Pc, Goto(h, p), UNCHANGED answers, UNCHANGED losses \/ Lose
  PROVE  IdInv'
<1>1. tasks \subseteq tasks'
  BY StoreStays
<1> QED BY <1>1, AnswersStay, LossesStay, GotoMoves, StoreStays, RowsStay

LEMMA SendKeeps ==
  ASSUME IdInv, NEW c \in Client, NEW h \in Handler, Send(c, h)
  PROVE  IdInv'
<1> DEFINE s == [pc |-> IF Wanted[c].op = "init_workspace" THEN "lookup" ELSE "workspace",
                 client |-> c, current |-> NoSnapshot]
<1>1. s \in HandlerState /\ s.client \in Client
  BY DEF HandlerState, Pc
<1>2. handlers' = [handlers EXCEPT ![h] = s]
  BY DEF Send
<1>3. UNCHANGED store /\ UNCHANGED answers /\ UNCHANGED losses
  BY DEF Send
<1> HIDE DEF s
<1>4. handlers' \in [Handler -> HandlerState] /\ HandlersServe'
  BY <1>1, <1>2, HandlerMoves
<1>5. tasks \subseteq tasks'
  BY <1>3, StoreStays
<1> QED BY <1>3, <1>4, <1>5, AnswersStay, LossesStay, StoreStays, RowsStay

LEMMA ReadWorkspaceKeeps ==
  ASSUME IdInv, NEW h \in Handler, ReadWorkspace(h)
  PROVE  IdInv'
<1>1. Busy(h) /\ UNCHANGED store
  BY DEF ReadWorkspace, At, Busy
<1>2. CASE Reply(h, "refused")
  BY <1>1, <1>2, PlainReply
<1>3. CASE UNCHANGED <<answers, losses>> /\ workspace = "open"
           /\ handlers' = [handlers EXCEPT ![h].current = current,
             ![h].pc = IF For(h).op = "snapshot_create" THEN "lookup" ELSE "snapshot"]
  <2> DEFINE s == [handlers[h] EXCEPT !.current = current,
                     !.pc = IF For(h).op = "snapshot_create" THEN "lookup" ELSE "snapshot"]
  <2>1. /\ handlers[h] \in HandlerState /\ handlers[h].client \in Client
        /\ current \in Snapshot \cup {NoSnapshot} /\ handlers \in [Handler -> HandlerState]
    BY <1>1 DEF IdInv, IdTypeOK, HandlersServe
  <2>2. s \in HandlerState /\ s.client \in Client
    BY <2>1 DEF HandlerState, Pc
  <2>3. handlers' = [handlers EXCEPT ![h] = s]
    BY <1>3, <2>1
  <2> HIDE DEF s
  <2>4. handlers' \in [Handler -> HandlerState] /\ HandlersServe'
    BY <2>2, <2>3, HandlerMoves
  <2>5. tasks \subseteq tasks'
    BY <1>1, StoreStays
  <2> QED BY <1>1, <1>3, <2>4, <2>5, AnswersStay, LossesStay, StoreStays, RowsStay
<1> QED BY <1>2, <1>3 DEF ReadWorkspace

LEMMA ReadSnapshotKeeps ==
  ASSUME IdInv, NEW h \in Handler, ReadSnapshot(h)
  PROVE  IdInv'
<1>1. Busy(h) /\ UNCHANGED store
  BY DEF ReadSnapshot, At, Busy
<1>2. \/ Reply(h, "refused") \/ Reply(h, "already")
      \/ Goto(h, "lookup") /\ UNCHANGED answers /\ UNCHANGED losses
  BY DEF ReadSnapshot
<1>3. "lookup" \in Pc
  BY DEF Pc
<1> QED BY <1>1, <1>2, <1>3, PlainReply, PlainGoto

LEMMA LookupKeeps ==
  ASSUME IdInv, NEW h \in Handler, Lookup(h)
  PROVE  IdInv'
<1>1. Busy(h) /\ UNCHANGED store
  BY DEF Lookup, At, Busy
<1>2. tasks \subseteq tasks' /\ tasks' = tasks
  BY <1>1, StoreStays
<1>3. ASSUME NEW row \in Existing(For(h)), row.hash = HashOf(For(h)), Reply(h, row.id)
      PROVE  IdInv'
  <2>1. row \in tasks /\ row.op = For(h).op /\ row.key = For(h).key
    BY DEF Existing, SameKey
  <2>2. row.id \in TaskId
    BY <2>1, WantedRow DEF TaskRows
  <2>3. row.id \in Answer /\ row.id # "mismatch"
    BY <2>2, TaskIdAssumption DEF Answer
  <2> QED BY <1>1, <1>2, <1>3, <2>1, <2>3, ReplyIsTrue, StoreStays, RowsStay
<1>4. ASSUME NEW row \in Existing(For(h)), row.hash # HashOf(For(h)), Reply(h, "mismatch")
      PROVE  IdInv'
  <2>1. row \in tasks /\ row.op = For(h).op /\ row.key = For(h).key
    BY DEF Existing, SameKey
  <2>2. PICK d \in Client : /\ row.op = Wanted[d].op /\ row.key = Wanted[d].key
                            /\ row.hash = HashOf(Wanted[d])
    BY <2>1 DEF IdInv, RowsAreWanted, IsWanted
  <2>3. Wanted[d].body # For(h).body
    BY <1>4, <2>1, <2>2 DEF HashOf
  <2>4. "mismatch" \in Answer /\ "mismatch" \notin TaskId
    BY TaskIdAssumption DEF Answer
  <2> QED BY <1>1, <1>2, <1>4, <2>1, <2>2, <2>3, <2>4, ReplyIsTrue, StoreStays, RowsStay
<1>5. CASE NotFound(h)
  <2>1. AfterLookup(For(h).op) \in Pc
    BY DEF AfterLookup, Pc
  <2> QED BY <1>1, <1>5, <2>1, PlainGoto DEF NotFound
<1> QED BY <1>3, <1>4, <1>5 DEF Lookup

LEMMA ErrorKeeps ==
  ASSUME IdInv, NEW h \in Handler, ServerError(h), UNCHANGED losses \/ Lose,
         tasks' = tasks, deleted' = deleted, current' = current,
         workspace' \in {"absent", "open", "disabled"}
  PROVE  IdInv'
<1>1. handlers' \in [Handler -> HandlerState] /\ HandlersServe'
  BY DoneMoves DEF ServerError
<1>2. answers' \in [Client -> Answer] /\ AnswersAreTrue'
  BY AnswersStay DEF ServerError
<1>3. deleted' \subseteq Snapshot /\ current' \in Snapshot \cup {NoSnapshot}
  BY DEF IdInv, IdTypeOK
<1> QED BY <1>1, <1>2, <1>3, LossesStay, RowsStay

LEMMA InsertWorkspaceKeeps ==
  ASSUME IdInv, NEW h \in Handler, InsertWorkspace(h)
  PROVE  IdInv'
<1>1. /\ Busy(h) /\ tasks' = tasks /\ deleted' = deleted /\ current' = current
      /\ losses' = losses
  BY DEF InsertWorkspace, At, Busy
<1>2. workspace' \in {"absent", "open", "disabled"}
  BY DEF InsertWorkspace, IdInv, IdTypeOK
<1>3. CASE ServerError(h)
  BY <1>1, <1>2, <1>3, ErrorKeeps
<1>4. CASE Goto(h, "insert") /\ UNCHANGED answers
  <2>1. handlers' \in [Handler -> HandlerState] /\ HandlersServe'
    BY <1>1, <1>4, GotoMoves DEF Pc
  <2>2. answers' \in [Client -> Answer] /\ AnswersAreTrue'
    BY <1>1, <1>4, AnswersStay
  <2>3. deleted' \subseteq Snapshot /\ current' \in Snapshot \cup {NoSnapshot}
    BY <1>1 DEF IdInv, IdTypeOK
  <2> QED BY <1>1, <1>2, <2>1, <2>2, <2>3, LossesStay, RowsStay
<1> QED BY <1>3, <1>4 DEF InsertWorkspace

(* The unique index: a row goes in only where none has its key. *)
LEMMA InsertTaskKeeps ==
  ASSUME IdInv, NEW h \in Handler, InsertTask(h)
  PROVE  IdInv'
<1>1. Busy(h) /\ workspace' = workspace /\ deleted' = deleted /\ current' = current
  BY DEF InsertTask, At, Busy
<1>2. CASE ServerError(h) /\ UNCHANGED <<tasks, losses>>
  BY <1>1, <1>2, ErrorKeeps DEF IdInv, IdTypeOK
<1>3. CASE Existing(For(h)) = {} /\ InsertRow(h)
  <2> DEFINE row == NewRow(h, NewID)
             c   == handlers[h].client
  <2>1. /\ NewID \in TaskId /\ \A q \in tasks : q.id # NewID
    BY <1>3 DEF InsertRow, NewID, Fresh
  <2>2. tasks' = tasks \cup {row} /\ Reply(h, NewID)
    BY <1>3 DEF InsertRow
  <2>3. c \in Client /\ For(h) = Wanted[c]
    BY <1>1 DEF IdInv, HandlersServe, For
  <2>4. /\ row.id = NewID /\ row.op = For(h).op /\ row.key = For(h).key
        /\ row.hash = HashOf(For(h))
    BY DEF NewRow
  <2>5. row \in TaskRows
    BY <2>1, <2>3, WantedAssumption DEF NewRow, TaskRows, HashOf
  <2>6. \A q \in tasks : ~(q.op = row.op /\ q.key = row.key)
    BY <1>3, <2>4 DEF Existing, SameKey
  <2> HIDE DEF row
  <2>7. IsWanted(row)
    BY <2>3, <2>4 DEF IsWanted
  <2>8. NewID \in Answer /\ NewID # "mismatch"
    BY <2>1, TaskIdAssumption DEF Answer
  <2>9. /\ answers' \in [Client -> Answer] /\ AnswersAreTrue'
        /\ handlers' \in [Handler -> HandlerState] /\ HandlersServe'
        /\ losses' \in 0..Losses
    <3>1. row \in tasks' /\ tasks \subseteq tasks'
      BY <2>2
    <3> QED BY <1>1, <2>2, <2>4, <2>8, <3>1, ReplyIsTrue
  <2>10. IdTypeOK'
    <3>1. tasks' \subseteq TaskRows /\ \A r, q \in tasks' : r.id = q.id => r = q
      BY <2>1, <2>2, <2>4, <2>5 DEF IdInv, IdTypeOK
    <3> QED BY <1>1, <2>9, <3>1 DEF IdInv, IdTypeOK
  <2>11. RowsAreWanted'
    BY <2>2, <2>7 DEF IdInv, RowsAreWanted, IsWanted
  <2>12. OneTaskPerKey'
    BY <2>2, <2>6 DEF IdInv, OneTaskPerKey
  <2> QED BY <2>9, <2>10, <2>11, <2>12 DEF IdInv
<1> QED BY <1>2, <1>3 DEF InsertTask

LEMMA ElsewhereKeeps ==
  ASSUME IdInv, Elsewhere
  PROVE  IdInv'
<1>1. handlers' = handlers /\ answers' = answers /\ losses' = losses
  BY DEF Elsewhere
<1>2. handlers' \in [Handler -> HandlerState] /\ HandlersServe'
  BY <1>1 DEF IdInv, IdTypeOK, HandlersServe, Busy
<1>3. /\ tasks' = tasks /\ workspace' \in {"absent", "open", "disabled"}
      /\ deleted' \subseteq Snapshot /\ current' \in Snapshot \cup {NoSnapshot}
  <2>1. CASE Disable
    BY <2>1 DEF Disable, IdInv, IdTypeOK
  <2>2. ASSUME NEW row \in tasks, CarryOut(row)
        PROVE  /\ tasks' = tasks /\ workspace' \in {"absent", "open", "disabled"}
               /\ deleted' \subseteq Snapshot /\ current' \in Snapshot \cup {NoSnapshot}
    BY <2>2, WantedRow DEF CarryOut, IdInv, IdTypeOK
  <2> QED BY <2>1, <2>2 DEF Elsewhere
<1> QED BY <1>1, <1>2, <1>3, AnswersStay, LossesStay, RowsStay

LEMMA StepKeeps == IdInv /\ [IdNext]_idVars => IdInv'
<1> SUFFICES ASSUME IdInv, [IdNext]_idVars
    PROVE  IdInv'
  OBVIOUS
<1>1. ASSUME NEW c \in Client, NEW h \in Handler, Send(c, h)
      PROVE  IdInv'
  BY <1>1, SendKeeps
<1>2. ASSUME NEW h \in Handler, Handle(h)
      PROVE  IdInv'
  BY <1>2, ReadWorkspaceKeeps, ReadSnapshotKeeps, LookupKeeps, InsertWorkspaceKeeps,
     InsertTaskKeeps DEF Handle
<1>3. ASSUME NEW h \in Handler, LookupFails(h)
      PROVE  IdInv'
  <2>1. Busy(h) /\ UNCHANGED store /\ UNCHANGED answers /\ Lose
    BY <1>3 DEF LookupFails, At, Busy
  <2>2. AfterLookup(For(h).op) \in Pc
    BY DEF AfterLookup, Pc
  <2> QED BY <1>3, <2>1, <2>2, PlainGoto DEF LookupFails
<1>4. ASSUME NEW h \in Handler, HandlerDies(h)
      PROVE  IdInv'
  BY <1>4, ErrorKeeps DEF HandlerDies, store, IdInv, IdTypeOK
<1>5. CASE Elsewhere
  BY <1>5, ElsewhereKeeps
<1>6. CASE UNCHANGED idVars
  BY <1>6 DEF idVars, store, IdInv, IdTypeOK, HandlersServe, Busy, RowsAreWanted,
     OneTaskPerKey, AnswersAreTrue, AnswerIsTrue
<1> QED BY <1>1, <1>2, <1>3, <1>4, <1>5, <1>6 DEF IdNext

LEMMA InvHolds == IdSpec => []IdInv
<1>1. IdInit => IdInv
  BY TaskIdAssumption, LossesAssumption
  DEF IdInit, IdInv, IdTypeOK, HandlersServe, Busy, RowsAreWanted, OneTaskPerKey,
      AnswersAreTrue, AnswerIsTrue, IdleHandler, HandlerState, Pc, Answer
<1> QED BY <1>1, StepKeeps, PTL DEF IdSpec

-----------------------------------------------------------------------------
(* Every variable keeps its type and no two rows share an id. *)
THEOREM IdTypes == IdSpec => []IdTypeOK
BY InvHolds, PTL DEF IdInv

(* One key is one task, however often a request is sent and wherever its    *)
(* invocations fail: the unique index alone sees to it.                     *)
THEOREM KeyIsOneTask == IdSpec => []OneTaskPerKey
BY InvHolds, PTL DEF IdInv

(* A 202 names a task that does what this very request asks for. *)
THEOREM AcceptedIsTrue == IdSpec => []RepliesAreTrue
<1>1. IdInv => RepliesAreTrue
  BY DEF IdInv, AnswersAreTrue, AnswerIsTrue, RepliesAreTrue
<1> QED BY <1>1, InvHolds, PTL

(* Nobody is told of a mismatch with his own request. *)
THEOREM MismatchIsReal == IdSpec => []MismatchIsTrue
<1>1. IdInv => MismatchIsTrue
  BY DEF IdInv, AnswersAreTrue, AnswerIsTrue, MismatchIsTrue
<1> QED BY <1>1, InvHolds, PTL
=============================================================================
