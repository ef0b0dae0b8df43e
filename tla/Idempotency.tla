----------------------------- MODULE Idempotency ------------------------------
(***************************************************************************)
(* Requests with an Idempotency-Key on one workspace: what the four         *)
(* handlers of asynchronous writes (internal/api) do with the key, and      *)
(* clients that send a request again, with its key, when no answer or a     *)
(* 500 has come back.  Invocations run concurrently, also those of one      *)
(* client whose earlier request is still being handled.                     *)
(*                                                                          *)
(* The tests a handler makes before it looks the key up are part of it: a   *)
(* request that is sent again may meet another state than the first time.   *)
(***************************************************************************)
EXTENDS Naturals

CONSTANTS
  Client,     \* each sends one request until it has an answer
  Wanted,     \* Wanted[c] = [op, key, body]
  Handler,    \* invocations of the API in progress
  TaskId,     \* ids that NewID may return
  Snapshot,   \* snapshots that exist
  NoSnapshot, \* current_snapshot_id is NULL
  Losses      \* bound: how many answers are lost, statements or processes fail

Op == {"init_workspace", "snapshot_create", "snapshot_drop", "set_current"}

ASSUME ClientAssumption == Client \subseteq Nat \ {0}
ASSUME WantedAssumption ==
  \A c \in Client :
    /\ Wanted[c].op \in Op
    /\ Wanted[c].op \in {"snapshot_drop", "set_current"} => Wanted[c].body \in Snapshot
ASSUME TaskIdAssumption ==
  TaskId \cap {"none", "mismatch", "refused", "already"} = {}
ASSUME LossesAssumption == Losses \in Nat

VARIABLES
  tasks,      \* the rows of wvs.tasks: [id, op, key, hash]
  workspace,  \* "absent", "open" or "disabled"
  deleted,    \* the snapshots with deleted_at
  current,    \* current_snapshot_id
  handlers,   \* per invocation: where it is, for whom, what it has read
  answers,    \* what each client has been told last: a task for a 202
  losses      \* how many of the bounded faults have happened

store  == <<tasks, workspace, deleted, current>>
idVars == <<store, handlers, answers, losses>>

(* The next statement of an invocation, and the current snapshot it read.   *)
Pc == {"idle", "workspace", "snapshot", "lookup", "insert_ws", "insert"}
HandlerState ==
  [pc : Pc, client : Client \cup {0}, current : Snapshot \cup {NoSnapshot}]
IdleHandler  == [pc |-> "idle", client |-> 0, current |-> NoSnapshot]
TaskRows == [id : TaskId, op : Op, key : {Wanted[c].key : c \in Client},
             hash : {<<Wanted[c].op, Wanted[c].body>> : c \in Client}]
Answer == TaskId \cup {"none", "mismatch", "refused", "already"}

IdTypeOK ==
  /\ tasks \subseteq TaskRows
  /\ \A r, q \in tasks : r.id = q.id => r = q
  /\ workspace \in {"absent", "open", "disabled"}
  /\ deleted \subseteq Snapshot /\ current \in Snapshot \cup {NoSnapshot}
  /\ handlers \in [Handler -> HandlerState]
  /\ answers \in [Client -> Answer]
  /\ losses \in 0..Losses

IdInit ==
  /\ tasks = {} /\ deleted = {} /\ current = NoSnapshot
  /\ workspace \in {"absent", "open"}
  /\ handlers = [h \in Handler |-> IdleHandler]
  /\ answers = [c \in Client |-> "none"]
  /\ losses = 0

-----------------------------------------------------------------------------
Busy(h)  == handlers[h].pc # "idle"
At(h, p) == handlers[h].pc = p
For(h)   == Wanted[handlers[h].client]

(* ComputeRequestHash: method and path follow from the operation. *)
HashOf(w) == <<w.op, w.body>>

(* Mutant: the operation is not compared. *)
SameKeyAnyOp(row, w) == row.key = w.key

(* GetTaskByIdempotencyKey, and the columns of the unique index. *)
SameKey(row, w) == row.op = w.op /\ row.key = w.key
Existing(w) == {row \in tasks : SameKey(row, w)}

Goto(h, p) == handlers' = [handlers EXCEPT ![h].pc = p]
Done(h)    == handlers' = [handlers EXCEPT ![h] = IdleHandler]

Lose == losses < Losses /\ losses' = losses + 1

(* The answer arrives, unless it is lost. *)
Reply(h, a) ==
  /\ Done(h)
  /\ \/ answers' = [answers EXCEPT ![handlers[h].client] = a] /\ UNCHANGED losses
     \/ UNCHANGED answers /\ Lose

(* A 500, or no answer at all: the client is free to send it again. *)
ServerError(h) ==
  /\ Done(h)
  /\ UNCHANGED answers

-----------------------------------------------------------------------------
(* The client sends, or sends again although an earlier one may still be    *)
(* handled.  The first statement depends on the operation.                  *)
Send(c, h) ==
  /\ answers[c] = "none" /\ ~Busy(h)
  /\ handlers' = [handlers EXCEPT ![h] =
       [pc |-> IF Wanted[c].op = "init_workspace" THEN "lookup" ELSE "workspace",
        client |-> c, current |-> NoSnapshot]]
  /\ UNCHANGED <<store, answers, losses>>

(* GetWorkspace: 404 and 410; the row's current snapshot is kept. *)
ReadWorkspace(h) ==
  /\ At(h, "workspace")
  /\ \/ workspace # "open" /\ Reply(h, "refused")
     \/ /\ workspace = "open"
        /\ handlers' = [handlers EXCEPT ![h].current = current,
             ![h].pc = IF For(h).op = "snapshot_create" THEN "lookup" ELSE "snapshot"]
        /\ UNCHANGED <<answers, losses>>
  /\ UNCHANGED store

(* GetSnapshot.  A deleted snapshot: 200 for a drop, 404 for set_current;   *)
(* the current one: 409 for a drop, 200 for set_current.                    *)
ReadSnapshot(h) ==
  LET s    == For(h).body
      drop == For(h).op = "snapshot_drop"
  IN
  /\ At(h, "snapshot")
  /\ \/ s \in deleted /\ Reply(h, IF drop THEN "already" ELSE "refused")
     \/ /\ s \notin deleted /\ handlers[h].current = s
        /\ Reply(h, IF drop THEN "refused" ELSE "already")
     \/ /\ s \notin deleted /\ handlers[h].current # s
        /\ Goto(h, "lookup") /\ UNCHANGED <<answers, losses>>
  /\ UNCHANGED store

AfterLookup(op) == IF op = "init_workspace" THEN "insert_ws" ELSE "insert"

NotFound(h) ==
  /\ Existing(For(h)) = {}
  /\ Goto(h, AfterLookup(For(h).op))
  /\ UNCHANGED <<answers, losses>>

(* Mutant: the hash is not compared. *)
LookupAnyBody(h) ==
  /\ At(h, "lookup")
  /\ \/ \E row \in Existing(For(h)) : Reply(h, row.id)
     \/ NotFound(h)
  /\ UNCHANGED store

(* Mutant: a task with another hash is not found. *)
LookupByHash(h) ==
  /\ At(h, "lookup")
  /\ \/ \E row \in Existing(For(h)) :
          row.hash = HashOf(For(h)) /\ Reply(h, row.id)
     \/ /\ \A row \in Existing(For(h)) : row.hash # HashOf(For(h))
        /\ Goto(h, AfterLookup(For(h).op))
        /\ UNCHANGED <<answers, losses>>
  /\ UNCHANGED store

(* 202 with the task that is there, 409, or the next statement. *)
Lookup(h) ==
  /\ At(h, "lookup")
  /\ \/ \E row \in Existing(For(h)) :
          row.hash = HashOf(For(h)) /\ Reply(h, row.id)
     \/ \E row \in Existing(For(h)) :
          row.hash # HashOf(For(h)) /\ Reply(h, "mismatch")
     \/ NotFound(h)
  /\ UNCHANGED store

(* CreateWorkspace: a row with this wsid makes the INSERT fail. *)
InsertWorkspace(h) ==
  /\ At(h, "insert_ws")
  /\ \/ /\ workspace = "absent" /\ workspace' = "open"
        /\ Goto(h, "insert") /\ UNCHANGED answers
     \/ workspace # "absent" /\ UNCHANGED workspace /\ ServerError(h)
  /\ UNCHANGED <<tasks, deleted, current, losses>>

NewRow(h, id) ==
  [id |-> id, op |-> For(h).op, key |-> For(h).key, hash |-> HashOf(For(h))]
Fresh == {id \in TaskId : \A row \in tasks : row.id # id}

(* NewID: an id that no row has. *)
NewID == CHOOSE id \in Fresh : TRUE

InsertRow(h) ==
  /\ Fresh # {}
  /\ tasks' = tasks \cup {NewRow(h, NewID)}
  /\ Reply(h, NewID)

(* Mutant: the table has no unique index. *)
InsertDuplicate(h) ==
  /\ At(h, "insert")
  /\ InsertRow(h)
  /\ UNCHANGED <<workspace, deleted, current>>

(* CreateTask: the unique index on (wsid, op, idempotency_key) decides.     *)
InsertTask(h) ==
  /\ At(h, "insert")
  /\ \/ Existing(For(h)) = {} /\ InsertRow(h)
     \/ Existing(For(h)) # {} /\ ServerError(h) /\ UNCHANGED <<tasks, losses>>
  /\ UNCHANGED <<workspace, deleted, current>>

-----------------------------------------------------------------------------
(* The workspace moves on: the worker carries out tasks, it is disabled. *)

CarryOut(row) ==
  \/ /\ row.op = "snapshot_drop" /\ row.hash[2] \notin deleted
     /\ deleted' = deleted \cup {row.hash[2]}
     /\ UNCHANGED <<tasks, workspace, current>>
  \/ /\ row.op = "set_current" /\ current # row.hash[2]
     /\ current' = row.hash[2]
     /\ UNCHANGED <<tasks, workspace, deleted>>

Disable ==
  /\ workspace = "open" /\ workspace' = "disabled"
  /\ UNCHANGED <<tasks, deleted, current>>

Elsewhere ==
  /\ Disable \/ \E row \in tasks : CarryOut(row)
  /\ UNCHANGED <<handlers, answers, losses>>

-----------------------------------------------------------------------------
(* Faults besides the lost answer. *)

(* The error of the lookup is discarded: taken for a key nobody has used. *)
LookupFails(h) ==
  /\ Lose
  /\ At(h, "lookup")
  /\ Goto(h, AfterLookup(For(h).op))
  /\ UNCHANGED <<store, answers>>

(* Another statement fails, or the process dies before it. *)
HandlerDies(h) ==
  /\ Lose
  /\ Busy(h)
  /\ ServerError(h)
  /\ UNCHANGED store

-----------------------------------------------------------------------------
Handle(h) ==
  ReadWorkspace(h) \/ ReadSnapshot(h) \/ Lookup(h) \/ InsertWorkspace(h) \/ InsertTask(h)

IdNext ==
  \/ \E c \in Client, h \in Handler : Send(c, h)
  \/ \E h \in Handler : Handle(h) \/ LookupFails(h) \/ HandlerDies(h)
  \/ Elsewhere

IdSpec == IdInit /\ [][IdNext]_idVars

(* A client without an answer sends again, and gets through however busy    *)
(* the others keep the server; an invocation goes on.                       *)
IdFairness ==
  /\ \A c \in Client  : SF_idVars(\E h \in Handler : Send(c, h))
  /\ \A h \in Handler : WF_idVars(Handle(h))

IdFairSpec == IdSpec /\ IdFairness

-----------------------------------------------------------------------------
(* Safety, with every fault. *)

(* However often a request is sent and whichever of its invocations overlap *)
(* or die, it inserts one task; so do two clients that share a key.         *)
OneTaskPerKey ==
  \A r, q \in tasks : r.op = q.op /\ r.key = q.key => r = q

(* A 202 names the one task of its key, and that task does what this very   *)
(* request asked for.                                                       *)
RepliesAreTrue ==
  \A c \in Client : answers[c] \in TaskId => \E row \in tasks :
    /\ row.id = answers[c]
    /\ row.op = Wanted[c].op /\ row.key = Wanted[c].key
    /\ row.hash = HashOf(Wanted[c])

(* A client is told "idempotency key mismatch" only if somebody else has    *)
(* used its key for another request: never because it repeats itself.       *)
MismatchIsTrue ==
  \A c \in Client : answers[c] = "mismatch" =>
    \E d \in Client :
      /\ Wanted[d].op = Wanted[c].op /\ Wanted[d].key = Wanted[c].key
      /\ Wanted[d].body # Wanted[c].body

(* Liveness: every client that sends its request until it is answered is    *)
(* answered, although the loser of a race for the index gets a 500.  Not so *)
(* for init_workspace, whose workspace may exist without its task.          *)
EveryoneIsAnswered ==
  <>(\A c \in Client : Wanted[c].op # "init_workspace" => answers[c] # "none")
=============================================================================
