------------------------------- MODULE Executor -------------------------------
(***************************************************************************)
(* The executor at work on one workspace (internal/executor), file-system   *)
(* call by file-system call.  Workers call it for the tasks of the          *)
(* workspace; nothing serialises the calls, since the advisory lock is      *)
(* released before the call is made.  A call whose answer is lost goes on,  *)
(* while its worker writes FAILED and the task is called again.             *)
(*                                                                          *)
(* Task ids name what a task creates: a snapshot_create task its snapshot,  *)
(* a set_current task its live directory.                                   *)
(***************************************************************************)
EXTENDS Quiesce, Naturals

CONSTANTS
  Task,          \* the tasks of the workspace
  Job,           \* Job[t] = [op, snap], what task t asks for
  Call,          \* calls that may be in progress at once
  MaxAttempts    \* bound: how often a task is called

Op == {"init_workspace", "snapshot_create", "snapshot_drop", "set_current"}

ASSUME TaskAssumption == Task \subseteq Nat \ {0}
ASSUME JobAssumption ==
  \A t \in Task :
    /\ Job[t].op \in Op
    /\ Job[t].op \in {"set_current", "snapshot_drop"} =>
         Job[t].snap \in Task /\ Job[Job[t].snap].op = "snapshot_create"
ASSUME AttemptsAssumption == MaxAttempts \in Nat

VARIABLES
  calls,     \* per call in progress: where it is, its task, its result so far
  answer,    \* per task: what its worker has been told
  attempts,  \* per task: how often it has been called
  link,      \* what `current' points to: a set of at most one target
  tmp,       \* the same of `current.tmp'
  dirs,      \* tasks whose directory exists under live/ or snapshots/
  whole,     \* those of them that juicefs clone has finished
  metas,     \* those that have a .wvs/snapshot.json, their own or the source's
  premature  \* for the properties: snapshots that had one while not whole yet

volume   == <<link, tmp, dirs, whole, metas, premature>>
workers  == <<answer, attempts>>
handshake == <<control, guest>>
execVars == <<calls, workers, volume, handshake>>

Initial == 0         \* live/initial

Pc == { "idle",
        "start",     \* the operation's test whether it has been done already
        "mkdir", "link",                               \* init_workspace
        "remove",                                      \* snapshot_drop
        "source",    \* snapshot_create, set_current: what is to be cloned?
        "quiesce", "assume", "request", "poll",        \* Quiesce
        "clone", "cloning",                            \* juicefs clone
        "meta",                                        \* snapshot_create
        "unlink", "symlink", "rename", "cleanup",      \* SwitchCurrent
        "resume" }   \* the deferred Resume

(* From the first write to control.json until Resume has written to it. *)
AtWork  == {"clone", "cloning", "meta", "unlink", "symlink", "rename", "cleanup", "resume"}
Holding == AtWork \cup {"poll"}
(* A write to control.json may be in progress. *)
Writing == {"assume", "request", "poll", "resume"}

IdleCall == [pc |-> "idle", task |-> 0, src |-> Initial,
             ok |-> FALSE, heard |-> FALSE, lone |-> FALSE]
CallState == [ pc : Pc, task : Task \cup {0},
               src : Task \cup {Initial},   \* what it clones
               ok : BOOLEAN,      \* what it will answer
               heard : BOOLEAN,   \* whether the worker still waits for it
               lone : BOOLEAN ]   \* for the properties: see Quiet
Answer == {"none", "awaited", "ok", "failed"}

ExecutorTypeOK ==
  /\ calls \in [Call -> CallState]
  /\ answer \in [Task -> Answer]
  /\ attempts \in [Task -> Nat]
  /\ link \subseteq Task \cup {Initial} /\ tmp \subseteq Task
  /\ dirs \subseteq Task /\ whole \subseteq dirs /\ metas \subseteq dirs
  /\ premature \subseteq Task
  /\ control \in QuiesceState /\ guest \in GuestState

ExecInit ==
  /\ calls    = [c \in Call |-> IdleCall]
  /\ answer   = [t \in Task |-> "none"]
  /\ attempts = [t \in Task |-> 0]
  /\ link = {} /\ tmp = {} /\ dirs = {} /\ whole = {} /\ metas = {} /\ premature = {}
  /\ QuiesceInit

OpOf(c)   == Job[calls[c].task].op
SnapOf(c) == Job[calls[c].task].snap
InFlight(c) == calls[c].pc # "idle"

-----------------------------------------------------------------------------
(* Calls begin and end. *)

(* A snapshot is dropped or made current only once it has a row. *)
Ready(t) ==
  Job[t].op \in {"set_current", "snapshot_drop"} => answer[Job[t].snap] = "ok"

(* Nobody else is at work and the guest has had time to see the last        *)
(* REQUEST_RESUME: a call that begins now and has the workspace to itself   *)
(* until it ends is lone.                                                   *)
Quiet == /\ \A d \in Call : ~InFlight(d)
         /\ guest # "none" => control # "REQUEST_RESUME"

Start(c, t) ==
  /\ ~InFlight(c)
  /\ answer[t] \in {"none", "failed"} /\ attempts[t] < MaxAttempts
  /\ Ready(t)
  /\ answer'   = [answer EXCEPT ![t] = "awaited"]
  /\ attempts' = [attempts EXCEPT ![t] = @ + 1]
  /\ calls' = [d \in Call |->
       IF d = c THEN [pc |-> "start", task |-> t, src |-> Initial, ok |-> FALSE,
                      heard |-> TRUE, lone |-> Quiet]
                ELSE [calls[d] EXCEPT !.lone = FALSE]]
  /\ UNCHANGED <<volume, handshake>>

At(c, p) == calls[c].pc = p

Goto(c, p) ==
  /\ calls' = [calls EXCEPT ![c].pc = p]
  /\ UNCHANGED workers

(* The result is settled and Resume is what is left. *)
Settle(c, ok) ==
  /\ calls' = [calls EXCEPT ![c].pc = "resume", ![c].ok = ok]
  /\ UNCHANGED workers

(* The answer, if the worker still waits for it. *)
Finish(c, ok) ==
  /\ calls' = [calls EXCEPT ![c] = IdleCall]
  /\ answer' = IF calls[c].heard
       THEN [answer EXCEPT ![calls[c].task] = IF ok THEN "ok" ELSE "failed"]
       ELSE answer
  /\ UNCHANGED attempts

-----------------------------------------------------------------------------
(* What each operation looks at first. *)

(* Mutant: a snapshot is taken to be done when its directory exists. *)
DoneByDirectory(t) ==
  \/ Job[t].op = "init_workspace"  /\ link # {}
  \/ Job[t].op = "snapshot_create" /\ t \in dirs
  \/ Job[t].op = "set_current"     /\ link = {t}
  \/ Job[t].op = "snapshot_drop"   /\ Job[t].snap \notin dirs

(* The idempotency test. *)
Done(t) ==
  \/ Job[t].op = "init_workspace"  /\ link # {}
  \/ Job[t].op = "snapshot_create" /\ t \in metas
  \/ Job[t].op = "set_current"     /\ link = {t}
  \/ Job[t].op = "snapshot_drop"   /\ Job[t].snap \notin dirs

FirstStep(op) ==
  CASE op = "init_workspace" -> "mkdir"
    [] op = "snapshot_drop"  -> "remove"
    [] op \in {"snapshot_create", "set_current"} -> "source"

TestDone(c) ==
  /\ At(c, "start")
  /\ IF Done(calls[c].task) THEN Finish(c, TRUE) ELSE Goto(c, FirstStep(OpOf(c)))
  /\ UNCHANGED <<volume, handshake>>

(* EvalSymlinks of current; the snapshot.  The first is remembered. *)
Source(c) == IF OpOf(c) = "snapshot_create" THEN link ELSE {SnapOf(c)}
There(s)  == s \in dirs \cup {Initial}

FindSource(c) ==
  /\ At(c, "source")
  /\ \/ \E s \in Source(c) :
          /\ There(s)
          /\ calls' = [calls EXCEPT ![c].pc = "quiesce", ![c].src = s]
          /\ UNCHANGED workers
     \/ (\A s \in Source(c) : ~There(s)) /\ Finish(c, FALSE)
  /\ UNCHANGED <<volume, handshake>>

-----------------------------------------------------------------------------
(* init_workspace and snapshot_drop. *)

MakeDirs(c) ==
  /\ At(c, "mkdir")
  /\ Goto(c, "link") \/ Finish(c, FALSE)
  /\ UNCHANGED <<volume, handshake>>

(* Mutant: the link is replaced. *)
LinkInitialAnyway(c) ==
  /\ At(c, "link")
  /\ link' = {Initial} /\ Finish(c, TRUE)
  /\ UNCHANGED <<tmp, dirs, whole, metas, premature, handshake>>

(* symlink(2) fails when the name exists. *)
LinkInitial(c) ==
  /\ At(c, "link")
  /\ \/ link = {} /\ link' = {Initial} /\ Finish(c, TRUE)
     \/ UNCHANGED link /\ Finish(c, FALSE)
  /\ UNCHANGED <<tmp, dirs, whole, metas, premature, handshake>>

(* A directory goes with everything in it. *)
Vanish(t) == dirs' = dirs \ {t} /\ whole' = whole \ {t} /\ metas' = metas \ {t}

(* RemoveAll.  It may fail with a part removed; as nobody looks into a      *)
(* snapshot that is being dropped, its success is one step.                 *)
Remove(c) ==
  /\ At(c, "remove")
  /\ \/ Vanish(SnapOf(c)) /\ Finish(c, TRUE)
     \/ /\ metas' \in {metas, metas \ {SnapOf(c)}}
        /\ whole' = whole \ {SnapOf(c)}
        /\ UNCHANGED dirs
        /\ Finish(c, FALSE)
  /\ UNCHANGED <<link, tmp, premature, handshake>>

-----------------------------------------------------------------------------
(* Quiesce and Resume. *)

(* os.WriteFile truncates before it writes: a reader may find nothing. *)
Readable(c) ==
  {control} \cup IF \E d \in Call \ {c} : calls[d].pc \in Writing THEN {""} ELSE {}

ReadControl(c) ==
  /\ At(c, "quiesce")
  /\ \E s \in Readable(c) : Goto(c, IF NoGuest(s) THEN "assume" ELSE "request")
  /\ UNCHANGED <<volume, handshake>>

(* No active guest is taken to be there: the executor answers for it. *)
AssumeFrozen(c) ==
  /\ At(c, "assume")
  /\ WriteControl("FROZEN") /\ Goto(c, "clone")
  /\ UNCHANGED <<volume, guest>>

RequestFreeze(c) ==
  /\ At(c, "request")
  /\ WriteControl("REQUEST_FREEZE") /\ Goto(c, "poll")
  /\ UNCHANGED <<volume, guest>>

(* Whoever wrote it. *)
Acknowledged(c) ==
  /\ At(c, "poll") /\ control = "FROZEN"
  /\ Goto(c, "clone")
  /\ UNCHANGED <<volume, handshake>>

(* Mutants: fail open; leave the request behind. *)
GiveUpOpen(c) ==
  /\ At(c, "poll")
  /\ Goto(c, "clone")
  /\ UNCHANGED <<volume, handshake>>
GiveUpSilently(c) ==
  /\ At(c, "poll")
  /\ Finish(c, FALSE)
  /\ UNCHANGED <<volume, handshake>>

(* The deadline has passed or the context is done. *)
GiveUp(c) ==
  /\ At(c, "poll")
  /\ WriteControl("REQUEST_RESUME") /\ Finish(c, FALSE)
  /\ UNCHANGED <<volume, guest>>

(* Mutant: a state the protocol does not have. *)
ResumeUnknown(c) ==
  /\ At(c, "resume")
  /\ WriteControl("RESUME") /\ Finish(c, calls[c].ok)
  /\ UNCHANGED <<volume, guest>>

Resume(c) ==
  /\ At(c, "resume")
  /\ WriteControl("REQUEST_RESUME") /\ Finish(c, calls[c].ok)
  /\ UNCHANGED <<volume, guest>>

-----------------------------------------------------------------------------
(* juicefs clone: the destination must not exist, the source must.  A       *)
(* snapshot.json of the source is copied with the rest, early or late; in   *)
(* a live directory nobody looks for it before the clone has ended.         *)

CloneBegins(c) ==
  LET t == calls[c].task IN
  /\ At(c, "clone")
  /\ \/ /\ t \notin dirs /\ There(calls[c].src)
        /\ dirs' = dirs \cup {t}
        /\ \/ UNCHANGED <<metas, premature>>
           \/ /\ OpOf(c) = "snapshot_create" /\ calls[c].src \in metas
              /\ metas' = metas \cup {t} /\ premature' = premature \cup {t}
        /\ Goto(c, "cloning")
     \/ /\ ~(t \notin dirs /\ There(calls[c].src))
        /\ UNCHANGED <<dirs, metas, premature>> /\ Settle(c, FALSE)
  /\ UNCHANGED <<link, tmp, whole, handshake>>

CloneEnds(c) ==
  LET copy == {calls[c].task} \cap dirs IN
  /\ At(c, "cloning")
  /\ whole' = whole \cup copy
  /\ metas' = IF calls[c].src \in metas THEN metas \cup copy ELSE metas
  /\ Goto(c, IF OpOf(c) = "snapshot_create" THEN "meta" ELSE "unlink")
  /\ UNCHANGED <<link, tmp, dirs, premature, handshake>>

(* Mutants: the error of the clone is not looked at; Resume is not deferred. *)
CloneFailsUnnoticed(c) ==
  /\ At(c, "cloning")
  /\ Goto(c, IF OpOf(c) = "snapshot_create" THEN "meta" ELSE "unlink")
  /\ UNCHANGED <<volume, handshake>>
CloneFailsFrozen(c) ==
  /\ At(c, "cloning")
  /\ Finish(c, FALSE)
  /\ UNCHANGED <<volume, handshake>>

(* It leaves a part of the destination, or none. *)
CloneFails(c) ==
  /\ At(c, "cloning")
  /\ Vanish(calls[c].task) \/ UNCHANGED <<dirs, whole, metas>>
  /\ Settle(c, FALSE)
  /\ UNCHANGED <<link, tmp, premature, handshake>>

-----------------------------------------------------------------------------
(* snapshot_create: the metadata makes the snapshot complete.  MkdirAll     *)
(* brings the directory back if somebody has removed it, and os.WriteFile   *)
(* may fail when it has created the file.                                   *)

WriteMeta(c) ==
  /\ At(c, "meta")
  /\ \/ /\ metas' = metas \cup {calls[c].task} /\ dirs' = dirs \cup {calls[c].task}
        /\ \E ok \in BOOLEAN : Settle(c, ok)
     \/ /\ UNCHANGED metas /\ dirs' \in {dirs, dirs \cup {calls[c].task}}
        /\ Settle(c, FALSE)
  /\ UNCHANGED <<link, tmp, whole, premature, handshake>>

-----------------------------------------------------------------------------
(* set_current: SwitchCurrent.  All switches use the one name current.tmp.  *)

RemoveTmp(c) ==
  /\ At(c, "unlink")
  /\ tmp' = {} /\ Goto(c, "symlink")
  /\ UNCHANGED <<link, dirs, whole, metas, premature, handshake>>

MakeTmp(c) ==
  /\ At(c, "symlink")
  /\ \/ tmp = {} /\ tmp' = {calls[c].task} /\ Goto(c, "rename")
     \/ UNCHANGED tmp /\ Settle(c, FALSE)
  /\ UNCHANGED <<link, dirs, whole, metas, premature, handshake>>

(* Whatever current.tmp points to becomes current. *)
Rename(c) ==
  /\ At(c, "rename")
  /\ \/ tmp # {} /\ link' = tmp /\ tmp' = {} /\ Settle(c, TRUE)
     \/ UNCHANGED <<link, tmp>> /\ Goto(c, "cleanup")
  /\ UNCHANGED <<dirs, whole, metas, premature, handshake>>

CleanUp(c) ==
  /\ At(c, "cleanup")
  /\ tmp' = {} /\ Settle(c, FALSE)
  /\ UNCHANGED <<link, dirs, whole, metas, premature, handshake>>

-----------------------------------------------------------------------------
(* Faults. *)

(* The connection breaks: the worker fails the attempt, the call goes on. *)
LoseAnswer(c) ==
  /\ InFlight(c) /\ calls[c].heard
  /\ calls' = [calls EXCEPT ![c].heard = FALSE]
  /\ answer' = [answer EXCEPT ![calls[c].task] = "failed"]
  /\ UNCHANGED <<attempts, volume, handshake>>

(* control.json is not written, or left empty. *)
ControlWriteFails(c) ==
  /\ calls[c].pc \in Writing
  /\ WriteControl(control) \/ WriteControl("")
  /\ Finish(c, At(c, "resume") /\ calls[c].ok)
  /\ UNCHANGED <<volume, guest>>

(* The executor dies with everything it was doing. *)
ExecutorCrash ==
  /\ \E c \in Call : InFlight(c)
  /\ calls' = [c \in Call |-> IdleCall]
  /\ answer' = [t \in Task |-> IF answer[t] = "awaited" THEN "failed" ELSE answer[t]]
  /\ \/ UNCHANGED control
     \/ (\E c \in Call : calls[c].pc \in Writing) /\ WriteControl("")
  /\ \E partly \in SUBSET {SnapOf(c) : c \in {d \in Call : At(d, "remove")}} :
     \E made \in SUBSET {calls[c].task : c \in {d \in Call : At(d, "meta")}} :
     \E written \in SUBSET made :
       /\ dirs'  = dirs \cup made
       /\ metas' = (metas \cup written) \ partly
       /\ whole' = whole \ partly
  /\ UNCHANGED <<attempts, link, tmp, premature, guest>>

-----------------------------------------------------------------------------
CallStep(c) ==
  \/ TestDone(c) \/ FindSource(c) \/ MakeDirs(c) \/ LinkInitial(c) \/ Remove(c)
  \/ ReadControl(c) \/ AssumeFrozen(c) \/ RequestFreeze(c) \/ Acknowledged(c)
  \/ GiveUp(c) \/ Resume(c)
  \/ CloneBegins(c) \/ CloneEnds(c) \/ CloneFails(c) \/ WriteMeta(c)
  \/ RemoveTmp(c) \/ MakeTmp(c) \/ Rename(c) \/ CleanUp(c)

GuestActs == GuestStep /\ UNCHANGED <<calls, workers, volume>>

(* The calls and the guest. *)
Progress == GuestActs \/ \E c \in Call : CallStep(c)

SteadyNext == Progress \/ \E c \in Call, t \in Task : Start(c, t)

ExecNext == SteadyNext \/ ExecutorCrash
            \/ \E c \in Call : LoseAnswer(c) \/ ControlWriteFails(c)

(* Every interleaving and every fault. *)
ExecSpec == ExecInit /\ [][ExecNext]_execVars

(* Every interleaving, calls that time out or fail; the executor does not   *)
(* die, its answers arrive and control.json can be written.                 *)
SteadySpec == ExecInit /\ [][SteadyNext]_execVars

(* The deadline of a poll is among the steps of a call: it ends although    *)
(* the guest does not answer.  That the guest acts is the agent's duty.     *)
ExecFairness == WF_execVars(GuestActs) /\ \A c \in Call : WF_execVars(CallStep(c))

SteadyFairSpec == SteadySpec /\ ExecFairness

(* One call after the other, and the guest always confirms in time. *)
SerialNext ==
  \/ GuestActs
  \/ \E c \in Call : CallStep(c) /\ (At(c, "poll") => Acknowledged(c))
  \/ \E c \in Call, t \in Task : (\A d \in Call : ~InFlight(d)) /\ Start(c, t)
SerialSpec == ExecInit /\ [][SerialNext]_execVars

-----------------------------------------------------------------------------
(* Safety, faults included. *)

(* From the first link on, `current' exists and names a directory whose     *)
(* clone has been completed, however many switches, drops and forgotten     *)
(* calls share current.tmp and the volume.                                  *)
LinkNeverDangles ==
  link \subseteq (dirs \cap whole) \cup {Initial}

(* Once a snapshot is current the workspace never falls back to its initial *)
(* content: not even a forgotten init_workspace call replaces the link.     *)
InitialIsNotRestored ==
  [][link # {} /\ Initial \notin link => link' # {} /\ Initial \notin link']_execVars

(* A worker that was told its snapshot exists inserts the row: whatever     *)
(* calls of the task are still running, the snapshot is complete as long as *)
(* no drop of it has begun, unless snapshot.json was there before the clone *)
(* had ended.  That takes a clone of a snapshot's clone: a set_current has  *)
(* succeeded before.                                                        *)
Undropped(t) ==
  \A d \in Task : Job[d].op = "snapshot_drop" /\ Job[d].snap = t => attempts[d] = 0

SnapshotIsThere ==
  /\ \A t \in Task \ premature :
       Job[t].op = "snapshot_create" /\ answer[t] = "ok" /\ Undropped(t)
         => t \in dirs \cap whole \cap metas
  /\ premature # {} => link # {} /\ Initial \notin link

(* Seen from outside, as ControlPlane does, each step is one of those that  *)
(* WorkspaceFs knows of a call, whoever still waits for its answer, or puts *)
(* a finished live directory of some switch in place; death may make a step *)
(* of several calls at once.                                                *)
Fs == INSTANCE WorkspaceFs

Volume ==
  [ init      |-> link # {},
    current   |-> IF link \subseteq {Initial} THEN 0 ELSE CHOOSE t \in link : TRUE,
    cloned    |-> dirs,
    whole     |-> whole,
    metas     |-> {t \in metas : Job[t].op = "snapshot_create"},
    premature |-> premature ]

VolumeStep(t, f) ==
  \/ f \in Fs!Outlived(t, Job[t], Volume, ~Undropped(t))
  \/ Job[t].op = "set_current" /\ t \in whole /\ f = [Volume EXCEPT !.current = t]

VolumeStepsAreKnown ==
  [][\/ ExecutorCrash \/ UNCHANGED Volume
     \/ \E t \in Task : attempts[t] > 0 /\ VolumeStep(t, Volume')]_execVars

-----------------------------------------------------------------------------
(* Safety and liveness while the executor lives. *)

(* Nobody is left frozen: while the file asks for a freeze or confirms one, *)
(* some call is on its way to the REQUEST_RESUME that ends it, whichever    *)
(* calls overlap and however they fail; and a frozen guest has that request *)
(* before it or to come.                                                    *)
FreezeIsOwed ==
  /\ control \in {"REQUEST_FREEZE", "FROZEN"} => \E c \in Call : calls[c].pc \in Holding
  /\ guest = "frozen" => control \in {"REQUEST_FREEZE", "FROZEN", "REQUEST_RESUME"}

(* A call that has the workspace to itself, and begins when the guest has   *)
(* resumed from the last one, clones and switches while no guest writes,    *)
(* also after calls that timed out or overlapped.                           *)
LoneCallWorksFrozen ==
  \A c \in Call : calls[c].lone /\ calls[c].pc \in AtWork => guest # "writing"

(* A guest that was frozen is let go in the end. *)
GuestIsResumed == guest = "frozen" ~> guest = "writing"

-----------------------------------------------------------------------------
(* What the documents promise and the code does not keep. *)

(* wvs-tech-docs: snapshot and set_current work on a frozen guest only. *)
WorksFrozen == \A c \in Call : calls[c].pc \in AtWork => guest # "writing"

(* wvs-tech-docs: a snapshot_create is done when the directory is there and *)
(* its snapshot.json complete.                                              *)
DoneIsComplete ==
  \A t \in Task :
    Job[t].op = "snapshot_create" /\ answer[t] = "ok" /\ Undropped(t)
      => t \in whole
=============================================================================
