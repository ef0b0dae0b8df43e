---------------------------- MODULE ExecutorProofs ----------------------------
(***************************************************************************)
(* Proofs about Executor, for any number of calls, tasks and attempts.      *)
(* First what holds with every fault: the link, and the snapshots that      *)
(* workers were told of.  Then the handshake, while the executor lives.     *)
(***************************************************************************)
EXTENDS Executor, TLAPS

-----------------------------------------------------------------------------
(* Where a call for an operation can be. *)
Fits(p, op) ==
  \/ p = "start"
  \/ op = "init_workspace" /\ p \in {"mkdir", "link"}
  \/ op = "snapshot_drop" /\ p = "remove"
  \/ op \in {"snapshot_create", "set_current"} /\ p \in
       {"source", "quiesce", "assume", "request", "poll", "clone", "cloning", "resume"}
  \/ op = "snapshot_create" /\ p = "meta"
  \/ op = "set_current" /\ p \in {"unlink", "symlink", "rename", "cleanup"}

CallsFit ==
  \A c \in Call : InFlight(c) =>
    /\ calls[c].task \in Task
    /\ Fits(calls[c].pc, OpOf(c))
    /\ attempts[calls[c].task] > 0

(* Directories that nobody removes: live ones, and snapshots no drop of     *)
(* which has begun.                                                         *)
Spared == {t \in Task : Job[t].op = "set_current" \/ Undropped(t)}

(* A snapshot whose metadata came before the clone had ended promises       *)
(* nothing.                                                                 *)
Kept == Spared \ premature

(* Past the clone. *)
Cloned == {"meta", "unlink", "symlink", "rename"}

(* The clone of a spared directory is the affair of one call, and what that *)
(* call has achieved stays: the whole directory, then the metadata.         *)
CloneOK(c) ==
  calls[c].task \in Spared =>
    /\ At(c, "cloning") =>
         /\ calls[c].task \in dirs /\ calls[c].task \notin whole
         /\ \A d \in Call : d # c /\ At(d, "cloning") => calls[d].task # calls[c].task
    /\ calls[c].pc \in Cloned => calls[c].task \in whole
    /\ /\ At(c, "resume") /\ calls[c].ok /\ OpOf(c) = "snapshot_create"
       /\ calls[c].task \notin premature
       => calls[c].task \in metas

(* Whole live directories: what a link may name. *)
Switched == {t \in whole : Job[t].op = "set_current"}

(* One name, one target; and once it is a snapshot's clone it stays one.    *)
Single(S) == \A x, y \in S : x = y
Restored  == link # {} /\ Initial \notin link

VolumeOK ==
  /\ tmp \subseteq Switched /\ Single(tmp)
  /\ link \subseteq Switched \cup {Initial} /\ Single(link)
  /\ metas \cap Kept \subseteq whole
  /\ premature # {} => Restored

(* What a snapshot_create clones is the initial content, or the workspace   *)
(* has been restored.                                                       *)
SourceOK ==
  \A c \in Call : OpOf(c) = "snapshot_create" /\ calls[c].src # Initial => Restored

AnswersOK ==
  \A t \in Kept : answer[t] = "ok" /\ Job[t].op = "snapshot_create" => t \in metas

ExecInv ==
  /\ ExecutorTypeOK /\ CallsFit /\ VolumeOK /\ SourceOK /\ AnswersOK
  /\ \A c \in Call : CloneOK(c)

-----------------------------------------------------------------------------
(* What the ends of a step do to the calls. *)

LEMMA IdleIsCall == IdleCall \in CallState /\ IdleCall.pc = "idle" /\ IdleCall.task = 0
                  /\ IdleCall.src = Initial
BY DEF IdleCall, CallState, Pc

(* Only call c has moved: it has ended, or is somewhere its operation has.  *)
Moved(c) ==
  /\ calls' \in [Call -> CallState]
  /\ \A d \in Call : d # c => calls'[d] = calls[d]
  /\ attempts' = attempts
  /\ answer' \in [Task -> Answer]
  /\ \/ calls'[c] = IdleCall
     \/ /\ calls'[c].task = calls[c].task /\ Fits(calls'[c].pc, OpOf(c))
        /\ \/ calls'[c].src \in {calls[c].src, Initial}
           \/ OpOf(c) = "set_current"
           \/ Restored

LEMMA GotoIs ==
  ASSUME ExecInv, NEW c \in Call, NEW p \in Pc, Goto(c, p), Fits(p, OpOf(c))
  PROVE  /\ Moved(c)
         /\ calls'[c].pc = p /\ calls'[c].task = calls[c].task
         /\ answer' = answer
<1> DEFINE s == [calls[c] EXCEPT !.pc = p]
<1>1. calls \in [Call -> CallState] /\ answer \in [Task -> Answer]
  BY DEF ExecInv, ExecutorTypeOK
<1>2. s \in CallState /\ s.pc = p /\ s.task = calls[c].task /\ s.src = calls[c].src
  BY <1>1 DEF CallState
<1>3. calls' = [calls EXCEPT ![c] = s] /\ answer' = answer /\ attempts' = attempts
  BY DEF Goto, workers
<1> HIDE DEF s
<1> QED BY <1>1, <1>2, <1>3 DEF Moved

LEMMA SettleIs ==
  ASSUME ExecInv, NEW c \in Call, NEW b \in BOOLEAN, Settle(c, b),
         OpOf(c) \in {"snapshot_create", "set_current"}
  PROVE  /\ Moved(c)
         /\ calls'[c].pc = "resume" /\ calls'[c].ok = b
         /\ calls'[c].task = calls[c].task
         /\ answer' = answer
<1> DEFINE s == [calls[c] EXCEPT !.pc = "resume", !.ok = b]
<1>1. calls \in [Call -> CallState] /\ answer \in [Task -> Answer]
  BY DEF ExecInv, ExecutorTypeOK
<1>2. s \in CallState /\ s.pc = "resume" /\ s.ok = b /\ s.task = calls[c].task
      /\ s.src = calls[c].src
  BY <1>1 DEF CallState, Pc
<1>3. calls' = [calls EXCEPT ![c] = s] /\ answer' = answer /\ attempts' = attempts
  BY <1>1 DEF Settle, workers
<1> HIDE DEF s
<1> QED BY <1>1, <1>2, <1>3 DEF Moved, Fits

LEMMA FinishIs ==
  ASSUME ExecInv, NEW c \in Call, NEW b \in BOOLEAN, Finish(c, b)
  PROVE  /\ Moved(c) /\ calls'[c] = IdleCall
         /\ \A t \in Task : answer'[t] = "ok" =>
              answer[t] = "ok" \/ (b /\ t = calls[c].task)
<1>1. calls \in [Call -> CallState] /\ answer \in [Task -> Answer]
  BY DEF ExecInv, ExecutorTypeOK
<1>2. calls' = [calls EXCEPT ![c] = IdleCall] /\ attempts' = attempts
  BY DEF Finish
<1>3. CASE answer' = answer
  BY <1>1, <1>2, <1>3, IdleIsCall DEF Moved
<1>4. CASE answer' = [answer EXCEPT ![calls[c].task] = IF b THEN "ok" ELSE "failed"]
  BY <1>1, <1>2, <1>4, IdleIsCall DEF Moved, Answer
<1> QED BY <1>3, <1>4 DEF Finish

(* Attempts only grow: fewer directories are spared. *)
LEMMA SparedShrinks ==
  ASSUME ExecInv, \A t \in Task : attempts'[t] = 0 => attempts[t] = 0
  PROVE  Spared' \subseteq Spared
BY DEF Spared, Undropped

LEMMA SparedStays ==
  ASSUME attempts' = attempts
  PROVE  Spared' = Spared
BY DEF Spared, Undropped

-----------------------------------------------------------------------------
(* What a step of call c may do to the volume. *)
Gentle(c) ==
  /\ premature \subseteq premature'
  /\ \A t \in Spared :
       /\ t \in whole => t \in whole'
       /\ t \in whole' => t \in whole \/ (At(c, "cloning") /\ t = calls[c].task)
       /\ t \in dirs /\ ~(At(c, "cloning") /\ t = calls[c].task) => t \in dirs'
  /\ \A t \in Spared \ premature' :
       /\ t \in metas => t \in metas'
       /\ t \in metas' =>
            t \in metas \/ t \in whole' \/ (At(c, "meta") /\ t = calls[c].task)

VolumeTypeOK ==
  /\ link \subseteq Task \cup {Initial} /\ tmp \subseteq Task
  /\ dirs \subseteq Task /\ whole \subseteq dirs /\ metas \subseteq dirs
  /\ premature \subseteq Task
  /\ control \in QuiesceState /\ guest \in GuestState

Linked(c) ==
  /\ tmp' \subseteq tmp \cup (IF At(c, "symlink") THEN {calls[c].task} ELSE {})
  /\ link' \subseteq link \cup tmp \cup {Initial}
  /\ Single(tmp') /\ Single(link')
  /\ Restored => Restored'
  /\ premature' # {} => premature # {} \/ Restored'

(* What it has to have achieved where it is going. *)
Achieved(c) ==
  calls[c].task \in Spared =>
    /\ calls'[c].pc = "cloning" => calls[c].task \notin dirs /\ calls[c].task \in dirs'
    /\ calls'[c].pc \in Cloned => calls[c].task \in whole'
    /\ /\ calls'[c].pc = "resume" /\ calls'[c].ok /\ OpOf(c) = "snapshot_create"
       /\ calls[c].task \notin premature'
       => calls[c].task \in metas'

Told(c) ==
  \A t \in Spared \ premature' : answer'[t] = "ok" /\ Job[t].op = "snapshot_create" =>
    answer[t] = "ok" \/ t \in metas'

LEMMA StepKeeps ==
  ASSUME ExecInv, NEW c \in Call, InFlight(c),
         Moved(c), VolumeTypeOK', Gentle(c), Linked(c), Achieved(c), Told(c)
  PROVE  ExecInv'
<1>1. Spared' = Spared /\ Spared \subseteq Task
  BY SparedStays DEF Moved, Spared
<1>2. /\ calls \in [Call -> CallState] /\ whole \subseteq dirs /\ dirs \subseteq Task
      /\ calls[c].task \in Task /\ Fits(calls[c].pc, OpOf(c))
      /\ attempts[calls[c].task] > 0
  BY DEF ExecInv, ExecutorTypeOK, CallsFit
<1>3. ExecutorTypeOK'
  BY DEF ExecInv, ExecutorTypeOK, VolumeTypeOK, Moved
<1>4. CallsFit'
  <2> SUFFICES ASSUME NEW d \in Call, InFlight(d)'
      PROVE  /\ calls'[d].task \in Task /\ Fits(calls'[d].pc, Job[calls'[d].task].op)
             /\ attempts'[calls'[d].task] > 0
    BY DEF CallsFit, OpOf
  <2>1. CASE d = c
    BY <2>1, <1>2, IdleIsCall DEF Moved, InFlight, OpOf
  <2>2. CASE d # c
    BY <2>2 DEF Moved, InFlight, ExecInv, CallsFit, OpOf
  <2> QED BY <2>1, <2>2
<1>5. ASSUME NEW d \in Call, d # c
      PROVE  CloneOK(d)'
  <2>1. calls'[d] = calls[d]
    BY <1>5 DEF Moved
  <2>2. CloneOK(d)
    BY DEF ExecInv
  <2> SUFFICES ASSUME calls[d].task \in Spared
      PROVE  /\ calls[d].pc = "cloning" =>
                  /\ calls[d].task \in dirs' /\ calls[d].task \notin whole'
                  /\ \A e \in Call : e # d /\ calls'[e].pc = "cloning"
                                     => calls'[e].task # calls[d].task
             /\ calls[d].pc \in Cloned => calls[d].task \in whole'
             /\ /\ calls[d].pc = "resume" /\ calls[d].ok /\ OpOf(d) = "snapshot_create"
                /\ calls[d].task \notin premature'
                => calls[d].task \in metas'
    BY <2>1, <1>1 DEF CloneOK, At, OpOf
  <2>3. CASE calls[d].pc = "cloning"
    <3>1. /\ calls[d].task \in dirs /\ calls[d].task \notin whole
          /\ ~(At(c, "cloning") /\ calls[d].task = calls[c].task)
      BY <2>2, <2>3, <1>5 DEF CloneOK, At
    <3>2. calls[d].task \in dirs' /\ calls[d].task \notin whole'
      BY <3>1 DEF Gentle
    <3>3. ASSUME NEW e \in Call, e # d, calls'[e].pc = "cloning"
          PROVE  calls'[e].task # calls[d].task
      <4>1. CASE e = c
        <5>1. calls'[c].task = calls[c].task
          BY <3>3, <4>1, IdleIsCall DEF Moved
        <5>2. calls[c].task \in Spared => calls[c].task \notin dirs
          BY <3>3, <4>1 DEF Achieved
        <5> QED BY <4>1, <5>1, <5>2, <3>1
      <4>2. CASE e # c
        <5>1. calls'[e] = calls[e]
          BY <4>2 DEF Moved
        <5> QED BY <5>1, <3>3, <2>2, <2>3 DEF CloneOK, At
      <4> QED BY <4>1, <4>2
    <3> QED BY <3>2, <3>3, <2>3 DEF Cloned
  <2>4. CASE calls[d].pc # "cloning"
    BY <2>2, <2>4 DEF CloneOK, Gentle, At
  <2> QED BY <2>3, <2>4
<1>6. CloneOK(c)'
  <2>1. CASE calls'[c] = IdleCall
    BY <2>1, IdleIsCall DEF CloneOK, At, Cloned
  <2>2. CASE calls'[c].task = calls[c].task
    <3> SUFFICES ASSUME calls[c].task \in Spared
        PROVE  /\ calls'[c].pc = "cloning" =>
                    /\ calls[c].task \in dirs' /\ calls[c].task \notin whole'
                    /\ \A e \in Call : e # c /\ calls'[e].pc = "cloning"
                                       => calls'[e].task # calls[c].task
               /\ calls'[c].pc \in Cloned => calls[c].task \in whole'
               /\ /\ calls'[c].pc = "resume" /\ calls'[c].ok /\ OpOf(c) = "snapshot_create"
                  /\ calls[c].task \notin premature'
                  => calls[c].task \in metas'
      BY <2>2, <1>1 DEF CloneOK, At, OpOf
    <3>1. ASSUME calls'[c].pc = "cloning"
          PROVE  /\ calls[c].task \in dirs' /\ calls[c].task \notin whole'
                 /\ \A e \in Call : e # c /\ calls'[e].pc = "cloning"
                                    => calls'[e].task # calls[c].task
      <4>1. calls[c].task \notin dirs /\ calls[c].task \in dirs'
        BY <3>1 DEF Achieved
      <4>2. ~At(c, "cloning")
        BY <4>1 DEF ExecInv, CloneOK
      <4>3. calls[c].task \notin whole'
        BY <4>1, <4>2, <1>2 DEF Gentle
      <4>4. ASSUME NEW e \in Call, e # c, calls'[e].pc = "cloning"
            PROVE  calls'[e].task # calls[c].task
        <5>1. calls'[e] = calls[e] /\ CloneOK(e)
          BY <4>4 DEF Moved, ExecInv
        <5> QED BY <5>1, <4>1, <4>4 DEF CloneOK, At
      <4> QED BY <4>1, <4>3, <4>4
    <3> QED BY <3>1 DEF Achieved
  <2> QED BY <2>1, <2>2 DEF Moved
<1>7. VolumeOK'
  <2>1. Switched \subseteq Switched'
    BY <1>1, <1>2 DEF Switched, Gentle, Spared
  <2>2. At(c, "symlink") => calls[c].task \in Switched
    <3>1. At(c, "symlink") => OpOf(c) = "set_current"
      BY <1>2 DEF Fits, At
    <3> QED BY <3>1, <1>2 DEF At, ExecInv, CloneOK, Cloned, Spared, Switched, OpOf
  <2>3. tmp' \subseteq Switched' /\ link' \subseteq Switched' \cup {Initial}
    BY <2>1, <2>2 DEF Linked, ExecInv, VolumeOK
  <2>4. At(c, "meta") /\ calls[c].task \in Spared => calls[c].task \in whole
    BY DEF ExecInv, CloneOK, At, Cloned
  <2>5. metas' \cap Kept' \subseteq whole'
    BY <1>1, <2>4 DEF Gentle, ExecInv, VolumeOK, Kept
  <2>6. premature' # {} => Restored'
    BY DEF Linked, ExecInv, VolumeOK
  <2> QED BY <2>3, <2>5, <2>6 DEF VolumeOK, Linked
<1>8. SourceOK'
  <2> SUFFICES ASSUME NEW d \in Call, Job[calls'[d].task].op = "snapshot_create",
                      calls'[d].src # Initial
      PROVE  Restored
    BY DEF SourceOK, OpOf, Linked
  <2>1. CASE d = c
    BY <2>1, IdleIsCall DEF Moved, ExecInv, SourceOK, OpOf
  <2>2. CASE d # c
    BY <2>2 DEF Moved, ExecInv, SourceOK, OpOf
  <2> QED BY <2>1, <2>2
<1>9. AnswersOK'
  BY <1>1 DEF AnswersOK, Told, Gentle, ExecInv, Kept
<1> QED BY <1>3, <1>4, <1>5, <1>6, <1>7, <1>8, <1>9 DEF ExecInv

(* A step that leaves the volume alone. *)
LEMMA VolumeStays ==
  ASSUME ExecInv, NEW c \in Call, UNCHANGED volume,
         control' \in QuiesceState, guest' \in GuestState
  PROVE  VolumeTypeOK' /\ Gentle(c) /\ Linked(c)
BY DEF ExecInv, ExecutorTypeOK, VolumeTypeOK, Gentle, Linked, volume, VolumeOK, Single,
       Restored

LEMMA PlainStep ==
  ASSUME ExecInv, NEW c \in Call, InFlight(c), Moved(c), UNCHANGED volume,
         control' \in QuiesceState, guest' \in GuestState,
         calls'[c].pc \notin Cloned \cup {"cloning", "resume"}, Told(c)
  PROVE  ExecInv'
<1>1. Achieved(c)
  BY DEF Achieved
<1> QED BY <1>1, VolumeStays, StepKeeps

LEMMA HandshakeTypes ==
  ASSUME ExecInv
  PROVE  control \in QuiesceState /\ guest \in GuestState
BY DEF ExecInv, ExecutorTypeOK

(* A call that moves on quietly, or ends with an error. *)
LEMMA PlainGoto ==
  ASSUME ExecInv, NEW c \in Call, InFlight(c), NEW p \in Pc, Goto(c, p), Fits(p, OpOf(c)),
         UNCHANGED volume, control' \in QuiesceState, guest' \in GuestState,
         p \notin Cloned \cup {"cloning", "resume"}
  PROVE  ExecInv'
<1>1. Moved(c) /\ calls'[c].pc = p /\ answer' = answer
  BY GotoIs
<1>2. Told(c)
  BY <1>1 DEF Told
<1> QED BY <1>1, <1>2, PlainStep

LEMMA PlainFinish ==
  ASSUME ExecInv, NEW c \in Call, InFlight(c), NEW b \in BOOLEAN, Finish(c, b),
         UNCHANGED volume, control' \in QuiesceState, guest' \in GuestState,
         b /\ OpOf(c) = "snapshot_create" /\ calls[c].task \in Kept
           => calls[c].task \in metas
  PROVE  ExecInv'
<1>1. /\ Moved(c) /\ calls'[c] = IdleCall
      /\ \A t \in Task : answer'[t] = "ok" => answer[t] = "ok" \/ (b /\ t = calls[c].task)
  BY FinishIs
<1>2. Told(c)
  BY <1>1 DEF Told, Spared, Kept, OpOf, volume
<1>3. calls'[c].pc \notin Cloned \cup {"cloning", "resume"}
  BY <1>1, IdleIsCall DEF Cloned
<1> QED BY <1>1, <1>2, <1>3, PlainStep

-----------------------------------------------------------------------------
(* The steps of a call. *)

LEMMA Where ==
  ASSUME ExecInv, NEW c \in Call, InFlight(c)
  PROVE  /\ calls[c] \in CallState /\ calls[c].task \in Task /\ calls[c].ok \in BOOLEAN
         /\ Fits(calls[c].pc, OpOf(c)) /\ OpOf(c) \in Op
         /\ attempts[calls[c].task] \in Nat /\ attempts[calls[c].task] > 0
BY JobAssumption DEF ExecInv, ExecutorTypeOK, CallsFit, OpOf, CallState

(* What a drop removes is a snapshot, and not spared. *)
LEMMA Dropped ==
  ASSUME ExecInv, NEW c \in Call, At(c, "remove")
  PROVE  SnapOf(c) \in Task /\ SnapOf(c) \notin Spared
<1>1. /\ calls[c].task \in Task /\ Fits("remove", OpOf(c))
      /\ attempts[calls[c].task] \in Nat /\ attempts[calls[c].task] > 0
  BY Where DEF At, InFlight
<1>2. OpOf(c) = "snapshot_drop"
  BY <1>1 DEF Fits
<1>3. SnapOf(c) \in Task /\ Job[SnapOf(c)].op = "snapshot_create"
  BY <1>1, <1>2, JobAssumption DEF OpOf, SnapOf
<1> QED BY <1>1, <1>2, <1>3 DEF Spared, Undropped, OpOf, SnapOf

LEMMA KeepsTestDone ==
  ASSUME ExecInv, NEW c \in Call, TestDone(c)
  PROVE  ExecInv'
<1>1. InFlight(c) /\ UNCHANGED volume /\ control' \in QuiesceState /\ guest' \in GuestState
  BY HandshakeTypes DEF TestDone, At, InFlight, handshake
<1>2. CASE Done(calls[c].task) /\ Finish(c, TRUE)
  BY <1>1, <1>2, PlainFinish DEF Done, OpOf
<1>3. CASE Goto(c, FirstStep(OpOf(c)))
  <2>1. /\ FirstStep(OpOf(c)) \in Pc /\ Fits(FirstStep(OpOf(c)), OpOf(c))
        /\ FirstStep(OpOf(c)) \notin Cloned \cup {"cloning", "resume"}
    BY <1>1, Where DEF FirstStep, Op, Pc, Fits, Cloned
  <2> QED BY <1>1, <1>3, <2>1, PlainGoto
<1> QED BY <1>2, <1>3 DEF TestDone

LEMMA KeepsFindSource ==
  ASSUME ExecInv, NEW c \in Call, FindSource(c)
  PROVE  ExecInv'
<1>1. InFlight(c) /\ UNCHANGED volume /\ control' \in QuiesceState /\ guest' \in GuestState
  BY HandshakeTypes DEF FindSource, At, InFlight, handshake
<1>2. CASE /\ UNCHANGED workers
           /\ \E s \in Source(c) :
                There(s) /\ calls' = [calls EXCEPT ![c].pc = "quiesce", ![c].src = s]
  <2> PICK s \in Source(c) :
        There(s) /\ calls' = [calls EXCEPT ![c].pc = "quiesce", ![c].src = s]
    BY <1>2
  <2> DEFINE new == [calls[c] EXCEPT !.pc = "quiesce", !.src = s]
  <2>1. Fits("source", OpOf(c))
    BY <1>1, Where DEF FindSource, At
  <2>2. /\ calls \in [Call -> CallState] /\ answer \in [Task -> Answer]
        /\ s \in Task \cup {Initial}
    BY DEF ExecInv, ExecutorTypeOK, There
  <2>3. new \in CallState /\ new.pc = "quiesce" /\ new.task = calls[c].task /\ new.src = s
    BY <2>2 DEF CallState, Pc
  <2>4. calls' = [calls EXCEPT ![c] = new] /\ answer' = answer /\ attempts' = attempts
    BY <1>2, <2>2 DEF workers
  <2>5. s = Initial \/ OpOf(c) = "set_current" \/ Restored
    BY <2>1 DEF Fits, Source, ExecInv, VolumeOK, Single, Restored
  <2> HIDE DEF new
  <2>6. Moved(c) /\ calls'[c].pc = "quiesce"
    BY <2>1, <2>2, <2>3, <2>4, <2>5 DEF Moved, Fits
  <2>7. Told(c)
    BY <2>4 DEF Told
  <2> QED BY <1>1, <2>6, <2>7, PlainStep DEF Cloned
<1>3. CASE Finish(c, FALSE)
  BY <1>1, <1>3, PlainFinish
<1> QED BY <1>2, <1>3 DEF FindSource

LEMMA KeepsMakeDirs ==
  ASSUME ExecInv, NEW c \in Call, MakeDirs(c)
  PROVE  ExecInv'
<1>1. InFlight(c) /\ UNCHANGED volume /\ control' \in QuiesceState /\ guest' \in GuestState
  BY HandshakeTypes DEF MakeDirs, At, InFlight, handshake
<1>2. CASE Goto(c, "link")
  <2>1. Fits("mkdir", OpOf(c))
    BY <1>1, Where DEF MakeDirs, At
  <2>2. "link" \in Pc /\ Fits("link", OpOf(c))
    BY <2>1 DEF Fits, Pc
  <2> QED BY <1>1, <1>2, <2>2, PlainGoto DEF Cloned
<1>3. CASE Finish(c, FALSE)
  BY <1>1, <1>3, PlainFinish
<1> QED BY <1>2, <1>3 DEF MakeDirs

(* A call that ends, whatever it has done to the volume. *)
LEMMA EndKeeps ==
  ASSUME ExecInv, NEW c \in Call, InFlight(c), NEW b \in BOOLEAN, Finish(c, b),
         VolumeTypeOK', Gentle(c), Linked(c), OpOf(c) # "snapshot_create"
  PROVE  ExecInv'
<1>1. /\ Moved(c) /\ calls'[c] = IdleCall
      /\ \A t \in Task : answer'[t] = "ok" => answer[t] = "ok" \/ (b /\ t = calls[c].task)
  BY FinishIs
<1>2. Told(c)
  BY <1>1 DEF Told, Spared, OpOf
<1>3. Achieved(c)
  BY <1>1, IdleIsCall DEF Achieved, Cloned
<1> QED BY <1>1, <1>2, <1>3, StepKeeps

LEMMA KeepsLinkInitial ==
  ASSUME ExecInv, NEW c \in Call, LinkInitial(c)
  PROVE  ExecInv'
<1>1. InFlight(c) /\ OpOf(c) # "snapshot_create"
  BY Where DEF LinkInitial, At, InFlight, Fits
<1>2. /\ UNCHANGED <<tmp, dirs, whole, metas, premature, control, guest>>
      /\ link' = link \/ (link = {} /\ link' = {Initial})
  BY DEF LinkInitial, handshake
<1>3. VolumeTypeOK' /\ Gentle(c) /\ Linked(c)
  BY <1>2 DEF ExecInv, ExecutorTypeOK, VolumeTypeOK, Gentle, Linked, VolumeOK, Single,
     Restored
<1> QED BY <1>1, <1>3, EndKeeps DEF LinkInitial

LEMMA KeepsRemove ==
  ASSUME ExecInv, NEW c \in Call, Remove(c)
  PROVE  ExecInv'
<1>1. InFlight(c) /\ OpOf(c) # "snapshot_create" /\ At(c, "remove")
  BY Where DEF Remove, At, InFlight, Fits
<1>2. SnapOf(c) \in Task /\ SnapOf(c) \notin Spared
  BY <1>1, Dropped
<1>3. /\ UNCHANGED <<link, tmp, premature, control, guest>>
      /\ dirs' \subseteq dirs /\ dirs \ {SnapOf(c)} \subseteq dirs'
      /\ whole' = whole \ {SnapOf(c)}
      /\ metas' \subseteq metas /\ metas \ {SnapOf(c)} \subseteq metas'
      /\ \/ dirs' = dirs \ {SnapOf(c)} /\ metas' = metas \ {SnapOf(c)}
         \/ dirs' = dirs
  BY DEF Remove, Vanish, handshake
<1>4. VolumeTypeOK'
  BY <1>3 DEF ExecInv, ExecutorTypeOK, VolumeTypeOK
<1>5. Gentle(c) /\ Linked(c)
  BY <1>2, <1>3 DEF Gentle, Linked, ExecInv, VolumeOK, Single, Restored
<1> QED BY <1>1, <1>4, <1>5, EndKeeps DEF Remove

LEMMA KeepsQuiesce ==
  ASSUME ExecInv, NEW c \in Call,
         ReadControl(c) \/ AssumeFrozen(c) \/ RequestFreeze(c) \/ Acknowledged(c)
  PROVE  ExecInv'
<1>1. /\ InFlight(c) /\ UNCHANGED volume /\ control' \in QuiesceState /\ guest' \in GuestState
      /\ calls[c].pc \in {"quiesce", "assume", "request", "poll"}
  BY HandshakeTypes DEF ReadControl, AssumeFrozen, RequestFreeze, Acknowledged, At,
       InFlight, handshake, WriteControl, QuiesceState
<1>2. OpOf(c) \in {"snapshot_create", "set_current"}
  BY <1>1, Where DEF Fits
<1>3. PICK p \in {"assume", "request", "poll", "clone"} : Goto(c, p)
  BY DEF ReadControl, AssumeFrozen, RequestFreeze, Acknowledged
<1>4. p \in Pc /\ Fits(p, OpOf(c)) /\ p \notin Cloned \cup {"cloning", "resume"}
  BY <1>2 DEF Pc, Fits, Cloned
<1> QED BY <1>1, <1>3, <1>4, PlainGoto

LEMMA KeepsGiveUp ==
  ASSUME ExecInv, NEW c \in Call, GiveUp(c)
  PROVE  ExecInv'
<1>1. InFlight(c) /\ UNCHANGED volume /\ control' \in QuiesceState /\ guest' \in GuestState
  BY HandshakeTypes DEF GiveUp, At, InFlight, WriteControl, QuiesceState
<1> QED BY <1>1, PlainFinish DEF GiveUp

LEMMA KeepsResume ==
  ASSUME ExecInv, NEW c \in Call, Resume(c)
  PROVE  ExecInv'
<1>1. /\ InFlight(c) /\ UNCHANGED volume /\ control' \in QuiesceState /\ guest' \in GuestState
      /\ At(c, "resume")
  BY HandshakeTypes DEF Resume, At, InFlight, WriteControl, QuiesceState
<1>2. calls[c].ok \in BOOLEAN /\ Finish(c, calls[c].ok)
  BY <1>1, Where DEF Resume
<1>3. calls[c].ok /\ OpOf(c) = "snapshot_create" /\ calls[c].task \in Kept
        => calls[c].task \in metas
  BY <1>1 DEF ExecInv, CloneOK, Kept
<1> QED BY <1>1, <1>2, <1>3, PlainFinish

-----------------------------------------------------------------------------
(* The steps that clone, complete and switch. *)

LEMMA AnswerKept ==
  ASSUME NEW c \in Call, answer' = answer
  PROVE  Told(c)
BY DEF Told

LEMMA KeepsCloneBegins ==
  ASSUME ExecInv, NEW c \in Call, CloneBegins(c)
  PROVE  ExecInv'
<1>1. InFlight(c) /\ At(c, "clone") /\ OpOf(c) \in {"snapshot_create", "set_current"}
  BY Where DEF CloneBegins, At, InFlight, Fits
<1>2. calls[c].task \in Task
  BY <1>1, Where
<1>3. CASE /\ calls[c].task \notin dirs /\ dirs' = dirs \cup {calls[c].task}
           /\ \/ UNCHANGED <<metas, premature>>
              \/ /\ OpOf(c) = "snapshot_create" /\ calls[c].src \in metas
                 /\ metas' = metas \cup {calls[c].task}
                 /\ premature' = premature \cup {calls[c].task}
           /\ Goto(c, "cloning")
  <2>1. UNCHANGED <<link, tmp, whole, control, guest>>
    BY DEF CloneBegins, handshake
  <2>2. "cloning" \in Pc /\ Fits("cloning", OpOf(c))
    BY <1>1 DEF Pc, Fits
  <2>3. Moved(c) /\ calls'[c].pc = "cloning" /\ answer' = answer
    BY <1>3, <2>2, GotoIs
  <2>4. VolumeTypeOK' /\ Gentle(c)
    BY <1>2, <1>3, <2>1 DEF ExecInv, ExecutorTypeOK, VolumeTypeOK, Gentle
  <2>5. Linked(c)
    <3>1. OpOf(c) = "snapshot_create" /\ calls[c].src \in metas => Restored
      BY TaskAssumption DEF ExecInv, ExecutorTypeOK, SourceOK, Initial
    <3> QED BY <1>3, <2>1, <3>1 DEF Linked, ExecInv, VolumeOK, Single, Restored
  <2>6. Achieved(c)
    BY <1>3, <2>3 DEF Achieved, Cloned
  <2> QED BY <1>1, <2>3, <2>4, <2>5, <2>6, AnswerKept, StepKeeps
<1>4. CASE UNCHANGED <<dirs, metas, premature>> /\ Settle(c, FALSE)
  <2>1. UNCHANGED volume /\ UNCHANGED handshake
    BY <1>4 DEF CloneBegins, volume
  <2>2. control' \in QuiesceState /\ guest' \in GuestState
    BY <2>1, HandshakeTypes DEF handshake
  <2>3. Moved(c) /\ calls'[c].pc = "resume" /\ calls'[c].ok = FALSE /\ answer' = answer
    BY <1>1, <1>4, SettleIs
  <2>4. Achieved(c)
    BY <2>3 DEF Achieved, Cloned
  <2> QED BY <1>1, <2>1, <2>2, <2>3, <2>4, AnswerKept, VolumeStays, StepKeeps
<1> QED BY <1>3, <1>4 DEF CloneBegins

LEMMA KeepsCloneEnds ==
  ASSUME ExecInv, NEW c \in Call, CloneEnds(c)
  PROVE  ExecInv'
<1>1. InFlight(c) /\ At(c, "cloning") /\ OpOf(c) \in {"snapshot_create", "set_current"}
  BY Where DEF CloneEnds, At, InFlight, Fits
<1>2. PICK p \in {"meta", "unlink"} :
        Goto(c, p) /\ (p = "meta" <=> OpOf(c) = "snapshot_create")
  BY <1>1 DEF CloneEnds
<1>3. p \in Pc /\ Fits(p, OpOf(c))
  BY <1>1, <1>2 DEF Pc, Fits
<1>4. Moved(c) /\ calls'[c].pc = p /\ answer' = answer
  BY <1>2, <1>3, GotoIs
<1>5. /\ UNCHANGED <<link, tmp, dirs, premature, control, guest>>
      /\ whole' = whole \cup ({calls[c].task} \cap dirs)
      /\ metas \subseteq metas' /\ metas' \subseteq metas \cup ({calls[c].task} \cap dirs)
  BY DEF CloneEnds, handshake
<1>6. VolumeTypeOK' /\ Gentle(c) /\ Linked(c)
  BY <1>1, <1>5 DEF ExecInv, ExecutorTypeOK, VolumeTypeOK, Gentle, Linked, VolumeOK, Single,
     Restored
<1>7. calls[c].task \in Spared => calls[c].task \in dirs
  BY <1>1 DEF ExecInv, CloneOK
<1>8. Achieved(c)
  BY <1>4, <1>5, <1>7 DEF Achieved
<1> QED BY <1>1, <1>4, <1>6, <1>8, AnswerKept, StepKeeps

(* Nobody else clones the directory, and it is not whole: no link names it. *)
LEMMA KeepsCloneFails ==
  ASSUME ExecInv, NEW c \in Call, CloneFails(c)
  PROVE  ExecInv'
<1>1. InFlight(c) /\ At(c, "cloning") /\ OpOf(c) \in {"snapshot_create", "set_current"}
  BY Where DEF CloneFails, At, InFlight, Fits
<1>2. Moved(c) /\ calls'[c].pc = "resume" /\ calls'[c].ok = FALSE /\ answer' = answer
  BY <1>1, SettleIs DEF CloneFails
<1>3. Achieved(c)
  BY <1>2 DEF Achieved, Cloned
<1>4. UNCHANGED <<link, tmp, premature, control, guest>>
  BY DEF CloneFails, handshake
<1>5. /\ calls[c].task \in Spared => calls[c].task \notin whole
      /\ calls[c].task \in Kept => calls[c].task \notin metas
  BY <1>1 DEF ExecInv, CloneOK, VolumeOK, Kept
<1>6. CASE Vanish(calls[c].task)
  <2>1. VolumeTypeOK'
    BY <1>4, <1>6 DEF Vanish, ExecInv, ExecutorTypeOK, VolumeTypeOK
  <2>2. Gentle(c) /\ Linked(c)
    BY <1>1, <1>4, <1>5, <1>6 DEF Vanish, Gentle, Kept, Linked, ExecInv, VolumeOK, Single,
       Restored
  <2> QED BY <1>1, <1>2, <1>3, <2>1, <2>2, AnswerKept, StepKeeps
<1>7. CASE UNCHANGED <<dirs, whole, metas>>
  <2>1. UNCHANGED volume /\ control' \in QuiesceState /\ guest' \in GuestState
    BY <1>4, <1>7, HandshakeTypes DEF volume
  <2> QED BY <1>1, <1>2, <1>3, <2>1, AnswerKept, VolumeStays, StepKeeps
<1> QED BY <1>6, <1>7 DEF CloneFails

LEMMA KeepsWriteMeta ==
  ASSUME ExecInv, NEW c \in Call, WriteMeta(c)
  PROVE  ExecInv'
<1>1. InFlight(c) /\ At(c, "meta") /\ OpOf(c) = "snapshot_create" /\ calls[c].task \in Task
  BY Where DEF WriteMeta, At, InFlight, Fits
<1>2. PICK b \in BOOLEAN : Settle(c, b) /\ (b => calls[c].task \in metas')
  BY DEF WriteMeta
<1>3. Moved(c) /\ calls'[c].pc = "resume" /\ calls'[c].ok = b /\ answer' = answer
  BY <1>1, <1>2, SettleIs
<1>4. Achieved(c)
  BY <1>2, <1>3 DEF Achieved, Cloned
<1>5. /\ UNCHANGED <<link, tmp, whole, premature, control, guest>>
      /\ dirs \subseteq dirs' /\ dirs' \subseteq dirs \cup {calls[c].task}
      /\ metas \subseteq metas'
      /\ metas' \subseteq metas \cup ({calls[c].task} \cap dirs')
  BY DEF WriteMeta, handshake
<1>6. VolumeTypeOK'
  BY <1>1, <1>5 DEF ExecInv, ExecutorTypeOK, VolumeTypeOK
<1>7. Gentle(c) /\ Linked(c)
  BY <1>1, <1>5 DEF Gentle, Linked, ExecInv, VolumeOK, Single, Restored
<1> QED BY <1>1, <1>3, <1>4, <1>6, <1>7, AnswerKept, StepKeeps

LEMMA KeepsSwitch ==
  ASSUME ExecInv, NEW c \in Call, RemoveTmp(c) \/ MakeTmp(c) \/ Rename(c) \/ CleanUp(c)
  PROVE  ExecInv'
<1>1. /\ InFlight(c) /\ OpOf(c) = "set_current" /\ calls[c].task \in Task
      /\ calls[c].pc \in {"unlink", "symlink", "rename", "cleanup"}
  BY Where DEF RemoveTmp, MakeTmp, Rename, CleanUp, At, InFlight, Fits
<1>2. /\ UNCHANGED <<dirs, whole, metas, premature, control, guest>>
      /\ tmp' \in {{}, tmp} \cup (IF At(c, "symlink") THEN {{calls[c].task}} ELSE {})
      /\ link' = link \/ (tmp # {} /\ link' = tmp)
  BY DEF RemoveTmp, MakeTmp, Rename, CleanUp, handshake
<1>3. VolumeTypeOK' /\ Gentle(c)
  BY <1>1, <1>2 DEF ExecInv, ExecutorTypeOK, VolumeTypeOK, Gentle
<1>0. Linked(c)
  <2>1. Initial \notin tmp
    BY TaskAssumption DEF ExecInv, ExecutorTypeOK, Initial
  <2> QED BY <1>2, <2>1 DEF Linked, ExecInv, VolumeOK, Single, Restored
<1>4. \/ \E p \in {"symlink", "rename", "cleanup"} :
           Goto(c, p) /\ (p = "cleanup" \/ calls[c].pc \in Cloned)
      \/ \E b \in BOOLEAN : Settle(c, b)
  BY DEF RemoveTmp, MakeTmp, Rename, CleanUp, At, Cloned
<1>5. CASE \E p \in {"symlink", "rename", "cleanup"} :
             Goto(c, p) /\ (p = "cleanup" \/ calls[c].pc \in Cloned)
  <2>1. PICK p \in {"symlink", "rename", "cleanup"} :
          Goto(c, p) /\ (p = "cleanup" \/ calls[c].pc \in Cloned)
    BY <1>5
  <2>2. p \in Pc /\ Fits(p, OpOf(c))
    BY <1>1 DEF Pc, Fits
  <2>3. Moved(c) /\ calls'[c].pc = p /\ answer' = answer
    BY <2>1, <2>2, GotoIs
  <2>4. Achieved(c)
    <3>1. calls[c].task \in Spared /\ calls[c].pc \in Cloned => calls[c].task \in whole
      BY DEF ExecInv, CloneOK
    <3> QED BY <2>1, <2>3, <3>1, <1>2 DEF Achieved, Cloned
  <2> QED BY <1>0, <1>1, <1>3, <2>3, <2>4, AnswerKept, StepKeeps
<1>6. CASE \E b \in BOOLEAN : Settle(c, b)
  <2>1. PICK b \in BOOLEAN : Settle(c, b)
    BY <1>6
  <2>2. Moved(c) /\ calls'[c].pc = "resume" /\ answer' = answer
    BY <1>1, <2>1, SettleIs
  <2>3. Achieved(c)
    BY <1>1, <2>2 DEF Achieved, Cloned
  <2> QED BY <1>0, <1>1, <1>3, <2>2, <2>3, AnswerKept, StepKeeps
<1> QED BY <1>4, <1>5, <1>6

LEMMA CallKeeps ==
  ASSUME ExecInv, NEW c \in Call, CallStep(c)
  PROVE  ExecInv'
BY KeepsTestDone, KeepsFindSource, KeepsMakeDirs, KeepsLinkInitial, KeepsRemove,
   KeepsQuiesce, KeepsGiveUp, KeepsResume, KeepsCloneBegins, KeepsCloneEnds,
   KeepsCloneFails, KeepsWriteMeta, KeepsSwitch DEF CallStep

-----------------------------------------------------------------------------
(* The other steps. *)

LEMMA KeepsStart ==
  ASSUME ExecInv, NEW c \in Call, NEW t \in Task, Start(c, t)
  PROVE  ExecInv'
<1> DEFINE new == [pc |-> "start", task |-> t, src |-> Initial, ok |-> FALSE,
                    heard |-> TRUE, lone |-> Quiet]
<1>1. /\ calls \in [Call -> CallState] /\ answer \in [Task -> Answer]
      /\ attempts \in [Task -> Nat]
  BY DEF ExecInv, ExecutorTypeOK
<1>2. new \in CallState /\ new.pc = "start" /\ new.task = t /\ new.src = Initial
  BY DEF CallState, Pc, Quiet
<1>3. calls' = [d \in Call |-> IF d = c THEN new ELSE [calls[d] EXCEPT !.lone = FALSE]]
  BY DEF Start
<1> HIDE DEF new
<1>4. /\ calls' \in [Call -> CallState]
      /\ calls'[c].pc = "start" /\ calls'[c].task = t /\ calls'[c].src = Initial
      /\ \A d \in Call : d # c =>
           /\ calls'[d].pc = calls[d].pc /\ calls'[d].task = calls[d].task
           /\ calls'[d].ok = calls[d].ok /\ calls'[d].src = calls[d].src
  BY <1>1, <1>2, <1>3 DEF CallState
<1>5. /\ answer' = [answer EXCEPT ![t] = "awaited"]
      /\ attempts' = [attempts EXCEPT ![t] = @ + 1]
      /\ UNCHANGED <<link, tmp, dirs, whole, metas, premature, control, guest>>
  BY DEF Start, volume, handshake
<1>6. /\ answer' \in [Task -> Answer] /\ attempts' \in [Task -> Nat]
      /\ attempts'[t] > 0 /\ \A d \in Task : attempts'[d] = 0 => attempts[d] = 0
      /\ \A d \in Task : attempts[d] > 0 => attempts'[d] > 0
      /\ \A d \in Task : answer'[d] = "ok" => answer[d] = "ok"
  BY <1>1, <1>5 DEF Answer
<1>7. Spared' \subseteq Spared /\ Spared \subseteq Task
  BY <1>6, SparedShrinks DEF Spared
<1>8. ExecutorTypeOK'
  BY <1>4, <1>5, <1>6 DEF ExecInv, ExecutorTypeOK
<1>9. CallsFit'
  <2> SUFFICES ASSUME NEW d \in Call, InFlight(d)'
      PROVE  /\ calls'[d].task \in Task /\ Fits(calls'[d].pc, Job[calls'[d].task].op)
             /\ attempts'[calls'[d].task] > 0
    BY DEF CallsFit, OpOf
  <2>1. CASE d = c
    BY <2>1, <1>4, <1>6 DEF Fits
  <2>2. CASE d # c
    BY <2>2, <1>4, <1>6 DEF InFlight, ExecInv, CallsFit, OpOf
  <2> QED BY <2>1, <2>2
<1>10. VolumeOK' /\ AnswersOK' /\ SourceOK'
  <2>1. VolumeOK' /\ AnswersOK'
    BY <1>5, <1>6, <1>7 DEF ExecInv, VolumeOK, Switched, AnswersOK, Kept, Single, Restored
  <2>2. SourceOK'
    BY <1>4, <1>5 DEF ExecInv, SourceOK, OpOf, Restored
  <2> QED BY <2>1, <2>2
<1>11. ASSUME NEW d \in Call PROVE CloneOK(d)'
  <2>1. CASE d = c
    BY <2>1, <1>4 DEF CloneOK, At, Cloned
  <2>2. CASE d # c
    <3>1. CloneOK(d)
      BY DEF ExecInv
    <3>2. /\ calls'[d].pc = calls[d].pc /\ calls'[d].task = calls[d].task
          /\ calls'[d].ok = calls[d].ok
      BY <2>2, <1>4
    <3>3. \A e \in Call : calls'[e].pc = "cloning" =>
            calls[e].pc = "cloning" /\ calls'[e].task = calls[e].task
      BY <1>4
    <3> QED BY <3>1, <3>2, <3>3, <1>5, <1>7 DEF CloneOK, At, Cloned, OpOf
  <2> QED BY <2>1, <2>2
<1> QED BY <1>8, <1>9, <1>10, <1>11 DEF ExecInv

LEMMA KeepsLoseAnswer ==
  ASSUME ExecInv, NEW c \in Call, LoseAnswer(c)
  PROVE  ExecInv'
<1> DEFINE new == [calls[c] EXCEPT !.heard = FALSE]
<1>1. /\ calls \in [Call -> CallState] /\ answer \in [Task -> Answer]
      /\ InFlight(c) /\ calls[c].task \in Task /\ Fits(calls[c].pc, OpOf(c))
  BY Where DEF ExecInv, ExecutorTypeOK, LoseAnswer
<1>2. /\ new \in CallState /\ new.pc = calls[c].pc /\ new.task = calls[c].task
      /\ new.ok = calls[c].ok /\ new.src = calls[c].src
  BY <1>1 DEF CallState
<1>3. /\ calls' = [calls EXCEPT ![c] = new]
      /\ answer' = [answer EXCEPT ![calls[c].task] = "failed"]
      /\ UNCHANGED attempts /\ UNCHANGED volume /\ UNCHANGED handshake
  BY DEF LoseAnswer
<1> HIDE DEF new
<1>4. Moved(c)
  BY <1>1, <1>2, <1>3 DEF Moved, Answer
<1>5. calls'[c].pc = calls[c].pc /\ calls'[c].ok = calls[c].ok
  BY <1>1, <1>2, <1>3
<1>6. \A t \in Task : answer'[t] = "ok" => answer[t] = "ok"
  BY <1>1, <1>3
<1>7. Told(c)
  BY <1>6 DEF Told, Spared, Kept
<1>8. VolumeTypeOK' /\ Linked(c) /\ Gentle(c)
  BY <1>3, HandshakeTypes, VolumeStays DEF handshake
<1>9. CASE calls[c].pc # "cloning"
  <2>1. Achieved(c)
    BY <1>3, <1>5, <1>9 DEF ExecInv, CloneOK, Achieved, At, volume
  <2> QED BY <1>1, <1>4, <1>7, <1>8, <2>1, StepKeeps
<1>10. CASE calls[c].pc = "cloning"
  <2>1. \A d \in Call : /\ calls'[d].pc = calls[d].pc /\ calls'[d].task = calls[d].task
                        /\ calls'[d].ok = calls[d].ok /\ calls'[d].src = calls[d].src
    BY <1>1, <1>2, <1>3
  <2>2. /\ Spared' = Spared /\ Kept' = Kept
        /\ UNCHANGED <<link, tmp, dirs, whole, metas, premature, control, guest, attempts>>
    BY <1>3, SparedStays DEF volume, handshake, Kept
  <2>3. ASSUME NEW d \in Call PROVE CloneOK(d)'
    <3>1. CloneOK(d)
      BY DEF ExecInv
    <3> QED BY <3>1, <2>1, <2>2 DEF CloneOK, At, OpOf, Cloned
  <2>4. ExecutorTypeOK'
    BY <1>4, <2>2 DEF Moved, ExecInv, ExecutorTypeOK
  <2>5. CallsFit'
    BY <2>1, <2>2 DEF ExecInv, CallsFit, InFlight, OpOf
  <2>6. VolumeOK' /\ AnswersOK' /\ SourceOK'
    <3>1. VolumeOK' /\ AnswersOK'
      BY <1>6, <2>2 DEF ExecInv, VolumeOK, Switched, AnswersOK, Spared, Kept, Single, Restored
    <3>2. SourceOK'
      BY <2>1, <2>2 DEF ExecInv, SourceOK, OpOf, Restored
    <3> QED BY <3>1, <3>2
  <2> QED BY <2>3, <2>4, <2>5, <2>6 DEF ExecInv
<1> QED BY <1>9, <1>10

LEMMA KeepsControlWriteFails ==
  ASSUME ExecInv, NEW c \in Call, ControlWriteFails(c)
  PROVE  ExecInv'
<1>1. /\ InFlight(c) /\ UNCHANGED volume /\ control' \in QuiesceState /\ guest' \in GuestState
      /\ Finish(c, At(c, "resume") /\ calls[c].ok)
  BY HandshakeTypes DEF ControlWriteFails, Writing, InFlight, WriteControl, QuiesceState
<1>2. (At(c, "resume") /\ calls[c].ok) \in BOOLEAN
  OBVIOUS
<1>3. At(c, "resume") /\ calls[c].ok /\ OpOf(c) = "snapshot_create" /\ calls[c].task \in Kept
        => calls[c].task \in metas
  BY DEF ExecInv, CloneOK, Kept
<1> QED BY <1>1, <1>2, <1>3, PlainFinish

LEMMA KeepsExecutorCrash ==
  ASSUME ExecInv, ExecutorCrash
  PROVE  ExecInv'
<1>1. PICK partly \in SUBSET {SnapOf(c) : c \in {d \in Call : At(d, "remove")}} :
      \E made \in SUBSET {calls[c].task : c \in {d \in Call : At(d, "meta")}} :
      \E written \in SUBSET made :
        /\ dirs' = dirs \cup made /\ metas' = (metas \cup written) \ partly
        /\ whole' = whole \ partly
  BY DEF ExecutorCrash
<1>0. PICK made \in SUBSET {calls[c].task : c \in {d \in Call : At(d, "meta")}} :
      \E written \in SUBSET made :
        /\ dirs' = dirs \cup made /\ metas' = (metas \cup written) \ partly
        /\ whole' = whole \ partly
  BY <1>1
<1>9. made \subseteq Task /\ made \cap Spared \subseteq whole
  <2> SUFFICES ASSUME NEW c \in Call, At(c, "meta")
      PROVE  calls[c].task \in Task /\ (calls[c].task \in Spared => calls[c].task \in whole)
    BY <1>0
  <2> QED BY Where DEF At, InFlight, ExecInv, CloneOK, Cloned
<1>2. partly \cap Spared = {}
  BY <1>1, Dropped
<1>3. /\ calls' = [c \in Call |-> IdleCall]
      /\ answer' = [t \in Task |-> IF answer[t] = "awaited" THEN "failed" ELSE answer[t]]
      /\ control' = control \/ control' = ""
      /\ UNCHANGED <<attempts, link, tmp, premature, guest>>
  BY DEF ExecutorCrash, WriteControl
<1>4. Spared' = Spared /\ Spared \subseteq Task
  BY <1>3, SparedStays DEF Spared
<1>5. ExecutorTypeOK'
  <2>1. dirs' \subseteq Task /\ whole' \subseteq dirs' /\ metas' \subseteq dirs'
    BY <1>0, <1>9 DEF ExecInv, ExecutorTypeOK
  <2> QED BY <1>3, <2>1, IdleIsCall DEF ExecInv, ExecutorTypeOK, Answer, QuiesceState
<1>6. CallsFit' /\ SourceOK' /\ \A c \in Call : CloneOK(c)'
  BY <1>3, IdleIsCall DEF CallsFit, InFlight, CloneOK, At, Cloned, SourceOK
<1>7. VolumeOK'
  <2>1. Switched \subseteq Switched'
    BY <1>0, <1>2 DEF Switched, Spared, ExecInv, ExecutorTypeOK
  <2>2. metas' \cap Kept' \subseteq whole'
    BY <1>0, <1>2, <1>3, <1>4, <1>9 DEF ExecInv, VolumeOK, Kept
  <2> QED BY <2>1, <2>2, <1>3 DEF ExecInv, VolumeOK, Restored
<1>8. AnswersOK'
  BY <1>0, <1>2, <1>3, <1>4 DEF ExecInv, AnswersOK, Kept
<1> QED BY <1>5, <1>6, <1>7, <1>8 DEF ExecInv

(* The guest, and steps of nobody. *)
LEMMA KeepsElse ==
  ASSUME ExecInv, GuestActs \/ UNCHANGED execVars
  PROVE  ExecInv'
<1>1. UNCHANGED <<calls, answer, attempts, link, tmp, dirs, whole, metas, premature>>
  BY DEF GuestActs, execVars, workers, volume
<1>2. control' \in QuiesceState /\ guest' \in GuestState
  BY HandshakeTypes DEF GuestActs, GuestStep, Freeze, Thaw, WriteControl, QuiesceState,
       GuestState, execVars, handshake
<1>3. Spared' = Spared
  BY <1>1, SparedStays
<1>4. ExecutorTypeOK' /\ CallsFit' /\ VolumeOK' /\ SourceOK' /\ AnswersOK'
  BY <1>1, <1>2, <1>3 DEF ExecInv, ExecutorTypeOK, CallsFit, InFlight, OpOf, VolumeOK,
       Switched, SourceOK, AnswersOK, Kept, Single, Restored
<1>5. \A c \in Call : CloneOK(c)'
  BY <1>1, <1>3 DEF ExecInv, CloneOK, At, OpOf
<1> QED BY <1>4, <1>5 DEF ExecInv

LEMMA InitHolds == ASSUME ExecInit PROVE ExecInv
<1>1. /\ calls = [c \in Call |-> IdleCall] /\ answer = [t \in Task |-> "none"]
      /\ attempts = [t \in Task |-> 0]
      /\ link = {} /\ tmp = {} /\ dirs = {} /\ whole = {} /\ metas = {} /\ premature = {}
      /\ control \in QuiesceState /\ guest \in GuestState
  BY DEF ExecInit, QuiesceInit, QuiesceState, GuestState
<1> QED BY <1>1, IdleIsCall DEF ExecInv, ExecutorTypeOK, CallsFit, InFlight, VolumeOK,
      SourceOK, AnswersOK, Spared, Kept, Single, CloneOK, At, Cloned, Answer

LEMMA StepHolds == ASSUME ExecInv, [ExecNext]_execVars PROVE ExecInv'
BY CallKeeps, KeepsStart, KeepsLoseAnswer, KeepsControlWriteFails, KeepsExecutorCrash,
   KeepsElse DEF ExecNext, SteadyNext, Progress

LEMMA ExecInvHolds == ExecSpec => []ExecInv
<1>1. ExecInit => ExecInv
  BY InitHolds
<1>2. ExecInv /\ [ExecNext]_execVars => ExecInv'
  BY StepHolds
<1> QED BY <1>1, <1>2, PTL DEF ExecSpec

-----------------------------------------------------------------------------
(* What holds with every fault. *)

(* The state of the executor, its calls and the handshake is well formed.   *)
THEOREM ExecutorTypes == ExecSpec => []ExecutorTypeOK
<1>1. ExecInv => ExecutorTypeOK
  BY DEF ExecInv
<1> QED BY <1>1, ExecInvHolds, PTL

(* `current' names live/initial or a live directory whose clone is          *)
(* complete: however many switches share current.tmp (SwitchCurrent), and   *)
(* whatever is forgotten, fails or dies.                                    *)
THEOREM LinkIsSound == ExecSpec => []LinkNeverDangles
<1>1. ExecInv => LinkNeverDangles
  BY DEF ExecInv, ExecutorTypeOK, VolumeOK, Switched, LinkNeverDangles
<1> QED BY <1>1, ExecInvHolds, PTL

(* A snapshot a worker was told of is complete until a drop of it begins,   *)
(* though other calls of its task may be in progress, unless its metadata   *)
(* came with a clone that had not ended; and no metadata comes early as     *)
(* long as nothing has been restored (SnapshotCreate, Clone).               *)
THEOREM SnapshotStays == ExecSpec => []SnapshotIsThere
<1>1. ASSUME ExecInv PROVE SnapshotIsThere
  <2>1. ASSUME NEW t \in Task \ premature, Job[t].op = "snapshot_create", answer[t] = "ok",
               Undropped(t)
        PROVE  t \in dirs \cap whole \cap metas
    <3>1. t \in Kept
      BY <2>1 DEF Spared, Kept
    <3>2. t \in metas
      BY <1>1, <2>1, <3>1 DEF ExecInv, AnswersOK
    <3> QED BY <1>1, <3>1, <3>2 DEF ExecInv, VolumeOK, ExecutorTypeOK
  <2>2. premature # {} => link # {} /\ Initial \notin link
    BY <1>1 DEF ExecInv, VolumeOK, Restored
  <2> QED BY <2>1, <2>2 DEF SnapshotIsThere
<1> QED BY <1>1, ExecInvHolds, PTL

(* No call, late or repeated, takes the workspace from a snapshot back to   *)
(* its initial content (InitWorkspace, SwitchCurrent).                      *)
THEOREM NoWayBack == ExecSpec => InitialIsNotRestored
<1>1. ASSUME ExecInv, [ExecNext]_execVars
      PROVE  [link # {} /\ Initial \notin link => link' # {} /\ Initial \notin link']_execVars
  <2> SUFFICES ASSUME link # {}, Initial \notin link
      PROVE  link' # {} /\ Initial \notin link'
    OBVIOUS
  <2>1. tmp \subseteq Task /\ Initial \notin Task
    BY <1>1, TaskAssumption DEF ExecInv, ExecutorTypeOK, Initial
  <2>2. CASE \E c \in Call : Rename(c) \/ LinkInitial(c)
    BY <2>1, <2>2 DEF Rename, LinkInitial
  <2>3. CASE ~\E c \in Call : Rename(c) \/ LinkInitial(c)
    <3>1. link' = link
      BY <1>1, <2>3 DEF ExecNext, SteadyNext, Progress, CallStep, TestDone, FindSource,
           MakeDirs, Remove, ReadControl, AssumeFrozen, RequestFreeze, Acknowledged, GiveUp,
           Resume, CloneBegins, CloneEnds, CloneFails, WriteMeta, RemoveTmp, MakeTmp,
           CleanUp, GuestActs, Start, LoseAnswer, ControlWriteFails, ExecutorCrash,
           volume, execVars
    <3> QED BY <3>1
  <2> QED BY <2>2, <2>3
<1> QED BY <1>1, ExecInvHolds, PTL DEF ExecSpec, InitialIsNotRestored

-----------------------------------------------------------------------------
(* The handshake, while the executor lives.  FreezeIsOwed is inductive; the *)
(* file is never left empty; and a lone call knows where the guest is.      *)

(* Before anything has been asked of the guest. *)
Early == {"start", "mkdir", "link", "remove", "source", "quiesce", "request"}

Phase(c) ==
  \/ guest = "none"
  \/ calls[c].pc \in Early /\ control = "RUNNING" /\ guest = "writing"
  \/ calls[c].pc = "poll" /\ control = "REQUEST_FREEZE"
  \/ calls[c].pc \in Holding /\ control = "FROZEN" /\ guest = "frozen"

Lone(c) == calls[c].lone /\ InFlight(c)

LoneOK(c) ==
  Lone(c) => (\A d \in Call : d # c => ~InFlight(d)) /\ Phase(c)

SteadyInv ==
  /\ FreezeIsOwed
  /\ guest # "none" => control # ""
  /\ \A c \in Call : LoneOK(c)

(* What a step of call c means to the handshake. *)
Turn(c) ==
  LET p == calls[c].pc    q == calls'[c].pc IN
  \/ p \in Early /\ q \in (Early \ {"request"}) \cup {"idle"} /\ control' = control
  \/ /\ p = "quiesce" /\ control' = control
     /\ \E s \in Readable(c) : q = IF NoGuest(s) THEN "assume" ELSE "request"
  \/ p = "assume"  /\ q = "clone" /\ control' = "FROZEN"
  \/ p = "request" /\ q = "poll"  /\ control' = "REQUEST_FREEZE"
  \/ p = "poll"    /\ q = "clone" /\ control' = "FROZEN" /\ control = "FROZEN"
  \/ p \in {"poll", "resume"} /\ q = "idle" /\ control' = "REQUEST_RESUME"
  \/ p \in AtWork  /\ q \in AtWork /\ control' = control

OnlyMoves(c) ==
  /\ \A d \in Call : d # c => calls'[d] = calls[d]
  /\ calls'[c].pc # "idle" => calls'[c].lone = calls[c].lone

LEMMA GotoMoves ==
  ASSUME ExecInv, NEW c \in Call, NEW p \in Pc, Goto(c, p)
  PROVE  OnlyMoves(c) /\ calls'[c].pc = p
<1>1. calls \in [Call -> CallState] /\ calls' = [calls EXCEPT ![c].pc = p]
  BY DEF ExecInv, ExecutorTypeOK, Goto
<1> QED BY <1>1 DEF CallState, OnlyMoves

LEMMA SettleMoves ==
  ASSUME ExecInv, NEW c \in Call, NEW b \in BOOLEAN, Settle(c, b)
  PROVE  OnlyMoves(c) /\ calls'[c].pc = "resume"
<1>1. calls \in [Call -> CallState] /\ calls' = [calls EXCEPT ![c].pc = "resume", ![c].ok = b]
  BY DEF ExecInv, ExecutorTypeOK, Settle
<1> QED BY <1>1 DEF CallState, OnlyMoves

LEMMA SourceMoves ==
  ASSUME ExecInv, NEW c \in Call, NEW s,
         calls' = [calls EXCEPT ![c].pc = "quiesce", ![c].src = s]
  PROVE  OnlyMoves(c) /\ calls'[c].pc = "quiesce"
BY DEF ExecInv, ExecutorTypeOK, CallState, OnlyMoves

LEMMA FinishMoves ==
  ASSUME ExecInv, NEW c \in Call, NEW b, Finish(c, b)
  PROVE  OnlyMoves(c) /\ calls'[c].pc = "idle"
<1>1. calls \in [Call -> CallState] /\ calls' = [calls EXCEPT ![c] = IdleCall]
  BY DEF ExecInv, ExecutorTypeOK, Finish
<1> QED BY <1>1, IdleIsCall DEF OnlyMoves

LEMMA TurnIs ==
  ASSUME ExecInv, NEW c \in Call, CallStep(c)
  PROVE  OnlyMoves(c) /\ Turn(c) /\ guest' = guest
<1> USE GotoMoves, SettleMoves, FinishMoves
<1>1. CASE TestDone(c)
  <2>1. FirstStep(OpOf(c)) \in {"mkdir", "remove", "source"}
    BY <1>1, Where DEF FirstStep, Op, TestDone, At, InFlight
  <2> QED BY <1>1, <2>1 DEF TestDone, At, Turn, Early, Pc, handshake
<1>2. CASE FindSource(c)
  BY <1>2, SourceMoves DEF FindSource, At, Turn, Early, Pc, handshake
<1>9. CASE MakeDirs(c)
  BY <1>9 DEF MakeDirs, At, Turn, Early, Pc, handshake
<1>3. CASE LinkInitial(c) \/ Remove(c)
  BY <1>3 DEF LinkInitial, Remove, At, Turn, Early, Pc, handshake
<1>4. CASE ReadControl(c)
  BY <1>4 DEF ReadControl, At, Turn, Pc, handshake
<1>5. CASE AssumeFrozen(c) \/ RequestFreeze(c) \/ Acknowledged(c)
  BY <1>5 DEF AssumeFrozen, RequestFreeze, Acknowledged, At, Turn, Pc, handshake, WriteControl
<1>6. CASE GiveUp(c) \/ Resume(c)
  BY <1>6 DEF GiveUp, Resume, At, Turn, WriteControl
<1>7. CASE CloneBegins(c) \/ CloneEnds(c) \/ CloneFails(c) \/ WriteMeta(c)
  BY <1>7 DEF CloneBegins, CloneEnds, CloneFails, WriteMeta, At, Turn, Pc, AtWork, handshake
<1>8. CASE RemoveTmp(c) \/ MakeTmp(c) \/ Rename(c) \/ CleanUp(c)
  BY <1>8 DEF RemoveTmp, MakeTmp, Rename, CleanUp, At, Turn, Pc, AtWork, handshake
<1> QED BY <1>1, <1>2, <1>3, <1>4, <1>5, <1>6, <1>7, <1>8, <1>9 DEF CallStep

LEMMA SteadyCall ==
  ASSUME ExecInv, SteadyInv, NEW c \in Call, CallStep(c)
  PROVE  SteadyInv'
<1>1. OnlyMoves(c) /\ Turn(c) /\ guest' = guest
  BY TurnIs
<1>2. FreezeIsOwed'
  <2>1. control' \in {"REQUEST_FREEZE", "FROZEN"} => \E d \in Call : calls'[d].pc \in Holding
    <3> SUFFICES ASSUME control' \in {"REQUEST_FREEZE", "FROZEN"}
        PROVE  \E d \in Call : calls'[d].pc \in Holding
      OBVIOUS
    <3>1. CASE calls'[c].pc \in Holding
      BY <3>1
    <3>2. CASE calls'[c].pc \notin Holding
      <4>1. control' = control /\ calls[c].pc \notin Holding
        BY <1>1, <3>2 DEF Turn, Holding, AtWork, Early
      <4>2. PICK d \in Call : calls[d].pc \in Holding
        BY <4>1 DEF SteadyInv, FreezeIsOwed
      <4> QED BY <4>1, <4>2, <1>1 DEF OnlyMoves
    <3> QED BY <3>1, <3>2
  <2>2. guest' = "frozen" => control' \in {"REQUEST_FREEZE", "FROZEN", "REQUEST_RESUME"}
    BY <1>1 DEF Turn, SteadyInv, FreezeIsOwed
  <2> QED BY <2>1, <2>2 DEF FreezeIsOwed
<1>3. (guest # "none" => control # "")'
  BY <1>1 DEF Turn, SteadyInv
<1>4. ASSUME NEW d \in Call, Lone(d)'
      PROVE  (\A e \in Call : e # d => ~InFlight(e)') /\ Phase(d)'
  <2>1. d = c
    BY <1>1, <1>4 DEF OnlyMoves, Lone, SteadyInv, LoneOK, InFlight, Turn, Early, AtWork
  <2>2. Lone(c)
    BY <1>1, <1>4, <2>1 DEF OnlyMoves, Lone, InFlight, Turn, Early, AtWork
  <2>3. (\A e \in Call : e # c => ~InFlight(e)) /\ Phase(c)
    BY <2>2 DEF SteadyInv, LoneOK
  <2>4. Readable(c) = {control}
    BY <2>3 DEF Readable, Writing, InFlight
  <2>5. CASE guest = "none"
    BY <2>1, <2>3, <2>5, <1>1 DEF OnlyMoves, InFlight, Phase
  <2>6. CASE guest # "none"
    <3>1. Phase(c)'
      BY <1>1, <1>4, <2>1, <2>3, <2>4, <2>6 DEF Phase, Turn, Early, Holding, AtWork, NoGuest,
         Lone, InFlight
    <3> QED BY <2>1, <2>3, <3>1, <1>1 DEF OnlyMoves, InFlight
  <2> QED BY <2>5, <2>6
<1> QED BY <1>2, <1>3, <1>4 DEF SteadyInv, LoneOK

LEMMA SteadyStart ==
  ASSUME ExecInv, SteadyInv, NEW c \in Call, NEW t \in Task, Start(c, t)
  PROVE  SteadyInv'
<1> DEFINE new == [pc |-> "start", task |-> t, src |-> Initial, ok |-> FALSE,
                    heard |-> TRUE, lone |-> Quiet]
<1>1. /\ ~InFlight(c) /\ UNCHANGED <<control, guest>>
      /\ calls \in [Call -> CallState]
      /\ calls' = [d \in Call |-> IF d = c THEN new ELSE [calls[d] EXCEPT !.lone = FALSE]]
      /\ new.pc = "start" /\ new.lone = Quiet
  BY DEF Start, handshake, ExecInv, ExecutorTypeOK
<1> HIDE DEF new
<1>2. /\ calls'[c].pc = "start" /\ calls'[c].lone = Quiet
      /\ \A d \in Call : d # c => calls'[d].pc = calls[d].pc /\ ~calls'[d].lone
  BY <1>1 DEF CallState
<1>3. FreezeIsOwed'
  <2>1. calls[c].pc \notin Holding
    BY <1>1 DEF InFlight, Holding, AtWork
  <2> QED BY <1>1, <1>2, <2>1 DEF SteadyInv, FreezeIsOwed
<1>4. ASSUME NEW d \in Call, Lone(d)'
      PROVE  (\A e \in Call : e # d => ~InFlight(e)') /\ Phase(d)'
  <2>1. d = c /\ Quiet
    BY <1>2, <1>4 DEF Lone
  <2>2. \A e \in Call : calls[e].pc \notin Holding
    BY <2>1 DEF Quiet, InFlight, Holding, AtWork
  <2>3. guest = "none" \/ (control = "RUNNING" /\ guest = "writing")
    BY <2>1, <2>2, HandshakeTypes DEF SteadyInv, FreezeIsOwed, Quiet, QuiesceState, GuestState
  <2> QED BY <1>1, <1>2, <2>1, <2>3 DEF Quiet, InFlight, Phase, Early
<1> QED BY <1>1, <1>3, <1>4 DEF SteadyInv, LoneOK

LEMMA SteadyElse ==
  ASSUME ExecInv, SteadyInv, GuestActs \/ UNCHANGED execVars
  PROVE  SteadyInv'
<1>1. calls' = calls
  BY DEF GuestActs, execVars
<1>2. CASE UNCHANGED execVars
  BY <1>1, <1>2 DEF execVars, handshake, SteadyInv, FreezeIsOwed, LoneOK, Lone, InFlight, Phase
<1>3. CASE GuestActs /\ Freeze
  BY <1>1, <1>3 DEF Freeze, WriteControl, SteadyInv, FreezeIsOwed, LoneOK, Lone, InFlight, Phase,
     Holding
<1>4. CASE GuestActs /\ Thaw
  BY <1>1, <1>4 DEF Thaw, WriteControl, SteadyInv, FreezeIsOwed, LoneOK, Lone, InFlight, Phase
<1> QED BY <1>2, <1>3, <1>4 DEF GuestActs, GuestStep

LEMMA SteadyInitHolds == ASSUME ExecInit PROVE SteadyInv
BY IdleIsCall DEF ExecInit, QuiesceInit, SteadyInv, FreezeIsOwed, LoneOK, Lone, InFlight

LEMMA SteadyInvHolds == SteadySpec => []SteadyInv
<1>1. SteadyNext => ExecNext
  BY DEF ExecNext
<1>2. ExecInit => SteadyInv
  BY SteadyInitHolds
<1>3. ExecInv /\ SteadyInv /\ [SteadyNext]_execVars => SteadyInv'
  BY SteadyCall, SteadyStart, SteadyElse DEF SteadyNext, Progress
<1> QED BY <1>1, <1>2, <1>3, ExecInvHolds, PTL DEF SteadySpec, ExecSpec

(* As long as the executor lives, a freeze that has been asked for or       *)
(* confirmed has a call that will end it (GiveUp, the deferred Resume).     *)
THEOREM FreezeIsAlwaysOwed == SteadySpec => []FreezeIsOwed
<1>1. SteadyInv => FreezeIsOwed
  BY DEF SteadyInv
<1> QED BY <1>1, SteadyInvHolds, PTL

(* Quiesce keeps its promise to a call that has the workspace to itself.    *)
THEOREM LoneCallIsSafe == SteadySpec => []LoneCallWorksFrozen
<1>1. SteadyInv => LoneCallWorksFrozen
  BY DEF SteadyInv, LoneOK, Lone, InFlight, Phase, LoneCallWorksFrozen, AtWork, Early
<1> QED BY <1>1, SteadyInvHolds, PTL
=============================================================================
