-------------------------- MODULE MissionExecution --------------------------
(***************************************************************************)
(* One durable mission executed by several workers (LocalMissionWorker over *)
(* MissionControllerService), each in its own process, with an operator, a  *)
(* store that may fail, crashes, and lease renewals that may arrive late.   *)
(*                                                                         *)
(* A step is what the code does between two awaits that reach the store:    *)
(* `doc` is the authoritative row and `att[w]` the local variables of w's   *)
(* tick.  Reads answer from a process-local mirror that is as old as the    *)
(* process's last store call.  Such a read is a read of the row that        *)
(* happened earlier, so reads see `doc` and any number of other steps may   *)
(* pass before the next step of w.                                          *)
(*                                                                         *)
(* A conditional whole-document write compares a snapshot (state, history   *)
(* and activity lengths, update instant, every lease) with the row.  Every  *)
(* committed change moves one of them, so `base` records who derived a      *)
(* pending write from the row as it is now.                                 *)
(***************************************************************************)
EXTENDS MissionDocument

CONSTANTS
    Workers,
    Operator,         \* whoever issues commands: an operator or the watchdog
    TokensOf,         \* TokensOf[w]: the fencing tokens w may draw
    RepoDerived,      \* objectives the repository inspection may find stale
    Commands,         \* commands the operator and the watchdog may issue
    Failures,         \* how an execution may end without a verified result
    Attempts,         \* persistenceAttempts of the durability barrier
    MaxCommands, MaxCrashes, MaxFaults    \* bounds of the checked instance

FailureKinds == {"RETRY", "REVISE", "FAILED", "APPROVAL", "PROVIDER"}
CommandKinds == {"START", "PAUSE", "RESUME", "UNBLOCK", "PROVIDER_AVAILABLE",
                 "APPROVE", "CANCEL", "REJECT_APPROVAL", "BLOCK", "RESUME_CHECKPOINT"}

ASSUME WorkersAssumption     == IsFiniteSet(Workers) /\ Operator \notin Workers
ASSUME DrawAssumption        == /\ TokensOf \in [Workers -> SUBSET Tokens]
                                /\ \A v, w \in Workers : v # w => TokensOf[v] \cap TokensOf[w] = {}
ASSUME RepoDerivedAssumption == RepoDerived \subseteq Objectives
ASSUME CommandsAssumption    == Commands \subseteq CommandKinds
ASSUME FailuresAssumption    == Failures \subseteq FailureKinds
ASSUME NoObjective           == 0 \notin Objectives
ASSUME BoundsAssumption      == /\ Attempts \in Nat \ {0}
                                /\ MaxCommands \in Nat
                                /\ MaxCrashes \in Nat
                                /\ MaxFaults \in Nat

VARIABLES
    doc,       \* the mission row
    base,      \* those whose pending conditional write was derived from `doc`
    wire,      \* wire[o]: age of the renewal under way for o's recorded lease, or NotSent
    att,       \* att[w]: the local state of w's tick
    op,        \* the operator's command under way
    witness,   \* witness[o]: the checkpoint of o that promotes it most easily
    spent      \* commands, crashes and faults used so far (bounds only)

vars == <<doc, base, wire, att, op, witness, spent>>
row  == <<doc, base, wire>>

----------------------------------------------------------------------------
NotSent == -1

Plans == {"", "HEALED", "VERIFIED", "COMPLETE", "FAIL", "FAIL_BUDGET", "BLOCK"} \cup FailureKinds

PCs == {"idle", "healing", "skipping", "resuming", "ready", "waiting", "closing",
        "acquiring", "starting", "executing", "evidence", "verifying", "witnessing",
        "publishing", "holding", "noting"}

\* pcs of an attempt that passed the start barrier
Executing == {"executing", "evidence", "verifying", "witnessing", "publishing"}

Changes == Objectives \X ObjectiveStates

AttemptType ==
    [pc : PCs, obj : Objectives \cup {0}, tok : Tokens \cup {NoToken}, age : 0 .. MaxAge,
     todo : SUBSET Changes, plan : Plans, use : UsageType, held : MissionStates,
     tries : 0 .. Attempts]

NoAttempt ==
    [pc |-> "idle", obj |-> 0, tok |-> NoToken, age |-> 0, todo |-> {}, plan |-> "",
     use |-> NewMission.usage, held |-> "CREATED", tries |-> 0]

CommandType == [pc   : {"idle", "first", "second", "restoring", "holding"},
                cmd  : CommandKinds \cup {"", "COMPLETE"},
                held : MissionStates, obj : Objectives \cup {0}]

NoCommand == [pc |-> "idle", cmd |-> "", held |-> "CREATED", obj |-> 0]

\* No checkpoint; one of an attempt that verified nothing; a VERIFIED one older than
\* the recorded lease, or newer and saved by another attempt than the lease's owner,
\* or by the owner.
Checkpoints == {"none", "unverified", "older", "late", "own"}

TypeOK ==
    /\ doc \in DocType
    /\ base \subseteq Workers \cup {Operator}
    /\ wire \in [Objectives -> NotSent .. MaxAge]
    /\ att \in [Workers -> AttemptType]
    /\ op \in CommandType
    /\ witness \in [Objectives -> Checkpoints]
    /\ spent \in [commands : 0 .. MaxCommands, crashes : 0 .. MaxCrashes, faults : 0 .. MaxFaults]

Init ==
    /\ doc   = NewMission
    /\ base  = {}
    /\ wire  = [o \in Objectives |-> NotSent]
    /\ att   = [w \in Workers |-> NoAttempt]
    /\ op    = NoCommand
    /\ witness = [o \in Objectives |-> "none"]
    /\ spent = [commands |-> 0, crashes |-> 0, faults |-> 0]

\* Fencing tokens are random UUIDs: no token is drawn twice.
Recorded == { doc.objs[o].token : o \in Objectives }
Fresh(w) == TokensOf[w] \ (Recorded \cup { att[v].tok : v \in Workers })

At(w, pc)   == att[w].pc = pc
Goto(w, a)  == att' = [att EXCEPT ![w] = a]
EndTick(w)  == Goto(w, NoAttempt)
Runnable(m) == m.state \in {"RUNNING", "CREATED"}
Holds(w)    == Owns(doc, att[w].obj, att[w].tok)

\* A committed write moves the row on: whatever was derived from the old row is
\* stale, and a renewal under way for a lease that was let go will be refused.
Commit(d) ==
    /\ doc'  = d
    /\ base' = {}
    /\ wire' = [o \in Objectives |->
                  IF d.objs[o].token = doc.objs[o].token THEN wire[o] ELSE NotSent]

Refuse(p)          == doc' = doc /\ base' = base \ {p} /\ wire' = wire
Write(p, allow, d) == IF allow THEN Commit(d) ELSE Refuse(p)
Derive(p)          == doc' = doc /\ base' = base \cup {p} /\ wire' = wire

Open(m)      == { o \in Objectives : m.objs[o].state \in {"PENDING", "READY"} }
FirstOpen(m) == { o \in Open(m) : \A p \in Open(m) : o <= p }

\* Checkpoints are kept where somebody resumes from them, their only reader.
Resumable == "RESUME_CHECKPOINT" \in Commands

\* The best-effort checkpoint of an attempt that verified nothing.
Checkpoint(S) ==
    witness' = [o \in Objectives |-> IF Resumable /\ o \in S /\ witness[o] = "none"
                                     THEN "unverified" ELSE witness[o]]

\* The checkpoint of a VERIFIED objective, saved before the publication.
Witness(w) ==
    witness' = [witness EXCEPT ![att[w].obj] = IF ~Resumable THEN @
                                               ELSE IF Holds(w) \/ @ = "own" THEN "own" ELSE "late"]

\* A new lease is newer than every checkpoint, except for those saved since its
\* acquisition read the clock.
Outdate(o, age) ==
    \E kind \in IF witness[o] \notin {"late", "own"} THEN {witness[o]}
                ELSE IF age = 0 THEN {"older"} ELSE {"older", "late"} :
        witness' = [witness EXCEPT ![o] = kind]

----------------------------------------------------------------------------
(* recoverMission: heal expired leases, skip stale objectives, resume.      *)

BeginRecovery(w) ==
    /\ At(w, "idle")
    /\ doc.state \notin Final
    /\ Abandoned(doc) # {}
    /\ Goto(w, [NoAttempt EXCEPT !.pc = "healing", !.todo = Abandoned(doc) \X {"RUNNING"}])
    /\ UNCHANGED <<row, op, witness, spent>>

\* releaseExpiredObjectiveLease, with the clock recoverMission read first.
HealNext(w) ==
    /\ At(w, "healing")
    /\ \E c \in att[w].todo :
         LET heals == CanHeal(doc, c[1], att[w].age) IN
         /\ Write(w, heals, Heal(doc, c[1]))
         /\ Goto(w, [att[w] EXCEPT !.todo = @ \ {c}, !.plan = IF heals THEN "HEALED" ELSE @])
    /\ UNCHANGED <<op, witness, spent>>

\* The repository inspection reports some objectives stale, the provider check an
\* availability; a resume returns before the stale ones are published.
Inspect(w) ==
    LET open == RepoDerived \cap Open(doc) IN
    /\ \/ At(w, "idle") /\ doc.state \notin Final /\ Abandoned(doc) = {}
       \/ At(w, "healing") /\ att[w].todo = {}
    /\ \/ \E S \in SUBSET open :
            /\ Goto(w, IF S # {} \/ att[w].plan = "HEALED"
                       THEN [NoAttempt EXCEPT !.pc = "skipping",
                                              !.todo = { <<o, doc.objs[o].state>> : o \in S }]
                       ELSE [NoAttempt EXCEPT !.pc = IF Runnable(doc) THEN "ready" ELSE "idle"])
            /\ UNCHANGED row
       \/ /\ doc.state = "WAITING_FOR_PROVIDER"
          /\ Goto(w, [NoAttempt EXCEPT !.pc = "resuming", !.age = att[w].age])
          /\ Derive(w)
    /\ UNCHANGED <<op, witness, spent>>

\* applyRecoveryChanges and its activity; the worker goes on only with a RUNNING
\* or CREATED mission.
PublishRecovery(w) ==
    /\ At(w, "skipping")
    /\ Write(w, doc.state \notin Final, Skip(doc, att[w].todo))
    /\ Goto(w, [NoAttempt EXCEPT !.pc = IF Runnable(doc) THEN "ready" ELSE "idle"])
    /\ UNCHANGED <<op, witness, spent>>

\* applyCommand PROVIDER_AVAILABLE: a conditional document write, re-derived once.
\* The first one counts an activity event recorded locally, so it is refused
\* unless the bounded trail was full.
ResumeProvider(w) ==
    LET resume == doc.state = "WAITING_FOR_PROVIDER"
        goOn(m) == [NoAttempt EXCEPT !.pc = IF Runnable(m) THEN "ready" ELSE "idle"]
    IN  /\ At(w, "resuming")
        /\ \/ /\ w \in base
              /\ Commit([doc EXCEPT !.state = "RUNNING"])
              /\ Goto(w, goOn(doc'))
           \/ /\ att[w].tries = 0
              /\ resume
              /\ ~HasLiveLease(doc, att[w].age)
              /\ Derive(w)
              /\ Goto(w, [att[w] EXCEPT !.tries = 1])
           \/ /\ w \in base => att[w].tries = 0
              /\ att[w].tries = 0 => ~resume \/ HasLiveLease(doc, att[w].age)
              /\ Refuse(w)
              /\ Goto(w, goOn(doc))
        /\ UNCHANGED <<op, witness, spent>>

----------------------------------------------------------------------------
(* runNextObjective up to the acquisition.                                  *)

\* The first RUNNING objective holds a live lease: another owner is at work.
FirstRunningIsLive(m) ==
    \E o \in Objectives : /\ m.objs[o].state = "RUNNING"
                          /\ LeaseLive(m.objs[o], 0)
                          /\ \A p \in Objectives : p < o => m.objs[p].state # "RUNNING"

\* The terminal or BLOCK decision on a mission with nothing to select.  A
\* decision the transition table does not allow (of a CREATED mission) throws.
Close(m, plan, cmd) ==
    IF CanTransition(m.state, cmd)
    THEN [NoAttempt EXCEPT !.pc = "closing", !.plan = plan, !.held = m.state]
    ELSE NoAttempt

\* Mutant: a mission whose objectives are all settled is complete.
ConcludeComplete(m) ==
    IF AllSettled(m) THEN Close(m, "COMPLETE", "COMPLETE") ELSE Close(m, "BLOCK", "BLOCK")

Conclude(m) ==
    CASE ~AllSettled(m)                                  -> Close(m, "BLOCK", "BLOCK")
      [] AllSettled(m) /\ AnyFailed(m) /\ ~AnyVerified(m) -> Close(m, "FAIL", "FAIL")
      [] OTHER                                           -> Close(m, "COMPLETE", "COMPLETE")

\* The loop and the API call runNextObjective without a recovery pass of their
\* own: for them the pass is one that found nothing to do, some time earlier.
LoadMission(w) ==
    /\ At(w, "ready")
    /\ \/ /\ ~Runnable(doc) \/ FirstRunningIsLive(doc)
          /\ EndTick(w)
       \/ /\ Runnable(doc) /\ ~FirstRunningIsLive(doc)
          /\ "PROVIDER" \in Failures                 \* no capable provider
          /\ Goto(w, [NoAttempt EXCEPT !.pc = "waiting", !.held = doc.state])
       \/ /\ Runnable(doc) /\ ~FirstRunningIsLive(doc)
          /\ Selectable(doc) = {}
          /\ Goto(w, Conclude(doc))
       \/ /\ Runnable(doc) /\ ~FirstRunningIsLive(doc)
          /\ Selectable(doc) # {}
          /\ BudgetExhausted(doc.usage)
          /\ Goto(w, Close(doc, "FAIL_BUDGET", "FAIL"))
       \/ /\ Runnable(doc) /\ ~FirstRunningIsLive(doc)
          /\ ~BudgetExhausted(doc.usage)
          /\ Fresh(w) # {}
          /\ \E o \in Selected(doc) :
               Goto(w, [NoAttempt EXCEPT !.pc  = "acquiring", !.obj = o,
                                         !.tok = CHOOSE t \in Fresh(w) : TRUE])
    /\ IF att'[w].plan = "BLOCK" THEN Derive(w) ELSE UNCHANGED row
    /\ Checkpoint(IF att'[w].pc = "waiting" THEN FirstOpen(doc) ELSE {})
    /\ UNCHANGED <<op, spent>>

\* patchMission to WAITING_FOR_PROVIDER, whatever RUNNING or CREATED state was loaded.
WaitForProvider(w) ==
    /\ At(w, "waiting")
    /\ Write(w, doc.state = att[w].held, [doc EXCEPT !.state = "WAITING_FOR_PROVIDER"])
    /\ EndTick(w)
    /\ UNCHANGED <<op, witness, spent>>

\* COMPLETE and FAIL are mission-level patches guarded by the state read.
ClosingAllowed(a) ==
    /\ doc.state = a.held
    /\ a.plan = "COMPLETE" => Idle(doc)
    /\ a.plan = "FAIL_BUDGET" => NoLiveLease(doc, a.age)

Closed(a) == [doc EXCEPT !.state = IF a.plan = "COMPLETE" THEN "COMPLETED" ELSE "FAILED"]

CloseMission(w) ==
    /\ At(w, "closing")
    /\ att[w].plan \in {"COMPLETE", "FAIL", "FAIL_BUDGET"}
    /\ Write(w, ClosingAllowed(att[w]), Closed(att[w]))
    /\ EndTick(w)
    /\ UNCHANGED <<op, witness, spent>>

\* BLOCK is a conditional document write, re-derived once on the fresh record
\* unless that record holds a live lease.
BlockMission(w) ==
    /\ At(w, "closing")
    /\ att[w].plan = "BLOCK"
    /\ IF /\ w \notin base
          /\ att[w].tries = 0
          /\ ~HasLiveLease(doc, att[w].age)
          /\ CanTransition(doc.state, "BLOCK")
       THEN Derive(w) /\ Goto(w, [att[w] EXCEPT !.tries = 1])
       ELSE Write(w, w \in base, [doc EXCEPT !.state = "BLOCKED"]) /\ EndTick(w)
    /\ UNCHANGED <<op, witness, spent>>

\* The baseline of the start barrier is captured from the acquired document.
AcquireObjectiveLease(w) ==
    LET a == att[w] IN
    /\ At(w, "acquiring")
    /\ IF CanAcquire(doc, a.obj, a.age)
       THEN /\ doc'  = Acquire(doc, a.obj, a.tok, a.age)
            /\ base' = {w}
            /\ wire' = [wire EXCEPT ![a.obj] = NotSent]
            /\ Outdate(a.obj, a.age)
            /\ Goto(w, [a EXCEPT !.pc = "starting", !.age = 0, !.held = doc.state])
       ELSE Refuse(w) /\ EndTick(w) /\ UNCHANGED witness
    /\ UNCHANGED <<op, spent>>

----------------------------------------------------------------------------
(* The attempt: start barrier, execution, verification, publication.        *)

\* The start barrier replaces the whole document if the row still is the
\* acquired one; a re-attempt consumes a replan.  The retry of a write that did
\* commit finds the record moved.
Started(o) ==
    IF doc.objs[o].retries > 0 THEN [doc EXCEPT !.usage.replans = @ + 1] ELSE doc

StartObjective(w) ==
    /\ At(w, "starting")
    /\ Write(w, w \in base, Started(att[w].obj))
    /\ IF w \in base
       THEN Goto(w, [att[w] EXCEPT !.pc = "executing", !.use = doc'.usage, !.tries = 0])
       ELSE EndTick(w)
    /\ UNCHANGED <<op, witness, spent>>

\* The ownership gate refused, or a result was: only an activity event is left to append.
Note(w) == Goto(w, [NoAttempt EXCEPT !.pc = "noting", !.obj = att[w].obj, !.tok = att[w].tok])

\* Ownership gate before the executor runs, then its outcome: a trace to
\* publish as evidence, no trace, or a provider failure that holds the mission.
ExecuteObjective(w) ==
    /\ At(w, "executing")
    /\ \/ Holds(w) /\ \E next \in {"evidence", "verifying"} : Goto(w, [att[w] EXCEPT !.pc = next])
       \/ /\ "PROVIDER" \in Failures
          /\ Goto(w, [att[w] EXCEPT !.pc = "publishing", !.plan = "PROVIDER"])
       \/ ~Holds(w) /\ Note(w)
    /\ Checkpoint(IF att'[w].pc = "publishing" THEN {att[w].obj} ELSE {})
    /\ UNCHANGED <<row, op, spent>>

\* The result of an execution, its effect on the local usage, and the local
\* mission state an approval hold leaves behind.
Outcome(a, plan) ==
    [a EXCEPT !.pc = IF plan = "VERIFIED" THEN "witnessing" ELSE "publishing", !.plan = plan,
              !.held = IF plan = "APPROVAL" THEN "WAITING_FOR_APPROVAL" ELSE @,
              !.use  = [completed |-> @.completed + (IF plan = "VERIFIED" THEN 1 ELSE 0),
                        failed    |-> @.failed + (IF plan \in {"RETRY", "REVISE", "FAILED"}
                                                  THEN 1 ELSE 0),
                        retries   |-> @.retries + (IF plan \in {"RETRY", "REVISE"} THEN 1 ELSE 0),
                        replans   |-> @.replans + (IF plan = "REVISE" THEN 1 ELSE 0)]]

\* Mutant: the retry budget compared with <=.
CanRecoverOnceMore(a) == doc.objs[a.obj].retries <= MaxRetries /\ a.use.replans < MaxReplans

CanRecover(a) == doc.objs[a.obj].retries < MaxRetries /\ a.use.replans < MaxReplans

\* Ownership gate before verification, then the verdict.
VerifyObjective(w) ==
    /\ At(w, "verifying")
    /\ \/ /\ Holds(w)
          /\ \E plan \in {"VERIFIED"} \cup (Failures \ {"PROVIDER"}) :
               /\ plan \in {"RETRY", "REVISE"} => CanRecover(att[w])
               /\ Goto(w, Outcome(att[w], plan))
       \/ ~Holds(w) /\ Note(w)
    /\ Checkpoint(IF att'[w].pc = "publishing" THEN {att[w].obj} ELSE {})
    /\ UNCHANGED <<row, op, spent>>

SaveCheckpoint(w) ==
    /\ At(w, "witnessing")
    /\ Witness(w)
    /\ Goto(w, [att[w] EXCEPT !.pc = "publishing", !.tries = 0])
    /\ UNCHANGED <<row, op, spent>>

\* What w publishes: RUNNING evidence, or the result of its attempt.  Only the
\* owner changes retries, so its local count is the one in the document.
Publication(a) ==
    LET retried == a.pc = "publishing" /\ a.plan \in {"RETRY", "REVISE"} IN
    [state   |-> IF a.pc = "evidence" THEN "RUNNING"
                 ELSE IF a.plan \in {"VERIFIED", "FAILED"} THEN a.plan ELSE "PENDING",
     retries |-> doc.objs[a.obj].retries + (IF retried THEN 1 ELSE 0),
     usage   |-> a.use,
     hold    |-> CASE a.plan = "PROVIDER" -> "WAITING_FOR_PROVIDER"
                   [] a.plan = "APPROVAL" -> "WAITING_FOR_APPROVAL"
                   [] OTHER               -> ""]

\* finalizeObjectiveIfLeaseOwner
MayFinalize(a) == CanFinalize(doc, a.obj, a.tok)
Finalized(a)   == Publish(doc, a.obj, Publication(a))

PublishEvidence(w) ==
    /\ At(w, "evidence")
    /\ Write(w, MayFinalize(att[w]), Finalized(att[w]))
    /\ IF MayFinalize(att[w])
       THEN Goto(w, [att[w] EXCEPT !.pc = "verifying", !.held = doc'.state, !.tries = 0])
       ELSE Note(w)
    /\ UNCHANGED <<op, witness, spent>>

\* A retried publication that finds its own committed result has nothing to note.
PublishResult(w) ==
    /\ At(w, "publishing")
    /\ Write(w, MayFinalize(att[w]), Finalized(att[w]))
    /\ \/ (MayFinalize(att[w]) \/ att[w].tries > 0) /\ EndTick(w)
       \/ ~MayFinalize(att[w]) /\ Note(w)
    /\ UNCHANGED <<op, witness, spent>>

\* appendActivity: it changes nothing the model keeps, but it moves the record on.
AppendActivity(w) ==
    /\ At(w, "noting")
    /\ Commit(doc)
    /\ EndTick(w)
    /\ UNCHANGED <<op, witness, spent>>

\* Mutant: a hold that does not compare the state the failure was seen in.
HeldAnyway(state) == IF CanTransition(state, "BLOCK") THEN [doc EXCEPT !.state = "BLOCKED"] ELSE doc

\* holdAfterPersistenceFailure: BLOCK a mission still in the state the failure was
\* seen in; otherwise only activity is recorded.
HeldDoc(state) ==
    IF doc.state = state /\ CanTransition(state, "BLOCK")
    THEN [doc EXCEPT !.state = "BLOCKED"] ELSE doc

HoldMission(w) ==
    /\ At(w, "holding")
    /\ Commit(HeldDoc(att[w].held))
    /\ EndTick(w)
    /\ UNCHANGED <<op, witness, spent>>

----------------------------------------------------------------------------
(* Faults.                                                                  *)

Spend(what) == spent' = [spent EXCEPT ![what] = @ + 1]

\* A write under the durability barrier fails; the write itself may have
\* committed and only its reply been lost.  The barrier retries it, and holds
\* the mission once its attempts are used up.
RequiredWrite(w) ==
    LET a == att[w] IN
    \/ a.pc = "starting" /\ w \in base /\ Commit(Started(a.obj))
    \/ a.pc \in {"evidence", "publishing"} /\ MayFinalize(a) /\ Commit(Finalized(a))
    \/ a.pc = "closing" /\ a.plan # "BLOCK" /\ ClosingAllowed(a) /\ Commit(Closed(a))

RequiredWriteFails(w) ==
    LET a == att[w] IN
    /\ spent.faults < MaxFaults
    /\ \/ a.pc \in {"starting", "evidence", "witnessing", "publishing"}
       \/ a.pc = "closing" /\ a.plan # "BLOCK"
    /\ UNCHANGED row \/ RequiredWrite(w)
    /\ UNCHANGED witness \/ (a.pc = "witnessing" /\ Witness(w))
    /\ Goto(w, IF a.tries + 1 < Attempts THEN [a EXCEPT !.tries = @ + 1]
               ELSE [NoAttempt EXCEPT !.pc = "holding", !.held = a.held])
    /\ Spend("faults")
    /\ UNCHANGED op

\* A store call outside the barrier fails and ends the tick: the acquisition
\* may have committed.  A gate that cannot be answered denies.
CallFails(w) ==
    /\ spent.faults < MaxFaults
    /\ \/ att[w].pc \in {"healing", "skipping", "resuming", "acquiring", "waiting", "holding",
                         "noting"}
       \/ At(w, "closing") /\ att[w].plan = "BLOCK"
    /\ \/ Refuse(w) /\ UNCHANGED witness
       \/ /\ At(w, "acquiring") /\ CanAcquire(doc, att[w].obj, att[w].age)
          /\ Commit(Acquire(doc, att[w].obj, att[w].tok, att[w].age))
          /\ Outdate(att[w].obj, att[w].age)
    /\ EndTick(w)
    /\ Spend("faults")
    /\ UNCHANGED op

GateFails(w) ==
    /\ spent.faults < MaxFaults
    /\ att[w].pc \in {"executing", "verifying"}
    /\ Note(w)
    /\ Spend("faults")
    /\ UNCHANGED <<row, op, witness>>

\* The process dies; its successor hydrates its mirror and starts from nothing.
Crash(w) ==
    /\ spent.crashes < MaxCrashes
    /\ ~At(w, "idle")
    /\ Refuse(w)
    /\ EndTick(w)
    /\ Spend("crashes")
    /\ UNCHANGED <<op, witness>>

----------------------------------------------------------------------------
(* The heartbeat: a renewal reads the clock, then reaches the database.  It *)
(* starts once the start barrier passed and stops when the tick ends.  The  *)
(* first interval of a lease is over one tick after its last extension.  A  *)
(* refused renewal stops the heartbeat, and any later one would be refused. *)

StartRenewal(w) ==
    /\ att[w].pc \in Executing \cup {"noting"}
    /\ Holds(w)
    /\ wire[att[w].obj] = NotSent
    /\ doc.objs[att[w].obj].left < TTL
    /\ wire' = [wire EXCEPT ![att[w].obj] = 0]
    /\ UNCHANGED <<doc, base, att, op, witness, spent>>

\* The renewal settles, whoever its sender has become.
RenewObjectiveLease(o) ==
    /\ wire[o] # NotSent
    /\ wire' = [wire EXCEPT ![o] = NotSent]
    /\ IF CanRenew(doc, o, doc.objs[o].token, wire[o])
       THEN doc' = Renew(doc, o, wire[o]) /\ base' = {}
       ELSE UNCHANGED <<doc, base>>
    /\ UNCHANGED <<att, op, witness, spent>>

RenewalFails(o) ==
    /\ spent.faults < MaxFaults
    /\ wire[o] # NotSent
    /\ wire' = [wire EXCEPT ![o] = NotSent]
    /\ Spend("faults")
    /\ UNCHANGED <<doc, base, att, op, witness>>

----------------------------------------------------------------------------
(* Operator commands and watchdog decisions.                                *)

\* The watchdog's BLOCK also requires that its copy holds no live lease.
Issuable(c) == CanTransition(doc.state, c) /\ (c = "BLOCK" => ~HasLiveLease(doc, 0))

IssueCommand(c) ==
    /\ spent.commands < MaxCommands
    /\ op.pc = "idle"
    /\ Issuable(c)
    /\ op' = [NoCommand EXCEPT !.pc = "first", !.cmd = c, !.held = doc.state]
    /\ Derive(Operator)
    /\ Spend("commands")
    /\ UNCHANGED <<att, witness>>

\* applyCommand: a terminal command is a patch guarded by the state read, any
\* other a conditional document write that is re-derived once.
CommandApplies ==
    IF op.cmd \in TerminalCommands
    THEN doc.state = op.held /\ (op.cmd = "COMPLETE" => Idle(doc))
    ELSE Operator \in base

Commanded == [doc EXCEPT !.state = Transition(op.held, op.cmd)]

ApplyCommand ==
    /\ op.pc \in {"first", "second"}
    /\ IF ~CommandApplies /\ op.pc = "first" /\ op.cmd \notin TerminalCommands /\ Issuable(op.cmd)
       THEN Derive(Operator) /\ op' = [op EXCEPT !.pc = "second", !.held = doc.state]
       ELSE Write(Operator, CommandApplies, Commanded) /\ op' = NoCommand
    /\ UNCHANGED <<att, witness, spent>>

\* Mutants: a checkpoint that promotes over every owner, and one that promotes again.
CanRestoreAnyway(o) == witness[o] \in {"older", "late", "own"} /\ doc.objs[o].state # "VERIFIED"
CanRestoreAgain(o)  == witness[o] \in {"late", "own"}

\* restoreVerifiedFromCheckpoint: promote only, and over a live owner of a RUNNING
\* mission only with a checkpoint that is newer than its lease.
CanRestore(o) ==
    /\ witness[o] \in {"older", "late", "own"}
    /\ doc.objs[o].state # "VERIFIED"
    /\ \/ witness[o] # "older"
       \/ doc.state # "RUNNING"
       \/ doc.objs[o].state # "RUNNING"
       \/ ~LeaseLive(doc.objs[o], 0)

Restored(o) ==
    [doc EXCEPT !.objs[o] = [@ EXCEPT !.state = "VERIFIED", !.token = NoToken, !.left = 0],
                !.usage.completed = @ + 1]

\* A resume runs the next open objective, which is a worker's pass; without one it
\* completes the mission.
GoOn(m) ==
    IF Open(m) = {} /\ CanTransition(m.state, "COMPLETE")
    THEN [NoCommand EXCEPT !.pc = "first", !.cmd = "COMPLETE", !.held = m.state]
    ELSE NoCommand

\* The latest checkpoint of the process's mirror decides.  That may be any: the mirror
\* lacks what other processes saved since it was hydrated, and one that promotes
\* nothing may be later.
ResumeFromCheckpoint ==
    /\ Resumable
    /\ spent.commands < MaxCommands
    /\ op.pc = "idle"
    /\ doc.state \notin Final
    /\ \/ \E o \in Objectives :
            /\ CanRestore(o)
            /\ op' = [NoCommand EXCEPT !.pc = "restoring", !.obj = o, !.held = doc.state]
            /\ Derive(Operator)
       \/ /\ \E o \in Objectives : witness[o] # "none"
          /\ op' = GoOn(doc)
          /\ UNCHANGED row
    /\ Spend("commands")
    /\ UNCHANGED <<att, witness>>

\* A conditional document write under the durability barrier; refused, the resume
\* goes on with the record it was refused for.
RestoreVerified ==
    /\ op.pc = "restoring"
    /\ Write(Operator, Operator \in base, Restored(op.obj))
    /\ op' = GoOn(doc')
    /\ UNCHANGED <<att, witness, spent>>

\* The command's write fails, committed or not; under the durability barrier it is
\* sent again, and holds the mission once the attempts are used up.
CommandFails ==
    /\ spent.faults < MaxFaults
    /\ \/ /\ op.pc \in {"first", "second"}
          /\ Refuse(Operator) \/ (CommandApplies /\ Commit(Commanded))
       \/ /\ op.pc = "restoring"
          /\ UNCHANGED row \/ (Operator \in base /\ Commit(Restored(op.obj)))
    /\ IF op.pc = "restoring" \/ op.cmd \in TerminalCommands
       THEN op' \in {op, [op EXCEPT !.pc = "holding"]}
       ELSE op' = NoCommand
    /\ Spend("faults")
    /\ UNCHANGED <<att, witness>>

HoldCommanded ==
    /\ op.pc = "holding"
    /\ Commit(HeldDoc(op.held))
    /\ op' = NoCommand
    /\ UNCHANGED <<att, witness, spent>>

----------------------------------------------------------------------------
(* The clock.  A pending store call delays it beyond MaxAge ticks.          *)

Timed(w) == \/ att[w].pc \in {"healing", "resuming", "acquiring"}
            \/ At(w, "closing") /\ att[w].plan \in {"FAIL_BUDGET", "BLOCK"}

Tick ==
    /\ \A w \in Workers : Timed(w) => att[w].age < MaxAge
    /\ \A o \in Objectives : wire[o] < MaxAge
    /\ doc'  = Elapse(doc)
    /\ att'  = [w \in Workers |-> IF Timed(w) THEN [att[w] EXCEPT !.age = @ + 1] ELSE att[w]]
    /\ wire' = [o \in Objectives |-> IF wire[o] = NotSent THEN NotSent ELSE wire[o] + 1]
    /\ UNCHANGED <<base, op, witness, spent>>

----------------------------------------------------------------------------
WorkerStep(w) ==
    \/ BeginRecovery(w) \/ HealNext(w) \/ Inspect(w) \/ PublishRecovery(w) \/ ResumeProvider(w)
    \/ LoadMission(w) \/ WaitForProvider(w) \/ CloseMission(w) \/ BlockMission(w)
    \/ AcquireObjectiveLease(w) \/ StartObjective(w) \/ ExecuteObjective(w)
    \/ PublishEvidence(w) \/ VerifyObjective(w) \/ SaveCheckpoint(w) \/ PublishResult(w)
    \/ AppendActivity(w) \/ HoldMission(w)

Fault ==
    \/ \E w \in Workers : RequiredWriteFails(w) \/ CallFails(w) \/ GateFails(w) \/ Crash(w)
    \/ \E o \in Objectives : RenewalFails(o)
    \/ CommandFails

Next ==
    \/ \E w \in Workers : WorkerStep(w)
    \/ \E w \in Workers : StartRenewal(w)
    \/ \E o \in Objectives : RenewObjectiveLease(o)
    \/ \E c \in Commands : IssueCommand(c)
    \/ ApplyCommand
    \/ ResumeFromCheckpoint
    \/ RestoreVerified
    \/ HoldCommanded
    \/ Fault
    \/ Tick

Spec == Init /\ [][Next]_vars

----------------------------------------------------------------------------
(* What the component promises.                                             *)

VerifiedCount == Cardinality({ o \in Objectives : doc.objs[o].state = "VERIFIED" })

\* An objective leaves RUNNING under a live lease only through its owner: no
\* recovery pass, second worker or late whole-document write takes work away
\* from an attempt whose lease has not expired, and a checkpoint only if it is newer
\* than the lease or the mission is on hold.
OwnerDecides ==
    [][ \A o \in Objectives :
          /\ doc.objs[o].state = "RUNNING"
          /\ LeaseLive(doc.objs[o], 0)
          /\ doc'.objs[o].token # doc.objs[o].token
          => \/ \E w \in Workers : att[w].tok = doc.objs[o].token /\ att'[w] # att[w]
             \/ /\ op.pc = "restoring" /\ op.obj = o
                /\ doc.state = "RUNNING" => witness[o] \in {"late", "own"} ]_vars

\* A terminal decision wins over every later result: a COMPLETED, FAILED or
\* CANCELLED mission keeps its state, its objective states and its usage.
TerminalFrozen ==
    [][ doc.state \in Final =>
          /\ doc'.state = doc.state
          /\ doc'.usage = doc.usage
          /\ \A o \in Objectives : doc'.objs[o].state = doc.objs[o].state ]_vars

\* The mission moves only along the frozen transition table, although every
\* decision was taken on an earlier copy of it; the one exception is the provider
\* hold, which a pass that loaded a CREATED mission publishes as well.
LegalMoves ==
    [][ doc'.state # doc.state =>
          \/ \E c \in { m[2] : m \in Moves } : <<doc.state, c, doc'.state>> \in Moves
          \/ doc.state = "CREATED" /\ doc'.state = "WAITING_FOR_PROVIDER" ]_vars

\* No objective is retried more often than its budget grants, although the grant
\* is decided on an earlier copy than the one the retry is published to.
RetriesBounded == \A o \in Objectives : doc.objs[o].retries <= MaxRetries

\* Completed work is counted at most once per VERIFIED objective, although an
\* attempt publishes the usage it computed from an earlier copy of the mission.
NeverOvercounted == doc.usage.completed <= VerifiedCount

\* A mission is reported COMPLETED only when nothing is left to do, and not when
\* everything that ended did so by failing; a resume from a checkpoint completes
\* missions without either (see the README), so it takes no part here.
CompletedMeansDone ==
    doc.state = "COMPLETED" =>
        AllSettled(doc) /\ (AnyFailed(doc) => AnyVerified(doc))

\* One owner per mission: at most one objective holds a live lease.
OneLiveLease ==
    \A o, p \in Objectives :
        LeaseLive(doc.objs[o], 0) /\ LeaseLive(doc.objs[p], 0) => o = p

\* Comments of the code that the code does not live up to (see the README).

\* Two workers never merge their assumptions into a lost update: the usage counts
\* every VERIFIED objective.
NoLostUsage == doc.usage.completed >= VerifiedCount

\* A checkpoint never overrides a live owner: a later owner is always strictly after the
\* witness, so one that is newer than the lease is the owner's own.
WitnessIsOwn ==
    [][ \A o \in Objectives :
          /\ doc.state = "RUNNING"
          /\ doc.objs[o].state = "RUNNING"
          /\ LeaseLive(doc.objs[o], 0)
          /\ op.pc = "restoring" /\ op.obj = o
          /\ doc'.objs[o].token # doc.objs[o].token
          => witness[o] = "own" ]_vars

----------------------------------------------------------------------------
\* The mission keeps the promises of the ledger: PENDING and READY are open,
\* RUNNING is held, and every commit is a step of the ledger or none.
Ledger == INSTANCE MissionLedger WITH
    phase  <- IF doc.state \in Final THEN doc.state ELSE "active",
    stage  <- [o \in Objectives |->
                 CASE doc.objs[o].state \in {"PENDING", "READY"} -> "open"
                   [] doc.objs[o].state = "RUNNING"              -> "held"
                   [] OTHER                                      -> doc.objs[o].state],
    holder <- [o \in Objectives |-> doc.objs[o].token]

KeepsLedger == Ledger!LedgerSpec

----------------------------------------------------------------------------
(* Liveness.  A worker's tick runs on a timer and its calls settle; a sent  *)
(* renewal and a command settle; time does not stop.                        *)

Fairness ==
    /\ \A w \in Workers : WF_vars(WorkerStep(w))
    /\ \A o \in Objectives : WF_vars(RenewObjectiveLease(o))
    /\ WF_vars(ApplyCommand \/ RestoreVerified)
    /\ WF_vars(HoldCommanded)
    /\ SF_vars(Tick)

FairSpec == Spec /\ Fairness

\* No objective is lost: one that is RUNNING is settled, let go or healed,
\* whatever became of the attempt that acquired it, or the mission ends.
NothingStaysRunning ==
    \A o \in Objectives :
        doc.objs[o].state = "RUNNING" ~> doc.objs[o].state # "RUNNING" \/ doc.state \in Final
=============================================================================
