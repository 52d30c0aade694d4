----------------------- MODULE MissionOwnership_proofs -----------------------
(***************************************************************************)
(* Who may change an objective, for every number of objectives, workers,    *)
(* tokens, commands, faults and ticks.                                     *)
(*                                                                         *)
(* MissionSafety_proofs says how a step changes the row and by whom         *)
(* (ActorStep).  Here it is read objective by objective: one is kept, or it *)
(* is healed, dropped, taken, settled or restored, each by somebody the     *)
(* code lets do that.  Owned, an inductive invariant, says what an attempt  *)
(* in flight is worth to its objective: the token it will acquire with is   *)
(* nobody's, a retry it was granted is still granted while it owns the       *)
(* objective, and the usage it will publish counts only VERIFIED objectives. *)
(***************************************************************************)
EXTENDS MissionSafety_proofs, FiniteSetTheorems

----------------------------------------------------------------------------
(* What a step does to one objective.                                       *)

OpenStates == {"PENDING", "READY"}

Kept(o) == /\ doc'.objs[o].state = doc.objs[o].state
           /\ doc'.objs[o].token = doc.objs[o].token
           /\ doc'.objs[o].retries = doc.objs[o].retries

Released(o) == doc'.objs[o].token = NoToken /\ doc'.objs[o].retries = doc.objs[o].retries

HealedNow(o) == /\ doc.objs[o].state = "RUNNING" /\ ~LeaseLive(doc.objs[o], 0)
                /\ doc'.objs[o].state = "READY" /\ Released(o)

DroppedNow(o) == /\ doc.objs[o].state \in OpenStates
                 /\ doc'.objs[o].state = "SKIPPED" /\ Released(o)

TakenBy(w, o) ==
    /\ AcquiredBy(w) /\ att[w].obj = o
    /\ doc.objs[o].state \in OpenStates
    /\ doc'.objs[o].state = "RUNNING" /\ doc'.objs[o].token = att[w].tok
    /\ doc'.objs[o].retries = doc.objs[o].retries

SettledBy(w, o) ==
    /\ PublishedBy(w) /\ att[w].pc = "publishing" /\ att[w].obj = o
    /\ Owns(doc, o, att[w].tok)
    /\ doc'.objs[o].state = Publication(att[w]).state
    /\ doc'.objs[o].token = NoToken
    /\ doc'.objs[o].retries = Publication(att[w]).retries

RestoredNow(o) == /\ RestoredByResume /\ op.obj = o
                  /\ doc'.objs[o].state = "VERIFIED" /\ Released(o)

\* What the owner of an attempt publishes: evidence is RUNNING, a result is not.
LEMMA PublicationMeans ==
  ASSUME NEW w \in Workers
  PROVE  /\ att[w].pc = "evidence" => Publication(att[w]).state = "RUNNING"
         /\ att[w].pc = "publishing" => Publication(att[w]).state \in {"PENDING", "VERIFIED", "FAILED"}
         /\ att[w].pc = "publishing" =>
              (Publication(att[w]).state = "VERIFIED" <=> att[w].plan = "VERIFIED")
  BY DEF Publication

LEMMA PublishedObjective ==
  ASSUME Typed, NEW w \in Workers, PublishedBy(w), NEW o \in Objectives
  PROVE  Kept(o) \/ SettledBy(w, o)
  <1> DEFINE p == att[w].obj
  <1>0. /\ doc \in DocType /\ p \in Objectives
        /\ DOMAIN doc.objs = Objectives
    BY AttemptOf DEF Typed, RowOK, Shape, Attempting, Executing, PublishedBy, DocType
  <1>1. doc'.objs = [doc.objs EXCEPT ![p] =
                      IF Publication(att[w]).state = "RUNNING" THEN doc.objs[p]
                      ELSE [state |-> Publication(att[w]).state, token |-> NoToken, left |-> 0,
                            retries |-> Publication(att[w]).retries]]
    BY DEF PublishedBy, Finalized, Publish
  <1>2. CASE o # p
    BY <1>0, <1>1, <1>2 DEF Kept
  <1>3. CASE o = p /\ att[w].pc = "evidence"
    BY <1>0, <1>1, <1>3, PublicationMeans DEF Kept
  <1>4. CASE o = p /\ att[w].pc = "publishing"
    <2>1. Publication(att[w]).state # "RUNNING"
      BY <1>4, PublicationMeans
    <2>2. Owns(doc, o, att[w].tok)
      BY <1>4 DEF PublishedBy, MayFinalize, CanFinalize
    <2> QED  BY <1>0, <1>1, <1>4, <2>1, <2>2 DEF SettledBy
  <1> QED  BY <1>2, <1>3, <1>4 DEF PublishedBy

LEMMA ObjectiveStep ==
  ASSUME Typed, ActorStep, NEW o \in Objectives
  PROVE  \/ Kept(o) \/ HealedNow(o) \/ DroppedNow(o) \/ RestoredNow(o)
         \/ \E w \in Workers : TakenBy(w, o) \/ SettledBy(w, o)
  <1>0. /\ doc \in DocType /\ doc.objs[o] \in ObjectiveType
        /\ DOMAIN doc.objs = Objectives
    BY ObjectiveOf DEF Typed, RowOK, DocType
  <1>1. CASE doc' = doc \/ doc' = Elapse(doc) \/ Moved(doc, doc')
    BY <1>0, <1>1 DEF Elapse, Moved, Kept, DocType, ObjectiveType
  <1>2. CASE Healed(doc, doc')
    <2>1. PICK p \in Objectives, age \in 0 .. MaxAge : CanHeal(doc, p, age) /\ doc' = Heal(doc, p)
      BY <1>2 DEF Healed
    <2>2. CASE o # p
      BY <1>0, <2>1, <2>2 DEF Heal, Kept, DocType
    <2>3. CASE o = p
      <3>1. doc.objs[o].state = "RUNNING" /\ ~LeaseLive(doc.objs[o], 0)
        <4>1. age \in Nat /\ doc.objs[o].left \in Int
          BY <1>0, TimesAssumption DEF TimesAssumption, ObjectiveType
        <4> QED  BY <2>1, <2>3, <4>1 DEF CanHeal, LeaseLive
      <3> QED  BY <1>0, <2>1, <2>3, <3>1 DEF Heal, HealedNow, Released, DocType, ObjectiveType
    <2> QED  BY <2>2, <2>3
  <1>3. CASE Skipped(doc, doc')
    <2>1. PICK changes : /\ \A c \in changes : c[2] \in {"PENDING", "READY"}
                         /\ doc' = Skip(doc, changes)
      BY <1>3 DEF Skipped
    <2>2. CASE <<o, doc.objs[o].state>> \in changes
      BY <1>0, <2>1, <2>2 DEF Skip, DroppedNow, Released, OpenStates, DocType, ObjectiveType
    <2>3. CASE <<o, doc.objs[o].state>> \notin changes
      BY <1>0, <2>1, <2>3 DEF Skip, Kept, DocType
    <2> QED  BY <2>2, <2>3
  <1>4. CASE Renewed(doc, doc')
    <2>1. PICK p \in Objectives, age \in 0 .. MaxAge : doc' = Renew(doc, p, age)
      BY <1>4 DEF Renewed
    <2> QED  BY <1>0, <2>1 DEF Renew, Kept, DocType, ObjectiveType
  <1>5. ASSUME NEW w \in Workers, AcquiredBy(w)  PROVE Kept(o) \/ TakenBy(w, o)
    <2>1. att[w].obj \in Objectives
      BY <1>5, AttemptOf DEF Typed, Shape, Attempting, AcquiredBy
    <2>2. CASE o # att[w].obj
      BY <1>0, <1>5, <2>1, <2>2 DEF AcquiredBy, Acquire, Kept, DocType
    <2>3. CASE o = att[w].obj
      BY <1>0, <1>5, <2>1, <2>3
         DEF AcquiredBy, CanAcquire, Acquire, TakenBy, OpenStates, DocType, ObjectiveType
    <2> QED  BY <2>2, <2>3
  <1>6. ASSUME NEW w \in Workers, StartedBy(w)  PROVE Kept(o)
    BY <1>0, <1>6 DEF StartedBy, Started, Kept, DocType
  <1>7. CASE RestoredByResume
    <2>1. op.obj \in Objectives
      BY <1>7 DEF RestoredByResume, Typed, CommandShape
    <2>2. doc'.objs = [doc.objs EXCEPT ![op.obj] =
                         [doc.objs[op.obj] EXCEPT !.state = "VERIFIED", !.token = NoToken, !.left = 0]]
      BY <1>0, <1>7 DEF RestoredByResume, Restored, DocType
    <2>3. CASE o # op.obj
      BY <1>0, <2>1, <2>2, <2>3 DEF Kept
    <2>4. CASE o = op.obj
      BY <1>0, <1>7, <2>2, <2>4 DEF RestoredNow, Released, ObjectiveType
    <2> QED  BY <2>3, <2>4
  <1> QED  BY <1>1, <1>2, <1>3, <1>4, <1>5, <1>6, <1>7, PublishedObjective DEF ActorStep, Plainly

----------------------------------------------------------------------------
(* What a step does to one attempt.                                         *)

\* An attempt keeps what it holds, wherever its next call stands.
Carries(w) ==
    /\ att'[w].pc = att[w].pc \/ (att[w].pc = "witnessing" /\ att'[w].pc = "publishing")
    /\ att'[w].obj = att[w].obj /\ att'[w].tok = att[w].tok
    /\ att'[w].plan = att[w].plan /\ att'[w].use = att[w].use

Draws(w)  == att'[w].pc = "acquiring" /\ att'[w].tok \in Fresh(w) /\ doc' = doc
Starts(w) == att'[w].pc = "executing" /\ att'[w].use = doc'.usage
Runs(w)   == /\ att[w].pc \in {"executing", "evidence"}
             /\ att'[w].pc \in {"evidence", "verifying"}
             /\ att'[w].use = att[w].use
GivesUp(w) == /\ att[w].pc = "executing" /\ att'[w].pc = "publishing"
              /\ att'[w].plan = "PROVIDER" /\ att'[w].use = att[w].use
Concludes(w) ==
    /\ att[w].pc = "verifying" /\ doc' = doc
    /\ \E plan \in Plans : /\ att'[w] = Outcome(att[w], plan)
                           /\ plan \in {"RETRY", "REVISE"} => CanRecover(att[w])

AttemptStep(w) ==
    \/ att'[w].pc \notin Executing \cup {"acquiring"}
    \/ Carries(w) \/ Draws(w) \/ Starts(w) \/ Runs(w) \/ GivesUp(w) \/ Concludes(w)

LEMMA EndsOrNotes ==
  ASSUME Typed, NEW w \in Workers, EndTick(w) \/ Note(w)
  PROVE  att'[w].pc \notin Executing \cup {"acquiring"}
  <1>0. att \in [Workers -> AttemptType]
    BY DEF Typed, Ticks
  <1>1. CASE EndTick(w)
    BY <1>0, <1>1 DEF EndTick, Goto, NoAttempt, Executing
  <1>2. CASE Note(w)
    BY <1>0, <1>2 DEF Note, Goto, NoAttempt, Executing
  <1> QED  BY <1>1, <1>2

LEMMA LoadAttempt ==
  ASSUME Typed, NEW w \in Workers, LoadMission(w)
  PROVE  AttemptStep(w)
  <1>0. doc' = doc /\ att \in [Workers -> AttemptType]
    BY DEF Typed, RowOK, Ticks, LoadMission, Derive, row
  <1>1. CASE EndTick(w)
    BY <1>1, EndsOrNotes DEF AttemptStep
  <1>2. CASE Goto(w, [NoAttempt EXCEPT !.pc = "waiting", !.held = doc.state])
    <2>1. att'[w].pc = "waiting"
      BY <1>0, <1>2 DEF Goto, NoAttempt
    <2> QED  BY <2>1 DEF AttemptStep, Executing
  <1>3. CASE Goto(w, Conclude(doc)) \/ Goto(w, Close(doc, "FAIL_BUDGET", "FAIL"))
    <2>0. doc \in DocType
      BY DEF Typed, RowOK
    <2>1. att'[w] = Conclude(doc) \/ att'[w] = Close(doc, "FAIL_BUDGET", "FAIL")
      BY <1>0, <1>3 DEF Goto
    <2>2. att'[w].pc \in {"idle", "closing"}
      BY <2>0, <2>1, CloseMeans, ConcludeMeans
    <2> QED  BY <2>2 DEF AttemptStep, Executing
  <1>4. CASE /\ Fresh(w) # {}
             /\ \E o \in Selected(doc) :
                  Goto(w, [NoAttempt EXCEPT !.pc  = "acquiring", !.obj = o,
                                            !.tok = CHOOSE t \in Fresh(w) : TRUE])
    <2> DEFINE tok == CHOOSE t \in Fresh(w) : TRUE
    <2>1. tok \in Fresh(w)
      BY <1>4
    <2> HIDE DEF tok
    <2>2. PICK o : Goto(w, [NoAttempt EXCEPT !.pc  = "acquiring", !.obj = o, !.tok = tok])
      BY <1>4 DEF tok
    <2>3. att'[w].pc = "acquiring" /\ att'[w].tok = tok
      BY <1>0, <2>2 DEF Goto, NoAttempt
    <2> QED  BY <1>0, <2>1, <2>3 DEF AttemptStep, Draws
  <1> QED  BY <1>1, <1>2, <1>3, <1>4 DEF LoadMission

\* The steps of w that are no attempt's, before or after one.
LEMMA IdleAttempt ==
  ASSUME Typed, NEW w \in Workers,
         \/ BeginRecovery(w) \/ HealNext(w) \/ Inspect(w) \/ PublishRecovery(w) \/ ResumeProvider(w)
         \/ WaitForProvider(w) \/ CloseMission(w) \/ BlockMission(w)
         \/ AppendActivity(w) \/ HoldMission(w) \/ CallFails(w) \/ GateFails(w) \/ Crash(w)
         \/ PublishResult(w)
  PROVE  att'[w].pc \notin Executing \cup {"acquiring"}
  <1>0. att \in [Workers -> AttemptType] /\ att[w] \in AttemptType
    BY DEF Typed, Ticks
  <1>1. CASE WaitForProvider(w) \/ CloseMission(w) \/ AppendActivity(w) \/ HoldMission(w)
             \/ CallFails(w) \/ GateFails(w) \/ Crash(w) \/ PublishResult(w)
    BY <1>1, EndsOrNotes DEF WaitForProvider, CloseMission, AppendActivity, HoldMission,
                             CallFails, GateFails, Crash, PublishResult
  <1>2. CASE BeginRecovery(w) \/ HealNext(w)
    <2>1. CASE \E S : Goto(w, [NoAttempt EXCEPT !.pc = "healing", !.todo = S])
      BY <1>0, <2>1 DEF Goto, NoAttempt, Executing
    <2>2. CASE HealNext(w)
      <3>1. att'[w].pc = "healing"
        BY <1>0, <2>2 DEF HealNext, Goto, At, AttemptType
      <3> QED  BY <3>1 DEF Executing
    <2> QED  BY <1>2, <2>1, <2>2 DEF BeginRecovery
  <1>3. CASE Inspect(w)
    <2>1. CASE \E S : Goto(w, [NoAttempt EXCEPT !.pc = "skipping", !.todo = S])
      BY <1>0, <2>1 DEF Goto, NoAttempt, Executing
    <2>2. CASE Goto(w, [NoAttempt EXCEPT !.pc = IF Runnable(doc) THEN "ready" ELSE "idle"])
      BY <1>0, <2>2 DEF Goto, NoAttempt, Executing
    <2>3. CASE \E n : Goto(w, [NoAttempt EXCEPT !.pc = "resuming", !.age = n])
      BY <1>0, <2>3 DEF Goto, NoAttempt, Executing
    <2> QED  BY <1>3, <2>1, <2>2, <2>3 DEF Inspect
  <1>4. CASE PublishRecovery(w) \/ ResumeProvider(w)
    <2>1. CASE \E m : Goto(w, [NoAttempt EXCEPT !.pc = IF Runnable(m) THEN "ready" ELSE "idle"])
      BY <1>0, <2>1 DEF Goto, NoAttempt, Executing
    <2>2. CASE At(w, "resuming") /\ Goto(w, [att[w] EXCEPT !.tries = 1])
      <3>1. att'[w].pc = "resuming"
        BY <1>0, <2>2 DEF Goto, At, AttemptType
      <3> QED  BY <3>1 DEF Executing
    <2> QED  BY <1>4, <2>1, <2>2 DEF PublishRecovery, ResumeProvider
  <1>5. CASE BlockMission(w)
    <2>1. CASE Goto(w, [att[w] EXCEPT !.tries = 1])
      <3>1. att'[w].pc = "closing"
        BY <1>0, <1>5, <2>1 DEF BlockMission, Goto, At, AttemptType
      <3> QED  BY <3>1 DEF Executing
    <2> QED  BY <1>5, <2>1, EndsOrNotes DEF BlockMission
  <1> QED  BY <1>1, <1>2, <1>3, <1>4, <1>5

LEMMA OwnAttempt ==
  ASSUME Typed, NEW w \in Workers,
         WorkerStep(w) \/ RequiredWriteFails(w) \/ CallFails(w) \/ GateFails(w) \/ Crash(w)
  PROVE  AttemptStep(w)
  <1>0. att \in [Workers -> AttemptType] /\ att[w] \in AttemptType
    BY DEF Typed, Ticks
  <1>1. CASE \/ BeginRecovery(w) \/ HealNext(w) \/ Inspect(w) \/ PublishRecovery(w)
             \/ ResumeProvider(w) \/ WaitForProvider(w) \/ CloseMission(w) \/ BlockMission(w)
             \/ AppendActivity(w) \/ HoldMission(w) \/ CallFails(w) \/ GateFails(w) \/ Crash(w)
             \/ PublishResult(w)
    BY <1>1, IdleAttempt DEF AttemptStep
  <1>2. CASE LoadMission(w)
    BY <1>2, LoadAttempt
  <1>3. CASE AcquireObjectiveLease(w)
    <2>1. CASE Goto(w, [att[w] EXCEPT !.pc = "starting", !.age = 0, !.held = doc.state])
      <3>1. att'[w].pc = "starting"
        BY <1>0, <2>1 DEF Goto, AttemptType
      <3> QED  BY <3>1 DEF AttemptStep, Executing
    <2> QED  BY <1>3, <2>1, EndsOrNotes DEF AcquireObjectiveLease, AttemptStep
  <1>4. CASE StartObjective(w)
    <2>1. CASE Goto(w, [att[w] EXCEPT !.pc = "executing", !.use = doc'.usage, !.tries = 0])
      BY <1>0, <2>1 DEF Goto, AttemptType, AttemptStep, Starts
    <2> QED  BY <1>4, <2>1, EndsOrNotes DEF StartObjective, AttemptStep
  <1>5. CASE ExecuteObjective(w)
    <2>1. CASE \E next \in {"evidence", "verifying"} : Goto(w, [att[w] EXCEPT !.pc = next])
      BY <1>0, <1>5, <2>1 DEF ExecuteObjective, At, Goto, AttemptType, AttemptStep, Runs
    <2>2. CASE Goto(w, [att[w] EXCEPT !.pc = "publishing", !.plan = "PROVIDER"])
      BY <1>0, <1>5, <2>2 DEF ExecuteObjective, At, Goto, AttemptType, AttemptStep, GivesUp
    <2> QED  BY <1>5, <2>1, <2>2, EndsOrNotes DEF ExecuteObjective, AttemptStep
  <1>6. CASE PublishEvidence(w)
    <2>1. CASE Goto(w, [att[w] EXCEPT !.pc = "verifying", !.held = doc'.state, !.tries = 0])
      BY <1>0, <1>6, <2>1 DEF PublishEvidence, At, Goto, AttemptType, AttemptStep, Runs
    <2> QED  BY <1>6, <2>1, EndsOrNotes DEF PublishEvidence, AttemptStep
  <1>7. CASE VerifyObjective(w)
    <2>1. CASE \E plan \in {"VERIFIED"} \cup (Failures \ {"PROVIDER"}) :
                 /\ plan \in {"RETRY", "REVISE"} => CanRecover(att[w])
                 /\ Goto(w, Outcome(att[w], plan))
      <3>1. PICK plan \in {"VERIFIED"} \cup (Failures \ {"PROVIDER"}) :
                 /\ plan \in {"RETRY", "REVISE"} => CanRecover(att[w])
                 /\ Goto(w, Outcome(att[w], plan))
        BY <2>1
      <3>2. plan \in Plans /\ att'[w] = Outcome(att[w], plan)
        BY <1>0, <3>1, FailuresAssumption DEF Goto, Plans, FailuresAssumption
      <3> QED  BY <1>7, <3>1, <3>2 DEF VerifyObjective, At, row, AttemptStep, Concludes
    <2> QED  BY <1>7, <2>1, EndsOrNotes DEF VerifyObjective, AttemptStep
  <1>8. CASE SaveCheckpoint(w)
    BY <1>0, <1>8 DEF SaveCheckpoint, At, Goto, AttemptType, AttemptStep, Carries
  <1>9. CASE RequiredWriteFails(w)
    <2>1. CASE Goto(w, [att[w] EXCEPT !.tries = @ + 1])
      BY <1>0, <2>1 DEF Goto, AttemptType, AttemptStep, Carries
    <2>2. CASE Goto(w, [NoAttempt EXCEPT !.pc = "holding", !.held = att[w].held])
      BY <1>0, <2>2 DEF Goto, NoAttempt, AttemptStep, Executing
    <2> QED  BY <1>9, <2>1, <2>2 DEF RequiredWriteFails
  <1> QED  BY <1>1, <1>2, <1>3, <1>4, <1>5, <1>6, <1>7, <1>8, <1>9 DEF WorkerStep

LEMMA EveryAttempt ==
  ASSUME Typed, [Next]_vars, NEW w \in Workers
  PROVE  AttemptStep(w)
  <1>0. att \in [Workers -> AttemptType] /\ att[w] \in AttemptType
    BY DEF Typed, Ticks
  <1>1. ASSUME NEW v \in Workers,
               WorkerStep(v) \/ RequiredWriteFails(v) \/ CallFails(v) \/ GateFails(v) \/ Crash(v)
        PROVE  AttemptStep(w)
    <2>1. CASE v = w
      BY <1>1, <2>1, OwnAttempt
    <2>2. CASE v # w
      <3>1. \E a : Goto(v, a)
        BY <1>1 DEF WorkerStep, BeginRecovery, HealNext, Inspect, PublishRecovery, ResumeProvider,
                    LoadMission, WaitForProvider, CloseMission, BlockMission,
                    AcquireObjectiveLease, StartObjective, ExecuteObjective, PublishEvidence,
                    VerifyObjective, SaveCheckpoint, PublishResult, AppendActivity, HoldMission,
                    RequiredWriteFails, CallFails, GateFails, Crash, EndTick, Note
      <3>2. att'[w] = att[w]
        BY <1>0, <2>2, <3>1 DEF Goto
      <3> QED  BY <3>2 DEF AttemptStep, Carries
    <2> QED  BY <2>1, <2>2
  <1>2. CASE Tick
    BY <1>0, <1>2 DEF Tick, AttemptType, AttemptStep, Carries
  <1>3. ASSUME att' = att  PROVE AttemptStep(w)
    BY <1>3 DEF AttemptStep, Carries
  <1> QED  BY <1>1, <1>2, <1>3
           DEF Next, Fault, StartRenewal, RenewObjectiveLease, RenewalFails, IssueCommand,
               ApplyCommand, ResumeFromCheckpoint, RestoreVerified, HoldCommanded, CommandFails, vars
----------------------------------------------------------------------------
(* The invariant.                                                           *)

\* The token of an acquisition that has not happened is on no objective.
Unrecorded(w) == att[w].pc = "acquiring" => \A o \in Objectives : doc.objs[o].token # att[w].tok

\* A retry granted to an attempt stays granted while it owns its objective.
Granted(w) ==
    /\ att[w].pc \in {"witnessing", "publishing"}
    /\ att[w].plan \in {"RETRY", "REVISE"}
    /\ Holds(w)
    => doc.objs[att[w].obj].retries < MaxRetries

\* A restore under way whose basis is the row as it is may go ahead.
RestoreStays == op.pc = "restoring" /\ Operator \in base => CanRestore(op.obj)

\* The usage an attempt would publish counts VERIFIED objectives, and its own.
OwnCount(a) == IF a.pc \in {"witnessing", "publishing"} /\ a.plan = "VERIFIED" THEN 1 ELSE 0

Counts(w) ==
    att[w].pc \in Executing => att[w].use.completed <= VerifiedCount + OwnCount(att[w])

OwnedAttempt(w) == Unrecorded(w) /\ Granted(w) /\ Counts(w)

Owned == /\ Grounded
         /\ LeaseOfRunning(doc) /\ RetriesBounded /\ NeverOvercounted /\ RestoreStays
         /\ \A w \in Workers : OwnedAttempt(w)

----------------------------------------------------------------------------
(* Tokens and retries.                                                      *)

LEMMA TokenOf ==
  ASSUME Typed, NEW w \in Workers, att[w].pc \in Attempting
  PROVE  /\ att[w].obj \in Objectives
         /\ att[w].tok \in TokensOf[w] /\ att[w].tok \in Tokens /\ att[w].tok # NoToken
  BY AttemptOf, DrawAssumption, TokensAssumption
     DEF Typed, Shape, DrawAssumption, TokensAssumption

\* Two attempts never hold the same token.
LEMMA TokensDiffer ==
  ASSUME Typed, NEW v \in Workers, NEW w \in Workers, v # w,
         att[v].pc \in Attempting, att[w].pc \in Attempting
  PROVE  att[v].tok # att[w].tok
  BY TokenOf, DrawAssumption DEF DrawAssumption

\* Whoever holds its objective after a step of somebody else held it before, with the
\* retries it had.
LEMMA HolderKeeps ==
  ASSUME Typed, ActorStep, NEW w \in Workers, Carries(w),
         att[w].pc \in Executing, Holds(w)'
  PROVE  Holds(w) /\ doc'.objs[att[w].obj].retries = doc.objs[att[w].obj].retries
  <1> DEFINE o == att[w].obj
  <1>0. /\ o \in Objectives /\ att[w].tok # NoToken
        /\ att[w].pc # "acquiring" /\ att[w].pc \in Attempting
    BY TokenOf DEF Attempting, Executing
  <1>1. doc'.objs[o].state = "RUNNING" /\ doc'.objs[o].token = att[w].tok
    BY DEF Holds, Owns, Carries
  <1> HIDE DEF o
  <1>2. ASSUME NEW v \in Workers, TakenBy(v, o)  PROVE FALSE
    <2>1. att[v].pc = "acquiring" /\ att[v].tok = att[w].tok
      BY <1>1, <1>2 DEF TakenBy, AcquiredBy
    <2>2. v # w /\ att[v].pc \in Attempting
      BY <1>0, <2>1 DEF Attempting
    <2> QED  BY <1>0, <2>1, <2>2, TokensDiffer
  <1>3. ~HealedNow(o) /\ ~DroppedNow(o) /\ ~RestoredNow(o)
    BY <1>0, <1>1 DEF HealedNow, DroppedNow, RestoredNow, Released
  <1>4. ASSUME NEW v \in Workers, SettledBy(v, o)  PROVE FALSE
    BY <1>0, <1>1, <1>4 DEF SettledBy
  <1>5. Kept(o)
    BY <1>0, <1>2, <1>3, <1>4, ObjectiveStep
  <1> QED  BY <1>1, <1>5 DEF Kept, Holds, Owns, o

LEMMA UnrecordedStep ==
  ASSUME Typed, ActorStep, NEW w \in Workers, AttemptStep(w), Unrecorded(w)
  PROVE  Unrecorded(w)'
  <1> SUFFICES ASSUME att'[w].pc = "acquiring", NEW o \in Objectives
               PROVE  doc'.objs[o].token # att'[w].tok
    BY DEF Unrecorded
  <1>1. CASE Draws(w)
    <2>1. doc.objs[o].token \in Recorded
      BY DEF Recorded
    <2> QED  BY <1>1, <2>1 DEF Draws, Fresh
  <1>2. CASE Carries(w)
    <2>1. att[w].pc = "acquiring" /\ att'[w].tok = att[w].tok /\ att[w].pc \in Attempting
      BY <1>2 DEF Carries, Attempting
    <2>2. doc.objs[o].token # att[w].tok /\ att[w].tok # NoToken
      BY <2>1, TokenOf DEF Unrecorded
    <2>3. ASSUME NEW v \in Workers, TakenBy(v, o)  PROVE doc'.objs[o].token # att[w].tok
      <3>1. /\ att[v].pc = "acquiring" /\ att'[v].pc # "acquiring"
            /\ doc'.objs[o].token = att[v].tok
        BY <2>3 DEF TakenBy, AcquiredBy
      <3>2. v # w /\ att[v].pc \in Attempting
        BY <3>1 DEF Attempting
      <3> QED  BY <2>1, <3>1, <3>2, TokensDiffer
    <2> QED  BY <2>1, <2>2, <2>3, ObjectiveStep
             DEF Kept, HealedNow, DroppedNow, RestoredNow, Released, SettledBy
  <1>3. ~Starts(w) /\ ~Runs(w) /\ ~GivesUp(w)
    BY DEF Starts, Runs, GivesUp
  <1>4. ~Concludes(w)
    <2>1. att[w] \in AttemptType
      BY AttemptOf DEF Typed
    <2>2. \A plan : Outcome(att[w], plan).pc \in {"witnessing", "publishing"}
      BY <2>1 DEF Outcome, AttemptType
    <2> QED  BY <2>2 DEF Concludes
  <1> QED  BY <1>1, <1>2, <1>3, <1>4 DEF AttemptStep

LEMMA OutcomeMeans ==
  ASSUME NEW a \in AttemptType, NEW plan \in Plans
  PROVE  LET b == Outcome(a, plan) IN
         /\ b.obj = a.obj /\ b.tok = a.tok /\ b.plan = plan
         /\ b.pc \in {"witnessing", "publishing"}
         /\ b.use.completed = a.use.completed + (IF plan = "VERIFIED" THEN 1 ELSE 0)
  BY DEF Outcome, AttemptType

LEMMA GrantedStep ==
  ASSUME Typed, ActorStep, NEW w \in Workers, AttemptStep(w), Granted(w)
  PROVE  Granted(w)'
  <1> SUFFICES ASSUME att'[w].pc \in {"witnessing", "publishing"},
                      att'[w].plan \in {"RETRY", "REVISE"}, Holds(w)'
               PROVE  doc'.objs[att'[w].obj].retries < MaxRetries
    BY DEF Granted
  <1>1. CASE Carries(w)
    <2>1. att[w].pc \in {"witnessing", "publishing"} /\ att[w].pc \in Executing
      BY <1>1 DEF Carries, Executing
    <2> QED  BY <1>1, <2>1, HolderKeeps DEF Carries, Granted
  <1>2. CASE Concludes(w)
    <2>1. PICK plan \in Plans : /\ att'[w] = Outcome(att[w], plan)
                                /\ plan \in {"RETRY", "REVISE"} => CanRecover(att[w])
      BY <1>2 DEF Concludes
    <2>2. att[w] \in AttemptType
      BY AttemptOf DEF Typed
    <2>3. att'[w].obj = att[w].obj /\ att'[w].plan = plan
      BY <2>1, <2>2, OutcomeMeans
    <2> QED  BY <1>2, <2>1, <2>3 DEF Concludes, CanRecover
  <1>3. ~Draws(w) /\ ~Starts(w) /\ ~Runs(w) /\ ~GivesUp(w)
    BY DEF Draws, Starts, Runs, GivesUp
  <1> QED  BY <1>1, <1>2, <1>3 DEF AttemptStep, Executing

\* Only a granted retry is published.
LEMMA RetriesStep ==
  ASSUME Typed, ActorStep, RetriesBounded, \A w \in Workers : Granted(w)
  PROVE  RetriesBounded'
  <1> SUFFICES ASSUME NEW o \in Objectives  PROVE doc'.objs[o].retries <= MaxRetries
    BY DEF RetriesBounded
  <1>1. doc.objs[o].retries <= MaxRetries
    BY DEF RetriesBounded
  <1>2. ASSUME NEW w \in Workers, SettledBy(w, o)  PROVE doc'.objs[o].retries <= MaxRetries
    <2>0. doc.objs[o].retries \in Nat /\ MaxRetries \in Nat
      BY ObjectiveOf, BudgetAssumption DEF Typed, RowOK, ObjectiveType, BudgetAssumption
    <2>1. doc'.objs[o].retries = doc.objs[o].retries
                                 + (IF att[w].plan \in {"RETRY", "REVISE"} THEN 1 ELSE 0)
      BY <1>2 DEF SettledBy, Publication
    <2>2. att[w].plan \in {"RETRY", "REVISE"} => doc.objs[o].retries < MaxRetries
      BY <1>2 DEF SettledBy, Granted, Holds
    <2> QED  BY <1>1, <2>0, <2>1, <2>2
  <1> QED  BY <1>1, <1>2, ObjectiveStep
           DEF Kept, HealedNow, DroppedNow, RestoredNow, Released, TakenBy

LEMMA LeaseOfRunningStep ==
  ASSUME Typed, ActorStep, LeaseOfRunning(doc)
  PROVE  LeaseOfRunning(doc)'
  <1> SUFFICES ASSUME NEW o \in Objectives, doc'.objs[o].token # NoToken
               PROVE  doc'.objs[o].state = "RUNNING"
    BY DEF LeaseOfRunning
  <1> QED  BY ObjectiveStep
           DEF LeaseOfRunning, Kept, HealedNow, DroppedNow, RestoredNow, Released, TakenBy, SettledBy

----------------------------------------------------------------------------
(* Counting.                                                                *)

VerifiedSet == { o \in Objectives : doc.objs[o].state = "VERIFIED" }

LEMMA VerifiedFinite == IsFiniteSet(VerifiedSet) /\ VerifiedCount \in Nat
  <1>1. VerifiedSet \in SUBSET Objectives
    BY DEF VerifiedSet
  <1>2. IsFiniteSet(VerifiedSet)
    BY <1>1, ObjectivesAssumption, FS_Subset DEF ObjectivesAssumption
  <1> QED  BY <1>2, FS_CardinalityType DEF VerifiedSet, VerifiedCount

LEMMA VerifiedFiniteNext == IsFiniteSet(VerifiedSet') /\ VerifiedCount' \in Nat
  <1>1. VerifiedSet' \in SUBSET Objectives
    BY DEF VerifiedSet
  <1>2. IsFiniteSet(VerifiedSet')
    BY <1>1, ObjectivesAssumption, FS_Subset DEF ObjectivesAssumption
  <1> QED  BY <1>2, FS_CardinalityType DEF VerifiedSet, VerifiedCount

\* A VERIFIED objective stays VERIFIED, and one that becomes VERIFIED counts.
LEMMA VerifiedGrows ==
  ASSUME Grounded, ActorStep
  PROVE  /\ VerifiedCount <= VerifiedCount'
         /\ \A o \in Objectives :
              doc.objs[o].state # "VERIFIED" /\ doc'.objs[o].state = "VERIFIED"
              => VerifiedCount + 1 <= VerifiedCount'
  <1>1. ASSUME NEW o \in Objectives, doc.objs[o].state = "VERIFIED"
        PROVE  doc'.objs[o].state = "VERIFIED"
    BY <1>1, ObjectiveStep
       DEF Grounded, Kept, HealedNow, DroppedNow, RestoredNow, TakenBy, SettledBy, Owns, OpenStates
  <1>2. VerifiedSet \in SUBSET VerifiedSet'
    BY <1>1 DEF VerifiedSet
  <1>3. VerifiedCount <= VerifiedCount'
    BY <1>2, VerifiedFiniteNext, FS_Subset DEF VerifiedSet, VerifiedCount
  <1>4. ASSUME NEW o \in Objectives, doc.objs[o].state # "VERIFIED", doc'.objs[o].state = "VERIFIED"
        PROVE  VerifiedCount + 1 <= VerifiedCount'
    <2>1. o \notin VerifiedSet /\ VerifiedSet \cup {o} \in SUBSET VerifiedSet'
      BY <1>2, <1>4 DEF VerifiedSet
    <2>2. Cardinality(VerifiedSet \cup {o}) = Cardinality(VerifiedSet) + 1
      BY <2>1, VerifiedFinite, FS_AddElement
    <2>3. Cardinality(VerifiedSet \cup {o}) <= Cardinality(VerifiedSet')
      BY <2>1, VerifiedFiniteNext, FS_Subset
    <2> QED  BY <2>2, <2>3 DEF VerifiedSet, VerifiedCount
  <1> QED  BY <1>3, <1>4

LEMMA UsageKept ==
  ASSUME Typed, ActorStep
  PROVE  \/ doc'.usage.completed = doc.usage.completed
         \/ \E w \in Workers : PublishedBy(w)
         \/ RestoredByResume
  <1>0. doc \in DocType
    BY DEF Typed, RowOK
  <1>1. CASE Plainly(doc, doc')
    BY <1>0, <1>1 DEF Plainly, Elapse, Healed, Heal, Skipped, Skip, Moved, Renewed, Renew, DocType
  <1>2. ASSUME NEW w \in Workers, AcquiredBy(w)
        PROVE  doc'.usage.completed = doc.usage.completed
    BY <1>0, <1>2 DEF AcquiredBy, Acquire, DocType
  <1>3. ASSUME NEW w \in Workers, StartedBy(w)
        PROVE  doc'.usage.completed = doc.usage.completed
    BY <1>0, <1>3 DEF StartedBy, Started, DocType, UsageType
  <1> QED  BY <1>1, <1>2, <1>3 DEF ActorStep

LEMMA OvercountedStep ==
  ASSUME Grounded, ActorStep, NeverOvercounted, RestoreStays, \A w \in Workers : Counts(w)
  PROVE  NeverOvercounted'
  <1>0. /\ Typed /\ doc \in DocType /\ doc.usage.completed \in Nat
        /\ VerifiedCount \in Nat /\ VerifiedCount' \in Nat
    BY VerifiedFinite, VerifiedFiniteNext DEF Grounded, Typed, RowOK, DocType, UsageType
  <1>1. CASE doc'.usage.completed = doc.usage.completed
    BY <1>0, <1>1, VerifiedGrows DEF NeverOvercounted
  <1>2. ASSUME NEW w \in Workers, PublishedBy(w)  PROVE NeverOvercounted'
    <2>1. /\ att[w].pc \in Executing /\ att[w].pc \in Attempting
          /\ att[w].obj \in Objectives /\ att[w] \in AttemptType
      BY <1>0, <1>2, TokenOf, AttemptOf DEF PublishedBy, Executing, Attempting, Typed
    <2>2. doc'.usage.completed = att[w].use.completed /\ att[w].use.completed \in Nat
      BY <1>2, <2>1 DEF PublishedBy, Finalized, Publish, Publication, AttemptType, UsageType
    <2>3. att[w].use.completed <= VerifiedCount + OwnCount(att[w])
      BY <2>1 DEF Counts
    <2>4. CASE OwnCount(att[w]) = 0
      BY <1>0, <2>2, <2>3, <2>4, VerifiedGrows DEF NeverOvercounted
    <2>5. CASE OwnCount(att[w]) # 0
      <3>1. att[w].pc = "publishing" /\ att[w].plan = "VERIFIED" /\ OwnCount(att[w]) = 1
        BY <1>2, <2>5 DEF OwnCount, PublishedBy
      <3>2. /\ doc.objs[att[w].obj].state = "RUNNING"
            /\ doc'.objs[att[w].obj].state = "VERIFIED"
        <4>1. Publication(att[w]).state = "VERIFIED"
          BY <3>1, PublicationMeans
        <4>2. doc'.objs[att[w].obj].state = "VERIFIED"
          BY <1>0, <1>2, <2>1, <4>1 DEF PublishedBy, Finalized, Publish, DocType
        <4> QED  BY <1>2, <4>2 DEF PublishedBy, MayFinalize, CanFinalize, Owns
      <3>3. VerifiedCount + 1 <= VerifiedCount'
        BY <2>1, <3>2, VerifiedGrows
      <3> QED  BY <1>0, <2>2, <2>3, <3>1, <3>3 DEF NeverOvercounted
    <2> QED  BY <2>4, <2>5
  <1>3. CASE RestoredByResume
    <2>1. op.obj \in Objectives /\ doc.objs[op.obj].state # "VERIFIED"
      BY <1>0, <1>3 DEF RestoredByResume, RestoreStays, CanRestore, Typed, CommandShape
    <2>2. doc'.objs[op.obj].state = "VERIFIED"
          /\ doc'.usage.completed = doc.usage.completed + 1
      <3>1. doc.objs[op.obj] \in ObjectiveType
        BY <1>0, <2>1, ObjectiveOf
      <3> QED  BY <1>0, <1>3, <2>1, <3>1
               DEF RestoredByResume, Restored, DocType, ObjectiveType, UsageType
    <2>3. VerifiedCount + 1 <= VerifiedCount'
      BY <2>1, <2>2, VerifiedGrows
    <2> QED  BY <1>0, <2>2, <2>3 DEF NeverOvercounted
  <1> QED  BY <1>0, <1>1, <1>2, <1>3, UsageKept

LEMMA CountsStep ==
  ASSUME Grounded, ActorStep, NEW w \in Workers, AttemptStep(w), Counts(w), NeverOvercounted'
  PROVE  Counts(w)'
  <1> SUFFICES ASSUME att'[w].pc \in Executing
               PROVE  att'[w].use.completed <= VerifiedCount' + OwnCount(att'[w])
    BY DEF Counts
  <1>0. /\ Typed /\ att[w] \in AttemptType /\ att[w].use.completed \in Nat
        /\ VerifiedCount \in Nat /\ VerifiedCount' \in Nat /\ VerifiedCount <= VerifiedCount'
        /\ OwnCount(att[w]) \in {0, 1} /\ OwnCount(att'[w]) \in {0, 1}
    BY AttemptOf, VerifiedFinite, VerifiedFiniteNext, VerifiedGrows
       DEF Grounded, Typed, AttemptType, UsageType, OwnCount
  <1>1. CASE Carries(w)
    <2>1. /\ att[w].pc \in Executing /\ att'[w].use = att[w].use
          /\ OwnCount(att'[w]) = OwnCount(att[w])
      BY <1>1 DEF Carries, Executing, OwnCount
    <2> QED  BY <1>0, <2>1 DEF Counts
  <1>2. CASE Starts(w)
    <2>1. att'[w].use.completed = doc'.usage.completed /\ OwnCount(att'[w]) = 0
      BY <1>2 DEF Starts, OwnCount
    <2> QED  BY <1>0, <2>1 DEF NeverOvercounted
  <1>3. CASE Runs(w) \/ GivesUp(w)
    <2>1. /\ att[w].pc \in Executing /\ att'[w].use = att[w].use
          /\ OwnCount(att[w]) = 0 /\ OwnCount(att'[w]) = 0
      BY <1>3 DEF Runs, GivesUp, Executing, OwnCount
    <2> QED  BY <1>0, <2>1 DEF Counts
  <1>4. CASE Concludes(w)
    <2>1. PICK plan \in Plans : att'[w] = Outcome(att[w], plan)
      BY <1>4 DEF Concludes
    <2>2. /\ att'[w].plan = plan /\ att'[w].pc \in {"witnessing", "publishing"}
          /\ att'[w].use.completed = att[w].use.completed + (IF plan = "VERIFIED" THEN 1 ELSE 0)
      BY <1>0, <2>1, OutcomeMeans
    <2>3. OwnCount(att'[w]) = IF plan = "VERIFIED" THEN 1 ELSE 0
      BY <2>2 DEF OwnCount
    <2>4. OwnCount(att[w]) = 0 /\ att[w].pc \in Executing
      BY <1>4 DEF Concludes, OwnCount, Executing
    <2> QED  BY <1>0, <2>2, <2>3, <2>4 DEF Counts
  <1>5. ~Draws(w)
    BY DEF Draws, Executing
  <1> QED  BY <1>1, <1>2, <1>3, <1>4, <1>5 DEF AttemptStep

----------------------------------------------------------------------------
(* A restore under way.                                                     *)

\* A checkpoint that promotes its objective keeps doing so, as long as no lease is
\* acquired.
WitnessKeeps == \A o \in Objectives : witness[o] \in {"older", "late", "own"} =>
                                        witness'[o] \in {witness[o], "late", "own"}

LEMMA RestoreKept ==
  ASSUME Typed, op' = op, op.pc = "restoring", CanRestore(op.obj), WitnessKeeps,
         doc' = doc \/ doc' = Elapse(doc)
  PROVE  CanRestore(op.obj)'
  <1> DEFINE o == op.obj
  <1>0. doc \in DocType /\ o \in Objectives /\ doc.objs[o] \in ObjectiveType
    BY ObjectiveOf DEF Typed, RowOK, CommandShape
  <1>1. /\ doc'.state = doc.state /\ doc'.objs[o].state = doc.objs[o].state
        /\ ~LeaseLive(doc.objs[o], 0) => ~LeaseLive(doc'.objs[o], 0)
    <2>1. CASE doc' = Elapse(doc)
      <3> DEFINE left == IF doc.objs[o].token = NoToken \/ doc.objs[o].left = -MaxAge
                         THEN doc.objs[o].left ELSE doc.objs[o].left - 1
      <3>1. doc'.state = doc.state /\ doc'.objs[o] = [doc.objs[o] EXCEPT !.left = left]
        BY <1>0, <2>1 DEF Elapse, DocType
      <3>2. left \in Int /\ doc.objs[o].left \in Int /\ left <= doc.objs[o].left
        BY <1>0, TimesAssumption DEF ObjectiveType, TimesAssumption
      <3> HIDE DEF left
      <3>3. /\ doc'.objs[o].state = doc.objs[o].state
            /\ doc'.objs[o].token = doc.objs[o].token /\ doc'.objs[o].left = left
        BY <1>0, <3>1 DEF ObjectiveType
      <3> QED  BY <3>1, <3>2, <3>3 DEF LeaseLive
    <2>2. CASE doc' = doc
      BY <2>2
    <2> QED  BY <2>1, <2>2
  <1>2. witness[o] \in {"older", "late", "own"} /\ witness'[o] \in {witness[o], "late", "own"}
    BY <1>0 DEF CanRestore, WitnessKeeps
  <1> QED  BY <1>1, <1>2 DEF CanRestore

LEMMA WorkerRestore ==
  ASSUME Typed, NEW w \in Workers,
         WorkerStep(w) \/ RequiredWriteFails(w) \/ CallFails(w) \/ GateFails(w) \/ Crash(w),
         Operator \in base'
  PROVE  Operator \in base /\ op' = op /\ doc' = doc /\ WitnessKeeps
  <1>0. Operator # w /\ witness \in [Objectives -> Checkpoints]
    BY WorkersAssumption DEF WorkersAssumption, Typed, WitnessOK
  <1>1. Operator \in base
    BY <1>0, WorkerKeeps DEF Keeps
  <1>2. op' = op
    BY DEF WorkerStep, BeginRecovery, HealNext, Inspect, PublishRecovery, ResumeProvider,
           LoadMission, WaitForProvider, CloseMission, BlockMission,
           AcquireObjectiveLease, StartObjective, ExecuteObjective, PublishEvidence,
           VerifyObjective, SaveCheckpoint, PublishResult, AppendActivity, HoldMission,
           RequiredWriteFails, CallFails, GateFails, Crash
  <1>3. ASSUME NEW S, Checkpoint(S)  PROVE WitnessKeeps
    BY <1>0, <1>3 DEF Checkpoint, WitnessKeeps
  <1>4. ASSUME witness' = witness  PROVE WitnessKeeps
    BY <1>4 DEF WitnessKeeps
  <1>5. ASSUME Witness(w)  PROVE WitnessKeeps
    BY <1>0, <1>5 DEF Witness, WitnessKeeps
  <1>6. ASSUME NEW allow, NEW d, Write(w, allow, d)  PROVE doc' = doc
    BY <1>6 DEF Write, Commit, Refuse
  <1>7. CASE BeginRecovery(w) \/ HealNext(w) \/ Inspect(w) \/ PublishRecovery(w) \/ ResumeProvider(w)
             \/ WaitForProvider(w) \/ CloseMission(w) \/ BlockMission(w) \/ StartObjective(w)
             \/ PublishEvidence(w) \/ PublishResult(w) \/ AppendActivity(w) \/ HoldMission(w)
             \/ GateFails(w) \/ Crash(w)
    <2>1. witness' = witness
      BY <1>7 DEF BeginRecovery, HealNext, Inspect, PublishRecovery, ResumeProvider,
                  WaitForProvider, CloseMission, BlockMission, StartObjective, PublishEvidence,
                  PublishResult, AppendActivity, HoldMission, GateFails, Crash
    <2>2. doc' = doc
      BY <1>6, <1>7 DEF BeginRecovery, HealNext, Inspect, PublishRecovery, ResumeProvider,
                  WaitForProvider, CloseMission, BlockMission, StartObjective, PublishEvidence,
                  PublishResult, AppendActivity, HoldMission, GateFails, Crash,
                  Commit, Refuse, Derive, row
    <2> QED  BY <1>1, <1>2, <1>4, <2>1, <2>2
  <1>8. CASE LoadMission(w) \/ ExecuteObjective(w) \/ VerifyObjective(w) \/ SaveCheckpoint(w)
    <2>1. doc' = doc
      BY <1>8 DEF LoadMission, ExecuteObjective, VerifyObjective, SaveCheckpoint, Derive, row
    <2>2. WitnessKeeps
      BY <1>3, <1>5, <1>8 DEF LoadMission, ExecuteObjective, VerifyObjective, SaveCheckpoint
    <2> QED  BY <1>1, <1>2, <2>1, <2>2
  <1>9. CASE AcquireObjectiveLease(w) \/ CallFails(w)
    <2>1. Refuse(w) /\ witness' = witness
      BY <1>0, <1>9 DEF AcquireObjectiveLease, CallFails, Commit
    <2> QED  BY <1>1, <1>2, <1>4, <2>1 DEF Refuse
  <1>10. CASE RequiredWriteFails(w)
    <2>1. doc' = doc
      BY <1>10 DEF RequiredWriteFails, RequiredWrite, Commit, row
    <2>2. WitnessKeeps
      BY <1>4, <1>5, <1>10 DEF RequiredWriteFails
    <2> QED  BY <1>1, <1>2, <2>1, <2>2
  <1> QED  BY <1>7, <1>8, <1>9, <1>10 DEF WorkerStep

LEMMA RestoreStep ==
  ASSUME Typed, [Next]_vars, RestoreStays
  PROVE  RestoreStays'
  <1> SUFFICES ASSUME op'.pc = "restoring", Operator \in base'  PROVE CanRestore(op.obj)'
    BY DEF RestoreStays
  <1>0. op \in CommandType
    BY DEF Typed, CommandShape
  <1>1. ASSUME Operator \in base, op' = op, WitnessKeeps, doc' = doc \/ doc' = Elapse(doc)
        PROVE  CanRestore(op.obj)'
    BY <1>1, RestoreKept DEF RestoreStays
  <1>2. witness' = witness => WitnessKeeps
    BY DEF WitnessKeeps
  <1>3. ASSUME NEW w \in Workers,
               WorkerStep(w) \/ RequiredWriteFails(w) \/ CallFails(w) \/ GateFails(w) \/ Crash(w)
        PROVE  CanRestore(op.obj)'
    BY <1>1, <1>3, WorkerRestore
  <1>4. ASSUME \/ \E w \in Workers : StartRenewal(w)
               \/ \E o \in Objectives : RenewObjectiveLease(o) \/ RenewalFails(o)
        PROVE  CanRestore(op.obj)'
    <2>1. op' = op /\ witness' = witness /\ (base' = {} \/ (doc' = doc /\ base' = base))
      BY <1>4 DEF StartRenewal, RenewObjectiveLease, RenewalFails
    <2> QED  BY <1>1, <1>2, <2>1
  <1>5. CASE Tick
    BY <1>1, <1>2, <1>5 DEF Tick
  <1>6. ASSUME NEW c \in Commands, IssueCommand(c)  PROVE FALSE
    BY <1>6 DEF IssueCommand, NoCommand
  <1>7. ASSUME ApplyCommand  PROVE FALSE
    <2>1. CASE op' = [op EXCEPT !.pc = "second", !.held = doc.state]
      BY <1>0, <2>1 DEF CommandType
    <2>2. CASE op' = NoCommand
      BY <2>2 DEF NoCommand
    <2> QED  BY <1>7, <2>1, <2>2 DEF ApplyCommand
  <1>8. ASSUME NEW m, op' = GoOn(m)  PROVE FALSE
    BY <1>8 DEF GoOn, NoCommand
  <1>9. CASE ResumeFromCheckpoint
    <2>1. PICK o \in Objectives :
            /\ CanRestore(o)
            /\ op' = [NoCommand EXCEPT !.pc = "restoring", !.obj = o, !.held = doc.state]
            /\ Derive(Operator)
      BY <1>8, <1>9 DEF ResumeFromCheckpoint
    <2>2. op'.obj = o /\ doc' = doc /\ witness' = witness
      BY <1>9, <2>1 DEF NoCommand, Derive, ResumeFromCheckpoint
    <2> QED  BY <2>1, <2>2 DEF CanRestore
  <1>10. ~RestoreVerified
    BY <1>8 DEF RestoreVerified
  <1>11. ASSUME HoldCommanded  PROVE FALSE
    BY <1>11 DEF HoldCommanded, NoCommand
  <1>12. CASE CommandFails
    <2>1. op' = op
      <3>1. op' # [op EXCEPT !.pc = "holding"]
        <4>1. [op EXCEPT !.pc = "holding"].pc = "holding"
          BY <1>0 DEF CommandType
        <4> QED  BY <4>1
      <3>2. op' # NoCommand
        <4>1. NoCommand.pc = "idle"
          BY DEF NoCommand
        <4> QED  BY <4>1
      <3> QED  BY <1>12, <3>1, <3>2 DEF CommandFails
    <2>2. doc' = doc /\ Operator \in base /\ witness' = witness
      BY <1>12, <2>1 DEF CommandFails, Refuse, Commit, row
    <2> QED  BY <1>1, <1>2, <2>1, <2>2
  <1>13. CASE UNCHANGED vars
    BY <1>1, <1>2, <1>13 DEF vars
  <1> QED  BY <1>3, <1>4, <1>5, <1>6, <1>7, <1>9, <1>10, <1>11, <1>12, <1>13 DEF Next, Fault

----------------------------------------------------------------------------
LEMMA InitOwned == Init => Owned
  <1> SUFFICES ASSUME Init  PROVE Owned
    OBVIOUS
  <1>1. /\ doc.usage.completed = 0
        /\ \A o \in Objectives : doc.objs[o].token = NoToken /\ doc.objs[o].retries = 0
        /\ \A w \in Workers : att[w].pc = "idle"
        /\ op.pc = "idle"
    BY DEF Init, NewMission, NewObjective, NoAttempt, NoCommand
  <1>2. NeverOvercounted
    BY <1>1, VerifiedFinite DEF NeverOvercounted
  <1>3. RetriesBounded
    BY <1>1, BudgetAssumption DEF RetriesBounded, BudgetAssumption
  <1> QED  BY <1>1, <1>2, <1>3, InitGrounded
           DEF Owned, LeaseOfRunning, RestoreStays, OwnedAttempt, Unrecorded, Granted, Counts,
               Executing

LEMMA StepOwned == Owned /\ [Next]_vars => Owned'
  <1> SUFFICES ASSUME Owned, [Next]_vars  PROVE Owned'
    OBVIOUS
  <1>0. /\ Grounded /\ Typed /\ ActorStep /\ Grounded'
        /\ \A w \in Workers : Granted(w) /\ Counts(w) /\ Unrecorded(w)
    BY StepActs, StepGrounded DEF Owned, OwnedAttempt, Grounded
  <1>1. RetriesBounded' /\ LeaseOfRunning(doc)' /\ RestoreStays' /\ NeverOvercounted'
    BY <1>0, RetriesStep, LeaseOfRunningStep, RestoreStep, OvercountedStep DEF Owned
  <1>2. ASSUME NEW w \in Workers  PROVE OwnedAttempt(w)'
    BY <1>0, <1>1, EveryAttempt, UnrecordedStep, GrantedStep, CountsStep DEF OwnedAttempt
  <1> QED  BY <1>0, <1>1, <1>2 DEF Owned

LEMMA AlwaysOwned == Spec => []Owned
  BY InitOwned, StepOwned, PTL DEF Spec

----------------------------------------------------------------------------
(* The properties.                                                          *)

\* No objective is retried more often than its budget grants: the grant was decided on
\* an earlier copy, but nobody else may count a retry of an objective its owner holds.
THEOREM RetriesStayBounded == Spec => []RetriesBounded
  BY AlwaysOwned, PTL DEF Owned

\* Completed work is counted at most once per VERIFIED objective, whatever copy of the
\* usage an attempt publishes.
THEOREM CountedOnce == Spec => []NeverOvercounted
  BY AlwaysOwned, PTL DEF Owned

\* Work is taken away from a live owner by nobody else, and by a checkpoint only if it
\* is newer than the lease or the mission is on hold.
THEOREM WorkIsOwned == Spec => OwnerDecides
  <1> DEFINE decides(o) ==
        /\ doc.objs[o].state = "RUNNING"
        /\ LeaseLive(doc.objs[o], 0)
        /\ doc'.objs[o].token # doc.objs[o].token
        => \/ \E w \in Workers : att[w].tok = doc.objs[o].token /\ att'[w] # att[w]
           \/ /\ op.pc = "restoring" /\ op.obj = o
              /\ doc.state = "RUNNING" => witness[o] \in {"late", "own"}
  <1>1. ASSUME Owned, [Next]_vars, NEW o \in Objectives  PROVE decides(o)
    <2> SUFFICES ASSUME doc.objs[o].state = "RUNNING", LeaseLive(doc.objs[o], 0),
                        doc'.objs[o].token # doc.objs[o].token
                 PROVE  \/ \E w \in Workers : att[w].tok = doc.objs[o].token /\ att'[w] # att[w]
                        \/ /\ op.pc = "restoring" /\ op.obj = o
                           /\ doc.state = "RUNNING" => witness[o] \in {"late", "own"}
      OBVIOUS
    <2>0. Typed /\ ActorStep
      BY <1>1, StepActs DEF Owned, Grounded
    <2>1. ~Kept(o) /\ ~HealedNow(o) /\ ~DroppedNow(o) /\ \A w \in Workers : ~TakenBy(w, o)
      BY DEF Kept, HealedNow, DroppedNow, TakenBy, OpenStates
    <2>2. ASSUME NEW w \in Workers, SettledBy(w, o)
          PROVE  att[w].tok = doc.objs[o].token /\ att'[w] # att[w]
      BY <2>2 DEF SettledBy, PublishedBy, Owns
    <2>3. ASSUME RestoredNow(o)
          PROVE  /\ op.pc = "restoring" /\ op.obj = o
                 /\ doc.state = "RUNNING" => witness[o] \in {"late", "own"}
      <3>1. op.pc = "restoring" /\ op.obj = o /\ CanRestore(o)
        BY <1>1, <2>3 DEF RestoredNow, RestoredByResume, Owned, RestoreStays
      <3> QED  BY <3>1 DEF CanRestore
    <2> QED  BY <2>0, <2>1, <2>2, <2>3, ObjectiveStep
  <1>2. Owned /\ [Next]_vars => [\A o \in Objectives : decides(o)]_vars
    BY <1>1
  <1> QED  BY <1>2, AlwaysOwned, PTL DEF Spec, OwnerDecides

----------------------------------------------------------------------------
(* The refinement of the ledger.                                            *)

StageOf(state) == CASE state \in {"PENDING", "READY"} -> "open"
                    [] state = "RUNNING"              -> "held"
                    [] OTHER                          -> state

\* What the ledger sees of a row.
Phase(d)  == IF d.state \in Final THEN d.state ELSE "active"
Stage(d)  == [o \in Objectives |-> StageOf(d.objs[o].state)]
Holder(d) == [o \in Objectives |-> d.objs[o].token]

LEMMA StageMeans ==
  ASSUME NEW state \in ObjectiveStates
  PROVE  /\ state \in {"PENDING", "READY"} <=> StageOf(state) = "open"
         /\ state = "RUNNING" <=> StageOf(state) = "held"
         /\ state \in Settled => StageOf(state) = state
         /\ StageOf(state) \in {"open", "held"} \cup Settled
  <1>1. CASE state \in {"PENDING", "READY"}
    <2>1. StageOf(state) = "open"
      BY <1>1 DEF StageOf
    <2> QED  BY <1>1, <2>1 DEF Settled
  <1>2. CASE state = "RUNNING"
    <2>1. StageOf(state) = "held"
      BY <1>2 DEF StageOf
    <2> QED  BY <1>2, <2>1 DEF Settled
  <1>3. CASE state \in Settled
    <2>1. StageOf(state) = state
      BY <1>3 DEF StageOf, Settled
    <2> QED  BY <1>3, <2>1 DEF Settled
  <1> QED  BY <1>1, <1>2, <1>3 DEF ObjectiveStates, Settled

\* The ledger moves by what it sees.
LEMMA LedgerTakes ==
  ASSUME NEW o \in Objectives, NEW t \in Tokens, Phase(doc) = "active", Phase(doc)' = "active",
         Stage(doc)[o] = "open", \A p \in Objectives : Holder(doc)[p] # t,
         Stage(doc)' = [Stage(doc) EXCEPT ![o] = "held"],
         Holder(doc)' = [Holder(doc) EXCEPT ![o] = t]
  PROVE  Ledger!LedgerNext
  <1>1. Ledger!Take(o, t)
    BY DEF Ledger!Take, Stage, Holder, StageOf
  <1> QED  BY <1>1 DEF Ledger!LedgerNext, Phase

LEMMA LedgerLetsGo ==
  ASSUME NEW o \in Objectives, NEW s \in {"open", "VERIFIED", "FAILED"},
         Phase(doc) = "active", Phase(doc)' = "active", Stage(doc)[o] = "held",
         Stage(doc)' = [Stage(doc) EXCEPT ![o] = s],
         Holder(doc)' = [Holder(doc) EXCEPT ![o] = NoToken]
  PROVE  Ledger!LedgerNext
  <1>1. Ledger!LetGo(o, s)
    BY DEF Ledger!LetGo, Stage, Holder, StageOf
  <1> QED  BY <1>1 DEF Ledger!LedgerNext, Phase

LEMMA LedgerDrops ==
  ASSUME NEW S \in SUBSET Objectives, Phase(doc) = "active", Phase(doc)' = "active",
         \A o \in S : Stage(doc)[o] = "open",
         Stage(doc)' = [o \in Objectives |-> IF o \in S THEN "SKIPPED" ELSE Stage(doc)[o]],
         Holder(doc)' = Holder(doc)
  PROVE  Ledger!LedgerNext
  <1>1. Ledger!Drop(S)
    BY DEF Ledger!Drop, Stage, Holder, StageOf
  <1> QED  BY <1>1 DEF Ledger!LedgerNext, Phase

LEMMA LedgerEnds ==
  ASSUME NEW s \in Final, Phase(doc) = "active", Phase(doc)' = s,
         s = "COMPLETED" =>
           /\ \A o \in Objectives : Stage(doc)[o] \in Settled
           /\ (\E o \in Objectives : Stage(doc)[o] = "FAILED") =>
                \E o \in Objectives : Stage(doc)[o] = "VERIFIED",
         Stage(doc)' = Stage(doc), Holder(doc)' = Holder(doc)
  PROVE  Ledger!LedgerNext
  <1>1. Ledger!End(s)
    BY DEF Ledger!End, Ledger!Verdicts, Settled, Phase, Stage, Holder, StageOf
  <1>2. s \in Ledger!Outcomes
    BY DEF Ledger!Outcomes, Final
  <1> QED  BY <1>1, <1>2 DEF Ledger!LedgerNext, Phase

LEMMA LedgerStutters ==
  ASSUME Phase(doc)' = Phase(doc), Stage(doc)' = Stage(doc), Holder(doc)' = Holder(doc)
  PROVE  UNCHANGED Ledger!lvars
  BY DEF Ledger!lvars, Phase, Stage, Holder, StageOf

\* An objective changes, the others are kept.
LEMMA OneChanges ==
  ASSUME NEW d, NEW e, NEW o \in Objectives,
         \A p \in Objectives \ {o} : /\ e.objs[p].state = d.objs[p].state
                                     /\ e.objs[p].token = d.objs[p].token
  PROVE  /\ Stage(e) = [Stage(d) EXCEPT ![o] = StageOf(e.objs[o].state)]
         /\ Holder(e) = [Holder(d) EXCEPT ![o] = e.objs[o].token]
  <1> DEFINE stage(ob) == StageOf(ob.state)
  <1>1. Stage(e) = [p \in Objectives |-> stage(e.objs[p])]
        /\ Stage(d) = [p \in Objectives |-> stage(d.objs[p])]
    BY DEF Stage
  <1>2. \A p \in Objectives \ {o} : stage(e.objs[p]) = stage(d.objs[p])
    OBVIOUS
  <1>3. stage(e.objs[o]) = StageOf(e.objs[o].state)
    OBVIOUS
  <1> HIDE DEF stage
  <1> QED  BY <1>1, <1>2, <1>3 DEF Holder

LEMMA NoneChanges ==
  ASSUME NEW d, NEW e,
         \A p \in Objectives : /\ e.objs[p].state = d.objs[p].state
                               /\ e.objs[p].token = d.objs[p].token
  PROVE  Stage(e) = Stage(d) /\ Holder(e) = Holder(d)
  BY DEF Stage, Holder

LEMMA StillActive ==
  ASSUME doc.state \notin Final, doc'.state = doc.state
  PROVE  Phase(doc) = "active" /\ Phase(doc)' = "active"
  BY DEF Phase

LEMMA StepOfLedger ==
  ASSUME "RESUME_CHECKPOINT" \notin Commands, Owned, [Next]_vars
  PROVE  [Ledger!LedgerNext]_(Ledger!lvars)
  <1>0. /\ Typed /\ ActorStep /\ doc \in DocType /\ LeaseOfRunning(doc)
        /\ DOMAIN doc.objs = Objectives
        /\ \A o \in Objectives : doc.objs[o] \in ObjectiveType
        /\ \A w \in Workers : Unrecorded(w)
    BY StepActs, ObjectiveOf DEF Owned, OwnedAttempt, Grounded, Typed, RowOK, DocType
  <1>1. CASE doc' = doc \/ doc' = Elapse(doc) \/ Renewed(doc, doc')
             \/ \E w \in Workers : StartedBy(w)
    <2>1. /\ doc'.state = doc.state
          /\ \A p \in Objectives : /\ doc'.objs[p].state = doc.objs[p].state
                                   /\ doc'.objs[p].token = doc.objs[p].token
      <3>1. CASE Renewed(doc, doc')
        <4>1. PICK q \in Objectives, age \in 0 .. MaxAge : doc' = Renew(doc, q, age)
          BY <3>1 DEF Renewed
        <4> QED  BY <1>0, <4>1 DEF Renew, DocType, ObjectiveType
      <3>2. CASE doc' = doc \/ doc' = Elapse(doc)
        BY <1>0, <3>2 DEF Elapse, DocType, ObjectiveType
      <3>3. CASE \E w \in Workers : StartedBy(w)
        BY <1>0, <3>3 DEF StartedBy, Started, DocType
      <3> QED  BY <1>1, <3>1, <3>2, <3>3
    <2>2. Stage(doc') = Stage(doc) /\ Holder(doc') = Holder(doc) /\ Phase(doc') = Phase(doc)
      BY <2>1, NoneChanges DEF Phase
    <2> QED  BY <2>2, LedgerStutters
  <1>2. CASE Healed(doc, doc')
    <2>1. PICK o \in Objectives, age \in 0 .. MaxAge : CanHeal(doc, o, age) /\ doc' = Heal(doc, o)
      BY <1>2 DEF Healed
    <2>2. /\ doc.state \notin Final /\ doc'.state = doc.state
          /\ doc.objs[o].state = "RUNNING"
          /\ doc'.objs[o].state = "READY" /\ doc'.objs[o].token = NoToken
          /\ \A p \in Objectives \ {o} : doc'.objs[p] = doc.objs[p]
      BY <1>0, <2>1 DEF CanHeal, Heal, DocType, ObjectiveType
    <2>3. /\ Stage(doc') = [Stage(doc) EXCEPT ![o] = "open"]
          /\ Holder(doc') = [Holder(doc) EXCEPT ![o] = NoToken]
          /\ Stage(doc)[o] = "held"
      <3>1. StageOf(doc'.objs[o].state) = "open" /\ StageOf(doc.objs[o].state) = "held"
        BY <2>2, StageMeans DEF ObjectiveStates
      <3>2. Stage(doc)[o] = "held"
        BY <3>1 DEF Stage
      <3> QED  BY <2>2, <3>1, <3>2, OneChanges
    <2> QED  BY <2>2, <2>3, StillActive, LedgerLetsGo
  <1>3. CASE Skipped(doc, doc')
    <2>1. PICK changes : /\ \A c \in changes : c[2] \in {"PENDING", "READY"}
                         /\ doc' = Skip(doc, changes)
      BY <1>3 DEF Skipped
    <2> DEFINE S == { o \in Objectives : <<o, doc.objs[o].state>> \in changes }
    <2>2. doc.state \notin Final /\ doc'.state = doc.state
      BY <1>0, <1>3, <2>1 DEF Skipped, Skip, DocType
    <2>3. ASSUME NEW o \in S
          PROVE  /\ doc.objs[o].state \in {"PENDING", "READY"} /\ doc.objs[o].token = NoToken
                 /\ doc'.objs[o].state = "SKIPPED" /\ doc'.objs[o].token = NoToken
      <3>1. doc.objs[o].state \in {"PENDING", "READY"}
        BY <2>1
      <3>2. doc.objs[o].token = NoToken
        BY <1>0, <3>1 DEF LeaseOfRunning
      <3> QED  BY <1>0, <2>1, <3>1, <3>2 DEF Skip, DocType, ObjectiveType
    <2>4. \A o \in Objectives \ S : doc'.objs[o] = doc.objs[o]
      BY <1>0, <2>1 DEF Skip, DocType
    <2> HIDE DEF S
    <2>5. S \in SUBSET Objectives
      BY DEF S
    <2>6. Holder(doc') = Holder(doc)
      BY <2>3, <2>4, <2>5 DEF Holder
    <2>7. \A o \in S : Stage(doc)[o] = "open"
      BY <2>3, <2>5, StageMeans DEF Stage, ObjectiveStates
    <2>8. Stage(doc') = [o \in Objectives |-> IF o \in S THEN "SKIPPED" ELSE Stage(doc)[o]]
      <3>1. StageOf("SKIPPED") = "SKIPPED"
        BY StageMeans DEF ObjectiveStates, Settled
      <3>2. \A o \in Objectives : StageOf(doc'.objs[o].state) =
                                    IF o \in S THEN "SKIPPED" ELSE StageOf(doc.objs[o].state)
        BY <2>3, <2>4, <3>1
      <3> QED  BY <3>2 DEF Stage
    <2> QED  BY <2>2, <2>5, <2>6, <2>7, <2>8, StillActive, LedgerDrops
  <1>4. CASE Moved(doc, doc')
    <2>1. PICK s \in MissionStates :
            /\ doc' = [doc EXCEPT !.state = s]
            /\ \/ \E c \in { m[2] : m \in Moves } : <<doc.state, c, s>> \in Moves
               \/ doc.state = "CREATED" /\ s = "WAITING_FOR_PROVIDER"
            /\ s = "COMPLETED" => Done(doc) \/ Resumable
      BY <1>4 DEF Moved
    <2>2. doc.state \notin Final
      BY <2>1, FinalHasNoMoves DEF Final
    <2>3. doc'.state = s /\ doc'.objs = doc.objs
      BY <1>0, <2>1 DEF DocType
    <2>4. Stage(doc') = Stage(doc) /\ Holder(doc') = Holder(doc)
      BY <2>3, NoneChanges
    <2>5. CASE s \notin Final
      <3>1. Phase(doc') = Phase(doc)
        BY <2>2, <2>3, <2>5 DEF Phase
      <3> QED  BY <2>4, <3>1, LedgerStutters
    <2>6. CASE s \in Final
      <3>1. Phase(doc) = "active" /\ Phase(doc)' = s
        BY <2>2, <2>3, <2>6 DEF Phase
      <3>2. ASSUME s = "COMPLETED"
            PROVE  /\ \A o \in Objectives : Stage(doc)[o] \in Settled
                   /\ (\E o \in Objectives : Stage(doc)[o] = "FAILED") =>
                        \E o \in Objectives : Stage(doc)[o] = "VERIFIED"
        <4>1. Done(doc)
          BY <2>1, <3>2 DEF Resumable
        <4>2. \A o \in Objectives : doc.objs[o].state \in Settled
          BY <4>1 DEF Done, AllSettled
        <4>3. \A o \in Objectives : Stage(doc)[o] = doc.objs[o].state
          BY <4>2, StageMeans DEF Stage, Settled, ObjectiveStates
        <4> QED  BY <4>1, <4>2, <4>3 DEF Done, AnyFailed, AnyVerified
      <3> QED  BY <2>4, <2>6, <3>1, <3>2, LedgerEnds
    <2> QED  BY <2>5, <2>6
  <1>5. ASSUME NEW w \in Workers, AcquiredBy(w)  PROVE Ledger!LedgerNext
    <2>1. PICK o \in Objectives, t \in Tokens : o = att[w].obj /\ t = att[w].tok
      BY <1>0, <1>5, TokenOf DEF AcquiredBy, Attempting
    <2>2. /\ doc.state \notin Final /\ doc'.state = doc.state
          /\ doc.objs[o].state \in {"PENDING", "READY"}
          /\ doc'.objs[o].state = "RUNNING" /\ doc'.objs[o].token = t
          /\ \A p \in Objectives \ {o} : doc'.objs[p] = doc.objs[p]
      BY <1>0, <1>5, <2>1 DEF AcquiredBy, CanAcquire, Acquire, DocType, ObjectiveType
    <2>3. \A p \in Objectives : Holder(doc)[p] # t
      BY <1>0, <1>5, <2>1 DEF Unrecorded, AcquiredBy, Holder
    <2>4. /\ Stage(doc') = [Stage(doc) EXCEPT ![o] = "held"]
          /\ Holder(doc') = [Holder(doc) EXCEPT ![o] = t]
          /\ Stage(doc)[o] = "open"
      <3>1. StageOf(doc'.objs[o].state) = "held" /\ StageOf(doc.objs[o].state) = "open"
        BY <2>2, StageMeans DEF ObjectiveStates
      <3>2. Stage(doc)[o] = "open"
        BY <2>1, <3>1 DEF Stage
      <3>3. \A p \in Objectives \ {o} : /\ doc'.objs[p].state = doc.objs[p].state
                                        /\ doc'.objs[p].token = doc.objs[p].token
        BY <2>2
      <3>4. /\ Stage(doc') = [Stage(doc) EXCEPT ![o] = StageOf(doc'.objs[o].state)]
            /\ Holder(doc') = [Holder(doc) EXCEPT ![o] = doc'.objs[o].token]
        BY <3>3 DEF Stage, Holder
      <3> QED  BY <2>2, <3>1, <3>2, <3>4
    <2> QED  BY <2>1, <2>2, <2>3, <2>4, StillActive, LedgerTakes
  <1>6. ASSUME NEW w \in Workers, PublishedBy(w)  PROVE [Ledger!LedgerNext]_(Ledger!lvars)
    <2>0. att[w].obj \in Objectives
      BY <1>0, <1>6, TokenOf DEF PublishedBy, Attempting, Executing
    <2>1. /\ doc.state \notin Final /\ doc'.state \notin Final
          /\ \A p \in Objectives \ {att[w].obj} : doc'.objs[p] = doc.objs[p]
      BY <1>0, <1>6 DEF PublishedBy, MayFinalize, CanFinalize, Finalized, Publish, Publication,
                        DocType, Final
    <2>2. Phase(doc) = "active" /\ Phase(doc)' = "active"
      BY <2>1 DEF Phase
    <2>3. CASE Kept(att[w].obj)
      <3>1. Stage(doc') = Stage(doc) /\ Holder(doc') = Holder(doc)
        BY <2>1, <2>3, NoneChanges DEF Kept
      <3> QED  BY <2>2, <3>1, LedgerStutters
    <2>4. CASE SettledBy(w, att[w].obj)
      <3> DEFINE o == att[w].obj
                 s == StageOf(doc'.objs[o].state)
      <3>1. /\ doc'.objs[o].state \in {"PENDING", "VERIFIED", "FAILED"}
            /\ doc.objs[o].state = "RUNNING" /\ doc'.objs[o].token = NoToken
        BY <2>4, PublicationMeans DEF SettledBy, Owns
      <3>2. s \in {"open", "VERIFIED", "FAILED"} /\ StageOf(doc.objs[o].state) = "held"
        BY <3>1, StageMeans DEF ObjectiveStates, Settled
      <3> HIDE DEF o, s
      <3>3. /\ Stage(doc') = [Stage(doc) EXCEPT ![o] = s]
            /\ Holder(doc') = [Holder(doc) EXCEPT ![o] = NoToken]
            /\ Stage(doc)[o] = "held"
        <4>1. Stage(doc)[o] = "held"
          BY <2>0, <3>2 DEF Stage, o
        <4>2. o \in Objectives /\ \A p \in Objectives \ {o} : doc'.objs[p] = doc.objs[p]
          BY <2>0, <2>1 DEF o
        <4>3. s = StageOf(doc'.objs[o].state)
          BY DEF s
        <4> QED  BY <3>1, <4>1, <4>2, <4>3, OneChanges
      <3> QED  BY <2>0, <2>2, <3>2, <3>3, LedgerLetsGo DEF o
    <2> QED  BY <1>0, <1>6, <2>0, <2>3, <2>4, PublishedObjective
  <1>7. ~RestoredByResume
    BY <1>0 DEF RestoredByResume, Typed, CommandShape, Resumable
  <1> QED  BY <1>0, <1>1, <1>2, <1>3, <1>4, <1>5, <1>6, <1>7 DEF ActorStep, Plainly

LEMMA InitOfLedger == Init => Ledger!LedgerInit
  <1> SUFFICES ASSUME Init  PROVE Ledger!LedgerInit
    OBVIOUS
  <1>1. Phase(doc) = "active" /\ Holder(doc) = [o \in Objectives |-> NoToken]
    BY DEF Init, NewMission, NewObjective, Phase, Holder, Final
  <1>2. Stage(doc) = [o \in Objectives |-> "open"]
    BY DEF Init, NewMission, NewObjective, Stage, StageOf
  <1> QED  BY <1>1, <1>2 DEF Ledger!LedgerInit, Phase, Stage, Holder, StageOf

\* The mission is a ledger to whoever watches it: open objectives are taken by
\* acquisitions that hold nothing else, held ones are settled or let go once, and a
\* COMPLETED mission is done, where nobody resumes from checkpoints.
THEOREM MissionIsLedger ==
  ASSUME "RESUME_CHECKPOINT" \notin Commands  PROVE Spec => KeepsLedger
  <1>1. Owned /\ [Next]_vars => [Ledger!LedgerNext]_(Ledger!lvars)
    BY StepOfLedger
  <1> QED  BY <1>1, InitOfLedger, AlwaysOwned, PTL DEF Spec, KeepsLedger, Ledger!LedgerSpec
=============================================================================
