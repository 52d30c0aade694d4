------------------------ MODULE MissionSafety_proofs ------------------------
(***************************************************************************)
(* The safety of one mission, for every number of objectives, workers,      *)
(* commands, faults and ticks.                                             *)
(*                                                                         *)
(* The argument has three layers.  Grounded, an inductive invariant, says   *)
(* what a decision in flight still is worth when it reaches the store: a    *)
(* write that is derived from the row as it is, and a decision to COMPLETE,  *)
(* are as right as when they were taken.  From it, every step is one of a   *)
(* few changes of the row (RowStep).  The properties follow from RowStep    *)
(* alone, without the workers.                                             *)
(***************************************************************************)
EXTENDS MissionExecution_proofs

\* Everything ended, and not only by failing.
Done(d) == AllSettled(d) /\ (AnyFailed(d) => AnyVerified(d))

\* A conditional write derived from the row as it is still is one the row allows.
Based(w) == w \in base =>
    /\ att[w].pc = "resuming" => doc.state = "WAITING_FOR_PROVIDER"
    /\ att[w].pc = "starting" => doc.state \notin Final
    /\ att[w].pc = "closing" /\ att[w].plan = "BLOCK" => CanTransition(doc.state, "BLOCK")

CommandBased ==
    Operator \in base /\ op.pc \in {"first", "second", "restoring"} => doc.state = op.held

\* A recovery pass skips only what it saw open.
SkipsOpen(w) == att[w].pc = "skipping" => \A c \in att[w].todo : c[2] \in {"PENDING", "READY"}

\* The decision to complete a mission stays right until it is published.
Concluded(w) == att[w].pc = "closing" /\ att[w].plan = "COMPLETE" => Done(doc)

GroundedAttempt(w) == Based(w) /\ SkipsOpen(w) /\ Concluded(w)

Grounded == Typed /\ CommandBased /\ \A w \in Workers : GroundedAttempt(w)

----------------------------------------------------------------------------
(* What a step does to the row.                                             *)

Healed(d, e)  == \E o \in Objectives, age \in 0 .. MaxAge : CanHeal(d, o, age) /\ e = Heal(d, o)

Skipped(d, e) == /\ d.state \notin Final
                 /\ \E changes : /\ \A c \in changes : c[2] \in {"PENDING", "READY"}
                                 /\ e = Skip(d, changes)

Moved(d, e) ==
    \E s \in MissionStates :
        /\ e = [d EXCEPT !.state = s]
        /\ \/ \E c \in { m[2] : m \in Moves } : <<d.state, c, s>> \in Moves
           \/ d.state = "CREATED" /\ s = "WAITING_FOR_PROVIDER"
        /\ s = "COMPLETED" => Done(d) \/ Resumable

Acquired(d, e) ==
    \E o \in Objectives, t \in Tokens, age \in 0 .. MaxAge :
        CanAcquire(d, o, age) /\ e = Acquire(d, o, t, age)

Counted(d, e) == d.state \notin Final /\ \E u \in UsageType : e = [d EXCEPT !.usage = u]

Published(d, e) ==
    \E o \in Objectives, t \in Tokens, pub \in PublicationType :
        CanFinalize(d, o, t) /\ e = Publish(d, o, pub)

Promoted(d, e) ==
    /\ d.state \notin Final
    /\ \E o \in Objectives, u \in UsageType :
         e = [d EXCEPT !.objs[o] = [@ EXCEPT !.state = "VERIFIED", !.token = NoToken, !.left = 0],
                       !.usage = u]

Renewed(d, e) ==
    \E o \in Objectives, age \in 0 .. MaxAge :
        CanRenew(d, o, d.objs[o].token, age) /\ e = Renew(d, o, age)

\* The changes that need not name who made them, and those of an attempt or of a
\* resume from a checkpoint, by whoever makes them.
Plainly(d, e) ==
    \/ e = d \/ e = Elapse(d)
    \/ Healed(d, e) \/ Skipped(d, e) \/ Moved(d, e) \/ Renewed(d, e)

AcquiredBy(w) ==
    /\ att[w].pc = "acquiring" /\ att'[w].pc # "acquiring"
    /\ CanAcquire(doc, att[w].obj, att[w].age)
    /\ doc' = Acquire(doc, att[w].obj, att[w].tok, att[w].age)

StartedBy(w) == att[w].pc = "starting" /\ w \in base /\ doc' = Started(att[w].obj)

PublishedBy(w) ==
    /\ att[w].pc \in {"evidence", "publishing"} /\ att'[w] # att[w]
    /\ MayFinalize(att[w])
    /\ doc' = Finalized(att[w])

RestoredByResume == op.pc = "restoring" /\ Operator \in base /\ doc' = Restored(op.obj)

ActorStep ==
    \/ Plainly(doc, doc')
    \/ \E w \in Workers : AcquiredBy(w) \/ StartedBy(w) \/ PublishedBy(w)
    \/ RestoredByResume

RowStep(d, e) ==
    \/ e = d \/ e = Elapse(d)
    \/ Healed(d, e) \/ Skipped(d, e) \/ Moved(d, e) \/ Acquired(d, e)
    \/ Counted(d, e) \/ Published(d, e) \/ Renewed(d, e) \/ Promoted(d, e)

----------------------------------------------------------------------------
(* What follows from a change of the row alone.                             *)

\* No command leaves a final state.
LEMMA FinalHasNoMoves ==
  ASSUME NEW s \in Final, NEW c, NEW t  PROVE <<s, c, t>> \notin Moves
  BY DEF Final, Moves

LEMMA SameObjectiveState ==
  ASSUME NEW d \in DocType, NEW e, e = d \/ e = Elapse(d) \/ Moved(d, e) \/ Counted(d, e)
                                   \/ Renewed(d, e),
         NEW o \in Objectives
  PROVE  e.objs[o].state = d.objs[o].state
  <1>0. d.objs[o] \in ObjectiveType
    BY ObjectiveOf
  <1>1. CASE e = Elapse(d)
    BY <1>0, <1>1 DEF Elapse, DocType, ObjectiveType
  <1>2. CASE Renewed(d, e)
    <2>1. PICK p \in Objectives, age \in 0 .. MaxAge : e = Renew(d, p, age)
      BY <1>2 DEF Renewed
    <2> QED  BY <1>0, <2>1 DEF Renew, DocType, ObjectiveType
  <1>3. CASE e = d \/ Moved(d, e) \/ Counted(d, e)
    BY <1>3 DEF Moved, Counted, DocType
  <1> QED  BY <1>1, <1>2, <1>3

LEMMA PromotedObjectives ==
  ASSUME NEW d \in DocType, NEW e, Promoted(d, e)
  PROVE  /\ e.state = d.state
         /\ \E o \in Objectives : /\ e.objs[o].state = "VERIFIED" /\ e.objs[o].token = NoToken
                                  /\ \A p \in Objectives \ {o} : e.objs[p] = d.objs[p]
  <1>1. PICK o \in Objectives, u \in UsageType :
          e = [d EXCEPT !.objs[o] = [@ EXCEPT !.state = "VERIFIED", !.token = NoToken, !.left = 0],
                        !.usage = u]
    BY DEF Promoted
  <1>2. d.objs[o] \in ObjectiveType
    BY ObjectiveOf
  <1> QED  BY <1>1, <1>2 DEF DocType, ObjectiveType

\* An objective that is settled stays as it is, or a checkpoint promotes it.
LEMMA SettledStays ==
  ASSUME NEW d \in DocType, NEW e, RowStep(d, e),
         NEW o \in Objectives, d.objs[o].state \in Settled
  PROVE  e.objs[o].state \in {d.objs[o].state, "VERIFIED"}
  <1>0. d.objs[o] \in ObjectiveType
    BY ObjectiveOf
  <1>1. CASE Healed(d, e)
    BY <1>0, <1>1 DEF Healed, CanHeal, Heal, DocType, Settled
  <1>2. CASE Skipped(d, e)
    <2>1. PICK changes : /\ \A c \in changes : c[2] \in {"PENDING", "READY"}
                         /\ e = Skip(d, changes)
      BY <1>2 DEF Skipped
    <2>2. <<o, d.objs[o].state>> \notin changes
      BY <2>1 DEF Settled
    <2> QED  BY <2>1, <2>2 DEF Skip, DocType
  <1>3. CASE Acquired(d, e)
    BY <1>3 DEF Acquired, CanAcquire, Acquire, DocType, Settled
  <1>4. CASE Published(d, e)
    <2>1. PICK p \in Objectives, t \in Tokens, pub \in PublicationType :
            CanFinalize(d, p, t) /\ e = Publish(d, p, pub)
      BY <1>4 DEF Published
    <2>2. p # o
      BY <2>1 DEF CanFinalize, Owns, Settled
    <2> QED  BY <2>1, <2>2 DEF Publish, DocType
  <1>5. CASE Promoted(d, e)
    BY <1>5, PromotedObjectives
  <1> QED  BY <1>1, <1>2, <1>3, <1>4, <1>5, SameObjectiveState DEF RowStep

LEMMA DoneStays ==
  ASSUME NEW d \in DocType, NEW e, RowStep(d, e), Done(d)
  PROVE  Done(e)
  <1>1. \A o \in Objectives : e.objs[o].state \in {d.objs[o].state, "VERIFIED"}
    BY SettledStays DEF Done, AllSettled
  <1> QED  BY <1>1 DEF Done, AllSettled, AnyFailed, AnyVerified, Settled

LEMMA FinalStays ==
  ASSUME NEW d \in DocType, NEW e, RowStep(d, e), d.state \in Final
  PROVE  /\ e.state = d.state
         /\ e.usage = d.usage
         /\ \A o \in Objectives : e.objs[o].state = d.objs[o].state
  <1>1. ~Moved(d, e)
    <2> SUFFICES ASSUME Moved(d, e)  PROVE FALSE
      OBVIOUS
    <2>1. PICK s \in MissionStates :
            \/ \E c \in { m[2] : m \in Moves } : <<d.state, c, s>> \in Moves
            \/ d.state = "CREATED" /\ s = "WAITING_FOR_PROVIDER"
      BY DEF Moved
    <2> QED  BY <2>1, FinalHasNoMoves DEF Final
  <1>2. /\ ~Healed(d, e) /\ ~Skipped(d, e) /\ ~Acquired(d, e)
        /\ ~Counted(d, e) /\ ~Published(d, e) /\ ~Promoted(d, e)
    BY DEF Healed, CanHeal, Skipped, Acquired, CanAcquire, Counted, Published, CanFinalize, Promoted
  <1>3. e = d \/ e = Elapse(d) \/ Renewed(d, e)
    BY <1>1, <1>2 DEF RowStep
  <1>4. e.state = d.state /\ e.usage = d.usage
    BY <1>3 DEF Elapse, Renewed, Renew, DocType
  <1> QED  BY <1>3, <1>4, SameObjectiveState

LEMMA StateMoves ==
  ASSUME NEW d \in DocType, NEW e, RowStep(d, e), e.state # d.state
  PROVE  /\ \/ \E c \in { m[2] : m \in Moves } : <<d.state, c, e.state>> \in Moves
            \/ d.state = "CREATED" /\ e.state = "WAITING_FOR_PROVIDER"
         /\ e.state = "COMPLETED" => Done(d) \/ Resumable
  <1>1. CASE Moved(d, e)
    BY <1>1 DEF Moved, DocType
  <1>2. CASE Published(d, e)
    <2>1. PICK p \in Objectives, t \in Tokens, pub \in PublicationType : e = Publish(d, p, pub)
      BY <1>2 DEF Published
    <2>2. d.state = "RUNNING" /\ e.state \in {"WAITING_FOR_PROVIDER", "WAITING_FOR_APPROVAL"}
      BY <2>1 DEF Publish, PublicationType
    <2> DEFINE commands == { m[2] : m \in Moves }
    <2>3. /\ <<"RUNNING", "WAIT_FOR_PROVIDER", "WAITING_FOR_PROVIDER">> \in Moves
          /\ <<"RUNNING", "WAIT_FOR_APPROVAL", "WAITING_FOR_APPROVAL">> \in Moves
      BY DEF Moves
    <2>4. {"WAIT_FOR_PROVIDER", "WAIT_FOR_APPROVAL"} \subseteq commands
      BY <2>3
    <2> HIDE DEF commands
    <2>5. \E c \in commands : <<d.state, c, e.state>> \in Moves
      BY <2>2, <2>3, <2>4
    <2> QED  BY <2>2, <2>5 DEF commands
  <1>3. CASE Healed(d, e) \/ Skipped(d, e) \/ Acquired(d, e)
    BY <1>3 DEF Healed, Heal, Skipped, Skip, Acquired, Acquire, DocType
  <1>4. CASE e = d \/ e = Elapse(d) \/ Counted(d, e) \/ Renewed(d, e)
    BY <1>4 DEF Elapse, Counted, Renewed, Renew, DocType
  <1>5. CASE Promoted(d, e)
    BY <1>5, PromotedObjectives
  <1> QED  BY <1>1, <1>2, <1>3, <1>4, <1>5 DEF RowStep

\* A lease is the lease of a RUNNING objective.
LeaseOfRunning(d) == \A o \in Objectives : d.objs[o].token # NoToken => d.objs[o].state = "RUNNING"

Lone(d) == /\ LeaseOfRunning(d)
           /\ \A o, p \in Objectives : LeaseLive(d.objs[o], 0) /\ LeaseLive(d.objs[p], 0) => o = p

\* When no lease comes to life, leases stay alone.
LEMMA NoNewLease ==
  ASSUME NEW d, NEW e, Lone(d), LeaseOfRunning(e),
         \A o \in Objectives : LeaseLive(e.objs[o], 0) => LeaseLive(d.objs[o], 0)
  PROVE  Lone(e)
  BY DEF Lone

LEMMA LoneStays ==
  ASSUME MaxAge = 0, NEW d \in DocType, NEW e, RowStep(d, e), Lone(d)
  PROVE  Lone(e)
  <1>0. /\ LeaseOfRunning(d)
        /\ \A o \in Objectives : d.objs[o] \in ObjectiveType
    BY ObjectiveOf DEF Lone
  <1>1. CASE e = Elapse(d)
    <2> SUFFICES ASSUME NEW o \in Objectives
                 PROVE  /\ e.objs[o].token # NoToken => e.objs[o].state = "RUNNING"
                        /\ LeaseLive(e.objs[o], 0) => LeaseLive(d.objs[o], 0)
      BY NoNewLease DEF LeaseOfRunning
    <2>1. e.objs[o] = [d.objs[o] EXCEPT !.left =
                         IF d.objs[o].token = NoToken \/ @ = -MaxAge THEN @ ELSE @ - 1]
      BY <1>1 DEF Elapse, DocType
    <2>2. d.objs[o].left \in Int
      BY <1>0, TimesAssumption DEF ObjectiveType, TimesAssumption
    <2>3. /\ e.objs[o].token = d.objs[o].token /\ e.objs[o].state = d.objs[o].state
          /\ e.objs[o].left \in Int /\ e.objs[o].left <= d.objs[o].left
      BY <1>0, <2>1, <2>2 DEF ObjectiveType
    <2> QED  BY <1>0, <2>2, <2>3 DEF LeaseLive, LeaseOfRunning
  <1>2. CASE Healed(d, e)
    <2>1. PICK q \in Objectives : e = Heal(d, q)
      BY <1>2 DEF Healed
    <2>2. /\ e.objs[q].token = NoToken
          /\ \A o \in Objectives \ {q} : e.objs[o] = d.objs[o]
      BY <1>0, <2>1 DEF Heal, DocType, ObjectiveType
    <2> QED  BY <1>0, <2>2, NoNewLease DEF LeaseLive, LeaseOfRunning
  <1>3. CASE Skipped(d, e)
    <2>1. PICK changes : e = Skip(d, changes)
      BY <1>3 DEF Skipped
    <2>2. \A o \in Objectives : e.objs[o] = d.objs[o] \/ e.objs[o].token = NoToken
      BY <1>0, <2>1 DEF Skip, DocType, ObjectiveType
    <2> QED  BY <1>0, <2>2, NoNewLease DEF LeaseLive, LeaseOfRunning
  <1>4. CASE Moved(d, e) \/ Counted(d, e) \/ e = d
    <2>1. e.objs = d.objs
      BY <1>4 DEF Moved, Counted, DocType
    <2> QED  BY <1>0, <2>1, NoNewLease DEF LeaseOfRunning
  <1>5. CASE Acquired(d, e)
    <2>1. PICK q \in Objectives, t \in Tokens, age \in 0 .. MaxAge :
            CanAcquire(d, q, age) /\ e = Acquire(d, q, t, age)
      BY <1>5 DEF Acquired
    <2>2. age = 0
      BY <2>1
    <2>3. \A o \in Objectives \ {q} : ~LeaseLive(d.objs[o], 0)
      BY <1>0, <2>1, <2>2 DEF CanAcquire, HasOtherLiveLease, LeaseLive, LeaseOfRunning
    <2>4. /\ e.objs[q].state = "RUNNING"
          /\ \A o \in Objectives \ {q} : e.objs[o] = d.objs[o]
      BY <1>0, <2>1 DEF Acquire, DocType, ObjectiveType
    <2> QED  BY <1>0, <2>3, <2>4 DEF Lone, LeaseOfRunning
  <1>6. CASE Published(d, e)
    <2>1. PICK q \in Objectives, t \in Tokens, pub \in PublicationType : e = Publish(d, q, pub)
      BY <1>6 DEF Published
    <2>2. /\ e.objs[q] = d.objs[q] \/ e.objs[q].token = NoToken
          /\ \A o \in Objectives \ {q} : e.objs[o] = d.objs[o]
      BY <2>1 DEF Publish, DocType
    <2> QED  BY <1>0, <2>2, NoNewLease DEF LeaseLive, LeaseOfRunning
  <1>7. CASE Renewed(d, e)
    <2>1. PICK q \in Objectives, age \in 0 .. MaxAge :
            CanRenew(d, q, d.objs[q].token, age) /\ e = Renew(d, q, age)
      BY <1>7 DEF Renewed
    <2>2. LeaseLive(d.objs[q], 0)
      BY <2>1 DEF CanRenew
    <2>3. /\ e.objs[q].token = d.objs[q].token /\ e.objs[q].state = d.objs[q].state
          /\ \A o \in Objectives \ {q} : e.objs[o] = d.objs[o]
      BY <1>0, <2>1 DEF Renew, DocType, ObjectiveType
    <2> QED  BY <1>0, <2>2, <2>3, NoNewLease DEF LeaseOfRunning
  <1>8. CASE Promoted(d, e)
    BY <1>0, <1>8, PromotedObjectives, NoNewLease DEF LeaseLive, LeaseOfRunning
  <1> QED  BY <1>1, <1>2, <1>3, <1>4, <1>5, <1>6, <1>7, <1>8 DEF RowStep

----------------------------------------------------------------------------
(* Every step changes the row in one of these ways.                         *)

LEMMA WriteStep ==
  ASSUME NEW p, NEW allow, NEW d, Write(p, allow, d), allow => Plainly(doc, d)
  PROVE  ActorStep
  BY DEF Write, Commit, Refuse, Plainly, ActorStep

\* A move by a command of the transition table.
LEMMA TableMove ==
  ASSUME NEW c, NEW s \in MissionStates, <<doc.state, c, s>> \in Moves,
         s = "COMPLETED" => Done(doc) \/ Resumable
  PROVE  Moved(doc, [doc EXCEPT !.state = s])
  <1> DEFINE commands == { m[2] : m \in Moves }
  <1>1. c \in commands
    BY <<doc.state, c, s>> \in Moves
  <1> HIDE DEF commands
  <1>2. \E k \in commands : <<doc.state, k, s>> \in Moves
    BY <1>1
  <1> QED  BY <1>2 DEF Moved, commands

LEMMA ClosedMove ==
  ASSUME Grounded, NEW w \in Workers, At(w, "closing"), ClosingAllowed(att[w]),
         att[w].plan # "BLOCK"
  PROVE  Moved(doc, Closed(att[w]))
  <1>1. CanTransition(doc.state, CommandOf(att[w].plan)) /\ GroundedAttempt(w)
    BY AttemptOf DEF Grounded, Typed, Shape, At, ClosingAllowed
  <1>2. CASE att[w].plan = "COMPLETE"
    <2>1. <<doc.state, "COMPLETE", "COMPLETED">> \in Moves
      BY <1>1, <1>2 DEF CommandOf, CanTransition, Moves
    <2> QED  BY <1>1, <1>2, <2>1, TableMove
             DEF Closed, GroundedAttempt, Concluded, At, MissionStates, Final
  <1>3. CASE att[w].plan # "COMPLETE"
    <2>1. <<doc.state, "FAIL", "FAILED">> \in Moves
      BY <1>1, <1>3 DEF CommandOf, CanTransition, Moves
    <2> QED  BY <1>3, <2>1, TableMove DEF Closed, MissionStates, Final
  <1> QED  BY <1>2, <1>3

LEMMA BlockMove ==
  ASSUME doc \in DocType, CanTransition(doc.state, "BLOCK")
  PROVE  Moved(doc, [doc EXCEPT !.state = "BLOCKED"])
  <1>1. <<doc.state, "BLOCK", "BLOCKED">> \in Moves
    BY DEF CanTransition, Moves
  <1> QED  BY <1>1, TableMove DEF MissionStates

LEMMA HeldStep == ASSUME doc \in DocType, NEW s  PROVE Plainly(doc, HeldDoc(s))
  BY BlockMove DEF HeldDoc, Plainly

LEMMA FinalizedStep ==
  ASSUME Typed, NEW w \in Workers, att[w].pc \in {"evidence", "publishing"}, MayFinalize(att[w])
  PROVE  Published(doc, Finalized(att[w]))
  <1>1. att[w] \in AttemptType /\ att[w].obj \in Objectives /\ att[w].tok \in Tokens
    BY AttemptOf, DrawAssumption DEF Typed, Shape, Attempting, Executing, DrawAssumption
  <1>2. doc.objs[att[w].obj].retries \in Nat
    BY <1>1, ObjectiveOf DEF Typed, RowOK, ObjectiveType
  <1>3. Publication(att[w]) \in PublicationType
    BY <1>1, <1>2 DEF Publication, PublicationType, AttemptType, ObjectiveStates
  <1> QED  BY <1>1, <1>3 DEF Published, MayFinalize, Finalized

LEMMA StartedStep ==
  ASSUME Grounded, NEW w \in Workers, At(w, "starting"), w \in base
  PROVE  RowStep(doc, Started(att[w].obj))
  <1>1. doc.state \notin Final /\ doc \in DocType
    BY DEF Grounded, GroundedAttempt, Based, At, Typed, RowOK
  <1>2. [doc.usage EXCEPT !.replans = @ + 1] \in UsageType
    BY <1>1 DEF DocType, UsageType
  <1>3. Counted(doc, [doc EXCEPT !.usage = [doc.usage EXCEPT !.replans = @ + 1]])
    BY <1>1, <1>2 DEF Counted
  <1> QED  BY <1>3 DEF Started, RowStep

LEMMA AcquiredStep ==
  ASSUME Typed, NEW w \in Workers, At(w, "acquiring"), CanAcquire(doc, att[w].obj, att[w].age)
  PROVE  Acquired(doc, Acquire(doc, att[w].obj, att[w].tok, att[w].age))
  <1>1. att[w].obj \in Objectives /\ att[w].tok \in Tokens /\ att[w].age \in 0 .. MaxAge
    BY AttemptOf, DrawAssumption
       DEF Typed, Shape, AttemptType, At, Attempting, DrawAssumption
  <1> QED  BY <1>1 DEF Acquired

LEMMA WorkerActs ==
  ASSUME Grounded, NEW w \in Workers, WorkerStep(w)
  PROVE  ActorStep
  <1>0. /\ doc \in DocType /\ Typed /\ GroundedAttempt(w)
        /\ att[w] \in AttemptType /\ Shape(w, att[w])
        /\ att \in [Workers -> AttemptType]
    BY AttemptOf DEF Grounded, Typed, RowOK, Ticks
  <1>1. CASE BeginRecovery(w) \/ LoadMission(w) \/ ExecuteObjective(w) \/ VerifyObjective(w)
             \/ Inspect(w) \/ AppendActivity(w) \/ SaveCheckpoint(w)
    BY <1>1 DEF BeginRecovery, LoadMission, ExecuteObjective, VerifyObjective, Inspect,
                AppendActivity, SaveCheckpoint, Commit, Derive, row, Plainly, ActorStep
  <1>2. CASE HealNext(w)
    <2>1. PICK c \in att[w].todo : Write(w, CanHeal(doc, c[1], att[w].age), Heal(doc, c[1]))
      BY <1>2 DEF HealNext
    <2>2. c[1] \in Objectives /\ att[w].age \in 0 .. MaxAge
      BY <1>0 DEF AttemptType, Changes
    <2>3. CanHeal(doc, c[1], att[w].age) => Plainly(doc, Heal(doc, c[1]))
      BY <2>2 DEF Healed, Plainly
    <2> QED  BY <2>1, <2>3, WriteStep
  <1>3. CASE PublishRecovery(w)
    <2>1. doc.state \notin Final => Plainly(doc, Skip(doc, att[w].todo))
      BY <1>0, <1>3 DEF PublishRecovery, At, GroundedAttempt, SkipsOpen, Skipped, Plainly
    <2> QED  BY <1>3, <2>1, WriteStep DEF PublishRecovery
  <1>4. CASE ResumeProvider(w)
    <2>1. w \in base => Plainly(doc, [doc EXCEPT !.state = "RUNNING"])
      <3> SUFFICES ASSUME w \in base
                   PROVE  Plainly(doc, [doc EXCEPT !.state = "RUNNING"])
        OBVIOUS
      <3>1. doc.state = "WAITING_FOR_PROVIDER"
        BY <1>0, <1>4 DEF ResumeProvider, At, GroundedAttempt, Based
      <3>2. <<doc.state, "PROVIDER_AVAILABLE", "RUNNING">> \in Moves
        BY <3>1 DEF Moves
      <3> QED  BY <3>2, TableMove DEF MissionStates, Plainly
    <2>2. Plainly(doc, doc')
      <3>1. (w \in base /\ doc' = [doc EXCEPT !.state = "RUNNING"]) \/ doc' = doc
        BY <1>4 DEF ResumeProvider, Commit, Derive, Refuse
      <3> QED  BY <2>1, <3>1 DEF Plainly
    <2> QED  BY <2>2 DEF ActorStep
  <1>5. CASE WaitForProvider(w)
    <2>1. doc.state = att[w].held => Plainly(doc, [doc EXCEPT !.state = "WAITING_FOR_PROVIDER"])
      <3> SUFFICES ASSUME doc.state = att[w].held
                   PROVE  Plainly(doc, [doc EXCEPT !.state = "WAITING_FOR_PROVIDER"])
        OBVIOUS
      <3>1. doc.state \in {"RUNNING", "CREATED"}
        BY <1>0, <1>5 DEF WaitForProvider, At, Shape
      <3>2. CASE doc.state = "RUNNING"
        <4>1. <<doc.state, "WAIT_FOR_PROVIDER", "WAITING_FOR_PROVIDER">> \in Moves
          BY <3>2 DEF Moves
        <4> QED  BY <4>1, TableMove DEF MissionStates, Plainly
      <3>3. CASE doc.state = "CREATED"
        <4>1. Moved(doc, [doc EXCEPT !.state = "WAITING_FOR_PROVIDER"])
          BY <3>3 DEF Moved, MissionStates
        <4> QED  BY <4>1 DEF Plainly
      <3> QED  BY <3>1, <3>2, <3>3
    <2> QED  BY <1>5, <2>1, WriteStep DEF WaitForProvider
  <1>6. CASE CloseMission(w)
    <2>1. ClosingAllowed(att[w]) => Plainly(doc, Closed(att[w]))
      BY <1>6, ClosedMove DEF CloseMission, Plainly
    <2> QED  BY <1>6, <2>1, WriteStep DEF CloseMission
  <1>7. CASE BlockMission(w)
    <2>1. w \in base => Plainly(doc, [doc EXCEPT !.state = "BLOCKED"])
      BY <1>0, <1>7, BlockMove DEF BlockMission, At, GroundedAttempt, Based, Plainly
    <2>2. CASE Derive(w)
      BY <2>2 DEF Derive, Plainly, ActorStep
    <2>3. CASE Write(w, w \in base, [doc EXCEPT !.state = "BLOCKED"])
      BY <2>1, <2>3, WriteStep
    <2> QED  BY <1>7, <2>2, <2>3 DEF BlockMission
  <1>8. CASE AcquireObjectiveLease(w)
    <2>1. CASE /\ CanAcquire(doc, att[w].obj, att[w].age)
               /\ doc' = Acquire(doc, att[w].obj, att[w].tok, att[w].age)
               /\ Goto(w, [att[w] EXCEPT !.pc = "starting", !.age = 0, !.held = doc.state])
      <3>1. att'[w].pc = "starting"
        BY <1>0, <2>1 DEF Goto, AttemptType
      <3>2. AcquiredBy(w)
        BY <1>8, <2>1, <3>1 DEF AcquireObjectiveLease, At, AcquiredBy
      <3> QED  BY <3>2 DEF ActorStep
    <2>2. CASE Refuse(w)
      BY <2>2 DEF Refuse, Plainly, ActorStep
    <2> QED  BY <1>8, <2>1, <2>2 DEF AcquireObjectiveLease
  <1>9. CASE StartObjective(w)
    BY <1>9 DEF StartObjective, At, Write, Commit, Refuse, StartedBy, Plainly, ActorStep
  <1>10. CASE PublishEvidence(w) \/ PublishResult(w)
    <2>1. att'[w].pc # att[w].pc
      <3>1. CASE EndTick(w)
        BY <1>0, <1>10, <3>1 DEF EndTick, Goto, NoAttempt, PublishEvidence, PublishResult, At
      <3>2. CASE Note(w)
        BY <1>0, <1>10, <3>2 DEF Note, Goto, NoAttempt, PublishEvidence, PublishResult, At
      <3>3. CASE /\ PublishEvidence(w)
                 /\ Goto(w, [att[w] EXCEPT !.pc = "verifying", !.held = doc'.state, !.tries = 0])
        BY <1>0, <3>3 DEF Goto, PublishEvidence, At, AttemptType
      <3> QED  BY <1>10, <3>1, <3>2, <3>3 DEF PublishEvidence, PublishResult
    <2>2. Write(w, MayFinalize(att[w]), Finalized(att[w])) /\ att[w].pc \in {"evidence", "publishing"}
      BY <1>10 DEF PublishEvidence, PublishResult, At
    <2>3. CASE MayFinalize(att[w])
      BY <2>1, <2>2, <2>3 DEF Write, Commit, PublishedBy, ActorStep
    <2>4. CASE ~MayFinalize(att[w])
      BY <2>2, <2>4 DEF Write, Refuse, Plainly, ActorStep
    <2> QED  BY <2>3, <2>4
  <1>11. CASE HoldMission(w)
    BY <1>0, <1>11, HeldStep DEF HoldMission, Commit, ActorStep
  <1> QED  BY <1>1, <1>2, <1>3, <1>4, <1>5, <1>6, <1>7, <1>8, <1>9, <1>10, <1>11 DEF WorkerStep

LEMMA CommandedMove ==
  ASSUME Grounded, op.pc \in {"first", "second"}, CommandApplies
  PROVE  Moved(doc, Commanded)
  <1>1. /\ CanTransition(op.held, op.cmd) /\ CommandBased
        /\ op.cmd \in CommandKinds \cup {"", "COMPLETE"} /\ (op.cmd = "COMPLETE" => Resumable)
    BY DEF Grounded, Typed, CommandShape, CommandType
  <1>2. doc.state = op.held
    BY <1>1 DEF CommandApplies, CommandBased
  <1>3. <<doc.state, op.cmd, Transition(op.held, op.cmd)>> \in Moves
    BY <1>1, <1>2, TransitionType
  <1>4. Transition(op.held, op.cmd) = "COMPLETED" => Resumable
    BY <1>1, <1>3 DEF Moves, CommandKinds
  <1>5. Transition(op.held, op.cmd) \in MissionStates
    BY <1>1, TransitionType
  <1> QED  BY <1>3, <1>4, <1>5, TableMove DEF Commanded

LEMMA RestoredStep ==
  ASSUME Grounded, op.pc = "restoring", Operator \in base
  PROVE  Promoted(doc, Restored(op.obj))
  <1>1. doc \in DocType /\ op.obj \in Objectives /\ doc.state \notin Final
    BY DEF Grounded, CommandBased, Typed, RowOK, CommandShape
  <1> DEFINE u == [doc.usage EXCEPT !.completed = @ + 1]
             ob == [doc.objs[op.obj] EXCEPT !.state = "VERIFIED", !.token = NoToken, !.left = 0]
  <1>2. doc.usage.completed + 1 \in Nat
    BY <1>1 DEF DocType, UsageType
  <1>3. u \in UsageType
    BY <1>1, <1>2 DEF DocType, UsageType
  <1>4. Restored(op.obj) = [doc EXCEPT !.objs[op.obj] = ob, !.usage = u]
    BY <1>1 DEF Restored, DocType
  <1> QED  BY <1>1, <1>3, <1>4 DEF Promoted

LEMMA StepActs == Grounded /\ [Next]_vars => ActorStep
  <1> SUFFICES ASSUME Grounded, [Next]_vars  PROVE ActorStep
    OBVIOUS
  <1>0. Typed /\ doc \in DocType /\ att \in [Workers -> AttemptType]
    BY DEF Grounded, Typed, RowOK, Ticks
  <1> USE DEF Plainly, ActorStep
  <1>1. ASSUME NEW w \in Workers, WorkerStep(w)  PROVE ActorStep
    BY <1>1, WorkerActs
  <1>2. ASSUME NEW w \in Workers, RequiredWriteFails(w)  PROVE ActorStep
    <2>1. CASE UNCHANGED row
      BY <2>1 DEF row
    <2>2. CASE att[w].pc = "starting" /\ w \in base /\ Commit(Started(att[w].obj))
      BY <2>2 DEF Commit, StartedBy
    <2>3. CASE /\ att[w].pc \in {"evidence", "publishing"}
               /\ MayFinalize(att[w]) /\ Commit(Finalized(att[w]))
      <3>0. att[w].tries \in Nat
        BY <1>0, BoundsAssumption DEF AttemptType, BoundsAssumption
      <3>1. ASSUME Goto(w, [att[w] EXCEPT !.tries = @ + 1])  PROVE att'[w].tries # att[w].tries
        BY <1>0, <3>0, <3>1 DEF Goto, AttemptType
      <3>2. ASSUME Goto(w, [NoAttempt EXCEPT !.pc = "holding", !.held = att[w].held])
            PROVE  att'[w].pc # att[w].pc
        BY <1>0, <2>3, <3>2 DEF Goto, NoAttempt
      <3>3. att'[w] # att[w]
        BY <1>2, <3>1, <3>2 DEF RequiredWriteFails
      <3> QED  BY <2>3, <3>3 DEF Commit, PublishedBy
    <2>4. CASE /\ att[w].pc = "closing" /\ att[w].plan # "BLOCK"
               /\ ClosingAllowed(att[w]) /\ Commit(Closed(att[w]))
      BY <2>4, ClosedMove DEF Commit, At
    <2> QED  BY <1>2, <2>1, <2>2, <2>3, <2>4 DEF RequiredWriteFails, RequiredWrite
  <1>3. ASSUME NEW w \in Workers, CallFails(w)  PROVE ActorStep
    <2>1. CASE Refuse(w)
      BY <2>1 DEF Refuse
    <2>2. CASE /\ At(w, "acquiring") /\ CanAcquire(doc, att[w].obj, att[w].age)
               /\ Commit(Acquire(doc, att[w].obj, att[w].tok, att[w].age))
      <3>1. att'[w].pc = "idle"
        BY <1>0, <1>3 DEF CallFails, EndTick, Goto, NoAttempt
      <3> QED  BY <2>2, <3>1 DEF Commit, At, AcquiredBy
    <2> QED  BY <1>3, <2>1, <2>2 DEF CallFails
  <1>4. ASSUME NEW w \in Workers, GateFails(w) \/ Crash(w) \/ StartRenewal(w)
        PROVE  ActorStep
    BY <1>4 DEF GateFails, Crash, StartRenewal, Refuse, row
  <1>5. ASSUME NEW o \in Objectives, RenewObjectiveLease(o)  PROVE ActorStep
    <2>1. wire[o] # NotSent => wire[o] \in 0 .. MaxAge
      BY <1>0, TimesAssumption DEF Typed, RowOK, NotSent, TimesAssumption
    <2> QED  BY <1>5, <2>1 DEF RenewObjectiveLease, Renewed
  <1>6. ASSUME NEW o \in Objectives, RenewalFails(o)  PROVE ActorStep
    BY <1>6 DEF RenewalFails
  <1>7. ASSUME NEW c \in Commands, IssueCommand(c)  PROVE ActorStep
    BY <1>7 DEF IssueCommand, Derive
  <1>8. CASE ApplyCommand
    <2>1. op.pc \in {"first", "second"}
      BY <1>8 DEF ApplyCommand
    <2>2. CommandApplies => Plainly(doc, Commanded)
      BY <2>1, CommandedMove
    <2>3. Derive(Operator) \/ Write(Operator, CommandApplies, Commanded)
      BY <1>8 DEF ApplyCommand
    <2>4. CASE Derive(Operator)
      BY <2>4 DEF Derive
    <2>5. CASE Write(Operator, CommandApplies, Commanded)
      <3> HIDE DEF Plainly, ActorStep
      <3> QED  BY <2>2, <2>5, WriteStep
    <2> QED  BY <2>3, <2>4, <2>5
  <1>9. CASE HoldCommanded
    <2>1. Plainly(doc, doc')
      BY <1>0, <1>9, HeldStep DEF HoldCommanded, Commit
    <2> QED  BY <2>1
  <1>10. CASE CommandFails
    BY <1>10, CommandedMove DEF CommandFails, Refuse, Commit, row, RestoredByResume
  <1>13. CASE ResumeFromCheckpoint
    BY <1>13 DEF ResumeFromCheckpoint, Derive, row
  <1>14. CASE RestoreVerified
    BY <1>14 DEF RestoreVerified, Write, Commit, Refuse, RestoredByResume
  <1>11. CASE Tick
    BY <1>11 DEF Tick
  <1>12. CASE UNCHANGED vars
    BY <1>12 DEF vars
  <1> QED  BY <1>1, <1>2, <1>3, <1>4, <1>5, <1>6, <1>7, <1>8, <1>9, <1>10, <1>11, <1>12,
              <1>13, <1>14
           DEF Next, Fault

LEMMA StepRow == Grounded /\ [Next]_vars => RowStep(doc, doc')
  <1> SUFFICES ASSUME Grounded, ActorStep  PROVE RowStep(doc, doc')
    BY StepActs
  <1>0. Typed
    BY DEF Grounded
  <1>1. ASSUME NEW w \in Workers, AcquiredBy(w)  PROVE RowStep(doc, doc')
    BY <1>0, <1>1, AcquiredStep DEF AcquiredBy, At, RowStep
  <1>2. ASSUME NEW w \in Workers, StartedBy(w)  PROVE RowStep(doc, doc')
    BY <1>2, StartedStep DEF StartedBy, At
  <1>3. ASSUME NEW w \in Workers, PublishedBy(w)  PROVE RowStep(doc, doc')
    BY <1>0, <1>3, FinalizedStep DEF PublishedBy, RowStep
  <1>4. CASE RestoredByResume
    BY <1>4, RestoredStep DEF RestoredByResume, RowStep
  <1>5. CASE Plainly(doc, doc')
    BY <1>5 DEF Plainly, RowStep
  <1> QED  BY <1>1, <1>2, <1>3, <1>4, <1>5 DEF ActorStep

----------------------------------------------------------------------------
(* Grounded is inductive.                                                   *)

\* Whoever still has a basis after a step of p had it before, on the same state.
Keeps(p) ==
    \A q \in (Workers \cup {Operator}) \ {p} : q \in base' => q \in base /\ doc'.state = doc.state

LEMMA CommitKeeps == ASSUME NEW p, NEW d, Commit(d)  PROVE Keeps(p) /\ p \notin base'
  BY DEF Commit, Keeps

LEMMA RefuseKeeps == ASSUME NEW p, Refuse(p)  PROVE Keeps(p) /\ p \notin base'
  BY DEF Refuse, Keeps

LEMMA WriteKeeps ==
  ASSUME NEW p, NEW allow, NEW d, Write(p, allow, d)  PROVE Keeps(p) /\ p \notin base'
  BY CommitKeeps, RefuseKeeps DEF Write

LEMMA DeriveKeeps == ASSUME NEW p, Derive(p)  PROVE Keeps(p) /\ doc' = doc
  BY DEF Derive, Keeps

LEMMA WorkerKeeps ==
  ASSUME NEW w \in Workers,
         WorkerStep(w) \/ RequiredWriteFails(w) \/ CallFails(w) \/ GateFails(w) \/ Crash(w)
  PROVE  Keeps(w)
  <1>1. UNCHANGED row => Keeps(w)
    BY DEF row, Keeps
  <1>2. CASE BeginRecovery(w) \/ ExecuteObjective(w) \/ VerifyObjective(w) \/ SaveCheckpoint(w)
             \/ GateFails(w)
    BY <1>1, <1>2 DEF BeginRecovery, ExecuteObjective, VerifyObjective, SaveCheckpoint, GateFails
  <1>3. CASE HealNext(w) \/ PublishRecovery(w) \/ WaitForProvider(w) \/ CloseMission(w)
             \/ StartObjective(w) \/ PublishEvidence(w) \/ PublishResult(w)
    BY <1>3, WriteKeeps DEF HealNext, PublishRecovery, WaitForProvider, CloseMission,
                            StartObjective, PublishEvidence, PublishResult
  <1>4. CASE Inspect(w) \/ LoadMission(w)
    BY <1>1, <1>4, DeriveKeeps DEF Inspect, LoadMission
  <1>5. CASE ResumeProvider(w)
    BY <1>5, CommitKeeps, DeriveKeeps, RefuseKeeps DEF ResumeProvider
  <1>6. CASE BlockMission(w)
    BY <1>6, DeriveKeeps, WriteKeeps DEF BlockMission
  <1>7. CASE AcquireObjectiveLease(w)
    BY <1>7, RefuseKeeps DEF AcquireObjectiveLease, Keeps
  <1>8. CASE AppendActivity(w) \/ HoldMission(w) \/ RequiredWriteFails(w) \/ CallFails(w) \/ Crash(w)
    BY <1>1, <1>8, CommitKeeps, RefuseKeeps
       DEF AppendActivity, HoldMission, RequiredWriteFails, RequiredWrite, CallFails, Crash
  <1> QED  BY <1>2, <1>3, <1>4, <1>5, <1>6, <1>7, <1>8 DEF WorkerStep

\* What a step of p leaves grounded: every attempt that did not take part in it.
LEMMA OtherGrounded ==
  ASSUME doc \in DocType, NEW v \in Workers, GroundedAttempt(v), RowStep(doc, doc'),
         v \in base' => v \in base /\ doc'.state = doc.state,
         att'[v].pc = att[v].pc, att'[v].plan = att[v].plan, att'[v].todo = att[v].todo
  PROVE  GroundedAttempt(v)'
  <1>1. Based(v)' /\ SkipsOpen(v)'
    BY DEF GroundedAttempt, Based, SkipsOpen
  <1>2. Concluded(v)'
    BY DoneStays DEF GroundedAttempt, Concluded
  <1> QED  BY <1>1, <1>2 DEF GroundedAttempt

\* An attempt whose next step is no decision of these kinds has nothing to ground.
LEMMA PlainGrounded ==
  ASSUME NEW w \in Workers, att'[w].pc \notin {"resuming", "starting", "closing", "skipping"}
  PROVE  GroundedAttempt(w)'
  BY DEF GroundedAttempt, Based, SkipsOpen, Concluded

LEMMA NoAttemptGrounded ==
  ASSUME Typed, NEW w \in Workers, EndTick(w) \/ Note(w)
  PROVE  GroundedAttempt(w)'
  <1>1. att'[w].pc \in {"idle", "noting"}
    <2>0. att \in [Workers -> AttemptType]
      BY DEF Typed, Ticks
    <2>1. CASE EndTick(w)
      BY <2>0, <2>1 DEF EndTick, Goto, NoAttempt
    <2>2. CASE Note(w)
      BY <2>0, <2>2 DEF Note, Goto, NoAttempt
    <2> QED  BY <2>1, <2>2
  <1> QED  BY <1>1, PlainGrounded

LEMMA CloseMeans ==
  ASSUME NEW m, NEW plan, NEW cmd
  PROVE  /\ Close(m, plan, cmd).pc \in {"idle", "closing"}
         /\ Close(m, plan, cmd).pc = "closing" =>
              Close(m, plan, cmd).plan = plan /\ CanTransition(m.state, cmd)
  <1>1. /\ NoAttempt.pc = "idle" /\ NoAttempt.plan = ""
        /\ [NoAttempt EXCEPT !.pc = "closing", !.plan = plan, !.held = m.state].pc = "closing"
        /\ [NoAttempt EXCEPT !.pc = "closing", !.plan = plan, !.held = m.state].plan = plan
    BY DEF NoAttempt
  <1> QED  BY <1>1 DEF Close

\* The decision of a pass with nothing to select is right on the copy it loaded.
LEMMA ConcludeMeans ==
  ASSUME NEW m \in DocType
  PROVE  /\ Conclude(m).pc \in {"idle", "closing"}
         /\ Conclude(m).pc = "closing" /\ Conclude(m).plan = "COMPLETE" => Done(m)
         /\ Conclude(m).pc = "closing" /\ Conclude(m).plan = "BLOCK" =>
              CanTransition(m.state, "BLOCK")
  <1>1. CASE ~AllSettled(m)
    <2>1. Conclude(m) = Close(m, "BLOCK", "BLOCK")
      BY <1>1 DEF Conclude
    <2>2. /\ Close(m, "BLOCK", "BLOCK").pc \in {"idle", "closing"}
          /\ Close(m, "BLOCK", "BLOCK").pc = "closing" =>
               Close(m, "BLOCK", "BLOCK").plan = "BLOCK" /\ CanTransition(m.state, "BLOCK")
      BY CloseMeans
    <2> QED  BY <2>1, <2>2
  <1>2. CASE AllSettled(m) /\ AnyFailed(m) /\ ~AnyVerified(m)
    <2>1. Conclude(m) = Close(m, "FAIL", "FAIL")
      BY <1>2 DEF Conclude
    <2>2. /\ Close(m, "FAIL", "FAIL").pc \in {"idle", "closing"}
          /\ Close(m, "FAIL", "FAIL").pc = "closing" =>
               Close(m, "FAIL", "FAIL").plan = "FAIL" /\ CanTransition(m.state, "FAIL")
      BY CloseMeans
    <2> QED  BY <2>1, <2>2
  <1>3. CASE AllSettled(m) /\ ~(AnyFailed(m) /\ ~AnyVerified(m))
    <2>1. Conclude(m) = Close(m, "COMPLETE", "COMPLETE")
      BY <1>3 DEF Conclude
    <2>2. Done(m)
      BY <1>3 DEF Done
    <2>3. /\ Close(m, "COMPLETE", "COMPLETE").pc \in {"idle", "closing"}
          /\ Close(m, "COMPLETE", "COMPLETE").pc = "closing" =>
               Close(m, "COMPLETE", "COMPLETE").plan = "COMPLETE"
      BY CloseMeans
    <2> QED  BY <2>1, <2>2, <2>3
  <1> QED  BY <1>1, <1>2, <1>3

LEMMA LoadGrounded ==
  ASSUME Typed, NEW w \in Workers, LoadMission(w)
  PROVE  GroundedAttempt(w)'
  <1>0. doc \in DocType /\ doc' = doc /\ att \in [Workers -> AttemptType]
    BY DEF Typed, RowOK, Ticks, LoadMission, Derive, row
  <1>1. CASE EndTick(w)
    BY <1>1, NoAttemptGrounded
  <1>2. CASE Goto(w, [NoAttempt EXCEPT !.pc = "waiting", !.held = doc.state])
    <2>1. att'[w].pc = "waiting"
      BY <1>0, <1>2 DEF Goto, NoAttempt
    <2> QED  BY <2>1, PlainGrounded
  <1>3. CASE Goto(w, Conclude(doc)) \/ Goto(w, Close(doc, "FAIL_BUDGET", "FAIL"))
    <2>1. att'[w] = Conclude(doc) \/ att'[w] = Close(doc, "FAIL_BUDGET", "FAIL")
      BY <1>0, <1>3 DEF Goto
    <2> DEFINE fail == Close(doc, "FAIL_BUDGET", "FAIL")
    <2>2. fail.pc \in {"idle", "closing"} /\ (fail.pc = "closing" => fail.plan = "FAIL_BUDGET")
      BY CloseMeans
    <2> HIDE DEF fail
    <2>3. /\ att'[w].pc \in {"idle", "closing"}
          /\ att'[w].pc = "closing" /\ att'[w].plan = "COMPLETE" => Done(doc)
          /\ att'[w].pc = "closing" /\ att'[w].plan = "BLOCK" => CanTransition(doc.state, "BLOCK")
      BY <1>0, <2>1, <2>2, ConcludeMeans DEF fail
    <2> QED  BY <1>0, <2>3 DEF GroundedAttempt, Based, SkipsOpen, Concluded
  <1>4. CASE \E o \in Selected(doc) :
               Goto(w, [NoAttempt EXCEPT !.pc  = "acquiring", !.obj = o,
                                         !.tok = CHOOSE t \in Fresh(w) : TRUE])
    <2> DEFINE tok == CHOOSE t \in Fresh(w) : TRUE
    <2> HIDE DEF tok
    <2>1. PICK o : Goto(w, [NoAttempt EXCEPT !.pc  = "acquiring", !.obj = o, !.tok = tok])
      BY <1>4 DEF tok
    <2>2. att'[w].pc = "acquiring"
      BY <1>0, <2>1 DEF Goto, NoAttempt
    <2> QED  BY <2>2, PlainGrounded
  <1> QED  BY <1>1, <1>2, <1>3, <1>4 DEF LoadMission

LEMMA WorkerGrounded ==
  ASSUME Grounded, NEW w \in Workers,
         WorkerStep(w) \/ RequiredWriteFails(w) \/ CallFails(w) \/ GateFails(w) \/ Crash(w)
  PROVE  GroundedAttempt(w)'
  <1>0. /\ Typed /\ doc \in DocType /\ GroundedAttempt(w)
        /\ att \in [Workers -> AttemptType] /\ att[w] \in AttemptType
    BY DEF Grounded, Typed, RowOK, Ticks
  <1>1. CASE LoadMission(w)
    BY <1>0, <1>1, LoadGrounded
  <1>2. CASE WaitForProvider(w) \/ CloseMission(w) \/ AppendActivity(w) \/ HoldMission(w)
             \/ CallFails(w) \/ GateFails(w) \/ Crash(w) \/ PublishResult(w)
    BY <1>0, <1>2, NoAttemptGrounded DEF WaitForProvider, CloseMission, AppendActivity,
                                         HoldMission, CallFails, GateFails, Crash, PublishResult
  <1>3. CASE BeginRecovery(w)
    <2>1. att'[w].pc = "healing"
      BY <1>0, <1>3 DEF BeginRecovery, Goto, NoAttempt
    <2> QED  BY <2>1, PlainGrounded
  <1>4. CASE HealNext(w)
    <2>1. att'[w].pc = "healing"
      BY <1>0, <1>4 DEF HealNext, Goto, At, AttemptType
    <2> QED  BY <2>1, PlainGrounded
  <1>5. CASE Inspect(w)
    <2>1. CASE /\ UNCHANGED row
               /\ \E S \in SUBSET (RepoDerived \cap Open(doc)) :
                    Goto(w, IF S # {} \/ att[w].plan = "HEALED"
                            THEN [NoAttempt EXCEPT !.pc = "skipping",
                                     !.todo = { <<o, doc.objs[o].state>> : o \in S }]
                            ELSE [NoAttempt EXCEPT !.pc = IF Runnable(doc) THEN "ready" ELSE "idle"])
      <3>1. PICK S \in SUBSET (RepoDerived \cap Open(doc)) :
                    Goto(w, IF S # {} \/ att[w].plan = "HEALED"
                            THEN [NoAttempt EXCEPT !.pc = "skipping",
                                     !.todo = { <<o, doc.objs[o].state>> : o \in S }]
                            ELSE [NoAttempt EXCEPT !.pc = IF Runnable(doc) THEN "ready" ELSE "idle"])
        BY <2>1
      <3>2. \/ att'[w].pc = "skipping" /\ att'[w].todo = { <<o, doc.objs[o].state>> : o \in S }
            \/ att'[w].pc \in {"ready", "idle"}
        BY <1>0, <3>1 DEF Goto, NoAttempt
      <3>3. \A c \in { <<o, doc.objs[o].state>> : o \in S } : c[2] \in {"PENDING", "READY"}
        BY DEF Open
      <3>4. CASE att'[w].pc = "skipping" /\ att'[w].todo = { <<o, doc.objs[o].state>> : o \in S }
        BY <3>3, <3>4 DEF GroundedAttempt, Based, SkipsOpen, Concluded
      <3> QED  BY <3>2, <3>4, PlainGrounded
    <2>2. CASE /\ doc.state = "WAITING_FOR_PROVIDER"
               /\ Goto(w, [NoAttempt EXCEPT !.pc = "resuming", !.age = att[w].age])
               /\ Derive(w)
      <3>1. att'[w].pc = "resuming" /\ doc' = doc
        BY <1>0, <2>2 DEF Goto, NoAttempt, Derive
      <3> QED  BY <2>2, <3>1 DEF GroundedAttempt, Based, SkipsOpen, Concluded
    <2> QED  BY <1>5, <2>1, <2>2 DEF Inspect
  <1>6. CASE PublishRecovery(w)
    <2>1. att'[w].pc \in {"ready", "idle"}
      BY <1>0, <1>6 DEF PublishRecovery, Goto, NoAttempt
    <2> QED  BY <2>1, PlainGrounded
  <1>7. CASE ResumeProvider(w)
    <2>1. CASE /\ doc.state = "WAITING_FOR_PROVIDER" /\ Derive(w)
               /\ Goto(w, [att[w] EXCEPT !.tries = 1])
      <3>1. att'[w].pc = "resuming" /\ doc' = doc
        BY <1>0, <1>7, <2>1 DEF Goto, Derive, ResumeProvider, At, AttemptType
      <3> QED  BY <2>1, <3>1 DEF GroundedAttempt, Based, SkipsOpen, Concluded
    <2>2. CASE \E m : Goto(w, [NoAttempt EXCEPT !.pc = IF Runnable(m) THEN "ready" ELSE "idle"])
      <3>1. att'[w].pc \in {"ready", "idle"}
        BY <1>0, <2>2 DEF Goto, NoAttempt
      <3> QED  BY <3>1, PlainGrounded
    <2> QED  BY <1>7, <2>1, <2>2 DEF ResumeProvider
  <1>8. CASE BlockMission(w)
    <2>1. CASE /\ CanTransition(doc.state, "BLOCK") /\ Derive(w)
               /\ Goto(w, [att[w] EXCEPT !.tries = 1])
      <3>1. att'[w].pc = "closing" /\ att'[w].plan = "BLOCK" /\ doc' = doc
        BY <1>0, <1>8, <2>1 DEF Goto, Derive, BlockMission, At, AttemptType
      <3> QED  BY <2>1, <3>1 DEF GroundedAttempt, Based, SkipsOpen, Concluded
    <2> QED  BY <1>0, <1>8, <2>1, NoAttemptGrounded DEF BlockMission
  <1>9. CASE AcquireObjectiveLease(w)
    <2>1. CASE /\ CanAcquire(doc, att[w].obj, att[w].age)
               /\ doc' = Acquire(doc, att[w].obj, att[w].tok, att[w].age)
               /\ Goto(w, [att[w] EXCEPT !.pc = "starting", !.age = 0, !.held = doc.state])
      <3>1. att'[w].pc = "starting" /\ doc'.state = doc.state /\ doc.state \notin Final
        BY <1>0, <2>1 DEF Goto, AttemptType, Acquire, DocType, CanAcquire
      <3> QED  BY <3>1 DEF GroundedAttempt, Based, SkipsOpen, Concluded
    <2> QED  BY <1>0, <1>9, <2>1, NoAttemptGrounded DEF AcquireObjectiveLease
  <1>10. CASE StartObjective(w) \/ ExecuteObjective(w) \/ PublishEvidence(w) \/ VerifyObjective(w)
              \/ SaveCheckpoint(w)
    <2> DEFINE goesOn == att'[w].pc \in Executing \/ EndTick(w) \/ Note(w)
    <2>1. ASSUME StartObjective(w)  PROVE goesOn
      BY <1>0, <2>1 DEF StartObjective, Goto, AttemptType, Executing
    <2>2. ASSUME ExecuteObjective(w)  PROVE goesOn
      BY <1>0, <2>2 DEF ExecuteObjective, Goto, AttemptType, Executing
    <2>3. ASSUME PublishEvidence(w)  PROVE goesOn
      BY <1>0, <2>3 DEF PublishEvidence, Goto, AttemptType, Executing
    <2>4. ASSUME VerifyObjective(w)  PROVE goesOn
      <3>1. CASE \E plan : Goto(w, Outcome(att[w], plan))
        BY <1>0, <3>1 DEF Goto, AttemptType, Outcome, Executing
      <3> QED  BY <2>4, <3>1 DEF VerifyObjective
    <2>6. ASSUME SaveCheckpoint(w)  PROVE goesOn
      BY <1>0, <2>6 DEF SaveCheckpoint, Goto, AttemptType, Executing
    <2>5. goesOn
      BY <1>10, <2>1, <2>2, <2>3, <2>4, <2>6
    <2> QED  BY <1>0, <2>5, NoAttemptGrounded, PlainGrounded DEF Executing
  <1>11. CASE RequiredWriteFails(w)
    <2>1. CASE Goto(w, [NoAttempt EXCEPT !.pc = "holding", !.held = att[w].held])
      <3>1. att'[w].pc = "holding"
        BY <1>0, <2>1 DEF Goto, NoAttempt
      <3> QED  BY <3>1, PlainGrounded
    <2>2. CASE Goto(w, [att[w] EXCEPT !.tries = @ + 1])
      <3>1. /\ att'[w].pc = att[w].pc /\ att'[w].plan = att[w].plan
            /\ att'[w].todo = att[w].todo
        BY <1>0, <2>2 DEF Goto, AttemptType
      <3>2. w \in base' => w \in base /\ doc'.state = doc.state
        BY <1>11, CommitKeeps DEF RequiredWriteFails, RequiredWrite, row
      <3>3. RowStep(doc, doc')
        BY <1>11, StepRow DEF Next, Fault
      <3> QED  BY <1>0, <3>1, <3>2, <3>3, OtherGrounded
    <2> QED  BY <1>11, <2>1, <2>2 DEF RequiredWriteFails
  <1> QED  BY <1>1, <1>2, <1>3, <1>4, <1>5, <1>6, <1>7, <1>8, <1>9, <1>10, <1>11 DEF WorkerStep

LEMMA InitGrounded == Init => Grounded
  <1> SUFFICES ASSUME Init  PROVE Grounded
    OBVIOUS
  <1>1. base = {} /\ \A w \in Workers : att[w].pc = "idle"
    BY DEF Init, NoAttempt
  <1> QED  BY <1>1, InitTyped DEF Grounded, CommandBased, GroundedAttempt, Based, SkipsOpen, Concluded

LEMMA StepGrounded == Grounded /\ [Next]_vars => Grounded'
  <1> SUFFICES ASSUME Grounded, [Next]_vars  PROVE Grounded'
    OBVIOUS
  <1>0. /\ Typed /\ Typed' /\ doc \in DocType /\ RowStep(doc, doc') /\ CommandBased
        /\ att \in [Workers -> AttemptType]
        /\ Operator \notin Workers
    BY StepTyped, StepRow, WorkersAssumption DEF Grounded, Typed, RowOK, Ticks, WorkersAssumption
  <1>1. ASSUME NEW w \in Workers,
               WorkerStep(w) \/ RequiredWriteFails(w) \/ CallFails(w) \/ GateFails(w) \/ Crash(w)
        PROVE  Grounded'
    <2>1. op' = op /\ \E a : Goto(w, a)
      BY <1>1 DEF WorkerStep, BeginRecovery, HealNext, Inspect, PublishRecovery, ResumeProvider,
                  LoadMission, WaitForProvider, CloseMission, BlockMission,
                  AcquireObjectiveLease, StartObjective, ExecuteObjective, PublishEvidence,
                  VerifyObjective, SaveCheckpoint, PublishResult, AppendActivity, HoldMission,
                  RequiredWriteFails, CallFails, GateFails, Crash, EndTick, Note
    <2>2. ASSUME NEW v \in Workers  PROVE GroundedAttempt(v)'
      <3>1. CASE v = w
        BY <1>1, <3>1, WorkerGrounded
      <3>2. CASE v # w
        <4>1. v \in base' => v \in base /\ doc'.state = doc.state
          BY <1>1, <3>2, WorkerKeeps DEF Keeps
        <4>2. att'[v] = att[v]
          BY <1>0, <2>1, <3>2 DEF Goto
        <4> QED  BY <1>0, <4>1, <4>2, OtherGrounded DEF Grounded
      <3> QED  BY <3>1, <3>2
    <2>3. CommandBased'
      BY <1>0, <1>1, <2>1, WorkerKeeps DEF Keeps, CommandBased
    <2> QED  BY <1>0, <2>2, <2>3 DEF Grounded
  <1>2. ASSUME /\ \A v \in Workers : v \in base' => v \in base /\ doc'.state = doc.state
               /\ \A v \in Workers : /\ att'[v].pc = att[v].pc
                                     /\ att'[v].plan = att[v].plan
                                     /\ att'[v].todo = att[v].todo
        PROVE  \A v \in Workers : GroundedAttempt(v)'
    BY <1>0, <1>2, OtherGrounded DEF Grounded
  <1>3. ASSUME NEW w \in Workers, StartRenewal(w)  PROVE Grounded'
    <2>1. doc' = doc /\ base' = base /\ att' = att /\ op' = op
      BY <1>3 DEF StartRenewal
    <2> QED  BY <1>0, <1>2, <2>1 DEF Grounded, CommandBased
  <1>4. ASSUME NEW o \in Objectives, RenewObjectiveLease(o) \/ RenewalFails(o)  PROVE Grounded'
    <2>1. att' = att /\ op' = op /\ (base' = {} \/ (doc' = doc /\ base' = base))
      BY <1>4 DEF RenewObjectiveLease, RenewalFails
    <2> QED  BY <1>0, <1>2, <2>1 DEF Grounded, CommandBased
  <1>5. ASSUME \/ \E c \in Commands : IssueCommand(c)
               \/ ApplyCommand \/ HoldCommanded \/ CommandFails
               \/ ResumeFromCheckpoint \/ RestoreVerified
        PROVE  Grounded'
    <2>0. UNCHANGED row => Keeps(Operator)
      BY DEF row, Keeps
    <2>1. att' = att /\ Keeps(Operator)
      BY <1>5, <2>0, CommitKeeps, RefuseKeeps, WriteKeeps, DeriveKeeps
         DEF IssueCommand, ApplyCommand, HoldCommanded, CommandFails, ResumeFromCheckpoint,
             RestoreVerified
    <2>2. CommandBased'
      <3>1. CASE \E c \in Commands : IssueCommand(c)
        BY <3>1 DEF IssueCommand, Derive, CommandBased
      <3>2. CASE ApplyCommand
        <4>1. CASE Derive(Operator) /\ op' = [op EXCEPT !.pc = "second", !.held = doc.state]
          <5>1. op'.held = doc.state /\ doc' = doc
            BY <1>0, <4>1 DEF Derive, Typed, CommandShape, CommandType
          <5> QED  BY <5>1 DEF CommandBased
        <4>2. CASE op' = NoCommand
          BY <4>2 DEF NoCommand, CommandBased
        <4> QED  BY <3>2, <4>1, <4>2 DEF ApplyCommand
      <3>3. CASE HoldCommanded
        BY <3>3, CommitKeeps DEF HoldCommanded, CommandBased
      <3>4. CASE CommandFails
        <4>1. CASE UNCHANGED row /\ op' \in {op, [op EXCEPT !.pc = "holding"]}
          BY <1>0, <4>1 DEF row, CommandBased, Typed, CommandShape, CommandType
        <4>2. CASE Operator \notin base'
          BY <4>2 DEF CommandBased
        <4> QED  BY <3>4, <4>1, <4>2, CommitKeeps, RefuseKeeps DEF CommandFails
      <3>5. CASE op' = GoOn(doc')
        BY <3>5 DEF GoOn, NoCommand, CommandBased
      <3>6. CASE ResumeFromCheckpoint
        <4>1. CASE Derive(Operator) /\ \E o \in Objectives :
                     op' = [NoCommand EXCEPT !.pc = "restoring", !.obj = o, !.held = doc.state]
          BY <4>1 DEF Derive, NoCommand, CommandBased
        <4>2. CASE op' = GoOn(doc) /\ UNCHANGED row
          BY <3>5, <4>2 DEF row
        <4> QED  BY <3>6, <4>1, <4>2 DEF ResumeFromCheckpoint
      <3> QED  BY <1>5, <3>1, <3>2, <3>3, <3>4, <3>5, <3>6 DEF RestoreVerified
    <2>3. \A v \in Workers : v \in base' => v \in base /\ doc'.state = doc.state
      BY <1>0, <2>1 DEF Keeps
    <2> QED  BY <1>0, <1>2, <2>1, <2>2, <2>3 DEF Grounded
  <1>6. CASE Tick
    <2>1. base' = base /\ op' = op /\ doc'.state = doc.state
      BY <1>0, <1>6 DEF Tick, Elapse, DocType
    <2>2. ASSUME NEW v \in Workers
          PROVE  /\ att'[v].pc = att[v].pc /\ att'[v].plan = att[v].plan
                 /\ att'[v].todo = att[v].todo
      BY <1>0, <1>6 DEF Tick, AttemptType
    <2> QED  BY <1>0, <1>2, <2>1, <2>2 DEF Grounded, CommandBased
  <1>7. CASE UNCHANGED vars
    BY <1>0, <1>2, <1>7 DEF vars, Grounded, CommandBased
  <1> QED  BY <1>1, <1>3, <1>4, <1>5, <1>6, <1>7 DEF Next, Fault

LEMMA AlwaysGrounded == Spec => []Grounded
  BY InitGrounded, StepGrounded, PTL DEF Spec

----------------------------------------------------------------------------
(* The properties.                                                          *)

LEMMA GroundedRow == Grounded /\ [Next]_vars => doc \in DocType /\ RowStep(doc, doc')
  BY StepRow DEF Grounded, Typed, RowOK

\* No decision, result, retry or hold that arrives late changes a mission that was
\* completed, failed or cancelled.
THEOREM TerminalWins == Spec => TerminalFrozen
  <1>1. Grounded /\ [Next]_vars =>
          [doc.state \in Final =>
             /\ doc'.state = doc.state
             /\ doc'.usage = doc.usage
             /\ \A o \in Objectives : doc'.objs[o].state = doc.objs[o].state]_vars
    BY GroundedRow, FinalStays
  <1> QED  BY <1>1, AlwaysGrounded, PTL DEF Spec, TerminalFrozen

\* The mission moves along the transition table, however old the copy was a move
\* was decided on.
THEOREM MovesAreLegal == Spec => LegalMoves
  <1>1. Grounded /\ [Next]_vars =>
          [doc'.state # doc.state =>
             \/ \E c \in { m[2] : m \in Moves } : <<doc.state, c, doc'.state>> \in Moves
             \/ doc.state = "CREATED" /\ doc'.state = "WAITING_FOR_PROVIDER"]_vars
    BY GroundedRow, StateMoves
  <1> QED  BY <1>1, AlwaysGrounded, PTL DEF Spec, LegalMoves

\* A mission is COMPLETED only when everything ended, and not only by failing, where
\* nobody resumes from checkpoints: such a resume completes a mission without this.
THEOREM CompletionIsEarned ==
  ASSUME "RESUME_CHECKPOINT" \notin Commands  PROVE Spec => []CompletedMeansDone
  <1> DEFINE Inv == doc.state = "COMPLETED" => Done(doc)
  <1>1. Init => Inv
    BY DEF Init, NewMission
  <1>2. Inv /\ Grounded /\ [Next]_vars => Inv'
    <2> SUFFICES ASSUME Inv, Grounded, [Next]_vars, doc'.state = "COMPLETED"
                 PROVE  Done(doc')
      OBVIOUS
    <2>1. doc \in DocType /\ RowStep(doc, doc')
      BY GroundedRow
    <2>2. Done(doc)
      BY <2>1, StateMoves DEF Resumable
    <2> QED  BY <2>1, <2>2, DoneStays
  <1>3. Inv => CompletedMeansDone
    BY DEF CompletedMeansDone, Done
  <1> QED  BY <1>1, <1>2, <1>3, AlwaysGrounded, PTL DEF Spec

\* One owner per mission, when no store call is delayed beyond the clock it read
\* (MaxAge = 0): otherwise a late renewal revives an expired lease.
THEOREM OneOwner == ASSUME MaxAge = 0  PROVE Spec => []OneLiveLease
  <1>1. Init => Lone(doc)
    BY DEF Init, NewMission, NewObjective, Lone, LeaseOfRunning, LeaseLive
  <1>2. Lone(doc) /\ Grounded /\ [Next]_vars => Lone(doc)'
    BY GroundedRow, LoneStays
  <1>3. Lone(doc) => OneLiveLease
    BY DEF Lone, OneLiveLease
  <1> QED  BY <1>1, <1>2, <1>3, AlwaysGrounded, PTL DEF Spec
=============================================================================
