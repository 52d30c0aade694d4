----------------------- MODULE MissionExecution_proofs -----------------------
(***************************************************************************)
(* Proofs about MissionExecution for every number of objectives, workers,   *)
(* tokens and ticks.                                                       *)
(***************************************************************************)
EXTENDS MissionExecution, TLAPS

----------------------------------------------------------------------------
(* What the store operations make of a document.                            *)

LEMMA NewMissionType == NewMission \in DocType /\ NewMission.usage \in UsageType
  BY TimesAssumption DEF TimesAssumption, NewMission, NewObjective, DocType, ObjectiveType, ObjectiveStates, MissionStates,
         UsageType, Final

LEMMA StateType ==
  ASSUME NEW d \in DocType, NEW s \in MissionStates
  PROVE  [d EXCEPT !.state = s] \in DocType
  BY DEF DocType

LEMMA ObjsType ==
  ASSUME NEW d \in DocType, NEW o \in Objectives, NEW ob \in ObjectiveType
  PROVE  [d EXCEPT !.objs[o] = ob] \in DocType
  BY DEF DocType

LEMMA ObjectiveOf ==
  ASSUME NEW d \in DocType, NEW o \in Objectives
  PROVE  d.objs[o] \in ObjectiveType
  BY DEF DocType

LEMMA AcquireType ==
  ASSUME NEW d \in DocType, NEW o \in Objectives, NEW t \in Tokens, NEW age \in 0 .. MaxAge
  PROVE  Acquire(d, o, t, age) \in DocType
  <1> DEFINE ob == [d.objs[o] EXCEPT !.state = "RUNNING", !.token = t, !.left = TTL - age]
  <1>1. TTL - age \in -MaxAge .. TTL
    BY TimesAssumption DEF TimesAssumption
  <1>2. ob \in ObjectiveType
    BY <1>1, ObjectiveOf DEF ObjectiveType, ObjectiveStates
  <1>3. Acquire(d, o, t, age) = [d EXCEPT !.objs[o] = ob]
    BY DEF Acquire
  <1> QED  BY <1>2, <1>3, ObjsType

LEMMA RenewType ==
  ASSUME NEW d \in DocType, NEW o \in Objectives, NEW age \in 0 .. MaxAge
  PROVE  Renew(d, o, age) \in DocType
  <1> DEFINE ob == [d.objs[o] EXCEPT !.left = TTL - age]
  <1>1. TTL - age \in -MaxAge .. TTL
    BY TimesAssumption DEF TimesAssumption
  <1>2. ob \in ObjectiveType
    BY <1>1, ObjectiveOf DEF ObjectiveType
  <1>3. Renew(d, o, age) = [d EXCEPT !.objs[o] = ob]
    BY DEF Renew
  <1> QED  BY <1>2, <1>3, ObjsType

LEMMA HealType ==
  ASSUME NEW d \in DocType, NEW o \in Objectives
  PROVE  Heal(d, o) \in DocType
  <1> DEFINE ob == [d.objs[o] EXCEPT !.state = "READY", !.token = NoToken, !.left = 0]
  <1>1. 0 \in -MaxAge .. TTL
    BY TimesAssumption DEF TimesAssumption
  <1>2. ob \in ObjectiveType
    BY <1>1, ObjectiveOf DEF ObjectiveType, ObjectiveStates
  <1>3. Heal(d, o) = [d EXCEPT !.objs[o] = ob]
    BY DEF Heal
  <1> QED  BY <1>2, <1>3, ObjsType

LEMMA ObjectivesType ==
  ASSUME NEW d \in DocType, NEW f \in [Objectives -> ObjectiveType]
  PROVE  [d EXCEPT !.objs = f] \in DocType
  BY DEF DocType

LEMMA SkipType ==
  ASSUME NEW d \in DocType, NEW changes
  PROVE  Skip(d, changes) \in DocType
  <1> DEFINE ob(o) == [d.objs[o] EXCEPT !.state = "SKIPPED", !.token = NoToken, !.left = 0]
             f == [o \in Objectives |->
                     IF <<o, d.objs[o].state>> \in changes THEN ob(o) ELSE d.objs[o]]
  <1>1. 0 \in -MaxAge .. TTL
    BY TimesAssumption DEF TimesAssumption
  <1>2. ASSUME NEW o \in Objectives
        PROVE  ob(o) \in ObjectiveType /\ d.objs[o] \in ObjectiveType
    BY <1>1, ObjectiveOf DEF ObjectiveType, ObjectiveStates
  <1> HIDE DEF ob
  <1>3. f \in [Objectives -> ObjectiveType]
    BY <1>2
  <1>4. Skip(d, changes) = [d EXCEPT !.objs = f]
    BY DEF Skip, ob
  <1> HIDE DEF f
  <1> QED  BY <1>3, <1>4, ObjectivesType

LEMMA ElapseType ==
  ASSUME NEW d \in DocType
  PROVE  Elapse(d) \in DocType
  <1> DEFINE left(o) == IF d.objs[o].token = NoToken \/ d.objs[o].left = -MaxAge
                        THEN d.objs[o].left ELSE d.objs[o].left - 1
             ob(o) == [d.objs[o] EXCEPT !.left = left(o)]
             f == [o \in Objectives |-> ob(o)]
  <1>1. ASSUME NEW o \in Objectives  PROVE  left(o) \in -MaxAge .. TTL
    BY ObjectiveOf, TimesAssumption DEF ObjectiveType, TimesAssumption
  <1>2. ASSUME NEW o \in Objectives  PROVE  ob(o) \in ObjectiveType
    <2> HIDE DEF left
    <2> QED  BY <1>1, ObjectiveOf DEF ObjectiveType
  <1>3. Elapse(d) = [d EXCEPT !.objs = f]
    BY DEF Elapse
  <1>4. f \in [Objectives -> ObjectiveType]
    BY <1>2
  <1> HIDE DEF f
  <1> QED  BY <1>3, <1>4, ObjectivesType

LEMMA RestoredType == ASSUME NEW o \in Objectives, doc \in DocType  PROVE Restored(o) \in DocType
  <1> DEFINE ob == [doc.objs[o] EXCEPT !.state = "VERIFIED", !.token = NoToken, !.left = 0]
             u  == [doc.usage EXCEPT !.completed = @ + 1]
  <1>1. 0 \in -MaxAge .. TTL
    BY TimesAssumption DEF TimesAssumption
  <1>2. ob \in ObjectiveType
    BY <1>1, ObjectiveOf DEF ObjectiveType, ObjectiveStates
  <1>3. doc.usage.completed + 1 \in Nat
    BY DEF DocType, UsageType
  <1>4. u \in UsageType
    BY <1>3 DEF DocType, UsageType
  <1>5. Restored(o) = [[doc EXCEPT !.objs[o] = ob] EXCEPT !.usage = u]
    BY DEF Restored, DocType
  <1> HIDE DEF ob, u
  <1>6. [doc EXCEPT !.objs[o] = ob] \in DocType
    BY <1>2, ObjsType
  <1> QED  BY <1>4, <1>5, <1>6 DEF DocType

\* What the owner of an attempt may publish.
PublicationType ==
  [state : ObjectiveStates, retries : Nat, usage : UsageType,
   hold : {"", "WAITING_FOR_PROVIDER", "WAITING_FOR_APPROVAL"}]

LEMMA PublishType ==
  ASSUME NEW d \in DocType, NEW o \in Objectives, NEW pub \in PublicationType
  PROVE  Publish(d, o, pub) \in DocType
  <1> DEFINE s  == IF d.state = "RUNNING" /\ pub.hold # "" THEN pub.hold ELSE d.state
             ob == IF pub.state = "RUNNING" THEN d.objs[o]
                   ELSE [state |-> pub.state, token |-> NoToken, left |-> 0,
                         retries |-> pub.retries]
  <1>1. 0 \in -MaxAge .. TTL
    BY TimesAssumption DEF TimesAssumption
  <1>2. ob \in ObjectiveType
    BY <1>1, ObjectiveOf DEF ObjectiveType, PublicationType
  <1>3. s \in MissionStates
    BY DEF PublicationType, DocType, MissionStates
  <1>4. [d.objs EXCEPT ![o] = ob] \in [Objectives -> ObjectiveType]
    BY <1>2 DEF DocType
  <1>5. Publish(d, o, pub) =
          [state |-> s, objs |-> [d.objs EXCEPT ![o] = ob], usage |-> pub.usage]
    BY DEF Publish
  <1>6. pub.usage \in UsageType
    BY DEF PublicationType
  <1> HIDE DEF s, ob
  <1> QED  BY <1>3, <1>4, <1>5, <1>6 DEF DocType

----------------------------------------------------------------------------
(* Type correctness.  TypeOK alone is not inductive: what an attempt         *)
(* publishes is typed because an attempt past its selection names an         *)
(* objective and a token, and a command moves the mission to a state because *)
(* it was issued in one that allows it.                                     *)

\* pcs of an attempt that selected an objective and drew a token
Attempting == {"acquiring", "starting", "noting"} \cup Executing

\* The command a terminal or BLOCK decision amounts to.
CommandOf(plan) == CASE plan = "COMPLETE" -> "COMPLETE"
                     [] plan = "BLOCK"    -> "BLOCK"
                     [] OTHER             -> "FAIL"

\* What the local variables of a tick of w are good for.
Shape(w, a) ==
    /\ a \in AttemptType
    /\ a.pc \in Attempting => a.obj \in Objectives /\ a.tok \in TokensOf[w]
    /\ a.pc = "waiting" => a.held \in {"RUNNING", "CREATED"}
    /\ a.pc = "closing" => CanTransition(a.held, CommandOf(a.plan))

CommandShape(c) ==
    /\ c \in CommandType
    /\ c.pc \in {"first", "second"} => CanTransition(c.held, c.cmd)
    /\ c.pc = "restoring" => Resumable /\ c.obj \in Objectives /\ c.held \notin Final
    /\ c.cmd = "COMPLETE" => Resumable

RowOK == /\ doc \in DocType
         /\ base \subseteq Workers \cup {Operator}
         /\ wire \in [Objectives -> NotSent .. MaxAge]

Ticks == att \in [Workers -> AttemptType] /\ \A w \in Workers : Shape(w, att[w])

SpentOK ==
    spent \in [commands : 0 .. MaxCommands, crashes : 0 .. MaxCrashes, faults : 0 .. MaxFaults]

WitnessOK == witness \in [Objectives -> Checkpoints]

Typed == RowOK /\ Ticks /\ CommandShape(op) /\ SpentOK /\ WitnessOK

LEMMA TypedIsTypeOK == Typed => TypeOK
  BY DEF Typed, RowOK, Ticks, CommandShape, SpentOK, WitnessOK, TypeOK

LEMMA CommitType ==
  ASSUME RowOK, NEW d \in DocType, Commit(d)  PROVE RowOK'
  BY TimesAssumption DEF RowOK, Commit, NotSent, TimesAssumption

LEMMA RefuseType ==
  ASSUME RowOK, NEW p, Refuse(p)  PROVE RowOK'
  BY DEF RowOK, Refuse

LEMMA WriteType ==
  ASSUME RowOK, NEW p, NEW allow, NEW d, allow => d \in DocType, Write(p, allow, d)
  PROVE  RowOK'
  <1>1. CASE allow
    BY <1>1, CommitType DEF Write
  <1>2. CASE ~allow
    BY <1>2, RefuseType DEF Write
  <1> QED  BY <1>1, <1>2

LEMMA DeriveType ==
  ASSUME RowOK, NEW p \in Workers \cup {Operator}, Derive(p)  PROVE RowOK'
  BY DEF RowOK, Derive

LEMMA GotoType ==
  ASSUME Ticks, NEW w \in Workers, NEW a, Shape(w, a), Goto(w, a)
  PROVE  Ticks'
  <1>1. a \in AttemptType
    BY DEF Shape
  <1>2. att' = [att EXCEPT ![w] = a] /\ att \in [Workers -> AttemptType]
    BY DEF Goto, Ticks
  <1>3. ASSUME NEW v \in Workers  PROVE Shape(v, att'[v])
    BY <1>2 DEF Ticks
  <1>4. att' \in [Workers -> AttemptType]
    BY <1>1, <1>2
  <1> QED  BY <1>3, <1>4 DEF Ticks, Shape

LEMMA NoAttemptShape == ASSUME NEW w  PROVE Shape(w, NoAttempt)
  BY NewMissionType, TimesAssumption, BoundsAssumption
     DEF Shape, NoAttempt, AttemptType, PCs, Plans, MissionStates, Attempting, Executing,
         TimesAssumption, BoundsAssumption

LEMMA EndTickType ==
  ASSUME Ticks, NEW w \in Workers, EndTick(w)  PROVE Ticks'
  BY NoAttemptShape, GotoType DEF EndTick

LEMMA SameRowType == ASSUME RowOK, UNCHANGED row  PROVE RowOK'
  BY DEF RowOK, row

LEMMA AttemptOf ==
  ASSUME Ticks, NEW w \in Workers
  PROVE  att[w] \in AttemptType /\ Shape(w, att[w])
  BY DEF Ticks

\* An attempt that ends in one of the pcs without obligations is well shaped.
LEMMA PlainShape ==
  ASSUME NEW w, NEW a \in AttemptType,
         a.pc \in {"idle", "healing", "skipping", "resuming", "ready", "holding"}
  PROVE  Shape(w, a)
  BY DEF Shape, Attempting, Executing

LEMMA NoAttemptType == NoAttempt \in AttemptType /\ NewMission.usage \in UsageType
  BY NoAttemptShape, NewMissionType DEF Shape

LEMMA RecoveryTyped ==
  ASSUME Typed, NEW w \in Workers,
         BeginRecovery(w) \/ HealNext(w) \/ Inspect(w) \/ PublishRecovery(w) \/ ResumeProvider(w)
  PROVE  RowOK' /\ Ticks'
  <1>0. /\ RowOK /\ Ticks /\ doc \in DocType /\ doc.state \in MissionStates
        /\ att[w] \in AttemptType /\ Shape(w, att[w])
        /\ NoAttempt \in AttemptType
    BY AttemptOf, NoAttemptType DEF Typed, RowOK, DocType
  <1>1. CASE BeginRecovery(w)
    <2>1. UNCHANGED row
      BY <1>1 DEF BeginRecovery
    <2> DEFINE a == [NoAttempt EXCEPT !.pc = "healing", !.todo = Abandoned(doc) \X {"RUNNING"}]
    <2>2. Abandoned(doc) \X {"RUNNING"} \in SUBSET Changes
      BY DEF Abandoned, Changes, ObjectiveStates
    <2>3. a \in AttemptType /\ a.pc = "healing"
      BY <1>0, <2>2 DEF AttemptType, PCs
    <2>4. Goto(w, a)
      BY <1>1 DEF BeginRecovery
    <2> QED  BY <1>0, <2>1, <2>3, <2>4, SameRowType, PlainShape, GotoType
  <1>2. CASE HealNext(w)
    <2>1. PICK c \in att[w].todo :
            LET heals == CanHeal(doc, c[1], att[w].age) IN
            /\ Write(w, heals, Heal(doc, c[1]))
            /\ Goto(w, [att[w] EXCEPT !.todo = @ \ {c}, !.plan = IF heals THEN "HEALED" ELSE @])
      BY <1>2 DEF HealNext
    <2> DEFINE a == [att[w] EXCEPT !.todo = @ \ {c},
                                   !.plan = IF CanHeal(doc, c[1], att[w].age)
                                            THEN "HEALED" ELSE @]
    <2>2. c[1] \in Objectives
      BY <1>0 DEF AttemptType, Changes
    <2>3. RowOK'
      BY <1>0, <2>1, <2>2, HealType, WriteType
    <2>4. a \in AttemptType /\ a.pc = "healing"
      BY <1>0, <1>2 DEF AttemptType, Plans, HealNext, At
    <2> QED  BY <1>0, <2>1, <2>3, <2>4, PlainShape, GotoType
  <1>3. CASE Inspect(w)
    <2>1. CASE UNCHANGED row /\ \E S \in SUBSET Objectives :
                 Goto(w, IF S # {} \/ att[w].plan = "HEALED"
                         THEN [NoAttempt EXCEPT !.pc = "skipping",
                                                !.todo = { <<o, doc.objs[o].state>> : o \in S }]
                         ELSE [NoAttempt EXCEPT !.pc = IF Runnable(doc) THEN "ready" ELSE "idle"])
      <3>1. PICK S \in SUBSET Objectives :
                 Goto(w, IF S # {} \/ att[w].plan = "HEALED"
                         THEN [NoAttempt EXCEPT !.pc = "skipping",
                                                !.todo = { <<o, doc.objs[o].state>> : o \in S }]
                         ELSE [NoAttempt EXCEPT !.pc = IF Runnable(doc) THEN "ready" ELSE "idle"])
        BY <2>1
      <3> DEFINE a == [NoAttempt EXCEPT !.pc = "skipping",
                                        !.todo = { <<o, doc.objs[o].state>> : o \in S }]
                 b == [NoAttempt EXCEPT !.pc = IF Runnable(doc) THEN "ready" ELSE "idle"]
      <3>2. { <<o, doc.objs[o].state>> : o \in S } \in SUBSET Changes
        BY <1>0, ObjectiveOf DEF Changes, ObjectiveType
      <3>3. a \in AttemptType /\ a.pc = "skipping"
        BY <1>0, <3>2 DEF AttemptType, PCs
      <3>4. b \in AttemptType /\ b.pc \in {"ready", "idle"}
        BY <1>0 DEF AttemptType, PCs
      <3>5. Shape(w, a) /\ Shape(w, b)
        BY <3>3, <3>4, PlainShape
      <3>6. Goto(w, a) \/ Goto(w, b)
        BY <3>1
      <3> HIDE DEF a, b
      <3> QED  BY <1>0, <2>1, <3>5, <3>6, SameRowType, GotoType
    <2>2. CASE Goto(w, [NoAttempt EXCEPT !.pc = "resuming", !.age = att[w].age]) /\ Derive(w)
      <3> DEFINE a == [NoAttempt EXCEPT !.pc = "resuming", !.age = att[w].age]
      <3>1. a \in AttemptType /\ a.pc = "resuming"
        BY <1>0 DEF AttemptType, PCs
      <3> QED  BY <1>0, <2>2, <3>1, PlainShape, GotoType, DeriveType
    <2> QED  BY <1>3, <2>1, <2>2 DEF Inspect, Open
  <1>4. CASE PublishRecovery(w)
    <2> DEFINE a == [NoAttempt EXCEPT !.pc = IF Runnable(doc) THEN "ready" ELSE "idle"]
    <2>1. a \in AttemptType /\ a.pc \in {"ready", "idle"}
      BY <1>0 DEF AttemptType, PCs
    <2>2. RowOK'
      BY <1>0, <1>4, SkipType, WriteType DEF PublishRecovery
    <2>3. Goto(w, a)
      BY <1>4 DEF PublishRecovery
    <2> QED  BY <1>0, <2>1, <2>2, <2>3, PlainShape, GotoType
  <1>5. CASE ResumeProvider(w)
    <2> DEFINE a(m) == [NoAttempt EXCEPT !.pc = IF Runnable(m) THEN "ready" ELSE "idle"]
               b == [att[w] EXCEPT !.tries = 1]
    <2>1. ASSUME NEW m  PROVE Shape(w, a(m))
      <3>1. a(m) \in AttemptType /\ a(m).pc \in {"ready", "idle"}
        BY <1>0 DEF AttemptType, PCs
      <3> QED  BY <3>1, PlainShape
    <2>2. Shape(w, b)
      <3>1. b \in AttemptType /\ b.pc = "resuming"
        BY <1>0, <1>5, BoundsAssumption DEF AttemptType, ResumeProvider, At, BoundsAssumption
      <3> QED  BY <3>1, PlainShape
    <2>3. \/ Commit([doc EXCEPT !.state = "RUNNING"]) /\ Goto(w, a(doc'))
          \/ Derive(w) /\ Goto(w, b)
          \/ Refuse(w) /\ Goto(w, a(doc))
      BY <1>5 DEF ResumeProvider
    <2>4. [doc EXCEPT !.state = "RUNNING"] \in DocType
      BY <1>0, StateType DEF MissionStates
    <2> HIDE DEF a, b
    <2> QED  BY <1>0, <2>1, <2>2, <2>3, <2>4, CommitType, DeriveType, RefuseType, GotoType
  <1> QED  BY <1>1, <1>2, <1>3, <1>4, <1>5

LEMMA CloseShape ==
  ASSUME NEW w, NEW m \in DocType, NEW plan \in Plans
  PROVE  Shape(w, Close(m, plan, CommandOf(plan)))
  <1> DEFINE a == [NoAttempt EXCEPT !.pc = "closing", !.plan = plan, !.held = m.state]
  <1>1. CASE CanTransition(m.state, CommandOf(plan))
    <2>1. a \in AttemptType
      BY NoAttemptType DEF AttemptType, PCs, DocType
    <2>2. /\ a.pc = "closing" /\ a.plan = plan /\ a.held = m.state
      BY NoAttemptType DEF AttemptType
    <2> HIDE DEF a
    <2>3. Shape(w, a)
      BY <1>1, <2>1, <2>2 DEF Shape, Attempting, Executing
    <2> QED  BY <1>1, <2>3 DEF Close, a
  <1>2. CASE ~CanTransition(m.state, CommandOf(plan))
    BY <1>2, NoAttemptShape DEF Close
  <1> QED  BY <1>1, <1>2

LEMMA ConcludeShape ==
  ASSUME NEW w, NEW m \in DocType
  PROVE  Shape(w, Conclude(m)) /\ Shape(w, Close(m, "FAIL_BUDGET", "FAIL"))
  <1>1. /\ Shape(w, Close(m, "BLOCK", CommandOf("BLOCK")))
        /\ Shape(w, Close(m, "FAIL", CommandOf("FAIL")))
        /\ Shape(w, Close(m, "COMPLETE", CommandOf("COMPLETE")))
        /\ Shape(w, Close(m, "FAIL_BUDGET", CommandOf("FAIL_BUDGET")))
    BY CloseShape DEF Plans
  <1>2. /\ CommandOf("BLOCK") = "BLOCK" /\ CommandOf("FAIL") = "FAIL"
        /\ CommandOf("COMPLETE") = "COMPLETE" /\ CommandOf("FAIL_BUDGET") = "FAIL"
    BY DEF CommandOf
  <1> QED  BY <1>1, <1>2 DEF Conclude

LEMMA LoadTyped ==
  ASSUME Typed, NEW w \in Workers, LoadMission(w)
  PROVE  RowOK' /\ Ticks'
  <1>0. RowOK /\ Ticks /\ doc \in DocType /\ doc.state \in MissionStates
    BY DEF Typed, RowOK, DocType
  <1>1. RowOK'
    BY <1>0, SameRowType, DeriveType DEF LoadMission
  <1>2. CASE EndTick(w)
    BY <1>0, <1>1, <1>2, EndTickType
  <1>3. CASE /\ Runnable(doc)
             /\ Goto(w, [NoAttempt EXCEPT !.pc = "waiting", !.held = doc.state])
    <2> DEFINE a == [NoAttempt EXCEPT !.pc = "waiting", !.held = doc.state]
    <2>1. a \in AttemptType /\ a.pc = "waiting" /\ a.held = doc.state
      BY <1>0, NoAttemptType DEF AttemptType, PCs
    <2>2. Shape(w, a)
      BY <1>3, <2>1 DEF Shape, Attempting, Executing, Runnable
    <2> QED  BY <1>0, <1>1, <1>3, <2>2, GotoType
  <1>4. CASE Goto(w, Conclude(doc)) \/ Goto(w, Close(doc, "FAIL_BUDGET", "FAIL"))
    <2>1. Shape(w, Conclude(doc)) /\ Shape(w, Close(doc, "FAIL_BUDGET", "FAIL"))
      BY <1>0, ConcludeShape
    <2> QED  BY <1>0, <1>1, <1>4, <2>1, GotoType
  <1>5. CASE /\ Fresh(w) # {}
             /\ \E o \in Selected(doc) :
                  Goto(w, [NoAttempt EXCEPT !.pc  = "acquiring", !.obj = o,
                                            !.tok = CHOOSE t \in Fresh(w) : TRUE])
    <2> DEFINE tok == CHOOSE t \in Fresh(w) : TRUE
               a(o) == [NoAttempt EXCEPT !.pc  = "acquiring", !.obj = o, !.tok = tok]
    <2>1. tok \in Fresh(w)
      BY <1>5
    <2>2. tok \in TokensOf[w] /\ tok \in Tokens
      BY <2>1, DrawAssumption DEF Fresh, DrawAssumption
    <2> HIDE DEF tok
    <2>3. PICK o \in Objectives : Goto(w, a(o))
      BY <1>5 DEF Selected, Selectable, tok
    <2>4. a(o) \in AttemptType /\ a(o).pc = "acquiring" /\ a(o).obj = o /\ a(o).tok = tok
      BY <2>2, NoAttemptType DEF AttemptType, PCs
    <2>5. Shape(w, a(o))
      BY <2>2, <2>4 DEF Shape, Attempting, Executing
    <2> QED  BY <1>0, <1>1, <2>3, <2>5, GotoType
  <1> QED  BY <1>1, <1>2, <1>3, <1>4, <1>5 DEF LoadMission

LEMMA DecisionTyped ==
  ASSUME Typed, NEW w \in Workers,
         WaitForProvider(w) \/ CloseMission(w) \/ BlockMission(w)
  PROVE  RowOK' /\ Ticks'
  <1>0. /\ RowOK /\ Ticks /\ doc \in DocType
        /\ att[w] \in AttemptType /\ Shape(w, att[w])
    BY AttemptOf DEF Typed, RowOK
  <1>1. CASE WaitForProvider(w)
    BY <1>0, <1>1, StateType, WriteType, EndTickType DEF WaitForProvider, MissionStates
  <1>2. CASE CloseMission(w)
    <2>1. Closed(att[w]) \in DocType
      BY <1>0, StateType DEF Closed, MissionStates, Final
    <2> QED  BY <1>0, <1>2, <2>1, WriteType, EndTickType DEF CloseMission
  <1>3. CASE BlockMission(w)
    <2> DEFINE a == [att[w] EXCEPT !.tries = 1]
    <2>1. \/ Derive(w) /\ Goto(w, a)
          \/ Write(w, w \in base, [doc EXCEPT !.state = "BLOCKED"]) /\ EndTick(w)
      BY <1>3 DEF BlockMission
    <2>2. /\ a \in AttemptType /\ a.pc = "closing"
          /\ a.plan = att[w].plan /\ a.held = att[w].held
      BY <1>0, <1>3, BoundsAssumption DEF AttemptType, BlockMission, At, BoundsAssumption
    <2>3. Shape(w, a)
      BY <1>0, <1>3, <2>2 DEF Shape, BlockMission, At, Attempting, Executing
    <2>4. [doc EXCEPT !.state = "BLOCKED"] \in DocType
      BY <1>0, StateType DEF MissionStates
    <2> HIDE DEF a
    <2> QED  BY <1>0, <2>1, <2>3, <2>4, DeriveType, WriteType, GotoType, EndTickType
  <1> QED  BY <1>1, <1>2, <1>3

LEMMA Bounds ==
  /\ 0 \in 0 .. MaxAge
  /\ 0 \in 0 .. Attempts /\ 1 \in 0 .. Attempts
  /\ NotSent \in NotSent .. MaxAge /\ 0 \in NotSent .. MaxAge
  BY TimesAssumption, BoundsAssumption DEF TimesAssumption, BoundsAssumption, NotSent

\* A field of an attempt in progress changes; its objective and token stay.
LEMMA AttemptingShape ==
  ASSUME NEW w \in Workers, NEW a, Shape(w, a), a.pc \in Attempting,
         NEW b \in AttemptType, b.pc \in Attempting, b.obj = a.obj, b.tok = a.tok
  PROVE  Shape(w, b)
  BY DEF Shape, Attempting, Executing

LEMMA NoteType ==
  ASSUME Ticks, NEW w \in Workers, att[w].pc \in Attempting, Note(w)
  PROVE  Ticks'
  <1> DEFINE a == [NoAttempt EXCEPT !.pc = "noting", !.obj = att[w].obj, !.tok = att[w].tok]
  <1>1. att[w] \in AttemptType /\ Shape(w, att[w])
    BY AttemptOf
  <1>2. a \in AttemptType /\ a.pc = "noting" /\ a.obj = att[w].obj /\ a.tok = att[w].tok
    BY <1>1, NoAttemptType DEF AttemptType, PCs
  <1>3. Shape(w, a)
    BY <1>1, <1>2, AttemptingShape DEF Attempting
  <1> QED  BY <1>3, GotoType DEF Note

LEMMA StartedType == ASSUME NEW o, doc \in DocType  PROVE Started(o) \in DocType
  <1>1. doc.usage.replans + 1 \in Nat
    BY DEF DocType, UsageType
  <1>2. [doc.usage EXCEPT !.replans = @ + 1] \in UsageType
    BY <1>1 DEF DocType, UsageType
  <1>3. [doc EXCEPT !.usage = [doc.usage EXCEPT !.replans = @ + 1]] \in DocType
    BY <1>2 DEF DocType
  <1> QED  BY <1>3 DEF Started

LEMMA FinalizedType ==
  ASSUME doc \in DocType, NEW a \in AttemptType, a.obj \in Objectives
  PROVE  Finalized(a) \in DocType
  <1>1. doc.objs[a.obj].retries \in Nat
    BY ObjectiveOf DEF ObjectiveType
  <1>2. Publication(a) \in PublicationType
    BY <1>1 DEF Publication, PublicationType, AttemptType, ObjectiveStates
  <1> QED  BY <1>2, PublishType DEF Finalized

LEMMA OutcomeType ==
  ASSUME NEW a \in AttemptType, NEW plan \in Plans
  PROVE  /\ Outcome(a, plan) \in AttemptType
         /\ Outcome(a, plan).pc \in {"witnessing", "publishing"}
         /\ Outcome(a, plan).obj = a.obj
         /\ Outcome(a, plan).tok = a.tok
  <1> DEFINE u == [completed |-> a.use.completed + (IF plan = "VERIFIED" THEN 1 ELSE 0),
                   failed    |-> a.use.failed + (IF plan \in {"RETRY", "REVISE", "FAILED"}
                                                 THEN 1 ELSE 0),
                   retries   |-> a.use.retries + (IF plan \in {"RETRY", "REVISE"} THEN 1 ELSE 0),
                   replans   |-> a.use.replans + (IF plan = "REVISE" THEN 1 ELSE 0)]
             h == IF plan = "APPROVAL" THEN "WAITING_FOR_APPROVAL" ELSE a.held
             p == IF plan = "VERIFIED" THEN "witnessing" ELSE "publishing"
  <1>1. u \in UsageType
    BY DEF AttemptType, UsageType
  <1>2. h \in MissionStates
    BY DEF AttemptType, MissionStates
  <1>3. Outcome(a, plan) = [a EXCEPT !.pc = p, !.plan = plan, !.held = h, !.use = u]
    BY DEF Outcome
  <1>4. p \in {"witnessing", "publishing"}
    OBVIOUS
  <1> HIDE DEF u, h, p
  <1> QED  BY <1>1, <1>2, <1>3, <1>4 DEF AttemptType, PCs

LEMMA AttemptTyped ==
  ASSUME Typed, NEW w \in Workers,
         \/ AcquireObjectiveLease(w) \/ StartObjective(w) \/ ExecuteObjective(w)
         \/ PublishEvidence(w) \/ VerifyObjective(w) \/ SaveCheckpoint(w) \/ PublishResult(w)
         \/ AppendActivity(w) \/ HoldMission(w)
  PROVE  RowOK' /\ Ticks'
  <1>0. /\ RowOK /\ Ticks /\ doc \in DocType /\ doc.state \in MissionStates
        /\ att[w] \in AttemptType /\ Shape(w, att[w])
    BY AttemptOf DEF Typed, RowOK, DocType
  <1>1. CASE AcquireObjectiveLease(w)
    <2> DEFINE a == [att[w] EXCEPT !.pc = "starting", !.age = 0, !.held = doc.state]
    <2>1. /\ att[w].obj \in Objectives /\ att[w].tok \in Tokens
          /\ att[w].age \in 0 .. MaxAge
      BY <1>0, <1>1, DrawAssumption
         DEF Shape, AttemptType, AcquireObjectiveLease, At, Attempting, DrawAssumption
    <2>2. Acquire(doc, att[w].obj, att[w].tok, att[w].age) \in DocType
      BY <1>0, <2>1, AcquireType
    <2>3. CASE /\ doc'  = Acquire(doc, att[w].obj, att[w].tok, att[w].age)
               /\ base' = {w}
               /\ wire' = [wire EXCEPT ![att[w].obj] = NotSent]
               /\ Goto(w, a)
      <3>1. RowOK'
        BY <1>0, <2>2, <2>3, Bounds DEF RowOK
      <3>2. a \in AttemptType /\ a.pc = "starting" /\ a.obj = att[w].obj /\ a.tok = att[w].tok
        BY <1>0, Bounds DEF AttemptType, PCs
      <3>3. Shape(w, a)
        BY <1>0, <1>1, <3>2, AttemptingShape DEF AcquireObjectiveLease, At, Attempting
      <3> QED  BY <1>0, <2>3, <3>1, <3>3, GotoType
    <2>4. CASE Refuse(w) /\ EndTick(w)
      BY <1>0, <2>4, RefuseType, EndTickType
    <2> QED  BY <1>1, <2>3, <2>4 DEF AcquireObjectiveLease
  <1>2. CASE StartObjective(w)
    <2> DEFINE a == [att[w] EXCEPT !.pc = "executing", !.use = doc'.usage, !.tries = 0]
    <2>1. RowOK'
      BY <1>0, <1>2, StartedType, WriteType DEF StartObjective
    <2>2. CASE EndTick(w)
      BY <1>0, <2>1, <2>2, EndTickType
    <2>3. CASE Goto(w, a)
      <3>1. doc'.usage \in UsageType
        BY <2>1 DEF RowOK, DocType
      <3>2. a \in AttemptType /\ a.pc = "executing" /\ a.obj = att[w].obj /\ a.tok = att[w].tok
        BY <1>0, <3>1, Bounds DEF AttemptType, PCs
      <3>3. Shape(w, a)
        BY <1>0, <1>2, <3>2, AttemptingShape DEF StartObjective, At, Attempting, Executing
      <3> QED  BY <1>0, <2>1, <2>3, <3>3, GotoType
    <2> QED  BY <1>2, <2>2, <2>3 DEF StartObjective
  <1>3. CASE ExecuteObjective(w)
    <2>0. att[w].pc \in Attempting
      BY <1>3 DEF ExecuteObjective, At, Attempting, Executing
    <2>1. RowOK'
      BY <1>0, <1>3, SameRowType DEF ExecuteObjective
    <2>2. ASSUME NEW next \in {"evidence", "verifying"}, Goto(w, [att[w] EXCEPT !.pc = next])
          PROVE  Ticks'
      <3> DEFINE a == [att[w] EXCEPT !.pc = next]
      <3>1. a \in AttemptType /\ a.pc \in Attempting /\ a.obj = att[w].obj /\ a.tok = att[w].tok
        BY <1>0 DEF AttemptType, PCs, Attempting, Executing
      <3>2. Shape(w, a)
        BY <1>0, <2>0, <3>1, AttemptingShape
      <3> QED  BY <1>0, <2>2, <3>2, GotoType
    <2>3. CASE Goto(w, [att[w] EXCEPT !.pc = "publishing", !.plan = "PROVIDER"])
      <3> DEFINE a == [att[w] EXCEPT !.pc = "publishing", !.plan = "PROVIDER"]
      <3>1. a \in AttemptType /\ a.pc \in Attempting /\ a.obj = att[w].obj /\ a.tok = att[w].tok
        BY <1>0 DEF AttemptType, PCs, Attempting, Executing, Plans, FailureKinds
      <3>2. Shape(w, a)
        BY <1>0, <2>0, <3>1, AttemptingShape
      <3> QED  BY <1>0, <2>1, <2>3, <3>2, GotoType
    <2>4. CASE Note(w)
      BY <1>0, <2>0, <2>1, <2>4, NoteType
    <2> QED  BY <1>3, <2>1, <2>2, <2>3, <2>4 DEF ExecuteObjective
  <1>4. CASE PublishEvidence(w)
    <2> DEFINE a == [att[w] EXCEPT !.pc = "verifying", !.held = doc'.state, !.tries = 0]
    <2>0. att[w].pc \in Attempting /\ att[w].obj \in Objectives
      BY <1>0, <1>4 DEF PublishEvidence, At, Attempting, Executing, Shape
    <2>1. RowOK'
      BY <1>0, <1>4, <2>0, FinalizedType, WriteType DEF PublishEvidence
    <2>2. CASE Goto(w, a)
      <3>1. doc'.state \in MissionStates
        BY <2>1 DEF RowOK, DocType
      <3>2. a \in AttemptType /\ a.pc = "verifying" /\ a.obj = att[w].obj /\ a.tok = att[w].tok
        BY <1>0, <3>1, Bounds DEF AttemptType, PCs
      <3>3. Shape(w, a)
        BY <1>0, <2>0, <3>2, AttemptingShape DEF Attempting, Executing
      <3> QED  BY <1>0, <2>1, <2>2, <3>3, GotoType
    <2>3. CASE Note(w)
      BY <1>0, <2>0, <2>1, <2>3, NoteType
    <2> QED  BY <1>4, <2>2, <2>3 DEF PublishEvidence
  <1>5. CASE VerifyObjective(w)
    <2>0. att[w].pc \in Attempting
      BY <1>5 DEF VerifyObjective, At, Attempting, Executing
    <2>1. RowOK'
      BY <1>0, <1>5, SameRowType DEF VerifyObjective
    <2>2. ASSUME NEW plan \in {"VERIFIED"} \cup (Failures \ {"PROVIDER"}),
                 Goto(w, Outcome(att[w], plan))
          PROVE  Ticks'
      <3>1. plan \in Plans
        BY FailuresAssumption DEF Plans, FailuresAssumption
      <3>2. Shape(w, Outcome(att[w], plan))
        BY <1>0, <2>0, <3>1, OutcomeType, AttemptingShape DEF Attempting, Executing
      <3> QED  BY <1>0, <2>2, <3>2, GotoType
    <2>3. CASE Note(w)
      BY <1>0, <2>0, <2>1, <2>3, NoteType
    <2> QED  BY <1>5, <2>1, <2>2, <2>3 DEF VerifyObjective
  <1>6. CASE PublishResult(w)
    <2>0. att[w].pc \in Attempting /\ att[w].obj \in Objectives
      BY <1>0, <1>6 DEF PublishResult, At, Attempting, Executing, Shape
    <2>1. RowOK'
      BY <1>0, <1>6, <2>0, FinalizedType, WriteType DEF PublishResult
    <2> QED  BY <1>0, <1>6, <2>0, <2>1, NoteType, EndTickType DEF PublishResult
  <1>7. CASE AppendActivity(w)
    BY <1>0, <1>7, CommitType, EndTickType DEF AppendActivity
  <1>8. CASE HoldMission(w)
    <2>1. HeldDoc(att[w].held) \in DocType
      BY <1>0, StateType DEF HeldDoc, MissionStates
    <2> QED  BY <1>0, <1>8, <2>1, CommitType, EndTickType DEF HoldMission
  <1>9. CASE SaveCheckpoint(w)
    <2> DEFINE a == [att[w] EXCEPT !.pc = "publishing", !.tries = 0]
    <2>1. a \in AttemptType /\ a.pc \in Attempting /\ a.obj = att[w].obj /\ a.tok = att[w].tok
      BY <1>0, Bounds DEF AttemptType, PCs, Attempting, Executing
    <2>2. Shape(w, a)
      BY <1>0, <1>9, <2>1, AttemptingShape DEF SaveCheckpoint, At, Attempting, Executing
    <2> QED  BY <1>0, <1>9, <2>2, SameRowType, GotoType DEF SaveCheckpoint
  <1> QED  BY <1>1, <1>2, <1>3, <1>4, <1>5, <1>6, <1>7, <1>8, <1>9

LEMMA SpendType ==
  ASSUME SpentOK,
         \/ spent.commands < MaxCommands /\ Spend("commands")
         \/ spent.crashes < MaxCrashes /\ Spend("crashes")
         \/ spent.faults < MaxFaults /\ Spend("faults")
  PROVE  SpentOK'
  BY BoundsAssumption DEF SpentOK, Spend, BoundsAssumption

LEMMA FaultTyped ==
  ASSUME Typed, NEW w \in Workers,
         RequiredWriteFails(w) \/ CallFails(w) \/ GateFails(w) \/ Crash(w)
  PROVE  RowOK' /\ Ticks' /\ SpentOK' /\ op' = op
  <1>0. /\ RowOK /\ Ticks /\ doc \in DocType /\ SpentOK
        /\ att[w] \in AttemptType /\ Shape(w, att[w])
    BY AttemptOf DEF Typed, RowOK
  <1>s. SpentOK' /\ op' = op
    BY <1>0, SpendType DEF RequiredWriteFails, CallFails, GateFails, Crash
  <1>1. CASE RequiredWriteFails(w)
    <2> DEFINE a == [att[w] EXCEPT !.tries = @ + 1]
               b == [NoAttempt EXCEPT !.pc = "holding", !.held = att[w].held]
    <2>1. ASSUME RequiredWrite(w)  PROVE RowOK'
      <3>1. CASE Commit(Started(att[w].obj))
        BY <1>0, <3>1, StartedType, CommitType
      <3>2. CASE att[w].pc \in {"evidence", "publishing"} /\ Commit(Finalized(att[w]))
        <4>1. att[w].obj \in Objectives
          BY <1>0, <3>2 DEF Shape, Attempting, Executing
        <4> QED  BY <1>0, <3>2, <4>1, FinalizedType, CommitType
      <3>3. CASE Commit(Closed(att[w]))
        <4>1. Closed(att[w]) \in DocType
          BY <1>0, StateType DEF Closed, MissionStates, Final
        <4> QED  BY <1>0, <3>3, <4>1, CommitType
      <3> QED  BY <2>1, <3>1, <3>2, <3>3 DEF RequiredWrite
    <2>2. RowOK'
      BY <1>0, <1>1, <2>1, SameRowType DEF RequiredWriteFails
    <2>3. b \in AttemptType /\ b.pc = "holding"
      BY <1>0, NoAttemptType DEF AttemptType, PCs
    <2>4. ASSUME att[w].tries + 1 < Attempts  PROVE Shape(w, a)
      <3>1. att[w].tries + 1 \in 0 .. Attempts
        BY <1>0, <2>4, BoundsAssumption DEF AttemptType, BoundsAssumption
      <3>2. /\ a \in AttemptType /\ a.pc = att[w].pc /\ a.obj = att[w].obj
            /\ a.tok = att[w].tok /\ a.held = att[w].held /\ a.plan = att[w].plan
        BY <1>0, <3>1 DEF AttemptType
      <3> HIDE DEF a
      <3> QED  BY <1>0, <3>2 DEF Shape
    <2>5. Goto(w, IF att[w].tries + 1 < Attempts THEN a ELSE b)
      BY <1>1 DEF RequiredWriteFails
    <2>6. Shape(w, b)
      BY <2>3, PlainShape
    <2> HIDE DEF a, b
    <2>7. Ticks'
      BY <1>0, <2>4, <2>5, <2>6, GotoType
    <2> QED  BY <1>s, <2>2, <2>7
  <1>2. CASE CallFails(w)
    <2>1. CASE Refuse(w)
      BY <1>0, <1>s, <1>2, <2>1, RefuseType, EndTickType DEF CallFails
    <2>2. CASE /\ At(w, "acquiring")
               /\ Commit(Acquire(doc, att[w].obj, att[w].tok, att[w].age))
      <3>1. /\ att[w].obj \in Objectives /\ att[w].tok \in Tokens
            /\ att[w].age \in 0 .. MaxAge
        BY <1>0, <2>2, DrawAssumption DEF Shape, AttemptType, At, Attempting, DrawAssumption
      <3>2. RowOK'
        BY <1>0, <2>2, <3>1, AcquireType, CommitType
      <3> QED  BY <1>0, <1>s, <1>2, <3>2, EndTickType DEF CallFails
    <2> QED  BY <1>2, <2>1, <2>2 DEF CallFails
  <1>3. CASE GateFails(w)
    <2>1. att[w].pc \in Attempting
      BY <1>3 DEF GateFails, Attempting, Executing
    <2> QED  BY <1>0, <1>s, <1>3, <2>1, NoteType, SameRowType DEF GateFails
  <1>4. CASE Crash(w)
    BY <1>0, <1>s, <1>4, RefuseType, EndTickType DEF Crash
  <1> QED  BY <1>1, <1>2, <1>3, <1>4

LEMMA RenewalTyped ==
  ASSUME Typed, NEW o \in Objectives, RenewObjectiveLease(o) \/ RenewalFails(o)
  PROVE  RowOK' /\ SpentOK'
  <1>0. RowOK /\ doc \in DocType /\ wire[o] \in NotSent .. MaxAge /\ SpentOK
    BY DEF Typed, RowOK
  <1>1. [wire EXCEPT ![o] = NotSent] \in [Objectives -> NotSent .. MaxAge]
    BY <1>0, Bounds DEF RowOK
  <1>2. CASE RenewObjectiveLease(o)
    <2>1. wire[o] \in 0 .. MaxAge
      BY <1>0, <1>2, TimesAssumption DEF RenewObjectiveLease, NotSent, TimesAssumption
    <2>2. doc' \in DocType
      BY <1>0, <1>2, <2>1, RenewType DEF RenewObjectiveLease
    <2> QED  BY <1>0, <1>1, <1>2, <2>2 DEF RenewObjectiveLease, RowOK, SpentOK
  <1>3. CASE RenewalFails(o)
    BY <1>0, <1>1, <1>3, SpendType DEF RenewalFails, RowOK
  <1> QED  BY <1>2, <1>3

LEMMA TransitionType ==
  ASSUME NEW s, NEW c, CanTransition(s, c)
  PROVE  Transition(s, c) \in MissionStates /\ <<s, c, Transition(s, c)>> \in Moves
  BY DEF CanTransition, Transition

LEMMA CommandTyped ==
  ASSUME Typed,
         \/ \E c \in Commands : IssueCommand(c)
         \/ ApplyCommand \/ HoldCommanded \/ CommandFails
         \/ ResumeFromCheckpoint \/ RestoreVerified
  PROVE  RowOK' /\ CommandShape(op)' /\ SpentOK' /\ att' = att
  <1>0. /\ RowOK /\ doc \in DocType /\ doc.state \in MissionStates /\ SpentOK
        /\ op \in CommandType /\ CommandShape(op)
    BY DEF Typed, RowOK, DocType, CommandShape
  <1>1. CommandShape(NoCommand)
    BY DEF CommandShape, NoCommand, CommandType, MissionStates
  <1>g. ASSUME NEW m \in DocType, Resumable  PROVE CommandShape(GoOn(m))
    BY <1>1, <1>g DEF GoOn, CommandShape, NoCommand, CommandType, MissionStates, DocType
  <1>2. CASE \E c \in Commands : IssueCommand(c)
    <2>1. PICK c \in Commands : IssueCommand(c)
      BY <1>2
    <2>2. CommandShape(op')
      BY <1>0, <2>1, CommandsAssumption
         DEF IssueCommand, Issuable, CommandShape, CommandType, CommandsAssumption, CommandKinds,
             NoCommand, MissionStates
    <2> QED  BY <1>0, <2>1, <2>2, DeriveType, SpendType DEF IssueCommand, CommandShape
  <1>3. ASSUME op.pc \in {"first", "second"}  PROVE Commanded \in DocType
    BY <1>0, <1>3, TransitionType, StateType DEF CommandShape, Commanded
  <1>4. CASE ApplyCommand
    <2>1. CASE Derive(Operator) /\ Issuable(op.cmd)
               /\ op' = [op EXCEPT !.pc = "second", !.held = doc.state]
      <3>1. CommandShape(op')
        BY <1>0, <2>1 DEF Issuable, CommandShape, CommandType
      <3> QED  BY <1>0, <1>4, <2>1, <3>1, DeriveType DEF ApplyCommand, CommandShape, SpentOK
    <2>2. CASE Write(Operator, CommandApplies, Commanded) /\ op' = NoCommand
      BY <1>0, <1>1, <1>3, <1>4, <2>2, WriteType DEF ApplyCommand, CommandShape, SpentOK
    <2> QED  BY <1>4, <2>1, <2>2 DEF ApplyCommand
  <1>5. CASE HoldCommanded
    <2>1. HeldDoc(op.held) \in DocType
      BY <1>0, StateType DEF HeldDoc, MissionStates
    <2> QED  BY <1>0, <1>1, <1>5, <2>1, CommitType DEF HoldCommanded, CommandShape, SpentOK
  <1>r. ASSUME op.pc = "restoring"  PROVE Restored(op.obj) \in DocType /\ Resumable
    BY <1>0, <1>r, RestoredType DEF CommandShape
  <1>6. CASE CommandFails
    <2>1. RowOK'
      BY <1>0, <1>3, <1>r, <1>6, RefuseType, CommitType, SameRowType DEF CommandFails
    <2>2. CommandShape(op')
      <3>1. op' \in {op, NoCommand, [op EXCEPT !.pc = "holding"]}
        BY <1>6 DEF CommandFails
      <3> QED  BY <1>0, <1>1, <3>1 DEF CommandShape, CommandType
    <2> QED  BY <1>0, <1>6, <2>1, <2>2, SpendType DEF CommandFails, CommandShape
  <1>7. CASE ResumeFromCheckpoint
    <2>1. CASE Derive(Operator)
               /\ \E o \in Objectives :
                    op' = [NoCommand EXCEPT !.pc = "restoring", !.obj = o, !.held = doc.state]
      <3>1. CommandShape(op')
        BY <1>0, <1>7, <2>1 DEF ResumeFromCheckpoint, CommandShape, NoCommand, CommandType
      <3> QED  BY <1>0, <1>7, <2>1, <3>1, DeriveType, SpendType
               DEF ResumeFromCheckpoint, CommandShape
    <2>2. CASE op' = GoOn(doc) /\ UNCHANGED row
      <3>1. CommandShape(op')
        BY <1>0, <1>7, <1>g, <2>2 DEF ResumeFromCheckpoint
      <3> QED  BY <1>0, <1>7, <2>2, <3>1, SameRowType, SpendType
               DEF ResumeFromCheckpoint, CommandShape
    <2> QED  BY <1>7, <2>1, <2>2 DEF ResumeFromCheckpoint
  <1>8. CASE RestoreVerified
    <2>1. RowOK' /\ doc' \in DocType
      BY <1>0, <1>r, <1>8, WriteType DEF RestoreVerified, RowOK
    <2>2. CommandShape(op')
      BY <1>r, <1>g, <1>8, <2>1 DEF RestoreVerified
    <2> QED  BY <1>0, <1>8, <2>1, <2>2 DEF RestoreVerified, CommandShape, SpentOK
  <1> QED  BY <1>2, <1>4, <1>5, <1>6, <1>7, <1>8

\* Checkpoints stay in their range.
LEMMA WitnessTyped ==
  ASSUME Typed, [Next]_vars
  PROVE  WitnessOK'
  <1>0. WitnessOK /\ Ticks
    BY DEF Typed
  <1>1. ASSUME NEW S, Checkpoint(S)  PROVE WitnessOK'
    BY <1>0, <1>1 DEF Checkpoint, WitnessOK, Checkpoints
  <1>2. ASSUME NEW w \in Workers, Witness(w)  PROVE WitnessOK'
    <2> DEFINE k(x) == IF ~Resumable THEN x ELSE IF Holds(w) \/ x = "own" THEN "own" ELSE "late"
    <2>1. witness' = [witness EXCEPT ![att[w].obj] = k(@)]
      BY <1>2 DEF Witness
    <2>2. \A x \in Checkpoints : k(x) \in Checkpoints
      BY DEF Checkpoints
    <2> HIDE DEF k
    <2> QED  BY <1>0, <2>1, <2>2 DEF WitnessOK
  <1>3. ASSUME NEW o, NEW age, Outdate(o, age), WitnessOK  PROVE WitnessOK'
    <2>1. CASE o \in Objectives
      BY <1>3, <2>1 DEF Outdate, WitnessOK, Checkpoints
    <2>2. CASE o \notin Objectives
      BY <1>3, <2>2 DEF Outdate, WitnessOK
    <2> QED  BY <2>1, <2>2
  <1>4. ASSUME UNCHANGED witness  PROVE WitnessOK'
    BY <1>0, <1>4 DEF WitnessOK
  <1>5. ASSUME NEW w \in Workers, WorkerStep(w)  PROVE WitnessOK'
    <2>1. CASE LoadMission(w) \/ ExecuteObjective(w) \/ VerifyObjective(w)
      <3>1. \E S : Checkpoint(S)
        BY <2>1 DEF LoadMission, ExecuteObjective, VerifyObjective
      <3> QED  BY <1>1, <3>1
    <2>2. CASE AcquireObjectiveLease(w)
      BY <1>0, <1>3, <1>4, <2>2 DEF AcquireObjectiveLease
    <2>3. CASE SaveCheckpoint(w)
      BY <1>2, <2>3 DEF SaveCheckpoint
    <2> QED  BY <1>4, <1>5, <2>1, <2>2, <2>3
             DEF WorkerStep, BeginRecovery, HealNext, Inspect, PublishRecovery, ResumeProvider,
                 WaitForProvider, CloseMission, BlockMission, StartObjective, PublishEvidence,
                 PublishResult, AppendActivity, HoldMission
  <1>6. ASSUME NEW w \in Workers, RequiredWriteFails(w)  PROVE WitnessOK'
    BY <1>2, <1>4, <1>6 DEF RequiredWriteFails
  <1>7. ASSUME NEW w \in Workers, CallFails(w)  PROVE WitnessOK'
    BY <1>0, <1>3, <1>4, <1>7 DEF CallFails
  <1> QED  BY <1>4, <1>5, <1>6, <1>7
           DEF Next, Fault, vars, StartRenewal, RenewObjectiveLease, IssueCommand, ApplyCommand,
               ResumeFromCheckpoint, RestoreVerified, HoldCommanded, GateFails, Crash,
               RenewalFails, CommandFails, Tick

LEMMA TickTyped == ASSUME Typed, Tick  PROVE RowOK' /\ Ticks'
  <1>0. RowOK /\ Ticks /\ doc \in DocType
    BY DEF Typed, RowOK
  <1>1. doc' \in DocType
    BY <1>0, ElapseType DEF Tick
  <1>2. wire' \in [Objectives -> NotSent .. MaxAge]
    BY <1>0, TimesAssumption DEF Tick, RowOK, NotSent, TimesAssumption
  <1>3. RowOK'
    BY <1>0, <1>1, <1>2 DEF Tick, RowOK
  <1> DEFINE later(w) == [att[w] EXCEPT !.age = @ + 1]
  <1>4. ASSUME NEW w \in Workers, Timed(w)
        PROVE  Shape(w, later(w)) /\ later(w) \in AttemptType
    <2>1. att[w] \in AttemptType /\ Shape(w, att[w])
      BY <1>0, AttemptOf
    <2>2. att[w].age + 1 \in 0 .. MaxAge
      BY <1>4, <2>1, TimesAssumption DEF Tick, AttemptType, TimesAssumption
    <2>3. /\ later(w) \in AttemptType /\ later(w).pc = att[w].pc /\ later(w).obj = att[w].obj
          /\ later(w).tok = att[w].tok /\ later(w).held = att[w].held
          /\ later(w).plan = att[w].plan
      BY <2>1, <2>2 DEF AttemptType
    <2> HIDE DEF later
    <2> QED  BY <2>1, <2>3 DEF Shape
  <1>5. ASSUME NEW w \in Workers  PROVE Shape(w, att'[w]) /\ att'[w] \in AttemptType
    <2>1. att'[w] = IF Timed(w) THEN later(w) ELSE att[w]
      BY DEF Tick
    <2> HIDE DEF later
    <2> QED  BY <1>0, <1>4, <2>1, AttemptOf
  <1>6. att' \in [Workers -> AttemptType]
    <2>1. att' = [w \in Workers |-> att'[w]]
      BY DEF Tick
    <2> QED  BY <1>5, <2>1
  <1> QED  BY <1>3, <1>5, <1>6 DEF Ticks, Shape

LEMMA InitTyped == Init => Typed
  <1> SUFFICES ASSUME Init  PROVE Typed
    OBVIOUS
  <1>1. RowOK
    BY NewMissionType, Bounds DEF Init, RowOK
  <1>2. Ticks
    BY NoAttemptShape, NoAttemptType DEF Init, Ticks
  <1>3. CommandShape(op)
    BY DEF Init, CommandShape, NoCommand, CommandType, MissionStates
  <1>4. SpentOK
    BY BoundsAssumption DEF Init, SpentOK, BoundsAssumption
  <1>5. WitnessOK
    BY DEF Init, WitnessOK, Checkpoints
  <1> QED  BY <1>1, <1>2, <1>3, <1>4, <1>5 DEF Typed

LEMMA StepTyped == Typed /\ [Next]_vars => Typed'
  <1> SUFFICES ASSUME Typed, [Next]_vars  PROVE Typed'
    OBVIOUS
  <1>0. RowOK /\ Ticks /\ CommandShape(op) /\ SpentOK /\ WitnessOK'
    BY WitnessTyped DEF Typed
  <1>1. ASSUME NEW w \in Workers, WorkerStep(w)  PROVE Typed'
    <2>1. RowOK' /\ Ticks'
      BY <1>1, RecoveryTyped, LoadTyped, DecisionTyped, AttemptTyped DEF WorkerStep
    <2>2. op' = op /\ spent' = spent
      BY <1>1 DEF WorkerStep, BeginRecovery, HealNext, Inspect, PublishRecovery, ResumeProvider,
                  LoadMission, WaitForProvider, CloseMission, BlockMission,
                  AcquireObjectiveLease, StartObjective, ExecuteObjective, PublishEvidence,
                  VerifyObjective, SaveCheckpoint, PublishResult, AppendActivity, HoldMission
    <2> QED  BY <1>0, <2>1, <2>2 DEF Typed, CommandShape, SpentOK
  <1>2. ASSUME NEW w \in Workers, StartRenewal(w)  PROVE Typed'
    <2>1. wire' \in [Objectives -> NotSent .. MaxAge]
      BY <1>0, <1>2, Bounds DEF StartRenewal, RowOK
    <2> QED  BY <1>0, <1>2, <2>1 DEF StartRenewal, Typed, RowOK, Ticks, Shape, CommandShape, SpentOK
  <1>3. ASSUME NEW o \in Objectives, RenewObjectiveLease(o) \/ RenewalFails(o)  PROVE Typed'
    <2>1. RowOK' /\ SpentOK'
      BY <1>3, RenewalTyped
    <2>2. att' = att /\ op' = op
      BY <1>3 DEF RenewObjectiveLease, RenewalFails
    <2> QED  BY <1>0, <2>1, <2>2 DEF Typed, Ticks, Shape, CommandShape
  <1>4. ASSUME \/ \E c \in Commands : IssueCommand(c)
               \/ ApplyCommand \/ HoldCommanded \/ CommandFails
               \/ ResumeFromCheckpoint \/ RestoreVerified
        PROVE  Typed'
    <2>1. RowOK' /\ CommandShape(op)' /\ SpentOK' /\ att' = att
      BY <1>4, CommandTyped
    <2> QED  BY <1>0, <2>1 DEF Typed, Ticks, Shape
  <1>5. ASSUME NEW w \in Workers,
               RequiredWriteFails(w) \/ CallFails(w) \/ GateFails(w) \/ Crash(w)
        PROVE  Typed'
    BY <1>0, <1>5, FaultTyped DEF Typed, CommandShape
  <1>6. CASE Tick
    <2>1. RowOK' /\ Ticks' /\ op' = op /\ spent' = spent
      BY <1>6, TickTyped DEF Tick
    <2> QED  BY <1>0, <2>1 DEF Typed, CommandShape, SpentOK
  <1>7. CASE UNCHANGED vars
    BY <1>0, <1>7 DEF vars, Typed, RowOK, Ticks, Shape, CommandShape, SpentOK
  <1> QED  BY <1>1, <1>2, <1>3, <1>4, <1>5, <1>6, <1>7 DEF Next, Fault

\* The variables keep their types, for every number of objectives, workers and ticks.
THEOREM TypeCorrect == Spec => []TypeOK
  <1>1. Spec => []Typed
    BY InitTyped, StepTyped, PTL DEF Spec
  <1> QED  BY <1>1, TypedIsTypeOK, PTL
=============================================================================
