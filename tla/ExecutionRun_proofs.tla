------------------------- MODULE ExecutionRun_proofs -------------------------
(***************************************************************************)
(* Proofs about ExecutionRun for every number of steps and callers, every    *)
(* set of plans and every budget.                                           *)
(***************************************************************************)
EXTENDS ExecutionRun, FiniteSetTheorems, TLAPS

----------------------------------------------------------------------------
(* What a drive works on, and what it can leave behind.                     *)

RunType == [state : [Steps -> StepStates], status : Statuses, budget : BudgetType, seen : SeenType]

\* The drive found every step from the i-th on settled.
Ended(c, i, v) ==
    /\ \A s \in i .. N : Settled(v.state[s])
    /\ state' = v.state /\ status' = FinalStatus(v.state) /\ seen' = v.seen
    /\ call' = [call EXCEPT ![c] = Idle] /\ handoff' = handoff

\* It blocked at step j.
Blocked(c, j, v) ==
    /\ state' = [v.state EXCEPT ![j] = "blocked"] /\ status' = "BLOCKED" /\ seen' = v.seen
    /\ call' = [call EXCEPT ![c] = Idle] /\ handoff' = handoff

\* It sent step j to the port for the first time.
SentFirst(c, j, used, v) ==
    /\ disposition[j] = "EXECUTABLE"
    /\ used < MaxIterations
    /\ state' = [v.state EXCEPT ![j] = "running"] /\ status' = v.status
    /\ seen' = [v.seen EXCEPT !.sent[j] = @ + 1]
    /\ call' = [call EXCEPT ![c] = [pc |-> "executing", at |-> j, attempts |-> 1, used |-> used + 1]]
    /\ handoff' = handoff

\* It stopped at the gate of step j.
Gated(c, j, v) ==
    /\ disposition[j] # "EXECUTABLE"
    /\ state' \in {v.state, [v.state EXCEPT ![j] = GateState(disposition[j])]}
    /\ status' = GateStatus(disposition[j]) /\ seen' = v.seen
    /\ call' = [call EXCEPT ![c] = Idle]
    /\ handoff' \in {handoff, [handoff EXCEPT ![j] = "open"]}

\* The first step from the i-th on that is not settled.
FirstOpen(j, i, v) ==
    /\ j \in i .. N /\ ~Settled(v.state[j])
    /\ \A s \in i .. N : s < j => Settled(v.state[s])

LEMMA BlockEffect ==
  ASSUME NEW c \in Callers, NEW j \in Steps, NEW v \in RunType, NEW b \in BudgetType, Block(c, j, v, b)
  PROVE  Blocked(c, j, v) /\ budget' = b
  BY DEF Block, Leave, Return, Blocked, RunType

LEMMA DriveEffect ==
  ASSUME TypeOK, NEW c \in Callers, NEW i \in Steps \cup {N + 1}, NEW used \in 0 .. MaxIterations,
         NEW v \in RunType, Drive(c, i, used, v)
  PROVE  /\ budget' \in BudgetType
         /\ \/ Ended(c, i, v)
            \/ \E j \in Steps : /\ FirstOpen(j, i, v)
                                /\ Blocked(c, j, v) \/ SentFirst(c, j, used, v) \/ Gated(c, j, v)
  <1> DEFINE open == { s \in i .. N : ~Settled(v.state[s]) }
  <1>1. v.budget \in BudgetType /\ N \in Nat
    BY RunAssumptions DEF RunAssumptions, RunType
  <1>2. CASE /\ open = {}
             /\ Leave([v EXCEPT !.status = FinalStatus(v.state)])
             /\ Return(c)
             /\ UNCHANGED handoff
    <2>1. \A s \in i .. N : Settled(v.state[s])
      BY <1>2
    <2>2. /\ state' = v.state /\ status' = FinalStatus(v.state)
          /\ budget' = v.budget /\ seen' = v.seen
      BY <1>2 DEF Leave, RunType
    <2> QED  BY <1>1, <1>2, <2>1, <2>2 DEF Return, Ended
  <1>3. ASSUME NEW j \in open, \A s \in open : j <= s,
               IF disposition[j] = "EXECUTABLE" THEN Execute(c, j, used, v) ELSE Gate(c, j, v)
        PROVE  /\ budget' \in BudgetType
               /\ FirstOpen(j, i, v) /\ j \in Steps
               /\ Blocked(c, j, v) \/ SentFirst(c, j, used, v) \/ Gated(c, j, v)
    <2>1. j \in Steps /\ FirstOpen(j, i, v)
      BY <1>1, <1>3 DEF FirstOpen, Steps
    <2>2. Spent(used, TRUE) \in BudgetType /\ Spent(used, FALSE) \in BudgetType
      BY DEF Spent, BudgetType
    <2>3. ASSUME NEW b \in BudgetType, Block(c, j, v, b)
          PROVE  Blocked(c, j, v) /\ budget' \in BudgetType
      BY <2>1, <2>3, BlockEffect
    <2>4. ASSUME disposition[j] = "EXECUTABLE", WithinBudget(used),
                 Send(c, j, 0, used, [v EXCEPT !.state[j] = "running"])
          PROVE  SentFirst(c, j, used, v) /\ budget' \in BudgetType
      <3>1. call' = [call EXCEPT ![c] = [pc |-> "executing", at |-> j, attempts |-> 1, used |-> used + 1]]
        BY <2>4 DEF Send
      <3>2. /\ state' = [v.state EXCEPT ![j] = "running"] /\ status' = v.status /\ budget' = v.budget
            /\ seen' = [v.seen EXCEPT !.sent[j] = @ + 1]
        BY <2>4 DEF Send, Leave, RunType, SeenType
      <3> QED  BY <1>1, <2>4, <3>1, <3>2 DEF SentFirst, WithinBudget, Send
    <2>5. CASE disposition[j] = "EXECUTABLE"
      <3>1. Execute(c, j, used, v)
        BY <1>3, <2>5
      <3> QED  BY <1>1, <2>1, <2>2, <2>3, <2>4, <2>5, <3>1 DEF Execute
    <2>6. CASE disposition[j] # "EXECUTABLE"
      <3>1. Gate(c, j, v)
        BY <1>3, <2>6
      <3>2. /\ state' \in {v.state, [v.state EXCEPT ![j] = GateState(disposition[j])]}
            /\ status' = GateStatus(disposition[j]) /\ seen' = v.seen /\ budget' = v.budget
            /\ handoff' \in {handoff, [handoff EXCEPT ![j] = "open"]}
        BY <3>1 DEF Gate, Leave, RunType
      <3> QED  BY <1>1, <2>1, <2>6, <3>1, <3>2 DEF Gated, Gate, Return
    <2> QED  BY <2>1, <2>5, <2>6
  <1> QED  BY <1>2, <1>3 DEF Drive, open

----------------------------------------------------------------------------
(* What the resolver and the gates may answer.                              *)

LEMMA ResolveType ==
  ASSUME NEW f \in Facts
  PROVE  Resolve(f) \in Dispositions
  BY DEF Facts, Candidates, Resolve, Dispositions

LEMMA GateAnswers ==
  ASSUME NEW d \in Dispositions, d # "EXECUTABLE"
  PROVE  /\ GateState(d) \in StepStates
         /\ GateStatus(d) \in Statuses \ {"RUNNING", "COMPLETED"}
         /\ Settled(GateState(d)) => d = "UNAVAILABLE"
  BY DEF GateState, GateStatus, Dispositions, StepStates, Statuses, Settled

LEMMA FinalAnswers ==
  ASSUME NEW st
  PROVE  /\ FinalStatus(st) \in Statuses \ {"RUNNING"}
         /\ FinalStatus(st) = "COMPLETED" => \A s \in Steps : st[s] = "completed"
  BY DEF FinalStatus, Statuses

LEMMA IdleType == Idle \in CallType /\ Planning \in CallType
  <1>1. 0 \in 0 .. MaxIterations /\ 0 \in Nat
    BY RunAssumptions DEF RunAssumptions
  <1>2. Idle \in CallType
    BY <1>1 DEF Idle, CallType
  <1> QED  BY <1>2 DEF Planning, CallType

----------------------------------------------------------------------------
(* The inductive invariant.                                                 *)

Past(c) == call[c].pc \notin {"idle", "planning"}

Unavailable(s) == Resolve(plan[s]) = "UNAVAILABLE"

\* Every step before the s-th that can be completed is in `done`.
Before(s, done) == \A r \in Steps : r < s => r \in done \/ Unavailable(r)

\* How the state of the steps, their dispositions and the history hang together.
Sound(st, sn, disp) ==
    /\ \A s \in Steps : Settled(st[s]) => s \in sn.done \/ Unavailable(s)
    /\ \A s \in Steps : st[s] = "waiting_approval" => disp[s] # "EXECUTABLE"
    /\ \A s \in Steps : sn.sent[s] > 0 => disp[s] = "EXECUTABLE"
    /\ \A s \in Steps : Resolve(plan[s]) = "WAITING_FOR_APPROVAL" /\ disp[s] = "EXECUTABLE"
                          => sn.decision[s] = "approved"
    /\ \A s \in sn.done : Before(s, sn.done)

Honest(st, run) == run = "COMPLETED" => \A s \in Steps : st[s] = "completed"

\* A disposition is the resolver's, until the user makes the step executable.
Granted == \A s \in Steps : disposition[s] \in {Resolve(plan[s]), "EXECUTABLE"}

\* A drive past its start is at an executable step whose turn it is.
CallsInTurn ==
    \A c \in Callers : Past(c) => /\ call[c].at \in Steps
                                  /\ disposition[call[c].at] = "EXECUTABLE"
                                  /\ Before(call[c].at, seen.done)

\* So is a step that a drive has stopped at.
HandoffsInTurn == \A s \in Steps : handoff[s] # "none" => Before(s, seen.done)

Inv ==
    /\ TypeOK
    /\ Sound(state, seen, disposition)
    /\ Honest(state, status)
    /\ Driven
    /\ Granted
    /\ CallsInTurn
    /\ HandoffsInTurn

LEMMA InitInv == Init => Inv
  <1> SUFFICES ASSUME Init PROVE Inv
    OBVIOUS
  <1>1. PICK c \in Callers : call = [d \in Callers |-> IF d = c THEN Planning ELSE Idle]
    BY DEF Init
  <1>2. \A s \in Steps : plan[s] \in Facts
    BY RunAssumptions DEF RunAssumptions, Init
  <1>3. \A s \in Steps : Resolve(plan[s]) \in Dispositions
    BY <1>2, ResolveType
  <1>4. \A d \in Dispositions : /\ GateState(d) \in StepStates
                                /\ GateState(d) = "waiting_approval" => d # "EXECUTABLE"
                                /\ Settled(GateState(d)) => d = "UNAVAILABLE"
    BY DEF Dispositions, GateState, StepStates, Settled
  <1>5. TypeOK
    <2>1. budget \in BudgetType
      BY RunAssumptions DEF RunAssumptions, Init, BudgetType
    <2>2. seen \in SeenType
      BY DEF Init, SeenType
    <2>3. call \in [Callers -> CallType]
      BY <1>1, IdleType
    <2> QED  BY <1>3, <1>4, <2>1, <2>2, <2>3 DEF Init, TypeOK, Statuses
  <1>6. Sound(state, seen, disposition)
    BY <1>3, <1>4 DEF Init, Sound, Unavailable
  <1>7. Honest(state, status) /\ Driven /\ Granted /\ HandoffsInTurn
    BY DEF Init, Honest, Driven, Granted, HandoffsInTurn
  <1>8. CallsInTurn
    BY <1>1 DEF CallsInTurn, Past, Planning, Idle
  <1> QED  BY <1>5, <1>6, <1>7, <1>8 DEF Inv

----------------------------------------------------------------------------
(* A drive preserves it.                                                    *)

\* What a drive may rely on when it goes on at step i from the run v.
Ready(i, v) ==
    /\ Sound(v.state, v.seen, disposition)
    /\ Honest(v.state, v.status)
    /\ Before(i, v.seen.done)
    /\ seen.done \subseteq v.seen.done

LEMMA DriveKeepsInv ==
  ASSUME Inv, NEW c \in Callers, NEW i \in Steps \cup {N + 1}, NEW used \in 0 .. MaxIterations,
         NEW v \in RunType, Ready(i, v), Drive(c, i, used, v), UNCHANGED <<plan, disposition>>
  PROVE  Inv'
  <1>t. /\ TypeOK /\ N \in Nat /\ MaxIterations \in Nat
        /\ v.state \in [Steps -> StepStates] /\ v.status \in Statuses /\ v.seen \in SeenType
        /\ v.seen.done \subseteq Steps
        /\ call \in [Callers -> CallType] /\ handoff \in [Steps -> {"none", "open", "done"}]
        /\ \A s \in Steps : disposition[s] \in Dispositions
    BY RunAssumptions DEF RunAssumptions, Inv, TypeOK, RunType, SeenType
  <1>e. /\ budget' \in BudgetType
        /\ \/ Ended(c, i, v)
           \/ \E j \in Steps : /\ FirstOpen(j, i, v)
                               /\ Blocked(c, j, v) \/ SentFirst(c, j, used, v) \/ Gated(c, j, v)
    BY <1>t, DriveEffect
  <1>g. Granted'
    BY DEF Inv, Granted
  \* The steps before one that is first to be open have had their turn.
  <1>f. ASSUME NEW j \in Steps, FirstOpen(j, i, v)
        PROVE  Before(j, v.seen.done)
    <2> SUFFICES ASSUME NEW r \in Steps, r < j
                 PROVE  r \in v.seen.done \/ Unavailable(r)
      BY DEF Before
    <2>1. CASE r < i
      BY <2>1 DEF Ready, Before
    <2>2. CASE ~(r < i)
      <3>1. r \in i .. N
        BY <1>t, <2>2 DEF Steps
      <3> QED  BY <1>f, <3>1 DEF FirstOpen, Ready, Sound
    <2> QED  BY <2>1, <2>2
  \* What the calls and hand-offs other than this one's rely on is still there.
  <1>m. \A s \in Steps : Before(s, seen.done) => Before(s, v.seen.done)
    BY DEF Ready, Before
  <1>b. ASSUME seen' = v.seen \/ \E j \in Steps : seen' = [v.seen EXCEPT !.sent[j] = @ + 1]
        PROVE  /\ seen'.done = v.seen.done /\ seen'.decision = v.seen.decision
               /\ seen' \in SeenType
               /\ \A s : Before(s, v.seen.done) => Before(s, seen.done)'
    <2>1. seen'.done = v.seen.done /\ seen'.decision = v.seen.decision /\ seen' \in SeenType
      BY <1>t, <1>b DEF SeenType
    <2> QED  BY <2>1 DEF Before, Unavailable
  <1>1. CASE Ended(c, i, v)
    <2>1. TypeOK'
      BY <1>t, <1>e, <1>1, FinalAnswers, IdleType DEF Ended, TypeOK
    <2>2. Sound(state, seen, disposition)'
      BY <1>1 DEF Ended, Ready, Sound, Before, Unavailable
    <2>3. Honest(state, status)' /\ Driven'
      BY <1>1, FinalAnswers DEF Ended, Honest, Driven
    <2>4. CallsInTurn' /\ HandoffsInTurn'
      BY <1>t, <1>1, <1>b, <1>m DEF Ended, Inv, CallsInTurn, HandoffsInTurn, Past, Idle
    <2> QED  BY <1>g, <2>1, <2>2, <2>3, <2>4 DEF Inv
  <1>2. ASSUME NEW j \in Steps, Blocked(c, j, v)
        PROVE  Inv'
    <2>1. TypeOK'
      BY <1>t, <1>e, <1>2, IdleType DEF Blocked, TypeOK, StepStates, Statuses
    <2>2. Sound(state, seen, disposition)'
      BY <1>t, <1>2 DEF Blocked, Ready, Sound, Before, Unavailable, Settled
    <2>3. Honest(state, status)' /\ Driven'
      BY <1>2 DEF Blocked, Honest, Driven
    <2>4. CallsInTurn' /\ HandoffsInTurn'
      BY <1>t, <1>2, <1>b, <1>m DEF Blocked, Inv, CallsInTurn, HandoffsInTurn, Past, Idle
    <2> QED  BY <1>g, <2>1, <2>2, <2>3, <2>4 DEF Inv
  <1>3. ASSUME NEW j \in Steps, FirstOpen(j, i, v), SentFirst(c, j, used, v)
        PROVE  Inv'
    <2>0. seen'.done = v.seen.done /\ seen'.decision = v.seen.decision /\ seen' \in SeenType
      BY <1>3, <1>b DEF SentFirst
    <2>1. TypeOK'
      <3>1. [pc |-> "executing", at |-> j, attempts |-> 1, used |-> used + 1] \in CallType
        BY <1>t, <1>3 DEF CallType, SentFirst
      <3> QED  BY <1>t, <1>e, <1>3, <2>0, <3>1 DEF SentFirst, TypeOK, StepStates
    <2>2. Sound(state, seen, disposition)'
      <3>1. \A s \in Steps : seen'.sent[s] > 0 => disposition[s] = "EXECUTABLE"
        BY <1>t, <1>3 DEF SentFirst, Ready, Sound, SeenType
      <3> QED  BY <1>t, <1>3, <2>0, <3>1 DEF SentFirst, Ready, Sound, Before, Unavailable, Settled
    <2>3. Honest(state, status)'
      BY <1>3 DEF SentFirst, FirstOpen, Ready, Honest, Settled
    <2>4. call'[c].pc = "executing" /\ call'[c].at = j
      BY <1>t, <1>3 DEF SentFirst
    <2>5. Driven'
      BY <2>4 DEF Driven
    <2>6. CallsInTurn' /\ HandoffsInTurn'
      <3>1. ASSUME NEW d \in Callers, Past(d)'
            PROVE  /\ call'[d].at \in Steps /\ disposition[call'[d].at] = "EXECUTABLE"
                   /\ Before(call'[d].at, v.seen.done)
        <4>1. CASE d = c
          BY <1>3, <1>f, <2>4, <4>1 DEF SentFirst
        <4>2. CASE d # c
          BY <1>t, <1>3, <1>m, <3>1, <4>2 DEF SentFirst, Inv, CallsInTurn, Past
        <4> QED  BY <4>1, <4>2
      <3>2. \A s \in Steps : handoff'[s] # "none" => Before(s, v.seen.done)
        BY <1>3, <1>m DEF SentFirst, Inv, HandoffsInTurn
      <3> QED  BY <2>0, <3>1, <3>2 DEF CallsInTurn, HandoffsInTurn, Before, Unavailable
    <2> QED  BY <1>g, <2>1, <2>2, <2>3, <2>5, <2>6 DEF Inv
  <1>4. ASSUME NEW j \in Steps, FirstOpen(j, i, v), Gated(c, j, v)
        PROVE  Inv'
    <2>0. /\ GateState(disposition[j]) \in StepStates
          /\ GateStatus(disposition[j]) \in Statuses \ {"RUNNING", "COMPLETED"}
          /\ Settled(GateState(disposition[j])) => Unavailable(j)
      BY <1>t, <1>4, GateAnswers DEF Gated, Inv, Granted, Unavailable
    <2>1. TypeOK'
      BY <1>t, <1>e, <1>4, <2>0, IdleType DEF Gated, TypeOK
    <2>2. Sound(state, seen, disposition)'
      BY <1>t, <1>4, <2>0 DEF Gated, Ready, Sound, Before, Unavailable
    <2>3. Honest(state, status)' /\ Driven'
      BY <1>4, <2>0 DEF Gated, Honest, Driven
    <2>4. CallsInTurn'
      BY <1>t, <1>4, <1>b, <1>m DEF Gated, Inv, CallsInTurn, Past, Idle
    <2>5. \A s \in Steps : handoff'[s] # "none" => Before(s, v.seen.done)
      BY <1>t, <1>4, <1>f, <1>m DEF Gated, Inv, HandoffsInTurn
    <2>6. HandoffsInTurn'
      BY <1>4, <2>5 DEF Gated, HandoffsInTurn, Before, Unavailable
    <2> QED  BY <1>g, <2>1, <2>2, <2>3, <2>4, <2>6 DEF Inv
  <1> QED  BY <1>e, <1>1, <1>2, <1>3, <1>4

----------------------------------------------------------------------------
(* The steps of a drive.                                                    *)

\* The run as the drive finds it.
LEMMA CurrentReady ==
  ASSUME Inv
  PROVE  /\ Current \in RunType
         /\ Current.state = state /\ Current.status = status
         /\ Current.budget = budget /\ Current.seen = seen
  BY DEF Inv, TypeOK, RunType, Current

\* A drive that blocks at its step, or gives up, as it finds the run.
LEMMA StopKeepsInv ==
  ASSUME Inv, NEW c \in Callers, NEW st \in Statuses \ {"RUNNING", "COMPLETED"},
         status' = st,
         state' = state \/ \E j \in Steps, x \in {"blocked", "failed"} : state' = [state EXCEPT ![j] = x],
         budget' \in BudgetType,
         call' = [call EXCEPT ![c] = Idle],
         UNCHANGED <<plan, disposition, handoff, seen>>
  PROVE  Inv'
  <1>1. TypeOK'
    BY IdleType DEF Inv, TypeOK, StepStates
  <1>2. Sound(state, seen, disposition)'
    BY DEF Inv, TypeOK, Sound, Before, Unavailable, Settled
  <1>3. Honest(state, status)' /\ Driven' /\ Granted' /\ HandoffsInTurn'
    BY DEF Inv, Honest, Driven, Granted, HandoffsInTurn, Before, Unavailable
  <1>4. CallsInTurn'
    BY DEF Inv, TypeOK, CallsInTurn, Past, Idle, Before, Unavailable
  <1> QED  BY <1>1, <1>2, <1>3, <1>4 DEF Inv

\* A drive that goes on waiting, at the step it is at.
LEMMA WaitKeepsInv ==
  ASSUME Inv, NEW c \in Callers, Past(c),
         call' \in [Callers -> CallType],
         \A d \in Callers : d # c => call'[d] = call[d],
         call'[c].at = call[c].at, call'[c].pc # "idle",
         UNCHANGED <<plan, disposition, handoff, state, status, budget>>,
         seen' \in {seen, [seen EXCEPT !.sent[call[c].at] = @ + 1]}
  PROVE  Inv'
  <1>1. /\ call[c].at \in Steps /\ disposition[call[c].at] = "EXECUTABLE"
        /\ Before(call[c].at, seen.done) /\ seen \in SeenType
    BY DEF Inv, TypeOK, CallsInTurn
  <1>2. seen' \in SeenType /\ seen'.done = seen.done /\ seen'.decision = seen.decision
    BY <1>1 DEF SeenType
  <1>3. \A s \in Steps : seen'.sent[s] > 0 => disposition[s] = "EXECUTABLE"
    BY <1>1 DEF Inv, Sound, SeenType
  <1>4. TypeOK'
    BY <1>2 DEF Inv, TypeOK
  <1>5. Sound(state, seen, disposition)'
    BY <1>2, <1>3 DEF Inv, Sound, Before, Unavailable
  <1>6. Honest(state, status)' /\ Granted' /\ HandoffsInTurn'
    BY <1>2 DEF Inv, Honest, Granted, HandoffsInTurn, Before, Unavailable
  <1>7. Driven'
    BY DEF Inv, Driven
  <1>8. CallsInTurn'
    BY <1>1, <1>2 DEF Inv, CallsInTurn, Past, Before, Unavailable
  <1> QED  BY <1>4, <1>5, <1>6, <1>7, <1>8 DEF Inv

LEMMA AdvanceKeepsInv ==
  ASSUME Inv, NEW c \in Callers, Advance(c)
  PROVE  Inv'
  <1>1. UNCHANGED <<plan, disposition>>
    BY DEF Advance
  <1>2. CASE Drive(c, 1, budget.iterations, [Current EXCEPT !.status = "RUNNING"])
    <2> DEFINE v == [Current EXCEPT !.status = "RUNNING"]
    <2>1. v \in RunType /\ v.state = state /\ v.seen = seen /\ v.status = "RUNNING"
      BY CurrentReady DEF RunType, Statuses
    <2>2. 1 \in Steps \cup {N + 1} /\ budget.iterations \in 0 .. MaxIterations
      BY RunAssumptions DEF RunAssumptions, Steps, Inv, TypeOK, BudgetType
    <2>3. Ready(1, v)
      BY <2>1 DEF Ready, Inv, Honest, Before, Steps
    <2> HIDE DEF v
    <2> QED  BY <1>1, <1>2, <2>1, <2>2, <2>3, DriveKeepsInv DEF v
  <1>3. CASE /\ Leave([Current EXCEPT !.status = "BLOCKED"])
             /\ Return(c)
             /\ UNCHANGED handoff
    <2>1. state' = state /\ status' = "BLOCKED" /\ budget' = budget /\ seen' = seen
      BY <1>3, CurrentReady DEF Leave, RunType
    <2>2. /\ "BLOCKED" \in Statuses \ {"RUNNING", "COMPLETED"} /\ budget' \in BudgetType
          /\ call' = [call EXCEPT ![c] = Idle] /\ UNCHANGED handoff
      BY <1>3, <2>1 DEF Return, Statuses, Inv, TypeOK
    <2> QED  BY <1>1, <2>1, <2>2, StopKeepsInv
  <1> QED  BY <1>2, <1>3 DEF Advance

LEMMA CompleteKeepsInv ==
  ASSUME Inv, NEW c \in Callers, Past(c), Complete(c), UNCHANGED <<plan, disposition>>
  PROVE  Inv'
  <1> DEFINE at == call[c].at
             used == call[c].used
  <1>1. PICK over \in BOOLEAN :
            Drive(c, at + 1, used,
                  [Current EXCEPT !.state[at] = "completed", !.budget = Spent(used, over),
                                  !.seen.done = @ \cup {at}])
    BY DEF Complete
  <1> DEFINE v == [Current EXCEPT !.state[at] = "completed", !.budget = Spent(used, over),
                                  !.seen.done = @ \cup {at}]
  <1>2. at \in Steps /\ used \in 0 .. MaxIterations /\ Before(at, seen.done)
    BY DEF Inv, TypeOK, CallType, CallsInTurn
  <1>3. at + 1 \in Steps \cup {N + 1}
    BY <1>2, RunAssumptions DEF RunAssumptions, Steps
  <1>4. /\ v.state = [state EXCEPT ![at] = "completed"] /\ v.status = status
        /\ v.budget = Spent(used, over) /\ v.seen = [seen EXCEPT !.done = @ \cup {at}]
    BY CurrentReady DEF RunType, SeenType
  <1>5. Drive(c, at + 1, used, v)
    BY <1>1
  <1>6. /\ seen \in SeenType /\ state \in [Steps -> StepStates] /\ status \in Statuses
        /\ Sound(state, seen, disposition) /\ Honest(state, status)
    BY DEF Inv, TypeOK
  <1> HIDE DEF v, at, used
  <1>7. /\ v.seen.done = seen.done \cup {at} /\ v.seen.sent = seen.sent
        /\ v.seen.decision = seen.decision
        /\ v.seen \in SeenType /\ v.budget \in BudgetType /\ v.state \in [Steps -> StepStates]
    BY <1>2, <1>4, <1>6 DEF SeenType, Spent, BudgetType, StepStates
  <1>8. v \in RunType
    BY <1>4, <1>6, <1>7, CurrentReady DEF RunType, v
  <1>9. Before(at + 1, v.seen.done)
    BY <1>2, <1>7, RunAssumptions DEF RunAssumptions, Before, Steps
  <1>10. Sound(v.state, v.seen, disposition)
    <2>1. \A s \in Steps : Settled(v.state[s]) => s \in v.seen.done \/ Unavailable(s)
      BY <1>4, <1>6, <1>7 DEF Sound, Settled
    <2>2. \A s \in v.seen.done : Before(s, v.seen.done)
      BY <1>2, <1>6, <1>7 DEF Sound, Before
    <2>3. \A s \in Steps : v.state[s] = "waiting_approval" => disposition[s] # "EXECUTABLE"
      BY <1>4, <1>6 DEF Sound
    <2> QED  BY <1>6, <1>7, <2>1, <2>2, <2>3 DEF Sound
  <1>11. Ready(at + 1, v)
    BY <1>4, <1>6, <1>7, <1>9, <1>10 DEF Ready, Honest
  <1> QED  BY <1>2, <1>3, <1>5, <1>8, <1>11, DriveKeepsInv

LEMMA FailKeepsInv ==
  ASSUME Inv, NEW c \in Callers, Past(c), Fail(c), UNCHANGED <<plan, disposition>>
  PROVE  Inv'
  <1>1. CASE /\ call' = [call EXCEPT ![c].pc = "sleeping"]
             /\ Leave(Current)
             /\ UNCHANGED handoff
    <2>1. UNCHANGED <<state, status, budget, seen>>
      BY <1>1, CurrentReady DEF Leave
    <2>2. call' \in [Callers -> CallType] /\ call'[c].at = call[c].at /\ call'[c].pc = "sleeping"
      BY <1>1 DEF Inv, TypeOK, CallType
    <2>3. \A d \in Callers : d # c => call'[d] = call[d]
      BY <1>1 DEF Inv, TypeOK
    <2> QED  BY <1>1, <2>1, <2>2, <2>3, WaitKeepsInv
  <1>2. CASE /\ Leave([Current EXCEPT !.state[call[c].at] = "failed", !.status = "FAILED"])
             /\ Return(c)
             /\ UNCHANGED handoff
    <2>1. /\ state' = [state EXCEPT ![call[c].at] = "failed"] /\ status' = "FAILED"
          /\ budget' = budget /\ seen' = seen
      BY <1>2, CurrentReady DEF Leave, RunType
    <2>2. call[c].at \in Steps
      BY DEF Inv, CallsInTurn
    <2>3. /\ "FAILED" \in Statuses \ {"RUNNING", "COMPLETED"} /\ budget' \in BudgetType
          /\ call' = [call EXCEPT ![c] = Idle] /\ UNCHANGED handoff
      BY <1>2, <2>1 DEF Return, Statuses, Inv, TypeOK
    <2> QED  BY <2>1, <2>2, <2>3, StopKeepsInv
  <1> QED  BY <1>1, <1>2 DEF Fail

LEMMA PortRepliesKeepsInv ==
  ASSUME Inv, NEW c \in Callers, PortReplies(c)
  PROVE  Inv'
  <1>1. Past(c)
    BY DEF PortReplies, Past
  <1>2. CASE /\ call' = [call EXCEPT ![c].pc = "verifying"]
             /\ Leave(Current)
             /\ UNCHANGED handoff
    <2>1. UNCHANGED <<plan, disposition, state, status, budget, seen>>
      BY <1>2, CurrentReady DEF Leave, PortReplies
    <2>2. call' \in [Callers -> CallType] /\ call'[c].at = call[c].at /\ call'[c].pc = "verifying"
      BY <1>2 DEF Inv, TypeOK, CallType
    <2>3. \A d \in Callers : d # c => call'[d] = call[d]
      BY <1>2 DEF Inv, TypeOK
    <2> QED  BY <1>1, <1>2, <2>1, <2>2, <2>3, WaitKeepsInv
  <1> QED  BY <1>1, <1>2, CompleteKeepsInv, FailKeepsInv DEF PortReplies

LEMMA ArtifactsReadKeepsInv ==
  ASSUME Inv, NEW c \in Callers, ArtifactsRead(c)
  PROVE  Inv'
  BY CompleteKeepsInv, FailKeepsInv DEF ArtifactsRead, Past

LEMMA RetryKeepsInv ==
  ASSUME Inv, NEW c \in Callers, Retry(c)
  PROVE  Inv'
  <1> DEFINE me == call[c]
  <1>1. /\ Past(c) /\ me \in CallType /\ me.at \in Steps /\ me.used \in 0 .. MaxIterations
        /\ UNCHANGED <<plan, disposition>>
    BY DEF Retry, Past, Inv, TypeOK, CallType, CallsInTurn
  <1>2. CASE Block(c, me.at, Current, Spent(me.used, TRUE))
    <2>1. /\ state' = [state EXCEPT ![me.at] = "blocked"] /\ status' = "BLOCKED"
          /\ budget' = Spent(me.used, TRUE) /\ seen' = seen
          /\ call' = [call EXCEPT ![c] = Idle] /\ UNCHANGED handoff
      BY <1>2, CurrentReady DEF Block, Leave, Return, RunType
    <2>2. budget' \in BudgetType
      BY <1>1, <2>1 DEF Spent, BudgetType
    <2>3. "BLOCKED" \in Statuses \ {"RUNNING", "COMPLETED"}
      BY DEF Statuses
    <2> QED  BY <1>1, <2>1, <2>2, <2>3, StopKeepsInv
  <1>3. CASE WithinBudget(me.used) /\ Send(c, me.at, me.attempts, me.used, Current)
    <2> DEFINE next == [pc |-> "executing", at |-> me.at, attempts |-> me.attempts + 1, used |-> me.used + 1]
    <2>1. /\ UNCHANGED <<state, status, budget, handoff>>
          /\ seen' = [seen EXCEPT !.sent[me.at] = @ + 1]
      BY <1>3, CurrentReady DEF Send, Leave, RunType, SeenType
    <2>2. call' = [call EXCEPT ![c] = next]
      BY <1>3 DEF Send
    <2>3. next \in CallType
      BY <1>1, <1>3, RunAssumptions DEF RunAssumptions, CallType, WithinBudget
    <2>4. call' \in [Callers -> CallType] /\ \A d \in Callers : d # c => call'[d] = call[d]
      BY <2>2, <2>3 DEF Inv, TypeOK
    <2>5. call'[c].at = me.at /\ call'[c].pc = "executing"
      BY <2>2 DEF Inv, TypeOK
    <2> QED  BY <1>1, <2>1, <2>4, <2>5, WaitKeepsInv
  <1> QED  BY <1>2, <1>3 DEF Retry

----------------------------------------------------------------------------
(* The user's actions.                                                      *)

\* A new drive starts, after a step got a state, a disposition and a hand-off.
LEMMA StartDriveKeepsCalls ==
  ASSUME Inv, NEW c \in Callers, StartDrive(c)
  PROVE  /\ call' \in [Callers -> CallType] /\ status' = "RUNNING"
         /\ call'[c].pc = "planning"
         /\ \A d \in Callers : Past(d)' => Past(d) /\ call'[d].at = call[d].at
  BY IdleType DEF StartDrive, Past, Planning, Inv, TypeOK, CallType

LEMMA ApproveKeepsInv ==
  ASSUME Inv, NEW c \in Callers, NEW s \in Steps, Approve(c, s)
  PROVE  Inv'
  <1>1. /\ call' \in [Callers -> CallType] /\ status' = "RUNNING" /\ call'[c].pc = "planning"
        /\ \A d \in Callers : Past(d)' => Past(d) /\ call'[d].at = call[d].at
    BY StartDriveKeepsCalls DEF Approve
  <1>2. /\ plan' = plan /\ budget' = budget
        /\ disposition' = [disposition EXCEPT ![s] = "EXECUTABLE"]
        /\ state' = [state EXCEPT ![s] = "ready"]
        /\ handoff' = [handoff EXCEPT ![s] = IF @ = "open" THEN "done" ELSE @]
        /\ seen' = [seen EXCEPT !.decision[s] = "approved", !.drives = @ + 1]
    BY DEF Approve
  <1>3. /\ seen'.done = seen.done /\ seen'.sent = seen.sent /\ seen' \in SeenType
        /\ seen'.decision = [seen.decision EXCEPT ![s] = "approved"]
    <2>1. seen \in SeenType
      BY DEF Inv, TypeOK
    <2>2. /\ seen'.done = seen.done /\ seen'.sent = seen.sent
          /\ seen'.decision = [seen.decision EXCEPT ![s] = "approved"]
      BY <1>2, <2>1 DEF SeenType
    <2>3. seen'.decision \in [Steps -> {"none", "approved", "rejected"}] /\ seen.drives + 1 \in Nat
      BY <2>1, <2>2 DEF SeenType
    <2> QED  BY <1>2, <2>1, <2>2, <2>3 DEF SeenType
  <1>4. TypeOK'
    BY <1>1, <1>2, <1>3 DEF Inv, TypeOK, StepStates, Statuses, Dispositions
  <1>5. Sound(state, seen, disposition)'
    <2>1. \A r \in Steps : /\ disposition[r] = "EXECUTABLE" => disposition'[r] = "EXECUTABLE"
                           /\ r # s => disposition'[r] = disposition[r] /\ state'[r] = state[r]
                           /\ r # s => seen'.decision[r] = seen.decision[r]
      BY <1>2, <1>3 DEF Inv, TypeOK, SeenType
    <2>2. state'[s] = "ready" /\ seen'.decision[s] = "approved"
      BY <1>2, <1>3 DEF Inv, TypeOK, SeenType
    <2> QED  BY <1>2, <1>3, <2>1, <2>2 DEF Inv, Sound, Before, Unavailable, Settled
  <1>6. Honest(state, status)' /\ Driven'
    BY <1>1 DEF Honest, Driven
  <1>7. Granted' /\ HandoffsInTurn'
    BY <1>2, <1>3 DEF Inv, TypeOK, Granted, HandoffsInTurn, Before, Unavailable
  <1>8. CallsInTurn'
    BY <1>1, <1>2, <1>3 DEF Inv, TypeOK, CallsInTurn, Before, Unavailable
  <1> QED  BY <1>4, <1>5, <1>6, <1>7, <1>8 DEF Inv

LEMMA RejectKeepsInv ==
  ASSUME Inv, NEW s \in Steps, Reject(s)
  PROVE  Inv'
  <1>1. /\ UNCHANGED <<plan, disposition, handoff, budget, call>> /\ status' = "BLOCKED"
        /\ state' = [state EXCEPT ![s] = "blocked"] /\ seen' = [seen EXCEPT !.decision[s] = "rejected"]
    BY DEF Reject
  <1>2. /\ seen'.done = seen.done /\ seen'.sent = seen.sent /\ seen' \in SeenType
        /\ \A r \in Steps : r # s => seen'.decision[r] = seen.decision[r]
    BY <1>1 DEF Inv, TypeOK, SeenType
  <1>3. disposition[s] # "EXECUTABLE"
    BY DEF Reject, Inv, Sound
  <1>4. TypeOK'
    BY <1>1, <1>2 DEF Inv, TypeOK, StepStates, Statuses
  <1>5. Sound(state, seen, disposition)'
    BY <1>1, <1>2, <1>3 DEF Inv, TypeOK, Sound, Before, Unavailable, Settled
  <1>6. Honest(state, status)' /\ Driven' /\ Granted' /\ HandoffsInTurn'
    BY <1>1, <1>2 DEF Inv, Honest, Driven, Granted, HandoffsInTurn, Before, Unavailable
  <1>7. CallsInTurn'
    BY <1>1, <1>2 DEF Inv, CallsInTurn, Past, Before, Unavailable
  <1> QED  BY <1>4, <1>5, <1>6, <1>7 DEF Inv

LEMMA CompleteHandoffKeepsInv ==
  ASSUME Inv, NEW c \in Callers, NEW s \in Steps, CompleteHandoff(c, s)
  PROVE  Inv'
  <1>1. /\ call' \in [Callers -> CallType] /\ status' = "RUNNING" /\ call'[c].pc = "planning"
        /\ \A d \in Callers : Past(d)' => Past(d) /\ call'[d].at = call[d].at
    BY StartDriveKeepsCalls DEF CompleteHandoff
  <1> DEFINE configured == Resolve(plan[s]) = "CONFIGURE"
  <1>2. /\ plan' = plan /\ budget' = budget
        /\ handoff[s] = "open" /\ handoff' = [handoff EXCEPT ![s] = "done"]
        /\ disposition' = [disposition EXCEPT ![s] = IF configured THEN "EXECUTABLE" ELSE @]
        /\ state' = [state EXCEPT ![s] = IF configured THEN "ready" ELSE "completed"]
        /\ seen' = [seen EXCEPT !.done = IF configured THEN @ ELSE @ \cup {s}, !.drives = @ + 1]
    BY DEF CompleteHandoff
  <1>3. /\ seen'.sent = seen.sent /\ seen'.decision = seen.decision /\ seen' \in SeenType
        /\ seen'.done = IF configured THEN seen.done ELSE seen.done \cup {s}
    <2>1. seen \in SeenType
      BY DEF Inv, TypeOK
    <2>2. /\ seen'.sent = seen.sent /\ seen'.decision = seen.decision
          /\ seen'.done = IF configured THEN seen.done ELSE seen.done \cup {s}
      BY <1>2, <2>1 DEF SeenType
    <2>3. seen'.done \in SUBSET Steps /\ seen.drives + 1 \in Nat
      BY <2>1, <2>2 DEF SeenType
    <2> QED  BY <1>2, <2>1, <2>2, <2>3 DEF SeenType
  <1>4. Before(s, seen.done) /\ \A r \in Steps : Before(r, seen.done) => Before(r, seen'.done)
    BY <1>2, <1>3 DEF Inv, HandoffsInTurn, Before
  <1>5. \A r \in Steps : Before(r, seen'.done) => Before(r, seen.done)'
    BY <1>2 DEF Before, Unavailable
  <1>6. TypeOK'
    BY <1>1, <1>2, <1>3 DEF Inv, TypeOK, StepStates, Statuses, Dispositions
  <1>7. Sound(state, seen, disposition)'
    <2>1. \A r \in Steps : Settled(state'[r]) => r \in seen'.done \/ Unavailable(r)'
      BY <1>2, <1>3 DEF Inv, TypeOK, Sound, Settled, Unavailable
    <2>2. \A r \in Steps : state'[r] = "waiting_approval" => disposition'[r] # "EXECUTABLE"
      BY <1>2 DEF Inv, TypeOK, Sound
    <2>3. \A r \in Steps : seen'.sent[r] > 0 => disposition'[r] = "EXECUTABLE"
      BY <1>2, <1>3 DEF Inv, TypeOK, Sound
    <2>4. \A r \in Steps : Resolve(plan'[r]) = "WAITING_FOR_APPROVAL" /\ disposition'[r] = "EXECUTABLE"
                             => seen'.decision[r] = "approved"
      BY <1>2, <1>3 DEF Inv, TypeOK, Sound
    <2>5. \A r \in seen'.done : Before(r, seen.done)'
      <3>1. seen'.done \subseteq Steps /\ \A r \in seen.done : Before(r, seen.done)
        BY <1>3 DEF Inv, SeenType, Sound
      <3> QED  BY <1>3, <1>4, <1>5, <3>1
    <2> QED  BY <2>1, <2>2, <2>3, <2>4, <2>5 DEF Sound
  <1>8. Honest(state, status)' /\ Driven'
    BY <1>1 DEF Honest, Driven
  <1>9. Granted'
    BY <1>2 DEF Inv, TypeOK, Granted
  <1>10. HandoffsInTurn'
    BY <1>2, <1>4, <1>5 DEF Inv, TypeOK, HandoffsInTurn
  <1>11. CallsInTurn'
    BY <1>1, <1>2, <1>4, <1>5 DEF Inv, TypeOK, CallsInTurn
  <1> QED  BY <1>6, <1>7, <1>8, <1>9, <1>10, <1>11 DEF Inv

LEMMA CancelKeepsInv == Inv /\ Cancel => Inv'
  <1> SUFFICES ASSUME Inv, Cancel PROVE Inv'
    OBVIOUS
  <1>1. TypeOK'
    BY DEF Cancel, Inv, TypeOK, Statuses
  <1>2. Sound(state, seen, disposition)' /\ Honest(state, status)' /\ Driven'
    BY DEF Cancel, Inv, Sound, Before, Unavailable, Honest, Driven
  <1>3. Granted' /\ CallsInTurn' /\ HandoffsInTurn'
    BY DEF Cancel, Inv, Granted, CallsInTurn, HandoffsInTurn, Past, Before, Unavailable
  <1> QED  BY <1>1, <1>2, <1>3 DEF Inv

----------------------------------------------------------------------------
LEMMA NextKeepsInv == Inv /\ [Next]_vars => Inv'
  <1> SUFFICES ASSUME Inv, [Next]_vars PROVE Inv'
    OBVIOUS
  <1>1. ASSUME NEW c \in Callers, DriveStep(c)
        PROVE  Inv'
    BY <1>1, AdvanceKeepsInv, PortRepliesKeepsInv, ArtifactsReadKeepsInv, RetryKeepsInv DEF DriveStep
  <1>2. ASSUME NEW c \in Callers, NEW s \in Steps, Approve(c, s) \/ CompleteHandoff(c, s)
        PROVE  Inv'
    BY <1>2, ApproveKeepsInv, CompleteHandoffKeepsInv
  <1>3. ASSUME NEW s \in Steps, Reject(s)
        PROVE  Inv'
    BY <1>3, RejectKeepsInv
  <1>4. CASE Cancel
    BY <1>4, CancelKeepsInv
  <1>5. CASE UNCHANGED vars
    BY <1>5 DEF vars, Inv, TypeOK, Sound, Before, Unavailable, Honest, Driven, Granted, CallsInTurn,
                HandoffsInTurn, Past
  <1> QED  BY <1>1, <1>2, <1>3, <1>4, <1>5 DEF Next

LEMMA InvHolds == Spec => []Inv
  BY InitInv, NextKeepsInv, PTL DEF Spec

\* Every reachable run is well typed, and its port calls stay within the budget,
\* whatever the plan, the number of steps and the number of overlapping drives.
THEOREM TypeCorrect == Spec => []TypeOK
  <1>1. Inv => TypeOK
    BY DEF Inv
  <1> QED  BY <1>1, InvHolds, PTL

\* COMPLETED is never claimed falsely: FinalStatus is computed by whichever drive
\* ends, over steps that other drives and the user change too.
THEOREM CompletedIsHonest == Spec => []HonestCompletion
  <1>1. Inv => HonestCompletion
    BY DEF Inv, Honest, HonestCompletion
  <1> QED  BY <1>1, InvHolds, PTL

\* A step that the resolver puts behind the approval gate reaches the port only
\* after the user approved it, and the approval cannot be withdrawn by then.
THEOREM GateIsNotBypassed == Spec => []ApprovedFirst
  <1>1. Inv => ApprovedFirst
    BY DEF Inv, Sound, ApprovedFirst
  <1> QED  BY <1>1, InvHolds, PTL

\* Steps are completed in the order of the plan, by drives and by hand-offs alike.
THEOREM StepsInOrder == Spec => []InOrder
  <1>1. Inv => InOrder
    BY DEF Inv, Sound, Before, Unavailable, InOrder
  <1> QED  BY <1>1, InvHolds, PTL

\* A run that says RUNNING is being driven: no path of a drive leaves it behind.
THEOREM RunningIsDriven == Spec => []Driven
  <1>1. Inv => Driven
    BY DEF Inv
  <1> QED  BY <1>1, InvHolds, PTL
----------------------------------------------------------------------------
(* Retries.  A drive passes over the steps once, so at each step it has a     *)
(* number of attempts to make; those still open are counted with those made. *)

Limit == MaxRetries + 1

\* The drive of c may still make its n-th attempt at step s, counted from the last.
MayTry(c, s, n) ==
    \/ call[c].pc = "planning"
    \/ Past(c) /\ call[c].at < s
    \/ Past(c) /\ call[c].at = s /\ n + call[c].attempts <= Limit

OpenAttempts(s) == { a \in Callers \X (1 .. Limit) : MayTry(a[1], s, a[2]) }

\* A drive that pauses has an attempt left.
PauseToRetry == \A c \in Callers : call[c].pc = "sleeping" => call[c].attempts <= MaxRetries

Metered ==
    \A s \in Steps :
        /\ IsFiniteSet(OpenAttempts(s))
        /\ seen.sent[s] + Cardinality(OpenAttempts(s)) <= Limit * seen.drives

RInv == Inv /\ PauseToRetry /\ Metered

LEMMA LimitIsNat == MaxRetries \in Nat /\ Limit \in Nat /\ Limit = MaxRetries + 1
  BY RunAssumptions DEF RunAssumptions, Limit

\* The attempts of one drive that starts.
LEMMA OneDrive ==
  ASSUME NEW c
  PROVE  /\ IsFiniteSet({c} \X (1 .. Limit))
         /\ Cardinality({c} \X (1 .. Limit)) = Limit
  <1>1. IsFiniteSet({c}) /\ Cardinality({c}) = 1
    BY FS_Singleton
  <1>2. IsFiniteSet(1 .. Limit) /\ Cardinality(1 .. Limit) = Limit
    BY LimitIsNat, FS_Interval
  <1>3. /\ IsFiniteSet({c} \X (1 .. Limit))
        /\ Cardinality({c} \X (1 .. Limit)) = Cardinality({c}) * Cardinality(1 .. Limit)
    BY <1>1, <1>2, FS_Product
  <1> QED  BY <1>1, <1>2, <1>3, LimitIsNat

----------------------------------------------------------------------------
(* What a step does to the calls and to the count of attempts.               *)

\* No attempt is made and no drive starts.
SameMeter == seen'.sent = seen.sent /\ seen'.drives = seen.drives

Ends(c) == call' = [call EXCEPT ![c] = Idle] /\ SameMeter

Waits(c) ==
    /\ Past(c) /\ SameMeter
    /\ \E x \in {"verifying", "sleeping"} :
         /\ call' = [call EXCEPT ![c].pc = x]
         /\ x = "sleeping" => call[c].attempts <= MaxRetries

\* The first attempt at a later step, or the next at the same after a pause.
Sends(c, j) ==
    \E n \in Nat, u \in 0 .. MaxIterations :
        /\ call' = [call EXCEPT ![c] = [pc |-> "executing", at |-> j, attempts |-> n + 1, used |-> u]]
        /\ seen'.sent = [seen.sent EXCEPT ![j] = @ + 1] /\ seen'.drives = seen.drives
        /\ \/ n = 0 /\ (call[c].pc = "planning" \/ (Past(c) /\ call[c].at < j))
           \/ call[c].pc = "sleeping" /\ call[c].at = j /\ n = call[c].attempts

Starts(c) ==
    /\ call[c].pc = "idle" /\ call' = [call EXCEPT ![c] = Planning]
    /\ seen'.sent = seen.sent /\ seen'.drives = seen.drives + 1

CallStep == \/ call' = call /\ SameMeter
            \/ \E c \in Callers : Ends(c) \/ Waits(c) \/ Starts(c) \/ \E j \in Steps : Sends(c, j)

LEMMA DriveCalls ==
  ASSUME Inv, NEW c \in Callers, NEW i \in Steps \cup {N + 1}, NEW used \in 0 .. MaxIterations,
         NEW v \in RunType, Drive(c, i, used, v),
         v.seen.sent = seen.sent, v.seen.drives = seen.drives,
         call[c].pc = "planning" \/ (Past(c) /\ call[c].at < i)
  PROVE  Ends(c) \/ \E j \in Steps : Sends(c, j)
  <1>1. \/ Ended(c, i, v)
        \/ \E j \in Steps : /\ FirstOpen(j, i, v)
                            /\ Blocked(c, j, v) \/ SentFirst(c, j, used, v) \/ Gated(c, j, v)
    BY DriveEffect DEF Inv
  <1>2. ASSUME Ended(c, i, v)  PROVE Ends(c)
    BY <1>2 DEF Ended, Ends, SameMeter
  <1>3. ASSUME NEW j \in Steps, Blocked(c, j, v) \/ Gated(c, j, v)  PROVE Ends(c)
    BY <1>3 DEF Blocked, Gated, Ends, SameMeter
  <1>4. ASSUME NEW j \in Steps, FirstOpen(j, i, v), SentFirst(c, j, used, v)
        PROVE  Sends(c, j)
    <2>1. N \in Nat /\ MaxIterations \in Nat /\ v.seen \in SeenType /\ i \in Int /\ j \in Int
      BY RunAssumptions DEF RunAssumptions, RunType, Steps
    <2>2. seen'.sent = [seen.sent EXCEPT ![j] = @ + 1] /\ seen'.drives = seen.drives
      BY <1>4, <2>1 DEF SentFirst, SeenType
    <2>3. call[c].pc = "planning" \/ (Past(c) /\ call[c].at < j)
      <3>1. i <= j
        BY <1>4, <2>1 DEF FirstOpen
      <3>2. Past(c) => call[c].at \in Int
        BY DEF Inv, CallsInTurn, Steps
      <3> QED  BY <2>1, <3>1, <3>2
    <2>4. PICK n \in Nat, u \in 0 .. MaxIterations : n = 0 /\ n + 1 = 1 /\ u = used + 1
      BY <1>4, <2>1 DEF SentFirst
    <2>5. call' = [call EXCEPT ![c] = [pc |-> "executing", at |-> j, attempts |-> n + 1, used |-> u]]
      BY <1>4, <2>4 DEF SentFirst
    <2>6. n = 0 /\ (call[c].pc = "planning" \/ (Past(c) /\ call[c].at < j))
      BY <2>3, <2>4
    <2> QED  BY <2>2, <2>5, <2>6 DEF Sends
  <1> QED  BY <1>1, <1>2, <1>3, <1>4

LEMMA CompleteCalls ==
  ASSUME Inv, NEW c \in Callers, Past(c), Complete(c)
  PROVE  Ends(c) \/ \E j \in Steps : Sends(c, j)
  <1> DEFINE at == call[c].at
             used == call[c].used
  <1>1. PICK over \in BOOLEAN :
            Drive(c, at + 1, used,
                  [Current EXCEPT !.state[at] = "completed", !.budget = Spent(used, over),
                                  !.seen.done = @ \cup {at}])
    BY DEF Complete
  <1> DEFINE v == [Current EXCEPT !.state[at] = "completed", !.budget = Spent(used, over),
                                  !.seen.done = @ \cup {at}]
  <1>2. at \in Steps /\ used \in 0 .. MaxIterations
    BY DEF Inv, TypeOK, CallType, CallsInTurn
  <1>3. at + 1 \in Steps \cup {N + 1} /\ at < at + 1
    BY <1>2, RunAssumptions DEF RunAssumptions, Steps
  <1>4. /\ v.state = [state EXCEPT ![at] = "completed"]
        /\ v.budget = Spent(used, over) /\ v.seen = [seen EXCEPT !.done = @ \cup {at}]
    BY CurrentReady DEF RunType, SeenType
  <1>5. seen \in SeenType /\ state \in [Steps -> StepStates]
    BY DEF Inv, TypeOK
  <1>6. Drive(c, at + 1, used, v)
    BY <1>1
  <1> HIDE DEF v, at, used
  <1>7. /\ v.seen.sent = seen.sent /\ v.seen.drives = seen.drives
        /\ v.seen \in SeenType /\ v.budget \in BudgetType /\ v.state \in [Steps -> StepStates]
    BY <1>2, <1>4, <1>5 DEF SeenType, Spent, BudgetType, StepStates
  <1>8. v \in RunType
    BY <1>7, CurrentReady DEF RunType, v
  <1>9. Past(c) /\ call[c].at < at + 1
    BY <1>3 DEF at
  <1> QED  BY <1>2, <1>3, <1>6, <1>7, <1>8, <1>9, DriveCalls

LEMMA FailCalls ==
  ASSUME Inv, NEW c \in Callers, Past(c), Fail(c)
  PROVE  Ends(c) \/ Waits(c)
  <1>1. CASE CanRetry(call[c].attempts)
    <2>1. call' = [call EXCEPT ![c].pc = "sleeping"] /\ seen' = seen
      BY <1>1, CurrentReady DEF Fail, Leave
    <2> QED  BY <1>1, <2>1 DEF Waits, CanRetry, SameMeter
  <1>2. CASE ~CanRetry(call[c].attempts)
    <2>1. call' = [call EXCEPT ![c] = Idle] /\ seen' = seen
      BY <1>2, CurrentReady DEF Fail, Leave, Return, RunType
    <2> QED  BY <2>1 DEF Ends, SameMeter
  <1> QED  BY <1>1, <1>2

LEMMA StepCalls ==
  ASSUME Inv, [Next]_vars
  PROVE  CallStep
  <1>0. seen \in SeenType
    BY DEF Inv, TypeOK
  <1>1. ASSUME NEW c \in Callers, Advance(c)  PROVE Ends(c) \/ \E j \in Steps : Sends(c, j)
    <2>1. CASE Drive(c, 1, budget.iterations, [Current EXCEPT !.status = "RUNNING"])
      <3> DEFINE v == [Current EXCEPT !.status = "RUNNING"]
      <3>1. v \in RunType /\ v.seen = seen
        BY CurrentReady DEF RunType, Statuses
      <3>2. 1 \in Steps \cup {N + 1} /\ budget.iterations \in 0 .. MaxIterations
        BY RunAssumptions DEF RunAssumptions, Steps, Inv, TypeOK, BudgetType
      <3>3. call[c].pc = "planning"
        BY <1>1 DEF Advance
      <3> HIDE DEF v
      <3> QED  BY <2>1, <3>1, <3>2, <3>3, DriveCalls DEF v
    <2>2. CASE Leave([Current EXCEPT !.status = "BLOCKED"]) /\ Return(c)
      <3>1. seen' = seen
        BY <2>2, CurrentReady DEF Leave, RunType
      <3> QED  BY <2>2, <3>1 DEF Return, Ends, SameMeter
    <2> QED  BY <1>1, <2>1, <2>2 DEF Advance
  <1>2. ASSUME NEW c \in Callers, PortReplies(c) \/ ArtifactsRead(c)
        PROVE  Ends(c) \/ Waits(c) \/ \E j \in Steps : Sends(c, j)
    <2>1. Past(c)
      BY <1>2 DEF PortReplies, ArtifactsRead, Past
    <2>2. CASE call' = [call EXCEPT ![c].pc = "verifying"] /\ Leave(Current)
      <3>1. seen' = seen
        BY <2>2, CurrentReady DEF Leave
      <3> QED  BY <2>1, <2>2, <3>1 DEF Waits, SameMeter
    <2> QED  BY <1>2, <2>1, <2>2, CompleteCalls, FailCalls DEF PortReplies, ArtifactsRead
  <1>3. ASSUME NEW c \in Callers, Retry(c)
        PROVE  Ends(c) \/ \E j \in Steps : Sends(c, j)
    <2>1. /\ Past(c) /\ call[c].pc = "sleeping" /\ call[c].at \in Steps
          /\ call[c].attempts \in Nat /\ call[c].used \in 0 .. MaxIterations
      BY <1>3 DEF Retry, Past, Inv, TypeOK, CallType, CallsInTurn
    <2>2. CASE Block(c, call[c].at, Current, Spent(call[c].used, TRUE))
      <3>1. seen' = seen
        BY <2>2, CurrentReady DEF Block, Leave, RunType
      <3> QED  BY <2>2, <3>1 DEF Block, Return, Ends, SameMeter
    <2>3. CASE /\ WithinBudget(call[c].used)
               /\ Send(c, call[c].at, call[c].attempts, call[c].used, Current)
      <3>1. seen' = [seen EXCEPT !.sent[call[c].at] = @ + 1]
        BY <2>3, CurrentReady DEF Send, Leave, RunType, SeenType
      <3>2. seen'.sent = [seen.sent EXCEPT ![call[c].at] = @ + 1] /\ seen'.drives = seen.drives
        BY <1>0, <3>1 DEF SeenType
      <3>3. call[c].used + 1 \in 0 .. MaxIterations
        BY <2>1, <2>3, RunAssumptions DEF RunAssumptions, WithinBudget
      <3>4. call' = [call EXCEPT ![c] = [pc |-> "executing", at |-> call[c].at,
                                         attempts |-> call[c].attempts + 1, used |-> call[c].used + 1]]
        BY <2>3 DEF Send
      <3> QED  BY <2>1, <3>2, <3>3, <3>4 DEF Sends
    <2> QED  BY <1>3, <2>2, <2>3 DEF Retry
  <1>4. ASSUME NEW c \in Callers, NEW s \in Steps, Approve(c, s)  PROVE Starts(c)
    <2>1. seen' = [seen EXCEPT !.decision[s] = "approved", !.drives = @ + 1]
      BY <1>4 DEF Approve
    <2>2. seen'.sent = seen.sent /\ seen'.drives = seen.drives + 1
      BY <1>0, <2>1 DEF SeenType
    <2> QED  BY <1>4, <2>2 DEF Approve, StartDrive, Starts
  <1>5. ASSUME NEW c \in Callers, NEW s \in Steps, CompleteHandoff(c, s)  PROVE Starts(c)
    <2>1. PICK done : seen' = [seen EXCEPT !.done = done, !.drives = @ + 1]
      BY <1>5 DEF CompleteHandoff
    <2>2. seen'.sent = seen.sent /\ seen'.drives = seen.drives + 1
      BY <1>0, <2>1 DEF SeenType
    <2> QED  BY <1>5, <2>2 DEF CompleteHandoff, StartDrive, Starts
  <1>6. ASSUME NEW s \in Steps, Reject(s)  PROVE call' = call /\ SameMeter
    BY <1>0, <1>6 DEF Reject, SameMeter, SeenType
  <1>7. CASE Cancel \/ UNCHANGED vars
    BY <1>7 DEF Cancel, vars, SameMeter, CallStep
  <1> QED  BY <1>1, <1>2, <1>3, <1>4, <1>5, <1>6, <1>7 DEF Next, DriveStep, CallStep
----------------------------------------------------------------------------
(* Attempts made and attempts open, step by step.                            *)

\* No drive gained an attempt at step s.
LEMMA FewerOpen ==
  ASSUME RInv, NEW s \in Steps, OpenAttempts(s)' \subseteq OpenAttempts(s),
         seen'.sent[s] = seen.sent[s], seen'.drives = seen.drives
  PROVE  /\ IsFiniteSet(OpenAttempts(s)')
         /\ seen'.sent[s] + Cardinality(OpenAttempts(s)') <= Limit * seen'.drives
  <1> DEFINE A == OpenAttempts(s)
             B == OpenAttempts(s)'
  <1>1. /\ IsFiniteSet(A) /\ seen.sent[s] + Cardinality(A) <= Limit * seen.drives
        /\ seen.sent[s] \in Nat /\ seen.drives \in Nat
    BY DEF RInv, Metered, Inv, TypeOK, SeenType
  <1>2. IsFiniteSet(B) /\ Cardinality(B) <= Cardinality(A)
    BY <1>1, FS_Subset
  <1>3. Cardinality(A) \in Nat /\ Cardinality(B) \in Nat
    BY <1>1, <1>2, FS_CardinalityType
  <1> HIDE DEF A, B
  <1>4. Limit * seen.drives \in Nat
    BY <1>1, LimitIsNat
  <1>5. PICK bound \in Nat : bound = Limit * seen.drives
    BY <1>4
  <1>6. seen.sent[s] + Cardinality(B) <= bound
    BY <1>1, <1>2, <1>3, <1>5
  <1> QED  BY <1>2, <1>5, <1>6 DEF B

\* One attempt at step s was made, and it was open.
LEMMA OneFewerOpen ==
  ASSUME RInv, NEW s \in Steps, NEW a \in OpenAttempts(s), OpenAttempts(s)' \subseteq OpenAttempts(s) \ {a},
         seen'.sent[s] = seen.sent[s] + 1, seen'.drives = seen.drives
  PROVE  /\ IsFiniteSet(OpenAttempts(s)')
         /\ seen'.sent[s] + Cardinality(OpenAttempts(s)') <= Limit * seen'.drives
  <1> DEFINE A == OpenAttempts(s)
             B == OpenAttempts(s)'
             C == A \ {a}
  <1>1. /\ IsFiniteSet(A) /\ seen.sent[s] + Cardinality(A) <= Limit * seen.drives
        /\ seen.sent[s] \in Nat /\ seen.drives \in Nat
    BY DEF RInv, Metered, Inv, TypeOK, SeenType
  <1>2. IsFiniteSet(C) /\ Cardinality(C) = Cardinality(A) - 1
    BY <1>1, FS_RemoveElement
  <1>3. IsFiniteSet(B) /\ Cardinality(B) <= Cardinality(C)
    BY <1>2, FS_Subset
  <1>4. Cardinality(A) \in Nat /\ Cardinality(B) \in Nat
    BY <1>1, <1>3, FS_CardinalityType
  <1> HIDE DEF A, B, C
  <1>5. Limit * seen.drives \in Nat
    BY <1>1, LimitIsNat
  <1>6. PICK bound \in Nat : bound = Limit * seen.drives
    BY <1>5
  <1>7. seen.sent[s] + 1 + Cardinality(B) <= bound
    BY <1>1, <1>2, <1>3, <1>4, <1>6
  <1> QED  BY <1>3, <1>6, <1>7 DEF B

\* A drive has started.
LEMMA OneDriveMore ==
  ASSUME RInv, NEW s \in Steps, NEW c,
         OpenAttempts(s)' \subseteq OpenAttempts(s) \cup ({c} \X (1 .. Limit)),
         seen'.sent[s] = seen.sent[s], seen'.drives = seen.drives + 1
  PROVE  /\ IsFiniteSet(OpenAttempts(s)')
         /\ seen'.sent[s] + Cardinality(OpenAttempts(s)') <= Limit * seen'.drives
  <1> DEFINE A == OpenAttempts(s)
             B == OpenAttempts(s)'
             D == {c} \X (1 .. Limit)
  <1>1. /\ IsFiniteSet(A) /\ seen.sent[s] + Cardinality(A) <= Limit * seen.drives
        /\ seen.sent[s] \in Nat /\ seen.drives \in Nat
    BY DEF RInv, Metered, Inv, TypeOK, SeenType
  <1>2. IsFiniteSet(D) /\ Cardinality(D) = Limit
    BY OneDrive
  <1> HIDE DEF A, B, D
  <1>3. /\ IsFiniteSet(A \cup D)
        /\ Cardinality(A \cup D) = Cardinality(A) + Cardinality(D) - Cardinality(A \cap D)
    BY <1>1, <1>2, FS_Union
  <1>4. IsFiniteSet(B) /\ Cardinality(B) <= Cardinality(A \cup D)
    BY <1>3, FS_Subset DEF A, B, D
  <1>5. IsFiniteSet(A \cap D)
    BY <1>1, FS_Subset
  <1>6. /\ Cardinality(A) \in Nat /\ Cardinality(B) \in Nat /\ Cardinality(A \cap D) \in Nat
    BY <1>1, <1>4, <1>5, FS_CardinalityType
  <1>7. Cardinality(B) <= Cardinality(A) + Limit
    BY <1>2, <1>3, <1>4, <1>6, LimitIsNat
  <1>8. Limit * (seen.drives + 1) = Limit * seen.drives + Limit /\ Limit * seen.drives \in Nat
    BY <1>1, LimitIsNat
  <1>9. PICK bound \in Nat : bound = Limit * seen.drives
    BY <1>8
  <1>10. seen.sent[s] + Cardinality(B) <= bound + Limit
    BY <1>1, <1>6, <1>7, <1>9, LimitIsNat
  <1> QED  BY <1>4, <1>8, <1>9, <1>10 DEF B

LEMMA CallStepKeepsMeter ==
  ASSUME RInv, Inv', CallStep
  PROVE  PauseToRetry' /\ Metered'
  <1>0. /\ call \in [Callers -> CallType] /\ seen \in SeenType /\ call' \in [Callers -> CallType]
        /\ \A c \in Callers : Past(c) => call[c].at \in Steps
        /\ \A c \in Callers : call[c].attempts \in Nat
        /\ \A s \in Steps : s \in Int
        /\ PauseToRetry
    BY DEF RInv, Inv, TypeOK, CallType, CallsInTurn, Steps
  <1>1. CASE call' = call /\ SameMeter
    <2>1. \A s \in Steps : OpenAttempts(s)' = OpenAttempts(s)
      BY <1>1 DEF OpenAttempts, MayTry, Past
    <2>2. Metered'
      BY <1>1, <2>1, FewerOpen DEF SameMeter, Metered
    <2> QED  BY <1>0, <1>1, <2>2 DEF PauseToRetry
  <1>2. ASSUME NEW c \in Callers, Ends(c)  PROVE PauseToRetry' /\ Metered'
    <2>1. call'[c].pc = "idle" /\ \A d \in Callers : d # c => call'[d] = call[d]
      BY <1>0, <1>2 DEF Ends, Idle
    <2>2. ASSUME NEW s \in Steps  PROVE OpenAttempts(s)' \subseteq OpenAttempts(s)
      <3>1. ASSUME NEW d \in Callers, NEW n \in 1 .. Limit, MayTry(d, s, n)'  PROVE MayTry(d, s, n)
        BY <2>1, <3>1 DEF MayTry, Past
      <3> QED  BY <3>1 DEF OpenAttempts
    <2>3. Metered'
      BY <1>2, <2>2, FewerOpen DEF Ends, SameMeter, Metered
    <2> QED  BY <1>0, <2>1, <2>3 DEF PauseToRetry
  <1>3. ASSUME NEW c \in Callers, Waits(c)  PROVE PauseToRetry' /\ Metered'
    <2>1. PICK x \in {"verifying", "sleeping"} :
            /\ call' = [call EXCEPT ![c].pc = x]
            /\ x = "sleeping" => call[c].attempts <= MaxRetries
      BY <1>3 DEF Waits
    <2>2. /\ call'[c].pc = x /\ call'[c].at = call[c].at /\ call'[c].attempts = call[c].attempts
          /\ \A d \in Callers : d # c => call'[d] = call[d]
      BY <1>0, <2>1 DEF CallType
    <2>3. ASSUME NEW s \in Steps  PROVE OpenAttempts(s)' \subseteq OpenAttempts(s)
      <3>1. ASSUME NEW d \in Callers, NEW n \in 1 .. Limit, MayTry(d, s, n)'  PROVE MayTry(d, s, n)
        <4>1. CASE d = c
          BY <1>3, <2>2, <3>1, <4>1 DEF MayTry, Past, Waits
        <4>2. CASE d # c
          BY <2>2, <3>1, <4>2 DEF MayTry, Past
        <4> QED  BY <4>1, <4>2
      <3> QED  BY <3>1 DEF OpenAttempts
    <2>4. Metered'
      BY <1>3, <2>3, FewerOpen DEF Waits, SameMeter, Metered
    <2> QED  BY <1>0, <2>1, <2>2, <2>4 DEF PauseToRetry
  <1>4. ASSUME NEW c \in Callers, Starts(c)  PROVE PauseToRetry' /\ Metered'
    <2>1. /\ call'[c].pc = "planning"
          /\ \A d \in Callers : d # c => call'[d] = call[d]
      BY <1>0, <1>4 DEF Starts, Planning, Idle
    <2>2. ASSUME NEW s \in Steps
          PROVE  OpenAttempts(s)' \subseteq OpenAttempts(s) \cup ({c} \X (1 .. Limit))
      <3>1. ASSUME NEW d \in Callers, NEW n \in 1 .. Limit, MayTry(d, s, n)', d # c  PROVE MayTry(d, s, n)
        BY <2>1, <3>1 DEF MayTry, Past
      <3> QED  BY <3>1 DEF OpenAttempts
    <2>3. Metered'
      BY <1>4, <2>2, OneDriveMore DEF Starts, Metered
    <2> QED  BY <1>0, <2>1, <2>3 DEF PauseToRetry
  <1>5. ASSUME NEW c \in Callers, NEW j \in Steps, Sends(c, j)  PROVE PauseToRetry' /\ Metered'
    <2>1. PICK m \in Nat, u \in 0 .. MaxIterations :
            /\ call' = [call EXCEPT ![c] = [pc |-> "executing", at |-> j, attempts |-> m + 1, used |-> u]]
            /\ seen'.sent = [seen.sent EXCEPT ![j] = @ + 1] /\ seen'.drives = seen.drives
            /\ \/ m = 0 /\ (call[c].pc = "planning" \/ (Past(c) /\ call[c].at < j))
               \/ call[c].pc = "sleeping" /\ call[c].at = j /\ m = call[c].attempts
      BY <1>5 DEF Sends
    <2>2. /\ call'[c].pc = "executing" /\ call'[c].at = j /\ call'[c].attempts = m + 1
          /\ \A d \in Callers : d # c => call'[d] = call[d]
      BY <1>0, <2>1
    <2>3. m \in 0 .. MaxRetries
      BY <1>0, <2>1, LimitIsNat DEF PauseToRetry
    <2>4. \A d \in Callers \ {c} : \A s \in Steps : \A n \in 1 .. Limit : MayTry(d, s, n)' => MayTry(d, s, n)
      BY <2>2 DEF MayTry, Past
    <2>5. ASSUME NEW s \in Steps, NEW n \in 1 .. Limit, MayTry(c, s, n)'
          PROVE  MayTry(c, s, n) /\ (s = j => n # Limit - m)
      <3>1. j < s \/ (j = s /\ n + (m + 1) <= Limit)
        BY <2>2, <2>5 DEF MayTry
      <3>2. CASE call[c].pc = "planning"
        BY <1>0, <2>3, <3>1, <3>2, LimitIsNat DEF MayTry
      <3>3. CASE m = 0 /\ Past(c) /\ call[c].at < j
        <4>1. call[c].at \in Int
          BY <1>0, <3>3
        <4> QED  BY <1>0, <2>3, <3>1, <3>3, <4>1, LimitIsNat DEF MayTry
      <3>4. CASE call[c].pc = "sleeping" /\ call[c].at = j /\ m = call[c].attempts
        <4>1. Past(c)
          BY <3>4 DEF Past
        <4> QED  BY <1>0, <2>3, <3>1, <3>4, <4>1, LimitIsNat DEF MayTry
      <3> QED  BY <2>1, <3>1, <3>2, <3>3, <3>4 DEF MayTry
    <2>6. ASSUME NEW s \in Steps  PROVE OpenAttempts(s)' \subseteq OpenAttempts(s)
      BY <2>4, <2>5 DEF OpenAttempts
    <2>7. PICK a : a = <<c, Limit - m>>
      OBVIOUS
    <2>8. a \in OpenAttempts(j)
      <3>1. Limit - m \in 1 .. Limit
        BY <2>3, LimitIsNat
      <3>2. MayTry(c, j, Limit - m)
        <4>1. CASE call[c].pc = "sleeping" /\ call[c].at = j /\ m = call[c].attempts
          <5>1. Past(c) /\ Limit - m + m <= Limit
            BY <2>3, <4>1, LimitIsNat DEF Past
          <5> QED  BY <4>1, <5>1 DEF MayTry
        <4> QED  BY <2>1, <4>1 DEF MayTry
      <3> QED  BY <2>7, <3>1, <3>2 DEF OpenAttempts
    <2>9. a \notin OpenAttempts(j)'
      <3>1. Limit - m \in 1 .. Limit
        BY <2>3, LimitIsNat
      <3>2. ~MayTry(c, j, Limit - m)'
        BY <2>5, <3>1
      <3> QED  BY <2>7, <3>2 DEF OpenAttempts
    <2>10. ASSUME NEW s \in Steps
           PROVE  /\ IsFiniteSet(OpenAttempts(s)')
                  /\ seen'.sent[s] + Cardinality(OpenAttempts(s)') <= Limit * seen'.drives
      <3>1. CASE s = j
        <4>1. seen'.sent[j] = seen.sent[j] + 1
          BY <1>0, <2>1 DEF SeenType
        <4> QED  BY <2>1, <2>6, <2>8, <2>9, <3>1, <4>1, OneFewerOpen
      <3>2. CASE s # j
        <4>1. seen'.sent[s] = seen.sent[s]
          BY <1>0, <2>1, <3>2 DEF SeenType
        <4> QED  BY <2>1, <2>6, <4>1, FewerOpen
      <3> QED  BY <3>1, <3>2
    <2>11. Metered'
      BY <2>10 DEF Metered
    <2>12. PauseToRetry'
      BY <1>0, <2>2 DEF PauseToRetry
    <2> QED  BY <2>11, <2>12
  <1> QED  BY <1>1, <1>2, <1>3, <1>4, <1>5 DEF CallStep

LEMMA InitMeter == Init => RInv
  <1> SUFFICES ASSUME Init PROVE RInv
    OBVIOUS
  <1>1. PICK c \in Callers : call = [d \in Callers |-> IF d = c THEN Planning ELSE Idle]
    BY DEF Init
  <1>2. \A d \in Callers : IF d = c THEN call[d].pc = "planning" ELSE call[d].pc = "idle"
    BY <1>1 DEF Planning, Idle
  <1>3. PauseToRetry
    BY <1>2 DEF PauseToRetry
  <1>4. ASSUME NEW s \in Steps
        PROVE  /\ IsFiniteSet(OpenAttempts(s))
               /\ seen.sent[s] + Cardinality(OpenAttempts(s)) <= Limit * seen.drives
    <2>1. OpenAttempts(s) = {c} \X (1 .. Limit)
      BY <1>2 DEF OpenAttempts, MayTry, Past
    <2>2. seen.sent[s] = 0 /\ seen.drives = 1
      BY DEF Init
    <2>3. IsFiniteSet(OpenAttempts(s)) /\ Cardinality(OpenAttempts(s)) = Limit
      BY <2>1, OneDrive
    <2>4. 0 + Limit <= Limit * 1
      BY LimitIsNat
    <2> QED  BY <2>2, <2>3, <2>4
  <1> QED  BY <1>3, <1>4, InitInv DEF RInv, Metered

LEMMA RInvHolds == Spec => []RInv
  <1>1. ASSUME RInv, [Next]_vars  PROVE RInv'
    <2>1. Inv' /\ CallStep
      BY <1>1, NextKeepsInv, StepCalls DEF RInv
    <2> QED  BY <1>1, <2>1, CallStepKeepsMeter DEF RInv
  <1> QED  BY <1>1, InitMeter, PTL DEF Spec

\* However many drives overlap, a step is sent to the port at most MAX_RETRIES + 1 times
\* per drive that was started.
THEOREM RetriesAreBounded == Spec => []RetriesPerDrive
  <1>1. ASSUME RInv, NEW s \in Steps  PROVE seen.sent[s] <= (MaxRetries + 1) * seen.drives
    <2>1. /\ IsFiniteSet(OpenAttempts(s))
          /\ seen.sent[s] + Cardinality(OpenAttempts(s)) <= Limit * seen.drives
          /\ seen.sent[s] \in Nat /\ seen.drives \in Nat
      BY <1>1 DEF RInv, Metered, Inv, TypeOK, SeenType
    <2>2. Cardinality(OpenAttempts(s)) \in Nat
      BY <2>1, FS_CardinalityType
    <2>3. PICK bound \in Nat : bound = Limit * seen.drives
      BY <2>1, LimitIsNat
    <2>4. seen.sent[s] <= bound
      BY <2>1, <2>2, <2>3
    <2> QED  BY <2>3, <2>4, LimitIsNat
  <1>2. RInv => RetriesPerDrive
    BY <1>1 DEF RetriesPerDrive
  <1> QED  BY <1>2, RInvHolds, PTL
=============================================================================
