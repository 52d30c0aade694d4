---------------------------- MODULE ExecutionRun ----------------------------
(***************************************************************************)
(* One execution run of the bridge: the steps of a capability plan, executed *)
(* through a provider port, stopped at gates (approval, configuration,       *)
(* manual work) and resumed by the user.  The store hands out the run by      *)
(* reference, so every call in progress drives the same object: a step here   *)
(* is what one call does between two awaits.                                  *)
(***************************************************************************)
EXTENDS Integers, FiniteSets

CONSTANTS
    N,               \* the number of steps
    Plans,           \* the plans considered: what the planner found per step
    Callers,         \* the calls that may be in progress at once
    MaxRetries,      \* retries of a step per drive
    MaxIterations    \* the run's budget of port calls

Steps == 1 .. N

\* What the planner selected for a step, and whether the step is irreversible.
Candidates == {"none", "manual", "unconfigured", "automatable", "unsupported"}
Facts      == [candidate : Candidates, irreversible : BOOLEAN]

ASSUME RunAssumptions ==
    /\ N \in Nat
    /\ Plans \subseteq [Steps -> Facts]
    /\ MaxRetries \in Nat
    /\ MaxIterations \in Nat

VARIABLES
    plan,            \* the plan the run was started from
    status,          \* the run's status
    state,           \* state[s]: the step's state
    disposition,     \* disposition[s]: how the drive treats the step
    handoff,         \* handoff[s]: the hand-off recorded for the step
    budget,          \* the persisted accounting of port calls
    call,            \* call[c]: the drive of a caller
    seen             \* history: decisions of the user, port calls, completions

vars == <<plan, status, state, disposition, handoff, budget, call, seen>>

Dispositions == {"EXECUTABLE", "CONFIGURE", "WAITING_FOR_APPROVAL", "MANUAL_REQUIRED", "UNAVAILABLE"}
StepStates   == {"ready", "running", "completed", "failed", "blocked", "skipped",
                 "waiting_approval", "configure_required", "manual_required"}
Statuses     == {"READY", "RUNNING", "WAITING_FOR_APPROVAL", "CONFIGURE_REQUIRED",
                 "MANUAL_REQUIRED", "PARTIAL", "COMPLETED", "FAILED", "CANCELLED", "BLOCKED"}

\* A call: idle, waiting for the plan, for the port, for the artifact reader, or
\* for the pause before a retry; the step it is at, its attempts, its budget guard.
CallType == [pc : {"idle", "planning", "executing", "verifying", "sleeping"},
             at : Steps \cup {0}, attempts : Nat, used : 0 .. MaxIterations]
Idle     == [pc |-> "idle", at |-> 0, attempts |-> 0, used |-> 0]
Planning == [Idle EXCEPT !.pc = "planning"]

BudgetType == [iterations : 0 .. MaxIterations, exceeded : BOOLEAN]
SeenType   == [decision : [Steps -> {"none", "approved", "rejected"}],
               sent : [Steps -> Nat], done : SUBSET Steps, drives : Nat]

TypeOK ==
    /\ plan \in Plans
    /\ status \in Statuses
    /\ state \in [Steps -> StepStates]
    /\ disposition \in [Steps -> Dispositions]
    /\ handoff \in [Steps -> {"none", "open", "done"}]
    /\ budget \in BudgetType
    /\ call \in [Callers -> CallType]
    /\ seen \in SeenType

----------------------------------------------------------------------------
(* PlanRunResolver: from what the plan found to how the step is treated.    *)

Resolve(f) ==
    CASE f.candidate = "none"         -> "UNAVAILABLE"
      [] f.candidate = "manual"       -> "MANUAL_REQUIRED"
      [] f.candidate = "unconfigured" -> "CONFIGURE"
      [] OTHER -> IF f.irreversible THEN "WAITING_FOR_APPROVAL"
                  ELSE IF f.candidate = "automatable" THEN "EXECUTABLE" ELSE "UNAVAILABLE"

\* The state of a step at a gate, and at the creation of the run.
GateState(d) ==
    CASE d = "WAITING_FOR_APPROVAL" -> "waiting_approval"
      [] d = "CONFIGURE"            -> "configure_required"
      [] d = "MANUAL_REQUIRED"      -> "manual_required"
      [] d = "EXECUTABLE"           -> "ready"
      [] OTHER                      -> "skipped"

GateStatus(d) ==
    CASE d = "WAITING_FOR_APPROVAL" -> "WAITING_FOR_APPROVAL"
      [] d = "CONFIGURE"            -> "CONFIGURE_REQUIRED"
      [] d = "MANUAL_REQUIRED"      -> "MANUAL_REQUIRED"
      [] OTHER                      -> "READY"

\* Mutant: a blocked step counts as dealt with.
SettledOrBlocked(s) == s \in {"completed", "skipped", "blocked"}
Settled(s) == s \in {"completed", "skipped"}

\* Mutant: completed as soon as nothing failed.
FinalUnlessFailed(st) ==
    IF \A s \in Steps : st[s] # "failed" THEN "COMPLETED" ELSE "FAILED"

FinalStatus(st) ==
    IF \A s \in Steps : st[s] = "completed" THEN "COMPLETED"
    ELSE IF \E s \in Steps : st[s] = "failed" THEN "FAILED"
    ELSE IF \E s \in Steps : st[s] = "blocked" THEN "BLOCKED"
    ELSE "PARTIAL"

----------------------------------------------------------------------------
\* start(): the run is created and saved, and its first drive asks for the plan.
Init ==
    /\ plan \in Plans
    /\ status = "READY"
    /\ disposition = [s \in Steps |-> Resolve(plan[s])]
    /\ state = [s \in Steps |-> GateState(Resolve(plan[s]))]
    /\ handoff = [s \in Steps |-> "none"]
    /\ budget = [iterations |-> 0, exceeded |-> FALSE]
    /\ \E c \in Callers : call = [d \in Callers |-> IF d = c THEN Planning ELSE Idle]
    /\ seen = [decision |-> [s \in Steps |-> "none"], sent |-> [s \in Steps |-> 0],
               done |-> {}, drives |-> 1]

----------------------------------------------------------------------------
(* What a drive does before its next await.  `v` is the run as the drive has  *)
(* left it so far: state, status and budget, with the history.               *)

Current == [state |-> state, status |-> status, budget |-> budget, seen |-> seen]

Return(c) == call' = [call EXCEPT ![c] = Idle]

Leave(v) ==
    /\ state' = v.state
    /\ status' = v.status
    /\ budget' = v.budget
    /\ seen' = v.seen

\* Mutant: a block that leaves the run's status alone.
BlockStep(c, j, v, b) ==
    /\ Leave([v EXCEPT !.state[j] = "blocked", !.budget = b])
    /\ Return(c)
    /\ UNCHANGED handoff

\* The step cannot go on; `b` is the accounting kept.
Block(c, j, v, b) ==
    /\ Leave([v EXCEPT !.state[j] = "blocked", !.status = "BLOCKED", !.budget = b])
    /\ Return(c)
    /\ UNCHANGED handoff

Spent(used, over) == [iterations |-> used, exceeded |-> over]

\* Mutant: the limit itself may still be spent.
WithinLimit(used) == used <= MaxIterations

WithinBudget(used) == used < MaxIterations

\* The next attempt at step j, after `attempts` of them and `used` port calls.
Send(c, j, attempts, used, v) ==
    /\ call' = [call EXCEPT ![c] = [pc |-> "executing", at |-> j, attempts |-> attempts + 1, used |-> used + 1]]
    /\ Leave([v EXCEPT !.seen.sent[j] = @ + 1])
    /\ UNCHANGED handoff

\* executeStep up to the port.  Refusals that depend on data (no runtime mapping,
\* tokens or time spent, provider unavailable) may happen at any time.
Execute(c, j, used, v) ==
    IF \E i \in 1 .. (j - 1) : ~Settled(v.state[i])
    THEN Block(c, j, v, v.budget)
    ELSE \/ \E b \in {v.budget, Spent(used, TRUE), Spent(used, FALSE)} : Block(c, j, v, b)
         \/ /\ WithinBudget(used)
            /\ ~v.budget.exceeded
            /\ Send(c, j, 0, used, [v EXCEPT !.state[j] = "running"])

\* A gate records its hand-off once and stops the drive.
Gate(c, j, v) ==
    /\ IF handoff[j] = "none"
       THEN /\ Leave([v EXCEPT !.state[j] = GateState(disposition[j]),
                               !.status = GateStatus(disposition[j])])
            /\ handoff' = [handoff EXCEPT ![j] = "open"]
       ELSE /\ Leave([v EXCEPT !.status = GateStatus(disposition[j])])
            /\ UNCHANGED handoff
    /\ Return(c)

\* The loop over the steps from the i-th on: the first that is not settled is
\* executed or is a gate; when there is none the run has its final status.
Drive(c, i, used, v) ==
    LET open == { s \in i .. N : ~Settled(v.state[s]) } IN
    \/ /\ open = {}
       /\ Leave([v EXCEPT !.status = FinalStatus(v.state)])
       /\ Return(c)
       /\ UNCHANGED handoff
    \/ \E j \in open :
         /\ \A s \in open : j <= s
         /\ IF disposition[j] = "EXECUTABLE" THEN Execute(c, j, used, v) ELSE Gate(c, j, v)

\* advance(): the budget guard starts from the persisted accounting.
Advance(c) ==
    /\ call[c].pc = "planning"
    /\ \/ Drive(c, 1, budget.iterations, [Current EXCEPT !.status = "RUNNING"])
       \/ /\ Leave([Current EXCEPT !.status = "BLOCKED"])       \* the plan is gone
          /\ Return(c)
          /\ UNCHANGED handoff
    /\ UNCHANGED <<plan, disposition>>

Complete(c) ==
    LET me == call[c] IN
    \E over \in BOOLEAN :
       Drive(c, me.at + 1, me.used,
             [Current EXCEPT !.state[me.at] = "completed", !.budget = Spent(me.used, over),
                             !.seen.done = @ \cup {me.at}])

\* Mutant: one retry too many.
CanRetryOnceMore(attempts) == attempts <= MaxRetries + 1
CanRetry(attempts) == attempts <= MaxRetries

\* A failed attempt: a pause before the next, or the step and the run have failed.
Fail(c) ==
    /\ IF CanRetry(call[c].attempts)
       THEN call' = [call EXCEPT ![c].pc = "sleeping"] /\ Leave(Current)
       ELSE Leave([Current EXCEPT !.state[call[c].at] = "failed", !.status = "FAILED"]) /\ Return(c)
    /\ UNCHANGED handoff

\* The port answers; a good answer may still need its artifacts verified.
PortReplies(c) ==
    /\ call[c].pc = "executing"
    /\ \/ Complete(c)
       \/ Fail(c)
       \/ /\ call' = [call EXCEPT ![c].pc = "verifying"]
          /\ Leave(Current)
          /\ UNCHANGED handoff
    /\ UNCHANGED <<plan, disposition>>

ArtifactsRead(c) ==
    /\ call[c].pc = "verifying"
    /\ Complete(c) \/ Fail(c)
    /\ UNCHANGED <<plan, disposition>>

Retry(c) ==
    /\ call[c].pc = "sleeping"
    /\ LET me == call[c] IN
       \/ Block(c, me.at, Current, Spent(me.used, TRUE))
       \/ WithinBudget(me.used) /\ Send(c, me.at, me.attempts, me.used, Current)
    /\ UNCHANGED <<plan, disposition>>

DriveStep(c) == Advance(c) \/ PortReplies(c) \/ ArtifactsRead(c) \/ Retry(c)

----------------------------------------------------------------------------
(* The user: decisions on a step, hand-offs, cancellation.                  *)

StartDrive(c) ==
    /\ call[c].pc = "idle"
    /\ call' = [call EXCEPT ![c] = Planning]
    /\ status' = "RUNNING"

Approve(c, s) ==
    /\ state[s] = "waiting_approval"
    /\ handoff' = [handoff EXCEPT ![s] = IF @ = "open" THEN "done" ELSE @]
    /\ disposition' = [disposition EXCEPT ![s] = "EXECUTABLE"]
    /\ state' = [state EXCEPT ![s] = "ready"]
    /\ seen' = [seen EXCEPT !.decision[s] = "approved", !.drives = @ + 1]
    /\ StartDrive(c)
    /\ UNCHANGED <<plan, budget>>

Reject(s) ==
    /\ state[s] = "waiting_approval"
    /\ state' = [state EXCEPT ![s] = "blocked"]
    /\ status' = "BLOCKED"
    /\ seen' = [seen EXCEPT !.decision[s] = "rejected"]
    /\ UNCHANGED <<plan, disposition, handoff, budget, call>>

\* Mutant: any hand-off makes its step executable.
CompleteAnyHandoff(c, s) ==
    /\ handoff[s] = "open"
    /\ state[s] \notin {"completed", "running"}
    /\ handoff' = [handoff EXCEPT ![s] = "done"]
    /\ disposition' = [disposition EXCEPT ![s] = "EXECUTABLE"]
    /\ state' = [state EXCEPT ![s] = "ready"]
    /\ seen' = [seen EXCEPT !.drives = @ + 1]
    /\ StartDrive(c)
    /\ UNCHANGED <<plan, budget>>

\* A configured step becomes executable; a manual one, or an approval gate, is done.
CompleteHandoff(c, s) ==
    LET configured == Resolve(plan[s]) = "CONFIGURE" IN
    /\ handoff[s] = "open"
    /\ state[s] \notin {"completed", "running"}
    /\ handoff' = [handoff EXCEPT ![s] = "done"]
    /\ disposition' = [disposition EXCEPT ![s] = IF configured THEN "EXECUTABLE" ELSE @]
    /\ state' = [state EXCEPT ![s] = IF configured THEN "ready" ELSE "completed"]
    /\ seen' = [seen EXCEPT !.done = IF configured THEN @ ELSE @ \cup {s}, !.drives = @ + 1]
    /\ StartDrive(c)
    /\ UNCHANGED <<plan, budget>>

Cancel ==
    /\ status' = "CANCELLED"
    /\ UNCHANGED <<plan, state, disposition, handoff, budget, call, seen>>

Next ==
    \/ \E c \in Callers : DriveStep(c)
    \/ \E c \in Callers, s \in Steps : Approve(c, s) \/ CompleteHandoff(c, s)
    \/ \E s \in Steps : Reject(s)
    \/ Cancel

Spec == Init /\ [][Next]_vars

\* The promises a drive awaits are settled.
FairSpec == Spec /\ \A c \in Callers : WF_vars(DriveStep(c))

----------------------------------------------------------------------------
\* Never a false COMPLETED: when the run says so every step is completed, however
\* many drives have worked on the run.
HonestCompletion == status = "COMPLETED" => \A s \in Steps : state[s] = "completed"

\* A step resolved to the approval gate reaches the provider only after the user's
\* last word on it was to approve.
ApprovedFirst ==
    \A s \in Steps :
        Resolve(plan[s]) = "WAITING_FOR_APPROVAL" /\ seen.sent[s] > 0 => seen.decision[s] = "approved"

\* A step is completed only after all earlier ones that can be were.
InOrder ==
    \A s \in seen.done, r \in Steps :
        r < s => r \in seen.done \/ Resolve(plan[r]) = "UNAVAILABLE"

\* Retries are bounded per drive, also when drives overlap.
RetriesPerDrive == \A s \in Steps : seen.sent[s] <= (MaxRetries + 1) * seen.drives

\* A run that is RUNNING has somebody who drives it.
Driven == status = "RUNNING" => \E c \in Callers : call[c].pc # "idle"

\* A run does not stay RUNNING: its drives end in a status of their own.
RunSettles == status = "RUNNING" ~> status # "RUNNING"

\* Nothing irreversible is sent to a provider without the user's approval.
IrreversibleApproved ==
    \A s \in Steps :
        plan[s].irreversible /\ seen.sent[s] > 0 => seen.decision[s] = "approved"
=============================================================================
