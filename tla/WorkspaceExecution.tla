------------------------- MODULE WorkspaceExecution -------------------------
(***************************************************************************)
(* Attempts at objectives that share one workspace.  An attempt claims the   *)
(* workspace row, then its objective's lease, and works behind a gate that    *)
(* asks both stores before every operation, while a heartbeat renews the      *)
(* objective's lease and, after each confirmed renewal, the workspace row.    *)
(* A renewal has a budget of time and of retries; one given up may still       *)
(* commit.  Every attempt has a token of its own, itself.                      *)
(*                                                                         *)
(* Instants are kept relative to the clock: `left` and `known` are how far     *)
(* ahead an expiry lies, `clk` and `age` how long ago something was sent.     *)
(***************************************************************************)
EXTENDS Integers

CONSTANTS
    Attempts,
    NoAttempt,
    Missions,
    MissionOf,       \* MissionOf[a]: the mission whose objective is attempted
    TTL,             \* of the objective's lease
    WorkspaceTTL,
    Timeout,         \* the budget of one renewal
    MaxTries,        \* attempts of one renewal
    ClaimTries,      \* attempts of a claim
    MaxAge,          \* time from reading the clock to both claims made, or to
                     \* the answer of a companion renewal
    MaxLate,         \* a renewal commits at most so long after it was sent
    MaxMisses        \* companion renewals that fail in a row

Greater(m, n) == IF m > n THEN m ELSE n
Interval == Greater(1, TTL \div 3)

ASSUME LeaseAssumptions ==
    /\ NoAttempt \notin Attempts
    /\ MissionOf \in [Attempts -> Missions]
    /\ TTL \in Nat /\ WorkspaceTTL \in Nat /\ Timeout \in Nat \ {0} /\ MaxTries \in Nat \ {0}
    /\ ClaimTries \in Nat \ {0} /\ MaxAge \in Nat /\ MaxLate \in Nat /\ MaxMisses \in Nat

\* From one confirmed renewal to the next, at most.
Round == Interval + MaxTries * Timeout + MaxAge

\* The times the defaults leave room for: a renewal is confirmed before the lease
\* ends, even if one given up commits meanwhile, and so is a companion renewal.
ASSUME TimesAssumption ==
    /\ Round + Greater(Timeout, MaxLate) < TTL
    /\ MaxAge + (MaxMisses + 1) * Round < WorkspaceTTL

VARIABLES
    workspace,       \* the workspace row: its token and what is left of it
    objective,       \* objective[m]: the token of the RUNNING objective, what is left of its lease
    run,             \* run[a]: where the attempt is
    beat,            \* beat[a]: its heartbeat
    late             \* late[a]: ages of renewals given up that may still commit

vars == <<workspace, objective, run, beat, late>>

Lease(most) == [token : Attempts \cup {NoAttempt}, left : -Greater(MaxLate, MaxAge) .. most]
RunType  == [pc : {"idle", "claiming", "leasing", "working", "gating", "operating",
                   "stopping", "releasing", "done", "dead"},
             tries : 0 .. ClaimTries, age : 0 .. MaxAge]
BeatType == [st : {"off", "waiting", "renewing", "pausing", "companion", "failed"},
             clk : Nat, tries : 0 .. MaxTries, known : Int, missed : 0 .. MaxMisses]

TypeOK ==
    /\ workspace \in Lease(WorkspaceTTL)
    /\ objective \in [Missions -> Lease(TTL)]
    /\ run \in [Attempts -> RunType]
    /\ beat \in [Attempts -> BeatType]
    /\ late \in [Attempts -> SUBSET (0 .. MaxLate)]

Free == [token |-> NoAttempt, left |-> 0]
Off  == [st |-> "off", clk |-> 0, tries |-> 0, known |-> 0, missed |-> 0]
At(pc) == [pc |-> pc, tries |-> 0, age |-> 0]

Init ==
    /\ workspace = Free
    /\ objective = [m \in Missions |-> Free]
    /\ run  = [a \in Attempts |-> At("idle")]
    /\ beat = [a \in Attempts |-> Off]
    /\ late = [a \in Attempts |-> {}]

Goto(a, pc) == run' = [run EXCEPT ![a] = At(pc)]
Owns(a) == objective[MissionOf[a]].token = a

----------------------------------------------------------------------------
(* The claims.                                                              *)

\* acquire's upsert, sent with a clock reading `sent` ago.
Claimable(a, sent) == workspace.token \in {NoAttempt, a} \/ workspace.left <= -sent
Claimed(a, sent) == [token |-> a, left |-> WorkspaceTTL - sent]

Start(a) ==
    /\ run[a].pc = "idle"
    /\ run' = [run EXCEPT ![a] = [At("claiming") EXCEPT !.tries = 1]]
    /\ UNCHANGED <<workspace, objective, beat, late>>

\* The upsert is answered, or lost before or after it took effect; after the last
\* try, or when there was no connection, the attempt ends as if the row were busy.
Claim(a) ==
    LET me == run[a] IN
    /\ me.pc = "claiming"
    /\ \/ /\ Claimable(a, me.age)
          /\ workspace' = Claimed(a, me.age)
          /\ run' = [run EXCEPT ![a].pc = "leasing", ![a].tries = 0]
       \/ /\ ~Claimable(a, me.age)
          /\ Goto(a, "done")
          /\ UNCHANGED workspace
       \/ /\ workspace' \in {workspace} \cup (IF Claimable(a, me.age) THEN {Claimed(a, me.age)} ELSE {})
          /\ IF me.tries < ClaimTries THEN run' = [run EXCEPT ![a].tries = @ + 1] ELSE Goto(a, "done")
       \/ Goto(a, "done") /\ UNCHANGED workspace
    /\ UNCHANGED <<objective, beat, late>>

\* acquireObjectiveLease and the barrier: granted, refused, or lost after it took effect.
AcquireObjective(a) ==
    LET m == MissionOf[a]
        granted == [token |-> a, left |-> TTL - run[a].age] IN
    /\ run[a].pc = "leasing"
    /\ \/ /\ objective[m].token = NoAttempt
          /\ objective' = [objective EXCEPT ![m] = granted]
          /\ \/ /\ Goto(a, "working")
                /\ beat' = [beat EXCEPT ![a] = [Off EXCEPT !.st = "waiting", !.known = TTL - run[a].age]]
             \/ Goto(a, "releasing") /\ UNCHANGED beat
       \/ Goto(a, "releasing") /\ UNCHANGED <<objective, beat>>
    /\ UNCHANGED <<workspace, late>>

----------------------------------------------------------------------------
(* The work, behind the gate.                                               *)

\* ownershipRefusal: the mission store is asked first.
GateObjective(a) ==
    /\ run[a].pc = "working"
    /\ Goto(a, IF Owns(a) THEN "gating" ELSE "stopping")
    /\ UNCHANGED <<workspace, objective, beat, late>>

Held(a) == workspace.token = a

\* held: then the workspace store; an error counts as a refusal.
GateWorkspace(a) ==
    /\ run[a].pc = "gating"
    /\ \/ Held(a) /\ Goto(a, "operating")
       \/ Goto(a, "stopping")
    /\ UNCHANGED <<workspace, objective, beat, late>>

\* An operation ends; after the last one the result is published, which takes the
\* objective out of RUNNING if it is still the attempt's.
OperationEnds(a) ==
    /\ run[a].pc = "operating"
    /\ \/ Goto(a, "working") /\ UNCHANGED objective
       \/ /\ Goto(a, "stopping")
          /\ objective' \in {objective} \cup
               { [objective EXCEPT ![m] = Free] : m \in {n \in Missions : objective[n].token = a} }
    /\ UNCHANGED <<workspace, beat, late>>

\* Mutant: the heartbeat is left running.
StopNothing(a) ==
    /\ run[a].pc = "stopping"
    /\ Goto(a, "releasing")
    /\ UNCHANGED <<workspace, objective, beat, late>>

\* stop(): no more ticks; what is in flight is awaited.
Stop(a) ==
    /\ run[a].pc = "stopping"
    /\ beat[a].st \in {"off", "waiting", "pausing", "failed"}
    /\ beat' = [beat EXCEPT ![a] = Off]
    /\ Goto(a, "releasing")
    /\ UNCHANGED <<workspace, objective, late>>

\* Mutant: a release that does not look at the token.
FreedAnyway(a) == Free

Freed(a) == IF workspace.token = a THEN Free ELSE workspace

Release(a) ==
    /\ run[a].pc = "releasing"
    /\ workspace' \in {workspace, Freed(a)}
    /\ Goto(a, "done")
    /\ UNCHANGED <<objective, beat, late>>

RunStep(a) ==
    \/ Claim(a) \/ AcquireObjective(a) \/ GateObjective(a) \/ GateWorkspace(a)
    \/ OperationEnds(a) \/ Stop(a) \/ Release(a)

----------------------------------------------------------------------------
(* The heartbeat.                                                           *)

\* renewObjectiveLease, sent with a clock reading `sent` ago.
Renewable(a, sent) == Owns(a) /\ objective[MissionOf[a]].left > -sent
Renewed(a, sent) == [objective EXCEPT ![MissionOf[a]].left = TTL - sent]

Stopped(a) == run[a].pc = "stopping"
Beat(a, b) == beat' = [beat EXCEPT ![a] = IF Stopped(a) THEN Off ELSE b]
GivenUp == [Off EXCEPT !.st = "failed"]

Tick(a) ==
    /\ beat[a].st = "waiting"
    /\ beat[a].clk = Interval
    /\ ~Stopped(a)
    /\ Beat(a, [beat[a] EXCEPT !.st = "renewing", !.clk = 0, !.tries = 1])
    /\ UNCHANGED <<workspace, objective, run, late>>

\* Mutant: the retry is not weighed against what is known to be left.
TransientRetried(a) ==
    Beat(a, IF beat[a].tries <= MaxTries THEN [beat[a] EXCEPT !.st = "pausing", !.clk = 0] ELSE GivenUp)

\* No answer: a retry, if one is left and can end before the expiry that is known.
Transient(a) ==
    Beat(a, IF beat[a].tries < MaxTries /\ Timeout <= beat[a].known
            THEN [beat[a] EXCEPT !.st = "pausing", !.clk = 0] ELSE GivenUp)

\* Confirmed, refused, or failed before or after it took effect.
RenewalSettles(a) ==
    LET sent == beat[a].clk IN
    /\ beat[a].st = "renewing"
    /\ \/ /\ Renewable(a, sent)
          /\ objective' = Renewed(a, sent)
          /\ Beat(a, [beat[a] EXCEPT !.st = "companion", !.clk = 0, !.tries = 0, !.known = TTL])
       \/ /\ ~Renewable(a, sent)
          /\ Beat(a, GivenUp)
          /\ UNCHANGED objective
       \/ /\ objective' \in {objective} \cup (IF Renewable(a, sent) THEN {Renewed(a, sent)} ELSE {})
          /\ Transient(a)
    /\ UNCHANGED <<workspace, run, late>>

RenewalTimesOut(a) ==
    /\ beat[a].st = "renewing"
    /\ beat[a].clk = Timeout
    /\ late' = [late EXCEPT ![a] = @ \cup {t \in {Timeout} : t <= MaxLate}]
    /\ Transient(a)
    /\ UNCHANGED <<workspace, objective, run>>

\* The mission store is asked whether the lease is still the attempt's.
Resend(a) ==
    /\ beat[a].st = "pausing"
    /\ ~Stopped(a)
    /\ Beat(a, IF Owns(a) THEN [beat[a] EXCEPT !.st = "renewing", !.tries = @ + 1] ELSE GivenUp)
    /\ UNCHANGED <<workspace, objective, run, late>>

Extended(a, sent) ==
    IF workspace.token = a /\ workspace.left > -sent
    THEN [workspace EXCEPT !.left = WorkspaceTTL - sent] ELSE workspace

\* The companion renewal; one that fails, whether or not it took effect, is forgotten.
Companion(a) ==
    /\ beat[a].st = "companion"
    /\ \/ /\ workspace' = Extended(a, beat[a].clk)
          /\ Beat(a, [beat[a] EXCEPT !.st = "waiting", !.clk = 0, !.missed = 0])
       \/ /\ beat[a].missed < MaxMisses
          /\ workspace' \in {workspace, Extended(a, beat[a].clk)}
          /\ Beat(a, [beat[a] EXCEPT !.st = "waiting", !.clk = 0, !.missed = @ + 1])
    /\ UNCHANGED <<objective, run, late>>

BeatStep(a) ==
    Tick(a) \/ RenewalSettles(a) \/ RenewalTimesOut(a) \/ Resend(a) \/ Companion(a)

----------------------------------------------------------------------------
(* Renewals given up, crashes, recovery, the clock.                         *)

LateCommit(a) ==
    /\ \E e \in late[a] :
         /\ Renewable(a, e)
         /\ objective' = Renewed(a, e)
         /\ late' = [late EXCEPT ![a] = @ \ {e}]
    /\ UNCHANGED <<workspace, run, beat>>

\* The process dies; what it has sent may still commit.
Crash(a) ==
    /\ run[a].pc \notin {"idle", "done", "dead"}
    /\ Goto(a, "dead")
    /\ beat' = [beat EXCEPT ![a] = Off]
    /\ late' = [late EXCEPT ![a] = IF beat[a].st = "renewing" THEN @ \cup {t \in {beat[a].clk} : t <= MaxLate} ELSE @]
    /\ workspace' \in {workspace} \cup
         (IF run[a].pc = "claiming" /\ Claimable(a, run[a].age) THEN {Claimed(a, run[a].age)} ELSE {})
    /\ UNCHANGED objective

\* Mutant: recovery takes a lease that is about to expire.
ExpiredSoon(m) == objective[m].left <= 1

Expired(m) == objective[m].left <= 0

\* recoverMission gives an objective whose lease has expired back.
Heal(m) ==
    /\ objective[m].token # NoAttempt
    /\ Expired(m)
    /\ objective' = [objective EXCEPT ![m] = Free]
    /\ UNCHANGED <<workspace, run, beat, late>>

Aged(lease) ==
    IF lease.token = NoAttempt \/ lease.left = -Greater(MaxLate, MaxAge) THEN lease ELSE [lease EXCEPT !.left = @ - 1]

\* Timers fire in time and budgets end: what has to happen first, does.
Clock ==
    /\ \A a \in Attempts :
         /\ run[a].pc \in {"claiming", "leasing"} => run[a].age < MaxAge
         /\ beat[a].st = "waiting" => beat[a].clk < Interval
         /\ beat[a].st = "renewing" => beat[a].clk < Timeout
         /\ beat[a].st = "companion" => beat[a].clk < MaxAge
         /\ beat[a].st # "pausing"
    /\ workspace' = Aged(workspace)
    /\ objective' = [m \in Missions |-> Aged(objective[m])]
    /\ run' = [a \in Attempts |-> IF run[a].pc \in {"claiming", "leasing"}
                                  THEN [run[a] EXCEPT !.age = @ + 1] ELSE run[a]]
    /\ beat' = [a \in Attempts |-> IF beat[a].st \in {"off", "failed"} THEN beat[a]
                                   ELSE [beat[a] EXCEPT !.clk = @ + 1, !.known = @ - 1]]
    /\ late' = [a \in Attempts |-> { e + 1 : e \in late[a] } \cap (0 .. MaxLate)]

Next ==
    \/ \E a \in Attempts : Start(a) \/ RunStep(a) \/ BeatStep(a) \/ LateCommit(a) \/ Crash(a)
    \/ \E m \in Missions : Heal(m)
    \/ Clock

Spec == Init /\ [][Next]_vars

\* Calls are answered, timers fire, time passes.
FairSpec ==
    /\ Spec
    /\ \A a \in Attempts : WF_vars(RunStep(a)) /\ WF_vars(BeatStep(a))
    /\ WF_vars(Clock)

----------------------------------------------------------------------------
AtWork(a) == run[a].pc \in {"working", "gating", "operating"}
Beating(a) == beat[a].st \notin {"off", "failed"}

\* While an attempt's heartbeat has not given up, its lease is live: renewals that
\* are slow, repeated, or commit late never let recovery take the objective away.
LeaseKept ==
    \A a \in Attempts : AtWork(a) /\ Beating(a) => Owns(a) /\ objective[MissionOf[a]].left > 0

\* Nobody else gets the workspace of an attempt whose heartbeat has not given up,
\* although companion renewals are best effort.
WorkspaceKept == \A a \in Attempts : AtWork(a) /\ Beating(a) => workspace.token = a

\* The claim of an attempt that ended, died, or never learnt that it had it, ends.
WorkspaceFreed ==
    \A a \in Attempts :
        workspace.token = a /\ run[a].pc \in {"done", "dead"}
          ~> workspace.token # a \/ workspace.left <= 0
=============================================================================
