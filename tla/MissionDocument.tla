-------------------------- MODULE MissionDocument --------------------------
(***************************************************************************)
(* The durable mission document and the conditional operations the mission *)
(* store applies to it, each inside one row-locked transaction              *)
(* (PostgresMissionStore; one atomic step in InMemoryMissionStore).         *)
(*                                                                         *)
(* Every operation is a pair: a guard CanX(d, ...) on the authoritative     *)
(* document d, and the document X(d, ...) it commits.                       *)
(*                                                                         *)
(* Instants are kept relative to the clock.  `left` is expiresAt - now, and *)
(* an operation that read the clock `age` ticks before it reached the       *)
(* database compares expiresAt with that older reading: expiresAt > nowMs   *)
(* is left + age > 0.  A lease expired for MaxAge ticks or more is expired  *)
(* for every reading, so `left` saturates at -MaxAge.                       *)
(***************************************************************************)
EXTENDS Integers, FiniteSets

CONSTANTS
    Objectives,   \* objective ids; a smaller id has the higher priority
    Deps,         \* Deps[o]: the objectives o depends on
    Tokens,       \* fencing tokens, one fresh token per acquisition attempt
    NoToken,      \* the value of an absent lease
    TTL,          \* lease time-to-live, in ticks
    MaxAge,       \* a store call commits at most MaxAge ticks after it read the clock
    MaxRetries, MaxReplans, MaxObjectives    \* the mission budget

ASSUME ObjectivesAssumption == Objectives \subseteq Nat /\ IsFiniteSet(Objectives)
ASSUME DepsAssumption       == Deps \in [Objectives -> SUBSET Objectives]
ASSUME TokensAssumption     == NoToken \notin Tokens
ASSUME TimesAssumption      == TTL \in Nat \ {0} /\ MaxAge \in Nat /\ MaxAge < TTL
ASSUME BudgetAssumption     == /\ MaxRetries \in Nat
                               /\ MaxReplans \in Nat
                               /\ MaxObjectives \in Nat

----------------------------------------------------------------------------
(* Mission states and the frozen transition table.                         *)

Final == {"COMPLETED", "FAILED", "CANCELLED"}

MissionStates == {"CREATED", "RUNNING", "PAUSED", "WAITING_FOR_APPROVAL",
                  "WAITING_FOR_PROVIDER", "BLOCKED"} \cup Final

Moves == { <<"CREATED", "START", "RUNNING">>, <<"CREATED", "CANCEL", "CANCELLED">>,
           <<"CREATED", "FAIL", "FAILED">>,
           <<"RUNNING", "PAUSE", "PAUSED">>, <<"RUNNING", "CANCEL", "CANCELLED">>,
           <<"RUNNING", "COMPLETE", "COMPLETED">>, <<"RUNNING", "FAIL", "FAILED">>,
           <<"RUNNING", "WAIT_FOR_APPROVAL", "WAITING_FOR_APPROVAL">>,
           <<"RUNNING", "WAIT_FOR_PROVIDER", "WAITING_FOR_PROVIDER">>,
           <<"RUNNING", "BLOCK", "BLOCKED">>,
           <<"PAUSED", "RESUME", "RUNNING">>, <<"PAUSED", "CANCEL", "CANCELLED">>,
           <<"PAUSED", "FAIL", "FAILED">>,
           <<"WAITING_FOR_APPROVAL", "APPROVE", "RUNNING">>,
           <<"WAITING_FOR_APPROVAL", "REJECT_APPROVAL", "FAILED">>,
           <<"WAITING_FOR_APPROVAL", "CANCEL", "CANCELLED">>,
           <<"WAITING_FOR_PROVIDER", "PROVIDER_AVAILABLE", "RUNNING">>,
           <<"WAITING_FOR_PROVIDER", "CANCEL", "CANCELLED">>,
           <<"WAITING_FOR_PROVIDER", "FAIL", "FAILED">>,
           <<"WAITING_FOR_PROVIDER", "PAUSE", "PAUSED">>,
           <<"BLOCKED", "UNBLOCK", "RUNNING">>, <<"BLOCKED", "CANCEL", "CANCELLED">>,
           <<"BLOCKED", "FAIL", "FAILED">>, <<"BLOCKED", "PAUSE", "PAUSED">> }

\* The state command c leads to from state s; canTransition is s's membership.
CanTransition(s, c) == \E t \in MissionStates : <<s, c, t>> \in Moves
Transition(s, c)    == CHOOSE t \in MissionStates : <<s, c, t>> \in Moves

TerminalCommands == {"COMPLETE", "FAIL", "CANCEL", "REJECT_APPROVAL"}

----------------------------------------------------------------------------
(* The document.                                                           *)

ObjectiveStates == {"PENDING", "READY", "RUNNING", "VERIFIED", "FAILED", "SKIPPED"}
Settled         == {"VERIFIED", "FAILED", "SKIPPED"}

ObjectiveType == [state : ObjectiveStates, token : Tokens \cup {NoToken},
                  left : -MaxAge .. TTL, retries : Nat]

UsageType == [completed : Nat, failed : Nat, retries : Nat, replans : Nat]

DocType == [state : MissionStates, objs : [Objectives -> ObjectiveType], usage : UsageType]

NewObjective == [state |-> "PENDING", token |-> NoToken, left |-> 0, retries |-> 0]

NewMission == [state |-> "CREATED",
               objs  |-> [o \in Objectives |-> NewObjective],
               usage |-> [completed |-> 0, failed |-> 0, retries |-> 0, replans |-> 0]]

\* isLeaseLive against a clock read `age` ticks ago.
LeaseLive(ob, age)  == ob.token # NoToken /\ ob.left + age > 0
HasLiveLease(d, age) == \E o \in Objectives : LeaseLive(d.objs[o], age)
HasOtherLiveLease(d, o, age) ==
    \E p \in Objectives \ {o} : d.objs[p].state = "RUNNING" /\ LeaseLive(d.objs[p], age)

\* `current.state = RUNNING and the recorded token is t`; expiry plays no part.
Owns(d, o, t) == d.objs[o].state = "RUNNING" /\ d.objs[o].token = t

----------------------------------------------------------------------------
(* Store operations.                                                       *)

\* Mutant: an acquisition that does not look at the mission's other objectives.
CanAcquireBusy(d, o, age) == d.state \notin Final /\ d.objs[o].state \in {"PENDING", "READY"}

CanAcquire(d, o, age) ==
    /\ d.state \notin Final
    /\ d.objs[o].state \in {"PENDING", "READY"}
    /\ ~HasOtherLiveLease(d, o, age)

Acquire(d, o, t, age) ==
    [d EXCEPT !.objs[o] = [@ EXCEPT !.state = "RUNNING", !.token = t, !.left = TTL - age]]

\* Mutant: a renewal that extends the old expiry instead of the current instant.
RenewFromExpiry(d, o, age) == [d EXCEPT !.objs[o] = [@ EXCEPT !.left = @ + TTL]]

CanRenew(d, o, t, age) == Owns(d, o, t) /\ LeaseLive(d.objs[o], age)
Renew(d, o, age)       == [d EXCEPT !.objs[o] = [@ EXCEPT !.left = TTL - age]]

\* Mutant: a recovery that skips missions on hold.
CanHealRunning(d, o, age) ==
    d.state = "RUNNING" /\ d.objs[o].state = "RUNNING" /\ ~LeaseLive(d.objs[o], age)

CanHeal(d, o, age) ==
    /\ d.state \notin Final
    /\ d.objs[o].state = "RUNNING"
    /\ ~LeaseLive(d.objs[o], age)

Heal(d, o) ==
    [d EXCEPT !.objs[o] = [@ EXCEPT !.state = "READY", !.token = NoToken, !.left = 0]]

\* Mutant: a publication that a terminal mission accepts.
CanFinalizeClosed(d, o, t) == Owns(d, o, t)

CanFinalize(d, o, t) == Owns(d, o, t) /\ d.state \notin Final

\* applyPublicationToMission.  A publication that is still RUNNING (evidence)
\* keeps the authoritative lease; the publisher's usage REPLACES the mission's;
\* a hold applies only while the mission is RUNNING.
Publish(d, o, pub) ==
    [ state |-> IF d.state = "RUNNING" /\ pub.hold # "" THEN pub.hold ELSE d.state,
      objs  |-> [d.objs EXCEPT ![o] =
                   IF pub.state = "RUNNING" THEN @
                   ELSE [state |-> pub.state, token |-> NoToken, left |-> 0,
                         retries |-> pub.retries]],
      usage |-> pub.usage ]

\* Mutant: recovery changes applied without comparing what the pass observed.
SkipBlind(d, changes) ==
    [d EXCEPT !.objs = [o \in Objectives |->
        IF \E c \in changes : c[1] = o
        THEN [d.objs[o] EXCEPT !.state = "SKIPPED", !.token = NoToken, !.left = 0]
        ELSE d.objs[o]]]

\* applyRecoveryChangesToMission for the SKIPPED changes of a recovery pass, pairs
\* of an objective and the state the pass observed: each applies only while the
\* objective still is what the pass observed (PENDING and READY hold no lease).
Skip(d, changes) ==
    [d EXCEPT !.objs = [o \in Objectives |->
        IF <<o, d.objs[o].state>> \in changes
        THEN [d.objs[o] EXCEPT !.state = "SKIPPED", !.token = NoToken, !.left = 0]
        ELSE d.objs[o]]]

\* The refusals of patchMission: the state moved on; an objective is RUNNING
\* (requireIdle); an objective holds a live lease (requireNoLiveLease).
Idle(d) == \A o \in Objectives : d.objs[o].state # "RUNNING"
NoLiveLease(d, age) ==
    \A o \in Objectives : d.objs[o].state = "RUNNING" => ~LeaseLive(d.objs[o], age)

\* One tick of the clock, seen by a document.
Elapse(d) ==
    [d EXCEPT !.objs = [o \in Objectives |->
        [d.objs[o] EXCEPT !.left =
            IF d.objs[o].token = NoToken \/ @ = -MaxAge THEN @ ELSE @ - 1]]]

----------------------------------------------------------------------------
(* Decisions the controller derives from a copy of the document.           *)

\* The objective selector: PENDING or READY, every dependency VERIFIED.
Selectable(d) ==
    { o \in Objectives : /\ d.objs[o].state \in {"PENDING", "READY"}
                         /\ \A p \in Deps[o] : d.objs[p].state = "VERIFIED" }
Selected(d) == { o \in Selectable(d) : \A p \in Selectable(d) : o <= p }

AllSettled(d)  == Objectives # {} /\ \A o \in Objectives : d.objs[o].state \in Settled
AnyVerified(d) == \E o \in Objectives : d.objs[o].state = "VERIFIED"
AnyFailed(d)   == \E o \in Objectives : d.objs[o].state = "FAILED"

BudgetExhausted(u) ==
    \/ u.completed + u.failed >= MaxObjectives
    \/ u.retries > 0 /\ u.retries >= MaxRetries
    \/ u.replans > 0 /\ u.replans >= MaxReplans

Abandoned(d) == { o \in Objectives : d.objs[o].state = "RUNNING" /\ ~LeaseLive(d.objs[o], 0) }
=============================================================================
