--------------------- MODULE DiscoveryScheduler_proofs ---------------------
(***************************************************************************)
(* The safety of the scheduler, for any number of jobs, ticks, manual runs,  *)
(* items and settings.  A run has many awaits and few effects: whatever it    *)
(* does, it goes on, ends or dies (RunEffect), and the properties need no     *)
(* more than that of it.                                                     *)
(***************************************************************************)
EXTENDS DiscoveryScheduler, TLAPS

\* What a run keeps between its awaits.
CallOK(c) ==
    /\ call[c].pc # "idle" => call[c].at \in Jobs
    /\ call[c].pc # "notifying" => call[c].item = {}

\* A window of some length has passed.
Full(n) == \E f \in Frequencies : f <= n

\* A run is no older than the tick's start of its job, which `last` counts from.
AgeOK(c) ==
    c \in Active /\ call[c].at \notin seen.overlap =>
        call[c].age <= seen.last[call[c].at] \/ Full(seen.last[call[c].at])

\* When the next start is due, a window has passed since the last one.
Windowed(j) ==
    j \in seen.overlap \/ job[j].inFlight \/ Full(job[j].next + seen.last[j])

Typed == TypeOK /\ \A c \in Callers : CallOK(c)

Windows == /\ \A c \in Callers : AgeOK(c)
           /\ \A j \in Jobs : Windowed(j)

IInv == Typed /\ InFlightMeansRunning /\ DedupUnlessOverlapping /\ Windows

----------------------------------------------------------------------------
(* What a step of a run amounts to.                                         *)

SameHistory == seen'.last = seen.last /\ seen'.overlap = seen.overlap

\* The run awaits something else now.
GoesOn(c) ==
    /\ call'[c].pc # "idle"
    /\ call'[c].at = call[c].at
    /\ call'[c].copy = call[c].copy
    /\ call'[c].age = call[c].age
    /\ job' = job
    /\ seen'.thrown = seen.thrown

\* The run writes its job back.
Ends(c) ==
    /\ call'[c] = Idle
    /\ job' = [job EXCEPT ![call[c].at] =
                 Written(call[c].copy, call[c].copy.frequency - call[c].age)]
    /\ seen'.thrown = seen.thrown \ {call[c].at}

\* The run dies of an exception.
Dies(c) ==
    /\ call'[c] = Idle
    /\ job' = job
    /\ seen'.thrown = IF job[call[c].at].inFlight /\ RunsOf(call[c].at) = {c}
                      THEN seen.thrown \cup {call[c].at} ELSE seen.thrown

\* Other runs are told of new items, and that is all.
OthersToldOf(c) ==
    \A d \in Callers \ {c} :
        \E fresh \in SUBSET Items : call'[d] = [call[d] EXCEPT !.fresh = fresh]

\* A notification that was sent is witnessed by all runs at work; one that is about to be
\* sent is outside its window.
Notified(c) ==
    /\ \A i \in Items : \/ cooldown'[i] = cooldown[i] /\ seen'.witness[i] = seen.witness[i]
                        \/ seen'.witness[i] = Active
    /\ \A i \in call'[c].item : cooldown[i] <= 0

RunEffect(c) ==
    /\ c \in Active
    /\ GoesOn(c) \/ Ends(c) \/ Dies(c)
    /\ OthersToldOf(c)
    /\ SameHistory
    /\ Notified(c)

----------------------------------------------------------------------------
LEMMA Bounds ==
  /\ MaxRun \in Nat /\ Cooldown \in Nat /\ MaxAttempts \in Nat \ {0} /\ MaxRetries \in Nat
  /\ MaxRun < Cooldown
  /\ \A f \in Frequencies : f \in Nat /\ MaxRun < f
  /\ Frequencies # {}
  BY SchedulerAssumptions

LEMMA IdleType == Idle \in CallType /\ AnySetting \in Setting
  <1>1. PICK f \in Frequencies : TRUE
    BY Bounds
  <1>2. [enabled |-> TRUE, frequency |-> f] \in Setting
    BY DEF Setting
  <1>3. AnySetting \in Setting
    BY <1>2 DEF AnySetting
  <1> QED BY <1>3, Bounds DEF Idle, CallType

\* What a run writes back is a job.
LEMMA WrittenType ==
  ASSUME NEW copy \in Setting, NEW next \in Nat
  PROVE  Written(copy, next) \in JobType
  BY DEF Written, Setting, JobType

LEMMA InitIInv == Init => IInv
  <1> SUFFICES ASSUME Init PROVE IInv
    OBVIOUS
  <1>1. PICK f \in [Jobs -> Frequencies] :
          /\ job = [j \in Jobs |-> [enabled |-> TRUE, frequency |-> f[j], next |-> 0,
                                    inFlight |-> FALSE, cancelRequested |-> FALSE]]
          /\ cooldown = [i \in Items |-> -MaxRun]
          /\ call = [c \in Callers |-> Idle]
          /\ nextJob = [t \in Tickers |-> 0]
          /\ seen = [last |-> f, witness |-> [i \in Items |-> {}], thrown |-> {}, overlap |-> {}]
    BY DEF Init
  <1>2. \A j \in Jobs : f[j] \in Nat /\ f[j] \in Frequencies
    BY Bounds
  <1>3. TypeOK
    <2>1. job \in [Jobs -> JobType]
      BY <1>1, <1>2 DEF JobType
    <2>2. cooldown \in [Items -> -MaxRun .. Cooldown]
      BY <1>1, Bounds
    <2>3. call \in [Callers -> CallType] /\ nextJob \in [Tickers -> 0 .. M + 1]
      BY <1>1, IdleType, SchedulerAssumptions
    <2>4. f \in [Jobs -> Nat]
      BY <1>2
    <2> QED BY <1>1, <2>1, <2>2, <2>3, <2>4 DEF TypeOK
  <1>4. \A c \in Callers : call[c] = Idle
    BY <1>1
  <1>5. Active = {}
    BY <1>4 DEF Active, Idle
  <1>6. \A j \in Jobs : Windowed(j)
    BY <1>1, <1>2 DEF Windowed, Full
  <1>7. InFlightMeansRunning
    BY <1>1 DEF InFlightMeansRunning
  <1>8. DedupUnlessOverlapping /\ \A c \in Callers : CallOK(c) /\ AgeOK(c)
    BY <1>4, <1>5 DEF DedupUnlessOverlapping, CallOK, AgeOK, Idle
  <1> QED BY <1>3, <1>6, <1>7, <1>8 DEF IInv, Typed, Windows

----------------------------------------------------------------------------
(* A step of a run is one of the three effects.                             *)

LEMMA CallTypeOf ==
  ASSUME Typed, NEW c \in Callers
  PROVE  /\ call[c] \in CallType
         /\ call[c].pc # "idle" => call[c].at \in Jobs
         /\ call[c].pc # "notifying" => call[c].item = {}
  BY DEF Typed, TypeOK, CallOK

\* A call that changes only for `c`, and there as given, is typed again.
LEMMA OneCall ==
  ASSUME Typed, NEW c \in Callers, NEW new \in CallType, call' = [call EXCEPT ![c] = new]
  PROVE  /\ call' \in [Callers -> CallType]
         /\ call'[c] = new
         /\ OthersToldOf(c)
  <1>1. \A d \in Callers : call[d] \in CallType
    BY DEF Typed, TypeOK
  <1>2. \A d \in Callers \ {c} : call'[d] = call[d] /\ call[d] = [call[d] EXCEPT !.fresh = call[d].fresh]
                                 /\ call[d].fresh \in SUBSET Items
    BY <1>1 DEF Typed, TypeOK, CallType
  <1>3. call'[c] = new /\ call' \in [Callers -> CallType]
    BY DEF Typed, TypeOK
  <1> QED BY <1>2, <1>3 DEF OthersToldOf

\* The whole effect of a step of a run, with the types it keeps.
Effect(c) == RunEffect(c) /\ call' \in [Callers -> CallType] /\ CallOK(c)'

LEMMA EndLoopEffect ==
  ASSUME Typed, NEW c \in Active, NEW st \in {"COMPLETED", "CANCELLED", "FAILED"},
         EndLoop(c, st), call[c].item = {}, job' = job, cooldown' = cooldown, seen' = seen
  PROVE  Effect(c)
  <1>0. c \in Callers /\ call[c].pc # "idle"
    BY DEF Active
  <1>1. PICK end \in {st, "FAILED"} :
          call' = [call EXCEPT ![c].pc = "after", ![c].status = end, ![c].attempt = 0]
    BY DEF EndLoop
  <1> DEFINE new == [call[c] EXCEPT !.pc = "after", !.status = end, !.attempt = 0]
  <1>2. new \in CallType
    <2>1. call[c] \in CallType /\ 0 \in 0 .. MaxAttempts
      BY <1>0, CallTypeOf, Bounds
    <2>2. end \in {"COMPLETED", "CANCELLED", "FAILED"}
      BY <1>1
    <2> QED BY <2>1, <2>2 DEF CallType
  <1>3. call' = [call EXCEPT ![c] = new]
    BY <1>0, <1>1 DEF Typed, TypeOK
  <1>4. call' \in [Callers -> CallType] /\ call'[c] = new /\ OthersToldOf(c)
    BY <1>0, <1>2, <1>3, OneCall
  <1>5. GoesOn(c) /\ CallOK(c)'
    BY <1>0, <1>4, CallTypeOf DEF GoesOn, CallOK, CallType
  <1>6. Notified(c) /\ SameHistory
    BY <1>0, <1>4, CallTypeOf DEF Notified, SameHistory, CallType
  <1> QED BY <1>4, <1>5, <1>6 DEF Effect, RunEffect

LEMMA AttemptEffect ==
  ASSUME Typed, NEW c \in Active, NEW n \in 1 .. MaxAttempts, Attempt(c, n),
         call[c].item = {}, Quiet
  PROVE  Effect(c)
  <1>0. c \in Callers /\ call[c].pc # "idle" /\ job' = job /\ cooldown' = cooldown /\ seen' = seen
    BY DEF Active, Quiet
  <1>1. CASE \E st \in {"COMPLETED", "CANCELLED", "FAILED"} : EndLoop(c, st)
    BY <1>0, <1>1, EndLoopEffect
  <1>2. CASE call' = [call EXCEPT ![c].pc = "discovering", ![c].attempt = n]
    <2> DEFINE new == [call[c] EXCEPT !.pc = "discovering", !.attempt = n]
    <2>1. new \in CallType
      <3>1. call[c] \in CallType /\ n \in 0 .. MaxAttempts
        BY <1>0, CallTypeOf, Bounds
      <3> QED BY <3>1 DEF CallType
    <2>2. call' = [call EXCEPT ![c] = new]
      BY <1>0, <1>2 DEF Typed, TypeOK
    <2>3. call' \in [Callers -> CallType] /\ call'[c] = new /\ OthersToldOf(c)
      BY <1>0, <2>1, <2>2, OneCall
    <2>4. GoesOn(c) /\ CallOK(c)'
      BY <1>0, <2>3, CallTypeOf DEF GoesOn, CallOK, CallType
    <2>5. Notified(c) /\ SameHistory
      BY <1>0, <2>3, CallTypeOf DEF Notified, SameHistory, CallType
    <2> QED BY <2>3, <2>4, <2>5 DEF Effect, RunEffect
  <1> QED BY <1>1, <1>2 DEF Attempt

LEMMA ThrowsEffect ==
  ASSUME Typed, NEW c \in Active, Throws(c)
  PROVE  Effect(c)
  <1>0. c \in Callers /\ call[c].pc # "idle" /\ call[c].at \in Jobs
    BY CallTypeOf DEF Active
  <1>1. call' \in [Callers -> CallType] /\ call'[c] = Idle /\ OthersToldOf(c)
    BY <1>0, IdleType, OneCall DEF Throws
  <1>2. Dies(c)
    BY <1>0, <1>1 DEF Throws, Dies, Typed, TypeOK
  <1>3. Notified(c) /\ SameHistory /\ CallOK(c)'
    BY <1>1 DEF Throws, Notified, SameHistory, Typed, TypeOK, Idle, CallOK
  <1> QED BY <1>1, <1>2, <1>3 DEF Effect, RunEffect

\* Notify(c, h), with the history `h` and the cooldowns the caller of it gives.
LEMMA NotifyEffect ==
  ASSUME Typed, NEW c \in Active, NEW h, Notify(c, h),
         h = [seen EXCEPT !.witness = h.witness],
         \A i \in Items : \/ cooldown'[i] = cooldown[i] /\ h.witness[i] = seen.witness[i]
                          \/ h.witness[i] = Active
  PROVE  Effect(c)
  <1>0. c \in Callers /\ call[c].pc # "idle" /\ call[c].at \in Jobs /\ call[c] \in CallType
    BY CallTypeOf DEF Active
  <1>1. h.last = seen.last /\ h.overlap = seen.overlap /\ h.thrown = seen.thrown
    BY DEF Typed, TypeOK
  <1>2. CASE Finish(c, h)
    <2>1. call' \in [Callers -> CallType] /\ call'[c] = Idle /\ OthersToldOf(c)
      BY <1>0, <1>2, IdleType, OneCall DEF Finish
    <2>2. /\ seen'.last = h.last /\ seen'.overlap = h.overlap /\ seen'.witness = h.witness
          /\ seen'.thrown = h.thrown \ {call[c].at}
      BY <1>2 DEF Finish, Typed, TypeOK
    <2>3. Ends(c) /\ SameHistory
      BY <1>1, <1>2, <2>1, <2>2 DEF Finish, Ends, SameHistory
    <2>4. Notified(c) /\ CallOK(c)'
      BY <2>1, <2>2 DEF Notified, Idle, CallOK
    <2> QED BY <2>1, <2>3, <2>4 DEF Effect, RunEffect
  <1>3. CASE ~Finish(c, h)
    <2>1. PICK i \in call[c].fresh :
            /\ Eligible(c, i)
            /\ call' = [call EXCEPT ![c].pc = "notifying", ![c].item = {i}, ![c].fresh = @ \ {i}]
      BY <1>3 DEF Notify
    <2>2. seen' = h /\ job' = job
      BY <1>3 DEF Notify
    <2> DEFINE new == [call[c] EXCEPT !.pc = "notifying", !.item = {i}, !.fresh = @ \ {i}]
    <2>3. i \in Items /\ new \in CallType
      BY <1>0, <2>1, Bounds DEF CallType
    <2>4. call' = [call EXCEPT ![c] = new]
      BY <1>0, <2>1 DEF Typed, TypeOK
    <2>5. call' \in [Callers -> CallType] /\ call'[c] = new /\ OthersToldOf(c)
      BY <1>0, <2>3, <2>4, OneCall
    <2>6. GoesOn(c) /\ CallOK(c)' /\ SameHistory
      BY <1>0, <1>1, <2>2, <2>5 DEF GoesOn, CallOK, CallType, SameHistory
    <2>7. cooldown[i] \in Int /\ call[c].age \in Nat
      BY <1>0, <2>3, Bounds DEF Typed, TypeOK, CallType
    <2>8. cooldown[i] <= 0
      BY <2>1, <2>7 DEF Eligible
    <2>9. Notified(c)
      BY <1>0, <2>2, <2>5, <2>8 DEF Notified, CallType
    <2> QED BY <2>5, <2>6, <2>9 DEF Effect, RunEffect
  <1> QED BY <1>2, <1>3

LEMMA DiscoveredEffect ==
  ASSUME Typed, NEW c \in Callers, call[c].pc = "discovering", Discovered(c)
  PROVE  Effect(c)
  <1>0. c \in Active /\ call[c].at \in Jobs /\ call[c].item = {}
    BY CallTypeOf DEF Active
  <1>1. PICK new \in SUBSET Items, end \in {"COMPLETED", "FAILED"} :
          call' = [d \in Callers |->
                    LET told == IF call[d].pc \in {"discovering", "after"}
                                THEN [call[d] EXCEPT !.fresh = @ \cup new] ELSE call[d] IN
                    IF d = c THEN [told EXCEPT !.pc = "after", !.status = end, !.attempt = 0] ELSE told]
    BY DEF Discovered
  <1>2. \A d \in Callers : call[d] \in CallType
    BY CallTypeOf
  <1>3. \A d \in Callers \ {c} :
          /\ call'[d] \in CallType
          /\ \E fresh \in SUBSET Items : call'[d] = [call[d] EXCEPT !.fresh = fresh]
    <2> SUFFICES ASSUME NEW d \in Callers \ {c}
                 PROVE  /\ call'[d] \in CallType
                        /\ \E fresh \in SUBSET Items : call'[d] = [call[d] EXCEPT !.fresh = fresh]
      OBVIOUS
    <2>1. CASE call[d].pc \in {"discovering", "after"}
      <3>1. call'[d] = [call[d] EXCEPT !.fresh = call[d].fresh \cup new]
        BY <1>1, <2>1
      <3>2. call[d].fresh \cup new \in SUBSET Items
        BY <1>2 DEF CallType
      <3> QED BY <1>2, <3>1, <3>2 DEF CallType
    <2>2. CASE call[d].pc \notin {"discovering", "after"}
      <3>1. call'[d] = call[d]
        BY <1>1, <2>2
      <3>2. call[d] = [call[d] EXCEPT !.fresh = call[d].fresh] /\ call[d].fresh \in SUBSET Items
        BY <1>2 DEF CallType
      <3> QED BY <1>2, <3>1, <3>2
    <2> QED BY <2>1, <2>2
  <1>4. call'[c] = [call[c] EXCEPT !.fresh = @ \cup new, !.pc = "after", !.status = end, !.attempt = 0]
    BY <1>1, <1>2
  <1>5. call'[c] \in CallType
    <2>1. call[c] \in CallType /\ 0 \in 0 .. MaxAttempts /\ call[c].fresh \cup new \in SUBSET Items
      BY <1>2, Bounds DEF CallType
    <2> QED BY <1>4, <2>1 DEF CallType
  <1>6. call' \in [Callers -> CallType]
    <2>1. \A d \in Callers : call'[d] \in CallType
      BY <1>3, <1>5
    <2> QED BY <1>1, <2>1
  <1>7. /\ call'[c].pc = "after" /\ call'[c].at = call[c].at /\ call'[c].copy = call[c].copy
        /\ call'[c].age = call[c].age /\ call'[c].item = {}
    BY <1>0, <1>2, <1>4 DEF CallType
  <1>8. GoesOn(c) /\ CallOK(c)' /\ Notified(c) /\ SameHistory
    BY <1>0, <1>7 DEF Discovered, Quiet, GoesOn, CallOK, Notified, SameHistory
  <1> QED BY <1>0, <1>3, <1>6, <1>8 DEF Effect, RunEffect, OthersToldOf

LEMMA RunStepEffect ==
  ASSUME Typed, NEW c \in Callers, RunStep(c)
  PROVE  Effect(c)
  <1>1. c \in Active
    BY DEF RunStep, Baseline, Discovering, After, Notifying, Active
  <1>2. 1 \in 1 .. MaxAttempts /\ call[c] \in CallType
    BY Bounds, CallTypeOf
  <1>3. CASE Baseline(c)
    <2>1. call[c].item = {}
      BY <1>3, CallTypeOf DEF Baseline
    <2> QED BY <1>1, <1>2, <1>3, <2>1, AttemptEffect, ThrowsEffect DEF Baseline
  <1>4. CASE Discovering(c)
    <2>0. call[c].item = {} /\ call[c].pc = "discovering"
      BY <1>4, CallTypeOf DEF Discovering
    <2>1. CASE Discovered(c)
      BY <2>0, <2>1, DiscoveredEffect
    <2>2. CASE CanRetry(call[c].attempt) /\ Attempt(c, call[c].attempt + 1) /\ Quiet
      <3>1. call[c].attempt + 1 \in 1 .. MaxAttempts
        BY <1>2, <2>2, Bounds DEF CanRetry, CallType
      <3> QED BY <1>1, <2>0, <2>2, <3>1, AttemptEffect
    <2>3. CASE EndLoop(c, "FAILED") /\ Quiet
      BY <1>1, <2>0, <2>3, EndLoopEffect DEF Quiet
    <2> QED BY <1>4, <2>1, <2>2, <2>3 DEF Discovering
  <1>5. CASE After(c)
    <2>1. CASE Notify(c, seen) /\ UNCHANGED cooldown
      <3>1. seen = [seen EXCEPT !.witness = seen.witness]
        BY DEF Typed, TypeOK
      <3> QED BY <1>1, <2>1, <3>1, NotifyEffect
    <2> QED BY <1>1, <1>5, <2>1, ThrowsEffect DEF After
  <1>6. CASE Notifying(c)
    <2>1. ASSUME NEW i \in call[c].item,
                 cooldown' = [cooldown EXCEPT ![i] = Cooldown - call[c].age],
                 Notify(c, [seen EXCEPT !.witness[i] = Active])
          PROVE  Effect(c)
      <3> DEFINE h == [seen EXCEPT !.witness[i] = Active]
      <3>1. i \in Items
        BY <1>2 DEF CallType
      <3>2. h = [seen EXCEPT !.witness = h.witness] /\ h.witness = [seen.witness EXCEPT ![i] = Active]
        BY DEF Typed, TypeOK
      <3>3. \A k \in Items : \/ cooldown'[k] = cooldown[k] /\ h.witness[k] = seen.witness[k]
                             \/ h.witness[k] = Active
        BY <2>1, <3>1, <3>2 DEF Typed, TypeOK
      <3> HIDE DEF h
      <3> QED BY <1>1, <2>1, <3>2, <3>3, NotifyEffect DEF h
    <2>2. CASE Notify(c, seen) /\ UNCHANGED cooldown
      <3>1. seen = [seen EXCEPT !.witness = seen.witness]
        BY DEF Typed, TypeOK
      <3> QED BY <1>1, <2>2, <3>1, NotifyEffect
    <2> QED BY <1>1, <1>6, <2>1, <2>2, ThrowsEffect DEF Notifying
  <1> QED BY <1>3, <1>4, <1>5, <1>6 DEF RunStep

----------------------------------------------------------------------------
(* Type correctness.                                                        *)

SeenType == [last : [Jobs -> Nat], witness : [Items -> SUBSET Callers],
             thrown : SUBSET Jobs, overlap : SUBSET Jobs]

LEMMA SeenOf ==
  ASSUME Typed
  PROVE  /\ seen \in SeenType
         /\ seen.last \in [Jobs -> Nat] /\ seen.witness \in [Items -> SUBSET Callers]
         /\ seen.thrown \subseteq Jobs /\ seen.overlap \subseteq Jobs
  BY DEF Typed, TypeOK, SeenType

LEMMA ActiveTyped ==  Active \in SUBSET Callers
  BY DEF Active

\* Notify keeps the history it is given, up to `thrown`.
LEMMA NotifySeen ==
  ASSUME Typed, NEW c \in Active, NEW h \in SeenType, Notify(c, h)
  PROVE  seen' \in SeenType /\ nextJob' = nextJob
  BY DEF Notify, Finish, SeenType

\* How a step of a run writes what is not the run's own.
LEMMA RunStepForms ==
  ASSUME NEW c, RunStep(c)
  PROVE  \/ Quiet \/ Throws(c)
         \/ Notify(c, seen) /\ UNCHANGED cooldown
         \/ \E i \in call[c].item : /\ cooldown' = [cooldown EXCEPT ![i] = Cooldown - call[c].age]
                                   /\ Notify(c, [seen EXCEPT !.witness[i] = Active])
  <1>1. Discovered(c) => Quiet
    BY DEF Discovered
  <1> QED BY <1>1 DEF RunStep, Baseline, Discovering, After, Notifying

LEMMA RunStepTyped ==
  ASSUME Typed, NEW c \in Callers, RunStep(c)
  PROVE  Typed'
  <1>0. Effect(c) /\ c \in Active
    BY RunStepEffect DEF Effect, RunEffect
  <1>1. call[c] \in CallType /\ call[c].at \in Jobs
    BY <1>0, CallTypeOf DEF Active
  <1>2. call' \in [Callers -> CallType]
    BY <1>0 DEF Effect
  <1>3. \A d \in Callers : CallOK(d)'
    <2> SUFFICES ASSUME NEW d \in Callers \ {c} PROVE CallOK(d)'
      BY <1>0 DEF Effect
    <2>1. PICK fresh \in SUBSET Items : call'[d] = [call[d] EXCEPT !.fresh = fresh]
      BY <1>0 DEF Effect, RunEffect, OthersToldOf
    <2> QED BY <2>1, CallTypeOf DEF CallOK, CallType
  <1>4. job' \in [Jobs -> JobType]
    <2>1. CASE job' = job
      BY <2>1 DEF Typed, TypeOK
    <2>2. CASE Ends(c)
      <3>1. call[c].copy \in Setting /\ call[c].age \in 0 .. MaxRun
        BY <1>1 DEF CallType
      <3>2. call[c].copy.frequency - call[c].age \in Nat
        BY <3>1, Bounds DEF Setting
      <3>3. Written(call[c].copy, call[c].copy.frequency - call[c].age) \in JobType
        BY <3>1, <3>2, WrittenType
      <3> QED BY <1>1, <2>2, <3>3 DEF Ends, Typed, TypeOK
    <2> QED BY <1>0, <2>1, <2>2 DEF Effect, RunEffect, GoesOn, Dies
  <1>5. cooldown' \in [Items -> -MaxRun .. Cooldown]
    <2>1. CASE cooldown' = cooldown
      BY <2>1 DEF Typed, TypeOK
    <2>2. ASSUME NEW i \in Items, cooldown' = [cooldown EXCEPT ![i] = Cooldown - call[c].age]
          PROVE  cooldown' \in [Items -> -MaxRun .. Cooldown]
      <3>1. call[c].age \in 0 .. MaxRun
        BY <1>1 DEF CallType
      <3>2. Cooldown - call[c].age \in -MaxRun .. Cooldown
        BY <3>1, Bounds
      <3> QED BY <2>2, <3>2 DEF Typed, TypeOK
    <2>3. \/ cooldown' = cooldown
          \/ \E i \in call[c].item : cooldown' = [cooldown EXCEPT ![i] = Cooldown - call[c].age]
      BY RunStepForms DEF Throws, Quiet
    <2>4. call[c].item \subseteq Items
      BY <1>1 DEF CallType
    <2> QED BY <2>1, <2>2, <2>3, <2>4
  <1>6. nextJob' \in [Tickers -> 0 .. M + 1] /\ seen' \in SeenType
    <2>0. nextJob \in [Tickers -> 0 .. M + 1] /\ seen \in SeenType
      BY SeenOf DEF Typed, TypeOK
    <2>1. CASE Quiet
      BY <2>0, <2>1 DEF Quiet
    <2>2. CASE Throws(c)
      <3>1. nextJob' \in [Tickers -> 0 .. M + 1]
        BY <2>0, <2>2, SchedulerAssumptions DEF Throws
      <3>2. [seen EXCEPT !.thrown = @ \cup {call[c].at}] \in SeenType
        BY <1>1, <2>0 DEF SeenType
      <3> QED BY <2>0, <2>2, <3>1, <3>2 DEF Throws
    <2>3. ASSUME NEW h \in SeenType, Notify(c, h)
          PROVE  nextJob' \in [Tickers -> 0 .. M + 1] /\ seen' \in SeenType
      BY <1>0, <2>0, <2>3, NotifySeen
    <2>4. ASSUME NEW i \in call[c].item
          PROVE  [seen EXCEPT !.witness[i] = Active] \in SeenType
      BY <1>1, <2>0, ActiveTyped DEF SeenType, CallType
    <2> QED BY <2>0, <2>1, <2>2, <2>3, <2>4, RunStepForms
  <1> QED BY <1>2, <1>3, <1>4, <1>5, <1>6 DEF Typed, TypeOK, SeenType

LEMMA BeginTyped ==
  ASSUME Typed, NEW c \in Callers, NEW j \in Jobs, Begin(c, j)
  PROVE  /\ job' \in [Jobs -> JobType]
         /\ call' \in [Callers -> CallType]
         /\ call'[c].pc = "baseline" /\ call'[c].at = j /\ call'[c].item = {} /\ call'[c].age = 0
         /\ \A d \in Callers \ {c} : call'[d] = call[d]
         /\ \A d \in Callers : CallOK(d)'
         /\ Started(c, j) \in SeenType
  <1>1. job[j] \in JobType
    BY DEF Typed, TypeOK
  <1> DEFINE new == [Idle EXCEPT !.pc = "baseline", !.at = j,
                      !.copy = [enabled |-> job[j].enabled, frequency |-> job[j].frequency]]
  <1>2. new \in CallType
    <2>1. [enabled |-> job[j].enabled, frequency |-> job[j].frequency] \in Setting
      BY <1>1 DEF JobType, Setting
    <2> QED BY <2>1, IdleType DEF CallType
  <1>3. call' = [call EXCEPT ![c] = new]
    BY DEF Begin
  <1>4. /\ call' \in [Callers -> CallType] /\ call'[c] = new
        /\ \A d \in Callers \ {c} : call'[d] = call[d]
    BY <1>2, <1>3 DEF Typed, TypeOK
  <1>5. new.pc = "baseline" /\ new.at = j /\ new.item = {} /\ new.age = 0
    BY DEF Idle
  <1>6. \A d \in Callers : CallOK(d)'
    BY <1>4, <1>5 DEF Typed, CallOK
  <1>7. job' \in [Jobs -> JobType]
    <2>1. [job[j] EXCEPT !.inFlight = TRUE, !.cancelRequested = FALSE] \in JobType
      BY <1>1 DEF JobType
    <2> QED BY <2>1 DEF Begin, Typed, TypeOK
  <1>8. Started(c, j) \in SeenType
    <2> DEFINE l == [seen.last EXCEPT ![j] = IF c \in Tickers THEN 0 ELSE @]
               wit == [i \in Items |-> seen.witness[i] \ {c}]
               ov == IF RunsOf(j) # {} THEN seen.overlap \cup {j}
                     ELSE IF c \in Tickers THEN seen.overlap \ {j} ELSE seen.overlap
    <2>1. l \in [Jobs -> Nat] /\ ov \in SUBSET Jobs /\ wit \in [Items -> SUBSET Callers]
      BY SeenOf
    <2>2. Started(c, j) = [seen EXCEPT !.last = l, !.witness = wit, !.thrown = @ \ {j}, !.overlap = ov]
      BY SeenOf DEF Started, SeenType
    <2> HIDE DEF l, ov, wit
    <2> QED BY <2>1, <2>2, SeenOf DEF SeenType
  <1> QED BY <1>4, <1>5, <1>6, <1>7, <1>8

----------------------------------------------------------------------------
(* The start of a run keeps the invariant.                                  *)

LEMMA FullGrows ==
  ASSUME NEW m \in Nat, NEW n \in Nat, m <= n, Full(m)
  PROVE  Full(n)
  BY Bounds DEF Full

LEMMA LastOf ==
  ASSUME Typed, NEW j \in Jobs
  PROVE  seen.last[j] \in Nat /\ job[j].next \in Nat /\ job[j] \in JobType
  BY SeenOf DEF Typed, TypeOK, JobType

Promises == InFlightMeansRunning /\ DedupUnlessOverlapping /\ Windows

LEMMA BeginPromises ==
  ASSUME IInv, NEW c \in Callers, NEW j \in Jobs, call[c].pc = "idle",
         Begin(c, j), seen' = Started(c, j), cooldown' = cooldown
  PROVE  Promises'
  <1> USE DEF IInv
  <1>1. /\ call'[c].pc = "baseline" /\ call'[c].at = j /\ call'[c].item = {} /\ call'[c].age = 0
        /\ \A d \in Callers \ {c} : call'[d] = call[d]
        /\ job' \in [Jobs -> JobType] /\ seen' \in SeenType
    BY BeginTyped
  <1>2. /\ \A k \in Jobs \ {j} : job'[k] = job[k]
        /\ job'[j].inFlight /\ job'[j].next = job[j].next
    BY LastOf DEF Begin, Typed, TypeOK, JobType
  <1>3. Active' = Active \cup {c} /\ c \notin Active
    BY <1>1 DEF Active
  <1>4. /\ \A k \in Jobs : k # j => RunsOf(k)' = RunsOf(k)
        /\ c \in RunsOf(j)'
    BY <1>1, <1>3 DEF RunsOf, Active
  <1>5. /\ seen'.thrown = seen.thrown \ {j}
        /\ \A i \in Items : seen'.witness[i] = seen.witness[i] \ {c}
        /\ \A k \in Jobs : k # j => seen'.last[k] = seen.last[k]
        /\ seen'.last[j] = (IF c \in Tickers THEN 0 ELSE seen.last[j])
        /\ seen'.overlap = IF RunsOf(j) # {} THEN seen.overlap \cup {j}
                           ELSE IF c \in Tickers THEN seen.overlap \ {j} ELSE seen.overlap
    BY SeenOf DEF Started, SeenType
  <1>6. InFlightMeansRunning'
    <2> SUFFICES ASSUME NEW k \in Jobs, job'[k].inFlight
                 PROVE  RunsOf(k)' # {} \/ k \in seen'.thrown
      BY DEF InFlightMeansRunning
    <2> QED BY <1>2, <1>4, <1>5 DEF InFlightMeansRunning
  <1>7. DedupUnlessOverlapping'
    <2> SUFFICES ASSUME NEW d \in Callers, NEW i \in call'[d].item
                 PROVE  cooldown'[i] <= 0 \/ d \in seen'.witness[i]
      BY DEF DedupUnlessOverlapping
    <2>1. d # c /\ call'[d] = call[d]
      BY <1>1
    <2>2. i \in Items
      BY <2>1, CallTypeOf DEF CallType
    <2> QED BY <1>5, <2>1, <2>2 DEF DedupUnlessOverlapping
  <1>8. \A d \in Callers : AgeOK(d)'
    <2> SUFFICES ASSUME NEW d \in Callers, d \in Active', call'[d].at \notin seen'.overlap
                 PROVE  call'[d].age <= seen'.last[call'[d].at] \/ Full(seen'.last[call'[d].at])
      BY DEF AgeOK, Full
    <2>1. CASE d = c
      BY <1>1, <2>1, SeenOf DEF SeenType
    <2>2. CASE d # c
      <3>1. d \in Active /\ call'[d] = call[d] /\ call[d].at \in Jobs
        BY <1>1, <1>3, <2>2, CallTypeOf DEF Active
      <3>2. call[d].at # j
        <4>1. call[d].at = j => RunsOf(j) # {}
          BY <3>1 DEF RunsOf
        <4> QED BY <1>5, <3>1, <4>1
      <3>3. call[d].at \notin seen.overlap /\ seen'.last[call[d].at] = seen.last[call[d].at]
        BY <1>5, <3>1, <3>2
      <3> QED BY <3>1, <3>3 DEF Windows, AgeOK
    <2> QED BY <2>1, <2>2
  <1>9. \A k \in Jobs : Windowed(k)'
    <2> SUFFICES ASSUME NEW k \in Jobs, k # j PROVE Windowed(k)'
      BY <1>2 DEF Windowed
    <2> QED BY <1>2, <1>5 DEF Windows, Windowed, Full
  <1> QED BY <1>6, <1>7, <1>8, <1>9 DEF Promises, Windows

LEMMA TickStep ==
  ASSUME IInv, NEW t \in Tickers, Tick(t)
  PROVE  IInv'
  <1>0. t \in Callers /\ Typed /\ call[t].pc = "idle"
    BY DEF IInv, Callers, Tick
  <1>1. CASE UNCHANGED <<job, call, seen>> /\ nextJob' = [nextJob EXCEPT ![t] = 0]
    <2>1. Typed'
      BY <1>0, <1>1, SchedulerAssumptions DEF Tick, Typed, TypeOK, CallOK
    <2>2. Promises'
      BY <1>1 DEF Tick, IInv, Promises, InFlightMeansRunning, DedupUnlessOverlapping, Windows, AgeOK,
                  Windowed, Full, Active, RunsOf
    <2> QED BY <2>1, <2>2 DEF IInv, Promises
  <1>2. ASSUME NEW j \in Jobs, Begin(t, j), nextJob' = [nextJob EXCEPT ![t] = j + 1],
               seen' = Started(t, j)
        PROVE  IInv'
    <2>1. cooldown' = cooldown
      BY DEF Tick
    <2>2. Promises'
      BY <1>0, <1>2, <2>1, BeginPromises
    <2>3. j + 1 \in 0 .. M + 1
      BY SchedulerAssumptions DEF Jobs
    <2>4. nextJob' \in [Tickers -> 0 .. M + 1]
      BY <1>2, <2>3 DEF IInv, Typed, TypeOK
    <2>5. Typed'
      BY <1>0, <1>2, <2>1, <2>4, BeginTyped DEF Typed, TypeOK, SeenType
    <2> QED BY <2>2, <2>5 DEF IInv, Promises
  <1>3. \A from, j : from \in 0 .. M + 1 /\ j \in (IF from = 0 THEN 1 ELSE from) .. M => j \in Jobs
    BY SchedulerAssumptions DEF Jobs
  <1>4. nextJob[t] \in 0 .. M + 1
    BY <1>0 DEF Typed, TypeOK
  <1> QED BY <1>1, <1>2, <1>3, <1>4 DEF Tick

----------------------------------------------------------------------------
(* The steps that write jobs only: a skipped "Run now", settings, a          *)
(* cancellation.                                                             *)

\* One job is written; it is in flight no more than before, and if it is in
\* flight no longer a window lies ahead of it.
LEMMA JobWritten ==
  ASSUME IInv, NEW j \in Jobs, NEW new \in JobType, job' = [job EXCEPT ![j] = new],
         new.inFlight => job[j].inFlight,
         (new.next = job[j].next /\ new.inFlight = job[j].inFlight) \/ new.next \in Frequencies,
         UNCHANGED <<cooldown, call, nextJob>>,
         seen' = seen \/ (seen' = [seen EXCEPT !.thrown = @ \ {j}] /\ ~new.inFlight)
  PROVE  IInv'
  <1> USE DEF IInv
  <1>1. /\ seen' \in SeenType /\ SameHistory /\ seen'.witness = seen.witness
        /\ seen'.thrown = seen.thrown \/ (seen'.thrown = seen.thrown \ {j} /\ ~new.inFlight)
    BY SeenOf DEF SeenType, SameHistory
  <1>2. job' \in [Jobs -> JobType] /\ job'[j] = new /\ \A k \in Jobs \ {j} : job'[k] = job[k]
    BY DEF Typed, TypeOK
  <1>3. Typed'
    BY <1>1, <1>2 DEF Typed, TypeOK, CallOK, SeenType
  <1>4. Active' = Active /\ \A k \in Jobs : RunsOf(k)' = RunsOf(k)
    BY DEF Active, RunsOf
  <1>5. InFlightMeansRunning'
    BY <1>1, <1>2, <1>4 DEF InFlightMeansRunning
  <1>6. DedupUnlessOverlapping' /\ \A c \in Callers : AgeOK(c)'
    BY <1>1, <1>4 DEF DedupUnlessOverlapping, Windows, AgeOK, Full, SameHistory
  <1>7. \A k \in Jobs : Windowed(k)'
    <2> SUFFICES ASSUME NEW k \in Jobs PROVE Windowed(k)'
      OBVIOUS
    <2>1. CASE k = j /\ new.next \in Frequencies
      <3>1. new.next \in Nat /\ seen'.last[j] \in Nat /\ new.next <= new.next + seen'.last[j]
        BY <1>1, <2>1, LastOf, Bounds DEF SameHistory
      <3> QED BY <1>2, <2>1, <3>1 DEF Windowed, Full
    <2>2. CASE ~(k = j /\ new.next \in Frequencies)
      <3>1. job'[k].next = job[k].next /\ job'[k].inFlight = job[k].inFlight
        BY <1>2, <2>2
      <3> QED BY <1>1, <3>1 DEF Windows, Windowed, Full, SameHistory
    <2> QED BY <2>1, <2>2
  <1> QED BY <1>3, <1>5, <1>6, <1>7 DEF Windows

LEMMA RunNowStep ==
  ASSUME IInv, NEW u \in Users, NEW j \in Managed, RunNow(u, j)
  PROVE  IInv'
  <1>0. u \in Callers /\ j \in Jobs /\ call[u].pc = "idle"
    BY SchedulerAssumptions DEF Callers, RunNow
  <1>1. CASE job[j].inFlight
    <2>1. job[j] \in JobType
      BY <1>0, LastOf DEF IInv
    <2> DEFINE new == Written(job[j], job[j].frequency)
    <2>2. new.next \in Frequencies /\ ~new.inFlight
      BY <2>1 DEF Written, JobType
    <2>3. new \in JobType
      BY <2>1, Bounds DEF Written, JobType
    <2> HIDE DEF new
    <2>4. job' = [job EXCEPT ![j] = new]
      BY <1>1 DEF RunNow, new
    <2> QED BY <1>0, <1>1, <2>2, <2>3, <2>4, JobWritten DEF RunNow
  <1>2. CASE ~job[j].inFlight
    <2>1. Begin(u, j) /\ seen' = Started(u, j) /\ cooldown' = cooldown /\ nextJob' = nextJob
      BY <1>2 DEF RunNow
    <2>2. Promises'
      BY <1>0, <2>1, BeginPromises
    <2>3. Typed'
      BY <1>0, <2>1, BeginTyped DEF IInv, Typed, TypeOK, SeenType
    <2> QED BY <2>2, <2>3 DEF IInv, Promises
  <1> QED BY <1>1, <1>2

LEMMA SettingsStep ==
  ASSUME IInv, NEW j \in Managed, CancelRun(j) \/ \E s \in Setting : SetSchedule(j, s)
  PROVE  IInv'
  <1>0. j \in Jobs /\ job[j] \in JobType
    BY SchedulerAssumptions, LastOf DEF IInv
  <1>1. CASE CancelRun(j)
    <2> DEFINE new == [job[j] EXCEPT !.cancelRequested = TRUE]
    <2>1. new \in JobType /\ new.next = job[j].next /\ new.inFlight = job[j].inFlight
      BY <1>0 DEF JobType
    <2>2. job' = [job EXCEPT ![j] = new]
      BY <1>1 DEF CancelRun
    <2> QED BY <1>0, <1>1, <2>1, <2>2, JobWritten DEF CancelRun
  <1>2. ASSUME NEW s \in Setting, SetSchedule(j, s)
        PROVE  IInv'
    <2> DEFINE new == [job[j] EXCEPT !.enabled = s.enabled, !.frequency = s.frequency,
                                     !.next = s.frequency]
    <2>1. s.frequency \in Frequencies /\ s.frequency \in Nat /\ s.enabled \in BOOLEAN
      BY Bounds DEF Setting
    <2>2. new \in JobType /\ new.next \in Frequencies /\ new.inFlight = job[j].inFlight
      BY <1>0, <2>1 DEF JobType
    <2>3. job' = [job EXCEPT ![j] = new]
      BY <1>2 DEF SetSchedule, IInv, Typed, TypeOK
    <2>4. UNCHANGED <<cooldown, call, nextJob, seen>>
      BY <1>2 DEF SetSchedule
    <2> HIDE DEF new
    <2> QED BY <1>0, <2>2, <2>3, <2>4, JobWritten
  <1> QED BY <1>1, <1>2

----------------------------------------------------------------------------
(* A step of a run, and the clock.                                          *)

LEMMA RunStepPromises ==
  ASSUME IInv, NEW c \in Callers, RunStep(c)
  PROVE  Promises'
  <1> USE DEF IInv
  <1>0. RunEffect(c) /\ c \in Active /\ call[c] \in CallType /\ call[c].at \in Jobs
    BY RunStepEffect, CallTypeOf DEF Effect, RunEffect, Active
  <1>1. \A d \in Callers \ {c} : /\ call'[d].pc = call[d].pc /\ call'[d].at = call[d].at
                                /\ call'[d].age = call[d].age /\ call'[d].item = call[d].item
    <2> SUFFICES ASSUME NEW d \in Callers \ {c}
                 PROVE  /\ call'[d].pc = call[d].pc /\ call'[d].at = call[d].at
                        /\ call'[d].age = call[d].age /\ call'[d].item = call[d].item
      OBVIOUS
    <2>1. PICK fresh \in SUBSET Items : call'[d] = [call[d] EXCEPT !.fresh = fresh]
      BY <1>0 DEF RunEffect, OthersToldOf
    <2> QED BY <2>1, CallTypeOf DEF CallType
  <1>2. Idle.pc = "idle" /\ Idle.item = {}
    BY DEF Idle
  <1>3. Typed'
    BY RunStepTyped
  <1>4. InFlightMeansRunning'
    <2> SUFFICES ASSUME NEW j \in Jobs, job'[j].inFlight
                 PROVE  RunsOf(j)' # {} \/ j \in seen'.thrown
      BY DEF InFlightMeansRunning
    <2>1. CASE GoesOn(c)
      <3>1. RunsOf(j)' = RunsOf(j)
        BY <1>0, <1>1, <2>1 DEF GoesOn, RunsOf, Active
      <3> QED BY <2>1, <3>1 DEF GoesOn, InFlightMeansRunning
    <2>2. CASE Ends(c)
      <3>1. j # call[c].at /\ job'[j] = job[j]
        <4>1. job'[call[c].at].inFlight = FALSE
          BY <1>0, <2>2 DEF Ends, Written, Typed, TypeOK
        <4> QED BY <2>2, <4>1 DEF Ends, Typed, TypeOK
      <3>2. RunsOf(j)' = RunsOf(j)
        BY <1>1, <1>2, <2>2, <3>1 DEF Ends, RunsOf, Active
      <3> QED BY <2>2, <3>1, <3>2 DEF Ends, InFlightMeansRunning
    <2>3. CASE Dies(c)
      <3>1. job'[j] = job[j] /\ RunsOf(j)' = RunsOf(j) \ {c}
        BY <1>1, <1>2, <2>3 DEF Dies, RunsOf, Active
      <3>2. CASE c \in RunsOf(j)
        BY <2>3, <3>1, <3>2 DEF Dies, RunsOf, InFlightMeansRunning
      <3>3. CASE c \notin RunsOf(j)
        BY <2>3, <3>1, <3>3 DEF Dies, InFlightMeansRunning
      <3> QED BY <3>2, <3>3
    <2> QED BY <1>0, <2>1, <2>2, <2>3 DEF RunEffect
  <1>5. DedupUnlessOverlapping'
    <2> SUFFICES ASSUME NEW d \in Callers, NEW i \in call'[d].item
                 PROVE  cooldown'[i] <= 0 \/ d \in seen'.witness[i]
      BY DEF DedupUnlessOverlapping
    <2>0. i \in Items
      BY <1>3 DEF Typed, TypeOK, CallType
    <2>1. CASE cooldown'[i] = cooldown[i] /\ seen'.witness[i] = seen.witness[i]
      <3>1. CASE d = c
        BY <1>0, <2>1, <3>1 DEF RunEffect, Notified
      <3>2. CASE d # c
        BY <1>1, <2>1, <3>2 DEF DedupUnlessOverlapping
      <3> QED BY <3>1, <3>2
    <2>2. CASE seen'.witness[i] = Active
      <3>1. CASE d = c
        BY <1>0, <2>2, <3>1
      <3>2. CASE d # c
        BY <1>1, <2>2, <3>2, CallTypeOf DEF Active
      <3> QED BY <3>1, <3>2
    <2> QED BY <1>0, <2>0, <2>1, <2>2 DEF RunEffect, Notified
  <1>6. \A d \in Callers : AgeOK(d)'
    <2> SUFFICES ASSUME NEW d \in Callers, d \in Active', call'[d].at \notin seen'.overlap
                 PROVE  call'[d].age <= seen'.last[call'[d].at] \/ Full(seen'.last[call'[d].at])
      BY DEF AgeOK, Full
    <2>1. d \in Active /\ call'[d].at = call[d].at /\ call'[d].age = call[d].age
      <3>1. CASE d = c
        BY <1>0, <1>2, <3>1 DEF RunEffect, GoesOn, Ends, Dies, Active
      <3>2. CASE d # c
        BY <1>1, <3>2 DEF Active
      <3> QED BY <3>1, <3>2
    <2> QED BY <1>0, <2>1 DEF RunEffect, SameHistory, Windows, AgeOK
  <1>7. \A j \in Jobs : Windowed(j)'
    <2> SUFFICES ASSUME NEW j \in Jobs PROVE Windowed(j)'
      OBVIOUS
    <2>1. CASE job'[j] = job[j]
      BY <1>0, <2>1 DEF RunEffect, SameHistory, Windows, Windowed, Full
    <2>2. CASE Ends(c) /\ j = call[c].at /\ j \notin seen.overlap
      <3> DEFINE f == call[c].copy.frequency
      <3>1. job'[j].next = f - call[c].age /\ seen'.last[j] = seen.last[j]
        BY <1>0, <2>2 DEF RunEffect, SameHistory, Ends, Written, Typed, TypeOK
      <3>2. f \in Frequencies /\ f \in Nat /\ call[c].age \in 0 .. MaxRun /\ MaxRun < f
        BY <1>0, Bounds DEF CallType, Setting
      <3>3. seen.last[j] \in Nat
        BY LastOf
      <3>4. call[c].age <= seen.last[j] \/ Full(seen.last[j])
        BY <1>0, <2>2 DEF Windows, AgeOK
      <3> HIDE DEF f
      <3>5. CASE call[c].age <= seen.last[j]
        <4>1. f <= f - call[c].age + seen.last[j]
          BY <3>2, <3>3, <3>5, Bounds
        <4> QED BY <3>1, <3>2, <4>1 DEF Windowed, Full
      <3>6. CASE Full(seen.last[j])
        <4>1. seen.last[j] <= f - call[c].age + seen.last[j] /\ f - call[c].age + seen.last[j] \in Nat
          BY <3>2, <3>3, Bounds
        <4>2. Full(f - call[c].age + seen.last[j])
          BY <3>3, <3>6, <4>1, FullGrows
        <4> QED BY <3>1, <4>2 DEF Windowed, Full
      <3> QED BY <3>4, <3>5, <3>6
    <2>3. CASE j \in seen.overlap
      BY <1>0, <2>3 DEF RunEffect, SameHistory, Windowed
    <2>4. job'[j] = job[j] \/ (Ends(c) /\ j = call[c].at)
      BY <1>0 DEF RunEffect, GoesOn, Ends, Dies, Typed, TypeOK
    <2> QED BY <2>1, <2>2, <2>3, <2>4
  <1> QED BY <1>4, <1>5, <1>6, <1>7 DEF Promises, Windows

LEMMA ClockStep ==
  ASSUME IInv, Clock
  PROVE  IInv'
  <1> USE DEF IInv
  <1>1. \A j \in Jobs :
          /\ job'[j] = [job[j] EXCEPT !.next = IF @ > 0 THEN @ - 1 ELSE 0]
          /\ job'[j] \in JobType /\ job'[j].inFlight = job[j].inFlight
          /\ job'[j].next = IF job[j].next > 0 THEN job[j].next - 1 ELSE 0
    <2> SUFFICES ASSUME NEW j \in Jobs
                 PROVE  /\ job'[j] = [job[j] EXCEPT !.next = IF @ > 0 THEN @ - 1 ELSE 0]
                        /\ job'[j] \in JobType /\ job'[j].inFlight = job[j].inFlight
                        /\ job'[j].next = IF job[j].next > 0 THEN job[j].next - 1 ELSE 0
      OBVIOUS
    <2>1. job'[j] = [job[j] EXCEPT !.next = IF @ > 0 THEN @ - 1 ELSE 0]
      BY DEF Clock
    <2> QED BY <2>1, LastOf DEF JobType
  <1>2. \A i \in Items : /\ cooldown'[i] = IF cooldown[i] > -MaxRun THEN cooldown[i] - 1 ELSE -MaxRun
                         /\ cooldown[i] \in -MaxRun .. Cooldown
    BY DEF Clock, Typed, TypeOK
  <1>3. \A c \in Callers :
          /\ call'[c].pc = call[c].pc /\ call'[c].at = call[c].at /\ call'[c].item = call[c].item
          /\ call'[c] \in CallType
          /\ call'[c].age = IF c \in Active THEN call[c].age + 1 ELSE call[c].age
    <2> SUFFICES ASSUME NEW c \in Callers
                 PROVE  /\ call'[c].pc = call[c].pc /\ call'[c].at = call[c].at
                        /\ call'[c].item = call[c].item /\ call'[c] \in CallType
                        /\ call'[c].age = IF c \in Active THEN call[c].age + 1 ELSE call[c].age
      OBVIOUS
    <2>1. call[c] \in CallType
      BY CallTypeOf
    <2>2. CASE c \in Active
      <3>1. call'[c] = [call[c] EXCEPT !.age = @ + 1] /\ call[c].age < MaxRun
        BY <2>2 DEF Clock
      <3>2. call[c].age + 1 \in 0 .. MaxRun
        BY <2>1, <3>1, Bounds DEF CallType
      <3> QED BY <2>1, <2>2, <3>1, <3>2 DEF CallType
    <2>3. CASE c \notin Active
      BY <2>1, <2>3 DEF Clock
    <2> QED BY <2>2, <2>3
  <1>4. /\ seen'.thrown = seen.thrown /\ seen'.overlap = seen.overlap /\ seen'.witness = seen.witness
        /\ \A j \in Jobs : seen'.last[j] = IF Full(seen.last[j]) THEN seen.last[j] ELSE seen.last[j] + 1
        /\ seen' \in SeenType
    <2> DEFINE l == [j \in Jobs |-> IF \E f \in Frequencies : f <= seen.last[j]
                                    THEN seen.last[j] ELSE seen.last[j] + 1]
    <2>1. l \in [Jobs -> Nat]
      BY SeenOf
    <2>2. seen' = [seen EXCEPT !.last = l]
      BY DEF Clock
    <2>3. \A j \in Jobs : l[j] = IF Full(seen.last[j]) THEN seen.last[j] ELSE seen.last[j] + 1
      BY DEF Full
    <2> HIDE DEF l
    <2> QED BY <2>1, <2>2, <2>3, SeenOf DEF SeenType
  <1>5. Active' = Active /\ \A j \in Jobs : RunsOf(j)' = RunsOf(j)
    BY <1>3 DEF Active, RunsOf
  <1>6. Typed'
    <2>1. job' \in [Jobs -> JobType] /\ call' \in [Callers -> CallType] /\ nextJob' = nextJob
      BY <1>1, <1>3 DEF Clock
    <2>2. cooldown' \in [Items -> -MaxRun .. Cooldown]
      BY <1>2, Bounds DEF Clock
    <2>3. \A c \in Callers : CallOK(c)'
      BY <1>3 DEF Typed, CallOK
    <2> QED BY <1>4, <2>1, <2>2, <2>3 DEF Typed, TypeOK, SeenType
  <1>7. InFlightMeansRunning'
    BY <1>1, <1>4, <1>5 DEF InFlightMeansRunning
  <1>8. DedupUnlessOverlapping'
    <2> SUFFICES ASSUME NEW c \in Callers, NEW i \in call[c].item
                 PROVE  cooldown'[i] <= 0 \/ c \in seen'.witness[i]
      BY <1>3 DEF DedupUnlessOverlapping
    <2>1. i \in Items
      BY CallTypeOf DEF CallType
    <2> QED BY <1>2, <1>4, <2>1, Bounds DEF DedupUnlessOverlapping
  <1>9. \A c \in Callers : AgeOK(c)'
    <2> SUFFICES ASSUME NEW c \in Active, call[c].at \notin seen.overlap
                 PROVE  call'[c].age <= seen'.last[call[c].at] \/ Full(seen'.last[call[c].at])
      BY <1>3, <1>4, <1>5 DEF AgeOK, Full
    <2>1. c \in Callers /\ call[c].at \in Jobs /\ call[c].age \in Nat
      BY CallTypeOf, Bounds DEF Active, CallType
    <2>2. seen.last[call[c].at] \in Nat
      BY <2>1, LastOf
    <2>3. call'[c].age = call[c].age + 1
      BY <1>3, <2>1
    <2> QED BY <1>4, <2>1, <2>2, <2>3 DEF Windows, AgeOK
  <1>10. \A j \in Jobs : Windowed(j)'
    <2> SUFFICES ASSUME NEW j \in Jobs, ~job[j].inFlight, j \notin seen.overlap
                 PROVE  Full(job'[j].next + seen'.last[j])
      BY <1>1, <1>4 DEF Windowed, Full
    <2>1. Full(job[j].next + seen.last[j]) /\ job[j].next \in Nat /\ seen.last[j] \in Nat
      BY LastOf DEF Windows, Windowed
    <2>2. CASE Full(seen.last[j])
      <3>1. seen'.last[j] = seen.last[j] /\ job'[j].next \in Nat
        BY <1>1, <1>4, <2>2 DEF JobType
      <3>2. seen.last[j] <= job'[j].next + seen.last[j] /\ job'[j].next + seen.last[j] \in Nat
        BY <2>1, <3>1
      <3> QED BY <2>1, <2>2, <3>1, <3>2, FullGrows
    <2>3. CASE ~Full(seen.last[j])
      <3>0. job[j].next = 0 => job[j].next + seen.last[j] = seen.last[j]
        BY <2>1
      <3>1. seen'.last[j] = seen.last[j] + 1 /\ job[j].next > 0
        BY <1>4, <2>1, <2>3, <3>0
      <3>2. job'[j].next + seen'.last[j] = job[j].next + seen.last[j]
        <4>1. job'[j].next = job[j].next - 1
          BY <1>1, <3>1
        <4> QED BY <2>1, <3>1, <4>1
      <3> QED BY <2>1, <3>2
    <2> QED BY <2>2, <2>3
  <1> QED BY <1>6, <1>7, <1>8, <1>9, <1>10 DEF Windows

LEMMA IInvStep ==
  ASSUME IInv, [Next]_vars
  PROVE  IInv'
  <1>1. ASSUME NEW c \in Callers, RunStep(c) PROVE IInv'
    BY <1>1, RunStepTyped, RunStepPromises DEF IInv, Promises
  <1>2. CASE UNCHANGED vars
    BY <1>2 DEF vars, IInv, Typed, TypeOK, CallOK, InFlightMeansRunning, DedupUnlessOverlapping,
                Windows, AgeOK, Windowed, Full, Active, RunsOf
  <1>3. CASE Clock
    BY <1>3, ClockStep
  <1> QED BY <1>1, <1>2, <1>3, TickStep, RunNowStep, SettingsStep DEF Next

----------------------------------------------------------------------------
(* The theorems.                                                            *)

\* The invariant that the theorems below rest on.
THEOREM IInvHolds == Spec => []IInv
  <1> QED BY InitIInv, IInvStep, PTL DEF Spec

\* Every reachable state is well-typed.
THEOREM TypeCorrect == Spec => []TypeOK
  <1>1. IInv => TypeOK
    BY DEF IInv, Typed
  <1> QED BY <1>1, IInvHolds, PTL

\* Only an exception leaves a job in flight without a run.
THEOREM InFlightIsRunning == Spec => []InFlightMeansRunning
  <1>1. IInv => InFlightMeansRunning
    BY DEF IInv
  <1> QED BY <1>1, IInvHolds, PTL

\* Only runs that were at work together repeat a notification within its window.
THEOREM NotifiedOnce == Spec => []DedupUnlessOverlapping
  <1>1. IInv => DedupUnlessOverlapping
    BY DEF IInv
  <1> QED BY <1>1, IInvHolds, PTL

\* Ticks start a job once per window, unless its runs overlapped.
THEOREM CadenceIsKept == Spec => Cadence
  <1>1. IInv /\ [Next]_vars =>
          [\A t \in Tickers, j \in Jobs :
             call[t].pc = "idle" /\ call'[t].pc = "baseline" /\ call'[t].at = j
               => j \in seen.overlap \/ \E f \in Frequencies : f <= seen.last[j]]_vars
    <2> SUFFICES ASSUME IInv, Next, NEW t \in Tickers, NEW j \in Jobs,
                        call[t].pc = "idle", call'[t].pc = "baseline", call'[t].at = j
                 PROVE  j \in seen.overlap \/ Full(seen.last[j])
      BY DEF Full
    <2>0. t \in Callers /\ Typed
      BY DEF Callers, IInv
    <2>1. CASE Tick(t)
      <3>1. IsDue(j)
        <4>1. PICK k \in { k \in (IF nextJob[t] = 0 THEN 1 ELSE nextJob[t]) .. M : IsDue(k) } : Begin(t, k)
          BY <2>1 DEF Tick
        <4>2. call'[t].at = k
          BY <2>0, <4>1 DEF Begin, Idle, Typed, TypeOK
        <4> QED BY <4>1, <4>2
      <3>2. job[j].next = 0 /\ ~job[j].inFlight /\ seen.last[j] \in Nat
        BY <2>0, <3>1, LastOf DEF IsDue
      <3>3. 0 + seen.last[j] = seen.last[j]
        BY <3>2
      <3> QED BY <3>2, <3>3 DEF IInv, Windows, Windowed
    <2>2. CASE ~Tick(t)
      <3>1. call'[t].pc = call[t].pc
        <4>1. ASSUME NEW s \in Tickers, s # t, Tick(s)  PROVE call'[t].pc = call[t].pc
          BY <2>0, <4>1 DEF Tick, Begin, Typed, TypeOK
        <4>2. ASSUME NEW u \in Users, NEW k \in Managed, RunNow(u, k)  PROVE call'[t].pc = call[t].pc
          BY <2>0, <4>2, SchedulerAssumptions DEF RunNow, Begin, Typed, TypeOK
        <4>3. ASSUME NEW c \in Callers, RunStep(c)  PROVE call'[t].pc = call[t].pc
          <5>1. c # t
            <6>1. c \in Active
              BY <2>0, <4>3, RunStepEffect DEF Effect, RunEffect
            <6> QED BY <6>1 DEF Active
          <5>2. PICK fresh \in SUBSET Items : call'[t] = [call[t] EXCEPT !.fresh = fresh]
            BY <2>0, <4>3, <5>1, RunStepEffect DEF Effect, RunEffect, OthersToldOf
          <5> QED BY <2>0, <5>2, CallTypeOf DEF CallType
        <4>4. CASE Clock
          <5>1. t \notin Active
            BY DEF Active
          <5> QED BY <2>0, <4>4, <5>1 DEF Clock
        <4>5. ASSUME NEW k \in Managed, CancelRun(k) \/ \E s \in Setting : SetSchedule(k, s)
              PROVE  call'[t].pc = call[t].pc
          BY <4>5 DEF CancelRun, SetSchedule
        <4> QED BY <2>2, <4>1, <4>2, <4>3, <4>4, <4>5 DEF Next
      <3> QED BY <3>1
    <2> QED BY <2>1, <2>2
  <1> QED BY <1>1, IInvHolds, PTL DEF Spec, Cadence
=============================================================================
