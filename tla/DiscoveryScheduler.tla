------------------------- MODULE DiscoveryScheduler -------------------------
(***************************************************************************)
(* The discovery jobs of one user: the cadence driver's ticks and the user's *)
(* "Run now" start runs of a job; a run reads the items, calls the sources,   *)
(* reads the items again and notifies what changed.  The stores clone what    *)
(* they are given, so a run works on its own copy of the job and writes it    *)
(* back when it ends.  A step is what one call does between two awaits.        *)
(*                                                                         *)
(* Instants are kept relative to the clock: `next` and `cooldown` are how far *)
(* ahead they lie, `age` is the time since the run read the clock.           *)
(***************************************************************************)
EXTENDS Integers, FiniteSets

CONSTANTS
    M,               \* the number of jobs, in the order a tick takes them
    Tickers,         \* the cadence driver (one tick at a time each)
    Users,           \* concurrent "Run now" calls
    Items,
    Frequencies,     \* the lengths of the cadence windows
    Cooldown,        \* the notification window
    MaxAttempts,     \* maxDiscoveryCalls of a run
    MaxRetries,
    MaxRun,          \* a run takes less than any window
    Managed          \* bound: the jobs the user acts on

Jobs    == 1 .. M
Callers == Tickers \cup Users

ASSUME SchedulerAssumptions ==
    /\ M \in Nat
    /\ Tickers \cap Users = {}
    /\ Managed \subseteq Jobs
    /\ Frequencies \subseteq Nat /\ Frequencies # {}
    /\ MaxRun \in Nat /\ \A f \in Frequencies : MaxRun < f
    /\ Cooldown \in Nat /\ MaxRun < Cooldown
    /\ MaxAttempts \in Nat \ {0} /\ MaxRetries \in Nat

VARIABLES
    job,             \* job[j]: the stored job
    cooldown,        \* cooldown[i]: when item i may be notified again
    call,            \* call[c]: the run of a caller
    nextJob,         \* nextJob[t]: the job the tick looks at next, 0 when idle
    seen             \* history, see TypeOK

vars == <<job, cooldown, call, nextJob, seen>>

Setting == [enabled : BOOLEAN, frequency : Frequencies]
JobType == [enabled : BOOLEAN, frequency : Frequencies, next : Nat,
            inFlight : BOOLEAN, cancelRequested : BOOLEAN]

\* A run: what it awaits, its job and the copy of its settings, the attempt it is
\* at, its status, the items changed since its baseline and the one it notifies.
CallType == [pc : {"idle", "baseline", "discovering", "after", "notifying"},
             at : Jobs \cup {0}, copy : Setting, attempt : 0 .. MaxAttempts,
             status : {"COMPLETED", "CANCELLED", "FAILED"},
             fresh : SUBSET Items, item : SUBSET Items, age : 0 .. MaxRun]

Active == { c \in Callers : call[c].pc # "idle" }
RunsOf(j) == { c \in Active : call[c].at = j }

TypeOK ==
    /\ job \in [Jobs -> JobType]
    /\ cooldown \in [Items -> -MaxRun .. Cooldown]
    /\ call \in [Callers -> CallType]
    /\ nextJob \in [Tickers -> 0 .. M + 1]
    /\ seen \in [last : [Jobs -> Nat],              \* since a tick last started the job
                 witness : [Items -> SUBSET Callers], \* the runs at work when it was notified
                 thrown : SUBSET Jobs,              \* a run of the job died of an exception
                 overlap : SUBSET Jobs]             \* runs overlapped since that start

----------------------------------------------------------------------------
AnySetting == CHOOSE s \in Setting : TRUE
Idle == [pc |-> "idle", at |-> 0, copy |-> AnySetting, attempt |-> 0, status |-> "COMPLETED",
         fresh |-> {}, item |-> {}, age |-> 0]

\* ensureDefaults: every job is enabled and due.
Init ==
    \E f \in [Jobs -> Frequencies] :
      /\ job = [j \in Jobs |-> [enabled |-> TRUE, frequency |-> f[j], next |-> 0,
                                inFlight |-> FALSE, cancelRequested |-> FALSE]]
      /\ cooldown = [i \in Items |-> -MaxRun]
      /\ call = [c \in Callers |-> Idle]
      /\ nextJob = [t \in Tickers |-> 0]
      /\ seen = [last |-> f, witness |-> [i \in Items |-> {}], thrown |-> {}, overlap |-> {}]

----------------------------------------------------------------------------
(* The start of a run.                                                      *)

Free == [inFlight |-> FALSE, cancelRequested |-> FALSE]

IsDue(j) == job[j].enabled /\ ~job[j].inFlight /\ job[j].next = 0

\* The run takes its copy of the job; what it finds pending is cancelled for nobody.
Begin(c, j) ==
    /\ job' = [job EXCEPT ![j].inFlight = TRUE, ![j].cancelRequested = FALSE]
    /\ call' = [call EXCEPT ![c] =
                  [Idle EXCEPT !.pc = "baseline", !.at = j,
                               !.copy = [enabled |-> job[j].enabled, frequency |-> job[j].frequency]]]

\* The history at a start by `c`; `last` is reset by a tick only.
Started(c, j) ==
    [seen EXCEPT !.last[j] = IF c \in Tickers THEN 0 ELSE @,
                 !.witness = [i \in Items |-> @[i] \ {c}],
                 !.thrown = @ \ {j},
                 !.overlap = IF RunsOf(j) # {} THEN @ \cup {j}
                             ELSE IF c \in Tickers THEN @ \ {j} ELSE @]

\* A tick starts the first job due at or after the one it has come to, or ends.
Tick(t) ==
    LET from == IF nextJob[t] = 0 THEN 1 ELSE nextJob[t]
        due  == { j \in from .. M : IsDue(j) } IN
    /\ call[t].pc = "idle"
    /\ \/ /\ due = {}
          /\ nextJob' = [nextJob EXCEPT ![t] = 0]
          /\ UNCHANGED <<job, call, seen>>
       \/ \E j \in due :
            /\ \A k \in due : j <= k
            /\ Begin(t, j)
            /\ nextJob' = [nextJob EXCEPT ![t] = j + 1]
            /\ seen' = Started(t, j)
    /\ UNCHANGED cooldown

\* finishRun writes the whole job back from the run's copy.
Written(copy, next) ==
    [enabled |-> copy.enabled, frequency |-> copy.frequency, next |-> next,
     inFlight |-> FALSE, cancelRequested |-> FALSE]

\* "Run now" takes the same path; a job in flight is skipped, which ends in
\* finishRun too.
RunNow(u, j) ==
    /\ call[u].pc = "idle"
    /\ IF job[j].inFlight
       THEN /\ job' = [job EXCEPT ![j] = Written(@, @.frequency)]
            /\ seen' = [seen EXCEPT !.thrown = @ \ {j}]
            /\ UNCHANGED call
       ELSE Begin(u, j) /\ seen' = Started(u, j)
    /\ UNCHANGED <<cooldown, nextJob>>

----------------------------------------------------------------------------
(* A run, await by await.                                                   *)

\* The loop of attempts ends: time spent makes a failure of a good end.
EndLoop(c, st) ==
    \E end \in {st} \cup (IF st = "COMPLETED" /\ call[c].age > 0 THEN {"FAILED"} ELSE {}) :
        call' = [call EXCEPT ![c].pc = "after", ![c].status = end, ![c].attempt = 0]

\* The n-th attempt: out of time, cancelled, no source to ask, or a discovery.
Attempt(c, n) ==
    \/ call[c].age > 0 /\ EndLoop(c, "FAILED")
    \/ job[call[c].at].cancelRequested /\ EndLoop(c, "CANCELLED")
    \/ /\ ~job[call[c].at].cancelRequested
       /\ \/ n = 1 /\ EndLoop(c, "COMPLETED")
          \/ call' = [call EXCEPT ![c].pc = "discovering", ![c].attempt = n]

\* listStoredItems, discover and notify may throw: the run dies, and with it the tick.
Throws(c) ==
    /\ call' = [call EXCEPT ![c] = Idle]
    /\ nextJob' = [t \in Tickers |-> IF t = c THEN 0 ELSE nextJob[t]]
    /\ seen' = IF job[call[c].at].inFlight /\ RunsOf(call[c].at) = {c}
               THEN [seen EXCEPT !.thrown = @ \cup {call[c].at}] ELSE seen
    /\ UNCHANGED <<job, cooldown>>

Quiet == UNCHANGED <<job, cooldown, nextJob, seen>>

Baseline(c) ==
    /\ call[c].pc = "baseline"
    /\ (Attempt(c, 1) /\ Quiet) \/ Throws(c)

\* The sources answer: items are added or updated for every run past its baseline.
Discovered(c) ==
    /\ \E new \in SUBSET Items, end \in {"COMPLETED"} \cup (IF call[c].age > 0 THEN {"FAILED"} ELSE {}) :
         call' = [d \in Callers |->
                    LET told == IF call[d].pc \in {"discovering", "after"}
                                THEN [call[d] EXCEPT !.fresh = @ \cup new] ELSE call[d] IN
                    IF d = c THEN [told EXCEPT !.pc = "after", !.status = end, !.attempt = 0] ELSE told]
    /\ Quiet

\* Mutant: only the retry limit counts.
CanRetryUnbounded(n) == n <= MaxRetries + 1

CanRetry(n) == n < MaxAttempts /\ n <= MaxRetries

Discovering(c) ==
    /\ call[c].pc = "discovering"
    /\ \/ Discovered(c)
       \/ /\ IF CanRetry(call[c].attempt) THEN Attempt(c, call[c].attempt + 1) ELSE EndLoop(c, "FAILED")
          /\ Quiet

\* Mutant: the window is not looked at.
NoWindow(c, i) == i \in call[c].fresh

Eligible(c, i) == cooldown[i] + call[c].age <= 0

\* Mutant: a run that was cancelled leaves the job as it is.
FinishUnlessCancelled(c, h) ==
    /\ IF call[c].status = "CANCELLED" THEN UNCHANGED job
       ELSE job' = [job EXCEPT ![call[c].at] = Written(call[c].copy, call[c].copy.frequency - call[c].age)]
    /\ call' = [call EXCEPT ![c] = Idle]
    /\ seen' = [h EXCEPT !.thrown = @ \ {call[c].at}]

\* Mutant: a failed run does not use up its window.
FinishRetryFailed(c, h) ==
    /\ job' = [job EXCEPT ![call[c].at] =
                 Written(call[c].copy, IF call[c].status = "FAILED" THEN @.next
                                       ELSE call[c].copy.frequency - call[c].age)]
    /\ call' = [call EXCEPT ![c] = Idle]
    /\ seen' = [h EXCEPT !.thrown = @ \ {call[c].at}]

\* The run ends, `h` being the history so far; the window counts from its start.
Finish(c, h) ==
    /\ job' = [job EXCEPT ![call[c].at] = Written(call[c].copy, call[c].copy.frequency - call[c].age)]
    /\ call' = [call EXCEPT ![c] = Idle]
    /\ seen' = [h EXCEPT !.thrown = @ \ {call[c].at}]

\* The next changed item that is relevant and eligible is notified, or the run ends.
Notify(c, h) ==
    /\ \/ Finish(c, h)
       \/ /\ call[c].status = "COMPLETED"
          /\ \E i \in call[c].fresh :
               /\ Eligible(c, i)
               /\ call' = [call EXCEPT ![c].pc = "notifying", ![c].item = {i}, ![c].fresh = @ \ {i}]
          /\ seen' = h
          /\ UNCHANGED job
    /\ UNCHANGED nextJob

After(c) ==
    /\ call[c].pc = "after"
    /\ (Notify(c, seen) /\ UNCHANGED cooldown) \/ Throws(c)

\* The user has been notified, or the gate declined.
Notifying(c) ==
    /\ call[c].pc = "notifying"
    /\ \/ \E i \in call[c].item :
            /\ cooldown' = [cooldown EXCEPT ![i] = Cooldown - call[c].age]
            /\ Notify(c, [seen EXCEPT !.witness[i] = Active])
       \/ (Notify(c, seen) /\ UNCHANGED cooldown)
       \/ Throws(c)

RunStep(c) == Baseline(c) \/ Discovering(c) \/ After(c) \/ Notifying(c)

----------------------------------------------------------------------------
(* The user's settings, and the clock.                                      *)

SetSchedule(j, s) ==
    /\ job' = [job EXCEPT ![j].enabled = s.enabled, ![j].frequency = s.frequency, ![j].next = s.frequency]
    /\ UNCHANGED <<cooldown, call, nextJob, seen>>

CancelRun(j) ==
    /\ job[j].inFlight
    /\ job' = [job EXCEPT ![j].cancelRequested = TRUE]
    /\ UNCHANGED <<cooldown, call, nextJob, seen>>

Clock ==
    /\ \A c \in Active : call[c].age < MaxRun
    /\ job' = [j \in Jobs |-> [job[j] EXCEPT !.next = IF @ > 0 THEN @ - 1 ELSE 0]]
    /\ cooldown' = [i \in Items |-> IF cooldown[i] > -MaxRun THEN cooldown[i] - 1 ELSE -MaxRun]
    /\ call' = [c \in Callers |-> IF c \in Active THEN [call[c] EXCEPT !.age = @ + 1] ELSE call[c]]
    /\ seen' = [seen EXCEPT !.last = [j \in Jobs |-> IF \E f \in Frequencies : f <= @[j] THEN @[j] ELSE @[j] + 1]]
    /\ UNCHANGED nextJob

Next ==
    \/ \E t \in Tickers : Tick(t)
    \/ \E u \in Users, j \in Managed : RunNow(u, j)
    \/ \E c \in Callers : RunStep(c)
    \/ \E j \in Managed : CancelRun(j) \/ \E s \in Setting : SetSchedule(j, s)
    \/ Clock

Spec == Init /\ [][Next]_vars

\* The interval timer fires, and what a run awaits is settled.
FairSpec ==
    /\ Spec
    /\ \A t \in Tickers : WF_vars(Tick(t))
    /\ \A c \in Callers : WF_vars(RunStep(c))

----------------------------------------------------------------------------
\* A job in flight has a run at work, unless its run died of an exception: then the
\* flag stays, and keeps the job from every tick until the user's "Run now".
InFlightMeansRunning ==
    \A j \in Jobs : job[j].inFlight => RunsOf(j) # {} \/ j \in seen.thrown

\* Ticks start a job once per window, whatever manual runs, skips and changed
\* settings come between; runs that overlapped lose the window.
Cadence ==
    [][ \A t \in Tickers, j \in Jobs :
          call[t].pc = "idle" /\ call'[t].pc = "baseline" /\ call'[t].at = j
             => j \in seen.overlap \/ \E f \in Frequencies : f <= seen.last[j] ]_vars

\* An item is notified again within its window only by a run that was already at
\* work when the window was opened.
DedupUnlessOverlapping ==
    \A c \in Callers : \A i \in call[c].item : cooldown[i] <= 0 \/ c \in seen.witness[i]

\* A job that is enabled and due is started, or is put off by the user.
DueJobsRun ==
    \A j \in Jobs :
        job[j].enabled /\ job[j].next = 0 /\ j \notin seen.thrown
          ~> ~job[j].enabled \/ job[j].next > 0 \/ j \in seen.thrown
=============================================================================
