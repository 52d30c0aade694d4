---------------------- MODULE WorkspaceExecution_proofs ----------------------
(***************************************************************************)
(* Proofs about WorkspaceExecution for any attempts and missions and all      *)
(* lease times that satisfy TimesAssumption.                                *)
(***************************************************************************)
EXTENDS WorkspaceExecution, TLAPS

----------------------------------------------------------------------------
(* Numbers.                                                                 *)

LEMMA Numbers ==
  /\ TTL \in Nat /\ WorkspaceTTL \in Nat /\ Timeout \in Nat /\ MaxTries \in Nat /\ Interval \in Nat
  /\ MaxAge \in Nat /\ MaxLate \in Nat /\ MaxMisses \in Nat /\ Timeout > 0 /\ MaxTries > 0
  /\ Greater(Timeout, MaxLate) \in Nat
  /\ Greater(Timeout, MaxLate) >= Timeout /\ Greater(Timeout, MaxLate) >= MaxLate
  /\ Greater(MaxLate, MaxAge) \in Nat
  /\ Greater(MaxLate, MaxAge) >= MaxLate /\ Greater(MaxLate, MaxAge) >= MaxAge
  BY LeaseAssumptions DEF LeaseAssumptions, Greater, Interval

\* n attempts of a renewal take n times its budget; all of them fit in a round.
LEMMA Tries ==
  ASSUME NEW n \in 1 .. MaxTries
  PROVE  /\ n * Timeout \in Nat /\ (n - 1) * Timeout \in Nat /\ MaxTries * Timeout \in Nat
         /\ n * Timeout = (n - 1) * Timeout + Timeout
         /\ n * Timeout <= MaxTries * Timeout
  BY Numbers

\* So many missed companion renewals leave time for one that succeeds.
LEMMA Misses ==
  ASSUME NEW n \in 0 .. MaxMisses
  PROVE  /\ Round \in Nat /\ n * Round \in Nat /\ (MaxMisses + 1) * Round \in Nat
         /\ (n + 1) * Round = n * Round + Round
         /\ (n + 1) * Round <= (MaxMisses + 1) * Round
  <1>1. Round \in Nat
    <2>1. MaxTries * Timeout \in Nat
      BY Numbers
    <2> QED  BY <2>1, Numbers DEF Round
  <1> QED  BY <1>1, Numbers

----------------------------------------------------------------------------
(* The inductive invariant.                                                 *)

\* The clock and counters of a heartbeat stay within its timers.
InTime(h) ==
    /\ h.st = "waiting" => h.clk <= Interval
    /\ h.st = "renewing" => h.clk <= Timeout /\ h.tries \in 1 .. MaxTries
    /\ h.st = "pausing" => h.clk = 0 /\ h.tries \in 1 .. MaxTries /\ h.tries # MaxTries
    /\ h.st = "companion" => h.clk <= MaxAge

\* How long ago a heartbeat's round began, and its lease was confirmed, at most.
SinceRound(h) ==
    CASE h.st = "waiting"  -> h.clk
      [] h.st = "renewing" -> Interval + (h.tries - 1) * Timeout + h.clk
      [] h.st = "pausing"  -> Interval + h.tries * Timeout
      [] OTHER             -> Interval + MaxTries * Timeout + h.clk

SinceConfirmed(h) == IF h.st = "companion" THEN h.clk ELSE MaxAge + SinceRound(h)

LeaseLong(a) ==
    AtWork(a) /\ Beating(a) =>
        /\ Owns(a)
        /\ objective[MissionOf[a]].left >= TTL - Greater(Timeout, MaxLate) - SinceConfirmed(beat[a])

Claims(a) == (AtWork(a) /\ Beating(a)) \/ run[a].pc = "leasing"

ClaimLong(a) ==
    /\ Claims(a) => workspace.token = a
    /\ run[a].pc = "leasing" => workspace.left >= WorkspaceTTL - run[a].age
    /\ AtWork(a) /\ Beating(a) =>
         workspace.left >= WorkspaceTTL - MaxAge - beat[a].missed * Round - SinceRound(beat[a])

\* An attempt without its lease has no heartbeat.
Resting(a) == run[a].pc \in {"idle", "claiming", "leasing"} => beat[a].st = "off"

Inv ==
    /\ TypeOK
    /\ \A a \in Attempts : InTime(beat[a]) /\ Resting(a) /\ LeaseLong(a) /\ ClaimLong(a)

LEMMA RoundBounds ==
  ASSUME NEW h \in BeatType, InTime(h), h.st \notin {"off", "failed"}
  PROVE  /\ SinceRound(h) \in 0 .. Round
         /\ h.st # "companion" => SinceConfirmed(h) \in 0 .. Round
         /\ h.st = "companion" => SinceConfirmed(h) \in 0 .. MaxAge
  <1>1. h.clk \in Nat /\ h.tries \in 0 .. MaxTries /\ h.st \in {"waiting", "renewing", "pausing", "companion"}
    BY DEF BeatType
  <1>2. MaxTries * Timeout \in Nat /\ Round \in Nat
    BY Numbers, Misses
  <1>3. CASE h.st = "waiting"
    BY <1>1, <1>2, <1>3, Numbers DEF InTime, SinceRound, SinceConfirmed, Round
  <1>4. CASE h.st = "renewing"
    <2>1. h.clk <= Timeout /\ h.tries \in 1 .. MaxTries
      BY <1>4 DEF InTime
    <2>2. /\ SinceRound(h) = Interval + (h.tries - 1) * Timeout + h.clk
          /\ SinceConfirmed(h) = MaxAge + SinceRound(h)
      BY <1>4 DEF SinceRound, SinceConfirmed
    <2> QED  BY <1>1, <1>2, <1>4, <2>1, <2>2, Tries, Numbers DEF Round
  <1>5. CASE h.st = "pausing"
    <2>1. h.tries \in 1 .. MaxTries
      BY <1>5 DEF InTime
    <2>2. SinceRound(h) = Interval + h.tries * Timeout /\ SinceConfirmed(h) = MaxAge + SinceRound(h)
      BY <1>5 DEF SinceRound, SinceConfirmed
    <2> QED  BY <1>1, <1>2, <1>5, <2>1, <2>2, Tries, Numbers DEF Round
  <1>6. CASE h.st = "companion"
    <2>1. /\ SinceRound(h) = Interval + MaxTries * Timeout + h.clk
          /\ SinceConfirmed(h) = h.clk /\ h.clk <= MaxAge
      BY <1>6 DEF SinceRound, SinceConfirmed, InTime
    <2> QED  BY <1>1, <1>2, <1>6, <2>1, Numbers DEF Round
  <1> QED  BY <1>1, <1>3, <1>4, <1>5, <1>6

LEMMA KeepsLease ==
  ASSUME Inv, NEW a \in Attempts, AtWork(a), Beating(a)
  PROVE  Owns(a) /\ objective[MissionOf[a]].left > 0
  <1>1. SinceConfirmed(beat[a]) \in Int /\ SinceConfirmed(beat[a]) <= Round
    BY RoundBounds, Misses, Numbers DEF Inv, TypeOK, Beating, Round
  <1>2. objective[MissionOf[a]].left \in Int
    BY Numbers, LeaseAssumptions DEF LeaseAssumptions, Inv, TypeOK, Lease
  <1> QED  BY <1>1, <1>2, Numbers, Misses, TimesAssumption DEF TimesAssumption, Inv, LeaseLong

LEMMA KeepsWorkspace ==
  ASSUME Inv, NEW a \in Attempts, Claims(a)
  PROVE  workspace.token = a /\ workspace.left > 0
  <1>1. workspace.left \in Int /\ beat[a].missed \in 0 .. MaxMisses /\ run[a].age \in 0 .. MaxAge
    BY Numbers DEF Inv, TypeOK, Lease, BeatType, RunType
  <1>2. CASE run[a].pc = "leasing"
    <2>1. workspace.token = a /\ workspace.left >= WorkspaceTTL - run[a].age
      BY <1>2 DEF Inv, ClaimLong, Claims
    <2> QED  BY <1>1, <2>1, Numbers, Misses, TimesAssumption DEF TimesAssumption
  <1>3. CASE AtWork(a) /\ Beating(a)
    <2>1. SinceRound(beat[a]) \in 0 .. Round
      BY <1>3, RoundBounds DEF Inv, TypeOK, Beating
    <2>2. /\ workspace.token = a
          /\ workspace.left >= WorkspaceTTL - MaxAge - beat[a].missed * Round - SinceRound(beat[a])
      BY <1>3 DEF Inv, ClaimLong, Claims
    <2> QED  BY <1>1, <2>1, <2>2, Numbers, Misses, TimesAssumption DEF TimesAssumption
  <1> QED  BY <1>2, <1>3 DEF Claims

----------------------------------------------------------------------------
(* What leaves an attempt's part of the invariant alone.                    *)

\* The lease is the same, or renewed; the attempt is where it was, or elsewhere at
\* work, or not at work any more.
LEMMA LeaseStays ==
  ASSUME Inv, NEW a \in Attempts, beat'[a] = beat[a], AtWork(a)' => AtWork(a),
         AtWork(a)' /\ Beating(a) =>
            \/ objective'[MissionOf[a]] = objective[MissionOf[a]]
            \/ /\ objective'[MissionOf[a]].token = a
               /\ objective'[MissionOf[a]].left >= TTL - Greater(Timeout, MaxLate)
               /\ objective'[MissionOf[a]].left \in Int
  PROVE  LeaseLong(a)'
  <1> SUFFICES ASSUME AtWork(a)', Beating(a)'
               PROVE  /\ Owns(a)'
                      /\ objective'[MissionOf[a]].left
                            >= TTL - Greater(Timeout, MaxLate) - SinceConfirmed(beat'[a])
    BY DEF LeaseLong
  <1>1. AtWork(a) /\ Beating(a)
    BY DEF Beating
  <1>2. SinceConfirmed(beat[a]) \in Nat
    BY <1>1, RoundBounds, Misses, Numbers DEF Inv, TypeOK, Beating
  <1>3. CASE objective'[MissionOf[a]] = objective[MissionOf[a]]
    BY <1>1, <1>3 DEF Inv, LeaseLong, Owns
  <1>4. CASE /\ objective'[MissionOf[a]].token = a
             /\ objective'[MissionOf[a]].left >= TTL - Greater(Timeout, MaxLate)
             /\ objective'[MissionOf[a]].left \in Int
    BY <1>2, <1>4, Numbers DEF Owns
  <1> QED  BY <1>1, <1>3, <1>4

LEMMA ClaimStays ==
  ASSUME Inv, NEW a \in Attempts, beat'[a] = beat[a], AtWork(a)' => AtWork(a),
         run'[a].pc = "leasing" => run[a].pc = "leasing" /\ run'[a].age = run[a].age,
         Claims(a) /\ (AtWork(a)' \/ run'[a].pc = "leasing") => workspace' = workspace
  PROVE  ClaimLong(a)'
  BY DEF Inv, ClaimLong, Claims, Beating

\* Nobody else can claim, extend or free the workspace of an attempt that claims it.
LEMMA ClaimExcludes ==
  ASSUME Inv, NEW a \in Attempts, NEW b \in Attempts, a # b, Claims(b)
  PROVE  /\ \A sent \in Nat : ~Claimable(a, sent) /\ Extended(a, sent) = workspace
         /\ Freed(a) = workspace
  <1>1. workspace.token = b /\ workspace.left > 0 /\ workspace.left \in Int
    BY KeepsWorkspace, Numbers DEF Inv, TypeOK, Lease
  <1> QED  BY <1>1, LeaseAssumptions DEF LeaseAssumptions, Claimable, Extended, Freed

----------------------------------------------------------------------------
LEMMA FreeLease ==
  ASSUME NEW n \in Nat
  PROVE  Free \in Lease(n)
  BY Numbers DEF Free, Lease

LEMMA OffType == Off \in BeatType /\ InTime(Off) /\ GivenUp \in BeatType /\ InTime(GivenUp)
                 /\ Off.st = "off" /\ GivenUp.st = "failed"
  <1>1. Off \in BeatType
    BY Numbers DEF Off, BeatType
  <1> QED  BY <1>1 DEF Off, GivenUp, BeatType, InTime

LEMMA AtType ==
  ASSUME NEW pc \in {"idle", "claiming", "leasing", "working", "gating", "operating",
                     "stopping", "releasing", "done", "dead"}
  PROVE  At(pc) \in RunType /\ At(pc).pc = pc /\ At(pc).age = 0
  BY Numbers, LeaseAssumptions DEF LeaseAssumptions, At, RunType

LEMMA InitInv == Init => Inv
  <1> SUFFICES ASSUME Init PROVE Inv
    OBVIOUS
  <1>1. TypeOK
    BY Numbers, FreeLease, OffType, AtType DEF Init, TypeOK
  <1> QED  BY <1>1, OffType, AtType DEF Init, Inv, Resting, LeaseLong, ClaimLong, Claims, AtWork

----------------------------------------------------------------------------
(* The steps of an attempt.                                                 *)

\* An attempt that moves on, or ends, and keeps no new lease or claim.
LEMMA MoveKeepsInv ==
  ASSUME Inv, NEW a \in Attempts, NEW r \in RunType, run' = [run EXCEPT ![a] = r],
         r.pc \notin {"idle", "leasing"}, r.pc \in {"working", "gating", "operating"} => AtWork(a),
         r.pc = "claiming" => run[a].pc \in {"idle", "claiming"},
         UNCHANGED <<beat, late>>,
         workspace' \in Lease(WorkspaceTTL), objective' \in [Missions -> Lease(TTL)],
         \A b \in Attempts : Claims(b) /\ (b # a \/ AtWork(b)') => workspace' = workspace,
         \A b \in Attempts : AtWork(b)' /\ Beating(b) => objective'[MissionOf[b]] = objective[MissionOf[b]]
  PROVE  Inv'
  <1>1. TypeOK'
    BY DEF Inv, TypeOK
  <1>2. ASSUME NEW b \in Attempts
        PROVE  InTime(beat[b])' /\ Resting(b)' /\ LeaseLong(b)' /\ ClaimLong(b)'
    <2>1. /\ AtWork(b)' => AtWork(b)
          /\ run'[b].pc = "leasing" => b # a /\ run'[b] = run[b]
      BY DEF AtWork, Inv, TypeOK
    <2>2. InTime(beat[b])' /\ Resting(b)'
      BY DEF Inv, TypeOK, InTime, Resting
    <2> QED  BY <2>1, <2>2, LeaseStays, ClaimStays
  <1> QED  BY <1>1, <1>2 DEF Inv

\* Where `a` claims, no other attempt does.
LEMMA OthersUndisturbed ==
  ASSUME Inv, NEW a \in Attempts, workspace' \in {workspace, Freed(a)}
  PROVE  \A b \in Attempts : b # a /\ Claims(b) => workspace' = workspace
  BY ClaimExcludes

LEMMA StartKeepsInv ==
  ASSUME Inv, NEW a \in Attempts, Start(a)
  PROVE  Inv'
  <1> DEFINE r == [At("claiming") EXCEPT !.tries = 1]
  <1>1. r \in RunType /\ r.pc = "claiming"
    BY AtType, LeaseAssumptions DEF LeaseAssumptions, RunType
  <1> HIDE DEF r
  <1>2. /\ run' = [run EXCEPT ![a] = r] /\ UNCHANGED <<workspace, objective, beat, late>>
        /\ run[a].pc = "idle"
    BY DEF Start, r
  <1>3. workspace' \in Lease(WorkspaceTTL) /\ objective' \in [Missions -> Lease(TTL)]
    BY <1>2 DEF Inv, TypeOK
  <1> QED  BY <1>1, <1>2, <1>3, MoveKeepsInv

LEMMA ClaimedType ==
  ASSUME NEW a \in Attempts, NEW sent \in 0 .. MaxAge
  PROVE  Claimed(a, sent) \in Lease(WorkspaceTTL)
  BY Numbers DEF Claimed, Lease

LEMMA ClaimKeepsInv ==
  ASSUME Inv, NEW a \in Attempts, Claim(a)
  PROVE  Inv'
  <1>1. /\ run[a] \in RunType /\ run[a].pc = "claiming" /\ run[a].age \in 0 .. MaxAge
        /\ run[a].tries \in 0 .. ClaimTries
        /\ UNCHANGED <<objective, beat, late>>
        /\ run \in [Attempts -> RunType] /\ objective \in [Missions -> Lease(TTL)]
        /\ workspace \in Lease(WorkspaceTTL)
    BY DEF Claim, Inv, TypeOK, RunType
  <1>2. Claimed(a, run[a].age) \in Lease(WorkspaceTTL)
    BY <1>1, ClaimedType
  <1>3. \A b \in Attempts : Claims(b) => b # a
    BY <1>1 DEF Claims, AtWork
  <1>4. \A b \in Attempts : Claims(b) => ~Claimable(a, run[a].age)
    BY <1>1, <1>3, ClaimExcludes, Numbers
  <1>5. CASE /\ Claimable(a, run[a].age)
             /\ workspace' = Claimed(a, run[a].age)
             /\ run' = [run EXCEPT ![a].pc = "leasing", ![a].tries = 0]
    <2>1. /\ run'[a].pc = "leasing" /\ run'[a].age = run[a].age /\ run'[a] \in RunType
          /\ \A b \in Attempts : b # a => run'[b] = run[b]
      <3>1. 0 \in 0 .. ClaimTries
        BY LeaseAssumptions DEF LeaseAssumptions
      <3>2. run' = [run EXCEPT ![a] = [run[a] EXCEPT !.pc = "leasing", !.tries = 0]]
        BY <1>1, <1>5
      <3>3. [run[a] EXCEPT !.pc = "leasing", !.tries = 0] \in RunType
        BY <1>1, <3>1 DEF RunType
      <3>4. run'[a] = [run[a] EXCEPT !.pc = "leasing", !.tries = 0]
        BY <1>1, <3>2
      <3> QED  BY <1>1, <3>2, <3>3, <3>4 DEF RunType
    <2>2. TypeOK'
      BY <1>1, <1>2, <1>5, <2>1 DEF Inv, TypeOK
    <2>3. ASSUME NEW b \in Attempts
          PROVE  InTime(beat[b])' /\ Resting(b)' /\ LeaseLong(b)' /\ ClaimLong(b)'
      <3>1. InTime(beat[b])' /\ Resting(b)'
        BY <1>1, <2>1 DEF Inv, InTime, Resting
      <3>2. AtWork(b)' => b # a /\ AtWork(b)
        BY <2>1 DEF AtWork
      <3>3. LeaseLong(b)'
        BY <1>1, <3>2, LeaseStays
      <3>4. CASE b = a
        <4>1. workspace'.token = a /\ workspace'.left = WorkspaceTTL - run[a].age
          BY <1>5 DEF Claimed
        <4>2. ClaimLong(b)'
          BY <1>1, <2>1, <3>2, <3>4, <4>1, Numbers DEF ClaimLong, Claims
        <4> QED  BY <3>1, <3>3, <4>2
      <3>5. CASE b # a
        <4>1. ~Claims(b) /\ beat'[b] = beat[b] /\ run'[b] = run[b]
          BY <1>1, <1>4, <1>5, <2>1, <3>5
        <4> QED  BY <3>1, <3>2, <3>3, <4>1, ClaimStays
      <3> QED  BY <3>1, <3>3, <3>4, <3>5
    <2> QED  BY <2>2, <2>3 DEF Inv
  <1>6. ASSUME NEW r \in RunType, run' = [run EXCEPT ![a] = r], r.pc \in {"claiming", "done"},
               workspace' \in {workspace} \cup
                   (IF Claimable(a, run[a].age) THEN {Claimed(a, run[a].age)} ELSE {})
        PROVE  Inv'
    <2>1. workspace' \in Lease(WorkspaceTTL)
      BY <1>1, <1>2, <1>6
    <2>2. \A b \in Attempts : Claims(b) => workspace' = workspace
      BY <1>4, <1>6
    <2> QED  BY <1>1, <1>6, <2>1, <2>2, MoveKeepsInv
  <1>7. At("done") \in RunType /\ At("done").pc = "done"
    BY AtType
  <1>8. CASE run[a].tries < ClaimTries /\ run' = [run EXCEPT ![a].tries = @ + 1]
             /\ workspace' \in {workspace} \cup
                   (IF Claimable(a, run[a].age) THEN {Claimed(a, run[a].age)} ELSE {})
    <2> DEFINE r == [run[a] EXCEPT !.tries = @ + 1]
    <2>1. r \in RunType /\ r.pc = "claiming"
      BY <1>1, <1>8, LeaseAssumptions DEF LeaseAssumptions, RunType
    <2>2. run' = [run EXCEPT ![a] = r]
      BY <1>8
    <2> HIDE DEF r
    <2> QED  BY <1>6, <1>8, <2>1, <2>2
  <1>9. CASE /\ Goto(a, "done")
             /\ workspace' \in {workspace} \cup
                   (IF Claimable(a, run[a].age) THEN {Claimed(a, run[a].age)} ELSE {})
    BY <1>6, <1>7, <1>9 DEF Goto
  <1> QED  BY <1>5, <1>8, <1>9 DEF Claim

LEMMA AcquireObjectiveKeepsInv ==
  ASSUME Inv, NEW a \in Attempts, AcquireObjective(a)
  PROVE  Inv'
  <1> DEFINE m == MissionOf[a]
             granted == [token |-> a, left |-> TTL - run[a].age]
             h == [Off EXCEPT !.st = "waiting", !.known = TTL - run[a].age]
  <1>1. /\ run[a].pc = "leasing" /\ run[a].age \in 0 .. MaxAge /\ m \in Missions
        /\ UNCHANGED <<workspace, late>>
        /\ run \in [Attempts -> RunType] /\ beat \in [Attempts -> BeatType]
        /\ objective \in [Missions -> Lease(TTL)] /\ workspace \in Lease(WorkspaceTTL)
    BY LeaseAssumptions DEF LeaseAssumptions, AcquireObjective, Inv, TypeOK, RunType
  <1>2. granted \in Lease(TTL) /\ TTL - run[a].age \in Int
    BY <1>1, Numbers DEF Lease
  <1>3. h \in BeatType /\ h.st = "waiting" /\ h.clk = 0 /\ h.missed = 0
    BY <1>1, <1>2, OffType DEF BeatType, Off
  <1> HIDE DEF h, granted, m
  <1>4. At("working") \in RunType /\ At("working").pc = "working"
        /\ At("releasing") \in RunType /\ At("releasing").pc = "releasing"
    BY AtType
  \* The grant takes nothing from an attempt that is at work.
  <1>5. objective[m].token = NoAttempt =>
          \A b \in Attempts : AtWork(b) /\ Beating(b) => MissionOf[b] # m
    BY KeepsLease, LeaseAssumptions DEF LeaseAssumptions, Owns
  <1>6. CASE /\ objective[m].token = NoAttempt
             /\ objective' = [objective EXCEPT ![m] = granted]
             /\ Goto(a, "working")
             /\ beat' = [beat EXCEPT ![a] = h]
    <2>1. TypeOK'
      BY <1>1, <1>2, <1>3, <1>4, <1>6 DEF Inv, TypeOK, Goto
    <2>2. /\ run'[a].pc = "working" /\ beat'[a] = h
          /\ \A b \in Attempts : b # a => run'[b] = run[b] /\ beat'[b] = beat[b]
      BY <1>1, <1>4, <1>6 DEF Goto
    <2>3. ASSUME NEW b \in Attempts, b # a
          PROVE  InTime(beat[b])' /\ Resting(b)' /\ LeaseLong(b)' /\ ClaimLong(b)'
      <3>1. InTime(beat[b])' /\ Resting(b)'
        BY <2>2, <2>3 DEF Inv, InTime, Resting
      <3>2. (AtWork(b)' => AtWork(b)) /\ MissionOf[b] \in Missions
        BY <2>2, <2>3, LeaseAssumptions DEF LeaseAssumptions, AtWork
      <3>3. AtWork(b) /\ Beating(b) => objective'[MissionOf[b]] = objective[MissionOf[b]]
        BY <1>1, <1>5, <1>6, <3>2
      <3> QED  BY <1>1, <2>2, <2>3, <3>1, <3>2, <3>3, LeaseStays, ClaimStays
    <2>4. InTime(beat[a])' /\ Resting(a)'
      BY <1>3, <2>2, Numbers DEF InTime, Resting
    <2>5. LeaseLong(a)'
      <3>1. objective'[m].token = a /\ objective'[m].left = TTL - run[a].age
        BY <1>1, <1>6 DEF granted
      <3>2. SinceConfirmed(h) = MaxAge
        BY <1>3, Numbers DEF SinceConfirmed, SinceRound
      <3> QED  BY <1>1, <2>2, <3>1, <3>2, Numbers DEF LeaseLong, Owns, m
    <2>6. ClaimLong(a)'
      <3>1. workspace.token = a /\ workspace.left >= WorkspaceTTL - run[a].age /\ workspace.left \in Int
        BY <1>1, Numbers DEF Inv, ClaimLong, Claims, Lease
      <3>2. SinceRound(h) = 0 /\ h.missed * Round = 0
        BY <1>3, Misses, Numbers DEF SinceRound
      <3> QED  BY <1>1, <2>2, <3>1, <3>2, Numbers DEF ClaimLong, Claims, AtWork
    <2> QED  BY <2>1, <2>3, <2>4, <2>5, <2>6 DEF Inv
  <1>7. CASE /\ \/ objective' = objective
                \/ objective[m].token = NoAttempt /\ objective' = [objective EXCEPT ![m] = granted]
             /\ Goto(a, "releasing")
             /\ beat' = beat
    <2>1. objective' \in [Missions -> Lease(TTL)]
      BY <1>1, <1>2, <1>7
    <2>2. ASSUME NEW b \in Attempts, AtWork(b)', Beating(b)
          PROVE  objective'[MissionOf[b]] = objective[MissionOf[b]]
      <3>1. AtWork(b) /\ MissionOf[b] \in Missions
        BY <1>1, <1>4, <1>7, <2>2, LeaseAssumptions DEF LeaseAssumptions, AtWork, Goto
      <3> QED  BY <1>1, <1>5, <1>7, <2>2, <3>1
    <2> QED  BY <1>1, <1>4, <1>7, <2>1, <2>2, MoveKeepsInv DEF Goto
  <1> QED  BY <1>6, <1>7 DEF AcquireObjective, m, granted, h

LEMMA GatesKeepInv ==
  ASSUME Inv, NEW a \in Attempts, GateObjective(a) \/ GateWorkspace(a)
  PROVE  Inv'
  <1>1. PICK pc \in {"working", "gating", "operating", "stopping"} : Goto(a, pc)
    BY DEF GateObjective, GateWorkspace
  <1>2. /\ UNCHANGED <<workspace, objective, beat, late>> /\ AtWork(a)
        /\ workspace' \in Lease(WorkspaceTTL) /\ objective' \in [Missions -> Lease(TTL)]
    BY DEF GateObjective, GateWorkspace, AtWork, Inv, TypeOK
  <1>3. At(pc) \in RunType /\ At(pc).pc = pc /\ run' = [run EXCEPT ![a] = At(pc)]
    BY <1>1, AtType DEF Goto
  <1> QED  BY <1>2, <1>3, MoveKeepsInv

LEMMA OperationEndsKeepsInv ==
  ASSUME Inv, NEW a \in Attempts, OperationEnds(a)
  PROVE  Inv'
  <1>1. /\ AtWork(a) /\ UNCHANGED <<workspace, beat, late>>
        /\ workspace' \in Lease(WorkspaceTTL) /\ objective \in [Missions -> Lease(TTL)]
        /\ run \in [Attempts -> RunType]
    BY DEF OperationEnds, AtWork, Inv, TypeOK
  <1>2. CASE Goto(a, "working") /\ UNCHANGED objective
    BY <1>1, <1>2, AtType, MoveKeepsInv DEF Goto
  <1>3. CASE /\ Goto(a, "stopping")
             /\ objective' \in {objective} \cup
                  { [objective EXCEPT ![m] = Free] : m \in {n \in Missions : objective[n].token = a} }
    <2>1. objective' \in [Missions -> Lease(TTL)]
      BY <1>1, <1>3, FreeLease, Numbers
    <2>2. ASSUME NEW b \in Attempts, AtWork(b)', Beating(b)
          PROVE  objective'[MissionOf[b]] = objective[MissionOf[b]]
      <3>1. b # a /\ AtWork(b)
        BY <1>1, <1>3, <2>2, AtType DEF Goto, AtWork
      <3>2. objective[MissionOf[b]].token = b /\ MissionOf[b] \in Missions
        BY <2>2, <3>1, KeepsLease, LeaseAssumptions DEF LeaseAssumptions, Owns
      <3> QED  BY <1>1, <1>3, <3>1, <3>2
    <2>3. /\ At("stopping") \in RunType /\ At("stopping").pc = "stopping"
          /\ run' = [run EXCEPT ![a] = At("stopping")]
      BY <1>3, AtType DEF Goto
    <2> QED  BY <1>1, <2>1, <2>2, <2>3, MoveKeepsInv
  <1> QED  BY <1>2, <1>3 DEF OperationEnds

LEMMA ReleaseKeepsInv ==
  ASSUME Inv, NEW a \in Attempts, Release(a)
  PROVE  Inv'
  <1>1. /\ UNCHANGED <<objective, beat, late>> /\ objective' \in [Missions -> Lease(TTL)]
        /\ workspace' \in {workspace, Freed(a)} /\ workspace \in Lease(WorkspaceTTL)
        /\ run \in [Attempts -> RunType] /\ ~Claims(a)
    BY DEF Release, Inv, TypeOK, Claims, AtWork
  <1>2. workspace' \in Lease(WorkspaceTTL)
    BY <1>1, FreeLease, Numbers DEF Freed
  <1>3. \A b \in Attempts : Claims(b) => workspace' = workspace
    BY <1>1, OthersUndisturbed
  <1>4. At("done") \in RunType /\ At("done").pc = "done" /\ run' = [run EXCEPT ![a] = At("done")]
    BY AtType DEF Release, Goto
  <1> QED  BY <1>1, <1>2, <1>3, <1>4, MoveKeepsInv

----------------------------------------------------------------------------
(* The steps of a heartbeat, and what changes with one.                     *)

\* An attempt that is not at work afterwards keeps the invariant whatever it does.
LEMMA IdleHolds ==
  ASSUME NEW a \in Attempts, ~AtWork(a)', run'[a].pc # "leasing"
  PROVE  LeaseLong(a)' /\ ClaimLong(a)'
  BY DEF LeaseLong, ClaimLong, Claims

\* The attempt's heartbeat becomes h, its lease and the workspace what h relies on.
LEMMA BeatKeepsInv ==
  ASSUME Inv, NEW a \in Attempts, NEW h \in BeatType, Beat(a, h), InTime(h),
         run' = run, late' \in [Attempts -> SUBSET (0 .. MaxLate)], beat[a].st # "off",
         workspace' \in Lease(WorkspaceTTL), objective' \in [Missions -> Lease(TTL)],
         \A b \in Attempts : b # a /\ Claims(b) => workspace' = workspace,
         \A b \in Attempts : b # a /\ AtWork(b) /\ Beating(b)
                                => objective'[MissionOf[b]] = objective[MissionOf[b]],
         AtWork(a) /\ h.st \notin {"off", "failed"} =>
            /\ Owns(a)'
            /\ objective'[MissionOf[a]].left >= TTL - Greater(Timeout, MaxLate) - SinceConfirmed(h)
            /\ workspace'.token = a
            /\ workspace'.left >= WorkspaceTTL - MaxAge - h.missed * Round - SinceRound(h)
  PROVE  Inv'
  <1>1. /\ beat \in [Attempts -> BeatType] /\ run \in [Attempts -> RunType]
        /\ beat' = [beat EXCEPT ![a] = IF Stopped(a) THEN Off ELSE h]
    BY DEF Inv, TypeOK, Beat
  <1>2. TypeOK'
    BY <1>1, OffType DEF Inv, TypeOK
  <1>3. ASSUME NEW b \in Attempts, b # a
        PROVE  InTime(beat[b])' /\ Resting(b)' /\ LeaseLong(b)' /\ ClaimLong(b)'
    <2>1. beat'[b] = beat[b] /\ (AtWork(b)' <=> AtWork(b)) /\ run'[b] = run[b]
      BY <1>1, <1>3 DEF AtWork
    <2>2. InTime(beat[b])' /\ Resting(b)'
      BY <2>1 DEF Inv, InTime, Resting
    <2> QED  BY <1>3, <2>1, <2>2, LeaseStays, ClaimStays
  <1>4. InTime(beat[a])' /\ Resting(a)' /\ LeaseLong(a)' /\ ClaimLong(a)'
    <2>0. run[a].pc \notin {"idle", "claiming", "leasing"} /\ Resting(a)'
      BY DEF Inv, Resting
    <2>1. CASE Stopped(a)
      <3>1. beat'[a] = Off /\ ~AtWork(a)' /\ run'[a].pc # "leasing"
        BY <1>1, <2>1 DEF Stopped, AtWork
      <3>2. InTime(beat[a])'
        BY <3>1, OffType
      <3> QED  BY <2>0, <3>1, <3>2, IdleHolds
    <2>2. CASE ~Stopped(a)
      <3>1. beat'[a] = h /\ (AtWork(a)' <=> AtWork(a)) /\ run'[a].pc # "leasing"
        BY <1>1, <2>0, <2>2 DEF AtWork
      <3>2. InTime(beat[a])'
        BY <3>1
      <3>3. LeaseLong(a)'
        BY <3>1 DEF LeaseLong, Beating
      <3>4. ClaimLong(a)'
        BY <3>1 DEF ClaimLong, Claims, Beating
      <3> QED  BY <2>0, <3>2, <3>3, <3>4
    <2> QED  BY <2>1, <2>2
  <1> QED  BY <1>2, <1>3, <1>4 DEF Inv

\* What holds of an attempt whose heartbeat has something to do.
LEMMA BeatFacts ==
  ASSUME Inv, NEW a \in Attempts, Beating(a)
  PROVE  /\ beat[a] \in BeatType /\ InTime(beat[a]) /\ MissionOf[a] \in Missions
         /\ workspace \in Lease(WorkspaceTTL) /\ workspace.left \in Int
         /\ objective \in [Missions -> Lease(TTL)] /\ objective[MissionOf[a]].left \in Int
         /\ late \in [Attempts -> SUBSET (0 .. MaxLate)]
         /\ beat[a].st # "off"
         /\ beat[a].clk \in Nat /\ beat[a].tries \in 0 .. MaxTries /\ beat[a].missed \in 0 .. MaxMisses
         /\ beat[a].known \in Int
         /\ SinceRound(beat[a]) \in 0 .. Round /\ SinceConfirmed(beat[a]) \in Nat
  BY RoundBounds, Misses, Numbers, LeaseAssumptions
     DEF LeaseAssumptions, Inv, TypeOK, Beating, Lease, BeatType

\* The heartbeat's step touches its own attempt's lease at most, and renews it.
LEMMA ObjectiveOfOthers ==
  ASSUME Inv, NEW a \in Attempts, NEW sent \in Nat,
         objective' = objective \/ (Renewable(a, sent) /\ objective' = Renewed(a, sent))
  PROVE  \A b \in Attempts : b # a /\ AtWork(b) /\ Beating(b)
                                => objective'[MissionOf[b]] = objective[MissionOf[b]]
  <1>1. objective \in [Missions -> Lease(TTL)] /\ \A b \in Attempts : MissionOf[b] \in Missions
    BY LeaseAssumptions DEF LeaseAssumptions, Inv, TypeOK
  <1> QED  BY <1>1, KeepsLease DEF Renewable, Renewed, Owns

LEMMA RenewedLease ==
  ASSUME Inv, NEW a \in Attempts, NEW sent \in Nat, sent <= Greater(Timeout, MaxLate), Renewable(a, sent),
         objective' = Renewed(a, sent)
  PROVE  /\ objective' \in [Missions -> Lease(TTL)]
         /\ Owns(a)'
         /\ objective'[MissionOf[a]].token = a
         /\ objective'[MissionOf[a]].left >= TTL - Greater(Timeout, MaxLate)
         /\ objective'[MissionOf[a]].left \in Int
  <1>1. objective \in [Missions -> Lease(TTL)] /\ MissionOf[a] \in Missions
    BY LeaseAssumptions DEF LeaseAssumptions, Inv, TypeOK
  <1>2. /\ objective'[MissionOf[a]].left = TTL - sent
        /\ objective'[MissionOf[a]].token = objective[MissionOf[a]].token
    BY <1>1 DEF Renewed, Lease
  <1>3. TTL - sent \in -Greater(MaxLate, MaxAge) .. TTL
    BY Numbers, Misses, TimesAssumption DEF TimesAssumption
  <1>4. [objective[MissionOf[a]] EXCEPT !.left = TTL - sent] \in Lease(TTL)
    BY <1>1, <1>3 DEF Lease
  <1>5. objective' \in [Missions -> Lease(TTL)]
    BY <1>1, <1>4 DEF Renewed
  <1> QED  BY <1>2, <1>3, <1>5, Numbers DEF Renewable, Owns

LEMMA TickKeepsInv ==
  ASSUME Inv, NEW a \in Attempts, Tick(a)
  PROVE  Inv'
  <1> DEFINE h == [beat[a] EXCEPT !.st = "renewing", !.clk = 0, !.tries = 1]
  <1>1. /\ beat[a].st = "waiting" /\ beat[a].clk = Interval /\ Beating(a) /\ Beat(a, h)
        /\ UNCHANGED <<workspace, objective, run, late>>
    BY DEF Tick, Beating
  <1>2. h \in BeatType /\ h.st = "renewing" /\ h.clk = 0 /\ h.tries = 1 /\ h.missed = beat[a].missed
    <2>1. beat[a] \in BeatType /\ 1 \in 0 .. MaxTries
      BY <1>1, BeatFacts, Numbers
    <2> QED  BY <2>1 DEF BeatType
  <1> HIDE DEF h
  <1>3. InTime(h) /\ SinceRound(h) = SinceRound(beat[a]) /\ SinceConfirmed(h) = SinceConfirmed(beat[a])
    <2>1. SinceRound(h) = Interval /\ SinceRound(beat[a]) = Interval
      BY <1>1, <1>2, Numbers DEF SinceRound
    <2> QED  BY <1>1, <1>2, <2>1, Numbers DEF InTime, SinceConfirmed
  <1>4. AtWork(a) =>
            /\ Owns(a)'
            /\ objective'[MissionOf[a]].left >= TTL - Greater(Timeout, MaxLate) - SinceConfirmed(h)
            /\ workspace'.token = a
            /\ workspace'.left >= WorkspaceTTL - MaxAge - h.missed * Round - SinceRound(h)
    BY <1>1, <1>2, <1>3 DEF Inv, LeaseLong, ClaimLong, Claims, Owns
  <1> QED  BY <1>1, <1>2, <1>3, <1>4, BeatFacts, BeatKeepsInv

\* After a renewal that got no answer: a pause before the next, or the end.
LEMMA TransientKeepsInv ==
  ASSUME Inv, NEW a \in Attempts, beat[a].st = "renewing", Transient(a),
         UNCHANGED <<workspace, run>>, late' \in [Attempts -> SUBSET (0 .. MaxLate)],
         \/ objective' = objective
         \/ Renewable(a, beat[a].clk) /\ objective' = Renewed(a, beat[a].clk)
  PROVE  Inv'
  <1>1. Beating(a) /\ beat[a].clk <= Timeout /\ beat[a].tries \in 1 .. MaxTries
    BY DEF Beating, Inv, InTime
  <1>2. /\ objective' \in [Missions -> Lease(TTL)]
        /\ Owns(a) => Owns(a)'
        /\ \/ objective' = objective
           \/ objective'[MissionOf[a]].left >= TTL - Greater(Timeout, MaxLate)
        /\ objective'[MissionOf[a]].left \in Int
    <2>1. CASE objective' = objective
      BY <1>1, <2>1, BeatFacts DEF Owns
    <2>2. CASE Renewable(a, beat[a].clk) /\ objective' = Renewed(a, beat[a].clk)
      <3>1. beat[a].clk \in Nat /\ beat[a].clk <= Greater(Timeout, MaxLate)
        BY <1>1, BeatFacts, Numbers
      <3> QED  BY <2>2, <3>1, RenewedLease
    <2> QED  BY <2>1, <2>2
  <1>3. CASE Beat(a, GivenUp)
    BY <1>1, <1>2, <1>3, BeatFacts, OffType, ObjectiveOfOthers, BeatKeepsInv
  <1>4. CASE beat[a].tries < MaxTries /\ Beat(a, [beat[a] EXCEPT !.st = "pausing", !.clk = 0])
    <2> DEFINE h == [beat[a] EXCEPT !.st = "pausing", !.clk = 0]
    <2>1. h \in BeatType /\ h.st = "pausing" /\ h.clk = 0 /\ h.tries = beat[a].tries /\ h.missed = beat[a].missed
      BY <1>1, BeatFacts DEF BeatType
    <2>2. Beat(a, h)
      BY <1>4
    <2> HIDE DEF h
    <2>3. /\ SinceRound(h) = Interval + (beat[a].tries - 1) * Timeout + Timeout
          /\ SinceRound(beat[a]) = Interval + (beat[a].tries - 1) * Timeout + beat[a].clk
          /\ (beat[a].tries - 1) * Timeout \in Nat
      BY <1>1, <2>1, Tries, Numbers DEF SinceRound
    <2>4. /\ InTime(h) /\ SinceRound(h) \in Nat /\ SinceConfirmed(h) \in Nat
          /\ SinceRound(h) >= SinceRound(beat[a]) /\ SinceConfirmed(h) >= SinceConfirmed(beat[a])
      BY <1>1, <1>4, <2>1, <2>3, BeatFacts, Numbers DEF InTime, SinceConfirmed
    <2>5. AtWork(a) =>
            /\ Owns(a)'
            /\ objective'[MissionOf[a]].left >= TTL - Greater(Timeout, MaxLate) - SinceConfirmed(h)
      BY <1>1, <1>2, <2>4, BeatFacts, Numbers DEF Inv, LeaseLong
    <2>6. AtWork(a) =>
            /\ workspace'.token = a
            /\ workspace'.left >= WorkspaceTTL - MaxAge - h.missed * Round - SinceRound(h)
      <3>1. h.missed * Round \in Int
        BY <1>1, <2>1, BeatFacts, Misses
      <3>2. AtWork(a) =>
              /\ workspace.token = a
              /\ workspace.left >= WorkspaceTTL - MaxAge - h.missed * Round - SinceRound(beat[a])
        BY <1>1, <2>1 DEF Inv, ClaimLong, Claims
      <3> QED  BY <1>1, <2>4, <3>1, <3>2, BeatFacts, Numbers
    <2> QED  BY <1>1, <1>2, <2>1, <2>2, <2>4, <2>5, <2>6, BeatFacts, ObjectiveOfOthers, BeatKeepsInv
  <1> QED  BY <1>3, <1>4 DEF Transient

LEMMA RenewalSettlesKeepsInv ==
  ASSUME Inv, NEW a \in Attempts, RenewalSettles(a)
  PROVE  Inv'
  <1>1. /\ beat[a].st = "renewing" /\ Beating(a) /\ beat[a].clk <= Timeout /\ beat[a].clk \in Nat
        /\ UNCHANGED <<workspace, run, late>>
        /\ late' \in [Attempts -> SUBSET (0 .. MaxLate)]
        /\ beat[a].clk <= Greater(Timeout, MaxLate)
    BY BeatFacts, Numbers DEF RenewalSettles, Beating, Inv, InTime
  <1>2. CASE /\ Renewable(a, beat[a].clk)
             /\ objective' = Renewed(a, beat[a].clk)
             /\ Beat(a, [beat[a] EXCEPT !.st = "companion", !.clk = 0, !.tries = 0, !.known = TTL])
    <2> DEFINE h == [beat[a] EXCEPT !.st = "companion", !.clk = 0, !.tries = 0, !.known = TTL]
    <2>1. h \in BeatType /\ h.st = "companion" /\ h.clk = 0 /\ h.missed = beat[a].missed
      <3>1. beat[a] \in BeatType /\ 0 \in 0 .. MaxTries /\ TTL \in Int
        BY <1>1, BeatFacts, Numbers
      <3> QED  BY <3>1 DEF BeatType
    <2>2. Beat(a, h)
      BY <1>2
    <2> HIDE DEF h
    <2>3. InTime(h) /\ SinceConfirmed(h) = 0 /\ SinceRound(h) = Interval + MaxTries * Timeout
      <3>1. MaxTries * Timeout \in Nat
        BY Numbers
      <3> QED  BY <2>1, <3>1, Numbers DEF InTime, SinceConfirmed, SinceRound
    <2>4. SinceRound(beat[a]) <= SinceRound(h)
      <3>1. beat[a].tries \in 1 .. MaxTries
        BY <1>1 DEF Inv, InTime
      <3>2. SinceRound(beat[a]) = Interval + (beat[a].tries - 1) * Timeout + beat[a].clk
        BY <1>1 DEF SinceRound
      <3> QED  BY <1>1, <2>3, <3>1, <3>2, Tries, Numbers
    <2>5. /\ Owns(a)' /\ objective' \in [Missions -> Lease(TTL)]
          /\ objective'[MissionOf[a]].left >= TTL - Greater(Timeout, MaxLate)
          /\ objective'[MissionOf[a]].left \in Int
      BY <1>1, <1>2, RenewedLease
    <2>6. AtWork(a) =>
            /\ workspace'.token = a
            /\ workspace'.left >= WorkspaceTTL - MaxAge - h.missed * Round - SinceRound(h)
      <3>1. h.missed * Round \in Int /\ SinceRound(h) \in Int
        BY <1>1, <2>1, <2>3, BeatFacts, Misses, Numbers
      <3>2. AtWork(a) =>
              /\ workspace.token = a
              /\ workspace.left >= WorkspaceTTL - MaxAge - h.missed * Round - SinceRound(beat[a])
        BY <1>1, <2>1 DEF Inv, ClaimLong, Claims
      <3> QED  BY <1>1, <2>4, <3>1, <3>2, BeatFacts, Numbers
    <2>7. objective'[MissionOf[a]].left >= TTL - Greater(Timeout, MaxLate) - SinceConfirmed(h)
      BY <2>3, <2>5, Numbers
    <2>8. \A b \in Attempts : b # a /\ AtWork(b) /\ Beating(b)
                                => objective'[MissionOf[b]] = objective[MissionOf[b]]
      BY <1>1, <1>2, ObjectiveOfOthers
    <2> QED  BY <1>1, <2>1, <2>2, <2>3, <2>5, <2>6, <2>7, <2>8, BeatFacts, BeatKeepsInv
  <1>3. CASE /\ ~Renewable(a, beat[a].clk)
             /\ Beat(a, GivenUp)
             /\ UNCHANGED objective
    BY <1>1, <1>3, BeatFacts, OffType, BeatKeepsInv
  <1>4. CASE /\ objective' \in {objective} \cup
                  (IF Renewable(a, beat[a].clk) THEN {Renewed(a, beat[a].clk)} ELSE {})
             /\ Transient(a)
    BY <1>1, <1>4, TransientKeepsInv
  <1> QED  BY <1>2, <1>3, <1>4 DEF RenewalSettles

LEMMA RenewalTimesOutKeepsInv ==
  ASSUME Inv, NEW a \in Attempts, RenewalTimesOut(a)
  PROVE  Inv'
  <1>1. beat[a].st = "renewing" /\ Beating(a) /\ Transient(a) /\ UNCHANGED <<workspace, objective, run>>
    BY DEF RenewalTimesOut, Beating
  <1>2. late' \in [Attempts -> SUBSET (0 .. MaxLate)]
    BY <1>1, BeatFacts, Numbers DEF RenewalTimesOut
  <1> QED  BY <1>1, <1>2, TransientKeepsInv

LEMMA ResendKeepsInv ==
  ASSUME Inv, NEW a \in Attempts, Resend(a)
  PROVE  Inv'
  <1>1. /\ beat[a].st = "pausing" /\ Beating(a) /\ UNCHANGED <<workspace, objective, run, late>>
        /\ beat[a].clk = 0 /\ beat[a].tries \in 1 .. MaxTries /\ beat[a].tries # MaxTries
        /\ Beat(a, IF Owns(a) THEN [beat[a] EXCEPT !.st = "renewing", !.tries = @ + 1] ELSE GivenUp)
    BY DEF Resend, Beating, Inv, InTime
  <1>2. CASE Beat(a, GivenUp)
    BY <1>1, <1>2, BeatFacts, OffType, BeatKeepsInv
  <1>3. CASE Beat(a, [beat[a] EXCEPT !.st = "renewing", !.tries = @ + 1])
    <2> DEFINE h == [beat[a] EXCEPT !.st = "renewing", !.tries = @ + 1]
    <2>1. /\ beat[a].tries + 1 \in 1 .. MaxTries
          /\ h \in BeatType /\ h.st = "renewing" /\ h.clk = 0 /\ h.tries = beat[a].tries + 1
          /\ h.missed = beat[a].missed
      <3>1. /\ beat[a] \in BeatType
            /\ beat[a].tries + 1 \in 1 .. MaxTries /\ beat[a].tries + 1 \in 0 .. MaxTries
        BY <1>1, BeatFacts, Numbers
      <3> QED  BY <1>1, <3>1 DEF BeatType
    <2>2. Beat(a, h)
      BY <1>3
    <2> HIDE DEF h
    <2>3. InTime(h) /\ SinceRound(h) = SinceRound(beat[a]) /\ SinceConfirmed(h) = SinceConfirmed(beat[a])
      <3>1. beat[a].tries + 1 - 1 = beat[a].tries /\ beat[a].tries * Timeout \in Nat
        BY <1>1, Tries, Numbers
      <3>2. SinceRound(beat[a]) = Interval + beat[a].tries * Timeout
        BY <1>1 DEF SinceRound
      <3>3. SinceRound(h) = Interval + beat[a].tries * Timeout
        <4>1. h.tries - 1 = beat[a].tries
          BY <1>1, <2>1, <3>1, Numbers
        <4>2. SinceRound(h) = Interval + beat[a].tries * Timeout + 0
          BY <2>1, <4>1 DEF SinceRound
        <4> QED  BY <3>1, <4>2, Numbers
      <3> QED  BY <1>1, <2>1, <3>2, <3>3, Numbers DEF InTime, SinceConfirmed
    <2>4. AtWork(a) =>
            /\ Owns(a)'
            /\ objective'[MissionOf[a]].left >= TTL - Greater(Timeout, MaxLate) - SinceConfirmed(h)
            /\ workspace'.token = a
            /\ workspace'.left >= WorkspaceTTL - MaxAge - h.missed * Round - SinceRound(h)
      BY <1>1, <2>1, <2>3 DEF Inv, LeaseLong, ClaimLong, Claims, Owns
    <2> QED  BY <1>1, <2>1, <2>2, <2>3, <2>4, BeatFacts, BeatKeepsInv
  <1> QED  BY <1>1, <1>2, <1>3

LEMMA CompanionKeepsInv ==
  ASSUME Inv, NEW a \in Attempts, Companion(a)
  PROVE  Inv'
  <1>1. /\ beat[a].st = "companion" /\ Beating(a) /\ UNCHANGED <<objective, run, late>>
        /\ beat[a].clk <= MaxAge
    BY DEF Companion, Beating, Inv, InTime
  <1>2. PICK n \in 0 .. MaxMisses :
            /\ Beat(a, [beat[a] EXCEPT !.st = "waiting", !.clk = 0, !.missed = n])
            /\ \/ n = 0 /\ workspace' = Extended(a, beat[a].clk)
               \/ n = beat[a].missed + 1 /\ workspace' \in {workspace, Extended(a, beat[a].clk)}
    <2>1. CASE /\ workspace' = Extended(a, beat[a].clk)
               /\ Beat(a, [beat[a] EXCEPT !.st = "waiting", !.clk = 0, !.missed = 0])
      <3>1. 0 \in 0 .. MaxMisses
        BY Numbers
      <3> QED  BY <2>1, <3>1
    <2>2. CASE /\ beat[a].missed < MaxMisses
               /\ workspace' \in {workspace, Extended(a, beat[a].clk)}
               /\ Beat(a, [beat[a] EXCEPT !.st = "waiting", !.clk = 0, !.missed = @ + 1])
      <3>1. beat[a].missed + 1 \in 0 .. MaxMisses
        BY <1>1, <2>2, BeatFacts, Numbers
      <3> QED  BY <2>2, <3>1
    <2> QED  BY <2>1, <2>2 DEF Companion
  <1> DEFINE h == [beat[a] EXCEPT !.st = "waiting", !.clk = 0, !.missed = n]
  <1>3. h \in BeatType /\ h.st = "waiting" /\ h.clk = 0 /\ h.missed = n
    BY <1>1, BeatFacts DEF BeatType
  <1>4. Beat(a, h)
    BY <1>2
  <1> HIDE DEF h
  <1>5. InTime(h) /\ SinceRound(h) = 0 /\ SinceConfirmed(h) = MaxAge
    BY <1>3, Numbers DEF InTime, SinceRound, SinceConfirmed
  <1>6. SinceConfirmed(beat[a]) = beat[a].clk /\ SinceRound(beat[a]) = Interval + MaxTries * Timeout + beat[a].clk
    BY <1>1 DEF SinceConfirmed, SinceRound
  <1>7. Extended(a, beat[a].clk) \in Lease(WorkspaceTTL)
    <2>1. WorkspaceTTL - beat[a].clk \in -Greater(MaxLate, MaxAge) .. WorkspaceTTL
      BY <1>1, BeatFacts, Numbers
    <2> QED  BY <1>1, <2>1, BeatFacts DEF Extended, Lease
  <1>8. workspace' \in Lease(WorkspaceTTL)
    BY <1>1, <1>2, <1>7, BeatFacts
  <1>9. \A b \in Attempts : b # a /\ Claims(b) => workspace' = workspace
    BY <1>1, <1>2, ClaimExcludes, BeatFacts
  <1>10. AtWork(a) =>
            /\ Owns(a)'
            /\ objective'[MissionOf[a]].left >= TTL - Greater(Timeout, MaxLate) - SinceConfirmed(h)
    BY <1>1, <1>5, <1>6, BeatFacts, Numbers DEF Inv, LeaseLong, Owns
  <1>11. ASSUME AtWork(a)
         PROVE  /\ workspace'.token = a
                /\ workspace'.left >= WorkspaceTTL - MaxAge - n * Round
    <2>1. workspace.token = a /\ workspace.left > 0
      BY <1>1, <1>11, KeepsWorkspace DEF Claims
    <2>2. /\ Extended(a, beat[a].clk).token = a
          /\ Extended(a, beat[a].clk).left = WorkspaceTTL - beat[a].clk
      BY <1>1, <2>1, BeatFacts DEF Extended, Lease
    <2>3. n * Round \in Nat
      BY Misses
    <2>4. CASE workspace' = Extended(a, beat[a].clk)
      BY <1>1, <2>2, <2>3, <2>4, BeatFacts, Numbers
    <2>5. CASE n = beat[a].missed + 1 /\ workspace' = workspace
      <3>1. /\ workspace.left >= WorkspaceTTL - MaxAge - beat[a].missed * Round - SinceRound(beat[a])
            /\ SinceRound(beat[a]) \in 0 .. Round
        BY <1>1, <1>11, BeatFacts DEF Inv, ClaimLong
      <3>2. n * Round = beat[a].missed * Round + Round /\ beat[a].missed * Round \in Nat /\ Round \in Nat
        BY <1>1, <2>5, BeatFacts, Misses
      <3> QED  BY <2>1, <2>5, <3>1, <3>2, BeatFacts, Numbers, <1>1
    <2> QED  BY <1>2, <2>4, <2>5
  <1>12. AtWork(a) =>
            /\ workspace'.token = a
            /\ workspace'.left >= WorkspaceTTL - MaxAge - h.missed * Round - SinceRound(h)
    <2>1. n * Round \in Nat /\ workspace'.left \in Int
      BY <1>8, Misses, Numbers DEF Lease
    <2> QED  BY <1>3, <1>5, <1>11, <2>1, Numbers
  <1> QED  BY <1>1, <1>3, <1>4, <1>5, <1>8, <1>9, <1>10, <1>12, BeatFacts, BeatKeepsInv

----------------------------------------------------------------------------
(* Renewals given up, crashes, recovery, the clock.                         *)

LEMMA LateCommitKeepsInv ==
  ASSUME Inv, NEW a \in Attempts, LateCommit(a)
  PROVE  Inv'
  <1>1. PICK e \in late[a] : /\ Renewable(a, e) /\ objective' = Renewed(a, e)
                             /\ late' = [late EXCEPT ![a] = @ \ {e}]
    BY DEF LateCommit
  <1>2. /\ UNCHANGED <<workspace, run, beat>>
        /\ late \in [Attempts -> SUBSET (0 .. MaxLate)]
    BY DEF LateCommit, Inv, TypeOK
  <1>3. e \in Nat /\ e <= Greater(Timeout, MaxLate)
    BY <1>1, <1>2, Numbers
  <1>4. /\ objective' \in [Missions -> Lease(TTL)]
        /\ objective'[MissionOf[a]].token = a /\ objective'[MissionOf[a]].left \in Int
        /\ objective'[MissionOf[a]].left >= TTL - Greater(Timeout, MaxLate)
    BY <1>1, <1>3, RenewedLease
  <1>5. TypeOK'
    BY <1>1, <1>2, <1>4 DEF Inv, TypeOK
  <1>6. ASSUME NEW b \in Attempts
        PROVE  InTime(beat[b])' /\ Resting(b)' /\ LeaseLong(b)' /\ ClaimLong(b)'
    <2>1. b # a /\ AtWork(b) /\ Beating(b) => objective'[MissionOf[b]] = objective[MissionOf[b]]
      BY <1>1, <1>3, ObjectiveOfOthers
    <2>2. AtWork(b)' <=> AtWork(b)
      BY <1>2 DEF AtWork
    <2>3. LeaseLong(b)'
      BY <1>2, <1>4, <2>1, <2>2, LeaseStays
    <2>4. ClaimLong(b)'
      BY <1>2, <2>2, ClaimStays
    <2>5. InTime(beat[b])' /\ Resting(b)'
      BY <1>2 DEF Inv, Resting
    <2> QED  BY <2>3, <2>4, <2>5
  <1> QED  BY <1>5, <1>6 DEF Inv

LEMMA StopKeepsInv ==
  ASSUME Inv, NEW a \in Attempts, Stop(a)
  PROVE  Inv'
  <1>1. /\ UNCHANGED <<workspace, objective, late>>
        /\ run' = [run EXCEPT ![a] = At("releasing")] /\ run \in [Attempts -> RunType]
        /\ beat' = [beat EXCEPT ![a] = Off] /\ beat \in [Attempts -> BeatType]
    BY DEF Stop, Goto, Inv, TypeOK
  <1>2. At("releasing") \in RunType /\ At("releasing").pc = "releasing"
    BY AtType
  <1>3. TypeOK'
    BY <1>1, <1>2, OffType DEF Inv, TypeOK
  <1>4. ASSUME NEW b \in Attempts
        PROVE  InTime(beat[b])' /\ Resting(b)' /\ LeaseLong(b)' /\ ClaimLong(b)'
    <2>1. CASE b = a
      <3>1. ~AtWork(a)' /\ run'[a].pc # "leasing" /\ Resting(a)' /\ InTime(beat[a])'
        BY <1>1, <1>2, OffType DEF AtWork, Resting
      <3> QED  BY <2>1, <3>1, IdleHolds
    <2>2. CASE b # a
      <3>1. run'[b] = run[b] /\ beat'[b] = beat[b] /\ (AtWork(b)' <=> AtWork(b))
        BY <1>1, <2>2 DEF AtWork
      <3>2. InTime(beat[b])' /\ Resting(b)'
        BY <3>1 DEF Inv, Resting
      <3> QED  BY <1>1, <3>1, <3>2, LeaseStays, ClaimStays
    <2> QED  BY <2>1, <2>2
  <1> QED  BY <1>3, <1>4 DEF Inv

LEMMA CrashKeepsInv ==
  ASSUME Inv, NEW a \in Attempts, Crash(a)
  PROVE  Inv'
  <1>1. /\ objective' = objective /\ objective \in [Missions -> Lease(TTL)]
        /\ run' = [run EXCEPT ![a] = At("dead")] /\ run \in [Attempts -> RunType]
        /\ beat' = [beat EXCEPT ![a] = Off] /\ beat \in [Attempts -> BeatType]
        /\ late \in [Attempts -> SUBSET (0 .. MaxLate)] /\ workspace \in Lease(WorkspaceTTL)
        /\ beat[a].clk \in Nat /\ run[a].age \in 0 .. MaxAge
    BY DEF Crash, Goto, Inv, TypeOK, BeatType, RunType
  <1>2. At("dead") \in RunType /\ At("dead").pc = "dead"
    BY AtType
  <1>3. late' \in [Attempts -> SUBSET (0 .. MaxLate)]
    <2>1. {t \in {beat[a].clk} : t <= MaxLate} \subseteq 0 .. MaxLate
      BY <1>1, Numbers
    <2> QED  BY <1>1, <2>1 DEF Crash
  <1>4. workspace' \in {workspace} \cup
          (IF run[a].pc = "claiming" /\ Claimable(a, run[a].age) THEN {Claimed(a, run[a].age)} ELSE {})
    BY DEF Crash
  <1>5. workspace' \in Lease(WorkspaceTTL)
    BY <1>1, <1>4, ClaimedType
  <1>6. TypeOK'
    BY <1>1, <1>2, <1>3, <1>5, OffType DEF Inv, TypeOK
  <1>7. ASSUME NEW b \in Attempts
        PROVE  InTime(beat[b])' /\ Resting(b)' /\ LeaseLong(b)' /\ ClaimLong(b)'
    <2>1. CASE b = a
      <3>1. ~AtWork(a)' /\ run'[a].pc # "leasing" /\ Resting(a)' /\ InTime(beat[a])'
        BY <1>1, <1>2, OffType DEF AtWork, Resting
      <3> QED  BY <2>1, <3>1, IdleHolds
    <2>2. CASE b # a
      <3>1. run'[b] = run[b] /\ beat'[b] = beat[b] /\ (AtWork(b)' <=> AtWork(b))
        BY <1>1, <2>2 DEF AtWork
      <3>2. Claims(b) => workspace' = workspace
        BY <1>1, <1>4, <2>2, ClaimExcludes, Numbers
      <3>3. InTime(beat[b])' /\ Resting(b)'
        BY <3>1 DEF Inv, Resting
      <3> QED  BY <1>1, <3>1, <3>2, <3>3, LeaseStays, ClaimStays
    <2> QED  BY <2>1, <2>2
  <1> QED  BY <1>6, <1>7 DEF Inv

LEMMA HealKeepsInv ==
  ASSUME Inv, NEW m \in Missions, Heal(m)
  PROVE  Inv'
  <1>1. /\ UNCHANGED <<workspace, run, beat, late>> /\ objective' = [objective EXCEPT ![m] = Free]
        /\ objective[m].left <= 0 /\ objective \in [Missions -> Lease(TTL)]
        /\ objective[m].left \in Int
    BY Numbers DEF Heal, Expired, Inv, TypeOK, Lease
  <1>2. TypeOK'
    BY <1>1, FreeLease, Numbers DEF Inv, TypeOK
  <1>3. ASSUME NEW b \in Attempts
        PROVE  InTime(beat[b])' /\ Resting(b)' /\ LeaseLong(b)' /\ ClaimLong(b)'
    <2>1. AtWork(b) /\ Beating(b) => MissionOf[b] # m
      BY <1>1, KeepsLease
    <2>2. AtWork(b) /\ Beating(b) => objective'[MissionOf[b]] = objective[MissionOf[b]]
      BY <1>1, <2>1, LeaseAssumptions DEF LeaseAssumptions
    <2>3. AtWork(b)' <=> AtWork(b)
      BY <1>1 DEF AtWork
    <2>4. InTime(beat[b])' /\ Resting(b)'
      BY <1>1 DEF Inv, Resting
    <2> QED  BY <1>1, <2>2, <2>3, <2>4, LeaseStays, ClaimStays
  <1> QED  BY <1>2, <1>3 DEF Inv

LEMMA AgedLease ==
  ASSUME NEW n \in Nat, NEW l \in Lease(n)
  PROVE  /\ Aged(l) \in Lease(n) /\ Aged(l).token = l.token
         /\ Aged(l).left >= l.left - 1 /\ Aged(l).left \in Int /\ l.left \in Int
  <1>1. l.left \in -Greater(MaxLate, MaxAge) .. n /\ l.left \in Int
    BY Numbers DEF Lease
  <1>2. CASE l.token = NoAttempt \/ l.left = -Greater(MaxLate, MaxAge)
    BY <1>1, <1>2 DEF Aged
  <1>3. CASE l.token # NoAttempt /\ l.left # -Greater(MaxLate, MaxAge)
    <2>1. Aged(l) = [l EXCEPT !.left = @ - 1]
      BY <1>3 DEF Aged
    <2>2. l.left - 1 \in -Greater(MaxLate, MaxAge) .. n
      BY <1>1, <1>3, Numbers
    <2> QED  BY <1>1, <2>1, <2>2 DEF Lease
  <1> QED  BY <1>2, <1>3

\* One unit of time adds one to what has passed since, and no timer is missed.
LEMMA BeatAges ==
  ASSUME NEW h \in BeatType, InTime(h), h.st \in {"waiting", "renewing", "companion"},
         NEW g, g = [h EXCEPT !.clk = @ + 1, !.known = @ - 1],
         h.st = "waiting" => h.clk < Interval,
         h.st = "renewing" => h.clk < Timeout,
         h.st = "companion" => h.clk < MaxAge
  PROVE  /\ g \in BeatType /\ InTime(g) /\ g.missed = h.missed /\ g.st = h.st
         /\ SinceRound(g) = SinceRound(h) + 1
         /\ SinceConfirmed(g) = SinceConfirmed(h) + 1
  <1>1. /\ h.clk \in Nat /\ h.tries \in 0 .. MaxTries /\ h.known \in Int
        /\ g \in BeatType /\ g.st = h.st /\ g.clk = h.clk + 1 /\ g.tries = h.tries /\ g.missed = h.missed
    <2>1. h.clk \in Nat /\ h.tries \in 0 .. MaxTries /\ h.known \in Int
      BY DEF BeatType
    <2>2. h.clk + 1 \in Nat /\ h.known - 1 \in Int
      BY <2>1
    <2> DEFINE c == h.clk + 1
               k == h.known - 1
    <2>3. g = [h EXCEPT !.clk = c, !.known = k] /\ c \in Nat /\ k \in Int
      BY <2>2
    <2> HIDE DEF c, k
    <2>4. g \in BeatType /\ g.st = h.st /\ g.clk = c /\ g.tries = h.tries /\ g.missed = h.missed
      BY <2>3 DEF BeatType
    <2> QED  BY <2>1, <2>4 DEF c
  <1>2. InTime(g)
    BY <1>1, Numbers DEF InTime
  <1>3. CASE h.st = "waiting"
    BY <1>1, <1>2, <1>3, Numbers DEF SinceRound, SinceConfirmed
  <1>4. CASE h.st = "renewing"
    <2>1. (h.tries - 1) * Timeout \in Nat
      BY <1>4, Tries DEF InTime
    <2>2. SinceRound(h) = Interval + (h.tries - 1) * Timeout + h.clk
      BY <1>4 DEF SinceRound
    <2>3. SinceRound(g) = Interval + (h.tries - 1) * Timeout + (h.clk + 1)
      BY <1>1, <1>4 DEF SinceRound
    <2>4. SinceRound(g) = SinceRound(h) + 1 /\ SinceRound(h) \in Nat
      BY <1>1, <2>1, <2>2, <2>3, Numbers
    <2> QED  BY <1>1, <1>2, <1>4, <2>4, Numbers DEF SinceConfirmed
  <1>5. CASE h.st = "companion"
    <2>1. MaxTries * Timeout \in Nat
      BY Numbers
    <2> QED  BY <1>1, <1>2, <1>5, <2>1, Numbers DEF SinceRound, SinceConfirmed
  <1> QED  BY <1>3, <1>4, <1>5

LEMMA ClockKeepsInv ==
  ASSUME Inv, Clock
  PROVE  Inv'
  <1>1. /\ run \in [Attempts -> RunType] /\ beat \in [Attempts -> BeatType]
        /\ objective \in [Missions -> Lease(TTL)] /\ workspace \in Lease(WorkspaceTTL)
        /\ workspace' = Aged(workspace) /\ \A m \in Missions : objective'[m] = Aged(objective[m])
        /\ objective' = [m \in Missions |-> Aged(objective[m])]
        /\ \A a \in Attempts : MissionOf[a] \in Missions
    BY LeaseAssumptions DEF LeaseAssumptions, Clock, Inv, TypeOK
  <1>2. /\ workspace' \in Lease(WorkspaceTTL) /\ objective' \in [Missions -> Lease(TTL)]
        /\ workspace'.token = workspace.token /\ workspace'.left >= workspace.left - 1
        /\ workspace.left \in Int /\ workspace'.left \in Int
        /\ \A m \in Missions : /\ objective'[m].token = objective[m].token
                               /\ objective'[m].left >= objective[m].left - 1
                               /\ objective[m].left \in Int /\ objective'[m].left \in Int
    BY <1>1, AgedLease, Numbers
  <1>3. ASSUME NEW a \in Attempts
        PROVE  /\ run'[a] \in RunType /\ run'[a].pc = run[a].pc
               /\ run'[a].age <= run[a].age + 1
               /\ run'[a].age \in Int /\ run[a].age \in Int
               /\ run[a].pc = "leasing" => run'[a].age = run[a].age + 1
    <2>1. run'[a] = IF run[a].pc \in {"claiming", "leasing"} THEN [run[a] EXCEPT !.age = @ + 1] ELSE run[a]
      BY DEF Clock
    <2>2. run[a] \in RunType /\ run[a].age \in 0 .. MaxAge /\ run[a].age \in Int
      BY <1>1, Numbers DEF RunType
    <2>3. CASE run[a].pc \in {"claiming", "leasing"}
      <3>1. run[a].age < MaxAge
        BY <2>3 DEF Clock
      <3>2. run[a].age + 1 \in 0 .. MaxAge
        BY <2>2, <3>1, Numbers
      <3> DEFINE n == run[a].age + 1
      <3>3. run'[a] = [run[a] EXCEPT !.age = n] /\ n \in 0 .. MaxAge
        BY <2>1, <2>3, <3>2
      <3> HIDE DEF n
      <3>4. run'[a] \in RunType /\ run'[a].pc = run[a].pc /\ run'[a].age = n
        BY <2>2, <3>3 DEF RunType
      <3>5. n \in Int /\ n = run[a].age + 1
        BY <2>2 DEF n
      <3> QED  BY <2>2, <3>4, <3>5
    <2>4. CASE run[a].pc \notin {"claiming", "leasing"}
      BY <2>1, <2>2, <2>4
    <2> QED  BY <2>3, <2>4
  <1>4. ASSUME NEW a \in Attempts
        PROVE  /\ beat'[a] \in BeatType /\ InTime(beat'[a]) /\ beat'[a].st = beat[a].st
               /\ Beating(a) => /\ beat'[a].missed = beat[a].missed
                                /\ SinceRound(beat'[a]) = SinceRound(beat[a]) + 1
                                /\ SinceConfirmed(beat'[a]) = SinceConfirmed(beat[a]) + 1
    <2>1. beat[a] \in BeatType /\ InTime(beat[a])
      BY <1>1 DEF Inv
    <2>2. CASE beat[a].st \in {"off", "failed"}
      <3>1. beat'[a] = beat[a]
        BY <2>2 DEF Clock
      <3> QED  BY <2>1, <2>2, <3>1 DEF Beating
    <2>3. CASE beat[a].st \notin {"off", "failed"}
      <3>1. beat'[a] = [beat[a] EXCEPT !.clk = @ + 1, !.known = @ - 1]
        BY <2>3 DEF Clock
      <3>2. /\ beat[a].st = "waiting" => beat[a].clk < Interval
            /\ beat[a].st = "renewing" => beat[a].clk < Timeout
            /\ beat[a].st = "companion" => beat[a].clk < MaxAge
            /\ beat[a].st # "pausing"
        BY DEF Clock
      <3>3. beat[a].st \in {"waiting", "renewing", "companion"}
        BY <2>1, <2>3, <3>2 DEF BeatType
      <3> QED  BY <2>1, <3>1, <3>2, <3>3, BeatAges
    <2> QED  BY <2>2, <2>3
  <1>5. TypeOK'
    <2>1. run' \in [Attempts -> RunType]
      BY <1>3 DEF Clock
    <2>2. beat' \in [Attempts -> BeatType]
      BY <1>4 DEF Clock
    <2>3. late' \in [Attempts -> SUBSET (0 .. MaxLate)]
      BY DEF Clock
    <2> QED  BY <1>2, <2>1, <2>2, <2>3 DEF TypeOK
  <1>6. ASSUME NEW a \in Attempts
        PROVE  InTime(beat[a])' /\ Resting(a)' /\ LeaseLong(a)' /\ ClaimLong(a)'
    <2>1. (AtWork(a)' <=> AtWork(a)) /\ (Beating(a)' <=> Beating(a)) /\ Resting(a)'
      BY <1>3, <1>4 DEF AtWork, Beating, Resting, Inv
    <2>2. LeaseLong(a)'
      <3> SUFFICES ASSUME AtWork(a), Beating(a)
                   PROVE  /\ Owns(a)'
                          /\ objective'[MissionOf[a]].left
                                >= TTL - Greater(Timeout, MaxLate) - SinceConfirmed(beat'[a])
        BY <2>1 DEF LeaseLong
      <3>1. /\ Owns(a) /\ SinceConfirmed(beat[a]) \in Nat
            /\ objective[MissionOf[a]].left >= TTL - Greater(Timeout, MaxLate) - SinceConfirmed(beat[a])
        BY BeatFacts DEF Inv, LeaseLong
      <3>2. SinceConfirmed(beat'[a]) = SinceConfirmed(beat[a]) + 1
        BY <1>4
      <3> QED  BY <1>1, <1>2, <3>1, <3>2, Numbers DEF Owns
    <2>3. ClaimLong(a)'
      <3>1. Claims(a)' => Claims(a)
        BY <1>3, <2>1 DEF Claims
      <3>2. Claims(a)' => workspace'.token = a
        BY <1>2, <3>1 DEF Inv, ClaimLong
      <3>3. run'[a].pc = "leasing" => workspace'.left >= WorkspaceTTL - run'[a].age
        BY <1>2, <1>3, Numbers DEF Inv, ClaimLong
      <3>4. AtWork(a) /\ Beating(a) =>
              workspace'.left >= WorkspaceTTL - MaxAge - beat'[a].missed * Round - SinceRound(beat'[a])
        <4> SUFFICES ASSUME AtWork(a), Beating(a)
                     PROVE  workspace'.left >= WorkspaceTTL - MaxAge - beat'[a].missed * Round - SinceRound(beat'[a])
          OBVIOUS
        <4>1. /\ workspace.left >= WorkspaceTTL - MaxAge - beat[a].missed * Round - SinceRound(beat[a])
              /\ SinceRound(beat[a]) \in Int
          BY BeatFacts, Misses DEF Inv, ClaimLong
        <4>2. beat'[a].missed = beat[a].missed /\ SinceRound(beat'[a]) = SinceRound(beat[a]) + 1
          BY <1>4
        <4>3. beat[a].missed * Round \in Nat
          BY BeatFacts, Misses
        <4> QED  BY <1>2, <4>1, <4>2, <4>3, Numbers
      <3> QED  BY <2>1, <3>2, <3>3, <3>4 DEF ClaimLong
    <2> QED  BY <1>4, <2>1, <2>2, <2>3
  <1> QED  BY <1>5, <1>6 DEF Inv

----------------------------------------------------------------------------
(* Every step.                                                              *)

LEMMA NextKeepsInv ==
  ASSUME Inv, [Next]_vars
  PROVE  Inv'
  <1>1. ASSUME NEW a \in Attempts, RunStep(a)
        PROVE  Inv'
    <2>1. CASE Claim(a)
      BY <2>1, ClaimKeepsInv
    <2>2. CASE AcquireObjective(a)
      BY <2>2, AcquireObjectiveKeepsInv
    <2>3. CASE GateObjective(a) \/ GateWorkspace(a)
      BY <2>3, GatesKeepInv
    <2>4. CASE OperationEnds(a)
      BY <2>4, OperationEndsKeepsInv
    <2>5. CASE Stop(a)
      BY <2>5, StopKeepsInv
    <2>6. CASE Release(a)
      BY <2>6, ReleaseKeepsInv
    <2> QED  BY <1>1, <2>1, <2>2, <2>3, <2>4, <2>5, <2>6 DEF RunStep
  <1>2. ASSUME NEW a \in Attempts, BeatStep(a)
        PROVE  Inv'
    <2>1. CASE Tick(a)
      BY <2>1, TickKeepsInv
    <2>2. CASE RenewalSettles(a)
      BY <2>2, RenewalSettlesKeepsInv
    <2>3. CASE RenewalTimesOut(a)
      BY <2>3, RenewalTimesOutKeepsInv
    <2>4. CASE Resend(a)
      BY <2>4, ResendKeepsInv
    <2>5. CASE Companion(a)
      BY <2>5, CompanionKeepsInv
    <2> QED  BY <1>2, <2>1, <2>2, <2>3, <2>4, <2>5 DEF BeatStep
  <1>3. ASSUME NEW a \in Attempts, Start(a) \/ LateCommit(a) \/ Crash(a)
        PROVE  Inv'
    <2>1. CASE Start(a)
      BY <2>1, StartKeepsInv
    <2>2. CASE LateCommit(a)
      BY <2>2, LateCommitKeepsInv
    <2>3. CASE Crash(a)
      BY <2>3, CrashKeepsInv
    <2> QED  BY <1>3, <2>1, <2>2, <2>3
  <1>4. ASSUME NEW m \in Missions, Heal(m)
        PROVE  Inv'
    BY <1>4, HealKeepsInv
  <1>5. CASE Clock
    BY <1>5, ClockKeepsInv
  <1>6. CASE UNCHANGED vars
    BY <1>6 DEF vars, Inv, TypeOK, Resting, LeaseLong, ClaimLong, Claims, AtWork, Beating, Owns
  <1> QED  BY <1>1, <1>2, <1>3, <1>4, <1>5, <1>6 DEF Next

LEMMA InvHolds == Spec => []Inv
  BY InitInv, NextKeepsInv, PTL DEF Spec

----------------------------------------------------------------------------
(* The rows, the attempts and the heartbeats keep their types: in particular a  *)
(* renewal is never tried more often than its budget of tries allows.         *)
THEOREM TypeCorrect == Spec => []TypeOK
  <1>1. Inv => TypeOK
    BY DEF Inv
  <1> QED  BY <1>1, InvHolds, PTL

(* For every number of attempts and all times that leave a round of the          *)
(* heartbeat and a renewal given up room within the lease's TTL: an attempt       *)
(* whose heartbeat has not given up has its objective's lease, and it is live.   *)
THEOREM LeaseIsKept == Spec => []LeaseKept
  <1>1. Inv => LeaseKept
    BY KeepsLease DEF LeaseKept
  <1> QED  BY <1>1, InvHolds, PTL

(* Under the same assumption about the workspace's TTL, such an attempt also      *)
(* has the workspace row: no two attempts work in one workspace unless one has    *)
(* given its lease up.                                                        *)
THEOREM WorkspaceIsKept == Spec => []WorkspaceKept
  <1>1. Inv => WorkspaceKept
    BY KeepsWorkspace DEF WorkspaceKept, Claims
  <1> QED  BY <1>1, InvHolds, PTL
=============================================================================
