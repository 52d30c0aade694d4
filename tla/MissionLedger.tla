--------------------------- MODULE MissionLedger ---------------------------
(***************************************************************************)
(* What a mission promises whoever watches it, without leases, clocks,      *)
(* copies or conditional writes: a ledger of objectives, each open, held by *)
(* one acquisition, or settled for good, in a mission that is active or has *)
(* ended for good.                                                         *)
(***************************************************************************)
EXTENDS FiniteSets

CONSTANTS Objectives, Tokens, NoToken

Verdicts == {"VERIFIED", "FAILED", "SKIPPED"}
Outcomes == {"COMPLETED", "FAILED", "CANCELLED"}

VARIABLES
    phase,     \* "active" or how the mission ended
    stage,     \* stage[o]: "open", "held" or a verdict
    holder     \* holder[o]: the acquisition that holds o

lvars == <<phase, stage, holder>>

LedgerInit ==
    /\ phase  = "active"
    /\ stage  = [o \in Objectives |-> "open"]
    /\ holder = [o \in Objectives |-> NoToken]

\* An open objective is taken by an acquisition that holds nothing else.
Take(o, t) ==
    /\ stage[o] = "open"
    /\ \A p \in Objectives : holder[p] # t
    /\ stage'  = [stage EXCEPT ![o] = "held"]
    /\ holder' = [holder EXCEPT ![o] = t]

\* The holder settles its objective, or lets it go (or it is taken back).
LetGo(o, s) ==
    /\ stage[o] = "held"
    /\ stage'  = [stage EXCEPT ![o] = s]
    /\ holder' = [holder EXCEPT ![o] = NoToken]

\* Open objectives turn out to be unnecessary.
Drop(S) ==
    /\ \A o \in S : stage[o] = "open"
    /\ stage' = [o \in Objectives |-> IF o \in S THEN "SKIPPED" ELSE stage[o]]
    /\ UNCHANGED holder

\* COMPLETED is an honest outcome: nothing is left, and failures alone are no success.
End(outcome) ==
    /\ outcome = "COMPLETED" =>
         /\ \A o \in Objectives : stage[o] \in Verdicts
         /\ (\E o \in Objectives : stage[o] = "FAILED") =>
              \E o \in Objectives : stage[o] = "VERIFIED"
    /\ phase' = outcome
    /\ UNCHANGED <<stage, holder>>

LedgerNext ==
    /\ phase = "active"
    /\ \/ /\ \/ \E o \in Objectives, t \in Tokens : Take(o, t)
             \/ \E o \in Objectives, s \in {"open", "VERIFIED", "FAILED"} : LetGo(o, s)
             \/ \E S \in SUBSET Objectives : Drop(S)
          /\ UNCHANGED phase
       \/ \E outcome \in Outcomes : End(outcome)

LedgerSpec == LedgerInit /\ [][LedgerNext]_lvars
=============================================================================
