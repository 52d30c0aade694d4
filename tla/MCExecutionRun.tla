--------------------------- MODULE MCExecutionRun ---------------------------
EXTENDS ExecutionRun, TLC

Fact(c, i) == [candidate |-> c, irreversible |-> i]
Automatic  == Fact("automatable", FALSE)
Guarded    == Fact("automatable", TRUE)
Missing    == Fact("unconfigured", FALSE)
Manual     == Fact("manual", FALSE)
Void       == Fact("none", FALSE)

\* Every order of three different kinds of step, and plans that repeat a kind.
MCPlans == { p \in [Steps -> {Automatic, Guarded, Missing, Manual}] :
                \A s, r \in Steps : p[s] = p[r] => s = r }
           \cup { <<Automatic, Guarded, Guarded>>, <<Guarded, Guarded, Automatic>>,
                  <<Void, Automatic, Guarded>>, <<Automatic, Fact("unsupported", FALSE), Manual>> }

\* An irreversible step whose provider is not configured.
MCIrreversible == { <<Automatic, Fact("unconfigured", TRUE), Guarded>> }
=============================================================================
