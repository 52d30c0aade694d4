------------------------- MODULE MCMissionExecution -------------------------
EXTENDS MissionExecution, TLC
Independent == [o \in Objectives |-> {}]
Chain       == [o \in Objectives |-> { p \in Objectives : p < o }]
Symmetry    == Permutations(Workers)
MCTokens    == Workers \X {1, 2, 3}
MCTokensOf  == [w \in Workers |-> {w} \X {1, 2, 3}]
=============================================================================
