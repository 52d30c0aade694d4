------------------------ MODULE MCWorkspaceExecution ------------------------
EXTENDS WorkspaceExecution
CONSTANTS a1, a2, m1, m2
MCMissionOf == [a \in Attempts |-> IF a = a1 THEN m1 ELSE m2]
=============================================================================
