------------------------------ MODULE MCConsole ------------------------------
(* Console for TLC: one high finding without a score and one of a severity *)
(* the console does not know, two scans, an agent's target and another one.    *)
EXTENDS Console

CONSTANTS f1, f2, t1, t2, n1, c1, c2, c3

MCRaw == [f \in Findings |->
            IF f = f2 THEN [severity |-> "unheard of", score |-> Score(9950)]
            ELSE [severity |-> "high", score |-> NoScore]]
MCUrls == {Scaffold} \union ({"typed", "docker", "alias", "old"} \X TargetIds)


SlotSymmetry == Permutations(Slots)
==============================================================================
