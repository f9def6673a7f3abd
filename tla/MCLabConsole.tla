---------------------------- MODULE MCLabConsole ----------------------------
(* LabConsole for TLC: two projects, two agents of the same image. *)
EXTENDS LabConsole, TLC

CONSTANTS p1, p2, g1, g2, i1, k1, k2

MCTargetIds == (Projects \X TargetTypes) \union (Agents \X {"agent"})
MCUrls == Ports \union {External, AgentUrl}
MCImage == [a \in {g1, g2} |-> i1]

LabSymmetry == Permutations(Projects) \union Permutations(Providers)
=============================================================================
