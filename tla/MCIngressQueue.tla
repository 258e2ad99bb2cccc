---------------------------- MODULE MCIngressQueue ----------------------------
(* Instances of IngressQueue for TLC. *)
EXTENDS IngressQueue, TLC

CONSTANTS c1, c2, c3, r1, r2, s1, s2, tick, operator

\* One lane that two records share.
MCOneLaneOf == [r \in Records |-> s1]
MCOneLaneOrder == <<s1>>
MCOneCapacity == [s \in Sources |-> 1]
MCPairCapacity == [s \in Sources |-> 2]

\* Two lanes: r1 in the first, the others in the second.
MCTwoLaneOf == [r \in Records |-> IF r = r1 THEN s1 ELSE s2]
MCTwoLaneOrder == <<s1, s2>>

\* Callers are interchangeable, and so are the records of one lane.
MCSymmetry == Permutations(Callers) \cup Permutations(Records)
MCCallerSymmetry == Permutations(Callers)
===============================================================================
