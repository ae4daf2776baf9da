---------------------------- MODULE MCRegistryStore ----------------------------
EXTENDS RegistryStore

CONSTANTS p1, p2, p3, a, b, n

\* Two spellings of one team
MCLower == [name \in Names |-> "ops"]

\* a and b are absolute; n is the relative path "2", of the file a.
MCAnchor == [path \in Paths |-> IF path = n THEN a ELSE path]
MCNumber == [path \in Paths |-> IF path = n THEN 2 ELSE Absent]

MCProcSymmetry == Permutations(Procs)
================================================================================
