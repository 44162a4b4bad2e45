------------------------------ MODULE MCRegistry ------------------------------
\* Instances of Registry for TLC.
EXTENDS Registry, TLC

\* Two environments with blocks of two ids.
First == [e \in Environments |-> IF e = "staging" THEN 1 ELSE 3]
Last  == [e \in Environments |-> IF e = "staging" THEN 2 ELSE 4]

\* Runs, device ids and keys are only compared.
Symmetry == Permutations(Runs) \cup Permutations(TenantNames)
  \cup Permutations(DeviceIds) \cup Permutations(ApiKeys)
===============================================================================
