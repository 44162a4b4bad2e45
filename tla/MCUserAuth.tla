------------------------------ MODULE MCUserAuth ------------------------------
\* Instances of UserAuth for TLC.
EXTENDS UserAuth

\* lockoutThreshold as the code has it, and the smallest threshold that still
\* tells a failure that is counted from one that locks.
CodeThreshold == 3
TwoFailures   == 2
===============================================================================
