------------------------------ MODULE MCReporting ------------------------------
\* Instances of Reporting for TLC.
EXTENDS Reporting

\* One release of each kind, so that there is a manifest.
OneRelease == [k \in Kinds |-> 1]
===============================================================================
