----------------------------- MODULE MCConnectivity -----------------------------
\* Instances of Connectivity for TLC.
EXTENDS Connectivity

\* poll_interval_mins of config/provisioner/updater-config-template.json, and
\* the longest polls with which one that is missed is not red.
TenMinutes   == 10
ThreeMinutes == 3
===============================================================================
