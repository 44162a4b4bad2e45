------------------------------ MODULE MCUpdater ------------------------------
\* Instances of Updater for TLC.
EXTENDS Updater

\* Three software releases after the bundled one go through both folders and
\* back; two of rules tell old rules from new; threat intelligence, which is
\* never installed, needs one.
Releases      == [k \in Kinds |-> CASE k = "sw" -> 3 [] k = "rules" -> 2 [] k = "ti" -> 1]
\* Enough for a switch, and an update on top of another.
FewerReleases == [k \in Kinds |-> CASE k = "sw" -> 2 [] k = "rules" -> 2 [] k = "ti" -> 1]
OneRelease    == [k \in Kinds |-> 1]
=============================================================================
