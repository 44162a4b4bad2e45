---------------------------- MODULE MCDistribution ----------------------------
\* Instances of Distribution for TLC.
EXTENDS Distribution

\* Two versions, so that one may be newer, older or rebuilt.
TwoVersions == 1..2
TwoContents == {"a", "b"}

OneTenant == {"tenant"}
AllOfOne  == [s \in Sensors |-> "tenant"]

Package(c, v, d) == <<c, [version |-> v, digest |-> d]>>

\* The first release of each kind.
FirstPackages ==
  {Package("software", 1, "a"), Package("tenant", 1, "a"), Package("threatintel", 1, "a")}

\* Software that is rebuilt or new, rules that are new.
FewPackages ==
  FirstPackages \cup
  {Package("software", 1, "b"), Package("software", 2, "a"), Package("tenant", 2, "b")}
===============================================================================
