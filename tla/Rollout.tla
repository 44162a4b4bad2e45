-------------------------------- MODULE Rollout --------------------------------
(***************************************************************************)
(* What the distribution of packages promises: of each kind of package, a  *)
(* sensor holds nothing, or a release (a version and the content published *)
(* under it) announced on the channel it follows for that kind, and it     *)
(* never goes back to an older version.  Distribution is shown to          *)
(* implement it.                                                           *)
(***************************************************************************)
EXTENDS Integers

CONSTANTS
  Sensors,   \* the sensors of the installation
  Kinds,     \* the kinds of packages
  Channels,  \* where packages are announced
  Feed,      \* the channel each sensor follows for each kind
  Versions,  \* version numbers: naturals above 0, in their order
  Contents,  \* contents of a package
  Empty      \* no content: not among Contents

VARIABLES
  announced,  \* the releases announced so far, by channel
  holds       \* what each sensor holds, by kind

Nothing  == [version |-> 0, digest |-> Empty]
Releases == [version : Versions, digest : Contents]

\* Some releases may be older than the behaviour.
RolloutInit ==
  /\ announced \in [Channels -> SUBSET Releases]
  /\ holds = [s \in Sensors |-> [k \in Kinds |-> Nothing]]

Announce(c, r) ==
  /\ announced' = [announced EXCEPT ![c] = @ \cup {r}]
  /\ UNCHANGED holds

\* A newer version, or the same one with another content.
Install(s, k, r) ==
  /\ r \in announced[Feed[s][k]]
  /\ r.version >= holds[s][k].version
  /\ holds' = [holds EXCEPT ![s][k] = r]
  /\ UNCHANGED announced

RolloutNext ==
  \/ \E c \in Channels, r \in Releases : Announce(c, r)
  \/ \E s \in Sensors, k \in Kinds, r \in Releases : Install(s, k, r)

RolloutSpec == RolloutInit /\ [][RolloutNext]_<<announced, holds>>
===============================================================================
