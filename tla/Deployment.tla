------------------------------ MODULE Deployment ------------------------------
(***************************************************************************)
(* What the updater of a sensor promises of the IDS software: an update    *)
(* switches from the software in use to a later release in one step and    *)
(* then records it, however many calls that takes, and never goes back.    *)
(* The two ways to fail for good are named: the sensor loses the software  *)
(* in use, or the record, and switches to nothing afterwards.  Updater is  *)
(* shown to implement it.                                                  *)
(***************************************************************************)
EXTENDS Naturals

CONSTANT
  Lost        \* stands for software, or a record, that is lost: not a release

VARIABLES
  published,  \* the releases published so far: 1..published
  active,     \* the release in use, or Lost
  recorded    \* the release the sensor says it has, or Lost

\* The installer lays down release 0.
DeploymentInit == published = 0 /\ active = 0 /\ recorded = 0

Publish ==
  /\ published' = published + 1
  /\ UNCHANGED <<active, recorded>>

\* Only a release later than the recorded one is offered; it may be in use
\* already, when the last update ended before it was recorded.
Switch(r) ==
  /\ active # Lost /\ recorded # Lost
  /\ r > recorded /\ r >= active
  /\ active' = r
  /\ UNCHANGED <<published, recorded>>

\* Nothing but the release in use is recorded.
Record ==
  /\ active # Lost /\ recorded # Lost
  /\ recorded' = active
  /\ UNCHANGED <<published, active>>

LoseSoftware ==
  /\ active # Lost /\ active' = Lost
  /\ UNCHANGED <<published, recorded>>

LoseRecord ==
  /\ recorded # Lost /\ recorded' = Lost
  /\ UNCHANGED <<published, active>>

DeploymentNext ==
  \/ Publish \/ Record \/ LoseSoftware \/ LoseRecord
  \/ \E r \in 1..published : Switch(r)

DeploymentSpec ==
  DeploymentInit /\ [][DeploymentNext]_<<published, active, recorded>>
===============================================================================
