------------------------------ MODULE Connectivity ------------------------------
(***************************************************************************)
(* The connectivity indicator of a sensor: DeviceLiveness                  *)
(* (src/common/liveness.go) of version.updated_at, which every poll that   *)
(* reaches the server sets, against the loop of the updater                *)
(* (src/updater/main.go).                                                  *)
(*                                                                         *)
(* The next poll is PollInterval minutes after the last one has RETURNED:  *)
(* time.After is called again when CheckUpdates is over, downloads and     *)
(* installation included.  So the rows of a healthy sensor are further     *)
(* apart than the interval, by as much as two polls take.                  *)
(*                                                                         *)
(* Time is in minutes and the same for the server and the sensors; only    *)
(* its differences matter.  A poll may write its row at any time while it  *)
(* lasts, and after it: the handler of a request whose client has given up *)
(* or was stopped goes on, for as long as its statements take.             *)
(***************************************************************************)
EXTENDS Integers

CONSTANTS
  Sensors,       \* sensors of a tenant
  PollInterval,  \* poll_interval_mins
  MaxWork,       \* minutes CheckUpdates may take: its six requests, each under
                 \* api_server_timeout, and the installations
  MaxFaults      \* bound on polls that miss the server and on stops of an updater

ASSUME TimeAssumption  == PollInterval \in Nat \ {0} /\ MaxWork \in Nat
ASSUME FaultAssumption == MaxFaults \in Nat

\* The thresholds of DeviceLiveness, in minutes.
Green  == 20
Yellow == 30

VARIABLES
  mode,    \* the updater of each sensor is down, waits, polls, or has polled:
           \* its row is written and CheckUpdates not over
  timer,   \* minutes since the updater is in this mode, a poll being one mode;
           \* when it is down, since no request of it is in flight, up to Green
  late,    \* requests for the manifest in flight that nobody waits for
  seen,    \* there is a row of the sensor in version
  age,     \* minutes since its updated_at, up to Yellow
  missed,  \* polls since the updater wrote the row that did not write it in time
  steady,  \* the updater has written the row, in time, since it was started
  budget

vars == <<mode, timer, late, seen, age, missed, steady, budget>>

Init ==
  /\ mode = [s \in Sensors |-> "down"] /\ timer = [s \in Sensors |-> 0]
  /\ late = [s \in Sensors |-> 0]
  /\ seen = [s \in Sensors |-> FALSE]  /\ age = [s \in Sensors |-> 0]
  /\ missed = [s \in Sensors |-> 0]    /\ steady = [s \in Sensors |-> FALSE]
  /\ budget = MaxFaults

(***************************************************************************)
(* The indicator                                                           *)
(***************************************************************************)

\* Mutants: the row of a sensor is expected after one interval; a sensor that is
\* not in version counts as seen just now.
DeviceLivenessHasty(s) ==
  IF ~seen[s] THEN "red"
  ELSE IF age[s] < 10 THEN "green" ELSE IF age[s] < Green THEN "yellow" ELSE "red"
DeviceLivenessZero(s) ==
  IF age[s] < Green THEN "green" ELSE IF age[s] < Yellow THEN "yellow" ELSE "red"

\* Mutant: a row is green up to and at the first threshold.
DeviceLivenessLate(s) ==
  IF ~seen[s] THEN "red"
  ELSE IF age[s] <= Green THEN "green" ELSE IF age[s] < Yellow THEN "yellow" ELSE "red"

\* What handleListStatus shows.
DeviceLiveness(s) ==
  IF ~seen[s] THEN "red"
  ELSE IF age[s] < Green THEN "green" ELSE IF age[s] < Yellow THEN "yellow" ELSE "red"

(***************************************************************************)
(* The loop of the updater                                                 *)
(***************************************************************************)

Polling(s) == mode[s] \in {"polling", "polled"}

Enter(s, m) ==
  /\ mode' = [mode EXCEPT ![s] = m]
  /\ timer' = [timer EXCEPT ![s] = 0]

\* supervisord starts the updater (autostart, autorestart); main polls at once.
Start(s) ==
  /\ mode[s] = "down"
  /\ Enter(s, "polling")
  /\ missed' = [missed EXCEPT ![s] = 0]
  /\ UNCHANGED <<late, seen, age, steady, budget>>

\* Mutant: the loop ends with a poll that is missed.
PollOnce(s) ==
  /\ mode[s] = "waiting" /\ timer[s] = PollInterval /\ missed[s] = 0
  /\ Enter(s, "polling")
  /\ UNCHANGED <<late, seen, age, missed, steady, budget>>

\* time.After fires.
Poll(s) ==
  /\ mode[s] = "waiting" /\ timer[s] = PollInterval
  /\ Enter(s, "polling")
  /\ UNCHANGED <<late, seen, age, missed, steady, budget>>

\* InsertVersions: updated_at = CURRENT_TIMESTAMP, in a new row or in the old.
Record(s) ==
  /\ mode[s] = "polling"
  /\ mode' = [mode EXCEPT ![s] = "polled"]
  /\ seen' = [seen EXCEPT ![s] = TRUE]
  /\ age' = [age EXCEPT ![s] = 0]
  /\ missed' = [missed EXCEPT ![s] = 0]
  /\ steady' = [steady EXCEPT ![s] = TRUE]
  /\ UNCHANGED <<timer, late, budget>>

\* The request for the manifest may be under way when the poll ends.
Abandon(s) == \E n \in {0, 1} : late' = [late EXCEPT ![s] = @ + n]

\* CheckUpdates returns without its row: the server cannot be reached in time,
\* refuses the key or fails at a statement, or hndr-config.json does not decode.
Miss(s) ==
  /\ mode[s] = "polling" /\ budget > 0
  /\ budget' = budget - 1
  /\ Enter(s, "waiting")
  /\ missed' = [missed EXCEPT ![s] = @ + 1]
  /\ Abandon(s)
  /\ UNCHANGED <<seen, age, steady>>

\* A handler whose client is gone writes the row after all, or fails.
RecordLate(s) ==
  /\ late[s] > 0
  /\ late' = [late EXCEPT ![s] = @ - 1]
  /\ \/ seen' = [seen EXCEPT ![s] = TRUE] /\ age' = [age EXCEPT ![s] = 0]
     \/ UNCHANGED <<seen, age>>
  /\ UNCHANGED <<mode, timer, missed, steady, budget>>

\* CheckUpdates is over.
Return(s) ==
  /\ mode[s] = "polled"
  /\ Enter(s, "waiting")
  /\ UNCHANGED <<late, seen, age, missed, steady, budget>>

\* The updater exits, or the sensor goes down.
Stop(s) ==
  /\ mode[s] # "down" /\ budget > 0
  /\ budget' = budget - 1
  /\ Enter(s, "down")
  /\ steady' = [steady EXCEPT ![s] = FALSE]
  /\ IF mode[s] = "polling" THEN Abandon(s) ELSE UNCHANGED late
  /\ UNCHANGED <<seen, age, missed>>

\* Mutant: time.After fires late.
InTimeLate(s) == mode[s] = "waiting" => timer[s] <= PollInterval

\* A timer does not fire late, and a poll does not take longer than it may.
InTime(s) ==
  /\ mode[s] = "waiting" => timer[s] < PollInterval
  /\ Polling(s) => timer[s] < MaxWork

\* A minute passes.
Tick ==
  /\ \A s \in Sensors : InTime(s)
  /\ timer' = [s \in Sensors |->
                  IF mode[s] = "down" /\ (late[s] > 0 \/ timer[s] = Green)
                    THEN timer[s] ELSE timer[s] + 1]
  /\ age' = [s \in Sensors |-> IF seen[s] /\ age[s] < Yellow THEN age[s] + 1 ELSE age[s]]
  /\ UNCHANGED <<mode, late, seen, missed, steady, budget>>

(***************************************************************************)
(* Specification                                                           *)
(***************************************************************************)

CheckUpdates(s) == Poll(s) \/ Record(s) \/ Miss(s) \/ Return(s)

Next ==
  \/ \E s \in Sensors : Start(s) \/ CheckUpdates(s) \/ RecordLate(s) \/ Stop(s)
  \/ Tick

Spec == Init /\ [][Next]_vars

\* Time passes, and an updater that runs goes round its loop.  Nothing starts one
\* that is down, and a handler nobody waits for may hang.
FairSpec ==
  /\ Spec
  /\ WF_vars(Tick)
  /\ \A s \in Sensors : WF_vars(CheckUpdates(s))

(***************************************************************************)
(* Properties                                                              *)
(***************************************************************************)

\* The types; no timer runs past what it waits for.
TypeOK ==
  /\ mode \in [Sensors -> {"down", "waiting", "polling", "polled"}]
  /\ timer \in [Sensors -> Nat] /\ age \in [Sensors -> 0..Yellow]
  /\ seen \in [Sensors -> BOOLEAN] /\ steady \in [Sensors -> BOOLEAN]
  /\ late \in [Sensors -> Nat] /\ missed \in [Sensors -> Nat] /\ budget \in Nat
  /\ \A s \in Sensors :
       /\ mode[s] = "waiting" => timer[s] <= PollInterval
       /\ Polling(s) => timer[s] <= MaxWork
       /\ mode[s] = "down" => timer[s] <= Green
       /\ steady[s] => seen[s] /\ mode[s] # "down"

\* A sensor that runs and has missed no poll is green: two intervals are enough
\* for the time the polls take (common/liveness.go:7).
NominalIsGreen ==
  \A s \in Sensors : steady[s] /\ missed[s] = 0 => DeviceLiveness(s) = "green"

\* One missed poll does not make a sensor red (common/liveness.go:8).
OneMissIsNotRed ==
  \A s \in Sensors : steady[s] /\ missed[s] <= 1 => DeviceLiveness(s) # "red"

\* A sensor that is down is no longer shown as nominal once the updater, and the
\* last handler that could write its row, are gone for as long as the first
\* threshold, whatever it did before and however often it went down
\* (common/liveness.go:7, InsertVersions in apis/dbutil.go).
DownIsNotGreen ==
  \A s \in Sensors : mode[s] = "down" /\ timer[s] >= Green => DeviceLiveness(s) # "green"

\* A sensor that stays down turns red and stays so, also one that never polled.
DownTurnsRed ==
  \A s \in Sensors : <>[](mode[s] = "down") => <>[](DeviceLiveness(s) = "red")

\* A sensor that stays up turns green and stays so when polls are no longer missed.
UpTurnsGreen ==
  \A s \in Sensors : <>[](mode[s] # "down") => <>[](DeviceLiveness(s) = "green")

\* How old the row of a running updater can be: for each poll missed an interval
\* and the time of a poll, beside those of a sensor that missed none.
Period == PollInterval + MaxWork
AgeBounded(s) ==
  steady[s] =>
    age[s] <= missed[s] * Period +
      CASE mode[s] = "polled"  -> timer[s]
        [] mode[s] = "waiting" -> timer[s] + MaxWork
        [] mode[s] = "polling" -> timer[s] + Period

IInv == TypeOK /\ \A s \in Sensors : AgeBounded(s)

\* How young the row of an updater that is down can be.
DownAged ==
  \A s \in Sensors : mode[s] = "down" =>
    /\ late[s] > 0 => timer[s] = 0
    /\ seen[s] => timer[s] <= age[s]
===============================================================================
