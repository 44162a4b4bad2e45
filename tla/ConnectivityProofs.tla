-------------------------- MODULE ConnectivityProofs --------------------------
(***************************************************************************)
(* Theorems about the connectivity indicator, for any sensors, any poll    *)
(* interval and any time that a poll takes.                                *)
(***************************************************************************)
EXTENDS Connectivity, TLAPS

\* A polling period is a number of minutes, and so are several of them.
LEMMA PeriodType ==
  /\ PollInterval \in Nat /\ MaxWork \in Nat /\ Period \in Nat
  /\ \A m \in Nat : m * Period \in Nat
BY TimeAssumption DEF Period

\* What a further missed poll adds.
LEMMA OneMore == \A m \in Nat : (m + 1) * Period = m * Period + Period
BY PeriodType

LEMMA NoneMissed == 0 * Period = 0
BY PeriodType

\* Nothing is recorded at first.
LEMMA InitIInv == Init => IInv
BY FaultAssumption DEF Init, IInv, TypeOK, AgeBounded, Polling, Green, Yellow

\* The next mode of a sensor and its timer; the other sensors keep theirs.
LEMMA EnterType ==
  ASSUME TypeOK, NEW s \in Sensors,
         NEW m \in {"down", "waiting", "polling", "polled"}, Enter(s, m)
  PROVE  /\ mode' \in [Sensors -> {"down", "waiting", "polling", "polled"}]
         /\ timer' \in [Sensors -> Nat]
         /\ mode'[s] = m /\ timer'[s] = 0
         /\ \A r \in Sensors \ {s} : mode'[r] = mode[r] /\ timer'[r] = timer[r]
BY DEF TypeOK, Enter

\* Entering a mode keeps every timer within what it waits for.
LEMMA EnterTimers ==
  ASSUME TypeOK, NEW s \in Sensors,
         NEW m \in {"down", "waiting", "polling", "polled"}, Enter(s, m),
         NEW r \in Sensors
  PROVE  /\ mode'[r] = "waiting" => timer'[r] <= PollInterval
         /\ Polling(r)' => timer'[r] <= MaxWork
         /\ mode'[r] = "down" => timer'[r] <= Green
<1>1. CASE r = s
  BY <1>1, EnterType, TimeAssumption DEF Polling, Green
<1>2. CASE r # s
  BY <1>2, EnterType DEF TypeOK, Polling
<1>3. QED
  BY <1>1, <1>2

\* However a poll ends, the requests in flight are a number.
LEMMA AbandonType ==
  ASSUME TypeOK, NEW s \in Sensors, Abandon(s)
  PROVE  late' \in [Sensors -> Nat]
BY DEF TypeOK, Abandon

\* What a step that concerns another sensor leaves alone, it leaves bounded.
LEMMA OthersBounded ==
  ASSUME NEW r \in Sensors, AgeBounded(r),
         mode'[r] = mode[r], timer'[r] = timer[r], age'[r] = age[r],
         missed'[r] = missed[r], steady'[r] = steady[r]
  PROVE  AgeBounded(r)'
BY DEF AgeBounded, Period

\* supervisord starts the updater: what it wrote before it stopped does not count.
LEMMA StartIInv ==
  ASSUME IInv, NEW s \in Sensors, Start(s)
  PROVE  IInv'
<1>1. Enter(s, "polling") /\ ~steady[s]
  BY DEF IInv, TypeOK, Start
<1>2. TypeOK'
  BY <1>1, EnterType, TimeAssumption DEF IInv, TypeOK, Start, Polling
<1>3. ASSUME NEW r \in Sensors PROVE AgeBounded(r)'
  <2>1. CASE r = s
    BY <1>1, <2>1 DEF Start, AgeBounded
  <2>2. CASE r # s
    BY <1>1, <2>2, EnterType, OthersBounded DEF IInv, TypeOK, Start
  <2>3. QED
    BY <2>1, <2>2
<1>4. QED
  BY <1>2, <1>3 DEF IInv

\* The timer fires when the wait is over: an interval has passed since the poll
\* before returned.
LEMMA PollIInv ==
  ASSUME IInv, NEW s \in Sensors, Poll(s)
  PROVE  IInv'
<1>1. Enter(s, "polling") /\ mode[s] = "waiting" /\ timer[s] = PollInterval
  BY DEF Poll
<1>2. TypeOK'
  BY <1>1, EnterType, TimeAssumption DEF IInv, TypeOK, Poll, Polling
<1>3. ASSUME NEW r \in Sensors PROVE AgeBounded(r)'
  <2>1. CASE r = s
    <3>1. steady[s] => age[s] <= missed[s] * Period + (PollInterval + MaxWork)
      BY <1>1 DEF IInv, AgeBounded
    <3>2. mode'[s] = "polling" /\ timer'[s] = 0
      BY <1>1, EnterType DEF IInv
    <3>3. missed' = missed /\ age' = age /\ steady' = steady /\ missed[s] \in Nat
      BY DEF Poll, IInv, TypeOK
    <3>4. steady'[s] => age'[s] <= missed'[s] * Period + (timer'[s] + Period)
      BY <3>1, <3>2, <3>3, PeriodType DEF Period
    <3>5. QED
      BY <2>1, <3>2, <3>4 DEF AgeBounded, Period
  <2>2. CASE r # s
    BY <1>1, <2>2, EnterType, OthersBounded DEF IInv, Poll
  <2>3. QED
    BY <2>1, <2>2
<1>4. QED
  BY <1>2, <1>3 DEF IInv

\* The row is new.
LEMMA RecordIInv ==
  ASSUME IInv, NEW s \in Sensors, Record(s)
  PROVE  IInv'
<1>1. TypeOK'
  BY DEF IInv, TypeOK, Record, Polling, Yellow
<1>2. ASSUME NEW r \in Sensors PROVE AgeBounded(r)'
  <2>1. CASE r = s
    <3>1. /\ mode'[s] = "polled" /\ age'[s] = 0 /\ missed'[s] = 0
          /\ timer'[s] = timer[s] /\ timer[s] \in Nat
      BY DEF IInv, TypeOK, Record
    <3>2. age'[s] <= missed'[s] * Period + timer'[s]
      BY <3>1, NoneMissed
    <3>3. QED
      BY <2>1, <3>1, <3>2 DEF AgeBounded, Period
  <2>2. CASE r # s
    BY <2>2, OthersBounded DEF IInv, TypeOK, Record
  <2>3. QED
    BY <2>1, <2>2
<1>3. QED
  BY <1>1, <1>2 DEF IInv

\* A poll that misses the server has taken at most MaxWork minutes, and is one
\* more.
LEMMA MissIInv ==
  ASSUME IInv, NEW s \in Sensors, Miss(s)
  PROVE  IInv'
<1>1. Enter(s, "waiting") /\ mode[s] = "polling"
  BY DEF Miss
<1>2. TypeOK'
  <2>1. late' \in [Sensors -> Nat]
    BY AbandonType DEF IInv, Miss
  <2>2. missed' \in [Sensors -> Nat] /\ budget' \in Nat
    BY DEF IInv, TypeOK, Miss
  <2>3. \A r \in Sensors : steady'[r] => seen'[r] /\ mode'[r] # "down"
    BY <1>1, EnterType DEF IInv, TypeOK, Miss
  <2>4. QED
    BY <1>1, <2>1, <2>2, <2>3, EnterType, EnterTimers DEF IInv, TypeOK, Miss
<1>3. ASSUME NEW r \in Sensors PROVE AgeBounded(r)'
  <2>1. CASE r = s
    <3>1. steady[s] => age[s] <= missed[s] * Period + (timer[s] + Period)
      BY <1>1 DEF IInv, AgeBounded
    <3>2. mode'[s] = "waiting" /\ timer'[s] = 0
      BY <1>1, EnterType DEF IInv
    <3>3. /\ missed'[s] = missed[s] + 1 /\ age' = age /\ steady' = steady
          /\ missed[s] \in Nat /\ timer[s] \in Nat /\ timer[s] <= MaxWork
          /\ age[s] \in Nat
      BY <1>1 DEF Miss, IInv, TypeOK, Polling, Yellow
    <3>4. missed'[s] * Period = missed[s] * Period + Period
      BY <3>3, OneMore
    <3>5. steady'[s] => age'[s] <= missed'[s] * Period + (timer'[s] + MaxWork)
      BY <3>1, <3>2, <3>3, <3>4, PeriodType
    <3>6. QED
      BY <2>1, <3>2, <3>5 DEF AgeBounded, Period
  <2>2. CASE r # s
    BY <1>1, <2>2, EnterType, OthersBounded DEF IInv, TypeOK, Miss
  <2>3. QED
    BY <2>1, <2>2
<1>4. QED
  BY <1>2, <1>3 DEF IInv

\* The poll that wrote the row has taken at most MaxWork minutes.
LEMMA ReturnIInv ==
  ASSUME IInv, NEW s \in Sensors, Return(s)
  PROVE  IInv'
<1>1. Enter(s, "waiting") /\ mode[s] = "polled"
  BY DEF Return
<1>2. TypeOK'
  BY <1>1, EnterType, TimeAssumption DEF IInv, TypeOK, Return, Polling
<1>3. ASSUME NEW r \in Sensors PROVE AgeBounded(r)'
  <2>1. CASE r = s
    <3>1. steady[s] => age[s] <= missed[s] * Period + timer[s]
      BY <1>1 DEF IInv, AgeBounded
    <3>2. mode'[s] = "waiting" /\ timer'[s] = 0
      BY <1>1, EnterType DEF IInv
    <3>3. /\ missed' = missed /\ age' = age /\ steady' = steady
          /\ missed[s] \in Nat /\ timer[s] \in Nat /\ timer[s] <= MaxWork
          /\ age[s] \in Nat
      BY <1>1 DEF Return, IInv, TypeOK, Polling, Yellow
    <3>4. steady'[s] => age'[s] <= missed'[s] * Period + (timer'[s] + MaxWork)
      BY <3>1, <3>2, <3>3, PeriodType
    <3>5. QED
      BY <2>1, <3>2, <3>4 DEF AgeBounded, Period
  <2>2. CASE r # s
    BY <1>1, <2>2, EnterType, OthersBounded DEF IInv, Return
  <2>3. QED
    BY <2>1, <2>2
<1>4. QED
  BY <1>2, <1>3 DEF IInv

\* Nothing is claimed of an updater that is down.
LEMMA StopIInv ==
  ASSUME IInv, NEW s \in Sensors, Stop(s)
  PROVE  IInv'
<1>1. Enter(s, "down")
  BY DEF Stop
<1>2. TypeOK'
  <2>1. late' \in [Sensors -> Nat]
    BY AbandonType DEF IInv, TypeOK, Stop
  <2>2. steady' \in [Sensors -> BOOLEAN] /\ budget' \in Nat
    BY DEF IInv, TypeOK, Stop
  <2>3. \A r \in Sensors : steady'[r] => seen'[r] /\ mode'[r] # "down"
    BY <1>1, EnterType DEF IInv, TypeOK, Stop
  <2>4. QED
    BY <1>1, <2>1, <2>2, <2>3, EnterType, EnterTimers DEF IInv, TypeOK, Stop
<1>3. ASSUME NEW r \in Sensors PROVE AgeBounded(r)'
  <2>1. CASE r = s
    BY <2>1 DEF IInv, TypeOK, Stop, AgeBounded
  <2>2. CASE r # s
    BY <1>1, <2>2, EnterType, OthersBounded DEF IInv, TypeOK, Stop
  <2>3. QED
    BY <2>1, <2>2
<1>4. QED
  BY <1>2, <1>3 DEF IInv

\* A row that is written late is younger than the polls missed make it.
LEMMA RecordLateIInv ==
  ASSUME IInv, NEW s \in Sensors, RecordLate(s)
  PROVE  IInv'
<1>1. TypeOK'
  <2>1. late' \in [Sensors -> Nat]
    BY DEF IInv, TypeOK, RecordLate
  <2>2. /\ seen' \in [Sensors -> BOOLEAN] /\ age' \in [Sensors -> 0..Yellow]
        /\ \A r \in Sensors : seen[r] => seen'[r]
    <3>1. CASE UNCHANGED <<seen, age>>
      BY <3>1 DEF IInv, TypeOK
    <3>2. CASE /\ seen' = [seen EXCEPT ![s] = TRUE]
               /\ age' = [age EXCEPT ![s] = 0]
      BY <3>2 DEF IInv, TypeOK, Yellow
    <3>3. QED
      BY <3>1, <3>2 DEF RecordLate
  <2>3. QED
    BY <2>1, <2>2 DEF IInv, TypeOK, RecordLate, Polling
<1>2. ASSUME NEW r \in Sensors PROVE AgeBounded(r)'
  <2>1. /\ mode' = mode /\ timer' = timer /\ missed' = missed /\ steady' = steady
        /\ age'[r] = 0 \/ age'[r] = age[r]
    BY DEF IInv, TypeOK, RecordLate
  <2>2. CASE age'[r] = age[r]
    BY <2>1, <2>2, OthersBounded DEF IInv
  <2>3. CASE age'[r] = 0 /\ steady[r]
    <3>1. missed[r] * Period \in Nat /\ timer[r] \in Nat
      BY PeriodType DEF IInv, TypeOK
    <3>2. mode[r] \in {"waiting", "polling", "polled"}
      BY <2>3 DEF IInv, TypeOK
    <3>3. /\ 0 <= missed[r] * Period + timer[r]
          /\ 0 <= missed[r] * Period + (timer[r] + MaxWork)
          /\ 0 <= missed[r] * Period + (timer[r] + Period)
      BY <3>1, PeriodType
    <3>4. QED
      BY <2>1, <2>3, <3>2, <3>3 DEF AgeBounded, Period
  <2>4. CASE ~steady[r]
    BY <2>1, <2>4 DEF AgeBounded
  <2>5. QED
    BY <2>1, <2>2, <2>3, <2>4
<1>3. QED
  BY <1>1, <1>2 DEF IInv

\* The row and the timer of a running updater grow older together.
LEMMA TickIInv ==
  ASSUME IInv, Tick
  PROVE  IInv'
<1>1. TypeOK'
  BY TimeAssumption DEF IInv, TypeOK, Tick, InTime, Polling, Green, Yellow
<1>2. ASSUME NEW r \in Sensors PROVE AgeBounded(r)'
  <2>1. CASE steady[r]
    <3>1. /\ mode[r] \in {"waiting", "polling", "polled"} /\ mode' = mode
          /\ timer'[r] = timer[r] + 1 /\ timer[r] \in Nat
          /\ missed' = missed /\ missed[r] \in Nat
          /\ age[r] \in Nat /\ age'[r] <= age[r] + 1 /\ age'[r] \in Nat
      BY <2>1 DEF IInv, TypeOK, Tick, Yellow
    <3>2. missed[r] * Period \in Nat
      BY <3>1, PeriodType
    <3>3. CASE mode[r] = "polled"
      <4>1. age[r] <= missed[r] * Period + timer[r]
        BY <2>1, <3>3 DEF IInv, AgeBounded
      <4>2. age'[r] <= missed'[r] * Period + timer'[r]
        BY <3>1, <3>2, <4>1
      <4>3. QED
        BY <3>1, <3>3, <4>2 DEF AgeBounded, Period
    <3>4. CASE mode[r] = "waiting"
      <4>1. age[r] <= missed[r] * Period + (timer[r] + MaxWork)
        BY <2>1, <3>4 DEF IInv, AgeBounded
      <4>2. age'[r] <= missed'[r] * Period + (timer'[r] + MaxWork)
        BY <3>1, <3>2, <4>1, PeriodType
      <4>3. QED
        BY <3>1, <3>4, <4>2 DEF AgeBounded, Period
    <3>5. CASE mode[r] = "polling"
      <4>1. age[r] <= missed[r] * Period + (timer[r] + Period)
        BY <2>1, <3>5 DEF IInv, AgeBounded
      <4>2. age'[r] <= missed'[r] * Period + (timer'[r] + Period)
        BY <3>1, <3>2, <4>1, PeriodType
      <4>3. QED
        BY <3>1, <3>5, <4>2 DEF AgeBounded, Period
    <3>6. QED
      BY <3>1, <3>3, <3>4, <3>5
  <2>2. CASE ~steady[r]
    BY <2>2 DEF Tick, AgeBounded
  <2>3. QED
    BY <2>1, <2>2
<1>3. QED
  BY <1>1, <1>2 DEF IInv

\* No step breaks the bound on the age.
LEMMA NextIInv == IInv /\ [Next]_vars => IInv'
<1> SUFFICES ASSUME IInv, [Next]_vars PROVE IInv'
  OBVIOUS
<1>1. CASE Next
  <2>1. ASSUME NEW s \in Sensors,
               Start(s) \/ CheckUpdates(s) \/ RecordLate(s) \/ Stop(s)
        PROVE  IInv'
    BY <2>1, StartIInv, PollIInv, RecordIInv, MissIInv, ReturnIInv, RecordLateIInv,
       StopIInv
       DEF CheckUpdates
  <2>2. QED
    BY <1>1, <2>1, TickIInv DEF Next
<1>2. CASE UNCHANGED vars
  BY <1>2 DEF vars, IInv, TypeOK, AgeBounded, Polling, Period
<1>3. QED
  BY <1>1, <1>2

\* The types, and the bound on the age: a row is as old as the polls missed since
\* make it, whatever else happens to the sensor.
THEOREM Invariance == Spec => []IInv
<1>1. Init => IInv
  BY InitIInv
<1>2. IInv /\ [Next]_vars => IInv'
  BY NextIInv
<1>3. QED
  BY <1>1, <1>2, PTL DEF Spec

\* The types of the indicator's state, for any interval and time of a poll.
THEOREM TypeCorrect == Spec => []TypeOK
<1>1. IInv => TypeOK
  BY DEF IInv
<1>2. QED
  BY <1>1, Invariance, PTL

\* The row of a running updater is no older than its missed polls make it.
LEMMA AgeOfRunning ==
  ASSUME IInv, NEW s \in Sensors, steady[s]
  PROVE  /\ seen[s] /\ age[s] \in Nat /\ missed[s] \in Nat
         /\ age[s] <= missed[s] * Period + (MaxWork + Period)
<1>1. /\ seen[s] /\ age[s] \in Nat /\ missed[s] \in Nat /\ timer[s] \in Nat
      /\ mode[s] \in {"waiting", "polling", "polled"}
      /\ mode[s] = "waiting" => timer[s] <= PollInterval
      /\ mode[s] \in {"polling", "polled"} => timer[s] <= MaxWork
  BY DEF IInv, TypeOK, Polling, Yellow
<1>2. missed[s] * Period \in Nat
  BY <1>1, PeriodType
<1>3. CASE mode[s] = "polled"
  BY <1>1, <1>2, <1>3, PeriodType DEF IInv, AgeBounded
<1>4. CASE mode[s] = "waiting"
  <2>1. age[s] <= missed[s] * Period + (timer[s] + MaxWork)
    BY <1>4 DEF IInv, AgeBounded
  <2>2. Period = PollInterval + MaxWork
    BY DEF Period
  <2>3. QED
    BY <1>1, <1>2, <1>4, <2>1, <2>2, PeriodType
<1>5. CASE mode[s] = "polling"
  <2>1. age[s] <= missed[s] * Period + (timer[s] + Period)
    BY <1>5 DEF IInv, AgeBounded
  <2>2. QED
    BY <1>1, <1>2, <1>5, <2>1, PeriodType
<1>6. QED
  BY <1>1, <1>3, <1>4, <1>5

\* When the interval and two polls take less than the green threshold, a sensor
\* that runs and has missed no poll is green.
THEOREM GreenWhenNominal ==
  ASSUME PollInterval + 2 * MaxWork < Green
  PROVE  Spec => []NominalIsGreen
<1>1. ASSUME IInv PROVE NominalIsGreen
  <2> SUFFICES ASSUME NEW s \in Sensors, steady[s], missed[s] = 0
               PROVE  DeviceLiveness(s) = "green"
    BY DEF NominalIsGreen
  <2>1. age[s] <= missed[s] * Period + (MaxWork + Period) /\ seen[s] /\ age[s] \in Nat
    BY <1>1, AgeOfRunning
  <2>2. missed[s] * Period = 0
    BY NoneMissed
  <2>3. age[s] < Green
    <3>1. age[s] <= MaxWork + Period
      BY <2>1, <2>2, PeriodType
    <3>2. QED
      BY <2>1, <3>1, PeriodType DEF Period, Green
  <2>4. QED
    BY <2>1, <2>3 DEF DeviceLiveness
<1>2. QED
  BY <1>1, Invariance, PTL

\* When two intervals and three polls take less than the yellow threshold, one
\* missed poll does not make a sensor red.
THEOREM NotRedAfterOneMiss ==
  ASSUME 2 * PollInterval + 3 * MaxWork < Yellow
  PROVE  Spec => []OneMissIsNotRed
<1>1. ASSUME IInv PROVE OneMissIsNotRed
  <2> SUFFICES ASSUME NEW s \in Sensors, steady[s], missed[s] <= 1
               PROVE  DeviceLiveness(s) # "red"
    BY DEF OneMissIsNotRed
  <2>1. /\ age[s] <= missed[s] * Period + (MaxWork + Period)
        /\ seen[s] /\ age[s] \in Nat /\ missed[s] \in Nat
    BY <1>1, AgeOfRunning
  <2>2. missed[s] * Period <= Period
    <3>1. missed[s] = 0 \/ missed[s] = 1
      BY <2>1
    <3>2. 0 * Period = 0 /\ 1 * Period = Period
      BY PeriodType
    <3>3. QED
      BY <3>1, <3>2, PeriodType
  <2>3. missed[s] * Period \in Nat
    BY <2>1, PeriodType
  <2>4. age[s] < Yellow
    <3>1. age[s] <= Period + (MaxWork + Period)
      BY <2>1, <2>2, <2>3, PeriodType
    <3>2. QED
      BY <2>1, <3>1, PeriodType DEF Period, Yellow
  <2>5. QED
    BY <2>1, <2>4 DEF DeviceLiveness
<1>2. QED
  BY <1>1, Invariance, PTL

\* While the updater is down and no request of it is in flight, its row and the
\* time since then grow together, the row being the older of the two; a handler that
\* writes the row late finds that time to be 0.
LEMMA DownAgedNext == TypeOK /\ TypeOK' /\ DownAged /\ [Next]_vars => DownAged'
<1> SUFFICES ASSUME TypeOK, TypeOK', DownAged, [Next]_vars,
                    NEW r \in Sensors, mode'[r] = "down"
             PROVE  /\ late'[r] > 0 => timer'[r] = 0
                    /\ seen'[r] => timer'[r] <= age'[r]
  BY DEF DownAged
<1> DEFINE Aged == /\ late'[r] > 0 => timer'[r] = 0
                   /\ seen'[r] => timer'[r] <= age'[r]
<1>1. ASSUME NEW s \in Sensors, Start(s) \/ CheckUpdates(s) PROVE Aged
  <2>1. r # s /\ mode[r] = "down"
    BY <1>1 DEF TypeOK, Start, CheckUpdates, Poll, Record, Miss, Return, Enter
  <2>2. /\ timer'[r] = timer[r] /\ late'[r] = late[r]
        /\ seen'[r] = seen[r] /\ age'[r] = age[r]
    BY <1>1, <2>1
    DEF TypeOK, Start, CheckUpdates, Poll, Record, Miss, Return, Enter, Abandon
  <2>3. QED
    BY <2>1, <2>2 DEF DownAged
<1>2. ASSUME NEW s \in Sensors, Stop(s) PROVE Aged
  <2>1. CASE r = s
    BY <1>2, <2>1 DEF TypeOK, Stop, Enter, Yellow
  <2>2. CASE r # s
    BY <1>2, <2>2 DEF TypeOK, DownAged, Stop, Enter, Abandon
  <2>3. QED
    BY <2>1, <2>2
<1>3. ASSUME NEW s \in Sensors, RecordLate(s) PROVE Aged
  <2>1. mode[r] = "down" /\ timer'[r] = timer[r]
    BY <1>3 DEF RecordLate
  <2>2. CASE r = s
    BY <1>3, <2>1, <2>2 DEF TypeOK, DownAged, RecordLate, Yellow
  <2>3. CASE r # s
    BY <1>3, <2>1, <2>3 DEF TypeOK, DownAged, RecordLate
  <2>4. QED
    BY <2>2, <2>3
<1>4. CASE Tick
  <2>1. /\ mode[r] = "down" /\ timer[r] \in 0..Green /\ age[r] \in 0..Yellow
        /\ late[r] \in Nat /\ late' = late /\ seen' = seen
    BY <1>4 DEF Tick, TypeOK
  <2>2. /\ timer'[r] = IF late[r] > 0 \/ timer[r] = Green THEN timer[r] ELSE timer[r] + 1
        /\ age'[r] = IF seen[r] /\ age[r] < Yellow THEN age[r] + 1 ELSE age[r]
    BY <1>4, <2>1 DEF Tick, TypeOK
  <2>3. late[r] > 0 => timer[r] = 0
    BY <2>1 DEF DownAged
  <2>4. seen[r] => timer[r] <= age[r]
    BY <2>1 DEF DownAged
  <2>5. QED
    BY <2>1, <2>2, <2>3, <2>4 DEF Green, Yellow
<1>5. CASE UNCHANGED vars
  BY <1>5 DEF vars, DownAged
<1>6. QED
  BY <1>1, <1>2, <1>3, <1>4, <1>5 DEF Next

\* However long an interval or a poll is, and however long a handler goes on after
\* its client: a sensor is not green when the updater and the last handler are gone
\* for as long as the first threshold.
THEOREM NotGreenWhenDown == Spec => []DownIsNotGreen
<1>1. Init => DownAged
  BY DEF Init, DownAged
<1>2. Spec => []DownAged
  BY <1>1, DownAgedNext, TypeCorrect, PTL DEF Spec
<1>3. TypeOK /\ DownAged => DownIsNotGreen
  BY DEF TypeOK, DownAged, DownIsNotGreen, DeviceLiveness, Green, Yellow
<1>4. QED
  BY <1>2, <1>3, TypeCorrect, PTL

===============================================================================
