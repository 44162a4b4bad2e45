---------------------------- MODULE ReportingProofs ----------------------------
(***************************************************************************)
(* Theorems about status reporting, for any sensors, any number of         *)
(* handlers at work at a time, any releases and any number of failures.    *)
(***************************************************************************)
EXTENDS Reporting, TLAPS

-----------------------------------------------------------------------------
\* The type invariant in four parts.  The tables, and what is read from them.
RowsOK ==
  /\ latest \in [Kinds -> Nat] /\ registered \subseteq Sensors
  /\ row \in [Tables -> [Sensors -> Report \cup {NoRow}]]
  /\ has \in [Sensors -> [Kinds -> Nat]]
  /\ page \in [next : 1..3, found : [Tables -> SUBSET Sensors]]
  /\ edits \in Nat /\ budget \in Nat
  /\ recorded \in [Sensors -> Report \cup {NoRow}]
  /\ overlap \subseteq Sensors /\ misread \subseteq Sensors /\ byhand \subseteq Sensors

\* The sensors.
StepsOK ==
  /\ step \in [Sensors -> {"idle", "manifest", "install", "status"}]
  /\ offer \in [Sensors -> [Kinds -> Nat]] /\ todo \in [Sensors -> SUBSET Kinds]
  /\ outcome \in [Sensors -> [Kinds -> Statuses \cup {Blank}]]

\* The handlers; those that have a client, and where it waits.
CallsOK == call \in [Calls -> Request_ \cup {Free}]
Waiting == {c \in Calls : call[c].pc # "free" /\ call[c].open}
Stage(t) == IF t = "version" THEN "manifest" ELSE "status"

\* Every client waits for its handler, and for no other.
ServedOK ==
  \A c \in Waiting :
    /\ step[call[c].of] = Stage(call[c].table)
    /\ \A d \in Waiting : call[d].of = call[c].of => c = d

\* The parts are the whole.
LEMMA TypeParts ==
  /\ TypeOK  <=> RowsOK /\ StepsOK /\ CallsOK /\ ServedOK
  /\ TypeOK' <=> RowsOK' /\ StepsOK' /\ CallsOK' /\ ServedOK'
<1>1. TypeOK <=> RowsOK /\ StepsOK /\ CallsOK /\ ServedOK
  BY DEF TypeOK, RowsOK, StepsOK, CallsOK, ServedOK, Waiting, Stage, Busy
<1>2. TypeOK' <=> RowsOK' /\ StepsOK' /\ CallsOK' /\ ServedOK'
  BY DEF TypeOK, RowsOK, StepsOK, CallsOK, ServedOK, Waiting, Stage, Busy
<1> QED BY <1>1, <1>2

\* A handler at work has a request, and a free one has none.
LEMMA BusyRequest ==
  ASSUME CallsOK, NEW c \in Calls
  PROVE  /\ Busy(c) <=> call[c] \in Request_
         /\ ~Busy(c) <=> call[c] = Free
         /\ Busy(c) => /\ call[c].of \in Sensors /\ call[c].table \in Tables
                       /\ call[c].body \in Report /\ call[c].cur \in Report
                       /\ call[c].open \in BOOLEAN
                       /\ call[c].pc \in {"ValidateDevice", "SELECT", "INSERT", "UPDATE", "rows"}
BY DEF CallsOK, Busy, Request_, Free

\* What Goto does: the handler goes on with the same request.
LEMMA GotoCall ==
  ASSUME CallsOK, NEW c \in Calls, Busy(c),
         NEW l \in {"SELECT", "INSERT", "UPDATE", "rows"}, Goto(c, l)
  PROVE  /\ CallsOK'
         /\ \A d \in Calls \ {c} : call'[d] = call[d]
         /\ call'[c].pc = l /\ call'[c].of = call[c].of /\ call'[c].table = call[c].table
         /\ call'[c].body = call[c].body /\ call'[c].cur = call[c].cur
         /\ call'[c].open = call[c].open
<1>1. call[c] \in Request_
  BY BusyRequest
<1> QED BY <1>1 DEF Goto, CallsOK, Request_

\* What Refuse, and the end of a handler, do: the others go on.
LEMMA FreeCall ==
  ASSUME CallsOK, NEW c \in Calls, call' = [call EXCEPT ![c] = Free]
  PROVE  /\ CallsOK' /\ ~Busy(c)'
         /\ \A d \in Calls \ {c} : call'[d] = call[d]
BY DEF CallsOK, Busy, Free

\* What Request does.
LEMMA RequestCall ==
  ASSUME CallsOK, NEW c \in Calls, NEW s \in Sensors, NEW t \in Tables, NEW body \in Report,
         NEW open \in BOOLEAN, Request(c, s, t, body, open)
  PROVE  /\ CallsOK' /\ ~Busy(c)
         /\ \A d \in Calls \ {c} : call'[d] = call[d]
         /\ call'[c] = [pc |-> "ValidateDevice", of |-> s, table |-> t,
                        body |-> body, cur |-> None, open |-> open]
<1>1. None \in Report
  BY DEF None, Report
<1> QED BY <1>1 DEF Request, CallsOK, Request_

\* A poll that is over.
LEMMA IdleType ==
  ASSUME StepsOK, NEW s \in Sensors, Idle(s)
  PROVE  /\ StepsOK' /\ step'[s] = "idle"
         /\ \A r \in Sensors \ {s} : step'[r] = step[r]
BY DEF StepsOK, Idle, Zero, None

\* A handler that goes on serves the same client.
LEMMA GotoServed ==
  ASSUME CallsOK, ServedOK, NEW c \in Calls, Busy(c),
         NEW l \in {"SELECT", "INSERT", "UPDATE", "rows"}, Goto(c, l), UNCHANGED step
  PROVE  ServedOK'
<1>1. ASSUME NEW d \in Calls
      PROVE  /\ d \in Waiting' <=> d \in Waiting
             /\ d \in Waiting => call'[d].of = call[d].of /\ call'[d].table = call[d].table
  BY GotoCall DEF Waiting, Busy
<1>2. Waiting \subseteq Calls /\ Waiting' \subseteq Calls
  BY DEF Waiting
<1>3. ASSUME NEW d \in Waiting'
      PROVE  /\ step'[call'[d].of] = Stage(call'[d].table)
             /\ \A e \in Waiting' : call'[e].of = call'[d].of => d = e
  BY <1>1, <1>2, <1>3 DEF ServedOK
<1> QED BY <1>3 DEF ServedOK, Stage

\* A handler that ends leaves the clients of the others alone.
LEMMA EndServed ==
  ASSUME CallsOK, StepsOK, ServedOK, NEW c \in Calls, Busy(c), call' = [call EXCEPT ![c] = Free],
         \A r \in Sensors : (c \in Waiting /\ r = call[c].of) \/ step'[r] = step[r]
  PROVE  ServedOK'
<1>1. ASSUME NEW d \in Waiting'
      PROVE  d # c /\ call'[d] = call[d] /\ d \in Waiting /\ call[d].of \in Sensors
  BY <1>1, FreeCall, BusyRequest DEF Waiting, Busy
<1>2. ASSUME NEW d \in Waiting' PROVE step'[call[d].of] = step[call[d].of]
  BY <1>1, <1>2 DEF ServedOK
<1>3. ASSUME NEW d \in Waiting', NEW e \in Waiting'
      PROVE  /\ step'[call'[d].of] = Stage(call'[d].table)
             /\ call'[e].of = call'[d].of => d = e
  BY <1>1, <1>2, <1>3 DEF ServedOK, Stage
<1> QED BY <1>3 DEF ServedOK, Stage

\* Refuse ends the handler, and the poll of its client if it waits.
LEMMA RefuseType ==
  ASSUME CallsOK, StepsOK, ServedOK, NEW c \in Calls, Busy(c), Refuse(c)
  PROVE  CallsOK' /\ StepsOK' /\ ServedOK'
<1>1. CallsOK' /\ call' = [call EXCEPT ![c] = Free] /\ call[c].of \in Sensors
  BY FreeCall, BusyRequest DEF Refuse
<1>2. StepsOK' /\ \A r \in Sensors : (c \in Waiting /\ r = call[c].of) \/ step'[r] = step[r]
  <2>1. CASE call[c].open
    <3>1. Idle(call[c].of)
      BY <2>1 DEF Refuse
    <3>2. StepsOK' /\ \A r \in Sensors \ {call[c].of} : step'[r] = step[r]
      BY <1>1, <3>1, IdleType
    <3> QED BY <2>1, <3>2 DEF Waiting, Busy
  <2>2. CASE ~call[c].open
    BY <2>2 DEF Refuse, StepsOK
  <2> QED BY <2>1, <2>2
<1> QED BY <1>1, <1>2, EndServed

\* A request that arrives without a client, or from a sensor that was waiting for
\* none and waits for this one.
LEMMA RequestServed ==
  ASSUME CallsOK, StepsOK, ServedOK, NEW c \in Calls, NEW s \in Sensors, NEW t \in Tables,
         NEW body \in Report, NEW open \in BOOLEAN, Request(c, s, t, body, open),
         \A r \in Sensors \ {s} : step'[r] = step[r],
         IF open THEN step[s] \in {"idle", "install"} /\ step'[s] = Stage(t)
                 ELSE step'[s] = step[s]
  PROVE  ServedOK'
<1>1. /\ CallsOK' /\ call[c].pc = "free"
      /\ \A d \in Calls \ {c} : call'[d] = call[d]
      /\ call'[c] = [pc |-> "ValidateDevice", of |-> s, table |-> t,
                     body |-> body, cur |-> None, open |-> open]
  BY RequestCall DEF Busy
<1>2. Waiting' \ {c} = Waiting /\ c \notin Waiting /\ (open <=> c \in Waiting')
  BY <1>1 DEF Waiting
<1>3. ASSUME NEW d \in Waiting
      PROVE  d \in Calls /\ call[d].of \in Sensors /\ call'[d] = call[d]
             /\ (call[d].of # s \/ ~open)
  <2>1. d \in Calls /\ call[d].of \in Sensors /\ call[d].table \in Tables /\ call'[d] = call[d]
    BY <1>1, <1>2, BusyRequest DEF Waiting, Busy
  <2>2. step[call[d].of] \in {"manifest", "status"}
    BY DEF ServedOK, Stage
  <2> QED BY <2>1, <2>2
<1>4. ASSUME NEW d \in Waiting'
      PROVE  /\ step'[call'[d].of] = Stage(call'[d].table)
             /\ \A e \in Waiting' : call'[e].of = call'[d].of => d = e
  <2>1. CASE d = c
    BY <1>1, <1>2, <1>3, <2>1
  <2>2. CASE d # c
    <3>1. d \in Waiting /\ step'[call[d].of] = step[call[d].of] /\ call'[d] = call[d]
      BY <1>2, <1>3, <2>2
    <3>2. step[call[d].of] = Stage(call[d].table)
          /\ \A e \in Waiting : call[e].of = call[d].of => d = e
      BY <3>1 DEF ServedOK
    <3> QED BY <1>1, <1>2, <1>3, <3>1, <3>2
  <2> QED BY <2>1, <2>2
<1> QED BY <1>4 DEF ServedOK, Stage

\* A failure, or none, leaves a budget.
LEMMA BudgetType ==
  ASSUME RowsOK, NoFault \/ \E f \in Faulty : Fault(f)
  PROVE  budget' \in Nat
BY DEF RowsOK, NoFault, Fault

\* What the statements write is a row.
LEMMA RowType ==
  ASSUME RowsOK, NEW t \in Tables, NEW s \in Sensors, NEW r \in Report \cup {NoRow},
         row' = [row EXCEPT ![t][s] = r]
  PROVE  row' \in [Tables -> [Sensors -> Report \cup {NoRow}]]
BY DEF RowsOK

\* Merging a report into a row gives a row.
LEMMA MergeType ==
  ASSUME NEW cur \in Report, NEW body \in Report
  PROVE  Merge(cur, body) \in Report
BY DEF Merge, Report

\* The handlers: their first two statements, and those that fail.
LEMMA ReadType ==
  ASSUME TypeOK, NEW c \in Calls, ValidateDevice(c) \/ SelectRow(c) \/ StatementFails(c)
  PROVE  TypeOK'
<1>1. RowsOK /\ StepsOK /\ CallsOK /\ ServedOK
  BY TypeParts
<1>2. Busy(c) /\ call[c].of \in Sensors /\ call[c].table \in Tables
  BY <1>1, BusyRequest DEF ValidateDevice, SelectRow, StatementFails, Busy
<1>3. RowsOK'
  <2>1. budget' \in Nat
    BY <1>1, BudgetType DEF ValidateDevice, SelectRow, StatementFails, Fault
  <2>2. /\ UNCHANGED <<server, row, has, page, edits, recorded, overlap, byhand>>
        /\ misread' = misread \/ misread' = misread \cup {call[c].of}
    BY DEF ValidateDevice, SelectRow, StatementFails, sensor, notes
  <2> QED
    BY <1>1, <1>2, <2>1, <2>2 DEF RowsOK, server
<1>4. CASE StatementFails(c)
  <2>1. Refuse(c)
    BY <1>4 DEF StatementFails
  <2> QED BY <1>1, <1>2, <1>3, <2>1, RefuseType, TypeParts
<1>5. CASE ValidateDevice(c)
  <2>1. CASE call[c].of \in registered
    <3>1. Goto(c, "SELECT") /\ UNCHANGED <<step, offer, todo, outcome>>
      BY <1>5, <2>1 DEF ValidateDevice
    <3>2. StepsOK' /\ CallsOK' /\ ServedOK'
      BY <1>1, <1>2, <3>1, GotoCall, GotoServed DEF StepsOK
    <3> QED BY <1>3, <3>2, TypeParts
  <2>2. CASE call[c].of \notin registered
    <3>1. Refuse(c)
      BY <1>5, <2>2 DEF ValidateDevice
    <3> QED BY <1>1, <1>2, <1>3, <3>1, RefuseType, TypeParts
  <2> QED BY <2>1, <2>2
<1>6. CASE SelectRow(c)
  <2>1. UNCHANGED <<step, offer, todo, outcome>>
    BY <1>6 DEF SelectRow, sensor
  <2>2. /\ \A d \in Calls \ {c} : call'[d] = call[d]
        /\ call'[c] \in Request_ /\ call'[c].of = call[c].of
        /\ call'[c].table = call[c].table /\ call'[c].open = call[c].open
        /\ CallsOK'
    <3>1. /\ row[call[c].table][call[c].of] \in Report \cup {NoRow}
          /\ None \in Report /\ call[c] \in Request_
      BY <1>1, <1>2, BusyRequest DEF RowsOK, None, Report
    <3> QED BY <1>1, <1>6, <3>1 DEF SelectRow, Goto, Request_, CallsOK
  <2>3. ServedOK'
    <3>1. Waiting' = Waiting /\ \A d \in Waiting : d \in Calls
      BY <1>2, <2>2 DEF Waiting, Busy, Request_
    <3>2. \A d \in Calls : call'[d].of = call[d].of /\ call'[d].table = call[d].table
      BY <2>2
    <3> QED BY <1>1, <2>1, <3>1, <3>2 DEF ServedOK, Stage
  <2>4. StepsOK'
    BY <1>1, <2>1 DEF StepsOK
  <2> QED BY <1>3, <2>2, <2>3, <2>4, TypeParts
<1> QED BY <1>4, <1>5, <1>6

\* The end of the statements on the row.
LEMMA WrittenType ==
  ASSUME RowsOK, StepsOK, CallsOK, ServedOK, NEW c \in Calls, Busy(c), Written(c)
  PROVE  /\ StepsOK' /\ CallsOK' /\ ServedOK'
         /\ recorded' \in [Sensors -> Report \cup {NoRow}]
<1>1. call[c].of \in Sensors /\ call[c].table \in Tables /\ call[c].body \in Report
  BY BusyRequest
<1>2. CASE call[c].table = "version"
  <2>1. Goto(c, "rows") /\ UNCHANGED <<step, offer, todo, outcome, recorded>>
    BY <1>2 DEF Written
  <2> QED BY <2>1, GotoCall, GotoServed DEF StepsOK, RowsOK
<1>3. CASE call[c].table = "status"
  <2>1. /\ call' = [call EXCEPT ![c] = Free]
        /\ IF call[c].open THEN Idle(call[c].of) ELSE UNCHANGED <<step, offer, todo, outcome>>
    BY <1>3 DEF Written
  <2>2. StepsOK' /\ CallsOK' /\ ServedOK'
    BY <2>1, RefuseType DEF Refuse
  <2>3. recorded' \in [Sensors -> Report \cup {NoRow}]
    <3> DEFINE s == call[c].of
               new == [k \in Kinds |-> IF call[c].body[k] # Blank THEN call[c].body[k]
                                       ELSE IF recorded[s] = NoRow THEN Blank
                                       ELSE recorded[s][k]]
    <3>1. recorded' = [recorded EXCEPT ![s] = new]
      BY <1>3 DEF Written
    <3>2. recorded[s] \in Report \cup {NoRow}
      BY <1>1 DEF RowsOK
    <3>3. new \in Report
      BY <1>1, <3>2 DEF Report
    <3> HIDE DEF new
    <3> QED BY <1>1, <3>1, <3>3 DEF RowsOK
  <2> QED BY <2>2, <2>3
<1> QED BY <1>1, <1>2, <1>3 DEF Tables

\* The handlers: the statements that write, and the answer.
LEMMA WriteType ==
  ASSUME TypeOK, NEW c \in Calls, InsertRow(c) \/ UpdateRow(c) \/ Answer(c)
  PROVE  TypeOK'
<1>1. RowsOK /\ StepsOK /\ CallsOK /\ ServedOK
  BY TypeParts
<1>2. /\ Busy(c) /\ call[c].of \in Sensors /\ call[c].table \in Tables
      /\ call[c].body \in Report /\ call[c].cur \in Report
  BY <1>1, BusyRequest DEF InsertRow, UpdateRow, Answer, Busy
<1>3. CASE InsertRow(c) \/ UpdateRow(c)
  <2>1. \/ row' = row
        \/ row' = [row EXCEPT ![call[c].table][call[c].of] = call[c].body]
        \/ row' = [row EXCEPT ![call[c].table][call[c].of] =
                      IF row[call[c].table][call[c].of] = NoRow THEN NoRow
                      ELSE Merge(call[c].cur, call[c].body)]
    BY <1>1, <1>2, <1>3 DEF InsertRow, UpdateRow, RowsOK
  <2>2. row' \in [Tables -> [Sensors -> Report \cup {NoRow}]]
    BY <1>1, <1>2, <2>1, MergeType, RowType DEF RowsOK
  <2>3. Written(c) \/ (Refuse(c) /\ UNCHANGED recorded)
    BY <1>3 DEF InsertRow, UpdateRow
  <2>4. StepsOK' /\ CallsOK' /\ ServedOK' /\ recorded' \in [Sensors -> Report \cup {NoRow}]
    BY <1>1, <1>2, <2>3, WrittenType, RefuseType DEF RowsOK
  <2>5. RowsOK'
    BY <1>1, <1>3, <2>2, <2>4 DEF InsertRow, UpdateRow, RowsOK, server, NoFault
  <2> QED BY <2>4, <2>5, TypeParts
<1>4. CASE Answer(c)
  <2>1. RowsOK'
    BY <1>1, <1>4 DEF Answer, RowsOK, server, notes, NoFault
  <2>2. CASE Refuse(c)
    BY <1>1, <1>2, <2>1, <2>2, RefuseType, TypeParts
  <2>3. CASE ~Refuse(c)
    <3>1. call' = [call EXCEPT ![c] = Free]
      BY <1>4, <2>3 DEF Answer
    <3>2. CallsOK'
      BY <1>1, <3>1, FreeCall
    <3>3. StepsOK' /\ \A r \in Sensors : (c \in Waiting /\ r = call[c].of) \/ step'[r] = step[r]
      <4>1. CASE call[c].open
        <5>1. /\ step' = [step EXCEPT ![call[c].of] = "install"]
              /\ offer' = [offer EXCEPT ![call[c].of] = latest]
              /\ todo' = [todo EXCEPT ![call[c].of] = Needed(call[c].body)]
              /\ UNCHANGED outcome
          BY <1>4, <2>3, <4>1 DEF Answer
        <5>2. Needed(call[c].body) \in SUBSET Kinds /\ latest \in [Kinds -> Nat]
          BY <1>1 DEF Needed, RowsOK
        <5>3. c \in Waiting
          BY <1>2, <4>1 DEF Waiting, Busy
        <5> QED BY <1>1, <1>2, <5>1, <5>2, <5>3 DEF StepsOK
      <4>2. CASE ~call[c].open
        <5>1. UNCHANGED <<step, offer, todo, outcome>>
          BY <1>4, <2>3, <4>2 DEF Answer
        <5> QED BY <1>1, <5>1 DEF StepsOK
      <4> QED BY <4>1, <4>2
    <3>4. ServedOK'
      BY <1>1, <1>2, <3>1, <3>3, EndServed
    <3> QED BY <2>1, <3>2, <3>3, <3>4, TypeParts
  <2> QED BY <2>2, <2>3
<1> QED BY <1>3, <1>4

\* A request of a sensor.
LEMMA SendType ==
  ASSUME TypeOK, NEW s \in Sensors, NEW c \in Calls, Poll(s, c) \/ SendStatus(s, c)
  PROVE  TypeOK'
<1>1. RowsOK /\ StepsOK /\ CallsOK /\ ServedOK
  BY TypeParts
<1>2. RowsOK'
  BY <1>1 DEF Poll, SendStatus, RowsOK, server, notes, NoFault, NoteOverlap
<1>3. \E t \in Tables, body \in Report :
        /\ Request(c, s, t, body, TRUE)
        /\ step[s] \in {"idle", "install"} /\ step' = [step EXCEPT ![s] = Stage(t)]
  <2>1. CASE Poll(s, c)
    <3>1. has[s] \in Report
      BY <1>1 DEF RowsOK, Report
    <3> QED BY <2>1, <3>1 DEF Poll, Tables, Stage
  <2>2. CASE SendStatus(s, c)
    <3>1. outcome[s] \in Report
      BY <1>1 DEF StepsOK, Report
    <3> QED BY <2>2, <3>1 DEF SendStatus, Tables, Stage
  <2> QED BY <2>1, <2>2
<1>4. PICK t \in Tables, body \in Report :
        /\ Request(c, s, t, body, TRUE)
        /\ step[s] \in {"idle", "install"} /\ step' = [step EXCEPT ![s] = Stage(t)]
  BY <1>3
<1>5. StepsOK'
  <2>1. UNCHANGED <<offer, todo, outcome>>
    BY DEF Poll, SendStatus
  <2> QED BY <1>1, <1>4, <2>1 DEF StepsOK, Stage
<1>6. step'[s] = Stage(t) /\ \A r \in Sensors \ {s} : step'[r] = step[r]
  BY <1>1, <1>4 DEF StepsOK
<1>7. CallsOK'
  BY <1>1, <1>4, RequestCall
<1>8. ServedOK'
  BY <1>1, <1>4, <1>6, RequestServed
<1> QED BY <1>2, <1>5, <1>7, <1>8, TypeParts

\* The kinds are installed one by one.
LEMMA FirstKind ==
  ASSUME NEW K \in SUBSET Kinds, K # {}
  PROVE  First(K) \in K
BY DEF First, Kinds

\* The installation of a kind.
LEMMA InstallType ==
  ASSUME TypeOK, NEW s \in Sensors, InstallNext(s)
  PROVE  TypeOK'
<1>1. RowsOK /\ StepsOK /\ CallsOK /\ ServedOK
  BY TypeParts
<1>2. PICK k \in Kinds :
        /\ todo' = [todo EXCEPT ![s] = @ \ {k}]
        /\ \/ /\ outcome' = [outcome EXCEPT ![s][k] = Success]
              /\ has' = [has EXCEPT ![s][k] = IF k = "threatintel" THEN @ ELSE offer[s][k]]
              /\ NoFault
           \/ /\ outcome' = [outcome EXCEPT ![s][k] = Failed]
              /\ Fault("timeout") /\ UNCHANGED has
  <2>1. First(todo[s]) \in Kinds
    BY <1>1, FirstKind DEF InstallNext, StepsOK
  <2> QED BY <2>1 DEF InstallNext
<1>3. UNCHANGED <<server, row, call, step, offer, page, edits, notes>>
  BY DEF InstallNext
<1>4. StepsOK'
  BY <1>1, <1>2, <1>3 DEF StepsOK, Statuses
<1>5. RowsOK'
  <2>1. budget' \in Nat
    BY <1>1, <1>2 DEF RowsOK, NoFault, Fault
  <2>2. has' \in [Sensors -> [Kinds -> Nat]]
    <3>1. has \in [Sensors -> [Kinds -> Nat]] /\ offer[s][k] \in Nat /\ has[s][k] \in Nat
      BY <1>1 DEF RowsOK, StepsOK
    <3>2. \/ has' = has
          \/ \E n \in Nat : has' = [has EXCEPT ![s][k] = n]
      BY <1>2, <3>1
    <3> QED BY <3>1, <3>2
  <2> QED BY <1>1, <1>3, <2>1, <2>2 DEF RowsOK, server, notes
<1>6. ServedOK' /\ CallsOK'
  BY <1>1, <1>3 DEF ServedOK, CallsOK, Waiting, Stage
<1> QED BY <1>4, <1>5, <1>6, TypeParts

\* A sensor that gives up leaves its handlers without a client.
LEMMA GiveUpCalls ==
  ASSUME CallsOK, NEW s \in Sensors, GiveUp(s)
  PROVE  /\ CallsOK'
         /\ \A c \in Calls :
              /\ call'[c] \in {call[c], Free} \/ call'[c] = [call[c] EXCEPT !.open = FALSE]
              /\ call'[c].pc # "free" =>
                   /\ Busy(c) /\ call'[c].of = call[c].of /\ call'[c].table = call[c].table
                   /\ call'[c].pc = call[c].pc /\ call'[c].cur = call[c].cur
                   /\ call'[c].body = call[c].body
                   /\ IF call[c].of = s THEN ~call'[c].open ELSE call'[c] = call[c]
<1>1. PICK lost \in SUBSET Calls :
        call' = [c \in Calls |->
                   IF c \in lost /\ call[c].open THEN Free
                   ELSE IF Busy(c) /\ call[c].of = s THEN [call[c] EXCEPT !.open = FALSE]
                   ELSE call[c]]
        /\ \A c \in lost : call[c].of = s
  BY DEF GiveUp
<1>2. ASSUME NEW c \in Calls
      PROVE  /\ call'[c] \in Request_ \cup {Free}
             /\ call'[c] \in {call[c], Free} \/ call'[c] = [call[c] EXCEPT !.open = FALSE]
             /\ call'[c].pc # "free" =>
                  /\ Busy(c) /\ call'[c].of = call[c].of /\ call'[c].table = call[c].table
                  /\ call'[c].pc = call[c].pc /\ call'[c].cur = call[c].cur
                  /\ call'[c].body = call[c].body
                  /\ IF call[c].of = s THEN ~call'[c].open ELSE call'[c] = call[c]
  <2>1. CASE c \in lost /\ call[c].open
    BY <1>1, <2>1 DEF Free
  <2>2. CASE ~(c \in lost /\ call[c].open) /\ Busy(c) /\ call[c].of = s
    <3>1. call'[c] = [call[c] EXCEPT !.open = FALSE] /\ call[c] \in Request_
      BY <1>1, <2>2, BusyRequest
    <3> QED BY <2>2, <3>1 DEF Request_
  <2>3. CASE ~(c \in lost /\ call[c].open) /\ ~(Busy(c) /\ call[c].of = s)
    <3>1. call'[c] = call[c]
      BY <1>1, <2>3
    <3> QED BY <2>3, <3>1 DEF CallsOK, Busy
  <2> QED BY <2>1, <2>2, <2>3
<1> QED BY <1>1, <1>2 DEF CallsOK

\* The types when a sensor gives up.
LEMMA GiveUpType ==
  ASSUME TypeOK, NEW s \in Sensors, GiveUp(s)
  PROVE  TypeOK'
<1>1. RowsOK /\ StepsOK /\ CallsOK /\ ServedOK
  BY TypeParts
<1>2. RowsOK'
  BY <1>1 DEF GiveUp, Fault, RowsOK, server, notes
<1>3. StepsOK' /\ \A r \in Sensors \ {s} : step'[r] = step[r]
  BY <1>1, IdleType DEF GiveUp
<1>4. CallsOK'
  BY <1>1, GiveUpCalls
<1>5. ASSUME NEW c \in Waiting'
      PROVE  c \in Waiting /\ call'[c] = call[c] /\ call[c].of \in Sensors \ {s}
  <2>1. c \in Calls /\ call'[c].pc # "free" /\ call'[c].open
    BY DEF Waiting
  <2>2. call'[c] = call[c] /\ call[c].of # s
    BY <1>1, <2>1, GiveUpCalls
  <2> QED BY <1>1, <2>1, <2>2, BusyRequest DEF Waiting, Busy
<1>6. ServedOK'
  BY <1>1, <1>3, <1>5 DEF ServedOK, Stage
<1> QED BY <1>2, <1>3, <1>4, <1>6, TypeParts

\* The operators and the UI.
LEMMA OutsideType ==
  ASSUME TypeOK
  PROVE  /\ \A s \in Sensors : DeleteStatus(s) \/ DeleteDevice(s) => TypeOK'
         /\ \A k \in Kinds : Publish(k) => TypeOK'
         /\ ListStatus => TypeOK'
         /\ \A s \in Sensors, c \in Calls, k \in Kinds, v \in Statuses :
              DbtoolInsertStatus(s, c, k, v) => TypeOK'
<1>1. RowsOK /\ StepsOK /\ CallsOK /\ ServedOK
  BY TypeParts
<1>2. ASSUME UNCHANGED <<call, sensor>>, RowsOK' PROVE TypeOK'
  <2>1. StepsOK' /\ CallsOK' /\ ServedOK'
    BY <1>1, <1>2 DEF sensor, StepsOK, CallsOK, ServedOK, Waiting, Stage
  <2> QED BY <1>2, <2>1, TypeParts
<1>3. ASSUME NEW s \in Sensors, DeleteStatus(s) \/ DeleteDevice(s) PROVE TypeOK'
  <2>1. UNCHANGED <<call, sensor>>
    BY <1>3 DEF DeleteStatus, DeleteDevice
  <2>2. /\ row' = row \/ row' = [row EXCEPT !["status"][s] = NoRow]
        /\ registered' \in {registered, registered \ {s}} /\ byhand' \in {byhand, byhand \cup {s}}
        /\ edits > 0 /\ edits' = edits - 1
        /\ UNCHANGED <<latest, has, page, budget, recorded, overlap, misread>>
    BY <1>3 DEF DeleteStatus, DeleteDevice, Edit, server, notes, sensor
  <2>3. row' \in [Tables -> [Sensors -> Report \cup {NoRow}]]
    BY <1>1, <2>2, RowType DEF RowsOK, Tables
  <2>4. RowsOK'
    BY <1>1, <2>2, <2>3 DEF RowsOK
  <2> QED BY <1>2, <2>1, <2>4
<1>4. ASSUME NEW k \in Kinds, Publish(k) PROVE TypeOK'
  <2>1. UNCHANGED <<call, sensor>>
    BY <1>4 DEF Publish
  <2>2. RowsOK'
    BY <1>1, <1>4 DEF Publish, RowsOK, server, notes, sensor
  <2> QED BY <1>2, <2>1, <2>2
<1>5. ASSUME ListStatus PROVE TypeOK'
  <2>1. UNCHANGED <<call, sensor>>
    BY <1>5 DEF ListStatus
  <2>2. page' \in [next : 1..3, found : [Tables -> SUBSET Sensors]]
    <3>1. CASE page.next > 2
      BY <1>5, <3>1 DEF ListStatus, Closed
    <3>2. CASE ~(page.next > 2)
      <4>1. page.next \in 1..2 /\ page.found \in [Tables -> SUBSET Sensors]
        BY <1>1, <3>2 DEF RowsOK
      <4>2. PICK S \in SUBSET Sensors :
              page' = [next |-> page.next + 1,
                       found |-> [page.found EXCEPT ![Listing[page.next]] = S]]
        BY <1>5, <3>2 DEF ListStatus
      <4>3. page.next + 1 \in 1..3 /\ Listing[page.next] \in Tables
        BY <4>1 DEF Listing, Tables
      <4>4. [page.found EXCEPT ![Listing[page.next]] = S] \in [Tables -> SUBSET Sensors]
        BY <4>1, <4>3
      <4> QED BY <4>2, <4>3, <4>4
    <3> QED BY <3>1, <3>2
  <2>3. UNCHANGED <<server, row, sensor, edits, budget, notes>>
    BY <1>5 DEF ListStatus
  <2>4. RowsOK'
    BY <1>1, <2>2, <2>3 DEF RowsOK, server, sensor, notes
  <2> QED BY <1>2, <2>1, <2>4
<1>6. ASSUME NEW s \in Sensors, NEW c \in Calls, NEW k \in Kinds, NEW v \in Statuses,
             DbtoolInsertStatus(s, c, k, v)
      PROVE  TypeOK'
  <2>0. /\ UNCHANGED <<latest, registered, row, has, page, budget, recorded, misread>>
        /\ edits > 0 /\ edits' = edits - 1
        /\ byhand' = byhand \cup {s} /\ overlap' \in {overlap, overlap \cup {s}}
    BY <1>6 DEF DbtoolInsertStatus, Edit, server, sensor, NoteOverlap
  <2>1. RowsOK'
    BY <1>1, <2>0 DEF RowsOK
  <2>2. StepsOK' /\ UNCHANGED step
    BY <1>1, <1>6 DEF DbtoolInsertStatus, sensor, StepsOK
  <2>3. [None EXCEPT ![k] = v] \in Report
    BY DEF None, Report
  <2>4. Request(c, s, "status", [None EXCEPT ![k] = v], FALSE)
    BY <1>6 DEF DbtoolInsertStatus
  <2> DEFINE body == [None EXCEPT ![k] = v]
  <2> HIDE DEF body
  <2>5. body \in Report /\ "status" \in Tables /\ Request(c, s, "status", body, FALSE)
    BY <2>3, <2>4 DEF body, Tables
  <2>6. CallsOK' /\ ServedOK'
    BY <1>1, <2>2, <2>5, RequestCall, RequestServed
  <2> QED BY <2>1, <2>2, <2>6, TypeParts
<1> QED BY <1>3, <1>4, <1>5, <1>6

\* Every step keeps the types.
LEMMA TypeStep == TypeOK /\ [Next]_vars => TypeOK'
<1> SUFFICES ASSUME TypeOK, [Next]_vars PROVE TypeOK'
  OBVIOUS
<1>1. CASE \E c \in Calls : Handle(c) \/ StatementFails(c)
  BY <1>1, ReadType, WriteType DEF Handle
<1>2. CASE \E s \in Sensors : CheckUpdates(s) \/ GiveUp(s)
  BY <1>2, SendType, InstallType, GiveUpType DEF CheckUpdates
<1>3. CASE \/ \E s \in Sensors :
                \/ DeleteStatus(s) \/ DeleteDevice(s)
                \/ \E c \in Calls, k \in Kinds, v \in Statuses : DbtoolInsertStatus(s, c, k, v)
           \/ \E k \in Kinds : Publish(k)
           \/ ListStatus
  BY <1>3, OutsideType
<1>4. CASE UNCHANGED vars
  <2>1. RowsOK /\ StepsOK /\ CallsOK /\ ServedOK
    BY TypeParts
  <2>2. RowsOK' /\ StepsOK' /\ CallsOK' /\ ServedOK'
    BY <1>4, <2>1 DEF vars, server, sensor, notes, RowsOK, StepsOK, CallsOK, ServedOK, Waiting, Stage
  <2> QED BY <2>2, TypeParts
<1> QED BY <1>1, <1>2, <1>3, <1>4 DEF Next

\* The variables keep their types, a handler with a client is the one its sensor is
\* waiting for, and a sensor waits for one handler: no answer reaches a poll it does
\* not belong to, however many handlers outlive their clients.
THEOREM TypeCorrect == Spec => []TypeOK
<1>1. Init => TypeOK
  <2> SUFFICES ASSUME Init PROVE TypeOK
    OBVIOUS
  <2>1. RowsOK
    BY BoundsAssumption DEF Init, RowsOK, Zero, Closed, Tables
  <2>2. StepsOK
    BY DEF Init, StepsOK, Zero, None
  <2>3. CallsOK /\ ServedOK
    BY DEF Init, CallsOK, ServedOK, Waiting, Free
  <2> QED BY <2>1, <2>2, <2>3, TypeParts
<1> QED BY <1>1, TypeStep, PTL DEF Spec

-----------------------------------------------------------------------------
\* A sensor whose reports never overlapped has at most one at work.
OneReport(s) == s \notin overlap => \A c, d \in Reporters(s) : c = d

\* A report that will write has read the row as it is.
CurrentRow(s) ==
  \A c \in Reporters(s) :
    /\ call[c].pc = "UPDATE" => /\ row["status"][s] # NoRow
                                /\ call[c].cur = row["status"][s]
    /\ call[c].pc = "INSERT" => row["status"][s] = NoRow

\* So what it writes is what the reports said.
Alone(s)  == s \notin overlap \cup misread \cup byhand
Faithful(s) == Alone(s) => row["status"][s] = recorded[s] /\ CurrentRow(s)

\* The invariant.
FaithfulInv == \A s \in Sensors : OneReport(s) /\ Faithful(s)

\* A step that changes neither the row of s nor its history, lets no report of s begin
\* and none come to the statement that writes.
LEMMA FaithfulKept ==
  ASSUME NEW s \in Sensors, OneReport(s), Faithful(s),
         row'["status"][s] = row["status"][s], recorded'[s] = recorded[s],
         overlap \subseteq overlap', misread \subseteq misread', byhand \subseteq byhand',
         \A c \in Reporters(s)' :
           /\ c \in Reporters(s)
           /\ \/ call'[c].pc \notin {"UPDATE", "INSERT"}
              \/ call'[c].pc = call[c].pc /\ call'[c].cur = call[c].cur
  PROVE  OneReport(s)' /\ Faithful(s)'
<1>1. OneReport(s)'
  BY DEF OneReport
<1>2. ASSUME Alone(s)' PROVE row'["status"][s] = recorded'[s] /\ CurrentRow(s)'
  <2>1. Alone(s)
    BY <1>2 DEF Alone
  <2> QED BY <2>1 DEF Faithful, CurrentRow
<1> QED BY <1>1, <1>2 DEF Faithful

\* The reports at work after a handler went on, ended or began.
LEMMA ReportersNext ==
  ASSUME NEW c \in Calls, NEW s \in Sensors,
         \A d \in Calls \ {c} : call'[d] = call[d]
  PROVE  /\ Reporters(s)' \ {c} = Reporters(s) \ {c}
         /\ call'[c].pc = "free" \/ call'[c].of # s \/ call'[c].table # "status" =>
              c \notin Reporters(s)'
         /\ c \in Reporters(s) <=>
              call[c].pc # "free" /\ call[c].of = s /\ call[c].table = "status"
BY DEF Reporters, Busy

\* A handler that ends without writing.
LEMMA EndFaithful ==
  ASSUME CallsOK, NEW c \in Calls, call' = [call EXCEPT ![c] = Free],
         UNCHANGED <<row, recorded, overlap, misread, byhand>>,
         NEW s \in Sensors, OneReport(s), Faithful(s)
  PROVE  OneReport(s)' /\ Faithful(s)'
<1>1. call'[c].pc = "free" /\ \A d \in Calls \ {c} : call'[d] = call[d]
  BY FreeCall DEF Busy
<1>2. Reporters(s)' = Reporters(s) \ {c} /\ Reporters(s) \subseteq Calls
  BY <1>1, ReportersNext DEF Reporters
<1> QED BY <1>1, <1>2, FaithfulKept

\* A request arrives: a poll, or a report, which is noted if it overlaps another.
LEMMA ArriveFaithful ==
  ASSUME TypeOK, NEW r \in Sensors, NEW c \in Calls, NEW t \in Tables, NEW body \in Report,
         NEW open \in BOOLEAN, Request(c, r, t, body, open),
         t = "status" => NoteOverlap(r),
         UNCHANGED <<row, recorded, misread>>,
         overlap \subseteq overlap', byhand \subseteq byhand',
         NEW s \in Sensors, OneReport(s), Faithful(s)
  PROVE  OneReport(s)' /\ Faithful(s)'
<1>1. /\ call[c].pc = "free" /\ \A d \in Calls \ {c} : call'[d] = call[d]
      /\ call'[c].of = r /\ call'[c].table = t /\ call'[c].pc = "ValidateDevice"
  <2>1. CallsOK
    BY TypeParts
  <2>2. /\ ~Busy(c) /\ \A d \in Calls \ {c} : call'[d] = call[d]
        /\ call'[c] = [pc |-> "ValidateDevice", of |-> r, table |-> t,
                       body |-> body, cur |-> None, open |-> open]
    BY <2>1, RequestCall
  <2> QED BY <2>2 DEF Busy
<1>2. /\ Reporters(s)' \ {c} = Reporters(s) /\ c \notin Reporters(s)
      /\ r # s \/ t # "status" => c \notin Reporters(s)'
      /\ Reporters(s) \subseteq Calls
  BY <1>1, ReportersNext DEF Reporters
<1>3. CASE c \notin Reporters(s)'
  <2>1. Reporters(s)' = Reporters(s) /\ \A d \in Reporters(s) : call'[d] = call[d]
    BY <1>1, <1>2, <1>3
  <2> QED BY <2>1, FaithfulKept
<1>4. CASE r = s /\ t = "status"
  <2>1. Reporters(s) = {} \/ s \in overlap'
    BY <1>4 DEF NoteOverlap
  <2>2. OneReport(s)'
    BY <1>2, <2>1 DEF OneReport
  <2>3. ASSUME Alone(s)' PROVE row'["status"][s] = recorded'[s] /\ CurrentRow(s)'
    <3>1. Alone(s) /\ s \notin overlap'
      BY <2>3 DEF Alone
    <3>2. Reporters(s)' \subseteq {c}
      BY <1>2, <2>1, <3>1
    <3> QED BY <1>1, <3>1, <3>2 DEF Faithful, CurrentRow
  <2> QED BY <2>2, <2>3 DEF Faithful
<1> QED BY <1>2, <1>3, <1>4

\* The first two statements: the second reads the row as it is.
LEMMA ReadFaithful ==
  ASSUME TypeOK, NEW c \in Calls, ValidateDevice(c) \/ SelectRow(c) \/ StatementFails(c),
         NEW s \in Sensors, OneReport(s), Faithful(s)
  PROVE  OneReport(s)' /\ Faithful(s)'
<1>1. CallsOK /\ Busy(c) /\ call[c].of \in Sensors /\ call[c].table \in Tables
      /\ RowsOK /\ call[c] \in Request_
  BY TypeParts, BusyRequest DEF ValidateDevice, SelectRow, StatementFails, Busy
<1>2. CASE ValidateDevice(c) \/ StatementFails(c)
  <2>1. UNCHANGED <<row, recorded, overlap, misread, byhand>>
    BY <1>2 DEF ValidateDevice, StatementFails, notes
  <2>2. CASE Refuse(c)
    BY <1>1, <2>1, <2>2, EndFaithful DEF Refuse
  <2>3. CASE Goto(c, "SELECT")
    <3>1. /\ \A d \in Calls \ {c} : call'[d] = call[d]
          /\ call'[c].pc = "SELECT" /\ call'[c].of = call[c].of
          /\ call'[c].table = call[c].table
      BY <1>1, <2>3, GotoCall
    <3>2. Reporters(s)' = Reporters(s) /\ Reporters(s) \subseteq Calls
      BY <1>1, <3>1 DEF Reporters, Busy
    <3> QED BY <2>1, <3>1, <3>2, FaithfulKept
  <2> QED BY <1>2, <2>2, <2>3 DEF ValidateDevice, StatementFails
<1>3. CASE SelectRow(c)
  <2> DEFINE cur == row[call[c].table][call[c].of]
  <2>1. cur \in Report \cup {NoRow}
    BY <1>1 DEF RowsOK
  <2>2. /\ \A d \in Calls \ {c} : call'[d] = call[d]
        /\ call'[c].of = call[c].of /\ call'[c].table = call[c].table
        /\ call'[c].pc # "free"
        /\ \/ /\ UNCHANGED misread
              /\ cur = NoRow => call'[c].pc = "INSERT"
              /\ cur # NoRow => call'[c].pc = "UPDATE" /\ call'[c].cur = cur
           \/ misread' = misread \cup {call[c].of}
    BY <1>1, <1>3, <2>1 DEF SelectRow, Goto, Request_, CallsOK
  <2>3. Reporters(s)' = Reporters(s) /\ Reporters(s) \subseteq Calls
    BY <1>1, <2>2 DEF Reporters, Busy
  <2>4. UNCHANGED <<row, recorded, overlap, byhand>> /\ misread \subseteq misread'
    BY <1>3 DEF SelectRow
  <2>5. CASE c \notin Reporters(s)
    BY <2>2, <2>3, <2>4, <2>5, FaithfulKept
  <2>6. CASE c \in Reporters(s)
    <3>1. call[c].of = s /\ call[c].table = "status"
      BY <2>6 DEF Reporters
    <3>2. OneReport(s)'
      BY <2>3, <2>4 DEF OneReport
    <3>3. ASSUME Alone(s)' PROVE row'["status"][s] = recorded'[s] /\ CurrentRow(s)'
      <4>1. Alone(s) /\ misread' # misread \cup {s} /\ Reporters(s) = {c}
        BY <2>4, <2>6, <3>3 DEF Alone, OneReport
      <4>2. row["status"][s] = recorded[s]
        BY <4>1 DEF Faithful
      <4>3. CurrentRow(s)'
        BY <2>2, <2>3, <2>4, <3>1, <4>1 DEF CurrentRow
      <4> QED BY <2>4, <4>2, <4>3
    <3> QED BY <3>2, <3>3 DEF Faithful
  <2> QED BY <2>5, <2>6
<1> QED BY <1>2, <1>3

\* The statements that write: what is in the row then is what the reports said.
LEMMA WriteFaithful ==
  ASSUME TypeOK, NEW c \in Calls, InsertRow(c) \/ UpdateRow(c),
         NEW s \in Sensors, OneReport(s), Faithful(s)
  PROVE  OneReport(s)' /\ Faithful(s)'
<1> DEFINE r == call[c].of
           t == call[c].table
<1>1. /\ CallsOK /\ RowsOK /\ Busy(c) /\ r \in Sensors /\ t \in Tables
      /\ call[c].body \in Report /\ call[c].cur \in Report
  BY TypeParts, BusyRequest DEF InsertRow, UpdateRow, Busy
<1>2. UNCHANGED <<overlap, misread, byhand>>
  BY DEF InsertRow, UpdateRow
<1>3. row[t][r] \in Report \cup {NoRow} /\ NoRow \notin Report
      /\ recorded[r] \in Report \cup {NoRow}
  BY <1>1, RowAssumption DEF RowsOK, Report
<1>4. CASE Refuse(c) /\ UNCHANGED <<row, recorded>>
  BY <1>1, <1>2, <1>4, EndFaithful DEF Refuse
<1>5. CASE Written(c)
  <2>1. \A d \in Calls \ {c} : call'[d] = call[d]
    BY <1>1, <1>5, FreeCall, GotoCall DEF Written
  <2>2. \A d \in Calls \ {c} : d \in Reporters(s)' <=> d \in Reporters(s)
    BY <2>1, ReportersNext
  <2>3. c \notin Reporters(s)' /\ (c \in Reporters(s) <=> r = s /\ t = "status")
    <3>1. CASE t = "version"
      <4>1. call'[c].table = "version"
        BY <1>1, <1>5, <3>1, GotoCall DEF Written
      <4> QED BY <3>1, <4>1 DEF Reporters
    <3>2. CASE t = "status"
      <4>1. call' = [call EXCEPT ![c] = Free]
        BY <1>5, <3>2 DEF Written
      <4>2. call'[c].pc = "free"
        BY <1>1, <4>1 DEF CallsOK, Free
      <4> QED BY <1>1, <3>2, <4>2 DEF Reporters, Busy
    <3> QED BY <1>1, <3>1, <3>2 DEF Tables
  <2>4. Reporters(s)' = Reporters(s) \ {c} /\ Reporters(s) \subseteq Calls
    BY <2>2, <2>3 DEF Reporters
  <2>5. CASE c \notin Reporters(s)
    <3>1. row'["status"][s] = row["status"][s] /\ recorded'[s] = recorded[s]
      BY <1>1, <1>5, <2>3, <2>5 DEF InsertRow, UpdateRow, Written, RowsOK, Tables
    <3> QED BY <1>2, <2>1, <2>4, <3>1, <2>5, FaithfulKept
  <2>6. CASE c \in Reporters(s)
    <3>1. r = s /\ t = "status"
      BY <2>3, <2>6
    <3>2. OneReport(s)'
      BY <1>2, <2>4 DEF OneReport
    <3>3. ASSUME Alone(s)' PROVE row'["status"][s] = recorded'[s] /\ CurrentRow(s)'
      <4>1. Alone(s) /\ Reporters(s)' = {}
        BY <1>2, <2>4, <2>6, <3>3 DEF Alone, OneReport
      <4>2. row["status"][s] = recorded[s]
            /\ (call[c].pc = "UPDATE" => row["status"][s] # NoRow /\ call[c].cur = row["status"][s])
            /\ (call[c].pc = "INSERT" => row["status"][s] = NoRow)
        BY <2>6, <4>1 DEF Faithful, CurrentRow
      <4>3. recorded'[s] = [k \in Kinds |-> IF call[c].body[k] # Blank THEN call[c].body[k]
                                            ELSE IF recorded[s] = NoRow THEN Blank
                                            ELSE recorded[s][k]]
        BY <1>1, <1>5, <3>1 DEF Written, RowsOK
      <4>4. CASE InsertRow(c)
        <5>1. row'["status"][s] = call[c].body /\ recorded[s] = NoRow
          BY <1>1, <3>1, <4>2, <4>4 DEF InsertRow, RowsOK, Tables
        <5>2. recorded'[s] = call[c].body
          BY <1>1, <4>3, <5>1 DEF Report
        <5> QED BY <4>1, <5>1, <5>2 DEF CurrentRow
      <4>5. CASE UpdateRow(c)
        <5>1. row'["status"][s] = Merge(recorded[s], call[c].body) /\ recorded[s] # NoRow
          BY <1>1, <3>1, <4>2, <4>5 DEF UpdateRow, RowsOK, Tables
        <5>2. recorded'[s] = Merge(recorded[s], call[c].body)
          BY <4>3, <5>1 DEF Merge
        <5> QED BY <4>1, <5>1, <5>2 DEF CurrentRow
      <4> QED BY <4>4, <4>5
    <3> QED BY <3>2, <3>3 DEF Faithful
  <2> QED BY <2>5, <2>6
<1> QED BY <1>4, <1>5 DEF InsertRow, UpdateRow

\* Every step of the handlers, the sensors, the operators and the UI.
LEMMA FaithfulStep ==
  ASSUME TypeOK, FaithfulInv, [Next]_vars
  PROVE  FaithfulInv'
<1> SUFFICES ASSUME NEW s \in Sensors PROVE OneReport(s)' /\ Faithful(s)'
  BY DEF FaithfulInv
<1>1. RowsOK /\ StepsOK /\ CallsOK /\ ServedOK
  BY TypeParts
<1>2. OneReport(s) /\ Faithful(s)
  BY DEF FaithfulInv
<1>3. ASSUME NEW c \in Calls, Handle(c) \/ StatementFails(c)
      PROVE  OneReport(s)' /\ Faithful(s)'
  <2>1. CASE Answer(c)
    <3>1. call' = [call EXCEPT ![c] = Free] /\ UNCHANGED <<row, recorded, overlap, misread, byhand>>
      BY <2>1 DEF Answer, Refuse, notes
    <3> QED BY <1>1, <1>2, <3>1, EndFaithful
  <2> QED BY <1>2, <1>3, <2>1, ReadFaithful, WriteFaithful DEF Handle
<1>4. ASSUME NEW r \in Sensors, NEW c \in Calls, Poll(r, c) \/ SendStatus(r, c)
      PROVE  OneReport(s)' /\ Faithful(s)'
  <2>1. UNCHANGED <<row, recorded, misread, byhand>> /\ overlap \subseteq overlap'
    BY <1>4 DEF Poll, SendStatus, notes, NoteOverlap
  <2>2. CASE Poll(r, c)
    <3>1. has[r] \in Report /\ "version" \in Tables /\ TRUE \in BOOLEAN
      BY <1>1 DEF RowsOK, Report, Tables
    <3>2. Request(c, r, "version", has[r], TRUE)
      BY <2>2 DEF Poll
    <3> QED BY <1>2, <2>1, <3>1, <3>2, ArriveFaithful
  <2>3. CASE SendStatus(r, c)
    <3>1. outcome[r] \in Report /\ "status" \in Tables /\ TRUE \in BOOLEAN
      BY <1>1 DEF StepsOK, Report, Tables
    <3>2. Request(c, r, "status", outcome[r], TRUE) /\ NoteOverlap(r)
      BY <2>3 DEF SendStatus
    <3> QED BY <1>2, <2>1, <3>1, <3>2, ArriveFaithful
  <2> QED BY <1>4, <2>2, <2>3
<1>5. ASSUME NEW r \in Sensors, NEW c \in Calls, NEW k \in Kinds, NEW v \in Statuses,
             DbtoolInsertStatus(r, c, k, v)
      PROVE  OneReport(s)' /\ Faithful(s)'
  <2> DEFINE body == [None EXCEPT ![k] = v]
  <2>1. body \in Report /\ "status" \in Tables /\ FALSE \in BOOLEAN
    BY DEF None, Report, Tables
  <2>2. Request(c, r, "status", body, FALSE) /\ NoteOverlap(r)
    BY <1>5 DEF DbtoolInsertStatus
  <2>3. UNCHANGED <<row, recorded, misread>> /\ overlap \subseteq overlap' /\ byhand \subseteq byhand'
    BY <1>5 DEF DbtoolInsertStatus, NoteOverlap
  <2> HIDE DEF body
  <2> QED BY <1>2, <2>1, <2>2, <2>3, ArriveFaithful
<1>6. ASSUME NEW r \in Sensors, GiveUp(r)
      PROVE  OneReport(s)' /\ Faithful(s)'
  <2>1. \A c \in Calls : call'[c].pc # "free" =>
          /\ call[c].pc # "free" /\ call'[c].of = call[c].of /\ call'[c].table = call[c].table
          /\ call'[c].pc = call[c].pc /\ call'[c].cur = call[c].cur
    BY <1>1, <1>6, GiveUpCalls DEF Busy
  <2>2. UNCHANGED <<row, recorded, overlap, misread, byhand>>
    BY <1>6 DEF GiveUp, notes
  <2>3. \A c \in Reporters(s)' : c \in Reporters(s) /\ call'[c].pc = call[c].pc
                                 /\ call'[c].cur = call[c].cur
    BY <2>1 DEF Reporters, Busy
  <2> QED BY <1>2, <2>2, <2>3, FaithfulKept
<1>7. ASSUME NEW r \in Sensors, DeleteStatus(r)
      PROVE  OneReport(s)' /\ Faithful(s)'
  <2>1. UNCHANGED <<call, recorded, overlap, misread>> /\ byhand' = byhand \cup {r}
    BY <1>7 DEF DeleteStatus
  <2>2. Reporters(s)' = Reporters(s) /\ OneReport(s)'
    BY <1>2, <2>1 DEF Reporters, Busy, OneReport
  <2>3. CASE r = s
    BY <2>1, <2>2, <2>3 DEF Faithful, Alone
  <2>4. CASE r # s
    <3>1. row'["status"][s] = row["status"][s]
      BY <1>1, <1>7, <2>4 DEF DeleteStatus, RowsOK, Tables
    <3> QED BY <1>2, <2>1, <2>2, <3>1, FaithfulKept
  <2> QED BY <2>3, <2>4
<1>8. CASE UNCHANGED <<row, call, notes>>
  <2>1. Reporters(s)' = Reporters(s)
    BY <1>8 DEF Reporters, Busy
  <2> QED BY <1>2, <1>8, <2>1, FaithfulKept DEF notes
<1>9. CASE \/ \E r \in Sensors : DeleteDevice(r) \/ InstallNext(r)
           \/ \E k \in Kinds : Publish(k)
           \/ ListStatus
           \/ UNCHANGED vars
  BY <1>8, <1>9 DEF DeleteDevice, InstallNext, Publish, ListStatus, vars
<1> QED
  BY <1>3, <1>4, <1>5, <1>6, <1>7, <1>9 DEF Next, CheckUpdates

\* At first nothing is reported.
LEMMA FaithfulInit == Init => FaithfulInv
<1> SUFFICES ASSUME Init, NEW s \in Sensors PROVE OneReport(s) /\ Faithful(s)
  BY Zenon DEF FaithfulInv
<1>1. Reporters(s) = {} /\ row["status"][s] = recorded[s]
  BY DEF Init, Reporters, Busy, Free, Tables
<1> QED BY <1>1 DEF OneReport, Faithful, CurrentRow

\* What the invariant says of the rows.
LEMMA FaithfulAlone == FaithfulInv => LastReportedAlone
<1> SUFFICES ASSUME FaithfulInv, NEW s \in Sensors \ (overlap \cup misread \cup byhand)
             PROVE  row["status"][s] = recorded[s]
  BY Zenon DEF LastReportedAlone
<1>1. Faithful(s)
  BY DEF FaithfulInv
<1> QED BY <1>1 DEF Faithful, Alone

\* The status row of a sensor is what its reports said, each column the last one that
\* was not empty, unless two of its reports were at work at a time, its row could not
\* be read or dbtool changed it: a report that outlives its client is no harm by
\* itself (InsertStatus reads the row and writes it by a later statement).
THEOREM ReportsRecorded == Spec => []LastReportedAlone
BY FaithfulInit, FaithfulAlone, TypeCorrect, FaithfulStep, PTL DEF Spec

-----------------------------------------------------------------------------
\* The sensors that have polled: rows of version are never deleted.
Polled == {s \in Sensors : row["version"][s] # NoRow}

\* Only a poll goes on to the manifest, after its row is written.
PollWritten(c) ==
  /\ call[c].pc = "rows" => call[c].table = "version"
  /\ Busy(c) /\ call[c].table = "version" /\ call[c].pc \in {"UPDATE", "rows"} =>
       call[c].of \in Polled \cup misread

\* Only a sensor that has polled installs and reports, unless dbtool reports for it.
PolledFirst(s) ==
  /\ step[s] \in {"install", "status"} => s \in Polled \cup misread
  /\ Reporters(s) # {} => s \in Polled \cup misread \cup byhand
  /\ row["status"][s] # NoRow => s \in Polled \cup misread \cup byhand

\* The page reads the statuses first.
PagePolled ==
  /\ page.next = 2 => page.found["status"] \subseteq Polled \cup misread \cup byhand
  /\ page.next = 3 =>
       page.found["status"] \subseteq page.found["version"] \cup misread \cup byhand

\* The invariant.
PolledInv ==
  /\ \A c \in Calls : PollWritten(c)
  /\ \A s \in Sensors : PolledFirst(s)
  /\ PagePolled

\* What a handler does to the handlers: it alone goes on, with the same request, or
\* ends.
LEMMA HandleCalls ==
  ASSUME TypeOK, NEW c \in Calls, Handle(c) \/ StatementFails(c)
  PROVE  /\ Busy(c) /\ call[c].of \in Sensors /\ call[c].table \in Tables
         /\ call[c].body \in Report /\ call[c].open \in BOOLEAN
         /\ \A d \in Calls \ {c} : call'[d] = call[d]
         /\ \/ call'[c].pc = "free"
            \/ /\ call'[c].of = call[c].of /\ call'[c].table = call[c].table
               /\ \/ ValidateDevice(c) /\ call'[c].pc = "SELECT"
                  \/ SelectRow(c) /\ call'[c].pc \in {"INSERT", "UPDATE"}
                  \/ Written(c) /\ call[c].table = "version" /\ call'[c].pc = "rows"
<1>1. RowsOK /\ CallsOK
  BY TypeParts
<1>2. Busy(c) /\ call[c] \in Request_
  BY <1>1, BusyRequest DEF Handle, ValidateDevice, SelectRow, InsertRow, UpdateRow, Answer,
     StatementFails, Busy
<1>3. CASE call' = [call EXCEPT ![c] = Free]
  <2>1. call'[c].pc = "free" /\ \A d \in Calls \ {c} : call'[d] = call[d]
    BY <1>1, <1>3, FreeCall DEF Busy
  <2> QED BY <1>1, <1>2, <2>1, BusyRequest
<1>4. CASE ValidateDevice(c) /\ Goto(c, "SELECT")
  BY <1>1, <1>2, <1>4, BusyRequest, GotoCall
<1>5. CASE SelectRow(c)
  <2>1. row[call[c].table][call[c].of] \in Report \cup {NoRow}
    BY <1>1, <1>2, BusyRequest DEF RowsOK
  <2>2. /\ \A d \in Calls \ {c} : call'[d] = call[d]
        /\ call'[c].of = call[c].of /\ call'[c].table = call[c].table
        /\ call'[c].pc \in {"INSERT", "UPDATE"}
    BY <1>1, <1>2, <1>5, <2>1 DEF SelectRow, Goto, Request_, CallsOK
  <2> QED BY <1>1, <1>2, <1>5, <2>2, BusyRequest
<1>6. CASE Written(c)
  <2>1. CASE call[c].table = "version"
    <3>1. Goto(c, "rows")
      BY <1>6, <2>1 DEF Written
    <3> QED BY <1>1, <1>2, <1>6, <2>1, <3>1, BusyRequest, GotoCall
  <2>2. CASE call[c].table # "version"
    BY <1>3, <1>6, <2>2 DEF Written
  <2> QED BY <2>1, <2>2
<1> QED
  BY <1>3, <1>4, <1>5, <1>6 DEF Handle, ValidateDevice, InsertRow, UpdateRow, Answer,
     StatementFails, Refuse

\* What a sensor or dbtool does to the handlers: one begins with a request of theirs,
\* or some lose their client.
LEMMA ClientCalls ==
  ASSUME TypeOK, NEW s \in Sensors
  PROVE  /\ \A c \in Calls : Poll(s, c) =>
              /\ \A d \in Calls \ {c} : call'[d] = call[d]
              /\ call'[c].pc = "ValidateDevice" /\ call'[c].of = s /\ call'[c].table = "version"
         /\ \A c \in Calls : SendStatus(s, c) =>
              /\ \A d \in Calls \ {c} : call'[d] = call[d]
              /\ call'[c].pc = "ValidateDevice" /\ call'[c].of = s
         /\ \A c \in Calls, k \in Kinds, v \in Statuses : DbtoolInsertStatus(s, c, k, v) =>
              /\ \A d \in Calls \ {c} : call'[d] = call[d]
              /\ call'[c].pc = "ValidateDevice" /\ call'[c].of = s
<1>1. RowsOK /\ StepsOK /\ CallsOK
  BY TypeParts
<1>2. ASSUME NEW c \in Calls, NEW t, NEW body, NEW open, Request(c, s, t, body, open)
      PROVE  /\ \A d \in Calls \ {c} : call'[d] = call[d]
             /\ call'[c].pc = "ValidateDevice" /\ call'[c].of = s /\ call'[c].table = t
  BY <1>1, <1>2 DEF Request, CallsOK
<1> QED BY <1>2 DEF Poll, SendStatus, DbtoolInsertStatus

\* Rows of version stay, and so do the notes.
LEMMA PolledGrows ==
  ASSUME TypeOK, [Next]_vars
  PROVE  Polled \subseteq Polled' /\ misread \subseteq misread' /\ byhand \subseteq byhand'
<1>1. RowsOK /\ CallsOK
  BY TypeParts
<1>2. ASSUME NEW c \in Calls, InsertRow(c) \/ UpdateRow(c)
      PROVE  Polled \subseteq Polled' /\ misread \subseteq misread' /\ byhand \subseteq byhand'
  <2>1. /\ call[c].of \in Sensors /\ call[c].table \in Tables
        /\ call[c].body \in Report /\ call[c].cur \in Report
    BY <1>1, <1>2, BusyRequest DEF InsertRow, UpdateRow, Busy
  <2>2. Merge(call[c].cur, call[c].body) # NoRow
    BY <2>1, MergeType, RowAssumption DEF Report
  <2>3. Polled \subseteq Polled'
    BY <1>1, <1>2, <2>1, <2>2 DEF InsertRow, UpdateRow, Polled, RowsOK, Tables
  <2> QED BY <1>2, <2>3 DEF InsertRow, UpdateRow
<1>3. ASSUME NEW s \in Sensors, DeleteStatus(s)
      PROVE  Polled \subseteq Polled' /\ misread \subseteq misread' /\ byhand \subseteq byhand'
  <2>1. row'["version"] = row["version"]
    BY <1>1, <1>3 DEF DeleteStatus, RowsOK, Tables
  <2> QED BY <1>3, <2>1 DEF DeleteStatus, Polled
<1>4. CASE row' = row /\ misread \subseteq misread' /\ byhand \subseteq byhand'
  BY <1>4 DEF Polled
<1>5. CASE \/ \E c \in Calls : ValidateDevice(c) \/ SelectRow(c) \/ Answer(c) \/ StatementFails(c)
           \/ \E s \in Sensors :
                \/ CheckUpdates(s) \/ GiveUp(s) \/ DeleteDevice(s)
                \/ \E c \in Calls, k \in Kinds, v \in Statuses : DbtoolInsertStatus(s, c, k, v)
           \/ \E k \in Kinds : Publish(k)
           \/ ListStatus
           \/ UNCHANGED vars
  <2>1. row' = row /\ misread \subseteq misread' /\ byhand \subseteq byhand'
    BY <1>5 DEF ValidateDevice, SelectRow, Answer, StatementFails, CheckUpdates, InstallNext,
       Poll, SendStatus, GiveUp, DeleteDevice, DbtoolInsertStatus, Publish, ListStatus, vars, notes
  <2> QED BY <1>4, <2>1
<1> QED BY <1>2, <1>3, <1>5 DEF Next, Handle

\* What a handler writes of a poll: the row is there.
LEMMA WrittenPolled ==
  ASSUME TypeOK, NEW c \in Calls, InsertRow(c) \/ UpdateRow(c), PollWritten(c),
         call[c].table = "version", ~Refuse(c)
  PROVE  call[c].of \in Polled' \cup misread'
<1>1. RowsOK /\ CallsOK
  BY TypeParts
<1>2. /\ call[c].of \in Sensors /\ call[c].body \in Report /\ call[c].cur \in Report /\ Busy(c)
  BY <1>1, BusyRequest DEF InsertRow, UpdateRow, Busy
<1>3. NoRow \notin Report /\ Merge(call[c].cur, call[c].body) \in Report
  BY <1>2, MergeType, RowAssumption DEF Report
<1>4. CASE InsertRow(c)
  <2>1. row'["version"][call[c].of] = call[c].body
    BY <1>1, <1>2, <1>4 DEF InsertRow, RowsOK, Tables
  <2> QED BY <1>2, <1>3, <2>1 DEF Polled
<1>5. CASE UpdateRow(c)
  <2>1. /\ misread' = misread
        /\ row'["version"][call[c].of] = IF row["version"][call[c].of] = NoRow THEN NoRow
                                         ELSE Merge(call[c].cur, call[c].body)
    BY <1>1, <1>2, <1>5 DEF UpdateRow, RowsOK, Tables
  <2>2. call[c].of \in Polled \cup misread
    BY <1>2, <1>5 DEF PollWritten, UpdateRow
  <2> QED BY <1>2, <1>3, <2>1, <2>2 DEF Polled
<1> QED BY <1>4, <1>5

\* Only a handler whose row of version is there, or could not be read, is past it.
LEMMA PollWrittenStep ==
  ASSUME TypeOK, PolledInv, [Next]_vars, NEW d \in Calls
  PROVE  PollWritten(d)'
<1>1. RowsOK /\ CallsOK /\ PollWritten(d)
  BY TypeParts DEF PolledInv
<1>2. Polled \subseteq Polled' /\ misread \subseteq misread'
  BY PolledGrows
<1>3. CASE call'[d] = call[d]
  BY <1>1, <1>2, <1>3 DEF PollWritten, Busy
<1>4. CASE call'[d].pc \in {"free", "ValidateDevice", "SELECT"}
  BY <1>4 DEF PollWritten, Busy
<1>5. ASSUME NEW c \in Calls, Handle(c) \/ StatementFails(c)
      PROVE  PollWritten(d)'
  <2>1. CASE c # d
    BY <1>3, <1>5, <2>1, HandleCalls
  <2>2. CASE c = d /\ call'[c].pc \notin {"free", "SELECT"}
    <3>1. /\ call[c].of \in Sensors /\ call[c].table \in Tables /\ call[c].pc # "free"
          /\ call'[c].of = call[c].of /\ call'[c].table = call[c].table
          /\ \/ SelectRow(c) /\ call'[c].pc \in {"INSERT", "UPDATE"}
             \/ Written(c) /\ call[c].table = "version" /\ call'[c].pc = "rows"
      BY <1>5, <2>2, HandleCalls DEF Busy
    <3>2. CASE SelectRow(c)
      <4>1. call'[c].pc \in {"INSERT", "UPDATE"} /\
            (call'[c].pc = "UPDATE" /\ call[c].table = "version" =>
               call[c].of \in Polled \cup misread')
        <5>1. row[call[c].table][call[c].of] \in Report \cup {NoRow} /\ call[c] \in Request_
          BY <1>1, <3>1, BusyRequest DEF RowsOK, Busy
        <5> QED BY <1>1, <3>1, <3>2, <5>1 DEF SelectRow, CallsOK, Polled, Request_, Goto
      <4> QED BY <1>2, <2>2, <3>1, <3>2, <4>1 DEF PollWritten
    <3>3. CASE ~SelectRow(c) /\ Written(c) /\ call[c].table = "version" /\ call'[c].pc = "rows"
      <4>1. InsertRow(c) \/ UpdateRow(c)
        <5>1. call' # [call EXCEPT ![c] = Free] /\ ~Refuse(c)
          BY <1>1, <3>3 DEF Refuse, CallsOK, Free
        <5>2. ~Goto(c, "SELECT")
          BY <1>1, <3>1, <3>3, GotoCall DEF Busy
        <5>3. ~StatementFails(c) /\ ~ValidateDevice(c) /\ ~Answer(c)
          BY <5>1, <5>2 DEF StatementFails, ValidateDevice, Answer
        <5> QED BY <1>5, <3>3, <5>3 DEF Handle
      <4>2. ~Refuse(c)
        BY <1>1, <3>3 DEF Refuse, CallsOK, Free
      <4>3. call[c].of \in Polled' \cup misread'
        BY <1>1, <2>2, <3>3, <4>1, <4>2, WrittenPolled
      <4> QED BY <2>2, <3>1, <3>3, <4>3 DEF PollWritten
    <3> QED BY <3>1, <3>2, <3>3
  <2> QED BY <1>4, <2>1, <2>2
<1>6. ASSUME NEW s \in Sensors,
             \/ \E c \in Calls : Poll(s, c) \/ SendStatus(s, c)
             \/ \E c \in Calls, k \in Kinds, v \in Statuses : DbtoolInsertStatus(s, c, k, v)
      PROVE  PollWritten(d)'
  <2>1. PICK c \in Calls : (\A e \in Calls \ {c} : call'[e] = call[e])
                           /\ call'[c].pc = "ValidateDevice"
    BY <1>6, ClientCalls
  <2> QED BY <1>3, <1>4, <2>1
<1>7. ASSUME NEW s \in Sensors, GiveUp(s)
      PROVE  PollWritten(d)'
  <2>1. call'[d].pc # "free" =>
          /\ call[d].pc # "free" /\ call'[d].of = call[d].of /\ call'[d].table = call[d].table
          /\ call'[d].pc = call[d].pc
    BY <1>1, <1>7, GiveUpCalls DEF Busy
  <2> QED BY <1>1, <1>2, <1>4, <2>1 DEF PollWritten, Busy
<1>8. CASE UNCHANGED call
  BY <1>3, <1>8
<1> QED
  BY <1>5, <1>6, <1>7, <1>8 DEF Next, CheckUpdates, InstallNext, DeleteStatus, DeleteDevice,
     Publish, ListStatus, vars

\* Only a sensor that was answered after its row was written installs.
LEMMA StepPolled ==
  ASSUME TypeOK, PolledInv, [Next]_vars, NEW s \in Sensors, step'[s] \in {"install", "status"}
  PROVE  s \in Polled' \cup misread'
<1>1. /\ RowsOK /\ StepsOK /\ CallsOK
      /\ step[s] \in {"install", "status"} => s \in Polled \cup misread
  BY TypeParts DEF PolledInv, PolledFirst
<1>2. Polled \subseteq Polled' /\ misread \subseteq misread'
  BY PolledGrows
<1>3. CASE step'[s] = step[s] \/ step[s] = "install"
  BY <1>1, <1>2, <1>3
<1>4. ASSUME NEW c \in Calls, Handle(c) \/ StatementFails(c)
      PROVE  s \in Polled' \cup misread'
  <2>1. Busy(c) /\ call[c].of \in Sensors /\ PollWritten(c)
    BY <1>4, HandleCalls DEF PolledInv
  <2>2. CASE UNCHANGED step
    BY <1>3, <2>2
  <2>3. CASE Idle(call[c].of)
    BY <1>1, <1>3, <2>1, <2>3 DEF Idle, StepsOK
  <2>4. CASE Answer(c) /\ call[c].of = s
    BY <1>2, <2>1, <2>4 DEF Answer, PollWritten
  <2>5. CASE Answer(c) /\ call[c].of # s
    BY <1>1, <1>3, <2>1, <2>3, <2>5 DEF Answer, Refuse, StepsOK
  <2> QED
    BY <1>4, <2>2, <2>3, <2>4, <2>5 DEF Handle, StatementFails, ValidateDevice, SelectRow,
       InsertRow, UpdateRow, Refuse, Written, sensor
<1>5. ASSUME NEW r \in Sensors, CheckUpdates(r) \/ GiveUp(r)
      PROVE  s \in Polled' \cup misread'
  <2>1. CASE r # s
    BY <1>1, <1>3, <1>5, <2>1 DEF CheckUpdates, InstallNext, Poll, SendStatus, GiveUp, Idle, StepsOK
  <2>2. CASE r = s
    BY <1>1, <1>3, <1>5, <2>2 DEF CheckUpdates, InstallNext, Poll, SendStatus, GiveUp, Idle, StepsOK
  <2> QED BY <2>1, <2>2
<1>6. CASE UNCHANGED step
  BY <1>3, <1>6
<1> QED
  BY <1>4, <1>5, <1>6 DEF Next, DeleteStatus, DeleteDevice, DbtoolInsertStatus, Publish,
     ListStatus, vars, sensor

\* Only such a sensor, or dbtool, reports.
LEMMA ReportersPolled ==
  ASSUME TypeOK, PolledInv, [Next]_vars, NEW s \in Sensors, Reporters(s)' # {}
  PROVE  s \in Polled' \cup misread' \cup byhand'
<1>1. /\ RowsOK /\ StepsOK /\ CallsOK
      /\ step[s] \in {"install", "status"} => s \in Polled \cup misread
      /\ Reporters(s) # {} => s \in Polled \cup misread \cup byhand
  BY TypeParts DEF PolledInv, PolledFirst
<1>2. Polled \subseteq Polled' /\ misread \subseteq misread' /\ byhand \subseteq byhand'
  BY PolledGrows
<1>3. PICK d \in Calls : /\ call'[d].pc # "free" /\ call'[d].of = s
                         /\ call'[d].table = "status"
  BY DEF Reporters, Busy
<1>4. CASE call[d].pc # "free" /\ call'[d].of = call[d].of /\ call'[d].table = call[d].table
  <2>1. d \in Reporters(s)
    BY <1>3, <1>4 DEF Reporters, Busy
  <2> QED BY <1>1, <1>2, <2>1
<1>5. CASE call'[d] = call[d]
  BY <1>3, <1>4, <1>5
<1>6. ASSUME NEW c \in Calls, Handle(c) \/ StatementFails(c)
      PROVE  s \in Polled' \cup misread' \cup byhand'
  <2>1. CASE c # d
    BY <1>5, <1>6, <2>1, HandleCalls
  <2>2. CASE c = d
    BY <1>3, <1>4, <1>6, <2>2, HandleCalls DEF Busy
  <2> QED BY <2>1, <2>2
<1>7. ASSUME NEW r \in Sensors, NEW c \in Calls, Poll(r, c)
      PROVE  s \in Polled' \cup misread' \cup byhand'
  BY <1>3, <1>5, <1>7, ClientCalls
<1>8. ASSUME NEW r \in Sensors, NEW c \in Calls, SendStatus(r, c)
      PROVE  s \in Polled' \cup misread' \cup byhand'
  <2>1. CASE c = d
    <3>1. r = s
      BY <1>3, <1>8, <2>1, ClientCalls
    <3>2. step[s] = "install"
      BY <1>8, <3>1 DEF SendStatus
    <3> QED BY <1>1, <1>2, <3>2
  <2>2. CASE c # d
    BY <1>5, <1>8, <2>2, ClientCalls
  <2> QED BY <2>1, <2>2
<1>9. ASSUME NEW r \in Sensors, NEW c \in Calls, NEW k \in Kinds, NEW v \in Statuses,
             DbtoolInsertStatus(r, c, k, v)
      PROVE  s \in Polled' \cup misread' \cup byhand'
  <2>1. byhand' = byhand \cup {r}
    BY <1>9 DEF DbtoolInsertStatus
  <2>2. CASE c = d
    BY <1>3, <1>9, <2>1, <2>2, ClientCalls
  <2>3. CASE c # d
    BY <1>5, <1>9, <2>3, ClientCalls
  <2> QED BY <2>2, <2>3
<1>10. ASSUME NEW r \in Sensors, GiveUp(r)
       PROVE  s \in Polled' \cup misread' \cup byhand'
  BY <1>1, <1>3, <1>4, <1>10, GiveUpCalls DEF Busy
<1>11. CASE UNCHANGED call
  BY <1>5, <1>11
<1> QED
  BY <1>6, <1>7, <1>8, <1>9, <1>10, <1>11 DEF Next, CheckUpdates, InstallNext, DeleteStatus,
     DeleteDevice, Publish, ListStatus, vars

\* A row of status is first written by a report.
LEMMA RowPolled ==
  ASSUME TypeOK, PolledInv, [Next]_vars, NEW s \in Sensors, row'["status"][s] # NoRow
  PROVE  s \in Polled' \cup misread' \cup byhand'
<1>1. /\ RowsOK /\ CallsOK
      /\ Reporters(s) # {} => s \in Polled \cup misread \cup byhand
      /\ row["status"][s] # NoRow => s \in Polled \cup misread \cup byhand
  BY TypeParts DEF PolledInv, PolledFirst
<1>2. Polled \subseteq Polled' /\ misread \subseteq misread' /\ byhand \subseteq byhand'
  BY PolledGrows
<1>3. CASE row["status"][s] # NoRow \/ Reporters(s) # {}
  BY <1>1, <1>2, <1>3
<1>4. ASSUME NEW c \in Calls, InsertRow(c) \/ UpdateRow(c), Reporters(s) = {},
             row["status"][s] = NoRow
      PROVE  FALSE
  <2>1. call[c].of \in Sensors /\ call[c].table \in Tables /\ call[c].pc # "free"
    BY <1>1, <1>4, BusyRequest DEF InsertRow, UpdateRow, Busy
  <2>2. ~(call[c].of = s /\ call[c].table = "status")
    BY <1>4, <2>1 DEF Reporters, Busy
  <2>3. row'["status"][s] = row["status"][s]
    BY <1>1, <1>4, <2>1, <2>2 DEF InsertRow, UpdateRow, RowsOK, Tables
  <2> QED BY <1>4, <2>3
<1>5. ASSUME NEW r \in Sensors, DeleteStatus(r), row["status"][s] = NoRow
      PROVE  FALSE
  BY <1>1, <1>5 DEF DeleteStatus, RowsOK, Tables
<1>6. CASE UNCHANGED row
  BY <1>1, <1>2, <1>6
<1>7. CASE \/ \E c \in Calls : ValidateDevice(c) \/ SelectRow(c) \/ Answer(c) \/ StatementFails(c)
           \/ \E r \in Sensors :
                \/ CheckUpdates(r) \/ GiveUp(r) \/ DeleteDevice(r)
                \/ \E c \in Calls, k \in Kinds, v \in Statuses : DbtoolInsertStatus(r, c, k, v)
           \/ \E k \in Kinds : Publish(k)
           \/ ListStatus
           \/ UNCHANGED vars
  BY <1>6, <1>7 DEF ValidateDevice, SelectRow, Answer, StatementFails, CheckUpdates, InstallNext,
     Poll, SendStatus, GiveUp, DeleteDevice, DbtoolInsertStatus, Publish, ListStatus, vars
<1> QED BY <1>3, <1>4, <1>5, <1>7 DEF Next, Handle

\* The page reads the rows of status, then those of version, which stay.
LEMMA PageStep ==
  ASSUME TypeOK, PolledInv, [Next]_vars
  PROVE  PagePolled'
<1>1. /\ RowsOK /\ PagePolled
      /\ \A s \in Sensors : row["status"][s] # NoRow => s \in Polled \cup misread \cup byhand
  BY TypeParts DEF PolledInv, PolledFirst
<1>2. Polled \subseteq Polled' /\ misread \subseteq misread' /\ byhand \subseteq byhand'
  BY PolledGrows
<1>3. CASE UNCHANGED page
  BY <1>1, <1>2, <1>3 DEF PagePolled
<1>4. CASE ListStatus
  <2>1. page.next \in 1..3 /\ page.found \in [Tables -> SUBSET Sensors]
    BY <1>1 DEF RowsOK
  <2>2. CASE page.next = 1
    <3>1. page'.next = 2 /\ page'.found["status"] = {s \in Sensors : row["status"][s] # NoRow}
      BY <1>4, <2>1, <2>2 DEF ListStatus, Listing, Tables
    <3> QED BY <1>1, <1>2, <3>1 DEF PagePolled
  <2>3. CASE page.next = 2
    <3>1. /\ page'.next = 3 /\ page'.found["status"] = page.found["status"]
          /\ page'.found["version"] = Polled
      BY <1>4, <2>1, <2>3 DEF ListStatus, Listing, Tables, Polled
    <3> QED BY <1>1, <1>2, <2>3, <3>1 DEF PagePolled
  <2>4. CASE page.next = 3
    <3>1. page'.next = 1
      BY <1>4, <2>4 DEF ListStatus, Closed
    <3> QED BY <3>1 DEF PagePolled
  <2> QED BY <2>1, <2>2, <2>3, <2>4
<1>5. ASSUME NEW c \in Calls, Handle(c) \/ StatementFails(c) PROVE UNCHANGED page
  BY <1>5 DEF Handle, ValidateDevice, SelectRow, InsertRow, UpdateRow, Answer, StatementFails
<1>6. ASSUME NEW s \in Sensors, CheckUpdates(s) \/ GiveUp(s) PROVE UNCHANGED page
  BY <1>6 DEF CheckUpdates, InstallNext, Poll, SendStatus, GiveUp
<1>7. ASSUME NEW s \in Sensors,
             \/ DeleteStatus(s) \/ DeleteDevice(s)
             \/ \E c \in Calls, k \in Kinds, v \in Statuses : DbtoolInsertStatus(s, c, k, v)
      PROVE  UNCHANGED page
  BY <1>7 DEF DeleteStatus, DeleteDevice, DbtoolInsertStatus
<1>8. (\E k \in Kinds : Publish(k)) \/ UNCHANGED vars => UNCHANGED page
  BY DEF Publish, vars
<1> QED BY <1>3, <1>4, <1>5, <1>6, <1>7, <1>8 DEF Next

\* Every step keeps it.
LEMMA PolledStep ==
  ASSUME TypeOK, PolledInv, [Next]_vars
  PROVE  PolledInv'
<1>1. ASSUME NEW s \in Sensors PROVE PolledFirst(s)'
  BY StepPolled, ReportersPolled, RowPolled DEF PolledFirst
<1>2. ASSUME NEW c \in Calls PROVE PollWritten(c)'
  BY PollWrittenStep
<1> QED BY <1>1, <1>2, PageStep DEF PolledInv

\* At first nobody has polled.
LEMMA PolledInit == Init => PolledInv
<1> SUFFICES ASSUME Init PROVE PolledInv
  OBVIOUS
<1>1. ASSUME NEW c \in Calls PROVE PollWritten(c)
  BY DEF Init, PollWritten, Busy, Free
<1>2. ASSUME NEW s \in Sensors PROVE PolledFirst(s)
  BY DEF Init, PolledFirst, Reporters, Busy, Free, Tables
<1>3. PagePolled
  BY DEF Init, PagePolled, Closed
<1> QED BY <1>1, <1>2, <1>3 DEF PolledInv

\* The page never shows a status for a sensor it shows no versions for, unless a row
\* could not be read or dbtool wrote the status, though no transaction holds its two
\* statements together (handleListStatus).
THEOREM PageConsistent == Spec => []ListedHasPolled
<1>1. PolledInv => ListedHasPolled
  BY DEF PolledInv, PagePolled, ListedHasPolled
<1> QED BY <1>1, PolledInit, TypeCorrect, PolledStep, PTL DEF Spec
===============================================================================
