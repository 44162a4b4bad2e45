------------------------------- MODULE Reporting -------------------------------
(***************************************************************************)
(* What the server knows of its sensors: the rows of `version' and         *)
(* `status', written by every poll (src/apis/handlers_network_agents.go,   *)
(* InsertVersions and InsertStatus of src/apis/dbutil.go) and read by the  *)
(* UI (handleListStatus of src/apis/handlers_resources.go).                *)
(*                                                                         *)
(* A sensor posts its versions, installs what it is offered and posts the  *)
(* outcome.  Its HTTP client waits api_server_timeout seconds; the handler *)
(* does not notice that nobody waits and goes on.  supervisord restarts a  *)
(* killed updater, which polls at once.  So more than one handler may be   *)
(* at work for a sensor, each with the row it read.                        *)
(*                                                                         *)
(* A handler takes one step per SQL statement.  `version' and `status'     *)
(* have the same columns and the same three statements.                    *)
(***************************************************************************)
EXTENDS Integers

CONSTANTS
  Sensors,    \* registered sensors
  Calls,      \* handlers that may be at work at a time
  MaxRelease, \* [Kinds -> Nat]: bound on the releases published of each kind
  MaxEdits,   \* bound on the operations of dbtool
  MaxFaults,  \* bound on failures
  Faulty,     \* what may fail: "timeout" (client or updater), "statement"
  Success, Failed, \* "SUCCESS" and "FAILED" in a column of status
  Blank,      \* the empty string in a column or in a report
  NoRow       \* a row that is not there

Kinds    == {"software", "rules", "threatintel"}
Tables   == {"version", "status"}
Statuses == {Success, Failed}

ASSUME ReleaseAssumption == MaxRelease \in [Kinds -> Nat]
ASSUME BoundsAssumption  == MaxEdits \in Nat /\ MaxFaults \in Nat
ASSUME StatusAssumption  == Success # Failed /\ Success \notin Nat /\ Failed \notin Nat
ASSUME BlankAssumption   == Blank \notin Nat \cup Statuses
ASSUME RowAssumption     == NoRow \notin [Kinds -> Nat \cup Statuses \cup {Blank}]

VARIABLES
  latest,      \* the newest release of each kind in the server's tables; 0: no row
  registered,  \* sensors whose device and key are there
  row,         \* row[t][s]: the row of sensor s in table t
  call,        \* each handler: its sensor, table, report, next statement, row read
  has,         \* hndr-config.json of each sensor
  step,        \* where each sensor is in CheckUpdates
  offer, todo, \* the kinds it was offered, with their releases; those left
  outcome,     \* upInfo: the status of each kind so far
  page,        \* handleListStatus: tables read so far, sensors found in each
  edits, budget,
  recorded,    \* history: the reports that were answered "ok", merged
  overlap,     \* history: sensors with two reports at work at a time
  misread,     \* history: sensors whose row could not be read
  byhand       \* history: sensors whose status dbtool wrote or deleted

server == <<latest, registered>>
sensor == <<has, step, offer, todo, outcome>>
notes  == <<recorded, overlap, misread, byhand>>
vars   == <<server, row, call, sensor, page, edits, budget, notes>>

None   == [k \in Kinds |-> Blank]
Zero   == [k \in Kinds |-> 0]
Report == [Kinds -> Nat \cup Statuses \cup {Blank}]
Free   == [pc |-> "free"]
Closed == [next |-> 1, found |-> [t \in Tables |-> {}]]

Init ==
  /\ latest = Zero /\ registered = Sensors
  /\ row = [t \in Tables |-> [s \in Sensors |-> NoRow]]
  /\ call = [c \in Calls |-> Free]
  /\ has = [s \in Sensors |-> Zero]
  /\ step = [s \in Sensors |-> "idle"]
  /\ offer = [s \in Sensors |-> Zero] /\ todo = [s \in Sensors |-> {}]
  /\ outcome = [s \in Sensors |-> None]
  /\ page = Closed
  /\ edits = MaxEdits /\ budget = MaxFaults
  /\ recorded = [s \in Sensors |-> NoRow]
  /\ overlap = {} /\ misread = {} /\ byhand = {}

(***************************************************************************)
(* Helpers                                                                 *)
(***************************************************************************)

Fault(f) == f \in Faulty /\ budget > 0 /\ budget' = budget - 1
NoFault  == UNCHANGED budget
Edit     == edits > 0 /\ edits' = edits - 1

Busy(c)      == call[c].pc # "free"
Goto(c, l)   == call' = [call EXCEPT ![c].pc = l]
Reporters(s) == {c \in Calls : Busy(c) /\ call[c].of = s /\ call[c].table = "status"}

\* Mutant: an empty status overwrites the one before.
MergeWhole(cur, body) == body

\* Mutant: a column that is not empty is not written again.
MergeOnce(cur, body) == [k \in Kinds |-> IF cur[k] = Blank THEN body[k] ELSE cur[k]]

\* The columns InsertStatus and InsertVersions write: an empty one keeps what
\* the row had when it was read.
Merge(cur, body) == [k \in Kinds |-> IF body[k] = Blank THEN cur[k] ELSE body[k]]

\* The order of CheckUpdates.
First(K) == IF "software" \in K THEN "software"
            ELSE IF "rules" \in K THEN "rules" ELSE "threatintel"

\* A request arrives: `open' says whether its client still waits.
Request(c, s, t, body, open) ==
  /\ ~Busy(c)
  /\ call' = [call EXCEPT ![c] = [pc |-> "ValidateDevice", of |-> s, table |-> t,
                                  body |-> body, cur |-> None, open |-> open]]

\* A report of s begins: is another one at work?
NoteOverlap(s) == overlap' = IF Reporters(s) = {} THEN overlap ELSE overlap \cup {s}

(***************************************************************************)
(* The sensor: CheckUpdates                                                *)
(***************************************************************************)

Idle(s) ==
  /\ step' = [step EXCEPT ![s] = "idle"]
  /\ offer' = [offer EXCEPT ![s] = Zero]
  /\ todo' = [todo EXCEPT ![s] = {}]
  /\ outcome' = [outcome EXCEPT ![s] = None]

\* Authenticate, LoadJSONConfig and the request of GetUpdateManifest.
Poll(s, c) ==
  /\ step[s] = "idle" /\ s \in registered
  /\ Request(c, s, "version", has[s], TRUE)
  /\ step' = [step EXCEPT ![s] = "manifest"]
  /\ NoFault
  /\ UNCHANGED <<server, row, has, offer, todo, outcome, page, edits, notes>>

\* DownloadFile and Upate*Now of the next kind.  Threat intelligence that was
\* downloaded is a success and is not recorded: UpateThreatIntelNow.
InstallNext(s) ==
  /\ step[s] = "install" /\ todo[s] # {}
  /\ LET k == First(todo[s]) IN
       /\ todo' = [todo EXCEPT ![s] = @ \ {k}]
       /\ \/ /\ outcome' = [outcome EXCEPT ![s][k] = Success]
             /\ has' = [has EXCEPT ![s][k] = IF k = "threatintel" THEN @ ELSE offer[s][k]]
             /\ NoFault
          \/ /\ outcome' = [outcome EXCEPT ![s][k] = Failed]
             /\ Fault("timeout") /\ UNCHANGED has
  /\ UNCHANGED <<server, row, call, step, offer, page, edits, notes>>

SendStatus(s, c) ==
  /\ step[s] = "install" /\ todo[s] = {}
  /\ Request(c, s, "status", outcome[s], TRUE)
  /\ NoteOverlap(s)
  /\ step' = [step EXCEPT ![s] = "status"]
  /\ NoFault
  /\ UNCHANGED <<server, row, has, offer, todo, outcome, page, edits, recorded, misread, byhand>>

\* The client's timeout, a broken connection or the end of the process: the
\* sensor polls again later.  Its request goes on if it has arrived.
GiveUp(s) ==
  /\ step[s] # "idle" /\ Fault("timeout")
  /\ Idle(s)
  /\ \E lost \in SUBSET {c \in Calls : call[c].pc = "ValidateDevice" /\ call[c].of = s} :
       call' = [c \in Calls |->
                  IF c \in lost /\ call[c].open THEN Free
                  ELSE IF Busy(c) /\ call[c].of = s THEN [call[c] EXCEPT !.open = FALSE]
                  ELSE call[c]]
  /\ UNCHANGED <<server, row, has, page, edits, notes>>

(***************************************************************************)
(* The handlers: handleUpdates and handleStatus                            *)
(***************************************************************************)

\* Mutant: the answer of a handler whose client is gone ends a later poll.
RefuseAnyone(c) == call' = [call EXCEPT ![c] = Free] /\ Idle(call[c].of)

\* The handler ends with an error: the client, if it waits, gives up its poll.
Refuse(c) ==
  /\ call' = [call EXCEPT ![c] = Free]
  /\ IF call[c].open THEN Idle(call[c].of) ELSE UNCHANGED <<step, offer, todo, outcome>>

\* The statement of the handler fails.
StatementFails(c) ==
  /\ Busy(c) /\ call[c].pc # "SELECT" /\ Fault("statement")
  /\ Refuse(c)
  /\ UNCHANGED <<server, row, has, page, edits, notes>>

\* authenticate and ValidateDevice: the keys go with the device.
ValidateDevice(c) ==
  /\ call[c].pc = "ValidateDevice"
  /\ IF call[c].of \in registered
       THEN Goto(c, "SELECT") /\ UNCHANGED <<step, offer, todo, outcome>>
       ELSE Refuse(c)
  /\ NoFault
  /\ UNCHANGED <<server, row, has, page, edits, notes>>

\* Only sql.ErrNoRows is told from success: after any other error the handler
\* goes on to the UPDATE with empty columns.
SelectRow(c) ==
  /\ call[c].pc = "SELECT"
  /\ LET s   == call[c].of
         cur == row[call[c].table][s]
     IN \/ /\ call' = [call EXCEPT ![c].pc  = IF cur = NoRow THEN "INSERT" ELSE "UPDATE",
                                   ![c].cur = IF cur = NoRow THEN None ELSE cur]
           /\ NoFault /\ UNCHANGED misread
        \/ /\ Goto(c, "UPDATE")
           /\ misread' = misread \cup {s} /\ Fault("statement")
  /\ UNCHANGED <<server, row, sensor, page, edits, recorded, overlap, byhand>>

\* What follows the last statement on the row: handleStatus answers, and the
\* sensor's poll is over; handleUpdates goes on.
Written(c) ==
  LET s == call[c].of IN
  IF call[c].table = "version"
    THEN /\ Goto(c, "rows")
         /\ UNCHANGED <<step, offer, todo, outcome, recorded>>
    ELSE /\ call' = [call EXCEPT ![c] = Free]
         /\ recorded' = [recorded EXCEPT ![s] = [k \in Kinds |->
                           IF call[c].body[k] # Blank THEN call[c].body[k]
                           ELSE IF @ = NoRow THEN Blank ELSE @[k]]]
         /\ IF call[c].open THEN Idle(s) ELSE UNCHANGED <<step, offer, todo, outcome>>

\* The primary key refuses the row if another handler was faster.
InsertRow(c) ==
  /\ call[c].pc = "INSERT"
  /\ LET t == call[c].table
         s == call[c].of
     IN IF row[t][s] = NoRow
          THEN row' = [row EXCEPT ![t][s] = call[c].body] /\ Written(c)
          ELSE Refuse(c) /\ UNCHANGED <<row, recorded>>
  /\ NoFault
  /\ UNCHANGED <<server, has, page, edits, overlap, misread, byhand>>

\* An UPDATE that finds no row is no error.
UpdateRow(c) ==
  /\ call[c].pc = "UPDATE"
  /\ row' = [row EXCEPT ![call[c].table][call[c].of] =
               IF @ = NoRow THEN NoRow ELSE Merge(call[c].cur, call[c].body)]
  /\ Written(c)
  /\ NoFault
  /\ UNCHANGED <<server, has, page, edits, overlap, misread, byhand>>

\* isUpdateNeeded, for releases numbered as they are published.
Needed(has_) == {k \in Kinds : latest[k] > has_[k]}

\* The rest of handleUpdates: 404 when the device or the rows of a kind are
\* gone, else the manifest; a sensor that needs nothing has nothing to report.
Answer(c) ==
  /\ call[c].pc = "rows"
  /\ LET s == call[c].of IN
     IF s \notin registered \/ (\E k \in Kinds : latest[k] = 0) \/ Needed(call[c].body) = {}
       THEN Refuse(c)
       ELSE /\ call' = [call EXCEPT ![c] = Free]
            /\ IF call[c].open
                 THEN /\ step' = [step EXCEPT ![s] = "install"]
                      /\ offer' = [offer EXCEPT ![s] = latest]
                      /\ todo' = [todo EXCEPT ![s] = Needed(call[c].body)]
                      /\ UNCHANGED outcome
                 ELSE UNCHANGED <<step, offer, todo, outcome>>
  /\ NoFault
  /\ UNCHANGED <<server, row, has, page, edits, notes>>

(***************************************************************************)
(* Operators and the UI                                                    *)
(***************************************************************************)

Publish(k) ==
  /\ latest[k] < MaxRelease[k]
  /\ latest' = [latest EXCEPT ![k] = @ + 1]
  /\ UNCHANGED <<registered, row, call, sensor, page, edits, budget, notes>>

\* dbtool's insert-status: the same function, without a client.
DbtoolInsertStatus(s, c, k, v) ==
  /\ Edit
  /\ Request(c, s, "status", [None EXCEPT ![k] = v], FALSE)
  /\ NoteOverlap(s)
  /\ byhand' = byhand \cup {s}
  /\ UNCHANGED <<server, row, sensor, page, budget, recorded, misread>>

\* dbtool's delete-status.
DeleteStatus(s) ==
  /\ s \in registered /\ row["status"][s] # NoRow /\ Edit
  /\ row' = [row EXCEPT !["status"][s] = NoRow]
  /\ byhand' = byhand \cup {s}
  /\ UNCHANGED <<server, call, sensor, page, budget, recorded, overlap, misread>>

\* dbtool's delete-device: the rows of version and status stay.
DeleteDevice(s) ==
  /\ s \in registered /\ Edit
  /\ registered' = registered \ {s}
  /\ UNCHANGED <<latest, row, call, sensor, page, budget, notes>>

\* Mutant: who has polled is read first.
ListingVersionsFirst == <<"version", "status">>

\* The statements of handleListStatus: ListStatusByTenant, ListVersionsByTenant.
Listing == <<"status", "version">>

\* The next statement of handleListStatus, or the answer is there and the
\* user leaves the page.
ListStatus ==
  /\ page' = IF page.next > 2 THEN Closed
             ELSE [next |-> page.next + 1,
                   found |-> [page.found EXCEPT ![Listing[page.next]] =
                                {s \in Sensors : row[Listing[page.next]][s] # NoRow}]]
  /\ UNCHANGED <<server, row, call, sensor, edits, budget, notes>>

(***************************************************************************)
(* Specification                                                           *)
(***************************************************************************)

Handle(c) ==
  \/ ValidateDevice(c) \/ SelectRow(c) \/ InsertRow(c) \/ UpdateRow(c) \/ Answer(c)

CheckUpdates(s) ==
  InstallNext(s) \/ \E c \in Calls : Poll(s, c) \/ SendStatus(s, c)

Next ==
  \/ \E c \in Calls : Handle(c) \/ StatementFails(c)
  \/ \E s \in Sensors :
       \/ CheckUpdates(s) \/ GiveUp(s) \/ DeleteStatus(s) \/ DeleteDevice(s)
       \/ \E c \in Calls, k \in Kinds, v \in Statuses : DbtoolInsertStatus(s, c, k, v)
  \/ \E k \in Kinds : Publish(k)
  \/ ListStatus

Spec == Init /\ [][Next]_vars

\* The updater polls for ever, and a handler runs to its end, client or not.
FairSpec ==
  /\ Spec
  /\ \A s \in Sensors : WF_vars(CheckUpdates(s))
  /\ \A c \in Calls : WF_vars(Handle(c))

(***************************************************************************)
(* Properties                                                              *)
(***************************************************************************)

Request_ ==
  [pc : {"ValidateDevice", "SELECT", "INSERT", "UPDATE", "rows"}, of : Sensors,
   table : Tables, body : Report, cur : Report, open : BOOLEAN]

\* The types; a handler that still has a client is the one its sensor waits for,
\* and a sensor waits for at most one.
TypeOK ==
  /\ latest \in [Kinds -> Nat] /\ registered \subseteq Sensors
  /\ row \in [Tables -> [Sensors -> Report \cup {NoRow}]]
  /\ call \in [Calls -> Request_ \cup {Free}]
  /\ has \in [Sensors -> [Kinds -> Nat]] /\ offer \in [Sensors -> [Kinds -> Nat]]
  /\ step \in [Sensors -> {"idle", "manifest", "install", "status"}]
  /\ todo \in [Sensors -> SUBSET Kinds]
  /\ outcome \in [Sensors -> [Kinds -> Statuses \cup {Blank}]]
  /\ page \in [next : 1..3, found : [Tables -> SUBSET Sensors]]
  /\ edits \in Nat /\ budget \in Nat
  /\ recorded \in [Sensors -> Report \cup {NoRow}]
  /\ overlap \subseteq Sensors /\ misread \subseteq Sensors /\ byhand \subseteq Sensors
  /\ \A c, d \in Calls :
       Busy(c) /\ call[c].open =>
         /\ step[call[c].of] = IF call[c].table = "version" THEN "manifest" ELSE "status"
         /\ Busy(d) /\ call[d].open /\ call[d].of = call[c].of => c = d

\* The status row of a sensor is what its reports said, each column the last one
\* that was not empty (docs/hndr-api.yaml:607).
LastReported == \A s \in Sensors : row["status"][s] = recorded[s]

\* So it is unless two reports of the sensor were at work at a time, its row
\* could not be read, or dbtool changed it: however late a report is, alone it
\* does not undo another.
LastReportedAlone ==
  \A s \in Sensors \ (overlap \cup misread \cup byhand) : row["status"][s] = recorded[s]

\* The page never says of a sensor that reported a status that it has never
\* polled: a status follows a poll that recorded the versions, and the page
\* reads the versions after the statuses.
ListedHasPolled ==
  page.next = 3 =>
    page.found["status"] \ (misread \cup byhand) \subseteq page.found["version"]

\* Whatever timeouts, lost and overlapping reports did, the versions the server
\* shows are in the end those the sensor has, because every poll repeats them.
VersionsCatchUp ==
  \A s \in Sensors : <>[](s \in registered => row["version"][s] = has[s])
===============================================================================
