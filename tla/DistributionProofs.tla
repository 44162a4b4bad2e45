--------------------------- MODULE DistributionProofs ---------------------------
(***************************************************************************)
(* Theorems about the distribution of packages, for any sensors, tenants,  *)
(* runs of objupdater, versions, contents and bounds: its invariants, and  *)
(* that it implements Rollout.                                             *)
(***************************************************************************)
EXTENDS Distribution, SequenceTheorems, TLAPS

Row == Releases \cup {Nothing}

\* The channel a sensor follows is one.
LEMMA ChannelType ==
  ASSUME NEW s \in Sensors, NEW k \in Kinds
  PROVE  /\ ChannelOf(s, k) \in Channels
         /\ k = "software" => ChannelOf(s, k) = "software"
         /\ k = "rules" => ChannelOf(s, k) = TenantOf[s] /\ TenantOf[s] \in Channels
         /\ k = "threatintel" => ChannelOf(s, k) = "threatintel"
BY TenantsAssumption DEF ChannelOf, Channels, Kinds

\* A package has a channel and a release.
LEMMA PackageType ==
  ASSUME NEW i \in Packages
  PROVE  i[1] \in Channels /\ i[2] \in Releases
BY PackagesAssumption

\* Replacing the row of a version by another, or by none, gives a table.
LEMMA ReplacedType ==
  ASSUME TypeOK, NEW c \in Channels, NEW v, NEW r \in Row
  PROVE  Replaced(c, v, r) \in [Channels -> Seq(Row)]
<1> DEFINE rows == [i \in DOMAIN table[c] |-> IF table[c][i].version = v THEN r ELSE table[c][i]]
<1>1. table \in [Channels -> Seq(Row)] /\ table[c] \in Seq(Row)
  BY DEF TypeOK, Row
<1>2. /\ Len(table[c]) \in Nat /\ DOMAIN table[c] = 1..Len(table[c])
      /\ \A i \in 1..Len(table[c]) : table[c][i] \in Row
  BY <1>1
<1>3. rows \in Seq(Row)
  BY <1>2
<1>4. Replaced(c, v, r) = [table EXCEPT ![c] = rows]
  BY DEF Replaced
<1> HIDE DEF rows
<1>5. QED
  BY <1>1, <1>3, <1>4

\* Appending a row gives a table.
LEMMA AppendType ==
  ASSUME TypeOK, NEW c \in Channels, NEW r \in Releases
  PROVE  [table EXCEPT ![c] = Append(@, r)] \in [Channels -> Seq(Row)]
<1>1. table \in [Channels -> Seq(Row)] /\ table[c] \in Seq(Row) /\ r \in Row
  BY DEF TypeOK, Row
<1>2. Append(table[c], r) \in Seq(Row)
  BY <1>1, AppendProperties
<1>3. QED
  BY <1>1, <1>2

\* Adding a release to those of a channel.
LEMMA AddedType ==
  ASSUME NEW f \in [Channels -> SUBSET Releases], NEW c \in Channels, NEW r \in Releases
  PROVE  /\ [f EXCEPT ![c] = @ \cup {r}] \in [Channels -> SUBSET Releases]
         /\ \A d \in Channels : f[d] \subseteq [f EXCEPT ![c] = @ \cup {r}][d]
         /\ r \in [f EXCEPT ![c] = @ \cup {r}][c]
OBVIOUS

\* The queries of handleUpdates answer with rows of the tables.
LEMMA ChosenRows ==
  /\ \A v : Chosen(v) \subseteq Rows("software")
  /\ \A c : Latest(c) \subseteq Rows(c)
BY DEF Chosen, RowsOf, Latest, Rows

\* The rows are releases.
LEMMA RowsType ==
  ASSUME TypeOK, NEW c \in Channels
  PROVE  Rows(c) \subseteq Releases
<1>1. table[c] \in Seq(Releases \cup {Nothing})
  BY DEF TypeOK
<1>2. \A i \in DOMAIN table[c] : table[c][i] \in Releases \cup {Nothing}
  BY <1>1
<1>3. QED
  BY <1>2 DEF Rows, Ids

\* Replacing rows brings in no other row, and leaves the other channels alone.
LEMMA RowsReplaced ==
  ASSUME TypeOK, NEW c \in Channels, NEW v, NEW r \in Row, table' = Replaced(c, v, r)
  PROVE  /\ Rows(c)' \subseteq Rows(c) \cup ({r} \ {Nothing})
         /\ \A d \in Channels \ {c} : Rows(d)' = Rows(d)
<1>1. table' = [table EXCEPT ![c] =
                 [i \in DOMAIN table[c] |-> IF table[c][i].version = v THEN r ELSE table[c][i]]]
  BY DEF Replaced
<1>2. table'[c] = [i \in DOMAIN table[c] |-> IF table[c][i].version = v THEN r ELSE table[c][i]]
  BY <1>1 DEF TypeOK
<1>3. DOMAIN table'[c] = DOMAIN table[c]
  BY <1>2
<1>4. \A i \in DOMAIN table[c] : table'[c][i] = r \/ table'[c][i] = table[c][i]
  BY <1>2
<1>5. \A d \in Channels \ {c} : table'[d] = table[d]
  BY <1>1 DEF TypeOK
<1>6. QED
  BY <1>3, <1>4, <1>5 DEF Rows, Ids

\* Appending a row brings in no other.
LEMMA RowsAppended ==
  ASSUME TypeOK, NEW c \in Channels, NEW r \in Releases,
         table' = [table EXCEPT ![c] = Append(@, r)]
  PROVE  /\ Rows(c)' \subseteq Rows(c) \cup {r}
         /\ \A d \in Channels \ {c} : Rows(d)' = Rows(d)
<1>1. table[c] \in Seq(Row) /\ r \in Row
  BY DEF TypeOK, Row
<1>2. table'[c] = Append(table[c], r)
  BY DEF TypeOK
<1>3. /\ DOMAIN table[c] = 1..Len(table[c])
      /\ DOMAIN table'[c] = 1..(Len(table[c]) + 1)
      /\ \A i \in 1..Len(table[c]) : table'[c][i] = table[c][i]
      /\ table'[c][Len(table[c]) + 1] = r
      /\ Len(table[c]) \in Nat
  BY <1>1, <1>2
<1>4. \A d \in Channels \ {c} : table'[d] = table[d]
  BY DEF TypeOK
<1>5. QED
  BY <1>3, <1>4 DEF Rows, Ids

\* The initial state is well typed.
LEMMA TypeInit == Init => TypeOK
<1> SUFFICES ASSUME Init PROVE TypeOK
  OBVIOUS
<1>1. PICK old \in [Channels -> Releases \cup {Nothing}] :
        /\ table = [c \in Channels |-> IF old[c] = Nothing THEN << >> ELSE <<old[c]>>]
        /\ bucket = [c \in Channels |-> [v \in Versions |->
                       IF v = old[c].version THEN old[c].digest ELSE Empty]]
        /\ announced = [c \in Channels |-> {old[c]} \ {Nothing}]
  BY DEF Init
<1>2. table \in [Channels -> Seq(Releases \cup {Nothing})]
  <2>1. << >> \in Seq(Row) /\ \A r \in Row : <<r>> \in Seq(Row)
    OBVIOUS
  <2>2. \A c \in Channels : (IF old[c] = Nothing THEN << >> ELSE <<old[c]>>) \in Seq(Row)
    BY <1>1, <2>1 DEF Row
  <2>3. QED
    BY <1>1, <2>2 DEF Row
<1>3. \A c \in Channels, v \in Versions :
        v = old[c].version => old[c].digest \in Contents
  BY <1>1, VersionsAssumption DEF Releases, Nothing
<1>4. bucket \in [Channels -> [Versions -> Contents \cup {Empty}]]
  BY <1>1, <1>3
<1>5. announced \in [Channels -> SUBSET Releases]
  BY <1>1
<1>6. "software" \in Channels
  BY DEF Channels
<1>7. QED
  BY <1>2, <1>4, <1>5, <1>6, BoundsAssumption DEF Init, TypeOK, NoItems

\* A poll that is over, and one that is done with an item, are well typed.
LEMMA PollType ==
  ASSUME TypeOK, NEW s \in Sensors,
         UNCHANGED <<server, reported, publish, changes>>, budget' \in Nat,
         installed' \in [Sensors -> [Kinds -> Releases \cup {Nothing}]],
         Idle(s) \/ \E k \in Kinds : Done(s, k)
  PROVE  TypeOK'
<1>1. /\ at' \in [Sensors -> {"idle", "devices", "hndr_sw", "hndr_rules", "threatintel",
                              "download", "install"}]
      /\ want' \in [Sensors -> Versions \cup {0}]
      /\ got' \in [Sensors -> Contents \cup {Empty}]
  BY DEF TypeOK, Idle, Done, Proceed
<1>2. offer' \in [Sensors -> [Kinds -> Releases \cup {Nothing}]]
  <2>1. CASE Idle(s)
    BY <2>1 DEF TypeOK, Idle, NoItems
  <2>2. CASE \E k \in Kinds : Done(s, k)
    BY <2>2 DEF TypeOK, Done
  <2>3. QED
    BY <2>1, <2>2
<1>3. \A q \in Sensors \ {s} : at'[q] = at[q] /\ offer'[q] = offer[q] /\ got'[q] = got[q]
  BY DEF TypeOK, Idle, Done, Proceed
<1>4. at'[s] # "idle" => at'[s] = "download" /\ offer'[s] # NoItems
  <2>1. CASE Idle(s)
    BY <2>1 DEF TypeOK, Idle, Proceed
  <2>2. ASSUME NEW k \in Kinds, Done(s, k)
        PROVE  at'[s] # "idle" => at'[s] = "download" /\ offer'[s] # NoItems
    <3>1. at'[s] = IF \E l \in Kinds \ {k} : offer[s][l] # Nothing THEN "download" ELSE "idle"
      BY <2>2 DEF TypeOK, Done, Proceed
    <3>2. \A l \in Kinds \ {k} : offer'[s][l] = offer[s][l]
      BY <2>2 DEF TypeOK, Done
    <3>3. \A l \in Kinds : NoItems[l] = Nothing
      BY DEF NoItems
    <3>4. QED
      BY <3>1, <3>2, <3>3
  <2>3. QED
    BY <2>1, <2>2
<1>5. \A q \in Sensors :
        /\ at'[q] \in {"download", "install"} => offer'[q] # NoItems
        /\ at'[q] = "install" => got'[q] \in Contents
  BY <1>3, <1>4 DEF TypeOK
<1>6. UNCHANGED <<table, bucket, pin, announced, unserved, pc, target, job, reported, changes>>
  BY DEF server, publish
<1>7. NoItems' = NoItems
  BY DEF NoItems, Nothing
<1>8. QED
  BY <1>1, <1>2, <1>5, <1>6, <1>7 DEF TypeOK

\* Every step of objupdater and dbtool keeps the types.
LEMMA PublishType ==
  ASSUME TypeOK, NEW p \in Publishers, Publish(p)
  PROVE  TypeOK'
<1>1. ASSUME NEW i \in Packages, Start(p, i[1], i[2])
      PROVE  TypeOK'
  BY <1>1, PackageType DEF Start, TypeOK, server, poll, NoFault, Change, Nothing, NoItems
<1>2. ASSUME NEW i \in Packages, DbtoolInsert(p, i[1], i[2])
      PROVE  TypeOK'
  <2>1. i[1] \in Channels /\ i[2] \in Releases
    BY PackageType
  <2>2. unserved' \in [Channels -> SUBSET Releases]
    BY <1>2, <2>1 DEF DbtoolInsert, TypeOK
  <2>3. QED
    BY <1>2, <2>1, <2>2 DEF DbtoolInsert, TypeOK, poll, NoFault, Change, Nothing, NoItems
<1>3. CASE Fail(p)
  BY <1>3 DEF Fail, TypeOK, server, poll, Fault, Finish, Nothing, Channels, NoItems
<1>4. CASE uploadToMinio(p)
  <2>1. /\ job[p] \in Releases /\ job[p].version \in Versions /\ job[p].digest \in Contents
        /\ target[p] \in Channels
    BY <1>4 DEF uploadToMinio, TypeOK, Releases
  <2>2. bucket' \in [Channels -> [Versions -> Contents \cup {Empty}]]
    <3>1. bucket \in [Channels -> [Versions -> Contents \cup {Empty}]]
      BY DEF TypeOK
    <3>2. \/ bucket' = bucket
          \/ bucket' = [bucket EXCEPT ![target[p]][job[p].version] = job[p].digest]
      BY <1>4 DEF uploadToMinio
    <3>3. QED
      BY <2>1, <3>1, <3>2
  <2>3. unserved' \in [Channels -> SUBSET Releases]
    <3>1. unserved \in [Channels -> SUBSET Releases]
      BY DEF TypeOK
    <3>2. \/ unserved' = unserved
          \/ unserved' = [unserved EXCEPT ![target[p]] = @ \cup {job[p]}]
      BY <1>4 DEF uploadToMinio
    <3>3. QED
      BY <2>1, <3>1, <3>2, AddedType
  <2>4. QED
    BY <1>4, <2>2, <2>3 DEF uploadToMinio, TypeOK, poll, NoFault, Goto, Nothing, NoItems
<1>5. CASE uploadMetadataJSON(p)
  BY <1>5 DEF uploadMetadataJSON, TypeOK, server, poll, NoFault, Goto, Nothing, NoItems
<1>6. CASE updateDatabase(p)
  BY <1>6 DEF updateDatabase, InsertHndrSw, InsertHndrRules, InsertThreatIntel, SelectRow,
              TypeOK, server, poll, NoFault, Goto, Finish, Nothing, Channels, NoItems
<1>7. CASE InsertRow(p)
  <2>1. job[p] \in Releases /\ target[p] \in Channels
    BY <1>7 DEF InsertRow, TypeOK
  <2>2. table' \in [Channels -> Seq(Releases \cup {Nothing})]
    <3>1. table \in [Channels -> Seq(Releases \cup {Nothing})]
      BY DEF TypeOK
    <3>2. \/ table' = table
          \/ table' = [table EXCEPT ![target[p]] = Append(@, job[p])]
      BY <1>7 DEF InsertRow
    <3>3. [table EXCEPT ![target[p]] = Append(@, job[p])] \in [Channels -> Seq(Row)]
      BY ONLY TypeOK, <2>1, AppendType
    <3>4. QED
      BY <3>1, <3>2, <3>3 DEF Row
  <2>3. announced' \in [Channels -> SUBSET Releases]
    <3>1. announced \in [Channels -> SUBSET Releases]
      BY DEF TypeOK
    <3>2. \/ announced' = announced
          \/ announced' = [announced EXCEPT ![target[p]] = @ \cup {job[p]}]
      BY <1>7 DEF InsertRow
    <3>3. QED
      BY <2>1, <3>1, <3>2, AddedType
  <2>4. QED
    BY <1>7, <2>2, <2>3 DEF InsertRow, TypeOK, poll, NoFault, Finish, Nothing, Channels, NoItems
<1>8. CASE UpdateRow(p)
  <2>1. job[p] \in Releases /\ target[p] \in Channels
    BY <1>8 DEF UpdateRow, TypeOK
  <2>2. table' \in [Channels -> Seq(Releases \cup {Nothing})]
    BY <1>8, <2>1, ReplacedType DEF UpdateRow, Row, TypeOK
  <2>3. announced' \in [Channels -> SUBSET Releases]
    <3>1. announced \in [Channels -> SUBSET Releases]
      BY DEF TypeOK
    <3>2. \/ announced' = announced
          \/ announced' = [announced EXCEPT ![target[p]] = @ \cup {job[p]}]
      BY <1>8 DEF UpdateRow
    <3>3. QED
      BY <2>1, <3>1, <3>2, AddedType
  <2>4. QED
    BY <1>8, <2>2, <2>3 DEF UpdateRow, TypeOK, poll, NoFault, Finish, Nothing, Channels, NoItems
<1>9. QED
  BY <1>1, <1>2, <1>3, <1>4, <1>5, <1>6, <1>7, <1>8 DEF Publish, Objupdater

\* Every step of a request keeps the types.
LEMMA RequestType ==
  ASSUME TypeOK, NEW s \in Sensors, Request(s)
  PROVE  TypeOK'
<1>1. CASE InsertVersions(s)
  <2>1. \A k \in Kinds : installed[s][k] # Nothing => installed[s][k].version \in Versions
    BY DEF TypeOK, Releases
  <2>2. reported' \in [Sensors -> [Kinds -> Versions \cup {0}]]
    BY <1>1, <2>1 DEF InsertVersions, TypeOK
  <2>3. QED
    BY <1>1, <2>2 DEF InsertVersions, TypeOK, server, publish, NoFault, Proceed, Nothing, NoItems
<1>2. CASE ReadDevice(s)
  BY <1>2 DEF ReadDevice, TypeOK, server, publish, NoFault, Proceed, Nothing, NoItems
<1>3. CASE ReadSoftware(s) /\ ~Idle(s)
  <2>1. PICK r \in Chosen(want[s]) :
          /\ offer' = [offer EXCEPT ![s]["software"] = r]
          /\ want' = [want EXCEPT ![s] = 0]
          /\ Proceed(s, "hndr_rules") /\ UNCHANGED got
    BY <1>3 DEF ReadSoftware, Missing
  <2>2. r \in Releases
    BY ChosenRows, RowsType DEF Channels
  <2>3. offer' \in [Sensors -> [Kinds -> Releases \cup {Nothing}]]
    BY <2>1, <2>2 DEF TypeOK
  <2>4. \A q \in Sensors \ {s} : at'[q] = at[q] /\ offer'[q] = offer[q]
    BY <2>1 DEF TypeOK, Proceed
  <2>5. at'[s] = "hndr_rules"
    BY <2>1 DEF TypeOK, Proceed
  <2>6. QED
    BY <1>3, <2>1, <2>3, <2>4, <2>5 DEF ReadSoftware, TypeOK, server, publish, NoFault, Proceed,
                                        Nothing, NoItems
<1>4. CASE ReadRules(s) /\ ~Idle(s)
  <2>1. PICK r \in Latest(TenantOf[s]) :
          /\ offer' = [offer EXCEPT ![s]["rules"] = r]
          /\ Proceed(s, "threatintel") /\ UNCHANGED <<want, got>>
    BY <1>4 DEF ReadRules, Missing
  <2>2. r \in Releases
    BY ChosenRows, RowsType, TenantsAssumption DEF Channels
  <2>3. offer' \in [Sensors -> [Kinds -> Releases \cup {Nothing}]]
    BY <2>1, <2>2 DEF TypeOK
  <2>4. \A q \in Sensors \ {s} : at'[q] = at[q] /\ offer'[q] = offer[q]
    BY <2>1 DEF TypeOK, Proceed
  <2>5. at'[s] = "threatintel"
    BY <2>1 DEF TypeOK, Proceed
  <2>6. QED
    BY <1>4, <2>1, <2>3, <2>4, <2>5 DEF ReadRules, TypeOK, server, publish, NoFault, Proceed,
                                        Nothing, NoItems
<1>5. CASE ReadThreatIntel(s) /\ ~Idle(s)
  <2> DEFINE items(r) == Needed(s, [offer[s] EXCEPT !["threatintel"] = r])
  <2>1. PICK r \in Latest("threatintel") :
          /\ offer' = [offer EXCEPT ![s] = items(r)]
          /\ Proceed(s, IF items(r) = NoItems THEN "idle" ELSE "download")
          /\ UNCHANGED <<want, got>>
    BY <1>5 DEF ReadThreatIntel, Missing
  <2>2. r \in Releases
    BY ChosenRows, RowsType DEF Channels
  <2>3. items(r) \in [Kinds -> Releases \cup {Nothing}]
    BY <2>2 DEF TypeOK, Needed
  <2> HIDE DEF items
  <2>4. offer' \in [Sensors -> [Kinds -> Releases \cup {Nothing}]]
    BY <2>1, <2>3 DEF TypeOK
  <2>5. \A q \in Sensors \ {s} : at'[q] = at[q] /\ offer'[q] = offer[q]
    BY <2>1 DEF TypeOK, Proceed
  <2>6. /\ at'[s] \in {"idle", "download"}
        /\ at'[s] = "download" => offer'[s] # NoItems
    BY <2>1 DEF TypeOK, Proceed
  <2>7. QED
    BY <1>5, <2>1, <2>4, <2>5, <2>6 DEF ReadThreatIntel, TypeOK, server, publish, NoFault, Proceed,
                                        Nothing, NoItems
<1>6. CASE (ReadSoftware(s) \/ ReadRules(s) \/ ReadThreatIntel(s)) /\ Idle(s)
  <2>1. /\ UNCHANGED <<server, reported, publish, changes, installed>>
        /\ budget' = budget
    BY <1>6 DEF ReadSoftware, ReadRules, ReadThreatIntel, NoFault
  <2>2. QED
    BY <1>6, <2>1, PollType DEF TypeOK
<1>7. QED
  BY <1>1, <1>2, <1>3, <1>4, <1>5, <1>6 DEF Request

\* Every step of the sensor keeps the types.
LEMMA SensorType ==
  ASSUME TypeOK, NEW s \in Sensors, Sensor(s)
  PROVE  TypeOK'
<1>1. CASE Request(s)
  BY <1>1, RequestType
<1>2. ASSUME NEW k \in Kinds, DownloadFile(s, k)
      PROVE  TypeOK'
  <2>1. /\ UNCHANGED <<server, reported, publish, changes, installed>>
        /\ budget' = budget
    BY <1>2 DEF DownloadFile, NoFault
  <2>2. CASE Done(s, k)
    BY <2>1, <2>2, PollType DEF TypeOK
  <2>3. CASE ~Done(s, k)
    <3>1. offer[s][k] \in Releases /\ offer[s][k].version \in Versions
      BY <1>2 DEF DownloadFile, Current, TypeOK, Releases
    <3>2. bucket[ChannelOf(s, k)][offer[s][k].version] \in Contents
      BY <1>2, <2>3, <3>1, ChannelType DEF DownloadFile, TypeOK
    <3>3. /\ got' = [got EXCEPT ![s] = bucket[ChannelOf(s, k)][offer[s][k].version]]
          /\ at' = [at EXCEPT ![s] = "install"] /\ UNCHANGED <<want, offer>>
          /\ at[s] = "download"
      BY <1>2, <2>3 DEF DownloadFile, Proceed
    <3>4. QED
      BY <2>1, <3>2, <3>3 DEF TypeOK, server, publish, Nothing, NoItems
  <2>4. QED
    BY <2>2, <2>3
<1>3. ASSUME NEW k \in Kinds, VerifyAndInstall(s, k)
      PROVE  TypeOK'
  <2>1. installed' \in [Sensors -> [Kinds -> Releases \cup {Nothing}]]
    BY <1>3 DEF VerifyAndInstall, TypeOK
  <2>2. UNCHANGED <<server, reported, publish, changes>> /\ budget' = budget /\ Done(s, k)
    BY <1>3 DEF VerifyAndInstall, NoFault
  <2>3. QED
    BY <2>1, <2>2, PollType DEF TypeOK
<1>4. ASSUME Abandon(s) \/ \E k \in Kinds : Skip(s, k)
      PROVE  TypeOK'
  <2>1. /\ UNCHANGED <<server, reported, publish, changes, installed>>
        /\ budget' = budget - 1 /\ budget > 0
        /\ Idle(s) \/ \E k \in Kinds : Done(s, k)
    BY <1>4 DEF Abandon, Skip, Fault
  <2>2. budget' \in Nat
    BY <2>1 DEF TypeOK
  <2>3. QED
    BY <2>1, <2>2, PollType DEF TypeOK
<1>5. ASSUME NEW v \in Versions \cup {0}, UpdateDeviceFields(s, v)
      PROVE  TypeOK'
  BY <1>5 DEF UpdateDeviceFields, TypeOK, publish, poll, NoFault, Change, Nothing, NoItems
<1>6. QED
  BY <1>1, <1>2, <1>3, <1>4, <1>5 DEF Sensor, Poll

\* A deletion is of a row of one channel.
LEMMA DeleteRows ==
  ASSUME NEW v \in Versions, Delete(v)
  PROVE  \E c \in Channels : DeleteRow(c, v)
BY DEF Delete, DeleteHndrSw, DeleteHndrRules, DeleteThreatIntel, Channels

\* Every step keeps the types.
LEMMA TypeStep == TypeOK /\ [Next]_vars => TypeOK'
<1> SUFFICES ASSUME TypeOK, [Next]_vars PROVE TypeOK'
  OBVIOUS
<1>1. ASSUME NEW v \in Versions, Delete(v)
      PROVE  TypeOK'
  <2>1. PICK c \in Channels : DeleteRow(c, v)
    BY <1>1, DeleteRows
  <2>2. table' \in [Channels -> Seq(Releases \cup {Nothing})]
    BY <2>1, ReplacedType DEF DeleteRow, Row
  <2>3. QED
    BY <2>1, <2>2 DEF DeleteRow, TypeOK, publish, poll, NoFault, Change, Nothing, NoItems
<1>2. CASE UNCHANGED vars
  BY <1>2 DEF vars, server, publish, poll, TypeOK, Nothing, NoItems
<1>3. QED
  BY <1>1, <1>2, PublishType, SensorType DEF Next

\* The tables, the bucket, the runs of objupdater and dbtool and the sensors' polls
\* always have their types.
THEOREM TypeCorrect == Spec => []TypeOK
BY TypeInit, TypeStep, PTL DEF Spec

(***************************************************************************)
(* The inductive invariant.  What a run of objupdater is about to list has *)
(* its object in the bucket, which never loses one; what a poll is about   *)
(* to download was announced and does not take the sensor back, and what   *)
(* the sensor has recorded only changes at the end of its own poll.        *)
(***************************************************************************)
Uploaded(p) ==
  pc[p] \in {"uploadMetadataJSON", "updateDatabase", "INSERT", "UPDATE"} =>
    bucket[target[p]][job[p].version] # Empty \/ job[p] \in unserved[target[p]]

GoodItem(s, k) ==
  offer[s][k] # Nothing =>
    /\ offer[s][k] \in announced[ChannelOf(s, k)]
    /\ at[s] \in {"download", "install"} => offer[s][k].version >= installed[s][k].version

ListedIsAnnounced == \A c \in Channels : Rows(c) \subseteq announced[c]

IInv ==
  /\ TypeOK
  /\ ListedIsAnnounced
  /\ ListedIsStored
  /\ ReportedIsInstalled
  /\ \A p \in Publishers : Uploaded(p)
  /\ \A s \in Sensors, k \in Kinds : GoodItem(s, k)

\* What was published before is stored and announced, and nothing else is there
\* at first.
LEMMA InvInit == Init => IInv
<1> SUFFICES ASSUME Init PROVE IInv
  OBVIOUS
<1>1. TypeOK
  BY TypeInit
<1>2. PICK old \in [Channels -> Releases \cup {Nothing}] :
        /\ table = [c \in Channels |-> IF old[c] = Nothing THEN << >> ELSE <<old[c]>>]
        /\ bucket = [c \in Channels |-> [v \in Versions |->
                       IF v = old[c].version THEN old[c].digest ELSE Empty]]
        /\ announced = [c \in Channels |-> {old[c]} \ {Nothing}]
  BY DEF Init
<1>3. \A c \in Channels : Rows(c) \subseteq {old[c]} \ {Nothing}
  BY <1>2 DEF Rows, Ids
<1>4. ListedIsAnnounced
  BY <1>2, <1>3 DEF ListedIsAnnounced
<1>5. ListedIsStored
  <2> SUFFICES ASSUME NEW c \in Channels, NEW r \in Rows(c)
               PROVE  bucket[c][r.version] # Empty
    BY DEF ListedIsStored
  <2>1. r = old[c] /\ r \in Releases
    BY <1>3, <1>2
  <2>2. r.version \in Versions /\ r.digest \in Contents
    BY <2>1 DEF Releases
  <2>3. bucket[c][r.version] = r.digest
    BY <1>2, <2>1, <2>2
  <2>4. QED
    BY <2>2, <2>3, EmptyAssumption
<1>6. ReportedIsInstalled
  BY DEF Init, ReportedIsInstalled, NoItems, Nothing
<1>7. /\ \A p \in Publishers : Uploaded(p)
      /\ \A s \in Sensors, k \in Kinds : GoodItem(s, k)
  BY DEF Init, Uploaded, GoodItem, NoItems
<1>8. QED
  BY <1>1, <1>4, <1>5, <1>6, <1>7 DEF IInv

\* The versions of releases are numbers; no release is version 0.
LEMMA VersionType ==
  /\ \A r \in Releases \cup {Nothing} : r.version \in Nat
  /\ \A v \in Versions \cup {0} : v \in Nat
  /\ \A r \in Releases : r.version \in Versions /\ r.version # 0
<1>1. \A r \in Releases : r.version \in Versions /\ r.version \in Nat /\ r.version # 0
  BY VersionsAssumption DEF Releases
<1>2. Nothing.version \in Nat
  BY DEF Nothing
<1>3. \A v \in Versions \cup {0} : v \in Nat
  BY VersionsAssumption
<1>4. QED
  BY <1>1, <1>2, <1>3

\* A release that isUpdateNeeded offers is not older than what the sensor has.
LEMMA UpdatesAscend ==
  ASSUME NEW r \in Releases \cup {Nothing}, NEW dev \in Releases \cup {Nothing},
         isUpdateNeeded(r, dev)
  PROVE  r.version >= dev.version
BY VersionType DEF isUpdateNeeded

\* Writing an object takes no object away; the run's release has one then, or
\* none is served for it.
LEMMA BucketGrows ==
  ASSUME TypeOK, NEW p \in Publishers, uploadToMinio(p)
  PROVE  /\ \A c \in Channels, v \in Versions : bucket[c][v] # Empty => bucket'[c][v] # Empty
         /\ \A c \in Channels : unserved[c] \subseteq unserved'[c]
         /\ bucket'[target[p]][job[p].version] # Empty \/ job[p] \in unserved'[target[p]]
<1>1. job[p] \in Releases /\ job[p].version \in Versions /\ job[p].digest \in Contents
  BY DEF uploadToMinio, TypeOK, Releases
<1>2. target[p] \in Channels
  BY DEF TypeOK
<1>3. /\ bucket \in [Channels -> [Versions -> Contents \cup {Empty}]]
      /\ unserved \in [Channels -> SUBSET Releases]
  BY DEF TypeOK
<1>4. CASE /\ bucket' = [bucket EXCEPT ![target[p]][job[p].version] = job[p].digest]
           /\ UNCHANGED unserved
  BY <1>1, <1>2, <1>3, <1>4, EmptyAssumption
<1>5. CASE /\ unserved' = [unserved EXCEPT ![target[p]] = @ \cup {job[p]}]
           /\ UNCHANGED bucket
  <2>1. /\ \A d \in Channels : unserved[d] \subseteq unserved'[d]
        /\ job[p] \in unserved'[target[p]]
    BY <1>1, <1>2, <1>3, <1>5, AddedType
  <2>2. QED
    BY <1>5, <2>1
<1>6. QED
  BY <1>4, <1>5 DEF uploadToMinio

\* The parts of the invariant that a step leaves alone.
ListingKept == ListedIsAnnounced' /\ ListedIsStored'
SensorsKept == ReportedIsInstalled' /\ \A s \in Sensors, k \in Kinds : GoodItem(s, k)'
UploadsKept == \A p \in Publishers : Uploaded(p)'

\* A step that leaves the table and the bucket alone keeps what they promise.
LEMMA ListingKeeps ==
  ASSUME IInv, UNCHANGED <<table, bucket>>,
         \A c \in Channels : unserved[c] \subseteq unserved'[c],
         \A c \in Channels : announced[c] \subseteq announced'[c]
  PROVE  ListingKept
<1>1. \A c \in Channels : Rows(c)' = Rows(c)
  BY DEF Rows, Ids, Nothing
<1>2. QED
  BY <1>1 DEF IInv, ListingKept, ListedIsAnnounced, ListedIsStored

\* A step that leaves the sensors alone keeps what their polls have established.
LEMMA SensorsKeep ==
  ASSUME IInv, UNCHANGED <<at, offer, installed, reported>>,
         \A c \in Channels : announced[c] \subseteq announced'[c]
  PROVE  SensorsKept
<1>1. \A s \in Sensors, k \in Kinds : ChannelOf(s, k) \in Channels
  BY ChannelType
<1>2. QED
  BY <1>1 DEF IInv, SensorsKept, ReportedIsInstalled, GoodItem, ChannelOf, Nothing

\* A step that leaves the runs and the bucket alone keeps their uploads.
LEMMA UploadsKeep ==
  ASSUME IInv, UNCHANGED <<pc, target, job, bucket, unserved>>
  PROVE  UploadsKept
BY DEF IInv, UploadsKept, Uploaded

\* A run of objupdater or dbtool that starts, goes on to a later call or ends,
\* and touches neither the bucket nor the tables.
LEMMA RunKeeps ==
  ASSUME IInv, NEW p \in Publishers,
         \/ \E i \in Packages : Start(p, i[1], i[2]) \/ DbtoolInsert(p, i[1], i[2])
         \/ Fail(p) \/ uploadMetadataJSON(p) \/ SelectRow(p)
  PROVE  ListingKept /\ SensorsKept /\ UploadsKept
<1>1. UNCHANGED <<table, bucket, announced, reported, at, offer, installed>>
  BY DEF Start, DbtoolInsert, Fail, uploadMetadataJSON, SelectRow, server, poll
<1>2. /\ \A c \in Channels : unserved[c] \subseteq unserved'[c]
      /\ \/ UNCHANGED unserved
         \/ \E i \in Packages : DbtoolInsert(p, i[1], i[2])
  <2>1. ASSUME NEW i \in Packages, DbtoolInsert(p, i[1], i[2])
        PROVE  \A c \in Channels : unserved[c] \subseteq unserved'[c]
    BY <2>1, PackageType, AddedType DEF DbtoolInsert, IInv, TypeOK
  <2>2. QED
    BY <2>1 DEF Start, Fail, uploadMetadataJSON, SelectRow, server
<1>3. ListingKept /\ SensorsKept
  BY <1>1, <1>2, ListingKeeps, SensorsKeep
<1>4. \A q \in Publishers \ {p} : pc'[q] = pc[q] /\ target'[q] = target[q] /\ job'[q] = job[q]
  BY DEF IInv, TypeOK, Start, DbtoolInsert, Fail, uploadMetadataJSON, SelectRow, Goto, Finish
<1>5. Uploaded(p)'
  <2>1. ASSUME NEW i \in Packages, DbtoolInsert(p, i[1], i[2])
        PROVE  Uploaded(p)'
    <3>1. i[1] \in Channels /\ i[2] \in Releases
      BY PackageType
    <3>2. target'[p] = i[1] /\ job'[p] = i[2]
      BY <2>1 DEF DbtoolInsert, IInv, TypeOK
    <3>3. i[2] \in unserved'[i[1]]
      BY <2>1, <3>1 DEF DbtoolInsert, IInv, TypeOK
    <3>4. QED
      BY <3>2, <3>3 DEF Uploaded
  <2>2. CASE uploadMetadataJSON(p)
    BY <2>2, <1>1 DEF IInv, TypeOK, Uploaded, uploadMetadataJSON, Goto, server
  <2>3. CASE SelectRow(p)
    BY <2>3, <1>1 DEF IInv, TypeOK, Uploaded, SelectRow, Goto, Finish, server
  <2>4. CASE Fail(p) \/ \E i \in Packages : Start(p, i[1], i[2])
    BY <2>4 DEF IInv, TypeOK, Uploaded, Fail, Start, Finish
  <2>5. QED
    BY <2>1, <2>2, <2>3, <2>4
<1>6. UploadsKept
  <2>1. ASSUME NEW q \in Publishers \ {p}
        PROVE  Uploaded(q)'
    <3>1. target[q] \in Channels /\ Uploaded(q)
      BY DEF IInv, TypeOK
    <3>2. QED
      BY <1>1, <1>2, <1>4, <3>1 DEF Uploaded
  <2>2. QED
    BY <1>5, <2>1 DEF UploadsKept
<1>7. QED
  BY <1>3, <1>6

\* An upload keeps the objects of all rows, and gives its run one.
LEMMA UploadKeeps ==
  ASSUME IInv, NEW p \in Publishers, uploadToMinio(p)
  PROVE  ListingKept /\ SensorsKept /\ UploadsKept
<1>1. UNCHANGED <<table, announced, reported, at, offer, installed, target, job>>
  BY DEF uploadToMinio, poll, Goto
<1>2. /\ \A c \in Channels, v \in Versions : bucket[c][v] # Empty => bucket'[c][v] # Empty
      /\ \A c \in Channels : unserved[c] \subseteq unserved'[c]
      /\ bucket'[target[p]][job[p].version] # Empty \/ job[p] \in unserved'[target[p]]
  BY BucketGrows DEF IInv
<1>3. ListingKept
  <2>1. \A c \in Channels : Rows(c)' = Rows(c) /\ \A r \in Rows(c) : r.version \in Versions
    BY <1>1, RowsType DEF IInv, Rows, Ids, Nothing, Releases
  <2>2. QED
    BY <1>1, <1>2, <2>1 DEF IInv, ListingKept, ListedIsAnnounced, ListedIsStored
<1>4. \A q \in Publishers \ {p} :
        /\ pc'[q] = pc[q] /\ target[q] \in Channels
        /\ pc[q] # "idle" => job[q].version \in Versions
  BY VersionType DEF IInv, TypeOK, uploadToMinio, Goto
<1>5. \A q \in Publishers \ {p} : Uploaded(q)'
  BY <1>1, <1>2, <1>4 DEF IInv, Uploaded
<1>6. Uploaded(p)'
  BY <1>1, <1>2 DEF Uploaded
<1>7. UploadsKept
  BY <1>5, <1>6 DEF UploadsKept
<1>8. QED
  BY <1>1, <1>3, <1>7, SensorsKeep

\* The INSERT or the UPDATE of a run.
LEMMA ListKeeps ==
  ASSUME IInv, NEW p \in Publishers, InsertRow(p) \/ UpdateRow(p)
  PROVE  ListingKept /\ SensorsKept /\ UploadsKept
<1>1. UNCHANGED <<bucket, unserved, reported, at, offer, installed>>
  BY DEF InsertRow, UpdateRow, poll
<1>2. job[p] \in Releases
  BY DEF IInv, TypeOK, InsertRow, UpdateRow
<1>3. PICK c \in Channels : c = target[p]
  BY DEF IInv, TypeOK
<1>4. bucket[c][job[p].version] # Empty \/ job[p] \in unserved[c]
  BY <1>3 DEF IInv, Uploaded, InsertRow, UpdateRow
<1>5. \/ UNCHANGED <<table, announced>>
      \/ /\ announced' = [announced EXCEPT ![c] = @ \cup {job[p]}]
         /\ Rows(c)' \subseteq Rows(c) \cup {job[p]}
         /\ \A d \in Channels \ {c} : Rows(d)' = Rows(d)
  <2>1. CASE UNCHANGED <<table, announced>>
    BY <2>1
  <2>2. CASE InsertRow(p) /\ RowsOf(target[p], job[p].version) = {}
    BY <2>2, <1>3, <1>2, RowsAppended DEF IInv, InsertRow
  <2>3. CASE UpdateRow(p) /\ RowsOf(target[p], job[p].version) # {}
    BY <2>3, <1>3, <1>2, RowsReplaced DEF IInv, UpdateRow, Row
  <2>4. QED
    BY <2>1, <2>2, <2>3 DEF InsertRow, UpdateRow
<1>6. /\ \A d \in Channels : announced[d] \subseteq announced'[d]
      /\ ListingKept
  <2>1. CASE UNCHANGED <<table, announced>>
    BY <2>1, <1>1, ListingKeeps
  <2>2. CASE /\ announced' = [announced EXCEPT ![c] = @ \cup {job[p]}]
             /\ Rows(c)' \subseteq Rows(c) \cup {job[p]}
             /\ \A d \in Channels \ {c} : Rows(d)' = Rows(d)
    <3>1. /\ \A d \in Channels : announced[d] \subseteq announced'[d]
          /\ job[p] \in announced'[c]
      BY <1>2, <2>2, AddedType DEF IInv, TypeOK
    <3>2. ListedIsAnnounced'
      BY <2>2, <3>1, <1>2 DEF IInv, ListedIsAnnounced
    <3>3. ListedIsStored'
      BY <2>2, <1>1, <1>2, <1>4 DEF IInv, ListedIsStored
    <3>4. QED
      BY <3>1, <3>2, <3>3 DEF ListingKept
  <2>3. QED
    BY <1>5, <2>1, <2>2
<1>7. \A q \in Publishers \ {p} : pc'[q] = pc[q] /\ target'[q] = target[q] /\ job'[q] = job[q]
  BY DEF IInv, TypeOK, InsertRow, UpdateRow, Finish
<1>8. pc'[p] = "idle"
  BY DEF IInv, TypeOK, InsertRow, UpdateRow, Finish
<1>9. UploadsKept
  BY <1>1, <1>7, <1>8 DEF IInv, UploadsKept, Uploaded
<1>10. QED
  BY <1>1, <1>6, <1>9, SensorsKeep

\* Whatever an operator's run does keeps the invariant's parts.
LEMMA PublishKeeps ==
  ASSUME IInv, NEW p \in Publishers, Publish(p)
  PROVE  ListingKept /\ SensorsKept /\ UploadsKept
BY RunKeeps, UploadKeeps, ListKeeps
   DEF Publish, Objupdater, updateDatabase, InsertHndrSw, InsertHndrRules, InsertThreatIntel

\* Deleting a row leaves the objects and the polls alone.
LEMMA DeleteKeeps ==
  ASSUME IInv, NEW c \in Channels, NEW v \in Versions, DeleteRow(c, v)
  PROVE  ListingKept /\ SensorsKept /\ UploadsKept
<1>1. UNCHANGED <<bucket, unserved, reported, announced, at, offer, installed, pc, target, job>>
  BY DEF DeleteRow, poll, publish
<1>2. \A d \in Channels : Rows(d)' \subseteq Rows(d)
  BY RowsReplaced DEF IInv, DeleteRow, Row
<1>3. ListingKept
  BY <1>1, <1>2 DEF IInv, ListingKept, ListedIsAnnounced, ListedIsStored
<1>4. QED
  BY <1>1, <1>3, SensorsKeep, UploadsKeep

\* Whatever sensors do, and pinning one, leaves the tables and the runs alone.
LEMMA SensorLeaves ==
  ASSUME IInv, NEW s \in Sensors, Sensor(s)
  PROVE  ListingKept /\ UploadsKept /\ UNCHANGED announced
<1>1. UNCHANGED <<table, bucket, announced, unserved, pc, target, job>>
  BY DEF Sensor, Poll, Request, Skip, Abandon, UpdateDeviceFields, InsertVersions, ReadDevice,
         ReadSoftware, ReadRules, ReadThreatIntel, DownloadFile, VerifyAndInstall, server, publish
<1>2. QED
  BY <1>1, ListingKeeps, UploadsKeep

\* The items of a poll that is over or done with one, if none of what it has
\* left has changed.
LEMMA ItemsLeft ==
  ASSUME IInv, NEW s \in Sensors, UNCHANGED announced,
         Idle(s) \/ (at[s] \in {"download", "install"} /\ \E k \in Kinds : Done(s, k)),
         \A q \in Sensors, k \in Kinds :
           offer'[q][k] # Nothing => installed'[q][k] = installed[q][k]
  PROVE  \A q \in Sensors, k \in Kinds : GoodItem(q, k)'
<1> SUFFICES ASSUME NEW q \in Sensors, NEW k \in Kinds, offer'[q][k] # Nothing
             PROVE  GoodItem(q, k)'
  BY DEF GoodItem, Nothing
<1>1. offer'[q][k] = offer[q][k]
  <2>1. offer \in [Sensors -> [Kinds -> Releases \cup {Nothing}]]
    BY DEF IInv, TypeOK
  <2>2. CASE Idle(s)
    BY <2>1, <2>2 DEF Idle, NoItems
  <2>3. ASSUME NEW l \in Kinds, Done(s, l)
        PROVE  offer'[q][k] = offer[q][k]
    <3>1. offer' = [offer EXCEPT ![s][l] = Nothing]
      BY <2>3 DEF Done
    <3>2. q # s \/ k # l
      BY <2>1, <3>1
    <3>3. QED
      BY <2>1, <3>1, <3>2
  <2>4. QED
    BY <2>2, <2>3
<1>2. at'[q] \in {"download", "install"} => at[q] \in {"download", "install"}
  <2>1. CASE q # s
    BY <2>1 DEF IInv, TypeOK, Idle, Done, Proceed
  <2>2. CASE q = s /\ Idle(s)
    BY <2>2 DEF IInv, TypeOK, Idle, NoItems
  <2>3. CASE q = s /\ at[s] \in {"download", "install"}
    BY <2>3
  <2>4. QED
    BY <2>1, <2>2, <2>3
<1>3. QED
  BY <1>1, <1>2 DEF IInv, GoodItem, ChannelOf, Nothing


\* The steps of a request.
LEMMA RequestKeeps ==
  ASSUME IInv, NEW s \in Sensors, Request(s)
  PROVE  SensorsKept
<1>1. UNCHANGED <<installed, announced>>
  BY DEF Request, InsertVersions, ReadDevice, ReadSoftware, ReadRules, ReadThreatIntel, server
<1>2. ReportedIsInstalled'
  <2>1. \A q \in Sensors, k \in Kinds :
          reported'[q][k] = reported[q][k] \/ reported'[q][k] = installed[q][k].version
    <3>1. CASE InsertVersions(s)
      BY <3>1 DEF IInv, TypeOK, InsertVersions
    <3>2. CASE ~InsertVersions(s)
      BY <3>2 DEF Request, ReadDevice, ReadSoftware, ReadRules, ReadThreatIntel
    <3>3. QED
      BY <3>1, <3>2
  <2>2. \A q \in Sensors, k \in Kinds : installed[q][k].version \in Nat
    BY VersionType DEF IInv, TypeOK
  <2>3. QED
    BY <1>1, <2>1, <2>2 DEF IInv, ReportedIsInstalled
<1>3. ASSUME NEW q \in Sensors, NEW k \in Kinds, offer'[q][k] # Nothing
      PROVE  GoodItem(q, k)'
  <2>1. CASE q # s \/ InsertVersions(s) \/ ReadDevice(s)
    <3>1. offer'[q] = offer[q]
      BY <2>1 DEF IInv, TypeOK, Request, InsertVersions, ReadDevice, ReadSoftware, ReadRules,
                  ReadThreatIntel, Missing, Idle
    <3>2. at'[q] = at[q] \/ at'[q] \in {"devices", "hndr_sw"}
      BY <2>1 DEF IInv, TypeOK, Request, InsertVersions, ReadDevice, ReadSoftware, ReadRules,
                  ReadThreatIntel, Missing, Idle, Proceed
    <3>3. QED
      BY <1>1, <3>1, <3>2 DEF IInv, GoodItem, ChannelOf, Nothing
  <2>2. CASE q = s /\ Idle(s)
    BY <1>3, <2>2 DEF IInv, TypeOK, Idle, NoItems
  <2>3. ASSUME q = s, NEW r \in Chosen(want[s]), at'[s] = "hndr_rules",
               offer' = [offer EXCEPT ![s]["software"] = r]
        PROVE  GoodItem(q, k)'
    <3>1. CASE k = "software"
      <4>1. r \in announced["software"]
        BY ChosenRows DEF IInv, ListedIsAnnounced, Channels
      <4>2. offer'[q][k] = r
        BY <2>3, <3>1 DEF IInv, TypeOK
      <4>3. QED
        BY <1>1, <2>3, <3>1, <4>1, <4>2 DEF GoodItem, ChannelOf
    <3>2. CASE k # "software"
      <4>1. offer'[q][k] = offer[q][k]
        BY <2>3, <3>2 DEF IInv, TypeOK
      <4>2. QED
        BY <1>1, <2>3, <4>1 DEF IInv, GoodItem, ChannelOf, Nothing
    <3>3. QED
      BY <3>1, <3>2
  <2>4. ASSUME q = s, NEW r \in Latest(TenantOf[s]), at'[s] = "threatintel",
               offer' = [offer EXCEPT ![s]["rules"] = r]
        PROVE  GoodItem(q, k)'
    <3>1. CASE k = "rules"
      <4>1. r \in announced[TenantOf[s]]
        BY ChosenRows, TenantsAssumption DEF IInv, ListedIsAnnounced, Channels
      <4>2. offer'[q][k] = r
        BY <2>4, <3>1 DEF IInv, TypeOK
      <4>3. QED
        BY <1>1, <2>4, <3>1, <4>1, <4>2 DEF GoodItem, ChannelOf
    <3>2. CASE k # "rules"
      <4>1. offer'[q][k] = offer[q][k]
        BY <2>4, <3>2 DEF IInv, TypeOK
      <4>2. QED
        BY <1>1, <2>4, <4>1 DEF IInv, GoodItem, ChannelOf, Nothing
    <3>3. QED
      BY <3>1, <3>2
  <2>5. ASSUME q = s, NEW r \in Latest("threatintel"),
               offer' = [offer EXCEPT ![s] = Needed(s, [offer[s] EXCEPT !["threatintel"] = r])]
        PROVE  GoodItem(q, k)'
    <3> DEFINE row == [offer[s] EXCEPT !["threatintel"] = r][k]
    <3>1. offer[s] \in [Kinds -> Releases \cup {Nothing}]
      BY DEF IInv, TypeOK
    <3>2. r \in announced["threatintel"] /\ r \in Releases
      BY ChosenRows, RowsType DEF IInv, ListedIsAnnounced, Channels
    <3>3. offer'[s][k] = row /\ isUpdateNeeded(row, installed[s][k])
      BY <1>3, <2>5 DEF IInv, TypeOK, Needed
    <3>4. row \in Releases \cup {Nothing}
      BY <3>1, <3>2
    <3>5. row \in announced[ChannelOf(s, k)]
      <4>1. CASE k = "threatintel"
        BY <3>1, <3>2, <4>1 DEF ChannelOf
      <4>2. CASE k # "threatintel"
        <5>1. row = offer[s][k]
          BY <3>1, <4>2
        <5>2. QED
          BY <1>3, <2>5, <3>3, <5>1 DEF IInv, GoodItem
      <4>3. QED
        BY <4>1, <4>2
    <3> HIDE DEF row
    <3>6. row.version >= installed[s][k].version
      BY <3>3, <3>4, UpdatesAscend DEF IInv, TypeOK
    <3>7. QED
      BY <1>1, <2>5, <3>3, <3>5, <3>6 DEF GoodItem, ChannelOf
  <2>6. CASE q = s /\ ReadSoftware(s) /\ ~Idle(s)
    BY <2>3, <2>6 DEF IInv, TypeOK, ReadSoftware, Missing, Proceed
  <2>7. CASE q = s /\ ReadRules(s) /\ ~Idle(s)
    BY <2>4, <2>7 DEF IInv, TypeOK, ReadRules, Missing, Proceed
  <2>8. CASE q = s /\ ReadThreatIntel(s) /\ ~Idle(s)
    BY <2>5, <2>8 DEF ReadThreatIntel, Missing
  <2>9. QED
    BY <2>1, <2>2, <2>6, <2>7, <2>8 DEF Request
<1>4. \A q \in Sensors, k \in Kinds : GoodItem(q, k)'
  BY <1>3 DEF GoodItem, Nothing
<1>5. QED
  BY <1>2, <1>4 DEF SensorsKept

\* A download, or an item that fails, changes nothing that is recorded.
LEMMA ItemKeeps ==
  ASSUME IInv, NEW s \in Sensors,
         Abandon(s) \/ \E k \in Kinds : DownloadFile(s, k) \/ Skip(s, k)
  PROVE  SensorsKept
<1>1. UNCHANGED <<installed, announced, reported>>
  BY DEF Abandon, DownloadFile, Skip, server
<1>2. ReportedIsInstalled'
  BY <1>1 DEF IInv, ReportedIsInstalled
<1>3. CASE Idle(s) \/ (at[s] \in {"download", "install"} /\ \E k \in Kinds : Done(s, k))
  BY <1>1, <1>2, <1>3, ItemsLeft DEF SensorsKept
<1>4. CASE at[s] = "download" /\ UNCHANGED offer /\ Proceed(s, "install")
  <2>1. \A q \in Sensors : at'[q] \in {"download", "install"} => at[q] \in {"download", "install"}
    BY <1>4 DEF IInv, TypeOK, Proceed
  <2>2. \A q \in Sensors, k \in Kinds : GoodItem(q, k)'
    BY <1>1, <1>4, <2>1 DEF IInv, GoodItem, ChannelOf, Nothing
  <2>3. QED
    BY <1>2, <2>2 DEF SensorsKept
<1>5. ASSUME NEW k \in Kinds, DownloadFile(s, k)
      PROVE  SensorsKept
  BY <1>3, <1>4, <1>5 DEF DownloadFile
<1>6. ASSUME NEW k \in Kinds, Skip(s, k)
      PROVE  SensorsKept
  BY <1>3, <1>6 DEF Skip
<1>7. CASE Abandon(s)
  BY <1>3, <1>7 DEF Abandon
<1>8. QED
  BY <1>5, <1>6, <1>7

\* What an installation records, or leaves.
LEMMA InstallRecords ==
  ASSUME IInv, NEW s \in Sensors, NEW k \in Kinds, VerifyAndInstall(s, k)
  PROVE  /\ UNCHANGED installed \/ installed' = [installed EXCEPT ![s][k] = offer[s][k]]
         /\ offer[s][k] \in announced[ChannelOf(s, k)]
         /\ offer[s][k].version >= installed[s][k].version
<1>1. installed' = [installed EXCEPT ![s][k] =
        IF k # "threatintel" /\ got[s] = offer[s][k].digest THEN offer[s][k] ELSE @]
  BY DEF VerifyAndInstall
<1>2. UNCHANGED installed \/ installed' = [installed EXCEPT ![s][k] = offer[s][k]]
  <2>1. CASE k # "threatintel" /\ got[s] = offer[s][k].digest
    BY <1>1, <2>1
  <2>2. CASE ~(k # "threatintel" /\ got[s] = offer[s][k].digest)
    BY <1>1, <2>2 DEF IInv, TypeOK
  <2>3. QED
    BY <2>1, <2>2
<1>3. QED
  BY <1>2 DEF IInv, GoodItem, VerifyAndInstall, Current

\* An installation does not take the sensor below the version it reported.
LEMMA InstallKeeps ==
  ASSUME IInv, NEW s \in Sensors, NEW k \in Kinds, VerifyAndInstall(s, k)
  PROVE  SensorsKept
<1>1. UNCHANGED <<reported, announced>>
  BY DEF VerifyAndInstall, server
<1>2. /\ installed'[s][k] = installed[s][k] \/ installed'[s][k] = offer[s][k]
      /\ \A q \in Sensors, l \in Kinds :
           q # s \/ l # k => installed'[q][l] = installed[q][l]
  <2>1. installed \in [Sensors -> [Kinds -> Releases \cup {Nothing}]]
    BY DEF IInv, TypeOK
  <2>2. UNCHANGED installed \/ installed' = [installed EXCEPT ![s][k] = offer[s][k]]
    BY InstallRecords
  <2>3. QED
    BY <2>1, <2>2
<1>3. ReportedIsInstalled'
  <2>1. /\ installed[s][k].version \in Nat /\ offer[s][k].version \in Nat
        /\ reported[s][k] \in Nat
    BY VersionType DEF IInv, TypeOK
  <2>2. reported[s][k] <= installed'[s][k].version
    BY <1>2, <2>1, InstallRecords DEF IInv, ReportedIsInstalled
  <2>3. QED
    BY <1>1, <1>2, <2>2 DEF IInv, ReportedIsInstalled
<1>4. offer'[s][k] = Nothing
  BY DEF IInv, TypeOK, VerifyAndInstall, Done
<1>5. at[s] \in {"download", "install"} /\ Done(s, k)
  BY DEF VerifyAndInstall
<1>6. \A q \in Sensors, l \in Kinds : GoodItem(q, l)'
  BY <1>1, <1>2, <1>4, <1>5, ItemsLeft
<1>7. QED
  BY <1>3, <1>6 DEF SensorsKept

\* Whatever sensors do keeps the invariant's parts.
LEMMA SensorKeeps ==
  ASSUME IInv, NEW s \in Sensors, Sensor(s)
  PROVE  ListingKept /\ SensorsKept /\ UploadsKept
<1>1. ASSUME NEW v \in Versions \cup {0}, UpdateDeviceFields(s, v)
      PROVE  SensorsKept
  BY <1>1, SensorsKeep DEF UpdateDeviceFields, poll
<1>2. QED
  BY <1>1, SensorLeaves, RequestKeeps, ItemKeeps, InstallKeeps DEF Sensor, Poll

\* Every step keeps the invariant.
LEMMA InvStep == IInv /\ [Next]_vars => IInv'
<1> SUFFICES ASSUME IInv, [Next]_vars PROVE IInv'
  OBVIOUS
<1>1. TypeOK'
  BY TypeStep DEF IInv
<1>2. CASE UNCHANGED vars
  <2>1. /\ UNCHANGED <<table, bucket, unserved, announced, at, offer, installed, reported>>
        /\ UNCHANGED <<pc, target, job>>
    BY <1>2 DEF vars, server, publish, poll
  <2>2. ListingKept /\ SensorsKept /\ UploadsKept
    BY <2>1, ListingKeeps, SensorsKeep, UploadsKeep
  <2>3. QED
    BY <1>1, <2>2 DEF IInv, ListingKept, SensorsKept, UploadsKept
<1>3. CASE Next
  <2>1. ListingKept /\ SensorsKept /\ UploadsKept
    BY <1>3, PublishKeeps, SensorKeeps, DeleteRows, DeleteKeeps DEF Next
  <2>2. QED
    BY <1>1, <2>1 DEF IInv, ListingKept, SensorsKept, UploadsKept
<1>4. QED
  BY <1>2, <1>3

\* The invariant holds of every reachable state.
LEMMA Invariant == Spec => []IInv
BY InvInit, InvStep, PTL DEF Spec

\* No manifest names an object that objupdater has not put in the bucket.
THEOREM ListedStored == Spec => []ListedIsStored
<1>1. IInv => ListedIsStored
  BY DEF IInv
<1>2. QED
  BY Invariant, <1>1, PTL

\* The server never believes a sensor to have a version it has not reached.
THEOREM ReportedInstalled == Spec => []ReportedIsInstalled
<1>1. IInv => ReportedIsInstalled
  BY DEF IInv
<1>2. QED
  BY Invariant, <1>1, PTL

(***************************************************************************)
(* Refinement.  Writing a row announces it, the end of an item installs    *)
(* what was offered, and every other step is a stutter.                    *)
(***************************************************************************)
Stutter == UNCHANGED <<announced, installed>>

\* A step of an operator's run announces its release, or nothing.
LEMMA PublishAnnounces ==
  ASSUME IInv, NEW p \in Publishers, Publish(p)
  PROVE  Stutter \/ \E c \in Channels, r \in Releases : Promise!Announce(c, r)
<1>1. CASE InsertRow(p) \/ UpdateRow(p)
  <2>1. job[p] \in Releases /\ target[p] \in Channels
    BY <1>1 DEF IInv, TypeOK, InsertRow, UpdateRow
  <2>2. /\ UNCHANGED installed
        /\ \/ UNCHANGED announced
           \/ announced' = [announced EXCEPT ![target[p]] = @ \cup {job[p]}]
    BY <1>1 DEF InsertRow, UpdateRow
  <2>3. QED
    BY <2>1, <2>2 DEF Stutter, Promise!Announce
<1>2. CASE ~(InsertRow(p) \/ UpdateRow(p))
  BY <1>2 DEF Publish, Objupdater, Stutter, Start, DbtoolInsert, Fail, uploadToMinio,
              uploadMetadataJSON, updateDatabase, InsertHndrSw, InsertHndrRules,
              InsertThreatIntel, SelectRow, server
<1>3. QED
  BY <1>1, <1>2

\* A step of a sensor installs the announced release it was offered, or nothing.
LEMMA SensorInstalls ==
  ASSUME IInv, NEW s \in Sensors, Sensor(s)
  PROVE  Stutter \/ \E k \in Kinds, r \in Releases : Promise!Install(s, k, r)
<1>1. UNCHANGED announced
  BY SensorLeaves
<1>2. ASSUME NEW k \in Kinds, VerifyAndInstall(s, k)
      PROVE  Stutter \/ (Promise!Install(s, k, offer[s][k]) /\ offer[s][k] \in Releases)
  <2>1. offer[s][k] \in Releases
    BY <1>2 DEF IInv, TypeOK, VerifyAndInstall, Current
  <2>2. QED
    BY <1>1, <1>2, <2>1, InstallRecords DEF Stutter, Promise!Install
<1>3. CASE ~\E k \in Kinds : VerifyAndInstall(s, k)
  BY <1>1, <1>3 DEF Sensor, Poll, Request, Skip, Abandon, UpdateDeviceFields, InsertVersions,
                    ReadDevice, ReadSoftware, ReadRules, ReadThreatIntel, DownloadFile, Stutter
<1>4. QED
  BY <1>2, <1>3

\* Every step of Distribution is one of Rollout, or a stutter.
LEMMA RolloutStep ==
  ASSUME IInv, [Next]_vars
  PROVE  [Promise!RolloutNext]_<<announced, installed>>
<1>1. CASE UNCHANGED vars
  BY <1>1 DEF vars, server
<1>2. ASSUME NEW v \in Versions, Delete(v)
      PROVE  Stutter
  BY <1>2, DeleteRows DEF DeleteRow, Stutter
<1>3. CASE Next
  BY <1>2, <1>3, PublishAnnounces, SensorInstalls
     DEF Next, Stutter, Promise!RolloutNext, Promise!Releases, Releases
<1>4. QED
  BY <1>1, <1>3

\* Distribution implements Rollout: whatever runs of objupdater and dbtool,
\* requests and downloads interleave and fail, a sensor only records releases
\* that were listed on its channels, and never an older version after a newer one.
THEOREM Refines == Spec => ImplementsRollout
<1>1. Init => Promise!RolloutInit
  BY TypeInit DEF Init, TypeOK, NoItems, Nothing, Releases, Promise!RolloutInit,
                  Promise!Nothing, Promise!Releases
<1>2. IInv /\ [Next]_vars => [Promise!RolloutNext]_<<announced, installed>>
  BY RolloutStep
<1>3. QED
  BY <1>1, <1>2, Invariant, PTL DEF Spec, ImplementsRollout, Promise!RolloutSpec

=================================================================================
