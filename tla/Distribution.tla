------------------------------ MODULE Distribution ------------------------------
(***************************************************************************)
(* The way of a package from the operator to the sensors: objupdater puts  *)
(* it in MinIO and lists it in the database (src/objupdater), the API      *)
(* server answers a poll with the rows a device should have (src/apis),    *)
(* and the sensor downloads the objects and checks their digests           *)
(* (src/updater; module Updater has the installation itself).              *)
(*                                                                         *)
(* There are three kinds of packages.  Software and threat intelligence    *)
(* have one table each for all sensors, rules one for each tenant: these   *)
(* are the channels.  Each run of objupdater and each request is a process *)
(* of its own, that takes one step per call to MinIO and per SQL statement,*)
(* with no transaction around them; only the statements of InsertVersions  *)
(* are one step, which module Reporting takes apart.  A digest is the      *)
(* content it was computed from.  The path of an object is its channel and *)
(* its version.                                                            *)
(***************************************************************************)
EXTENDS Integers, Sequences

CONSTANTS
  Sensors,     \* sensors
  Tenants,     \* tenants
  TenantOf,    \* the tenant of each sensor
  Publishers,  \* runs of objupdater and dbtool that may overlap
  Versions,    \* version numbers, in the order isUpdateNeeded gives them
  Contents,    \* contents of a package
  Empty,       \* no content: an object or a digest that is not there
  Packages,    \* the releases the operators may list, with their channels
  Earlier,     \* those that may have been published before
  MaxChanges,  \* bound on publications, deletions and pinnings
  MaxFaults    \* bound on failed or interrupted calls

Channels == {"software", "threatintel"} \cup Tenants
Kinds    == {"software", "rules", "threatintel"}
Nothing  == [version |-> 0, digest |-> Empty]
Releases == [version : Versions, digest : Contents]

ASSUME VersionsAssumption == Versions \subseteq Nat \ {0}
ASSUME EmptyAssumption    == Empty \notin Contents
ASSUME BoundsAssumption   == MaxChanges \in Nat /\ MaxFaults \in Nat
ASSUME TenantsAssumption  ==
  Tenants \cap {"software", "threatintel"} = {} /\ TenantOf \in [Sensors -> Tenants]
ASSUME PackagesAssumption == Packages \cup Earlier \subseteq Channels \X Releases

VARIABLES
  table,     \* hndr_sw, the rules of each tenant in hndr_rules, threatintel:
             \* the row of each id so far, Nothing once deleted
  bucket,    \* the content of the object of each version, by channel
  pin,       \* devices.hndr_sw_version of each sensor; 0: the newest row
  reported,  \* the version row of each sensor; 0: no row
  pc, target, job,       \* each publisher: its next call, its channel, its package
  at, want, offer, got,  \* each sensor's poll: its next step, the pin it was
                         \* read with, the items of the manifest that are left,
                         \* the content downloaded
  installed, \* hndr-config.json of each sensor: versions and digests
  announced, \* every row a table has ever had
  unserved,  \* releases listed without an upload to the path of a manifest
  changes,   \* operations the operators may still start
  budget     \* failures that may still happen

server  == <<table, bucket, pin, announced, unserved>>
publish == <<pc, target, job>>
poll    == <<at, want, offer, got>>
vars    == <<server, reported, publish, poll, installed, changes, budget>>

NoItems == [k \in Kinds |-> Nothing]

\* Each channel is empty, or has one release published before, by objupdater.
Init ==
  /\ \E old \in [Channels -> Releases \cup {Nothing}] :
       /\ \A c \in Channels : old[c] # Nothing => <<c, old[c]>> \in Earlier
       /\ table = [c \in Channels |-> IF old[c] = Nothing THEN << >> ELSE <<old[c]>>]
       /\ bucket = [c \in Channels |-> [v \in Versions |->
                      IF v = old[c].version THEN old[c].digest ELSE Empty]]
       /\ announced = [c \in Channels |-> {old[c]} \ {Nothing}]
  /\ unserved = [c \in Channels |-> {}]
  /\ pin = [s \in Sensors |-> 0]
  /\ reported = [s \in Sensors |-> [k \in Kinds |-> 0]]
  /\ pc = [p \in Publishers |-> "idle"]
  /\ target = [p \in Publishers |-> "software"]
  /\ job = [p \in Publishers |-> Nothing]
  /\ at = [s \in Sensors |-> "idle"] /\ want = [s \in Sensors |-> 0]
  /\ offer = [s \in Sensors |-> NoItems] /\ got = [s \in Sensors |-> Empty]
  /\ installed = [s \in Sensors |-> NoItems]
  /\ changes = MaxChanges /\ budget = MaxFaults

(***************************************************************************)
(* Helpers                                                                 *)
(***************************************************************************)

Fault   == budget > 0 /\ budget' = budget - 1
NoFault == UNCHANGED budget
Change  == changes > 0 /\ changes' = changes - 1

Ids(c)       == {i \in DOMAIN table[c] : table[c][i] # Nothing}
Rows(c)      == {table[c][i] : i \in Ids(c)}
RowsOf(c, v) == {r \in Rows(c) : r.version = v}

\* The table with r in the place of the row of version v.
Replaced(c, v, r) ==
  [table EXCEPT ![c] =
    [i \in DOMAIN table[c] |-> IF table[c][i].version = v THEN r ELSE table[c][i]]]

\* SQL's SELECT ... ORDER BY id DESC LIMIT 1.
Latest(c) == {table[c][i] : i \in {j \in Ids(c) : \A k \in Ids(c) : k <= j}}

\* The channel a sensor follows: rules are those of its tenant.
ChannelOf(s, k) == IF k = "rules" THEN TenantOf[s] ELSE k

Goto(p, l) == pc' = [pc EXCEPT ![p] = l] /\ UNCHANGED <<target, job>>

Finish(p) ==
  /\ pc' = [pc EXCEPT ![p] = "idle"]
  /\ target' = [target EXCEPT ![p] = "software"]
  /\ job' = [job EXCEPT ![p] = Nothing]

Proceed(s, l) == at' = [at EXCEPT ![s] = l]

\* The sensor's poll is over: its locals are gone.
Idle(s) ==
  /\ Proceed(s, "idle")
  /\ want' = [want EXCEPT ![s] = 0]
  /\ offer' = [offer EXCEPT ![s] = NoItems]
  /\ got' = [got EXCEPT ![s] = Empty]

\* CheckUpdates takes the items of a manifest in this order.
Order == [software |-> 1, rules |-> 2, threatintel |-> 3]

\* The item it is at.
Current(s, k) ==
  /\ offer[s][k] # Nothing
  /\ \A l \in Kinds : offer[s][l] # Nothing => Order[k] <= Order[l]

\* It is done with an item, well or badly, and goes on to the next.
Done(s, k) ==
  /\ offer' = [offer EXCEPT ![s][k] = Nothing]
  /\ got' = [got EXCEPT ![s] = Empty]
  /\ Proceed(s, IF \E l \in Kinds \ {k} : offer[s][l] # Nothing THEN "download" ELSE "idle")
  /\ UNCHANGED want

\* Mutant: a rebuilt version is not an update.
isUpdateNeededNewer(r, dev) == dev.version = 0 \/ r.version > dev.version

\* A sensor that has nothing reports no version; one that has a release
\* reports its digest too, which decides between equal versions.
isUpdateNeeded(r, dev) ==
  \/ dev.version = 0
  \/ r.version > dev.version
  \/ r.version = dev.version /\ r.digest # dev.digest

(***************************************************************************)
(* objupdater                                                              *)
(***************************************************************************)

\* An operator runs objupdater on a package, new or rebuilt.
Start(p, c, r) ==
  /\ pc[p] = "idle" /\ Change
  /\ pc' = [pc EXCEPT ![p] = "uploadToMinio"]
  /\ target' = [target EXCEPT ![p] = c]
  /\ job' = [job EXCEPT ![p] = r]
  /\ NoFault
  /\ UNCHANGED <<server, reported, poll, installed>>

\* Any failure ends the run where it is: nothing is undone.  So does a tenant
\* that InsertHndrRules does not find, after the upload.
Fail(p) ==
  /\ pc[p] # "idle" /\ Fault
  /\ Finish(p)
  /\ UNCHANGED <<server, reported, poll, installed, changes>>

\* Mutant: the row is written before the object.
uploadToMinioLater(p) ==
  /\ pc[p] = "uploadToMinio"
  /\ Goto(p, "updateDatabase") /\ NoFault
  /\ UNCHANGED <<server, reported, poll, installed, changes>>

\* The object replaces what its path held.  The path of rules has the name of
\* the file, whose tenant is not compared with the one on the command line: of
\* two tenants, nothing reads the path.
uploadToMinio(p) ==
  /\ pc[p] = "uploadToMinio"
  /\ \/ /\ bucket' = [bucket EXCEPT ![target[p]][job[p].version] = job[p].digest]
        /\ UNCHANGED unserved
     \/ /\ target[p] \in Tenants
        /\ unserved' = [unserved EXCEPT ![target[p]] = @ \cup {job[p]}]
        /\ UNCHANGED bucket
  /\ Goto(p, "uploadMetadataJSON") /\ NoFault
  /\ UNCHANGED <<table, pin, announced, reported, poll, installed, changes>>

\* The metadata object is put next to it, which nothing reads.
uploadMetadataJSON(p) ==
  /\ pc[p] = "uploadMetadataJSON"
  /\ Goto(p, "updateDatabase") /\ NoFault
  /\ UNCHANGED <<server, reported, poll, installed, changes>>

\* The SELECT the three functions below begin with: the same digest ends them.
SelectRow(p) ==
  LET rows == RowsOf(target[p], job[p].version) IN
  /\ pc[p] = "updateDatabase"
  /\ \/ rows = {} /\ Goto(p, "INSERT")
     \/ rows \notin {{}, {job[p]}} /\ Goto(p, "UPDATE")
     \/ rows = {job[p]} /\ Finish(p)
  /\ NoFault
  /\ UNCHANGED <<server, reported, poll, installed, changes>>

InsertHndrSw(p)      == target[p] = "software" /\ SelectRow(p)
InsertHndrRules(p)   == target[p] \in Tenants /\ SelectRow(p)
InsertThreatIntel(p) == target[p] = "threatintel" /\ SelectRow(p)

\* Each kind has its table.
updateDatabase(p) == InsertHndrSw(p) \/ InsertHndrRules(p) \/ InsertThreatIntel(p)

\* Their INSERT, refused by the unique index if another run was faster.
InsertRow(p) ==
  /\ pc[p] = "INSERT"
  /\ IF RowsOf(target[p], job[p].version) = {}
       THEN /\ table' = [table EXCEPT ![target[p]] = Append(@, job[p])]
            /\ announced' = [announced EXCEPT ![target[p]] = @ \cup {job[p]}]
       ELSE UNCHANGED <<table, announced>>
  /\ Finish(p) /\ NoFault
  /\ UNCHANGED <<bucket, pin, unserved, reported, poll, installed, changes>>

\* Their UPDATE: the row keeps its id.  No row is an error.
UpdateRow(p) ==
  /\ pc[p] = "UPDATE"
  /\ IF RowsOf(target[p], job[p].version) # {}
       THEN /\ table' = Replaced(target[p], job[p].version, job[p])
            /\ announced' = [announced EXCEPT ![target[p]] = @ \cup {job[p]}]
       ELSE UNCHANGED <<table, announced>>
  /\ Finish(p) /\ NoFault
  /\ UNCHANGED <<bucket, pin, unserved, reported, poll, installed, changes>>

(***************************************************************************)
(* dbtool                                                                  *)
(***************************************************************************)

\* insert-hndr-sw, insert-hndr-rules, insert-threat-intel: the row alone, with
\* the digest the operator gives.
DbtoolInsert(p, c, r) ==
  /\ pc[p] = "idle" /\ Change
  /\ pc' = [pc EXCEPT ![p] = "updateDatabase"]
  /\ target' = [target EXCEPT ![p] = c]
  /\ job' = [job EXCEPT ![p] = r]
  /\ unserved' = [unserved EXCEPT ![c] = @ \cup {r}]
  /\ NoFault
  /\ UNCHANGED <<table, bucket, pin, announced, reported, poll, installed>>

\* A row goes, its object stays.
DeleteRow(c, v) ==
  /\ RowsOf(c, v) # {} /\ Change
  /\ table' = Replaced(c, v, Nothing)
  /\ NoFault
  /\ UNCHANGED <<bucket, pin, announced, unserved, reported, publish, poll, installed>>

\* delete-hndr-sw, delete-hndr-rules, delete-threat-intel.
DeleteHndrSw(v)       == DeleteRow("software", v)
DeleteHndrRules(t, v) == DeleteRow(t, v)
DeleteThreatIntel(v)  == DeleteRow("threatintel", v)

\* update-device: no check that there is such a version.
UpdateDeviceFields(s, v) ==
  /\ pin[s] # v /\ Change
  /\ pin' = [pin EXCEPT ![s] = v]
  /\ NoFault
  /\ UNCHANGED <<table, bucket, announced, unserved, reported, publish, poll, installed>>

(***************************************************************************)
(* handleUpdates                                                           *)
(***************************************************************************)

\* Mutant: the row is created with the versions on offer.
InsertVersionsOffered(s) ==
  /\ at[s] = "idle" /\ Proceed(s, "devices")
  /\ reported' = [reported EXCEPT ![s] = [k \in Kinds |->
       LET rows == Latest(ChannelOf(s, k)) IN
       IF rows = {} THEN @[k] ELSE (CHOOSE r \in rows : TRUE).version]]
  /\ NoFault
  /\ UNCHANGED <<server, publish, want, offer, got, installed, changes>>

\* The sensor polls with what it has; InsertVersions records it, keeping the
\* old value of a kind the sensor reports none of.
InsertVersions(s) ==
  /\ at[s] = "idle" /\ Proceed(s, "devices")
  /\ reported' = [reported EXCEPT ![s] = [k \in Kinds |->
       IF installed[s][k] = Nothing THEN @[k] ELSE installed[s][k].version]]
  /\ NoFault
  /\ UNCHANGED <<server, publish, want, offer, got, installed, changes>>

\* handleUpdates reads the device's row.
ReadDevice(s) ==
  /\ at[s] = "devices" /\ Proceed(s, "hndr_sw")
  /\ want' = [want EXCEPT ![s] = pin[s]]
  /\ NoFault
  /\ UNCHANGED <<server, reported, publish, offer, got, installed, changes>>

\* The software handleUpdates finds: the pinned version's row, or the one with
\* the highest id.
Chosen(v) == IF v # 0 THEN RowsOf("software", v) ELSE Latest("software")

\* Without a row it answers 404, and the poll is over, whatever the other kinds
\* have.
Missing(s, rows) == rows = {} /\ Idle(s)

\* Its SELECT of the software.
ReadSoftware(s) ==
  /\ at[s] = "hndr_sw"
  /\ \/ \E r \in Chosen(want[s]) :
          /\ offer' = [offer EXCEPT ![s]["software"] = r]
          /\ want' = [want EXCEPT ![s] = 0]
          /\ Proceed(s, "hndr_rules") /\ UNCHANGED got
     \/ Missing(s, Chosen(want[s]))
  /\ NoFault
  /\ UNCHANGED <<server, reported, publish, installed, changes>>

\* Its SELECT of the tenant's rules.
ReadRules(s) ==
  /\ at[s] = "hndr_rules"
  /\ \/ \E r \in Latest(TenantOf[s]) :
          /\ offer' = [offer EXCEPT ![s]["rules"] = r]
          /\ Proceed(s, "threatintel") /\ UNCHANGED <<want, got>>
     \/ Missing(s, Latest(TenantOf[s]))
  /\ NoFault
  /\ UNCHANGED <<server, reported, publish, installed, changes>>

\* The items of the rows it has read that the sensor needs.
Needed(s, rows) ==
  [k \in Kinds |-> IF isUpdateNeeded(rows[k], installed[s][k]) THEN rows[k] ELSE Nothing]

\* Its SELECT of the threat intelligence, and the manifest.
ReadThreatIntel(s) ==
  /\ at[s] = "threatintel"
  /\ \/ \E r \in Latest("threatintel") :
          LET items == Needed(s, [offer[s] EXCEPT !["threatintel"] = r]) IN
          /\ offer' = [offer EXCEPT ![s] = items]
          /\ Proceed(s, IF items = NoItems THEN "idle" ELSE "download")
          /\ UNCHANGED <<want, got>>
     \/ Missing(s, Latest("threatintel"))
  /\ NoFault
  /\ UNCHANGED <<server, reported, publish, installed, changes>>

(***************************************************************************)
(* The sensor                                                              *)
(***************************************************************************)

\* Mutant: what comes with a 404 is installed.
DownloadFileUnchecked(s, k) ==
  /\ at[s] = "download" /\ Current(s, k)
  /\ got' = [got EXCEPT ![s] = bucket[ChannelOf(s, k)][offer[s][k].version]]
  /\ Proceed(s, "install") /\ NoFault
  /\ UNCHANGED <<server, reported, publish, want, offer, installed, changes>>

\* DownloadFile through nginx, which serves what the bucket holds now.
DownloadFile(s, k) ==
  LET object == bucket[ChannelOf(s, k)][offer[s][k].version] IN
  /\ at[s] = "download" /\ Current(s, k)
  /\ IF object = Empty THEN Done(s, k)
       ELSE /\ got' = [got EXCEPT ![s] = object]
            /\ Proceed(s, "install") /\ UNCHANGED <<want, offer>>
  /\ NoFault
  /\ UNCHANGED <<server, reported, publish, installed, changes>>

\* Mutant: the digest is not verified, and recorded as announced.
InstallUnverified(s, k) ==
  /\ at[s] = "install" /\ Current(s, k)
  /\ installed' = [installed EXCEPT ![s][k] =
                     [version |-> offer[s][k].version, digest |-> got[s]]]
  /\ Done(s, k) /\ NoFault
  /\ UNCHANGED <<server, reported, publish, changes>>

\* VerifyFileHash, and the installation, which records version and digest;
\* threat intelligence is neither verified nor installed nor recorded.
VerifyAndInstall(s, k) ==
  /\ at[s] = "install" /\ Current(s, k)
  /\ installed' = [installed EXCEPT ![s][k] =
       IF k # "threatintel" /\ got[s] = offer[s][k].digest THEN offer[s][k] ELSE @]
  /\ Done(s, k) /\ NoFault
  /\ UNCHANGED <<server, reported, publish, changes>>

\* A download or an installation fails: the poll goes on to the next item.
Skip(s, k) ==
  /\ at[s] \in {"download", "install"} /\ Current(s, k) /\ Fault
  /\ Done(s, k)
  /\ UNCHANGED <<server, reported, publish, installed, changes>>

\* The request fails, or the updater is killed: it polls again later.
Abandon(s) ==
  /\ at[s] # "idle" /\ Fault
  /\ Idle(s)
  /\ UNCHANGED <<server, reported, publish, installed, changes>>

(***************************************************************************)
(* Specification                                                           *)
(***************************************************************************)

Objupdater(p) ==
  \/ uploadToMinio(p) \/ uploadMetadataJSON(p) \/ updateDatabase(p)
  \/ InsertRow(p)     \/ UpdateRow(p)

Request(s) ==
  \/ InsertVersions(s) \/ ReadDevice(s) \/ ReadSoftware(s)
  \/ ReadRules(s)      \/ ReadThreatIntel(s)

Poll(s) == Request(s) \/ \E k \in Kinds : DownloadFile(s, k) \/ VerifyAndInstall(s, k)

Publish(p) ==
  \/ Objupdater(p) \/ Fail(p)
  \/ \E i \in Packages : Start(p, i[1], i[2]) \/ DbtoolInsert(p, i[1], i[2])

Delete(v) ==
  \/ DeleteHndrSw(v) \/ DeleteThreatIntel(v)
  \/ \E t \in Tenants : DeleteHndrRules(t, v)

Sensor(s) ==
  \/ Poll(s) \/ Abandon(s) \/ \E k \in Kinds : Skip(s, k)
  \/ \E v \in Versions \cup {0} : UpdateDeviceFields(s, v)

Next ==
  \/ \E p \in Publishers : Publish(p)
  \/ \E s \in Sensors : Sensor(s)
  \/ \E v \in Versions : Delete(v)

Spec == Init /\ [][Next]_vars

\* The updater polls for ever, and objupdater runs to its end.
FairSpec ==
  /\ Spec
  /\ \A p \in Publishers : WF_vars(Objupdater(p))
  /\ \A s \in Sensors : WF_vars(Poll(s))

(***************************************************************************)
(* Properties                                                              *)
(***************************************************************************)

\* The types of the tables, the bucket and the processes' state; a run has
\* its package to the end, and a poll that goes on to download or install has
\* an item of its manifest left, and a content to install.
TypeOK ==
  /\ table \in [Channels -> Seq(Releases \cup {Nothing})]
  /\ bucket \in [Channels -> [Versions -> Contents \cup {Empty}]]
  /\ pin \in [Sensors -> Versions \cup {0}]
  /\ reported \in [Sensors -> [Kinds -> Versions \cup {0}]]
  /\ pc \in [Publishers -> {"idle", "uploadToMinio", "uploadMetadataJSON",
                            "updateDatabase", "INSERT", "UPDATE"}]
  /\ target \in [Publishers -> Channels]
  /\ job \in [Publishers -> Releases \cup {Nothing}]
  /\ \A p \in Publishers : pc[p] # "idle" => job[p] \in Releases
  /\ at \in [Sensors -> {"idle", "devices", "hndr_sw", "hndr_rules", "threatintel",
                         "download", "install"}]
  /\ want \in [Sensors -> Versions \cup {0}]
  /\ offer \in [Sensors -> [Kinds -> Releases \cup {Nothing}]]
  /\ got \in [Sensors -> Contents \cup {Empty}]
  /\ \A s \in Sensors :
       /\ at[s] \in {"download", "install"} => offer[s] # NoItems
       /\ at[s] = "install" => got[s] \in Contents
  /\ installed \in [Sensors -> [Kinds -> Releases \cup {Nothing}]]
  /\ announced \in [Channels -> SUBSET Releases]
  /\ unserved \in [Channels -> SUBSET Releases]
  /\ changes \in Nat
  /\ budget \in Nat

\* The abstract promise, with what each sensor has recorded and every row that
\* was ever in a table: only what was announced on the sensor's channels is
\* installed, and no sensor goes back, however publications, polls and failures
\* interleave.
Promise ==
  INSTANCE Rollout WITH
    Feed  <- [s \in Sensors |-> [k \in Kinds |-> ChannelOf(s, k)]],
    holds <- installed
ImplementsRollout == Promise!RolloutSpec

\* A manifest never names an object that has not been uploaded, unless the row
\* was written with dbtool, or for a file named after another tenant: objupdater
\* puts the object there first.
ListedIsStored ==
  \A c \in Channels : \A r \in Rows(c) \ unserved[c] : bucket[c][r.version] # Empty

\* The server never believes a sensor to have a version it has not reached.
ReportedIsInstalled ==
  \A s \in Sensors, k \in Kinds : reported[s][k] <= installed[s][k].version

\* The object that is served for a row is not the one the row describes: a run
\* is between its upload and its row, was cut short there, or overlapped another.
Mismatched(c, r) == bucket[c][r.version] # r.digest

\* The rows a sensor should have: one of each kind, or none.
Due(s, k) == IF k = "software" THEN Chosen(pin[s]) ELSE Latest(ChannelOf(s, k))

\* The sensor has the release chosen for it, or a newer version.
Served(s, k) ==
  \E r \in Due(s, k) :
    installed[s][k] = r \/ installed[s][k].version > r.version

\* Once operators rest and calls succeed, every sensor has the software and the
\* rules chosen for it, unless its server has no row of some kind, whichever it
\* is, or the object is not the one its row describes.
EventuallyServed ==
  \A s \in Sensors, k \in {"software", "rules"} :
    <>[](\/ Served(s, k)
         \/ \E l \in Kinds : Due(s, l) = {}
         \/ \E r \in Due(s, k) : Mismatched(ChannelOf(s, k), r))
===============================================================================
