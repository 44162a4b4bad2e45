------------------------------- MODULE Registry -------------------------------
(***************************************************************************)
(* The registry of tenants, their sensors and the sensors' API keys: the   *)
(* tables of schema v3, the get-or-insert functions of apis/dbutil.go,     *)
(* the provisioner that calls them in turn and stores the result as an     *)
(* object, dbtool, the requests of sensors that report, the publication of *)
(* rules, and db/move-tenant.sh, which gives a tenant another id.          *)
(*                                                                         *)
(* A run of a tool, or a request, is a process that takes one step per SQL *)
(* statement or object.  Only the migration has a transaction, and it is   *)
(* one step: its first statement takes the lock of the tenant's row that   *)
(* every insertion of a child row needs.  Foreign keys, unique indexes and *)
(* cascades are part of the statements.  What a row says besides the keys  *)
(* that tie it to others is left out; `reports' stands for either of the   *)
(* tables version and status, which are written in the same way.           *)
(***************************************************************************)
EXTENDS Integers, FiniteSets

CONSTANTS
  Runs,          \* tools and requests that may overlap
  TenantNames,
  DeviceNames,
  Environments,
  StartId, EndId, \* tenant_id_blocks: the first and last id of each environment
  DeviceIds,     \* bound on devices: the UUIDs there are
  ApiKeys,       \* bound on keys
  Nothing,       \* no name, no id of a device
  MaxOps         \* bound on runs and operations

ASSUME BlocksAssumption ==
  /\ StartId \in [Environments -> Nat \ {0}] /\ EndId \in [Environments -> Nat]
  /\ \A e \in Environments : StartId[e] <= EndId[e]
  /\ \A e, f \in Environments : e # f => StartId[e] > EndId[f] \/ StartId[f] > EndId[e]
ASSUME NothingAssumption ==
  Nothing \notin DeviceIds \cup ApiKeys \cup TenantNames \cup DeviceNames \cup Environments
ASSUME OpsAssumption == MaxOps \in Nat
ASSUME RunsAssumption == IsFiniteSet(Runs)

VARIABLES
  tenants,   \* table tenants: id, name, environment
  next,      \* the value each environment's sequence gives next
  devices,   \* table devices: id, tenant, name
  keys,      \* table api_keys: id, tenant, device, is_active
  reports,   \* table version (or status): device, tenant
  users,     \* tenants that have rows in users
  rules,     \* tenants that have a row in hndr_rules
  stored,    \* the rules' objects in MinIO: part and tenant
  configs,   \* objects <tenant>/<device>/sensor-config.json: tenant, device, key
  job,       \* each run: its next step and its locals
  retired,   \* tenant ids whose row was deleted or moved away
  reused,    \* tenant ids that were inserted again after that
  released,  \* device ids whose row was deleted
  revoked,   \* API keys whose row was deleted
  inactive,  \* API keys that dbtool inserted as inactive
  former,    \* each tenant id's: the ids its row had before a migration
  ops        \* operations that may still start

sensors == <<devices, keys, reports>>
content == <<users, rules>>
objects == <<stored, configs>>
history == <<retired, reused, released, revoked, inactive, former>>
vars    == <<tenants, next, sensors, content, objects, job, history, ops>>

Block(e)  == StartId[e]..EndId[e]
TenantIds == UNION {Block(e) : e \in Environments}

Steps == {"idle", "findTenant", "nextTenantId", "insertTenant", "checkTenant",
          "findDevice", "insertDevice", "checkDevice", "findKey", "insertKey",
          "uploadConfig", "findReport", "insertReport", "uploadRules",
          "uploadMetadata", "findRules", "insertRules", "fetchTenant",
          "listRules", "migrate", "copyRules"}
Goals == {"none", "tenant", "device", "key", "config", "rules", "report", "move"}

Idle == [pc |-> "idle", goal |-> "none", name |-> Nothing, env |-> Nothing,
         tenant |-> 0, new |-> 0, dname |-> Nothing, device |-> Nothing,
         key |-> Nothing, listed |-> FALSE]

Init ==
  /\ tenants = {} /\ next = StartId
  /\ devices = {} /\ keys = {} /\ reports = {} /\ users = {} /\ rules = {}
  /\ stored = {} /\ configs = {}
  /\ job = [r \in Runs |-> Idle]
  /\ retired = {} /\ reused = {} /\ released = {} /\ revoked = {}
  /\ inactive = {} /\ former = [i \in TenantIds |-> {}]
  /\ ops = MaxOps

(***************************************************************************)
(* Helpers                                                                 *)
(***************************************************************************)

TenantRow(i)      == {t \in tenants : t.id = i}
IsTenant(i)       == TenantRow(i) # {}
ValidDevice(d, i) == \E x \in devices : x.id = d /\ x.tenant = i
InUse(rows)       == {x.id : x \in rows}
Of(rows, i)       == {x \in rows : x.tenant = i}
Moved(rows, o, n) == {IF x.tenant = o THEN [x EXCEPT !.tenant = n] ELSE x : x \in rows}

At(r, p)      == job[r].pc = p
Goto(r, p)    == job' = [job EXCEPT ![r].pc = p]
Finish(r)     == job' = [job EXCEPT ![r] = Idle]
Operation     == ops > 0 /\ ops' = ops - 1
Begin(r, j)   == At(r, "idle") /\ Operation /\ job' = [job EXCEPT ![r] = j]

\* A step that changes only what its run knows.
Reads == UNCHANGED <<tenants, next, sensors, content, objects, history, ops>>

(***************************************************************************)
(* Tenants: GetOrInsertTenant                                              *)
(***************************************************************************)

\* provision-tenant of the provisioner, insert-tenant of dbtool: the
\* environment is the one their database configuration names.
ProvisionTenant(r, n, e) ==
  /\ Begin(r, [Idle EXCEPT !.pc = "findTenant", !.goal = "tenant",
                           !.name = n, !.env = e])
  /\ UNCHANGED <<tenants, next, sensors, content, objects, history>>

\* What follows once GetOrInsertTenant has returned i.
GotTenant(r, i) ==
  IF job[r].goal = "tenant"
    THEN Finish(r)
    ELSE job' = [job EXCEPT ![r] = [Idle EXCEPT !.pc = "checkTenant", !.goal = job[r].goal,
                                                !.tenant = i, !.dname = job[r].dname]]

\* A tenant of that name is found in whichever environment it is.
FindTenant(r) ==
  /\ At(r, "findTenant")
  /\ LET found == {t \in tenants : t.name = job[r].name}
     IN  \/ \E t \in found : GotTenant(r, t.id)
         \/ found = {} /\ Goto(r, "nextTenantId")
  /\ Reads

\* Mutant: the sequence has no MAXVALUE.
NextTenantIdUnbounded(r) ==
  /\ At(r, "nextTenantId")
  /\ next' = [next EXCEPT ![job[r].env] = @ + 1]
  /\ job' = [job EXCEPT ![r].new = next[job[r].env], ![r].pc = "insertTenant"]
  /\ UNCHANGED <<tenants, sensors, content, objects, history, ops>>

\* get_next_tenant_id, for a new tenant and for a migration.  An id that is
\* handed out is not handed out again; a sequence that is used up fails.
NextTenantId(r) ==
  /\ At(r, "nextTenantId")
  /\ LET e == job[r].env
     IN  IF next[e] <= EndId[e]
           THEN /\ next' = [next EXCEPT ![e] = @ + 1]
                /\ job' = [job EXCEPT ![r].new = next[e],
                     ![r].pc = IF job[r].goal = "move" THEN "migrate" ELSE "insertTenant"]
           ELSE Finish(r) /\ UNCHANGED next
  /\ UNCHANGED <<tenants, sensors, content, objects, history, ops>>

\* The primary key, the unique name and the trigger on the id's range.
MayInsertTenant(t) ==
  /\ ~ IsTenant(t.id) /\ t.id \in Block(t.env)
  /\ \A x \in tenants : x.name # t.name

AddTenant(t) ==
  /\ tenants' = tenants \cup {t}
  /\ reused' = reused \cup ({t.id} \cap retired)

InsertTenant(r) ==
  /\ At(r, "insertTenant")
  /\ LET t == [id |-> job[r].new, name |-> job[r].name, env |-> job[r].env]
     IN  IF MayInsertTenant(t)
           THEN AddTenant(t) /\ GotTenant(r, t.id)
           ELSE Finish(r) /\ UNCHANGED <<tenants, reused>>
  /\ UNCHANGED <<next, sensors, content, objects, retired, released, revoked, inactive,
                 former, ops>>

\* insert-tenant with -tenant-id: the sequence is not told.
InsertTenantWithSpecificID(i, n, e) ==
  LET t == [id |-> i, name |-> n, env |-> e]
  IN  /\ MayInsertTenant(t) /\ Operation
      /\ AddTenant(t)
      /\ UNCHANGED <<next, sensors, content, objects, job, retired, released, revoked,
                     inactive, former>>

\* The cascades take every row of the tenant, and the keys of its devices.
DeleteTenant(i) ==
  /\ IsTenant(i) /\ Operation
  /\ LET gone == InUse(Of(devices, i))
     IN  /\ devices' = devices \ Of(devices, i)
         /\ keys' = {k \in keys : k.tenant # i /\ k.device \notin gone}
         /\ released' = released \cup gone
         /\ revoked' = revoked \cup InUse(keys \ keys')
  /\ tenants' = tenants \ TenantRow(i)
  /\ reports' = reports \ Of(reports, i)
  /\ users' = users \ {i} /\ rules' = rules \ {i}
  /\ retired' = retired \cup {i} /\ former' = [former EXCEPT ![i] = {}]
  /\ UNCHANGED <<next, objects, job, reused, inactive>>

(***************************************************************************)
(* Sensors: GetOrInsertDevice, GetOrInsertAPIKey and the provisioner       *)
(***************************************************************************)

\* provision-sensor: the tenant, the device, the key, then the object.  A
\* run that was cut short is repeated in the same way.
ProvisionSensor(r, n, d, e) ==
  /\ Begin(r, [Idle EXCEPT !.pc = "findTenant", !.goal = "config",
                           !.name = n, !.env = e, !.dname = d])
  /\ UNCHANGED <<tenants, next, sensors, content, objects, history>>

\* insert-device of dbtool.
DbtoolInsertDevice(r, i, d) ==
  /\ Begin(r, [Idle EXCEPT !.pc = "checkTenant", !.goal = "device",
                           !.tenant = i, !.dname = d])
  /\ UNCHANGED <<tenants, next, sensors, content, objects, history>>

\* insert-api-key of dbtool.
DbtoolInsertAPIKey(r, i, d) ==
  /\ Begin(r, [Idle EXCEPT !.pc = "checkDevice", !.goal = "key",
                           !.tenant = i, !.device = d])
  /\ UNCHANGED <<tenants, next, sensors, content, objects, history>>

\* ValidateTenant, on the way to a device or to a row of hndr_rules.
CheckTenant(r) ==
  /\ At(r, "checkTenant")
  /\ IF IsTenant(job[r].tenant)
       THEN Goto(r, IF job[r].goal = "rules" THEN "findRules" ELSE "findDevice")
       ELSE Finish(r)
  /\ Reads

GotDevice(r, d) ==
  IF job[r].goal = "device"
    THEN Finish(r)
    ELSE job' = [job EXCEPT ![r].pc = "checkDevice", ![r].device = d,
                            ![r].dname = Nothing]

\* Mutant: the device is not looked for.
FindDeviceBlind(r) == At(r, "findDevice") /\ Goto(r, "insertDevice") /\ Reads

\* Of several devices of that name the database returns any.
FindDevice(r) ==
  /\ At(r, "findDevice")
  /\ LET found == {d \in Of(devices, job[r].tenant) : d.name = job[r].dname}
     IN  \/ \E d \in found : GotDevice(r, d.id)
         \/ found = {} /\ Goto(r, "insertDevice")
  /\ Reads

\* A new UUID; dbtool may be told an id that was used before.  There is no
\* unique index on the name.
InsertDevice(r) ==
  /\ At(r, "insertDevice")
  /\ \/ \E d \in DeviceIds \ InUse(devices) :
          /\ d \in released => job[r].goal = "device"
          /\ IsTenant(job[r].tenant)
          /\ devices' = devices \cup
               {[id |-> d, tenant |-> job[r].tenant, name |-> job[r].dname]}
          /\ GotDevice(r, d)
     \/ ~ IsTenant(job[r].tenant) /\ Finish(r) /\ UNCHANGED devices
  /\ UNCHANGED <<tenants, next, keys, reports, content, objects, history, ops>>

\* ValidateDevice, on the way to a key or to a report.
CheckDevice(r) ==
  /\ At(r, "checkDevice")
  /\ IF ValidDevice(job[r].device, job[r].tenant)
       THEN Goto(r, IF job[r].goal = "report" THEN "findReport" ELSE "findKey")
       ELSE Finish(r)
  /\ Reads

GotKey(r, k) ==
  IF job[r].goal = "key"
    THEN Finish(r)
    ELSE job' = [job EXCEPT ![r].pc = "uploadConfig", ![r].key = k]

\* The key is looked for by its device alone, be it active or not.
FindKey(r) ==
  /\ At(r, "findKey")
  /\ LET found == {k \in keys : k.device = job[r].device}
     IN  \/ \E k \in found : GotKey(r, k.id)
         \/ found = {} /\ Goto(r, "insertKey")
  /\ Reads

\* Mutant: api_keys does not reference tenants.
InsertKeyUnreferenced(r) ==
  /\ At(r, "insertKey")
  /\ \E k \in ApiKeys \ (InUse(keys) \cup revoked) :
       /\ job[r].device \in InUse(devices)
       /\ keys' = keys \cup {[id |-> k, tenant |-> job[r].tenant,
                              device |-> job[r].device, active |-> TRUE]}
       /\ GotKey(r, k)
  /\ UNCHANGED <<tenants, next, devices, reports, content, objects, history, ops>>

\* Mutant: the provisioner's key need not be active.
InsertKeyAsTold(r) ==
  LET j == job[r]
  IN  /\ At(r, "insertKey")
      /\ \E k \in ApiKeys \ (InUse(keys) \cup revoked), a \in BOOLEAN :
           /\ IsTenant(j.tenant) /\ j.device \in InUse(devices)
           /\ keys' = keys \cup {[id |-> k, tenant |-> j.tenant,
                                  device |-> j.device, active |-> a]}
           /\ inactive' = IF a \/ j.goal # "key" THEN inactive ELSE inactive \cup {k}
           /\ GotKey(r, k)
      /\ UNCHANGED <<tenants, next, devices, reports, content, objects, retired,
                     reused, released, revoked, former, ops>>

\* Both rows it references must be there, but nothing ties one to the other.
\* The provisioner's key is new and active; dbtool's is what it is told.
InsertKey(r) ==
  LET j == job[r]
      referenced == IsTenant(j.tenant) /\ j.device \in InUse(devices)
  IN  /\ At(r, "insertKey")
      /\ \/ \E k \in ApiKeys \ InUse(keys), a \in BOOLEAN :
              /\ (k \in revoked \/ ~ a) => j.goal = "key"
              /\ referenced
              /\ keys' = keys \cup {[id |-> k, tenant |-> j.tenant,
                                     device |-> j.device, active |-> a]}
              /\ inactive' = IF a THEN inactive ELSE inactive \cup {k}
              /\ GotKey(r, k)
         \/ ~ referenced /\ Finish(r) /\ UNCHANGED <<keys, inactive>>
      /\ UNCHANGED <<tenants, next, devices, reports, content, objects, retired,
                     reused, released, revoked, former, ops>>

\* sensor-config.json replaces the one the path held.
UploadConfig(r) ==
  LET j == job[r]
  IN  /\ At(r, "uploadConfig")
      /\ configs' = {c \in configs : c.tenant # j.tenant \/ c.device # j.device}
           \cup {[tenant |-> j.tenant, device |-> j.device, key |-> j.key]}
      /\ Finish(r)
      /\ UNCHANGED <<tenants, next, sensors, content, stored, history, ops>>

\* The keys of the device go with it; its reports do not.
DeleteDevice(d) ==
  /\ d \in devices /\ Operation
  /\ devices' = devices \ {d}
  /\ keys' = {k \in keys : k.device # d.id}
  /\ released' = released \cup {d.id}
  /\ revoked' = revoked \cup InUse(keys \ keys')
  /\ UNCHANGED <<tenants, next, reports, content, objects, job, retired, reused,
                 inactive, former>>

DeleteAPIKey(k) ==
  /\ k \in keys /\ Operation
  /\ keys' = keys \ {k}
  /\ revoked' = revoked \cup {k.id}
  /\ UNCHANGED <<tenants, next, devices, reports, content, objects, job,
                 retired, reused, released, inactive, former>>

\* dbtool deletes a tenant's last rules row; the objects stay.
DeleteHndrRules(i) ==
  /\ i \in rules /\ Operation
  /\ rules' = rules \ {i}
  /\ UNCHANGED <<tenants, next, sensors, users, objects, job, history>>

\* dbtool deletes a report only of a device that the tenant has.
DeleteStatus(x) ==
  /\ x \in reports /\ \E d \in devices : d.id = x.device /\ d.tenant = x.tenant
  /\ Operation
  /\ reports' = reports \ {x}
  /\ UNCHANGED <<tenants, next, devices, keys, content, objects, job, history>>

(***************************************************************************)
(* Reports of a sensor: authenticate, then InsertVersions or InsertStatus  *)
(***************************************************************************)

\* The request names the tenant, the device and the key of a sensor; it is
\* let in if the key's row is active and says the same.
Authenticate(r, k) ==
  /\ At(r, "idle") /\ k \in keys /\ k.active
  /\ job' = [job EXCEPT ![r] = [Idle EXCEPT !.pc = "checkDevice", !.goal = "report",
                                            !.tenant = k.tenant, !.device = k.device]]
  /\ Reads

\* A row that is found is updated: its keys stay.
FindReport(r) ==
  /\ At(r, "findReport")
  /\ IF \E x \in Of(reports, job[r].tenant) : x.device = job[r].device
       THEN Finish(r)
       ELSE Goto(r, "insertReport")
  /\ Reads

\* The primary key is the device alone; only the tenant is referenced.
InsertReport(r) ==
  LET j == job[r]
  IN  /\ At(r, "insertReport")
      /\ IF IsTenant(j.tenant) /\ \A x \in reports : x.device # j.device
           THEN reports' = reports \cup {[device |-> j.device, tenant |-> j.tenant]}
           ELSE UNCHANGED reports
      /\ Finish(r)
      /\ UNCHANGED <<tenants, next, devices, keys, content, objects, history, ops>>

(***************************************************************************)
(* What else a tenant has: its users, its rules                            *)
(***************************************************************************)

\* insert-user of dbtool, with the id of the tenant.
InsertUser(i) ==
  /\ IsTenant(i) /\ i \notin users /\ Operation
  /\ users' = users \cup {i}
  /\ UNCHANGED <<tenants, next, sensors, rules, objects, job, history>>

\* objupdater on a package of rules: it looks the tenant up and ignores
\* that there may be none.
PublishRules(r, i) ==
  /\ Begin(r, [Idle EXCEPT !.pc = "uploadRules", !.goal = "rules", !.tenant = i])
  /\ UNCHANGED <<tenants, next, sensors, content, objects, history>>

\* Mutant: a failed upload is not an error.
UploadRulesUnchecked(r) ==
  /\ At(r, "uploadRules") /\ Goto(r, "uploadMetadata") /\ Reads

UploadRules(r) ==
  /\ At(r, "uploadRules")
  /\ stored' = stored \cup {<<"package", job[r].tenant>>}
  /\ Goto(r, "uploadMetadata")
  /\ UNCHANGED <<tenants, next, sensors, content, configs, history, ops>>

UploadMetadata(r) ==
  /\ At(r, "uploadMetadata")
  /\ stored' = stored \cup {<<"metadata", job[r].tenant>>}
  /\ Goto(r, "checkTenant")
  /\ UNCHANGED <<tenants, next, sensors, content, configs, history, ops>>

\* InsertHndrRules after ValidateTenant: SELECT, and an UPDATE that keeps the
\* row's keys, or INSERT.
FindRules(r) ==
  /\ At(r, "findRules")
  /\ IF job[r].tenant \in rules THEN Finish(r) ELSE Goto(r, "insertRules")
  /\ Reads

InsertRules(r) ==
  /\ At(r, "insertRules")
  /\ rules' = IF IsTenant(job[r].tenant) THEN rules \cup {job[r].tenant} ELSE rules
  /\ Finish(r)
  /\ UNCHANGED <<tenants, next, sensors, users, objects, history, ops>>

(***************************************************************************)
(* move-tenant.sh                                                          *)
(***************************************************************************)

MoveTenant(r, i, e) ==
  /\ Begin(r, [Idle EXCEPT !.pc = "fetchTenant", !.goal = "move",
                           !.tenant = i, !.env = e])
  /\ UNCHANGED <<tenants, next, sensors, content, objects, history>>

\* No such tenant, or one that is there already, ends it.
FetchTenant(r) ==
  /\ At(r, "fetchTenant")
  /\ IF \E t \in TenantRow(job[r].tenant) : t.env # job[r].env
       THEN Goto(r, "listRules")
       ELSE Finish(r)
  /\ Reads

\* The list that is copied later is made here, before the new id is drawn
\* (a dry run draws it too) and before the operator is asked.
ListRules(r) ==
  /\ At(r, "listRules")
  /\ job' = [job EXCEPT ![r].pc = "nextTenantId", ![r].listed = job[r].tenant \in rules]
  /\ Reads

\* The transaction: a tenant with the new id, the rows of five tables, and
\* the deletion of the old row, whose cascade meets whatever still names it.
\* The new id may be taken (-tenant-id): then all is rolled back.  A tenant
\* that is gone by now is no error.
Migrate(r) ==
  LET o == job[r].tenant
      n == job[r].new
  IN  /\ At(r, "migrate")
      /\ IF IsTenant(o) /\ IsTenant(n)
           THEN /\ Finish(r)
                /\ UNCHANGED <<tenants, sensors, content, retired, reused, former>>
           ELSE /\ tenants' = (tenants \ TenantRow(o)) \cup
                     {[t EXCEPT !.id = n, !.env = job[r].env] : t \in TenantRow(o)}
                /\ devices' = Moved(devices, o, n)
                /\ keys' = Moved(keys, o, n)
                /\ reports' = Moved(reports, o, n)
                /\ rules' = {IF i = o THEN n ELSE i : i \in rules}
                /\ users' = users \ {o}
                /\ retired' = retired \cup {o}
                /\ reused' = IF IsTenant(o) THEN reused \cup ({n} \cap retired) ELSE reused
                /\ former' = IF IsTenant(o)
                     THEN [former EXCEPT ![n] = former[o] \cup {o}, ![o] = {}] ELSE former
                /\ IF job[r].listed THEN Goto(r, "copyRules") ELSE Finish(r)
      /\ UNCHANGED <<next, objects, released, revoked, inactive, ops>>

\* Only the metadata object is copied; a copy that fails is a warning.
CopyRules(r) ==
  LET o == job[r].tenant
      n == job[r].new
  IN  /\ At(r, "copyRules")
      /\ stored' = IF <<"metadata", o>> \in stored
                     THEN stored \cup {<<"metadata", n>>} ELSE stored
      /\ Finish(r)
      /\ UNCHANGED <<tenants, next, sensors, content, configs, history, ops>>

\* A run is killed, a call fails, a migration is a dry run or is answered
\* with no: nothing is undone.
Stop(r) == ~ At(r, "idle") /\ Finish(r) /\ Reads

(***************************************************************************)
(* The specification                                                       *)
(***************************************************************************)

TenantStep(r) ==
  FindTenant(r) \/ NextTenantId(r) \/ InsertTenant(r) \/ CheckTenant(r)
SensorStep(r) ==
  \/ FindDevice(r) \/ InsertDevice(r) \/ CheckDevice(r)
  \/ FindKey(r) \/ InsertKey(r) \/ UploadConfig(r)
  \/ FindReport(r) \/ InsertReport(r)
RulesStep(r) == UploadRules(r) \/ UploadMetadata(r) \/ FindRules(r) \/ InsertRules(r)
MoveStep(r)  == FetchTenant(r) \/ ListRules(r) \/ Migrate(r) \/ CopyRules(r)

Start(r) ==
  \/ \E n \in TenantNames, e \in Environments :
       ProvisionTenant(r, n, e) \/ \E d \in DeviceNames : ProvisionSensor(r, n, d, e)
  \/ \E i \in InUse(tenants) :
       \/ PublishRules(r, i)
       \/ \E d \in DeviceNames : DbtoolInsertDevice(r, i, d)
       \/ \E d \in InUse(devices) : DbtoolInsertAPIKey(r, i, d)
       \/ \E e \in Environments : MoveTenant(r, i, e)
  \/ \E k \in keys : Authenticate(r, k)

Administration ==
  \/ \E n \in TenantNames, e \in Environments, i \in TenantIds :
       InsertTenantWithSpecificID(i, n, e)
  \/ \E i \in InUse(tenants) : DeleteTenant(i) \/ InsertUser(i)
  \/ \E d \in devices : DeleteDevice(d)
  \/ \E k \in keys : DeleteAPIKey(k)
  \/ \E i \in rules : DeleteHndrRules(i)
  \/ \E x \in reports : DeleteStatus(x)

Next ==
  \/ Administration
  \/ \E r \in Runs : \/ Start(r) \/ TenantStep(r) \/ SensorStep(r)
                     \/ RulesStep(r) \/ MoveStep(r) \/ Stop(r)

Spec == Init /\ [][Next]_vars

(***************************************************************************)
(* Properties                                                              *)
(***************************************************************************)

Job == [pc : Steps, goal : Goals, name : TenantNames \cup {Nothing},
        env : Environments \cup {Nothing}, tenant : TenantIds \cup {0},
        new : TenantIds \cup {0}, dname : DeviceNames \cup {Nothing},
        device : DeviceIds \cup {Nothing}, key : ApiKeys \cup {Nothing},
        listed : BOOLEAN]

\* Type correctness: every table references rows of tenants that exist, and
\* every key a device that exists, whatever the runs in between have read.
TypeOK ==
  /\ tenants \subseteq [id : TenantIds, name : TenantNames, env : Environments]
  /\ next \in [Environments -> Nat]
  /\ \A e \in Environments : next[e] \in StartId[e]..(EndId[e] + 1)
  /\ devices \subseteq [id : DeviceIds, tenant : InUse(tenants), name : DeviceNames]
  /\ keys \subseteq [id : ApiKeys, tenant : InUse(tenants), device : InUse(devices),
                     active : BOOLEAN]
  /\ reports \subseteq [device : DeviceIds, tenant : InUse(tenants)]
  /\ users \subseteq InUse(tenants) /\ rules \subseteq InUse(tenants)
  /\ stored \subseteq {"package", "metadata"} \X TenantIds
  /\ configs \subseteq [tenant : TenantIds, device : DeviceIds, key : ApiKeys]
  /\ job \in [Runs -> Job]
  /\ retired \subseteq TenantIds /\ reused \subseteq retired
  /\ released \subseteq DeviceIds /\ revoked \subseteq ApiKeys /\ inactive \subseteq ApiKeys
  /\ former \in [TenantIds -> SUBSET TenantIds]
  /\ ops \in 0..MaxOps

\* A device's keys and reports name the tenant the device has, so that the
\* sensor is let in and its next report finds its row, although each is
\* inserted some statements after the device was looked at and the tenant may
\* be moved in between (dbutil.go, GetOrInsertAPIKey and InsertVersions,
\* against move-tenant.sh).  It takes an id that is used a second time, the
\* device's or a tenant's, for them to differ.
OneTenantPerSensor ==
  reused = {} =>
    \A d \in devices : d.id \notin released =>
      \A x \in reports \cup keys : x.device = d.id => x.tenant = d.tenant

\* A sensor that is installed from a stored sensor-config.json is let in:
\* the object names an active row of api_keys as authenticate reads it, unless
\* the key was deleted or is one that dbtool inserted as inactive, which the
\* provisioner is given like any other (dbutil.go:557), the tenant moved, or an
\* id used again (provisioner/main.go, four calls in turn).
ConfigAuthenticates ==
  reused = {} =>
    \A c \in configs :
      /\ c.key \notin revoked \cup inactive
      /\ c.tenant \notin retired /\ c.device \notin released
      => \E k \in keys : /\ k.id = c.key /\ k.active
                         /\ k.tenant = c.tenant /\ k.device = c.device

Inserting(t, n) ==
  {r \in Runs : At(r, "insertDevice") /\ job[r].tenant = t /\ job[r].dname = n}
InsertingKey(d) == {r \in Runs : At(r, "insertKey") /\ job[r].device = d}

\* SELECT and INSERT without a unique index: a tenant has at most as many
\* devices of one name, and a device at most as many keys, as runs overlap.
\* With runs one after the other, and tenant ids used once, that is one
\* (dbutil.go, GetOrInsertDevice and GetOrInsertAPIKey).
DuplicatesBounded ==
  /\ reused = {} => \A t \in InUse(tenants), n \in DeviceNames :
       Cardinality({d \in Of(devices, t) : d.name = n}) + Cardinality(Inserting(t, n))
         <= Cardinality(Runs)
  /\ \A d \in DeviceIds :
       Cardinality({k \in keys : k.device = d}) + Cardinality(InsertingKey(d))
         <= Cardinality(Runs)

\* A row of hndr_rules has its package in MinIO, under the tenant's path or,
\* once a migration has moved the row and copied no package, under an id that
\* this tenant had before (objupdater/main.go, move-tenant.sh).
RulesStored ==
  \A i \in rules : \E o \in {i} \cup former[i] : <<"package", o>> \in stored

\* docs/TENANT-MIGRATION-README.md:227 says that a migration updates all
\* tables that reference the tenant: a tenant whose id changes keeps its
\* users.
MoveKeepsUsers ==
  [][\A t \in tenants, s \in tenants' :
       (t.name = s.name /\ t.id # s.id /\ t.id \in users) => s.id \in users']_vars
===============================================================================
