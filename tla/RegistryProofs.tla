---------------------------- MODULE RegistryProofs ----------------------------
(***************************************************************************)
(* Theorems about Registry, for any runs, names, environments and ids.     *)
(*                                                                         *)
(* TypeOK is not inductive: what a run inserts is what it has found or     *)
(* drawn some steps before, and JobOK says at which step which of its      *)
(* locals are there.  SensorInv relates a run's device to the tables: from *)
(* ValidateDevice on, the device's row is there with the tenant the run    *)
(* has in hand, or the tenant was retired, or the device's row deleted.    *)
(***************************************************************************)
EXTENDS Registry, TLAPS

\* The run has a tenant's id, a device's id, a device's name in hand.
HasTenant == {"checkTenant", "findDevice", "insertDevice", "checkDevice",
              "findKey", "insertKey", "uploadConfig", "findReport",
              "insertReport", "uploadRules", "uploadMetadata", "findRules",
              "insertRules", "fetchTenant", "listRules", "migrate", "copyRules"}
HasDevice == {"checkDevice", "findKey", "insertKey", "uploadConfig",
              "findReport", "insertReport"}
Naming    == {"findTenant", "nextTenantId", "insertTenant"}

JobOK(j) ==
  /\ j \in Job
  /\ j.pc \in HasTenant => j.tenant \in TenantIds
  /\ j.pc \in HasDevice => j.device \in DeviceIds
  /\ j.pc = "uploadConfig" => j.key \in ApiKeys
  /\ j.pc \in {"insertTenant", "migrate", "copyRules"} => j.new \in TenantIds
  /\ j.pc \in Naming \cup {"fetchTenant", "listRules", "migrate"} => j.env \in Environments
  /\ j.pc \in {"fetchTenant", "listRules"} => j.goal = "move"
  /\ j.pc \in {"uploadRules", "uploadMetadata"} => j.goal = "rules"
  /\ j.pc \in Naming =>
       \/ j.goal \in {"tenant", "config"} /\ j.name \in TenantNames
       \/ j.pc = "nextTenantId" /\ j.goal = "move" /\ j.tenant \in TenantIds
  /\ j.pc \in Naming /\ j.goal = "config" => j.dname \in DeviceNames
  /\ j.pc = "checkTenant" /\ j.goal # "rules" => j.dname \in DeviceNames
  /\ j.pc \in {"findDevice", "insertDevice"} => j.dname \in DeviceNames

JobsOK == \A r \in Runs : JobOK(job[r])
Typed  == TypeOK /\ JobsOK

(***************************************************************************)
(* Lemmas                                                                  *)
(***************************************************************************)

\* A block's ids are among all ids.
LEMMA BlockIds ==
  ASSUME NEW e \in Environments
  PROVE  Block(e) \subseteq TenantIds
BY DEF TenantIds

\* An idle run has nothing in hand.
LEMMA IdleOK == JobOK(Idle)
BY NothingAssumption DEF JobOK, Job, Idle, Steps, Goals, HasTenant, HasDevice, Naming

\* A run whose new locals are all right leaves the runs all right.
LEMMA JobUpdate ==
  ASSUME Typed, NEW r \in Runs, NEW j, JobOK(j), job' = [job EXCEPT ![r] = j]
  PROVE  JobsOK' /\ job' \in [Runs -> Job]
<1>1. job \in [Runs -> Job]
  BY DEF Typed, TypeOK
<1>2. j \in Job
  BY DEF JobOK
<1>3. job' \in [Runs -> Job]
  BY <1>1, <1>2
<1>4. ASSUME NEW q \in Runs PROVE JobOK(job'[q])
  <2>1. job'[q] = IF q = r THEN j ELSE job[q]
    BY <1>1
  <2>2. JobOK(job[q])
    BY DEF Typed, JobsOK
  <2> QED BY <2>1, <2>2
<1> QED BY <1>3, <1>4 DEF JobsOK

\* A run may end anywhere.
LEMMA FinishOK ==
  ASSUME Typed, NEW r \in Runs, Finish(r)
  PROVE  JobsOK' /\ job' \in [Runs -> Job]
BY JobUpdate, IdleOK DEF Finish

\* Only the job changes.
LEMMA ReadsOK ==
  ASSUME Typed, Reads, JobsOK' /\ job' \in [Runs -> Job]
  PROVE  Typed'
BY DEF Typed, TypeOK, Reads, sensors, content, objects, history, InUse

\* A run is begun and nothing else changes.
LEMMA BeginOK ==
  ASSUME Typed, NEW r \in Runs, NEW j, JobOK(j), Begin(r, j),
         UNCHANGED <<tenants, next, sensors, content, objects, history>>
  PROVE  Typed'
<1>1. JobsOK' /\ job' \in [Runs -> Job]
  BY JobUpdate DEF Begin
<1>2. ops' \in 0..MaxOps
  BY OpsAssumption DEF Typed, TypeOK, Begin, Operation
<1> QED
  BY <1>1, <1>2 DEF Typed, TypeOK, sensors, content, objects, history, InUse

\* A tool or a request that starts has in hand what its arguments give it.
LEMMA StartOK ==
  ASSUME Typed, NEW r \in Runs, Start(r)
  PROVE  Typed'
<1>1. ASSUME NEW n \in TenantNames, NEW e \in Environments, ProvisionTenant(r, n, e)
      PROVE  Typed'
  <2>1. JobOK([Idle EXCEPT !.pc = "findTenant", !.goal = "tenant", !.name = n, !.env = e])
    BY IdleOK DEF JobOK, Job, Idle, Steps, Goals, HasTenant, HasDevice, Naming
  <2> QED BY <1>1, <2>1, BeginOK DEF ProvisionTenant
<1>2. ASSUME NEW n \in TenantNames, NEW e \in Environments, NEW d \in DeviceNames,
             ProvisionSensor(r, n, d, e)
      PROVE  Typed'
  <2>1. JobOK([Idle EXCEPT !.pc = "findTenant", !.goal = "config", !.name = n,
                           !.env = e, !.dname = d])
    BY IdleOK DEF JobOK, Job, Idle, Steps, Goals, HasTenant, HasDevice, Naming
  <2> QED BY <1>2, <2>1, BeginOK DEF ProvisionSensor
<1>3. \A i \in InUse(tenants) : i \in TenantIds
  BY DEF Typed, TypeOK, InUse
<1>4. \A d \in InUse(devices) : d \in DeviceIds
  BY DEF Typed, TypeOK, InUse
<1>5. ASSUME NEW i \in InUse(tenants), PublishRules(r, i) PROVE Typed'
  <2>1. JobOK([Idle EXCEPT !.pc = "uploadRules", !.goal = "rules", !.tenant = i])
    BY IdleOK, <1>3 DEF JobOK, Job, Idle, Steps, Goals, HasTenant, HasDevice, Naming
  <2> QED BY <1>5, <2>1, BeginOK DEF PublishRules
<1>6. ASSUME NEW i \in InUse(tenants), NEW d \in DeviceNames, DbtoolInsertDevice(r, i, d)
      PROVE  Typed'
  <2>1. JobOK([Idle EXCEPT !.pc = "checkTenant", !.goal = "device", !.tenant = i,
                           !.dname = d])
    BY IdleOK, <1>3 DEF JobOK, Job, Idle, Steps, Goals, HasTenant, HasDevice, Naming
  <2> QED BY <1>6, <2>1, BeginOK DEF DbtoolInsertDevice
<1>7. ASSUME NEW i \in InUse(tenants), NEW d \in InUse(devices), DbtoolInsertAPIKey(r, i, d)
      PROVE  Typed'
  <2>1. JobOK([Idle EXCEPT !.pc = "checkDevice", !.goal = "key", !.tenant = i,
                           !.device = d])
    BY IdleOK, <1>3, <1>4 DEF JobOK, Job, Idle, Steps, Goals, HasTenant, HasDevice, Naming
  <2> QED BY <1>7, <2>1, BeginOK DEF DbtoolInsertAPIKey
<1>8. ASSUME NEW i \in InUse(tenants), NEW e \in Environments, MoveTenant(r, i, e)
      PROVE  Typed'
  <2>1. JobOK([Idle EXCEPT !.pc = "fetchTenant", !.goal = "move", !.tenant = i, !.env = e])
    BY IdleOK, <1>3 DEF JobOK, Job, Idle, Steps, Goals, HasTenant, HasDevice, Naming
  <2> QED BY <1>8, <2>1, BeginOK DEF MoveTenant
<1>9. ASSUME NEW k \in keys, Authenticate(r, k) PROVE Typed'
  <2>1. k.tenant \in TenantIds /\ k.device \in DeviceIds
    BY <1>3, <1>4 DEF Typed, TypeOK
  <2>2. JobOK([Idle EXCEPT !.pc = "checkDevice", !.goal = "report",
                           !.tenant = k.tenant, !.device = k.device])
    BY IdleOK, <2>1 DEF JobOK, Job, Idle, Steps, Goals, HasTenant, HasDevice, Naming
  <2> QED BY <1>9, <2>2, JobUpdate, ReadsOK DEF Authenticate
<1> QED
  BY <1>1, <1>2, <1>5, <1>6, <1>7, <1>8, <1>9 DEF Start

\* Where a run goes next, it has in hand what that step needs.
LEMMA GotoOK ==
  ASSUME Typed, NEW r \in Runs, NEW p \in Steps, Goto(r, p),
         JobOK([job[r] EXCEPT !.pc = p])
  PROVE  JobsOK' /\ job' \in [Runs -> Job]
BY JobUpdate DEF Goto

\* A run that has got its tenant has that in hand.
LEMMA GotTenantOK ==
  ASSUME Typed, NEW r \in Runs, NEW i \in TenantIds, GotTenant(r, i),
         job[r].pc \in {"findTenant", "insertTenant"}
  PROVE  JobsOK' /\ job' \in [Runs -> Job]
<1>1. CASE job[r].goal = "tenant"
  BY <1>1, FinishOK DEF GotTenant
<1>2. CASE job[r].goal # "tenant"
  <2> DEFINE j == [Idle EXCEPT !.pc = "checkTenant", !.goal = job[r].goal,
                               !.tenant = i, !.dname = job[r].dname]
  <2>1. JobOK(job[r])
    BY DEF Typed, JobsOK
  <2>2. job[r].goal = "config" /\ job[r].dname \in DeviceNames
    BY <1>2, <2>1 DEF JobOK, Naming
  <2>3. JobOK(j)
    BY <2>2, IdleOK DEF JobOK, Job, Idle, Steps, Goals, HasTenant, HasDevice, Naming
  <2> QED BY <1>2, <2>3, JobUpdate DEF GotTenant
<1> QED BY <1>1, <1>2

\* A run that has got its device has that in hand.
LEMMA GotDeviceOK ==
  ASSUME Typed, NEW r \in Runs, NEW d \in DeviceIds, GotDevice(r, d),
         job[r].pc \in {"findDevice", "insertDevice"}
  PROVE  JobsOK' /\ job' \in [Runs -> Job]
<1>1. CASE job[r].goal = "device"
  BY <1>1, FinishOK DEF GotDevice
<1>2. CASE job[r].goal # "device"
  <2> DEFINE j == [job[r] EXCEPT !.pc = "checkDevice", !.device = d, !.dname = Nothing]
  <2>1. JobOK(job[r])
    BY DEF Typed, JobsOK
  <2>2. JobOK(j)
    <3>1. job[r] \in Job /\ job[r].tenant \in TenantIds
      BY <2>1 DEF JobOK, HasTenant
    <3>2. /\ j \in Job /\ j.pc = "checkDevice" /\ j.device = d
          /\ j.tenant = job[r].tenant
      BY <3>1 DEF Job, Steps
    <3> HIDE DEF j
    <3> QED BY <3>1, <3>2 DEF JobOK, HasTenant, HasDevice, Naming
  <2>3. job' = [job EXCEPT ![r] = j]
    BY <1>2 DEF GotDevice
  <2> QED BY <2>2, <2>3, JobUpdate
<1> QED BY <1>1, <1>2

\* A run that has got its key has that in hand.
LEMMA GotKeyOK ==
  ASSUME Typed, NEW r \in Runs, NEW k \in ApiKeys, GotKey(r, k),
         job[r].pc \in {"findKey", "insertKey"}
  PROVE  JobsOK' /\ job' \in [Runs -> Job]
<1>1. CASE job[r].goal = "key"
  BY <1>1, FinishOK DEF GotKey
<1>2. CASE job[r].goal # "key"
  <2> DEFINE j == [job[r] EXCEPT !.pc = "uploadConfig", !.key = k]
  <2>1. JobOK(job[r])
    BY DEF Typed, JobsOK
  <2>2. JobOK(j)
    BY <2>1 DEF JobOK, Job, Steps, HasTenant, HasDevice, Naming
  <2>3. job' = [job EXCEPT ![r] = j]
    BY <1>2 DEF GotKey
  <2> QED BY <2>2, <2>3, JobUpdate
<1> QED BY <1>1, <1>2

\* GetOrInsertTenant, ValidateTenant.
LEMMA TenantStepOK ==
  ASSUME Typed, NEW r \in Runs, TenantStep(r)
  PROVE  Typed'
<1>1. JobOK(job[r])
  BY DEF Typed, JobsOK
<1>2. CASE FindTenant(r)
  <2>1. CASE \E t \in tenants : GotTenant(r, t.id)
    <3>1. PICK t \in tenants : GotTenant(r, t.id)
      BY <2>1
    <3>2. t.id \in TenantIds
      BY DEF Typed, TypeOK
    <3> QED BY <1>2, <3>1, <3>2, GotTenantOK, ReadsOK DEF FindTenant, At
  <2>2. CASE Goto(r, "nextTenantId")
    <3>1. JobOK([job[r] EXCEPT !.pc = "nextTenantId"])
      BY <1>1, <1>2 DEF FindTenant, At, JobOK, Job, Steps, HasTenant, HasDevice, Naming
    <3> QED BY <1>2, <2>2, <3>1, GotoOK, ReadsOK DEF FindTenant, Steps
  <2> QED BY <1>2, <2>1, <2>2 DEF FindTenant
<1>3. CASE NextTenantId(r)
  <2> DEFINE e == job[r].env
  <2>1. e \in Environments
    BY <1>1, <1>3 DEF NextTenantId, At, JobOK, Naming
  <2>2. next[e] \in StartId[e]..(EndId[e] + 1) /\ StartId[e] \in Nat /\ EndId[e] \in Nat
    BY <2>1, BlocksAssumption DEF Typed, TypeOK
  <2>3. JobsOK' /\ job' \in [Runs -> Job]
    <3>1. CASE next[e] <= EndId[e]
      <4> DEFINE j == [job[r] EXCEPT !.new = next[e],
                         !.pc = IF job[r].goal = "move" THEN "migrate" ELSE "insertTenant"]
      <4>1. next[e] \in TenantIds
        BY <2>1, <2>2, <3>1, BlockIds DEF Block
      <4>2. JobOK(j)
        <5>1. job[r].pc = "nextTenantId" /\ job[r] \in Job
          BY <1>1, <1>3 DEF NextTenantId, At, JobOK
        <5>2. CASE job[r].goal = "move"
          BY <1>1, <4>1, <5>1, <5>2, <2>1 DEF JobOK, Job, Steps, HasTenant, HasDevice, Naming
        <5>3. CASE job[r].goal # "move"
          <6>1. j = [job[r] EXCEPT !.new = next[e], !.pc = "insertTenant"]
            BY <5>3
          <6>2. job[r].goal \in {"tenant", "config"} /\ job[r].name \in TenantNames
            BY <1>1, <5>1, <5>3 DEF JobOK, Naming
          <6>3. job[r].goal = "config" => job[r].dname \in DeviceNames
            BY <1>1, <5>1 DEF JobOK, Naming
          <6> HIDE DEF j
          <6>4. j \in Job
            BY <4>1, <5>1, <6>1 DEF Job, Steps
          <6>5. /\ j.pc = "insertTenant" /\ j.new \in TenantIds /\ j.env = e
                /\ j.goal = job[r].goal /\ j.name = job[r].name
                /\ j.dname = job[r].dname
            BY <4>1, <5>1, <6>1 DEF Job
          <6> QED BY <2>1, <6>2, <6>3, <6>4, <6>5 DEF JobOK, HasTenant, HasDevice, Naming
        <5> QED BY <5>2, <5>3
      <4>3. job' = [job EXCEPT ![r] = j]
        BY <1>3, <3>1 DEF NextTenantId
      <4> QED BY <4>2, <4>3, JobUpdate
    <3>2. CASE ~ (next[e] <= EndId[e])
      BY <1>3, <3>2, FinishOK DEF NextTenantId
    <3> QED BY <3>1, <3>2
  <2>4. \A f \in Environments : next'[f] \in StartId[f]..(EndId[f] + 1)
    <3>1. \/ next' = [next EXCEPT ![e] = @ + 1] /\ next[e] <= EndId[e]
          \/ next' = next
      BY <1>3 DEF NextTenantId
    <3>2. next \in [Environments -> Nat]
      BY DEF Typed, TypeOK
    <3> QED BY <2>2, <3>1, <3>2 DEF Typed, TypeOK
  <2>5. next' \in [Environments -> Nat]
    <3>1. next' = [next EXCEPT ![e] = @ + 1] \/ next' = next
      BY <1>3 DEF NextTenantId
    <3> QED BY <2>1, <3>1 DEF Typed, TypeOK
  <2> QED
    BY <1>3, <2>3, <2>4, <2>5
    DEF NextTenantId, Typed, TypeOK, sensors, content, objects, history, InUse
<1>4. CASE InsertTenant(r)
  <2> DEFINE t == [id |-> job[r].new, name |-> job[r].name, env |-> job[r].env]
  <2>1. t \in [id : TenantIds, name : TenantNames, env : Environments]
    BY <1>1, <1>4 DEF InsertTenant, At, JobOK, Naming
  <2>2. JobsOK' /\ job' \in [Runs -> Job]
    BY <1>4, <2>1, GotTenantOK, FinishOK DEF InsertTenant, At
  <2>3. \/ tenants' = tenants \cup {t} /\ reused' = reused \cup ({t.id} \cap retired)
        \/ UNCHANGED <<tenants, reused>>
    BY <1>4 DEF InsertTenant, AddTenant
  <2> QED
    BY <1>4, <2>1, <2>2, <2>3
    DEF InsertTenant, Typed, TypeOK, sensors, content, objects, InUse
<1>5. CASE CheckTenant(r)
  <2> DEFINE p == IF job[r].goal = "rules" THEN "findRules" ELSE "findDevice"
  <2>1. JobOK([job[r] EXCEPT !.pc = p])
    BY <1>1, <1>5 DEF CheckTenant, At, JobOK, Job, Steps, HasTenant, HasDevice, Naming
  <2>2. Goto(r, p) \/ Finish(r)
    BY <1>5 DEF CheckTenant
  <2> QED BY <1>5, <2>1, <2>2, GotoOK, FinishOK, ReadsOK DEF CheckTenant, Steps
<1> QED BY <1>2, <1>3, <1>4, <1>5 DEF TenantStep

\* A run that only reads goes on to p or ends.
LEMMA ReadStepOK ==
  ASSUME Typed, NEW r \in Runs, NEW p \in Steps, Goto(r, p) \/ Finish(r), Reads,
         JobOK([job[r] EXCEPT !.pc = p])
  PROVE  Typed'
BY GotoOK, FinishOK, ReadsOK

\* GetOrInsertDevice, GetOrInsertAPIKey, the object, and the reports.
LEMMA SensorStepOK ==
  ASSUME Typed, NEW r \in Runs, SensorStep(r)
  PROVE  Typed'
<1>1. JobOK(job[r])
  BY DEF Typed, JobsOK
<1>2. CASE FindDevice(r)
  <2>1. CASE \E d \in Of(devices, job[r].tenant) : GotDevice(r, d.id)
    <3>1. PICK d \in devices : GotDevice(r, d.id)
      BY <2>1 DEF Of
    <3>2. d.id \in DeviceIds
      BY DEF Typed, TypeOK
    <3> QED BY <1>2, <3>1, <3>2, GotDeviceOK, ReadsOK DEF FindDevice, At
  <2>2. CASE Goto(r, "insertDevice")
    <3>1. JobOK([job[r] EXCEPT !.pc = "insertDevice"])
      BY <1>1, <1>2 DEF FindDevice, At, JobOK, Job, Steps, HasTenant, HasDevice, Naming
    <3> QED BY <1>2, <2>2, <3>1, GotoOK, ReadsOK DEF FindDevice, Steps
  <2> QED BY <1>2, <2>1, <2>2 DEF FindDevice
<1>3. CASE InsertDevice(r)
  <2>1. CASE UNCHANGED devices /\ Finish(r)
    BY <1>3, <2>1, FinishOK
    DEF InsertDevice, Typed, TypeOK, content, objects, history, InUse
  <2>2. ASSUME NEW d \in DeviceIds, IsTenant(job[r].tenant), GotDevice(r, d),
               devices' = devices \cup
                 {[id |-> d, tenant |-> job[r].tenant, name |-> job[r].dname]}
        PROVE  Typed'
    <3>1. JobsOK' /\ job' \in [Runs -> Job]
      BY <1>3, <2>2, GotDeviceOK DEF InsertDevice, At
    <3>2. job[r].tenant \in InUse(tenants) /\ job[r].dname \in DeviceNames
      BY <1>1, <1>3, <2>2 DEF InsertDevice, At, JobOK, IsTenant, TenantRow, InUse
    <3>3. InUse(devices) \subseteq InUse(devices')
      BY <2>2 DEF InUse
    <3> QED
      BY <1>3, <2>2, <3>1, <3>2, <3>3
      DEF InsertDevice, Typed, TypeOK, content, objects, history, InUse
  <2> QED BY <1>3, <2>1, <2>2 DEF InsertDevice
<1>4. CASE CheckDevice(r)
  <2> DEFINE p == IF job[r].goal = "report" THEN "findReport" ELSE "findKey"
  <2>1. JobOK([job[r] EXCEPT !.pc = p])
    BY <1>1, <1>4 DEF CheckDevice, At, JobOK, Job, Steps, HasTenant, HasDevice, Naming
  <2>2. Goto(r, p) \/ Finish(r)
    BY <1>4 DEF CheckDevice
  <2> QED BY <1>4, <2>1, <2>2, ReadStepOK DEF CheckDevice, Steps
<1>5. CASE FindKey(r)
  <2>1. CASE \E k \in keys : GotKey(r, k.id)
    <3>1. PICK k \in keys : GotKey(r, k.id)
      BY <2>1
    <3>2. k.id \in ApiKeys
      BY DEF Typed, TypeOK
    <3> QED BY <1>5, <3>1, <3>2, GotKeyOK, ReadsOK DEF FindKey, At
  <2>2. CASE Goto(r, "insertKey")
    <3>1. JobOK([job[r] EXCEPT !.pc = "insertKey"])
      BY <1>1, <1>5 DEF FindKey, At, JobOK, Job, Steps, HasTenant, HasDevice, Naming
    <3> QED BY <1>5, <2>2, <3>1, GotoOK, ReadsOK DEF FindKey, Steps
  <2> QED BY <1>5, <2>1, <2>2 DEF FindKey
<1>6. CASE InsertKey(r)
  <2>1. CASE UNCHANGED keys /\ Finish(r)
    BY <1>6, <2>1, FinishOK
    DEF InsertKey, Typed, TypeOK, content, objects, history, InUse
  <2>2. ASSUME NEW k \in ApiKeys, NEW a \in BOOLEAN, GotKey(r, k),
               IsTenant(job[r].tenant), job[r].device \in InUse(devices),
               keys' = keys \cup {[id |-> k, tenant |-> job[r].tenant,
                                   device |-> job[r].device, active |-> a]}
        PROVE  Typed'
    <3>1. JobsOK' /\ job' \in [Runs -> Job]
      BY <1>6, <2>2, GotKeyOK DEF InsertKey, At
    <3>2. job[r].tenant \in InUse(tenants)
      BY <2>2 DEF IsTenant, TenantRow, InUse
    <3> QED
      BY <1>6, <2>2, <3>1, <3>2
      DEF InsertKey, Typed, TypeOK, content, objects, history, InUse
  <2> QED BY <1>6, <2>1, <2>2 DEF InsertKey
<1>7. CASE UploadConfig(r)
  <2>1. JobsOK' /\ job' \in [Runs -> Job]
    BY <1>7, FinishOK DEF UploadConfig
  <2>2. [tenant |-> job[r].tenant, device |-> job[r].device, key |-> job[r].key]
          \in [tenant : TenantIds, device : DeviceIds, key : ApiKeys]
    BY <1>1, <1>7 DEF UploadConfig, At, JobOK, HasTenant, HasDevice
  <2> QED
    BY <1>7, <2>1, <2>2
    DEF UploadConfig, Typed, TypeOK, sensors, content, history, InUse
<1>8. CASE FindReport(r)
  <2>1. JobOK([job[r] EXCEPT !.pc = "insertReport"])
    BY <1>1, <1>8 DEF FindReport, At, JobOK, Job, Steps, HasTenant, HasDevice, Naming
  <2>2. Goto(r, "insertReport") \/ Finish(r)
    BY <1>8 DEF FindReport
  <2> QED BY <1>8, <2>1, <2>2, ReadStepOK DEF FindReport, Steps
<1>9. CASE InsertReport(r)
  <2>1. JobsOK' /\ job' \in [Runs -> Job]
    BY <1>9, FinishOK DEF InsertReport
  <2>2. \/ UNCHANGED reports
        \/ /\ job[r].tenant \in InUse(tenants) /\ job[r].device \in DeviceIds
           /\ reports' = reports \cup {[device |-> job[r].device, tenant |-> job[r].tenant]}
    BY <1>1, <1>9
    DEF InsertReport, At, JobOK, HasDevice, IsTenant, TenantRow, InUse
  <2> QED
    BY <1>9, <2>1, <2>2
    DEF InsertReport, Typed, TypeOK, content, objects, history, InUse
<1> QED
  BY <1>2, <1>3, <1>4, <1>5, <1>6, <1>7, <1>8, <1>9 DEF SensorStep

\* PublishRules' steps: the two objects and the row of hndr_rules.
LEMMA RulesStepOK ==
  ASSUME Typed, NEW r \in Runs, RulesStep(r)
  PROVE  Typed'
<1>1. JobOK(job[r])
  BY DEF Typed, JobsOK
<1>2. CASE UploadRules(r)
  <2>1. JobOK([job[r] EXCEPT !.pc = "uploadMetadata"])
    BY <1>1, <1>2 DEF UploadRules, At, JobOK, Job, Steps, HasTenant, HasDevice, Naming
  <2>2. JobsOK' /\ job' \in [Runs -> Job]
    BY <1>2, <2>1, GotoOK DEF UploadRules, Steps
  <2>3. job[r].tenant \in TenantIds
    BY <1>1, <1>2 DEF UploadRules, At, JobOK, HasTenant
  <2> QED
    BY <1>2, <2>2, <2>3
    DEF UploadRules, Typed, TypeOK, sensors, content, history, InUse
<1>3. CASE UploadMetadata(r)
  <2>1. JobOK([job[r] EXCEPT !.pc = "checkTenant"])
    BY <1>1, <1>3 DEF UploadMetadata, At, JobOK, Job, Steps, HasTenant, HasDevice, Naming
  <2>2. JobsOK' /\ job' \in [Runs -> Job]
    BY <1>3, <2>1, GotoOK DEF UploadMetadata, Steps
  <2>3. job[r].tenant \in TenantIds
    BY <1>1, <1>3 DEF UploadMetadata, At, JobOK, HasTenant
  <2> QED
    BY <1>3, <2>2, <2>3
    DEF UploadMetadata, Typed, TypeOK, sensors, content, history, InUse
<1>4. CASE FindRules(r)
  <2>1. JobOK([job[r] EXCEPT !.pc = "insertRules"])
    BY <1>1, <1>4 DEF FindRules, At, JobOK, Job, Steps, HasTenant, HasDevice, Naming
  <2>2. Goto(r, "insertRules") \/ Finish(r)
    BY <1>4 DEF FindRules
  <2> QED BY <1>4, <2>1, <2>2, ReadStepOK DEF FindRules, Steps
<1>5. CASE InsertRules(r)
  <2>1. JobsOK' /\ job' \in [Runs -> Job]
    BY <1>5, FinishOK DEF InsertRules
  <2>2. rules' \subseteq InUse(tenants)
    BY <1>5 DEF InsertRules, IsTenant, TenantRow, InUse, Typed, TypeOK
  <2> QED
    BY <1>5, <2>1, <2>2
    DEF InsertRules, Typed, TypeOK, sensors, objects, history, InUse
<1> QED BY <1>2, <1>3, <1>4, <1>5 DEF RulesStep

\* What the transaction of move-tenant.sh leaves references what is there.
LEMMA MigrateOK ==
  ASSUME Typed, NEW r \in Runs, Migrate(r)
  PROVE  Typed'
<1> DEFINE o == job[r].tenant
           n == job[r].new
           e == job[r].env
<1>1. JobOK(job[r]) /\ job[r].pc = "migrate"
  BY DEF Typed, JobsOK, Migrate, At
<1>2. o \in TenantIds /\ n \in TenantIds /\ e \in Environments
  BY <1>1 DEF JobOK, HasTenant
<1>3. JobsOK' /\ job' \in [Runs -> Job]
  <2>1. JobOK([job[r] EXCEPT !.pc = "copyRules"])
    BY <1>1 DEF JobOK, Job, Steps, HasTenant, HasDevice, Naming
  <2> QED BY <2>1, GotoOK, FinishOK DEF Migrate, Steps
<1>4. CASE IsTenant(o) /\ IsTenant(n)
  BY <1>3, <1>4
  DEF Migrate, Typed, TypeOK, sensors, content, objects, history, InUse
<1>5. CASE ~ (IsTenant(o) /\ IsTenant(n))
  <2>1. /\ tenants' = (tenants \ TenantRow(o)) \cup
             {[t EXCEPT !.id = n, !.env = e] : t \in TenantRow(o)}
        /\ devices' = Moved(devices, o, n)
        /\ keys' = Moved(keys, o, n)
        /\ reports' = Moved(reports, o, n)
        /\ rules' = {IF i = o THEN n ELSE i : i \in rules}
        /\ users' = users \ {o}
        /\ retired' = retired \cup {o}
        /\ reused' = IF IsTenant(o) THEN reused \cup ({n} \cap retired) ELSE reused
        /\ former' = IF IsTenant(o)
             THEN [former EXCEPT ![n] = former[o] \cup {o}, ![o] = {}] ELSE former
        /\ UNCHANGED <<next, objects, released, revoked, inactive, ops>>
    BY <1>5 DEF Migrate
  <2>2. tenants' \subseteq [id : TenantIds, name : TenantNames, env : Environments]
    <3>1. \A t \in tenants : t \in [id : TenantIds, name : TenantNames, env : Environments]
      BY DEF Typed, TypeOK
    <3>2. \A t \in tenants :
            [t EXCEPT !.id = n, !.env = e] \in
              [id : TenantIds, name : TenantNames, env : Environments]
      BY <1>2, <3>1
    <3> QED BY <2>1, <3>1, <3>2 DEF TenantRow
  <2>3. ASSUME NEW i \in InUse(tenants) PROVE (IF i = o THEN n ELSE i) \in InUse(tenants')
    <3>1. PICK t \in tenants : t.id = i
      BY DEF InUse
    <3>2. t \in [id : TenantIds, name : TenantNames, env : Environments]
      BY DEF Typed, TypeOK
    <3>3. CASE i = o
      <4>1. [t EXCEPT !.id = n, !.env = e] \in tenants'
        BY <2>1, <3>1, <3>3 DEF TenantRow
      <4>2. [t EXCEPT !.id = n, !.env = e].id = n
        BY <3>2
      <4> QED BY <3>3, <4>1, <4>2 DEF InUse
    <3>4. CASE i # o
      BY <2>1, <3>1, <3>4 DEF TenantRow, InUse
    <3> QED BY <3>3, <3>4
  <2>4. \A i \in InUse(tenants) : i # o => i \in InUse(tenants')
    BY <2>3
  <2>5. devices' \subseteq [id : DeviceIds, tenant : InUse(tenants'), name : DeviceNames]
    <3> SUFFICES ASSUME NEW x \in devices'
                 PROVE  x \in [id : DeviceIds, tenant : InUse(tenants'), name : DeviceNames]
      OBVIOUS
    <3>1. PICK y \in devices : x = IF y.tenant = o THEN [y EXCEPT !.tenant = n] ELSE y
      BY <2>1 DEF Moved
    <3>2. y \in [id : DeviceIds, tenant : InUse(tenants), name : DeviceNames]
      BY DEF Typed, TypeOK
    <3> QED BY <2>3, <3>1, <3>2
  <2>6. InUse(devices) \subseteq InUse(devices')
    <3> SUFFICES ASSUME NEW y \in devices PROVE y.id \in InUse(devices')
      BY DEF InUse
    <3> DEFINE x == IF y.tenant = o THEN [y EXCEPT !.tenant = n] ELSE y
    <3>1. x \in devices'
      BY <2>1 DEF Moved
    <3>2. y \in [id : DeviceIds, tenant : InUse(tenants), name : DeviceNames]
      BY DEF Typed, TypeOK
    <3>3. x.id = y.id
      BY <3>2
    <3> QED BY <3>1, <3>3 DEF InUse
  <2>7. keys' \subseteq [id : ApiKeys, tenant : InUse(tenants'), device : InUse(devices'),
                         active : BOOLEAN]
    <3> SUFFICES ASSUME NEW x \in keys'
                 PROVE  x \in [id : ApiKeys, tenant : InUse(tenants'),
                               device : InUse(devices'), active : BOOLEAN]
      OBVIOUS
    <3>1. PICK y \in keys : x = IF y.tenant = o THEN [y EXCEPT !.tenant = n] ELSE y
      BY <2>1 DEF Moved
    <3>2. y \in [id : ApiKeys, tenant : InUse(tenants), device : InUse(devices),
                 active : BOOLEAN]
      BY DEF Typed, TypeOK
    <3> QED BY <2>3, <2>6, <3>1, <3>2
  <2>8. reports' \subseteq [device : DeviceIds, tenant : InUse(tenants')]
    <3> SUFFICES ASSUME NEW x \in reports'
                 PROVE  x \in [device : DeviceIds, tenant : InUse(tenants')]
      OBVIOUS
    <3>1. PICK y \in reports : x = IF y.tenant = o THEN [y EXCEPT !.tenant = n] ELSE y
      BY <2>1 DEF Moved
    <3>2. y \in [device : DeviceIds, tenant : InUse(tenants)]
      BY DEF Typed, TypeOK
    <3> QED BY <2>3, <3>1, <3>2
  <2>9. users' \subseteq InUse(tenants') /\ rules' \subseteq InUse(tenants')
    BY <2>1, <2>3 DEF Typed, TypeOK
  <2>10. retired' \subseteq TenantIds /\ reused' \subseteq retired'
    BY <1>2, <2>1 DEF Typed, TypeOK
  <2>11. former' \in [TenantIds -> SUBSET TenantIds]
    <3>1. former \in [TenantIds -> SUBSET TenantIds]
      BY DEF Typed, TypeOK
    <3>2. former[o] \cup {o} \in SUBSET TenantIds
      BY <1>2, <3>1
    <3> QED BY <2>1, <3>1, <3>2
  <2> QED
    BY <1>3, <2>1, <2>2, <2>5, <2>7, <2>8, <2>9, <2>10, <2>11 DEF Typed, TypeOK, objects
<1> QED BY <1>4, <1>5

\* move-tenant.sh.
LEMMA MoveStepOK ==
  ASSUME Typed, NEW r \in Runs, MoveStep(r)
  PROVE  Typed'
<1>1. JobOK(job[r])
  BY DEF Typed, JobsOK
<1>2. CASE FetchTenant(r)
  <2>1. JobOK([job[r] EXCEPT !.pc = "listRules"])
    BY <1>1, <1>2 DEF FetchTenant, At, JobOK, Job, Steps, HasTenant, HasDevice, Naming
  <2>2. Goto(r, "listRules") \/ Finish(r)
    BY <1>2 DEF FetchTenant
  <2> QED BY <1>2, <2>1, <2>2, ReadStepOK DEF FetchTenant, Steps
<1>3. CASE ListRules(r)
  <2> DEFINE b == job[r].tenant \in rules
             j == [job[r] EXCEPT !.pc = "nextTenantId", !.listed = b]
  <2>1. JobOK(j)
    <3>1. /\ job[r] \in Job /\ job[r].pc = "listRules"
          /\ job[r].tenant \in TenantIds /\ job[r].env \in Environments
          /\ job[r].goal = "move"
      BY <1>1, <1>3 DEF ListRules, At, JobOK, HasTenant
    <3>2. /\ j \in Job /\ j.pc = "nextTenantId" /\ j.goal = "move"
          /\ j.tenant = job[r].tenant /\ j.env = job[r].env
      <4>1. b \in BOOLEAN
        OBVIOUS
      <4> HIDE DEF b
      <4> QED BY <3>1, <4>1 DEF Job, Steps
    <3> HIDE DEF j
    <3> QED BY <3>1, <3>2 DEF JobOK, HasTenant, HasDevice, Naming
  <2>2. job' = [job EXCEPT ![r] = j]
    BY <1>3 DEF ListRules
  <2> QED BY <1>3, <2>1, <2>2, JobUpdate, ReadsOK DEF ListRules
<1>4. CASE CopyRules(r)
  <2>1. JobsOK' /\ job' \in [Runs -> Job]
    BY <1>4, FinishOK DEF CopyRules
  <2>2. job[r].new \in TenantIds
    BY <1>1, <1>4 DEF CopyRules, At, JobOK
  <2> QED
    BY <1>4, <2>1, <2>2 DEF CopyRules, Typed, TypeOK, sensors, content, history, InUse
<1> QED BY <1>2, <1>3, <1>4, MigrateOK DEF MoveStep

\* One operation less leaves the number of them in its bounds.
LEMMA OperationOK ==
  ASSUME Typed, Operation
  PROVE  ops' \in 0..MaxOps
BY OpsAssumption DEF Typed, TypeOK, Operation

\* dbtool's statements: the cascades leave no row without its tenant, and
\* no key without its device.
LEMMA AdministrationOK ==
  ASSUME Typed, Administration
  PROVE  Typed'
<1>1. ASSUME NEW n \in TenantNames, NEW e \in Environments, NEW i \in TenantIds,
             InsertTenantWithSpecificID(i, n, e)
      PROVE  Typed'
  <2>1. [id |-> i, name |-> n, env |-> e]
          \in [id : TenantIds, name : TenantNames, env : Environments]
    OBVIOUS
  <2> QED
    BY <1>1, <2>1, OperationOK
    DEF InsertTenantWithSpecificID, AddTenant, Typed, TypeOK, JobsOK,
        sensors, content, objects, InUse
<1>2. ASSUME NEW i \in InUse(tenants), DeleteTenant(i) PROVE Typed'
  <2>1. i \in TenantIds
    BY DEF Typed, TypeOK, InUse
  <2>2. \A x \in InUse(tenants) : x # i => x \in InUse(tenants')
    BY <1>2 DEF DeleteTenant, InUse, TenantRow
  <2>3. devices' \subseteq [id : DeviceIds, tenant : InUse(tenants'), name : DeviceNames]
    BY <1>2, <2>2 DEF DeleteTenant, Of, Typed, TypeOK
  <2>4. keys' \subseteq [id : ApiKeys, tenant : InUse(tenants'), device : InUse(devices'),
                         active : BOOLEAN]
    <3> SUFFICES ASSUME NEW k \in keys'
                 PROVE  k \in [id : ApiKeys, tenant : InUse(tenants'),
                               device : InUse(devices'), active : BOOLEAN]
      OBVIOUS
    <3>1. k \in keys /\ k.tenant # i /\ k.device \notin InUse(Of(devices, i))
      BY <1>2 DEF DeleteTenant
    <3>2. k \in [id : ApiKeys, tenant : InUse(tenants), device : InUse(devices),
                 active : BOOLEAN]
      BY <3>1 DEF Typed, TypeOK
    <3>3. k.device \in InUse(devices')
      BY <1>2, <3>1, <3>2 DEF DeleteTenant, Of, InUse
    <3> QED BY <2>2, <3>1, <3>2, <3>3
  <2>5. reports' \subseteq [device : DeviceIds, tenant : InUse(tenants')]
    BY <1>2, <2>2 DEF DeleteTenant, Of, Typed, TypeOK
  <2>6. users' \subseteq InUse(tenants') /\ rules' \subseteq InUse(tenants')
    BY <1>2, <2>2 DEF DeleteTenant, Typed, TypeOK
  <2>7. tenants' \subseteq tenants /\ retired' = retired \cup {i} /\ UNCHANGED reused
    BY <1>2 DEF DeleteTenant
  <2>8. released' \subseteq DeviceIds
    BY <1>2 DEF DeleteTenant, Of, InUse, Typed, TypeOK
  <2>9. revoked' \subseteq ApiKeys
    BY <1>2 DEF DeleteTenant, InUse, Typed, TypeOK
  <2>10. UNCHANGED <<next, objects, job, inactive>> /\ Operation
    BY <1>2 DEF DeleteTenant
  <2>11. former' \in [TenantIds -> SUBSET TenantIds]
    BY <1>2 DEF DeleteTenant, Typed, TypeOK
  <2> QED
    BY <2>1, <2>3, <2>4, <2>5, <2>6, <2>7, <2>8, <2>9, <2>10, <2>11, OperationOK
    DEF Typed, TypeOK, JobsOK, objects
<1>3. ASSUME NEW i \in InUse(tenants), InsertUser(i) PROVE Typed'
  BY <1>3, OperationOK
  DEF InsertUser, Typed, TypeOK, JobsOK, sensors, objects, history, InUse
<1>4. ASSUME NEW d \in devices, DeleteDevice(d) PROVE Typed'
  <2>1. keys' \subseteq [id : ApiKeys, tenant : InUse(tenants), device : InUse(devices'),
                         active : BOOLEAN]
    <3> SUFFICES ASSUME NEW k \in keys'
                 PROVE  k \in [id : ApiKeys, tenant : InUse(tenants),
                               device : InUse(devices'), active : BOOLEAN]
      OBVIOUS
    <3>1. k \in keys /\ k.device # d.id
      BY <1>4 DEF DeleteDevice
    <3>2. k \in [id : ApiKeys, tenant : InUse(tenants), device : InUse(devices),
                 active : BOOLEAN]
      BY <3>1 DEF Typed, TypeOK
    <3>3. k.device \in InUse(devices')
      BY <1>4, <3>1, <3>2 DEF DeleteDevice, InUse
    <3> QED BY <3>2, <3>3
  <2>2. released' \subseteq DeviceIds /\ revoked' \subseteq ApiKeys
    BY <1>4 DEF DeleteDevice, InUse, Typed, TypeOK
  <2> QED
    BY <1>4, <2>1, <2>2, OperationOK
    DEF DeleteDevice, Typed, TypeOK, JobsOK, content, objects, InUse
<1>5. ASSUME NEW k \in keys, DeleteAPIKey(k) PROVE Typed'
  BY <1>5, OperationOK
  DEF DeleteAPIKey, Typed, TypeOK, JobsOK, content, objects, InUse
<1>6. ASSUME NEW i \in rules, DeleteHndrRules(i) PROVE Typed'
  BY <1>6, OperationOK
  DEF DeleteHndrRules, Typed, TypeOK, JobsOK, sensors, objects, history, InUse
<1>7. ASSUME NEW x \in reports, DeleteStatus(x) PROVE Typed'
  BY <1>7, OperationOK
  DEF DeleteStatus, Typed, TypeOK, JobsOK, content, objects, history, InUse
<1> QED BY <1>1, <1>2, <1>3, <1>4, <1>5, <1>6, <1>7 DEF Administration

\* The tables are empty and the runs idle at first.
LEMMA InitOK ==
  ASSUME Init
  PROVE  Typed
<1>1. JobsOK
  BY IdleOK DEF Init, JobsOK
<1>2. job \in [Runs -> Job]
  BY IdleOK DEF Init, JobOK
<1>3. /\ next \in [Environments -> Nat]
      /\ \A e \in Environments : next[e] \in StartId[e]..(EndId[e] + 1)
  BY BlocksAssumption DEF Init
<1> QED BY <1>1, <1>2, <1>3, OpsAssumption DEF Init, Typed, TypeOK, InUse

\* Every step keeps the types and what each run has in hand.
LEMMA NextOK ==
  ASSUME Typed, [Next]_vars
  PROVE  Typed'
<1>1. ASSUME NEW r \in Runs, Stop(r) PROVE Typed'
  BY <1>1, FinishOK, ReadsOK DEF Stop
<1>2. CASE UNCHANGED vars
  BY <1>2
  DEF vars, sensors, content, objects, history, Typed, TypeOK, JobsOK, InUse
<1> QED
  BY <1>1, <1>2, AdministrationOK, StartOK, TenantStepOK, SensorStepOK,
     RulesStepOK, MoveStepOK DEF Next

(***************************************************************************)
(* Theorems                                                                *)
(***************************************************************************)

\* Type correctness of the specification: whatever runs overlap, a foreign
\* key never names a row that is not there, and an id is in some block.
THEOREM TypeCorrect == Spec => []TypeOK
<1>1. Spec => []Typed
  BY InitOK, NextOK, PTL DEF Spec
<1>2. Typed => TypeOK
  BY DEF Typed
<1> QED BY <1>1, <1>2, PTL

===============================================================================
