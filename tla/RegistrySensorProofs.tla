------------------------- MODULE RegistrySensorProofs -------------------------
(***************************************************************************)
(* OneTenantPerSensor and DuplicatesBounded of Registry, for any runs,     *)
(* names, environments and ids.                                            *)
(*                                                                         *)
(* A key or a report is inserted with the device and the tenant that the   *)
(* run checked some steps before.  SensorInv says what is left of that     *)
(* check: the device still has the tenant in hand, or the tenant's id was  *)
(* retired (and only a second use of it makes the insertion succeed), or   *)
(* the device's row was deleted.                                           *)
(*                                                                         *)
(* A device or a key is inserted by a run that found none, some steps      *)
(* before.  CountInv counts the rows that are there together with the runs *)
(* about to insert one, and says that no run is about to insert under a    *)
(* tenant's id that is still to come: a migration takes a tenant's devices *)
(* to such an id.                                                          *)
(***************************************************************************)
EXTENDS RegistryProofs, FiniteSetTheorems

\* The steps between ValidateDevice and the row that is inserted.
Checked == {"findKey", "insertKey", "findReport", "insertReport"}

Known(j) ==
  j.pc \in Checked =>
    \/ j.device \in released
    \/ \E x \in devices : x.id = j.device /\ (x.tenant = j.tenant \/ j.tenant \in retired)

UniqueDevice == \A x, y \in devices : x.id = y.id => x = y
RetiredIds   == \A i \in InUse(tenants) : i \in retired => i \in reused
ReportsKnown == \A x \in reports : x.device \in InUse(devices) \cup released
JobsKnown    == \A r \in Runs : Known(job[r])

SensorInv ==
  UniqueDevice /\ RetiredIds /\ ReportsKnown /\ JobsKnown /\ OneTenantPerSensor

\* The other runs keep what they have in hand.
Others(r) == \A q \in Runs : q # r => job'[q] = job[q]

\* Run r goes where no device is in hand.
Leaves(r) == Others(r) /\ job'[r].pc \notin Checked

\* A device's row stays, is moved with its tenant, or is deleted.
DevicesKept ==
  /\ released \subseteq released' /\ retired \subseteq retired'
  /\ \A x \in devices :
       \/ x.id \in released'
       \/ \E y \in devices' : y.id = x.id /\ (y.tenant = x.tenant \/ x.tenant \in retired')

(***************************************************************************)
(* Lemmas on what a run has in hand                                        *)
(***************************************************************************)

\* One run's locals are replaced.
LEMMA Replaced ==
  ASSUME Typed, NEW r \in Runs, NEW j, job' = [job EXCEPT ![r] = j]
  PROVE  job'[r] = j /\ Others(r)
<1>1. job \in [Runs -> Job]
  BY DEF Typed, TypeOK
<1> QED BY <1>1 DEF Others

\* A run that ends is idle.
LEMMA FinishPc ==
  ASSUME Typed, NEW r \in Runs, Finish(r)
  PROVE  Others(r) /\ job'[r].pc = "idle"
<1>1. job'[r] = Idle /\ Others(r)
  BY Replaced DEF Finish
<1>2. Idle.pc = "idle"
  BY DEF Idle
<1> QED BY <1>1, <1>2

\* A run that goes to another step keeps what it has in hand.
LEMMA GotoFields ==
  ASSUME Typed, NEW r \in Runs, NEW p, Goto(r, p)
  PROVE  /\ Others(r) /\ job'[r].pc = p
         /\ job'[r].tenant = job[r].tenant /\ job'[r].goal = job[r].goal
         /\ job'[r].device = job[r].device /\ job'[r].dname = job[r].dname
<1> DEFINE j == [job[r] EXCEPT !.pc = p]
<1>1. job'[r] = j /\ Others(r)
  BY Replaced DEF Goto
<1>2. job[r] \in Job
  BY DEF Typed, TypeOK
<1>3. /\ j.pc = p /\ j.tenant = job[r].tenant /\ j.goal = job[r].goal
      /\ j.device = job[r].device /\ j.dname = job[r].dname
  BY <1>2 DEF Job
<1> QED BY <1>1, <1>3

\* A run that has got its tenant checks it, or ends.
LEMMA GotTenantPc ==
  ASSUME Typed, NEW r \in Runs, NEW i, GotTenant(r, i)
  PROVE  Others(r) /\ job'[r].pc \in {"idle", "checkTenant"}
<1>1. CASE job[r].goal = "tenant"
  BY <1>1, FinishPc DEF GotTenant
<1>2. CASE job[r].goal # "tenant"
  <2> DEFINE j == [Idle EXCEPT !.pc = "checkTenant", !.goal = job[r].goal,
                               !.tenant = i, !.dname = job[r].dname]
  <2>1. job'[r] = j /\ Others(r)
    BY <1>2, Replaced DEF GotTenant
  <2>2. j.pc = "checkTenant"
    BY DEF Idle
  <2> QED BY <2>1, <2>2
<1> QED BY <1>1, <1>2

\* A run that has got its device checks it, or ends.
LEMMA GotDevicePc ==
  ASSUME Typed, NEW r \in Runs, NEW d, GotDevice(r, d)
  PROVE  Others(r) /\ job'[r].pc \in {"idle", "checkDevice"}
<1>1. CASE job[r].goal = "device"
  BY <1>1, FinishPc DEF GotDevice
<1>2. CASE job[r].goal # "device"
  <2> DEFINE j == [job[r] EXCEPT !.pc = "checkDevice", !.device = d, !.dname = Nothing]
  <2>1. job' = [job EXCEPT ![r] = j]
    BY <1>2 DEF GotDevice
  <2>2. j.pc = "checkDevice"
    BY DEF Typed, TypeOK, Job
  <2> QED BY <2>1, <2>2, Replaced
<1> QED BY <1>1, <1>2

\* A run that has got its key stores the configuration, or ends.
LEMMA GotKeyPc ==
  ASSUME Typed, NEW r \in Runs, NEW k, GotKey(r, k)
  PROVE  Others(r) /\ job'[r].pc \in {"idle", "uploadConfig"}
<1>1. CASE job[r].goal = "key"
  BY <1>1, FinishPc DEF GotKey
<1>2. CASE job[r].goal # "key"
  <2> DEFINE j == [job[r] EXCEPT !.pc = "uploadConfig", !.key = k]
  <2>1. job' = [job EXCEPT ![r] = j]
    BY <1>2 DEF GotKey
  <2>2. j.pc = "uploadConfig"
    BY DEF Typed, TypeOK, Job
  <2> QED BY <2>1, <2>2, Replaced
<1> QED BY <1>1, <1>2

\* A run that has drawn an id inserts the tenant or migrates it, or ends.
LEMMA NextTenantIdPc ==
  ASSUME Typed, NEW r \in Runs, NextTenantId(r)
  PROVE  Others(r) /\ job'[r].pc \in {"idle", "migrate", "insertTenant"}
<1> DEFINE e == job[r].env
           j == [job[r] EXCEPT !.new = next[e],
                   !.pc = IF job[r].goal = "move" THEN "migrate" ELSE "insertTenant"]
<1>1. CASE Finish(r)
  BY <1>1, FinishPc
<1>2. CASE job' = [job EXCEPT ![r] = j]
  <2>1. job[r] \in Job
    BY DEF Typed, TypeOK
  <2>2. j.pc \in {"migrate", "insertTenant"}
    BY <2>1 DEF Job
  <2>3. job'[r] = j /\ Others(r)
    BY <1>2, Replaced
  <2> QED BY <2>2, <2>3
<1> QED BY <1>1, <1>2 DEF NextTenantId

\* A migration that has listed the rules draws an id.
LEMMA ListRulesPc ==
  ASSUME Typed, NEW r \in Runs, ListRules(r)
  PROVE  Others(r) /\ job'[r].pc = "nextTenantId"
<1> DEFINE j == [job[r] EXCEPT !.pc = "nextTenantId", !.listed = job[r].tenant \in rules]
<1>1. job' = [job EXCEPT ![r] = j]
  BY DEF ListRules
<1>2. job[r] \in Job
  BY DEF Typed, TypeOK
<1>3. j.pc = "nextTenantId"
  BY <1>2 DEF Job
<1> HIDE DEF j
<1> QED BY <1>1, <1>3, Replaced

\* The first steps of the tools and of a request.
FirstSteps == {"findTenant", "uploadRules", "checkTenant", "checkDevice", "fetchTenant"}

\* A run that starts is at one of them.
LEMMA StartPc ==
  ASSUME Typed, NEW r \in Runs, Start(r)
  PROVE  Others(r) /\ job'[r].pc \in FirstSteps
<1> DEFINE Begun == \E j : j.pc \in FirstSteps /\ job' = [job EXCEPT ![r] = j]
<1>1. ASSUME NEW n, NEW e, ProvisionTenant(r, n, e) PROVE Begun
  <2>1. [Idle EXCEPT !.pc = "findTenant", !.goal = "tenant", !.name = n,
                     !.env = e].pc \in FirstSteps
    BY DEF Idle, FirstSteps
  <2> QED BY <1>1, <2>1 DEF ProvisionTenant, Begin
<1>2. ASSUME NEW n, NEW e, NEW d, ProvisionSensor(r, n, d, e) PROVE Begun
  <2>1. [Idle EXCEPT !.pc = "findTenant", !.goal = "config", !.name = n,
                     !.env = e, !.dname = d].pc \in FirstSteps
    BY DEF Idle, FirstSteps
  <2> QED BY <1>2, <2>1 DEF ProvisionSensor, Begin
<1>3. ASSUME NEW i, PublishRules(r, i) PROVE Begun
  <2>1. [Idle EXCEPT !.pc = "uploadRules", !.goal = "rules", !.tenant = i].pc \in FirstSteps
    BY DEF Idle, FirstSteps
  <2> QED BY <1>3, <2>1 DEF PublishRules, Begin
<1>4. ASSUME NEW i, NEW d, DbtoolInsertDevice(r, i, d) PROVE Begun
  <2>1. [Idle EXCEPT !.pc = "checkTenant", !.goal = "device", !.tenant = i,
                     !.dname = d].pc \in FirstSteps
    BY DEF Idle, FirstSteps
  <2> QED BY <1>4, <2>1 DEF DbtoolInsertDevice, Begin
<1>5. ASSUME NEW i, NEW d, DbtoolInsertAPIKey(r, i, d) PROVE Begun
  <2>1. [Idle EXCEPT !.pc = "checkDevice", !.goal = "key", !.tenant = i,
                     !.device = d].pc \in FirstSteps
    BY DEF Idle, FirstSteps
  <2> QED BY <1>5, <2>1 DEF DbtoolInsertAPIKey, Begin
<1>6. ASSUME NEW i, NEW e, MoveTenant(r, i, e) PROVE Begun
  <2>1. [Idle EXCEPT !.pc = "fetchTenant", !.goal = "move", !.tenant = i,
                     !.env = e].pc \in FirstSteps
    BY DEF Idle, FirstSteps
  <2> QED BY <1>6, <2>1 DEF MoveTenant, Begin
<1>7. ASSUME NEW k, Authenticate(r, k) PROVE Begun
  <2>1. [Idle EXCEPT !.pc = "checkDevice", !.goal = "report", !.tenant = k.tenant,
                     !.device = k.device].pc \in FirstSteps
    BY DEF Idle, FirstSteps
  <2> QED BY <1>7, <2>1 DEF Authenticate
<1>8. Begun
  BY <1>1, <1>2, <1>3, <1>4, <1>5, <1>6, <1>7 DEF Start
<1> QED BY <1>8, Replaced

\* Where a run has no device that it has checked.
LEMMA FinishLeaves ==
  ASSUME Typed, NEW r \in Runs, Finish(r)
  PROVE  Leaves(r)
BY FinishPc DEF Leaves, Checked

\* A run goes to a step before ValidateDevice, or after the insertion.
LEMMA GotoLeaves ==
  ASSUME Typed, NEW r \in Runs, NEW p, p \notin Checked, Goto(r, p)
  PROVE  Leaves(r)
BY GotoFields DEF Leaves

\* What run r has in hand is right again, and the other runs' devices are
\* where they were: all runs are right.
LEMMA JobsKept ==
  ASSUME JobsKnown, NEW r \in Runs, Others(r), DevicesKept, Known(job[r])'
  PROVE  JobsKnown'
<1> SUFFICES ASSUME NEW q \in Runs, q # r PROVE Known(job[q])'
  BY DEF JobsKnown
<1>1. job'[q] = job[q] /\ Known(job[q])
  BY DEF Others, JobsKnown
<1> QED BY <1>1 DEF Known, DevicesKept

\* Without a device in hand there is nothing to know.
LEMMA LeavesKnown ==
  ASSUME NEW r \in Runs, Leaves(r)
  PROVE  Others(r) /\ Known(job[r])'
BY DEF Leaves, Known

\* Devices that are not touched are kept.
LEMMA SameDevices ==
  ASSUME UNCHANGED <<devices, released>>, retired \subseteq retired'
  PROVE  DevicesKept
BY DEF DevicesKept

\* A step that touches no table of sensors and retires nothing.
LEMMA SensorsKept ==
  ASSUME SensorInv, NEW r \in Runs, Others(r), Known(job[r])',
         UNCHANGED <<tenants, devices, keys, reports, retired, reused, released>>
  PROVE  SensorInv'
<1>1. JobsKnown'
  BY JobsKept, SameDevices DEF SensorInv
<1> QED
  BY <1>1
  DEF SensorInv, UniqueDevice, RetiredIds, ReportsKnown, OneTenantPerSensor, InUse

(***************************************************************************)
(* SensorInv is kept                                                       *)
(***************************************************************************)

\* A tenant that is inserted under an id that was retired uses it again.
LEMMA AddTenantKeeps ==
  ASSUME SensorInv, NEW t, AddTenant(t), JobsKnown',
         UNCHANGED <<devices, keys, reports, retired, released>>
  PROVE  SensorInv'
<1>1. RetiredIds'
  BY DEF SensorInv, RetiredIds, AddTenant, InUse
<1>2. OneTenantPerSensor'
  BY DEF SensorInv, OneTenantPerSensor, AddTenant
<1> QED BY <1>1, <1>2 DEF SensorInv, UniqueDevice, ReportsKnown, InUse

\* GetOrInsertTenant and ValidateTenant.
LEMMA TenantStepKeeps ==
  ASSUME Typed, SensorInv, NEW r \in Runs, TenantStep(r)
  PROVE  SensorInv'
<1>1. Leaves(r)
  BY GotTenantPc, GotoLeaves, FinishLeaves, NextTenantIdPc
  DEF TenantStep, FindTenant, InsertTenant, CheckTenant, Leaves, Checked
<1>2. Others(r) /\ Known(job[r])'
  BY <1>1, LeavesKnown
<1>3. CASE InsertTenant(r)
  <2>1. UNCHANGED <<devices, keys, reports, retired, released>>
    BY <1>3 DEF InsertTenant, sensors
  <2>2. JobsKnown'
    BY <1>2, <2>1, JobsKept, SameDevices DEF SensorInv
  <2> QED BY <1>2, <1>3, <2>1, <2>2, AddTenantKeeps, SensorsKept DEF InsertTenant
<1>4. CASE FindTenant(r) \/ NextTenantId(r) \/ CheckTenant(r)
  BY <1>2, <1>4, SensorsKept
  DEF FindTenant, NextTenantId, CheckTenant, Reads, sensors, history
<1> QED BY <1>3, <1>4 DEF TenantStep

\* A row that is inserted for a sensor, when no id was used again: the device
\* has the tenant in hand, unless the device's row was deleted.
LEMMA InsertedRow ==
  ASSUME Typed, SensorInv, NEW r \in Runs, job[r].pc \in Checked, reused = {},
         job[r].tenant \in InUse(tenants), NEW d \in devices, d.id = job[r].device,
         d.id \notin released
  PROVE  d.tenant = job[r].tenant
<1>1. job[r].tenant \notin retired
  BY DEF SensorInv, RetiredIds
<1>2. PICK x \in devices : x.id = job[r].device /\ x.tenant = job[r].tenant
  BY <1>1 DEF SensorInv, JobsKnown, Known
<1> QED BY <1>2 DEF SensorInv, UniqueDevice

\* The key that is inserted names the tenant the device has.
LEMMA InsertKeyKeeps ==
  ASSUME Typed, SensorInv, NEW r \in Runs, InsertKey(r)
  PROVE  SensorInv'
<1>1. Leaves(r)
  BY GotKeyPc, FinishLeaves DEF InsertKey, Leaves, Checked
<1>2. Others(r) /\ Known(job[r])'
  BY <1>1, LeavesKnown
<1>3. UNCHANGED <<tenants, devices, reports, retired, reused, released>>
  BY DEF InsertKey, history
<1>4. CASE UNCHANGED keys
  BY <1>2, <1>3, <1>4, SensorsKept
<1>5. ASSUME NEW k, NEW a, IsTenant(job[r].tenant),
             keys' = keys \cup {[id |-> k, tenant |-> job[r].tenant,
                                 device |-> job[r].device, active |-> a]}
      PROVE  SensorInv'
  <2>1. JobsKnown'
    BY <1>2, <1>3, JobsKept, SameDevices DEF SensorInv
  <2>2. job[r].tenant \in InUse(tenants) /\ job[r].pc \in Checked
    BY <1>5 DEF IsTenant, TenantRow, InUse, InsertKey, At, Checked
  <2>3. OneTenantPerSensor'
    <3> SUFFICES ASSUME reused' = {}, NEW d \in devices', d.id \notin released',
                        NEW x \in reports' \cup keys', x.device = d.id
                 PROVE  x.tenant = d.tenant
      BY DEF OneTenantPerSensor
    <3>1. CASE x \in reports \cup keys
      BY <1>3, <3>1 DEF SensorInv, OneTenantPerSensor
    <3>2. CASE x \notin reports \cup keys
      <4>1. x.tenant = job[r].tenant /\ x.device = job[r].device
        BY <1>3, <1>5, <3>2
      <4> QED BY <1>3, <2>2, <4>1, InsertedRow
    <3> QED BY <3>1, <3>2
  <2> QED
    BY <1>3, <2>1, <2>3 DEF SensorInv, UniqueDevice, RetiredIds, ReportsKnown, InUse
<1> QED BY <1>4, <1>5 DEF InsertKey

\* The report that is inserted names the tenant the device has.
LEMMA InsertReportKeeps ==
  ASSUME Typed, SensorInv, NEW r \in Runs, InsertReport(r)
  PROVE  SensorInv'
<1>1. Leaves(r)
  BY FinishLeaves DEF InsertReport
<1>2. Others(r) /\ Known(job[r])'
  BY <1>1, LeavesKnown
<1>3. UNCHANGED <<tenants, devices, keys, retired, reused, released>>
  BY DEF InsertReport, history
<1>4. CASE UNCHANGED reports
  BY <1>2, <1>3, <1>4, SensorsKept
<1>5. CASE /\ IsTenant(job[r].tenant)
           /\ reports' = reports \cup {[device |-> job[r].device,
                                        tenant |-> job[r].tenant]}
  <2>1. JobsKnown'
    BY <1>2, <1>3, JobsKept, SameDevices DEF SensorInv
  <2>2. job[r].tenant \in InUse(tenants) /\ job[r].pc \in Checked
    BY <1>5 DEF IsTenant, TenantRow, InUse, InsertReport, At, Checked
  <2>3. job[r].device \in InUse(devices) \cup released
    BY <2>2 DEF SensorInv, JobsKnown, Known, InUse
  <2>4. ReportsKnown'
    BY <1>3, <1>5, <2>3 DEF SensorInv, ReportsKnown, InUse
  <2>5. OneTenantPerSensor'
    <3> SUFFICES ASSUME reused' = {}, NEW d \in devices', d.id \notin released',
                        NEW x \in reports' \cup keys', x.device = d.id
                 PROVE  x.tenant = d.tenant
      BY DEF OneTenantPerSensor
    <3>1. CASE x \in reports \cup keys
      BY <1>3, <3>1 DEF SensorInv, OneTenantPerSensor
    <3>2. CASE x \notin reports \cup keys
      <4>1. x.tenant = job[r].tenant /\ x.device = job[r].device
        BY <1>3, <1>5, <3>2
      <4> QED BY <1>3, <2>2, <4>1, InsertedRow
    <3> QED BY <3>1, <3>2
  <2> QED
    BY <1>3, <2>1, <2>4, <2>5 DEF SensorInv, UniqueDevice, RetiredIds
<1> QED BY <1>4, <1>5 DEF InsertReport

\* A new device's id is in no other row, unless a row that had it was deleted.
LEMMA InsertDeviceKeeps ==
  ASSUME Typed, SensorInv, NEW r \in Runs, InsertDevice(r)
  PROVE  SensorInv'
<1>1. Leaves(r)
  BY GotDevicePc, FinishLeaves DEF InsertDevice, Leaves, Checked
<1>2. Others(r) /\ Known(job[r])'
  BY <1>1, LeavesKnown
<1>3. UNCHANGED <<tenants, keys, reports, retired, reused, released>>
  BY DEF InsertDevice, history
<1>4. CASE UNCHANGED devices
  BY <1>2, <1>3, <1>4, SensorsKept
<1>5. ASSUME NEW d \in DeviceIds \ InUse(devices),
             devices' = devices \cup
               {[id |-> d, tenant |-> job[r].tenant, name |-> job[r].dname]}
      PROVE  SensorInv'
  <2> DEFINE new == [id |-> d, tenant |-> job[r].tenant, name |-> job[r].dname]
  <2>1. DevicesKept
    BY <1>3, <1>5 DEF DevicesKept
  <2>2. JobsKnown'
    BY <1>2, <2>1, JobsKept DEF SensorInv
  <2>3. \A x \in devices : x.id # d
    BY DEF InUse
  <2>4. UniqueDevice'
    <3>1. new.id = d
      OBVIOUS
    <3> HIDE DEF new
    <3>2. devices' = devices \cup {new}
      BY <1>5 DEF new
    <3> QED BY <2>3, <3>1, <3>2 DEF SensorInv, UniqueDevice
  <2>5. ReportsKnown'
    BY <1>3, <1>5 DEF SensorInv, ReportsKnown, InUse
  <2>6. OneTenantPerSensor'
    <3> SUFFICES ASSUME reused' = {}, NEW c \in devices', c.id \notin released',
                        NEW x \in reports' \cup keys', x.device = c.id
                 PROVE  x.tenant = c.tenant
      BY DEF OneTenantPerSensor
    <3>1. x \in reports \cup keys /\ c.id \notin released /\ reused = {}
      BY <1>3
    <3>2. x.device \in InUse(devices)
      BY <3>1 DEF SensorInv, ReportsKnown, Typed, TypeOK
    <3>3. c \in devices
      BY <1>5, <3>2
    <3> QED BY <3>1, <3>3 DEF SensorInv, OneTenantPerSensor
  <2> QED BY <1>3, <2>2, <2>4, <2>5, <2>6 DEF SensorInv, RetiredIds, InUse
<1> QED BY <1>4, <1>5 DEF InsertDevice

\* A step of the run that only reads: it goes to where no device is in hand,
\* or has one that it checks now or has checked.
LEMMA ReadKeeps ==
  ASSUME Typed, SensorInv, NEW r \in Runs, Reads,
         \/ Leaves(r)
         \/ \E p : /\ Goto(r, p)
                   /\ job[r].pc \in Checked \/ ValidDevice(job[r].device, job[r].tenant)
  PROVE  SensorInv'
<1>1. UNCHANGED <<tenants, devices, keys, reports, retired, reused, released>>
  BY DEF Reads, sensors, history
<1>2. CASE Leaves(r)
  BY <1>1, <1>2, LeavesKnown, SensorsKept
<1>3. ASSUME NEW p, Goto(r, p),
             job[r].pc \in Checked \/ ValidDevice(job[r].device, job[r].tenant)
      PROVE  SensorInv'
  <2>1. Others(r)
    BY <1>3, GotoFields
  <2>2. job'[r].device = job[r].device /\ job'[r].tenant = job[r].tenant
    BY <1>3, GotoFields
  <2>3. \/ job[r].device \in released
        \/ \E x \in devices : /\ x.id = job[r].device
                              /\ x.tenant = job[r].tenant \/ job[r].tenant \in retired
    BY <1>3 DEF ValidDevice, SensorInv, JobsKnown, Known
  <2>4. Known(job[r])'
    BY <1>1, <2>2, <2>3 DEF Known
  <2> QED BY <1>1, <2>1, <2>4, SensorsKept
<1> QED BY <1>2, <1>3

\* GetOrInsertDevice, GetOrInsertAPIKey, the object, and the reports.
LEMMA SensorStepKeeps ==
  ASSUME Typed, SensorInv, NEW r \in Runs, SensorStep(r)
  PROVE  SensorInv'
<1>1. CASE FindDevice(r)
  <2>1. Leaves(r)
    BY <1>1, GotDevicePc, GotoLeaves DEF FindDevice, Leaves, Checked
  <2> QED BY <1>1, <2>1, ReadKeeps DEF FindDevice
<1>2. CASE CheckDevice(r)
  BY <1>2, FinishLeaves, ReadKeeps DEF CheckDevice
<1>3. CASE FindKey(r)
  <2>1. Leaves(r) \/ Goto(r, "insertKey")
    BY <1>3, GotKeyPc DEF FindKey, Leaves, Checked
  <2>2. job[r].pc \in Checked /\ Reads
    BY <1>3 DEF FindKey, At, Checked
  <2> QED BY <2>1, <2>2, ReadKeeps
<1>4. CASE UploadConfig(r)
  <2>1. Leaves(r)
    BY <1>4, FinishLeaves DEF UploadConfig
  <2> QED BY <1>4, <2>1, LeavesKnown, SensorsKept DEF UploadConfig, sensors, history
<1>5. CASE FindReport(r)
  <2>1. Leaves(r) \/ Goto(r, "insertReport")
    BY <1>5, FinishLeaves DEF FindReport
  <2>2. job[r].pc \in Checked /\ Reads
    BY <1>5 DEF FindReport, At, Checked
  <2> QED BY <2>1, <2>2, ReadKeeps
<1> QED
  BY <1>1, <1>2, <1>3, <1>4, <1>5, InsertDeviceKeeps, InsertKeyKeeps, InsertReportKeeps
  DEF SensorStep

\* PublishRules' steps touch no sensor.
LEMMA RulesStepKeeps ==
  ASSUME Typed, SensorInv, NEW r \in Runs, RulesStep(r)
  PROVE  SensorInv'
<1>1. Leaves(r)
  BY GotoLeaves, FinishLeaves
  DEF RulesStep, UploadRules, UploadMetadata, FindRules, InsertRules, Checked
<1>2. UNCHANGED <<tenants, sensors, retired, reused, released>>
  BY DEF RulesStep, UploadRules, UploadMetadata, FindRules, InsertRules, Reads, history
<1> QED BY <1>1, <1>2, LeavesKnown, SensorsKept DEF sensors

\* The rows of a moved tenant move together, and its old id is retired.
LEMMA MigrateKeeps ==
  ASSUME Typed, SensorInv, NEW r \in Runs, Migrate(r)
  PROVE  SensorInv'
<1> DEFINE o == job[r].tenant
           n == job[r].new
           e == job[r].env
<1>1. Leaves(r)
  BY GotoLeaves, FinishLeaves DEF Migrate, Checked
<1>2. Others(r) /\ Known(job[r])'
  BY <1>1, LeavesKnown
<1>3. CASE IsTenant(o) /\ IsTenant(n)
  BY <1>2, <1>3, SensorsKept DEF Migrate, sensors
<1>4. CASE ~ (IsTenant(o) /\ IsTenant(n))
  <2>1. /\ tenants' = (tenants \ TenantRow(o)) \cup
             {[t EXCEPT !.id = n, !.env = e] : t \in TenantRow(o)}
        /\ devices' = Moved(devices, o, n)
        /\ keys' = Moved(keys, o, n)
        /\ reports' = Moved(reports, o, n)
        /\ retired' = retired \cup {o}
        /\ reused' = IF IsTenant(o) THEN reused \cup ({n} \cap retired) ELSE reused
        /\ released' = released
    BY <1>4 DEF Migrate
  <2>2. ASSUME NEW x \in devices'
        PROVE  \E y \in devices : /\ x = IF y.tenant = o THEN [y EXCEPT !.tenant = n] ELSE y
                                  /\ x.id = y.id
                                  /\ x.tenant = IF y.tenant = o THEN n ELSE y.tenant
    <3>1. PICK y \in devices : x = IF y.tenant = o THEN [y EXCEPT !.tenant = n] ELSE y
      BY <2>1 DEF Moved
    <3>2. y \in [id : DeviceIds, tenant : InUse(tenants), name : DeviceNames]
      BY DEF Typed, TypeOK
    <3> QED BY <3>1, <3>2
  <2>3. ASSUME NEW x \in reports' \cup keys'
        PROVE  \E y \in reports \cup keys :
                 /\ x.device = y.device
                 /\ x.tenant = IF y.tenant = o THEN n ELSE y.tenant
                 /\ x \in reports' => (x \in keys' \/ y \in reports)
    <3>1. CASE x \in reports'
      <4>1. PICK y \in reports : x = IF y.tenant = o THEN [y EXCEPT !.tenant = n] ELSE y
        BY <2>1, <3>1 DEF Moved
      <4>2. y \in [device : DeviceIds, tenant : InUse(tenants)]
        BY DEF Typed, TypeOK
      <4> QED BY <4>1, <4>2
    <3>2. CASE x \in keys'
      <4>1. PICK y \in keys : x = IF y.tenant = o THEN [y EXCEPT !.tenant = n] ELSE y
        BY <2>1, <3>2 DEF Moved
      <4>2. y \in [id : ApiKeys, tenant : InUse(tenants), device : InUse(devices),
                   active : BOOLEAN]
        BY DEF Typed, TypeOK
      <4> QED BY <3>2, <4>1, <4>2
    <3> QED BY <3>1, <3>2
  <2>4. ASSUME NEW x \in reports' PROVE \E y \in reports : x.device = y.device
    <3>1. PICK y \in reports : x = IF y.tenant = o THEN [y EXCEPT !.tenant = n] ELSE y
      BY <2>1 DEF Moved
    <3>2. y \in [device : DeviceIds, tenant : InUse(tenants)]
      BY DEF Typed, TypeOK
    <3> QED BY <3>1, <3>2
  <2>5. ASSUME NEW y \in devices
        PROVE  \E x \in devices' : x.id = y.id /\ (x.tenant = y.tenant \/ y.tenant = o)
    <3> DEFINE x == IF y.tenant = o THEN [y EXCEPT !.tenant = n] ELSE y
    <3>1. x \in devices'
      BY <2>1 DEF Moved
    <3>2. y \in [id : DeviceIds, tenant : InUse(tenants), name : DeviceNames]
      BY DEF Typed, TypeOK
    <3>3. x.id = y.id /\ (x.tenant = y.tenant \/ y.tenant = o)
      BY <3>2
    <3> QED BY <3>1, <3>3
  <2>6. JobsKnown'
    <3>1. DevicesKept
      BY <2>1, <2>5 DEF DevicesKept
    <3> QED BY <1>2, <3>1, JobsKept DEF SensorInv
  <2>7. UniqueDevice'
    BY <2>2 DEF SensorInv, UniqueDevice
  <2>8. RetiredIds'
    <3> SUFFICES ASSUME NEW t \in tenants', t.id \in retired' PROVE t.id \in reused'
      BY DEF RetiredIds, InUse
    <3>1. CASE t \in tenants /\ t.id # o
      BY <2>1, <3>1 DEF SensorInv, RetiredIds, InUse
    <3>2. CASE IsTenant(o) /\ t.id = n
      BY <1>4, <2>1, <3>2
    <3>3. ASSUME NEW s \in TenantRow(o), t = [s EXCEPT !.id = n, !.env = e]
          PROVE  t.id = n
      <4>1. s \in [id : TenantIds, name : TenantNames, env : Environments]
        BY DEF TenantRow, Typed, TypeOK
      <4> QED BY <3>3, <4>1
    <3> QED BY <2>1, <3>1, <3>2, <3>3 DEF TenantRow, IsTenant
  <2>9. ReportsKnown'
    <3> SUFFICES ASSUME NEW x \in reports' PROVE x.device \in InUse(devices') \cup released'
      BY DEF ReportsKnown
    <3>1. PICK y \in reports : x.device = y.device
      BY <2>4
    <3>2. InUse(devices) \subseteq InUse(devices')
      BY <2>5 DEF InUse
    <3> QED BY <2>1, <3>1, <3>2 DEF SensorInv, ReportsKnown
  <2>10. OneTenantPerSensor'
    <3> SUFFICES ASSUME reused' = {}, NEW d \in devices', d.id \notin released',
                        NEW x \in reports' \cup keys', x.device = d.id
                 PROVE  x.tenant = d.tenant
      BY DEF OneTenantPerSensor
    <3>1. PICK c \in devices : d.id = c.id /\ d.tenant = IF c.tenant = o THEN n ELSE c.tenant
      BY <2>2
    <3>2. PICK y \in reports \cup keys :
            x.device = y.device /\ x.tenant = IF y.tenant = o THEN n ELSE y.tenant
      BY <2>3
    <3>3. reused = {} /\ c.id \notin released /\ y.device = c.id
      BY <2>1, <3>1, <3>2
    <3>4. y.tenant = c.tenant
      BY <3>3 DEF SensorInv, OneTenantPerSensor
    <3> QED BY <3>1, <3>2, <3>4
  <2> QED BY <2>6, <2>7, <2>8, <2>9, <2>10 DEF SensorInv
<1> QED BY <1>3, <1>4

\* move-tenant.sh.
LEMMA MoveStepKeeps ==
  ASSUME Typed, SensorInv, NEW r \in Runs, MoveStep(r)
  PROVE  SensorInv'
<1>1. CASE FetchTenant(r)
  BY <1>1, GotoLeaves, FinishLeaves, ReadKeeps DEF FetchTenant, Checked
<1>2. CASE ListRules(r)
  BY <1>2, ListRulesPc, ReadKeeps DEF ListRules, Leaves, Checked
<1>3. CASE CopyRules(r)
  <2>1. Leaves(r)
    BY <1>3, FinishLeaves DEF CopyRules
  <2> QED BY <1>3, <2>1, LeavesKnown, SensorsKept DEF CopyRules, sensors, history
<1> QED BY <1>1, <1>2, <1>3, MigrateKeeps DEF MoveStep

\* A step of dbtool has no run.
LEMMA JobsKeptByTool ==
  ASSUME JobsKnown, UNCHANGED job, DevicesKept
  PROVE  JobsKnown'
BY DEF JobsKnown, Known, DevicesKept

\* Rows that are deleted leave no two that differ where none did.
LEMMA Deleted ==
  ASSUME SensorInv, devices' \subseteq devices, keys' \subseteq keys,
         reports' \subseteq reports, UNCHANGED reused, released \subseteq released'
  PROVE  UniqueDevice' /\ OneTenantPerSensor'
BY DEF SensorInv, UniqueDevice, OneTenantPerSensor

\* dbtool's statements.
LEMMA AdministrationKeeps ==
  ASSUME Typed, SensorInv, Administration
  PROVE  SensorInv'
<1>1. ASSUME NEW n \in TenantNames, NEW e \in Environments, NEW i \in TenantIds,
             InsertTenantWithSpecificID(i, n, e)
      PROVE  SensorInv'
  <2> DEFINE t == [id |-> i, name |-> n, env |-> e]
  <2>1. AddTenant(t) /\ UNCHANGED <<sensors, job, retired, released>>
    BY <1>1 DEF InsertTenantWithSpecificID
  <2>2. JobsKnown'
    BY <2>1, JobsKeptByTool, SameDevices DEF SensorInv, sensors
  <2> QED BY <2>1, <2>2, AddTenantKeeps DEF sensors
<1>2. ASSUME NEW i \in InUse(tenants), DeleteTenant(i) PROVE SensorInv'
  <2>1. /\ devices' = devices \ Of(devices, i)
        /\ keys' \subseteq keys /\ reports' \subseteq reports
        /\ released' = released \cup InUse(Of(devices, i))
        /\ tenants' = tenants \ TenantRow(i) /\ retired' = retired \cup {i}
        /\ UNCHANGED <<job, reused>>
    BY <1>2 DEF DeleteTenant
  <2>2. \A x \in devices : x \in devices' \/ x.id \in released'
    BY <2>1 DEF InUse
  <2>3. JobsKnown'
    <3>1. DevicesKept
      BY <2>1, <2>2 DEF DevicesKept
    <3> QED BY <2>1, <3>1, JobsKeptByTool DEF SensorInv
  <2>4. RetiredIds'
    BY <2>1 DEF SensorInv, RetiredIds, InUse, TenantRow
  <2>5. ReportsKnown'
    BY <2>1, <2>2 DEF SensorInv, ReportsKnown, InUse
  <2>6. UniqueDevice' /\ OneTenantPerSensor'
    BY <2>1, Deleted
  <2> QED BY <2>3, <2>4, <2>5, <2>6 DEF SensorInv
<1>3. ASSUME NEW i, InsertUser(i) PROVE SensorInv'
  <2>1. UNCHANGED <<tenants, devices, keys, reports, job, retired, reused, released>>
    BY <1>3 DEF InsertUser, sensors, history
  <2>2. JobsKnown'
    BY <2>1, JobsKeptByTool, SameDevices DEF SensorInv
  <2> QED
    BY <2>1, <2>2
    DEF SensorInv, UniqueDevice, RetiredIds, ReportsKnown, OneTenantPerSensor, InUse
<1>4. ASSUME NEW d \in devices, DeleteDevice(d) PROVE SensorInv'
  <2>1. /\ devices' = devices \ {d} /\ keys' \subseteq keys
        /\ released' = released \cup {d.id}
        /\ UNCHANGED <<tenants, reports, job, retired, reused>>
    BY <1>4 DEF DeleteDevice
  <2>2. \A x \in devices : x \in devices' \/ x.id \in released'
    BY <2>1
  <2>3. JobsKnown'
    <3>1. DevicesKept
      BY <2>1, <2>2 DEF DevicesKept
    <3> QED BY <2>1, <3>1, JobsKeptByTool DEF SensorInv
  <2>4. RetiredIds' /\ ReportsKnown'
    BY <2>1, <2>2 DEF SensorInv, RetiredIds, ReportsKnown, InUse
  <2>5. UniqueDevice' /\ OneTenantPerSensor'
    BY <2>1, Deleted
  <2> QED BY <2>3, <2>4, <2>5 DEF SensorInv
<1>5. ASSUME NEW k \in keys, DeleteAPIKey(k) PROVE SensorInv'
  <2>1. /\ keys' \subseteq keys
        /\ UNCHANGED <<tenants, devices, reports, job, retired, reused, released>>
    BY <1>5 DEF DeleteAPIKey
  <2>2. JobsKnown'
    BY <2>1, JobsKeptByTool, SameDevices DEF SensorInv
  <2>3. UniqueDevice' /\ OneTenantPerSensor'
    BY <2>1, Deleted
  <2> QED BY <2>1, <2>2, <2>3 DEF SensorInv, RetiredIds, ReportsKnown, InUse
<1>6. ASSUME NEW i \in rules, DeleteHndrRules(i) PROVE SensorInv'
  <2>1. UNCHANGED <<tenants, devices, keys, reports, job, retired, reused, released>>
    BY <1>6 DEF DeleteHndrRules, sensors, history
  <2>2. JobsKnown'
    BY <2>1, JobsKeptByTool, SameDevices DEF SensorInv
  <2> QED
    BY <2>1, <2>2
    DEF SensorInv, UniqueDevice, RetiredIds, ReportsKnown, OneTenantPerSensor, InUse
<1>7. ASSUME NEW x \in reports, DeleteStatus(x) PROVE SensorInv'
  <2>1. /\ reports' \subseteq reports
        /\ UNCHANGED <<tenants, devices, keys, job, retired, reused, released>>
    BY <1>7 DEF DeleteStatus, history
  <2>2. JobsKnown'
    BY <2>1, JobsKeptByTool, SameDevices DEF SensorInv
  <2>3. UniqueDevice' /\ OneTenantPerSensor'
    BY <2>1, Deleted
  <2> QED BY <2>1, <2>2, <2>3 DEF SensorInv, RetiredIds, ReportsKnown, InUse
<1> QED BY <1>1, <1>2, <1>3, <1>4, <1>5, <1>6, <1>7 DEF Administration

\* There is no sensor at first.
LEMMA SensorInit ==
  ASSUME Init
  PROVE  SensorInv
BY DEF Init, Idle, Checked, SensorInv, UniqueDevice, RetiredIds, ReportsKnown,
       JobsKnown, Known, OneTenantPerSensor, InUse

\* Every step keeps SensorInv.
LEMMA SensorNext ==
  ASSUME Typed, SensorInv, [Next]_vars
  PROVE  SensorInv'
<1>1. ASSUME NEW r \in Runs, Start(r) PROVE SensorInv'
  <2>1. Leaves(r)
    BY <1>1, StartPc DEF Leaves, Checked, FirstSteps
  <2>2. UNCHANGED <<tenants, sensors, history>>
    BY <1>1
    DEF Start, ProvisionTenant, ProvisionSensor, PublishRules, DbtoolInsertDevice,
        DbtoolInsertAPIKey, MoveTenant, Authenticate, Reads
  <2> QED BY <2>1, <2>2, LeavesKnown, SensorsKept DEF sensors, history
<1>2. ASSUME NEW r \in Runs, Stop(r) PROVE SensorInv'
  BY <1>2, FinishLeaves, ReadKeeps DEF Stop
<1>3. CASE UNCHANGED vars
  <2>1. UNCHANGED <<tenants, devices, keys, reports, job, retired, reused, released>>
    BY <1>3 DEF vars, sensors, history
  <2>2. JobsKnown'
    BY <2>1, JobsKeptByTool, SameDevices DEF SensorInv
  <2> QED
    BY <2>1, <2>2
    DEF SensorInv, UniqueDevice, RetiredIds, ReportsKnown, OneTenantPerSensor, InUse
<1> QED
  BY <1>1, <1>2, <1>3, AdministrationKeeps, TenantStepKeeps, SensorStepKeeps,
     RulesStepKeeps, MoveStepKeeps DEF Next

(***************************************************************************)
(* The theorem                                                             *)
(***************************************************************************)

\* However many provisioner and dbtool runs, reports, publications and
\* migrations overlap, a device's keys and reports name the tenant the device
\* has, as long as no id of a tenant, and not the device's, is used twice.
THEOREM SensorHasOneTenant == Spec => []OneTenantPerSensor
<1>1. Spec => [](Typed /\ SensorInv)
  BY InitOK, NextOK, SensorInit, SensorNext, PTL DEF Spec
<1>2. SensorInv => OneTenantPerSensor
  BY DEF SensorInv
<1> QED BY <1>1, <1>2, PTL

(***************************************************************************)
(* DuplicatesBounded: rows of one name, keys of one device                 *)
(***************************************************************************)

Namesakes(t, n) == {d \in Of(devices, t) : d.name = n}
KeysOf(d)       == {k \in keys : k.device = d}

\* A run that looks for a device, or inserts it, has a tenant that is there,
\* or was: no run waits to insert under an id that is still to come.
InTenant(j) ==
  j.pc \in {"findDevice", "insertDevice"} => j.tenant \in InUse(tenants) \cup retired

JobsInTenant == \A r \in Runs : InTenant(job[r])
NamesakesBounded ==
  reused = {} => \A t \in TenantIds, n \in DeviceNames :
    Cardinality(Namesakes(t, n)) + Cardinality(Inserting(t, n)) <= Cardinality(Runs)
KeysBounded ==
  \A d \in DeviceIds :
    Cardinality(KeysOf(d)) + Cardinality(InsertingKey(d)) <= Cardinality(Runs)

CountInv ==
  /\ IsFiniteSet(devices) /\ IsFiniteSet(keys)
  /\ JobsInTenant /\ NamesakesBounded /\ KeysBounded

\* No row is inserted, and what was in use or retired is one or the other.
NoNewRow ==
  /\ devices' \subseteq devices /\ keys' \subseteq keys
  /\ reused \subseteq reused'
  /\ InUse(tenants) \cup retired \subseteq InUse(tenants') \cup retired'

\* A run that takes no step, or one that does not lead to an insertion.
NotInserting(r) ==
  \/ job'[r] = job[r]
  \/ job'[r].pc \notin {"insertDevice", "insertKey"} /\ InTenant(job[r])'

\* Fewer rows, and fewer runs about to insert one, are within the bound.
LEMMA FewerBounded ==
  ASSUME NEW S, NEW T, IsFiniteSet(S), IsFiniteSet(T),
         Cardinality(S) + Cardinality(T) <= Cardinality(Runs),
         NEW A, A \subseteq S, NEW B, B \subseteq T
  PROVE  Cardinality(A) + Cardinality(B) <= Cardinality(Runs)
<1>1. IsFiniteSet(A) /\ Cardinality(A) <= Cardinality(S)
  BY FS_Subset
<1>2. IsFiniteSet(B) /\ Cardinality(B) <= Cardinality(T)
  BY FS_Subset
<1>3. /\ Cardinality(A) \in Nat /\ Cardinality(B) \in Nat
      /\ Cardinality(S) \in Nat /\ Cardinality(T) \in Nat
  BY <1>1, <1>2, FS_CardinalityType
<1>4. Cardinality(Runs) \in Nat
  BY RunsAssumption, FS_CardinalityType
<1> QED BY <1>1, <1>2, <1>3, <1>4

\* A run that was about to insert a row inserts it.
LEMMA InsertedBounded ==
  ASSUME NEW S, NEW T, IsFiniteSet(S), IsFiniteSet(T),
         Cardinality(S) + Cardinality(T) <= Cardinality(Runs),
         NEW x, NEW r \in T,
         NEW A, A \subseteq S \cup {x}, NEW B, B \subseteq T \ {r}
  PROVE  Cardinality(A) + Cardinality(B) <= Cardinality(Runs)
<1>1. /\ IsFiniteSet(S \cup {x})
      /\ Cardinality(S \cup {x}) = Cardinality(S)
           \/ Cardinality(S \cup {x}) = Cardinality(S) + 1
  BY FS_AddElement
<1>2. IsFiniteSet(T \ {r}) /\ Cardinality(T \ {r}) = Cardinality(T) - 1
  BY FS_RemoveElement
<1>3. /\ Cardinality(S) \in Nat /\ Cardinality(T) \in Nat /\ Cardinality(Runs) \in Nat
      /\ Cardinality(S \cup {x}) \in Nat /\ Cardinality(T \ {r}) \in Nat
  BY <1>1, <1>2, RunsAssumption, FS_CardinalityType
<1>4. Cardinality(S \cup {x}) + Cardinality(T \ {r}) <= Cardinality(Runs)
  BY <1>1, <1>2, <1>3
<1> QED BY <1>1, <1>2, <1>4, FewerBounded

\* A migration leaves as many rows as there were, or fewer.
LEMMA MovedBounded ==
  ASSUME NEW S, IsFiniteSet(S), NEW o, NEW n
  PROVE  IsFiniteSet(Moved(S, o, n)) /\ Cardinality(Moved(S, o, n)) <= Cardinality(S)
<1> DEFINE f == [x \in S |-> IF x.tenant = o THEN [x EXCEPT !.tenant = n] ELSE x]
<1>1. f \in Surjection(S, Moved(S, o, n))
  <2>1. \A x \in S : f[x] \in Moved(S, o, n)
    BY DEF Moved
  <2>2. \A y \in Moved(S, o, n) : \E x \in S : f[x] = y
    BY DEF Moved
  <2>3. f \in [S -> Moved(S, o, n)]
    BY <2>1
  <2> HIDE DEF f
  <2> QED BY <2>2, <2>3 DEF Surjection
<1> HIDE DEF f
<1> QED BY <1>1, FS_Surjection

\* The sets that are counted are finite.
LEMMA CountedFinite ==
  ASSUME CountInv
  PROVE  /\ \A t, n : IsFiniteSet(Namesakes(t, n)) /\ IsFiniteSet(Inserting(t, n))
         /\ \A d : IsFiniteSet(KeysOf(d)) /\ IsFiniteSet(InsertingKey(d))
<1>1. ASSUME NEW t, NEW n PROVE Namesakes(t, n) \subseteq devices /\ Inserting(t, n) \subseteq Runs
  BY DEF Namesakes, Of, Inserting
<1>2. ASSUME NEW d PROVE KeysOf(d) \subseteq keys /\ InsertingKey(d) \subseteq Runs
  BY DEF KeysOf, InsertingKey
<1>3. IsFiniteSet(devices) /\ IsFiniteSet(keys) /\ IsFiniteSet(Runs)
  BY RunsAssumption DEF CountInv
<1> QED BY <1>1, <1>2, <1>3, FS_Subset

\* No run comes to an insertion: as many wait for one as did, or fewer.
LEMMA WaitingShrinks ==
  ASSUME \A q \in Runs : NotInserting(q)
  PROVE  /\ \A t, n : Inserting(t, n)' \subseteq Inserting(t, n)
         /\ \A d : InsertingKey(d)' \subseteq InsertingKey(d)
BY DEF NotInserting, Inserting, InsertingKey, At

\* What a run has in hand is right again, and no id is forgotten.
LEMMA InTenantKept ==
  ASSUME JobsInTenant, \A q \in Runs : job'[q] = job[q] \/ InTenant(job[q])',
         InUse(tenants) \cup retired \subseteq InUse(tenants') \cup retired'
  PROVE  JobsInTenant'
<1> SUFFICES ASSUME NEW q \in Runs, job'[q] = job[q] PROVE InTenant(job[q])'
  BY DEF JobsInTenant
<1>1. InTenant(job[q])
  BY DEF JobsInTenant
<1> QED BY <1>1 DEF InTenant

\* The keys are bounded as they were.
LEMMA KeysBoundKept ==
  ASSUME CountInv, keys' \subseteq keys,
         \A d : InsertingKey(d)' \subseteq InsertingKey(d)
  PROVE  IsFiniteSet(keys') /\ KeysBounded'
<1>1. IsFiniteSet(keys')
  BY FS_Subset DEF CountInv
<1>2. ASSUME NEW d \in DeviceIds
      PROVE  Cardinality(KeysOf(d)') + Cardinality(InsertingKey(d)') <= Cardinality(Runs)
  <2>1. KeysOf(d)' \subseteq KeysOf(d)
    BY DEF KeysOf
  <2>2. Cardinality(KeysOf(d)) + Cardinality(InsertingKey(d)) <= Cardinality(Runs)
    BY DEF CountInv, KeysBounded
  <2> QED BY <2>1, <2>2, CountedFinite, FewerBounded
<1> QED BY <1>1, <1>2 DEF KeysBounded

\* The devices are bounded as they were.
LEMMA NamesakesBoundKept ==
  ASSUME CountInv, devices' \subseteq devices, reused \subseteq reused',
         \A t, n : Inserting(t, n)' \subseteq Inserting(t, n)
  PROVE  IsFiniteSet(devices') /\ NamesakesBounded'
<1>1. IsFiniteSet(devices')
  BY FS_Subset DEF CountInv
<1>2. ASSUME reused' = {}, NEW t \in TenantIds, NEW n \in DeviceNames
      PROVE  Cardinality(Namesakes(t, n)') + Cardinality(Inserting(t, n)')
               <= Cardinality(Runs)
  <2>1. Namesakes(t, n)' \subseteq Namesakes(t, n)
    BY DEF Namesakes, Of
  <2>2. Cardinality(Namesakes(t, n)) + Cardinality(Inserting(t, n)) <= Cardinality(Runs)
    BY <1>2 DEF CountInv, NamesakesBounded
  <2> QED BY <2>1, <2>2, CountedFinite, FewerBounded
<1> QED BY <1>1, <1>2 DEF NamesakesBounded

\* A step that neither inserts a row nor leads to an insertion.
LEMMA Quiet ==
  ASSUME CountInv, NoNewRow, \A q \in Runs : NotInserting(q)
  PROVE  CountInv'
<1>1. JobsInTenant'
  BY InTenantKept DEF CountInv, NoNewRow, NotInserting
<1> QED
  BY <1>1, WaitingShrinks, KeysBoundKept, NamesakesBoundKept DEF CountInv, NoNewRow

\* A run that goes elsewhere than to an insertion.
LEMMA Aside ==
  ASSUME CountInv, NoNewRow, NEW r \in Runs, Others(r),
         job'[r].pc \notin {"findDevice", "insertDevice", "insertKey"}
  PROVE  CountInv'
<1>1. NotInserting(r)
  BY DEF NotInserting, InTenant
<1>2. \A q \in Runs : NotInserting(q)
  BY <1>1 DEF Others, NotInserting
<1> QED BY <1>2, Quiet

\* A run that reads inserts no row.
LEMMA ReadsNothingNew ==
  ASSUME Reads
  PROVE  NoNewRow
BY DEF Reads, NoNewRow, sensors, history, InUse

\* GetOrInsertDevice goes on to insert only if it has found none.
LEMMA FindDeviceCounts ==
  ASSUME Typed, CountInv, NEW r \in Runs, FindDevice(r)
  PROVE  CountInv'
<1> DEFINE i == job[r].tenant
           m == job[r].dname
<1>1. Reads
  BY DEF FindDevice
<1>2. ASSUME NEW d, GotDevice(r, d) PROVE CountInv'
  BY <1>1, <1>2, GotDevicePc, ReadsNothingNew, Aside
<1>3. CASE Namesakes(i, m) = {} /\ Goto(r, "insertDevice")
  <2>1. /\ Others(r) /\ job'[r].pc = "insertDevice"
        /\ job'[r].tenant = i /\ job'[r].dname = m
    BY <1>3, GotoFields
  <2>2. NoNewRow
    BY <1>1, ReadsNothingNew
  <2>3. JobsInTenant'
    <3>1. i \in InUse(tenants) \cup retired
      BY DEF FindDevice, At, CountInv, JobsInTenant, InTenant
    <3>2. InTenant(job[r])'
      BY <2>1, <2>2, <3>1 DEF InTenant, NoNewRow
    <3>3. \A q \in Runs : job'[q] = job[q] \/ InTenant(job[q])'
      BY <2>1, <3>2 DEF Others
    <3> QED BY <2>2, <3>3, InTenantKept DEF CountInv, NoNewRow
  <2>4. NamesakesBounded'
    <3> SUFFICES ASSUME reused' = {}, NEW t \in TenantIds, NEW n \in DeviceNames
                 PROVE  Cardinality(Namesakes(t, n)') + Cardinality(Inserting(t, n)')
                          <= Cardinality(Runs)
      BY DEF NamesakesBounded
    <3>1. Namesakes(t, n)' = Namesakes(t, n)
      BY <1>1 DEF Reads, sensors, Namesakes, Of
    <3>2. CASE t = i /\ n = m
      <4>1. Inserting(t, n)' \subseteq Runs
        BY DEF Inserting
      <4>2. Cardinality({}) + Cardinality(Runs) <= Cardinality(Runs)
        BY RunsAssumption, FS_CardinalityType, FS_EmptySet
      <4>3. Namesakes(t, n)' \subseteq {}
        BY <1>3, <3>1, <3>2
      <4> QED BY <4>1, <4>2, <4>3, RunsAssumption, FS_EmptySet, FewerBounded
    <3>3. CASE ~ (t = i /\ n = m)
      <4>1. Inserting(t, n)' \subseteq Inserting(t, n)
        BY <2>1, <3>3 DEF Inserting, At, Others
      <4>2. reused = {}
        BY <2>2 DEF NoNewRow
      <4>3. Cardinality(Namesakes(t, n)) + Cardinality(Inserting(t, n)) <= Cardinality(Runs)
        BY <4>2 DEF CountInv, NamesakesBounded
      <4> QED BY <3>1, <4>1, <4>3, CountedFinite, FewerBounded
    <3> QED BY <3>2, <3>3
  <2>5. \A d : InsertingKey(d)' \subseteq InsertingKey(d)
    BY <2>1 DEF InsertingKey, At, Others
  <2>6. UNCHANGED <<devices, keys>>
    BY <1>1 DEF Reads, sensors
  <2>7. IsFiniteSet(keys') /\ KeysBounded'
    BY <2>5, <2>6, KeysBoundKept
  <2> QED BY <2>3, <2>4, <2>6, <2>7 DEF CountInv
<1> QED BY <1>2, <1>3 DEF FindDevice, Namesakes

\* GetOrInsertDevice inserts: one run less waits for one device more.
LEMMA InsertDeviceCounts ==
  ASSUME Typed, CountInv, NEW r \in Runs, InsertDevice(r)
  PROVE  CountInv'
<1> DEFINE i == job[r].tenant
           m == job[r].dname
<1>1. UNCHANGED <<tenants, keys, retired, reused>> /\ At(r, "insertDevice")
  BY DEF InsertDevice, history
<1>2. Others(r) /\ job'[r].pc \in {"idle", "checkDevice"}
  BY GotDevicePc, FinishPc DEF InsertDevice
<1>3. CASE UNCHANGED devices
  BY <1>1, <1>2, <1>3, Aside DEF NoNewRow, InUse
<1>4. ASSUME NEW d, devices' = devices \cup {[id |-> d, tenant |-> i, name |-> m]}
      PROVE  CountInv'
  <2> DEFINE new == [id |-> d, tenant |-> i, name |-> m]
  <2>1. new.tenant = i /\ new.name = m
    OBVIOUS
  <2>2. devices' = devices \cup {new}
    BY <1>4
  <2> HIDE DEF new
  <2>3. NotInserting(r)
    BY <1>2 DEF NotInserting, InTenant
  <2>4. \A q \in Runs : NotInserting(q)
    BY <1>2, <2>3 DEF Others, NotInserting
  <2>5. JobsInTenant'
    BY <1>1, <2>4, InTenantKept DEF CountInv, NotInserting, InUse
  <2>6. IsFiniteSet(keys') /\ KeysBounded'
    BY <1>1, <2>4, WaitingShrinks, KeysBoundKept
  <2>7. IsFiniteSet(devices')
    BY <2>2, FS_AddElement DEF CountInv
  <2>8. NamesakesBounded'
    <3> SUFFICES ASSUME reused' = {}, NEW t \in TenantIds, NEW n \in DeviceNames
                 PROVE  Cardinality(Namesakes(t, n)') + Cardinality(Inserting(t, n)')
                          <= Cardinality(Runs)
      BY DEF NamesakesBounded
    <3>1. Cardinality(Namesakes(t, n)) + Cardinality(Inserting(t, n)) <= Cardinality(Runs)
      BY <1>1 DEF CountInv, NamesakesBounded
    <3>2. IsFiniteSet(Namesakes(t, n)) /\ IsFiniteSet(Inserting(t, n))
      BY CountedFinite
    <3>3. CASE t = i /\ n = m
      <4>1. r \in Inserting(t, n)
        BY <1>1, <3>3 DEF Inserting
      <4>2. Inserting(t, n)' \subseteq Inserting(t, n) \ {r}
        BY <1>2 DEF Inserting, At, Others
      <4>3. Namesakes(t, n)' \subseteq Namesakes(t, n) \cup {new}
        BY <2>2 DEF Namesakes, Of
      <4> DEFINE S == Namesakes(t, n)
                 T == Inserting(t, n)
                 A == Namesakes(t, n)'
                 B == Inserting(t, n)'
      <4>4. /\ IsFiniteSet(S) /\ IsFiniteSet(T)
            /\ Cardinality(S) + Cardinality(T) <= Cardinality(Runs)
            /\ r \in T /\ A \subseteq S \cup {new} /\ B \subseteq T \ {r}
        BY <3>1, <3>2, <4>1, <4>2, <4>3
      <4> HIDE DEF S, T, A, B
      <4>5. Cardinality(A) + Cardinality(B) <= Cardinality(Runs)
        BY <4>4, InsertedBounded
      <4> QED BY <4>5 DEF A, B
    <3>4. CASE ~ (t = i /\ n = m)
      <4>1. Inserting(t, n)' \subseteq Inserting(t, n)
        BY <2>4, WaitingShrinks
      <4>2. Namesakes(t, n)' \subseteq Namesakes(t, n)
        BY <2>1, <2>2, <3>4 DEF Namesakes, Of
      <4> QED BY <3>1, <3>2, <4>1, <4>2, FewerBounded
    <3> QED BY <3>3, <3>4
  <2> QED BY <2>5, <2>6, <2>7, <2>8 DEF CountInv
<1> QED BY <1>3, <1>4 DEF InsertDevice

\* GetOrInsertAPIKey goes on to insert only if it has found none.
LEMMA FindKeyCounts ==
  ASSUME Typed, CountInv, NEW r \in Runs, FindKey(r)
  PROVE  CountInv'
<1> DEFINE v == job[r].device
<1>1. Reads
  BY DEF FindKey
<1>2. ASSUME NEW k, GotKey(r, k) PROVE CountInv'
  BY <1>1, <1>2, GotKeyPc, ReadsNothingNew, Aside
<1>3. CASE KeysOf(v) = {} /\ Goto(r, "insertKey")
  <2>1. Others(r) /\ job'[r].pc = "insertKey" /\ job'[r].device = v
    BY <1>3, GotoFields
  <2>2. NoNewRow /\ UNCHANGED <<devices, keys>>
    BY <1>1, ReadsNothingNew DEF Reads, sensors
  <2>3. JobsInTenant'
    <3>1. \A q \in Runs : job'[q] = job[q] \/ InTenant(job[q])'
      BY <2>1 DEF Others, InTenant
    <3> QED BY <2>2, <3>1, InTenantKept DEF CountInv, NoNewRow
  <2>4. \A t, n : Inserting(t, n)' \subseteq Inserting(t, n)
    BY <2>1 DEF Inserting, At, Others
  <2>5. IsFiniteSet(devices') /\ NamesakesBounded'
    BY <2>2, <2>4, NamesakesBoundKept DEF NoNewRow
  <2>6. KeysBounded'
    <3> SUFFICES ASSUME NEW d \in DeviceIds
                 PROVE  Cardinality(KeysOf(d)') + Cardinality(InsertingKey(d)')
                          <= Cardinality(Runs)
      BY DEF KeysBounded
    <3>1. KeysOf(d)' = KeysOf(d)
      BY <2>2 DEF KeysOf
    <3>2. CASE d = v
      <4>1. InsertingKey(d)' \subseteq Runs
        BY DEF InsertingKey
      <4>2. Cardinality({}) + Cardinality(Runs) <= Cardinality(Runs)
        BY RunsAssumption, FS_CardinalityType, FS_EmptySet
      <4>3. KeysOf(d)' \subseteq {}
        BY <1>3, <3>1, <3>2
      <4> QED BY <4>1, <4>2, <4>3, RunsAssumption, FS_EmptySet, FewerBounded
    <3>3. CASE d # v
      <4>1. InsertingKey(d)' \subseteq InsertingKey(d)
        BY <2>1, <3>3 DEF InsertingKey, At, Others
      <4>2. Cardinality(KeysOf(d)) + Cardinality(InsertingKey(d)) <= Cardinality(Runs)
        BY DEF CountInv, KeysBounded
      <4> QED BY <3>1, <4>1, <4>2, CountedFinite, FewerBounded
    <3> QED BY <3>2, <3>3
  <2> QED BY <2>2, <2>3, <2>5, <2>6 DEF CountInv
<1> QED BY <1>2, <1>3 DEF FindKey, KeysOf

\* GetOrInsertAPIKey inserts: one run less waits for one key more.
LEMMA InsertKeyCounts ==
  ASSUME Typed, CountInv, NEW r \in Runs, InsertKey(r)
  PROVE  CountInv'
<1> DEFINE v == job[r].device
<1>1. UNCHANGED <<tenants, devices, retired, reused>> /\ At(r, "insertKey")
  BY DEF InsertKey, history
<1>2. Others(r) /\ job'[r].pc \in {"idle", "uploadConfig"}
  BY GotKeyPc, FinishPc DEF InsertKey
<1>3. CASE UNCHANGED keys
  BY <1>1, <1>2, <1>3, Aside DEF NoNewRow, InUse
<1>4. ASSUME NEW k, NEW a, keys' = keys \cup {[id |-> k, tenant |-> job[r].tenant,
                                               device |-> v, active |-> a]}
      PROVE  CountInv'
  <2> DEFINE new == [id |-> k, tenant |-> job[r].tenant, device |-> v, active |-> a]
  <2>1. new.device = v
    OBVIOUS
  <2>2. keys' = keys \cup {new}
    BY <1>4
  <2> HIDE DEF new
  <2>3. NotInserting(r)
    BY <1>2 DEF NotInserting, InTenant
  <2>4. \A q \in Runs : NotInserting(q)
    BY <1>2, <2>3 DEF Others, NotInserting
  <2>5. JobsInTenant'
    BY <1>1, <2>4, InTenantKept DEF CountInv, NotInserting, InUse
  <2>6. IsFiniteSet(devices') /\ NamesakesBounded'
    BY <1>1, <2>4, WaitingShrinks, NamesakesBoundKept
  <2>7. IsFiniteSet(keys')
    BY <2>2, FS_AddElement DEF CountInv
  <2>8. KeysBounded'
    <3> SUFFICES ASSUME NEW d \in DeviceIds
                 PROVE  Cardinality(KeysOf(d)') + Cardinality(InsertingKey(d)')
                          <= Cardinality(Runs)
      BY DEF KeysBounded
    <3>1. Cardinality(KeysOf(d)) + Cardinality(InsertingKey(d)) <= Cardinality(Runs)
      BY DEF CountInv, KeysBounded
    <3>2. IsFiniteSet(KeysOf(d)) /\ IsFiniteSet(InsertingKey(d))
      BY CountedFinite
    <3>3. CASE d = v
      <4>1. r \in InsertingKey(d)
        BY <1>1, <3>3 DEF InsertingKey
      <4>2. InsertingKey(d)' \subseteq InsertingKey(d) \ {r}
        BY <1>2 DEF InsertingKey, At, Others
      <4>3. KeysOf(d)' \subseteq KeysOf(d) \cup {new}
        BY <2>2 DEF KeysOf
      <4> DEFINE S == KeysOf(d)
                 T == InsertingKey(d)
                 A == KeysOf(d)'
                 B == InsertingKey(d)'
      <4>4. /\ IsFiniteSet(S) /\ IsFiniteSet(T)
            /\ Cardinality(S) + Cardinality(T) <= Cardinality(Runs)
            /\ r \in T /\ A \subseteq S \cup {new} /\ B \subseteq T \ {r}
        BY <3>1, <3>2, <4>1, <4>2, <4>3
      <4> HIDE DEF S, T, A, B
      <4>5. Cardinality(A) + Cardinality(B) <= Cardinality(Runs)
        BY <4>4, InsertedBounded
      <4> QED BY <4>5 DEF A, B
    <3>4. CASE d # v
      <4>1. InsertingKey(d)' \subseteq InsertingKey(d)
        BY <2>4, WaitingShrinks
      <4>2. KeysOf(d)' \subseteq KeysOf(d)
        BY <2>1, <2>2, <3>4 DEF KeysOf
      <4> QED BY <3>1, <3>2, <4>1, <4>2, FewerBounded
    <3> QED BY <3>3, <3>4
  <2> QED BY <2>5, <2>6, <2>7, <2>8 DEF CountInv
<1> QED BY <1>3, <1>4 DEF InsertKey

\* Rows that are among what a migration makes of S are within S's bound.
LEMMA MovedFits ==
  ASSUME NEW S, NEW T, IsFiniteSet(S), IsFiniteSet(T),
         Cardinality(S) + Cardinality(T) <= Cardinality(Runs),
         NEW o, NEW n, NEW A, A \subseteq Moved(S, o, n), NEW B, B \subseteq T
  PROVE  Cardinality(A) + Cardinality(B) <= Cardinality(Runs)
<1>1. IsFiniteSet(Moved(S, o, n)) /\ Cardinality(Moved(S, o, n)) <= Cardinality(S)
  BY MovedBounded
<1>2. /\ Cardinality(S) \in Nat /\ Cardinality(T) \in Nat /\ Cardinality(Runs) \in Nat
      /\ Cardinality(Moved(S, o, n)) \in Nat
  BY <1>1, RunsAssumption, FS_CardinalityType
<1>3. Cardinality(Moved(S, o, n)) + Cardinality(T) <= Cardinality(Runs)
  BY <1>1, <1>2
<1> QED BY <1>1, <1>3, FewerBounded

\* A migration moves a tenant's devices to an id that no run waits to insert
\* under, unless it is one that was retired, and no device gets a second key.
LEMMA MigrateCounts ==
  ASSUME Typed, CountInv, NEW r \in Runs, Migrate(r)
  PROVE  CountInv'
<1> DEFINE o == job[r].tenant
           n == job[r].new
<1>1. Others(r) /\ job'[r].pc \in {"idle", "copyRules"}
  BY GotoFields, FinishPc DEF Migrate
<1>2. CASE IsTenant(o) /\ IsTenant(n)
  <2>1. NoNewRow
    BY <1>2 DEF Migrate, NoNewRow, sensors, InUse
  <2> QED BY <1>1, <2>1, Aside
<1>3. CASE ~ (IsTenant(o) /\ IsTenant(n))
  <2>1. /\ tenants \ TenantRow(o) \subseteq tenants'
        /\ devices' = Moved(devices, o, n) /\ keys' = Moved(keys, o, n)
        /\ retired' = retired \cup {o}
        /\ reused' = IF IsTenant(o) THEN reused \cup ({n} \cap retired) ELSE reused
    BY <1>3 DEF Migrate
  <2>2. \A q \in Runs : NotInserting(q)
    BY <1>1 DEF Others, NotInserting, InTenant
  <2>3. JobsInTenant'
    <3>1. InUse(tenants) \cup retired \subseteq InUse(tenants') \cup retired'
      BY <2>1 DEF InUse, TenantRow
    <3> QED BY <2>2, <3>1, InTenantKept DEF CountInv, NotInserting
  <2>4. IsFiniteSet(devices') /\ IsFiniteSet(keys')
    BY <2>1, MovedBounded DEF CountInv
  <2>5. KeysBounded'
    <3> SUFFICES ASSUME NEW d \in DeviceIds
                 PROVE  Cardinality(KeysOf(d)') + Cardinality(InsertingKey(d)')
                          <= Cardinality(Runs)
      BY DEF KeysBounded
    <3>1. KeysOf(d)' \subseteq Moved(KeysOf(d), o, n)
      <4> SUFFICES ASSUME NEW x \in keys', x.device = d PROVE x \in Moved(KeysOf(d), o, n)
        BY DEF KeysOf
      <4>1. PICK y \in keys : x = IF y.tenant = o THEN [y EXCEPT !.tenant = n] ELSE y
        BY <2>1 DEF Moved
      <4>2. y \in [id : ApiKeys, tenant : InUse(tenants), device : InUse(devices),
                   active : BOOLEAN]
        BY DEF Typed, TypeOK
      <4>3. y.device = d
        BY <4>1, <4>2
      <4>4. y \in KeysOf(d)
        BY <4>3 DEF KeysOf
      <4> QED BY <4>1, <4>4 DEF Moved
    <3>2. InsertingKey(d)' \subseteq InsertingKey(d)
      BY <2>2, WaitingShrinks
    <3>3. Cardinality(KeysOf(d)) + Cardinality(InsertingKey(d)) <= Cardinality(Runs)
      BY DEF CountInv, KeysBounded
    <3> QED BY <3>1, <3>2, <3>3, CountedFinite, MovedFits
  <2>6. CASE ~ IsTenant(o)
    <3>1. \A x \in devices : x.tenant # o
      BY <2>6 DEF Typed, TypeOK, IsTenant, TenantRow, InUse
    <3>2. devices' = devices /\ reused' = reused
      BY <2>1, <2>6, <3>1 DEF Moved
    <3>3. NamesakesBounded'
      BY <2>2, <3>2, WaitingShrinks, NamesakesBoundKept
    <3> QED BY <2>3, <2>4, <2>5, <3>3 DEF CountInv
  <2>7. CASE IsTenant(o) /\ ~ IsTenant(n)
    <3> SUFFICES ASSUME reused' = {}, NEW t \in TenantIds, NEW m \in DeviceNames
                 PROVE  Cardinality(Namesakes(t, m)') + Cardinality(Inserting(t, m)')
                          <= Cardinality(Runs)
      BY <2>3, <2>4, <2>5 DEF CountInv, NamesakesBounded
    <3>1. reused = {} /\ n \notin retired /\ n \notin InUse(tenants) /\ o \in TenantIds
      BY <2>1, <2>7 DEF IsTenant, TenantRow, InUse, Typed, TypeOK
    <3>2. ASSUME NEW x \in devices'
          PROVE  \E y \in devices : /\ x = IF y.tenant = o THEN [y EXCEPT !.tenant = n] ELSE y
                                    /\ x.name = y.name /\ y.tenant # n
                                    /\ x.tenant = IF y.tenant = o THEN n ELSE y.tenant
      <4>1. PICK y \in devices : x = IF y.tenant = o THEN [y EXCEPT !.tenant = n] ELSE y
        BY <2>1 DEF Moved
      <4>2. y \in [id : DeviceIds, tenant : InUse(tenants), name : DeviceNames]
        BY DEF Typed, TypeOK
      <4> QED BY <3>1, <4>1, <4>2
    <3>3. Inserting(t, m)' \subseteq Inserting(t, m)
      BY <2>2, WaitingShrinks
    <3>4. CASE t = n
      <4>1. Namesakes(t, m)' \subseteq Moved(Namesakes(o, m), o, n)
        BY <3>2, <3>4 DEF Namesakes, Of, Moved
      <4>2. Inserting(t, m) = {}
        BY <3>1, <3>4 DEF Inserting, At, CountInv, JobsInTenant, InTenant
      <4>3. Inserting(t, m)' \subseteq Inserting(o, m)
        BY <3>3, <4>2
      <4>4. Cardinality(Namesakes(o, m)) + Cardinality(Inserting(o, m)) <= Cardinality(Runs)
        BY <3>1 DEF CountInv, NamesakesBounded
      <4> QED BY <4>1, <4>3, <4>4, CountedFinite, MovedFits
    <3>5. CASE t # n
      <4>1. Namesakes(t, m)' \subseteq Namesakes(t, m)
        BY <3>2, <3>5 DEF Namesakes, Of
      <4>2. Cardinality(Namesakes(t, m)) + Cardinality(Inserting(t, m)) <= Cardinality(Runs)
        BY <3>1 DEF CountInv, NamesakesBounded
      <4> QED BY <3>3, <4>1, <4>2, CountedFinite, FewerBounded
    <3> QED BY <3>4, <3>5
  <2> QED BY <1>3, <2>6, <2>7
<1> QED BY <1>2, <1>3

\* dbtool's statements insert no device and no key, and retire what they delete.
LEMMA AdministrationCounts ==
  ASSUME CountInv, Administration
  PROVE  CountInv'
<1>1. UNCHANGED job
  BY DEF Administration, InsertTenantWithSpecificID, DeleteTenant, InsertUser,
         DeleteDevice, DeleteAPIKey, DeleteHndrRules, DeleteStatus
<1>2. NoNewRow
  <2>1. ASSUME NEW n, NEW e, NEW i, InsertTenantWithSpecificID(i, n, e) PROVE NoNewRow
    BY <2>1 DEF InsertTenantWithSpecificID, AddTenant, NoNewRow, sensors, InUse
  <2>2. ASSUME NEW i, DeleteTenant(i) PROVE NoNewRow
    BY <2>2 DEF DeleteTenant, NoNewRow, TenantRow, InUse
  <2>3. ASSUME NEW i, InsertUser(i) \/ DeleteHndrRules(i) PROVE NoNewRow
    BY <2>3 DEF InsertUser, DeleteHndrRules, NoNewRow, sensors, history, InUse
  <2>4. ASSUME NEW d, DeleteDevice(d) PROVE NoNewRow
    BY <2>4 DEF DeleteDevice, NoNewRow, InUse
  <2>5. ASSUME NEW k, DeleteAPIKey(k) PROVE NoNewRow
    BY <2>5 DEF DeleteAPIKey, NoNewRow, InUse
  <2>6. ASSUME NEW x, DeleteStatus(x) PROVE NoNewRow
    BY <2>6 DEF DeleteStatus, NoNewRow, history, InUse
  <2> QED BY <2>1, <2>2, <2>3, <2>4, <2>5, <2>6 DEF Administration
<1> QED BY <1>1, <1>2, Quiet DEF NotInserting

\* GetOrInsertTenant and ValidateTenant: a tenant that was found there is one.
LEMMA TenantStepCounts ==
  ASSUME Typed, CountInv, NEW r \in Runs, TenantStep(r)
  PROVE  CountInv'
<1>1. NoNewRow
  <2>1. CASE InsertTenant(r)
    BY <2>1 DEF InsertTenant, AddTenant, NoNewRow, sensors, InUse
  <2>2. CASE FindTenant(r) \/ NextTenantId(r) \/ CheckTenant(r)
    BY <2>2 DEF FindTenant, NextTenantId, CheckTenant, Reads, NoNewRow, sensors, history, InUse
  <2> QED BY <2>1, <2>2 DEF TenantStep
<1>2. CASE CheckTenant(r)
  <2>1. CASE Finish(r) \/ Goto(r, "findRules")
    BY <1>1, <2>1, FinishPc, GotoFields, Aside
  <2>2. CASE IsTenant(job[r].tenant) /\ Goto(r, "findDevice")
    <3>1. /\ Others(r) /\ job'[r].pc = "findDevice"
          /\ job'[r].tenant = job[r].tenant
      BY <2>2, GotoFields
    <3>2. job[r].tenant \in InUse(tenants)
      BY <2>2 DEF IsTenant, TenantRow, InUse
    <3>3. NotInserting(r)
      BY <1>1, <3>1, <3>2 DEF NotInserting, InTenant, NoNewRow
    <3>4. \A q \in Runs : NotInserting(q)
      BY <3>1, <3>3 DEF Others, NotInserting
    <3> QED BY <1>1, <3>4, Quiet
  <2> QED BY <1>2, <2>1, <2>2 DEF CheckTenant
<1>3. CASE FindTenant(r) \/ InsertTenant(r) \/ NextTenantId(r)
  <2>1. Others(r) /\ job'[r].pc \in {"idle", "checkTenant", "nextTenantId", "migrate",
                                     "insertTenant"}
    BY <1>3, GotTenantPc, GotoFields, FinishPc, NextTenantIdPc DEF FindTenant, InsertTenant
  <2> QED BY <1>1, <2>1, Aside
<1> QED BY <1>2, <1>3 DEF TenantStep

\* The steps of a sensor's tools and requests.
LEMMA SensorStepCounts ==
  ASSUME Typed, CountInv, NEW r \in Runs, SensorStep(r)
  PROVE  CountInv'
<1>1. CASE CheckDevice(r) \/ FindReport(r) \/ InsertReport(r) \/ UploadConfig(r)
  <2>1. CASE CheckDevice(r)
    <3>1. CASE Finish(r) \/ Goto(r, "findReport")
      BY <2>1, <3>1, FinishPc, GotoFields, ReadsNothingNew, Aside DEF CheckDevice
    <3>2. CASE Goto(r, "findKey")
      BY <2>1, <3>2, GotoFields, ReadsNothingNew, Aside DEF CheckDevice
    <3> QED BY <2>1, <3>1, <3>2 DEF CheckDevice
  <2>2. CASE FindReport(r)
    BY <2>2, FinishPc, GotoFields, ReadsNothingNew, Aside DEF FindReport
  <2>3. CASE InsertReport(r) \/ UploadConfig(r)
    <3>1. NoNewRow /\ Finish(r)
      BY <2>3 DEF InsertReport, UploadConfig, NoNewRow, sensors, history, InUse
    <3> QED BY <3>1, FinishPc, Aside
  <2> QED BY <1>1, <2>1, <2>2, <2>3
<1> QED
  BY <1>1, FindDeviceCounts, InsertDeviceCounts, FindKeyCounts, InsertKeyCounts
  DEF SensorStep

\* PublishRules and move-tenant.sh, but for its transaction.
LEMMA OtherStepCounts ==
  ASSUME Typed, CountInv, NEW r \in Runs,
         RulesStep(r) \/ FetchTenant(r) \/ ListRules(r) \/ CopyRules(r)
  PROVE  CountInv'
<1>1. NoNewRow
  BY DEF RulesStep, UploadRules, UploadMetadata, FindRules, InsertRules, FetchTenant,
         ListRules, CopyRules, Reads, NoNewRow, sensors, history, InUse
<1>2. CASE RulesStep(r)
  <2>1. Others(r) /\ job'[r].pc \in {"uploadMetadata", "checkTenant", "insertRules", "idle"}
    BY <1>2, GotoFields, FinishPc
    DEF RulesStep, UploadRules, UploadMetadata, FindRules, InsertRules
  <2> QED BY <1>1, <2>1, Aside
<1>3. CASE FetchTenant(r) \/ ListRules(r) \/ CopyRules(r)
  <2>1. Others(r) /\ job'[r].pc \in {"listRules", "nextTenantId", "idle"}
    BY <1>3, GotoFields, FinishPc, ListRulesPc DEF FetchTenant, CopyRules
  <2> QED BY <1>1, <2>1, Aside
<1> QED BY <1>2, <1>3

\* There is no row at first, and no run is about to insert one.
LEMMA CountInit ==
  ASSUME Init
  PROVE  CountInv
<1>1. Idle.pc = "idle"
  BY DEF Idle
<1>2. \A r \in Runs : job[r] = Idle
  BY DEF Init
<1>3. devices = {} /\ keys = {} /\ IsFiniteSet({})
  BY FS_EmptySet DEF Init
<1>4. \A t, n : Namesakes(t, n) = {} /\ Inserting(t, n) = {}
  BY <1>1, <1>2, <1>3 DEF Namesakes, Of, Inserting, At
<1>5. \A d : KeysOf(d) = {} /\ InsertingKey(d) = {}
  BY <1>1, <1>2, <1>3 DEF KeysOf, InsertingKey, At
<1>6. Cardinality({}) + Cardinality({}) <= Cardinality(Runs)
  BY RunsAssumption, FS_CardinalityType, FS_EmptySet
<1>7. JobsInTenant
  BY <1>1, <1>2 DEF JobsInTenant, InTenant
<1> QED BY <1>3, <1>4, <1>5, <1>6, <1>7 DEF CountInv, NamesakesBounded, KeysBounded

\* Every step keeps CountInv.
LEMMA CountNext ==
  ASSUME Typed, CountInv, [Next]_vars
  PROVE  CountInv'
<1>1. ASSUME NEW r \in Runs, Start(r) PROVE CountInv'
  <2>1. UNCHANGED <<tenants, sensors, history>>
    BY <1>1
    DEF Start, ProvisionTenant, ProvisionSensor, PublishRules, DbtoolInsertDevice,
        DbtoolInsertAPIKey, MoveTenant, Authenticate, Reads
  <2>2. NoNewRow
    BY <2>1 DEF NoNewRow, sensors, history, InUse
  <2> QED BY <1>1, <2>2, StartPc, Aside DEF FirstSteps
<1>2. ASSUME NEW r \in Runs, Stop(r) PROVE CountInv'
  BY <1>2, FinishPc, ReadsNothingNew, Aside DEF Stop
<1>3. CASE UNCHANGED vars
  <2>1. NoNewRow /\ UNCHANGED job
    BY <1>3 DEF vars, NoNewRow, sensors, history, InUse
  <2> QED BY <2>1, Quiet DEF NotInserting
<1> QED
  BY <1>1, <1>2, <1>3, AdministrationCounts, TenantStepCounts, SensorStepCounts,
     OtherStepCounts, MigrateCounts DEF Next, MoveStep

\* However many runs overlap, a tenant has at most as many devices of a name
\* as there are runs, as long as no tenant's id is used twice, and a device at
\* most as many keys: one, when runs come one after the other.
THEOREM DuplicatesFew == Spec => []DuplicatesBounded
<1>1. Spec => [](Typed /\ CountInv)
  BY InitOK, NextOK, CountInit, CountNext, PTL DEF Spec
<1>2. Typed /\ CountInv => DuplicatesBounded
  <2> SUFFICES ASSUME Typed, CountInv PROVE DuplicatesBounded
    OBVIOUS
  <2>1. InUse(tenants) \subseteq TenantIds
    BY DEF Typed, TypeOK, InUse
  <2> QED
    BY <2>1 DEF CountInv, NamesakesBounded, KeysBounded, DuplicatesBounded, Namesakes, KeysOf
<1> QED BY <1>1, <1>2, PTL

=============================================================================
