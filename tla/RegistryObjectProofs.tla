------------------------- MODULE RegistryObjectProofs -------------------------
(***************************************************************************)
(* ConfigAuthenticates and RulesStored of Registry: what the objects in    *)
(* MinIO and the tables say of one another, for any runs, names,           *)
(* environments and ids.                                                   *)
(*                                                                         *)
(* ObjectInv adds to them what a run knows before it writes the second of  *)
(* the two: the key it is about to put into a configuration has a row that *)
(* names the device and the tenant, under the exceptions of                *)
(* ConfigAuthenticates, and a run of objupdater that has uploaded finds    *)
(* its package.  The first needs SensorInv, as GetOrInsertAPIKey looks a   *)
(* key up by its device and returns it for the tenant in hand, and         *)
(* InactiveKnown, as it returns a key that is not active as well.          *)
(***************************************************************************)
EXTENDS RegistrySensorProofs

\* The key's row says what the configuration says, with the exceptions.
Names(key, tenant, device) ==
  (/\ reused = {} /\ key \notin revoked \cup inactive /\ tenant \notin retired
   /\ device \notin released) =>
     \E k \in keys : k.id = key /\ k.active /\ k.tenant = tenant /\ k.device = device

\* Only dbtool inserts a key that is not active.
InactiveKnown == \A k \in keys : k.active \/ k.id \in inactive

Named(j) == j.pc = "uploadConfig" => Names(j.key, j.tenant, j.device)

\* The steps of PublishRules after the upload of the package.
Publishing(j) ==
  \/ j.pc \in {"uploadMetadata", "findRules", "insertRules"}
  \/ j.pc = "checkTenant" /\ j.goal = "rules"
Packaged(j) == Publishing(j) => <<"package", j.tenant>> \in stored

JobsNamed    == \A r \in Runs : Named(job[r])
JobsPackaged == \A r \in Runs : Packaged(job[r])
ObjectInv    == ConfigAuthenticates /\ JobsNamed /\ RulesStored /\ JobsPackaged

\* A key's row stays, is moved with its tenant, or is deleted, and what was
\* deleted or used again is remembered, as is who inserted it inactive.
KeysKept ==
  /\ reused \subseteq reused' /\ revoked \subseteq revoked'
  /\ retired \subseteq retired' /\ released \subseteq released'
  /\ inactive \subseteq inactive'
  /\ \A k \in keys : k \in keys' \/ k.id \in revoked' \/ k.tenant \in retired'

\* Run r is where it neither stores a configuration nor publishes rules.
Elsewhere(r) ==
  Others(r) /\ job'[r].pc # "uploadConfig" /\ ~ Publishing(job'[r])

(***************************************************************************)
(* Lemmas on where a run goes                                              *)
(***************************************************************************)

\* A run that ends neither stores a configuration nor publishes.
LEMMA FinishElsewhere ==
  ASSUME Typed, NEW r \in Runs, Finish(r)
  PROVE  Elsewhere(r)
<1>1. job'[r] = Idle /\ Others(r)
  BY Replaced DEF Finish
<1>2. Idle.pc = "idle"
  BY DEF Idle
<1> QED BY <1>1, <1>2 DEF Elsewhere, Publishing

\* A run that goes to any other step is elsewhere.
LEMMA GotoElsewhere ==
  ASSUME Typed, NEW r \in Runs, NEW p, Goto(r, p),
         p \notin {"uploadConfig", "uploadMetadata", "findRules", "insertRules",
                   "checkTenant"}
  PROVE  Elsewhere(r)
BY GotoFields DEF Elsewhere, Publishing

\* A run that has got its tenant goes on to a device, or ends.
LEMMA GotTenantElsewhere ==
  ASSUME Typed, NEW r \in Runs, NEW i, GotTenant(r, i),
         job[r].pc \in {"findTenant", "insertTenant"}
  PROVE  Elsewhere(r)
<1>1. CASE job[r].goal = "tenant"
  BY <1>1, FinishElsewhere DEF GotTenant
<1>2. CASE job[r].goal # "tenant"
  <2> DEFINE j == [Idle EXCEPT !.pc = "checkTenant", !.goal = job[r].goal,
                               !.tenant = i, !.dname = job[r].dname]
  <2>1. job'[r] = j /\ Others(r)
    BY <1>2, Replaced DEF GotTenant
  <2>2. job[r].goal = "config"
    BY <1>2 DEF Typed, JobsOK, JobOK, Naming
  <2>3. j.pc = "checkTenant" /\ j.goal = job[r].goal
    BY DEF Idle
  <2> QED BY <2>1, <2>2, <2>3 DEF Elsewhere, Publishing
<1> QED BY <1>1, <1>2

\* A run that has got its device goes on to a key, or ends.
LEMMA GotDeviceElsewhere ==
  ASSUME Typed, NEW r \in Runs, NEW d, GotDevice(r, d)
  PROVE  Elsewhere(r)
<1>1. CASE job[r].goal = "device"
  BY <1>1, FinishElsewhere DEF GotDevice
<1>2. CASE job[r].goal # "device"
  <2> DEFINE j == [job[r] EXCEPT !.pc = "checkDevice", !.device = d, !.dname = Nothing]
  <2>1. job' = [job EXCEPT ![r] = j]
    BY <1>2 DEF GotDevice
  <2>2. j.pc = "checkDevice"
    BY DEF Typed, TypeOK, Job
  <2>3. job'[r] = j /\ Others(r)
    BY <2>1, Replaced
  <2> QED BY <2>2, <2>3 DEF Elsewhere, Publishing
<1> QED BY <1>1, <1>2

\* A run that has got a key ends, or is about to store it.
LEMMA GotKeyFields ==
  ASSUME Typed, NEW r \in Runs, NEW k, GotKey(r, k)
  PROVE  \/ Elsewhere(r)
         \/ /\ Others(r) /\ job'[r].pc = "uploadConfig" /\ job'[r].key = k
            /\ job'[r].tenant = job[r].tenant /\ job'[r].device = job[r].device
<1>1. CASE job[r].goal = "key"
  BY <1>1, FinishElsewhere DEF GotKey
<1>2. CASE job[r].goal # "key"
  <2> DEFINE j == [job[r] EXCEPT !.pc = "uploadConfig", !.key = k]
  <2>1. job' = [job EXCEPT ![r] = j]
    BY <1>2 DEF GotKey
  <2>2. /\ j.pc = "uploadConfig" /\ j.key = k
        /\ j.tenant = job[r].tenant /\ j.device = job[r].device
    BY DEF Typed, TypeOK, Job
  <2>3. job'[r] = j /\ Others(r)
    BY <2>1, Replaced
  <2> QED BY <2>2, <2>3
<1> QED BY <1>1, <1>2

\* A run that has drawn an id goes on to a tenant or to the migration, or ends.
LEMMA NextTenantIdElsewhere ==
  ASSUME Typed, NEW r \in Runs, NextTenantId(r)
  PROVE  Elsewhere(r)
<1> DEFINE e == job[r].env
           j == [job[r] EXCEPT !.new = next[e],
                   !.pc = IF job[r].goal = "move" THEN "migrate" ELSE "insertTenant"]
<1>1. CASE Finish(r)
  BY <1>1, FinishElsewhere
<1>2. CASE job' = [job EXCEPT ![r] = j]
  <2>1. job[r] \in Job
    BY DEF Typed, TypeOK
  <2>2. j.pc \in {"migrate", "insertTenant"}
    BY <2>1 DEF Job
  <2>3. job'[r] = j /\ Others(r)
    BY <1>2, Replaced
  <2> QED BY <2>2, <2>3 DEF Elsewhere, Publishing
<1> QED BY <1>1, <1>2 DEF NextTenantId

\* A run that starts has no key and has uploaded nothing.
LEMMA StartElsewhere ==
  ASSUME Typed, NEW r \in Runs, Start(r)
  PROVE  Elsewhere(r)
<1> DEFINE Begun == \E j : /\ j.pc # "uploadConfig" /\ ~ Publishing(j)
                           /\ job' = [job EXCEPT ![r] = j]
<1>1. ASSUME NEW n, NEW e, ProvisionTenant(r, n, e) PROVE Begun
  <2>1. [Idle EXCEPT !.pc = "findTenant", !.goal = "tenant", !.name = n,
                     !.env = e].pc = "findTenant"
    BY DEF Idle
  <2> QED BY <1>1, <2>1 DEF ProvisionTenant, Begin, Publishing
<1>2. ASSUME NEW n, NEW e, NEW d, ProvisionSensor(r, n, d, e) PROVE Begun
  <2>1. [Idle EXCEPT !.pc = "findTenant", !.goal = "config", !.name = n,
                     !.env = e, !.dname = d].pc = "findTenant"
    BY DEF Idle
  <2> QED BY <1>2, <2>1 DEF ProvisionSensor, Begin, Publishing
<1>3. ASSUME NEW i, PublishRules(r, i) PROVE Begun
  <2>1. [Idle EXCEPT !.pc = "uploadRules", !.goal = "rules", !.tenant = i].pc = "uploadRules"
    BY DEF Idle
  <2> QED BY <1>3, <2>1 DEF PublishRules, Begin, Publishing
<1>4. ASSUME NEW i, NEW d, DbtoolInsertDevice(r, i, d) PROVE Begun
  <2> DEFINE j == [Idle EXCEPT !.pc = "checkTenant", !.goal = "device", !.tenant = i,
                               !.dname = d]
  <2>1. j.pc = "checkTenant" /\ j.goal = "device"
    BY DEF Idle
  <2> QED BY <1>4, <2>1 DEF DbtoolInsertDevice, Begin, Publishing
<1>5. ASSUME NEW i, NEW d, DbtoolInsertAPIKey(r, i, d) PROVE Begun
  <2>1. [Idle EXCEPT !.pc = "checkDevice", !.goal = "key", !.tenant = i,
                     !.device = d].pc = "checkDevice"
    BY DEF Idle
  <2> QED BY <1>5, <2>1 DEF DbtoolInsertAPIKey, Begin, Publishing
<1>6. ASSUME NEW i, NEW e, MoveTenant(r, i, e) PROVE Begun
  <2>1. [Idle EXCEPT !.pc = "fetchTenant", !.goal = "move", !.tenant = i,
                     !.env = e].pc = "fetchTenant"
    BY DEF Idle
  <2> QED BY <1>6, <2>1 DEF MoveTenant, Begin, Publishing
<1>7. ASSUME NEW k, Authenticate(r, k) PROVE Begun
  <2>1. [Idle EXCEPT !.pc = "checkDevice", !.goal = "report", !.tenant = k.tenant,
                     !.device = k.device].pc = "checkDevice"
    BY DEF Idle
  <2> QED BY <1>7, <2>1 DEF Authenticate, Publishing
<1>8. Begun
  BY <1>1, <1>2, <1>3, <1>4, <1>5, <1>6, <1>7 DEF Start
<1> QED BY <1>8, Replaced DEF Elsewhere

(***************************************************************************)
(* ObjectInv is kept                                                       *)
(***************************************************************************)

\* Elsewhere there is nothing that a run must know.
LEMMA ElsewhereOK ==
  ASSUME NEW r \in Runs, Elsewhere(r)
  PROVE  Others(r) /\ Named(job[r])' /\ Packaged(job[r])'
BY DEF Elsewhere, Named, Packaged, Publishing

\* The other runs' keys and packages are where they were.
LEMMA RunsKept ==
  ASSUME ObjectInv, NEW r \in Runs, Others(r), Named(job[r])', Packaged(job[r])',
         KeysKept, stored \subseteq stored'
  PROVE  JobsNamed' /\ JobsPackaged'
<1>1. ASSUME NEW q \in Runs, q # r PROVE Named(job[q])'
  <2>1. job'[q] = job[q] /\ Named(job[q])
    BY <1>1 DEF Others, ObjectInv, JobsNamed
  <2> QED BY <2>1 DEF Named, Names, KeysKept
<1>2. ASSUME NEW q \in Runs, q # r PROVE Packaged(job[q])'
  <2>1. job'[q] = job[q] /\ Packaged(job[q])
    BY <1>2 DEF Others, ObjectInv, JobsPackaged
  <2> QED BY <2>1 DEF Packaged, Publishing
<1> QED BY <1>1, <1>2 DEF JobsNamed, JobsPackaged

\* A step of dbtool has no run.
LEMMA ToolKept ==
  ASSUME ObjectInv, UNCHANGED <<job, stored>>, KeysKept
  PROVE  JobsNamed' /\ JobsPackaged'
BY DEF ObjectInv, JobsNamed, JobsPackaged, Named, Names, Packaged, Publishing, KeysKept

\* The configurations that were stored name what they named.
LEMMA ConfigsKept ==
  ASSUME ConfigAuthenticates, KeysKept, UNCHANGED configs
  PROVE  ConfigAuthenticates'
BY DEF ConfigAuthenticates, KeysKept

\* Rows of rules that stay, or are deleted, have their packages.
LEMMA RulesKept ==
  ASSUME RulesStored, rules' \subseteq rules, stored \subseteq stored',
         \A i \in rules' : former'[i] = former[i]
  PROVE  RulesStored'
BY DEF RulesStored

\* A step of a run that touches neither configurations nor rules, and takes no
\* key away.
LEMMA ObjectsKept ==
  ASSUME ObjectInv, NEW r \in Runs, Others(r), Named(job[r])', Packaged(job[r])',
         KeysKept, UNCHANGED <<configs, rules, former>>, stored \subseteq stored'
  PROVE  ObjectInv'
BY RunsKept, ConfigsKept, RulesKept DEF ObjectInv

\* No key is deleted and none is moved.
LEMMA SameKeys ==
  ASSUME keys \subseteq keys', reused \subseteq reused',
         UNCHANGED <<retired, released, revoked>>, inactive \subseteq inactive'
  PROVE  KeysKept
BY DEF KeysKept

\* GetOrInsertTenant and ValidateTenant; the latter on the way to rules as well.
LEMMA TenantStepObjects ==
  ASSUME Typed, ObjectInv, NEW r \in Runs, TenantStep(r)
  PROVE  ObjectInv'
<1>1. UNCHANGED <<keys, configs, rules, stored, retired, released, revoked, inactive, former>>
  BY DEF TenantStep, FindTenant, NextTenantId, InsertTenant, CheckTenant, Reads,
         sensors, content, objects, history
<1>2. reused \subseteq reused'
  BY DEF TenantStep, FindTenant, NextTenantId, InsertTenant, CheckTenant, Reads,
         AddTenant, history
<1>3. KeysKept
  BY <1>1, <1>2, SameKeys
<1>4. CASE FindTenant(r) \/ NextTenantId(r) \/ InsertTenant(r)
  <2>1. Elsewhere(r)
    BY <1>4, GotTenantElsewhere, GotoElsewhere, FinishElsewhere, NextTenantIdElsewhere
    DEF FindTenant, InsertTenant, At
  <2> QED BY <1>1, <1>3, <2>1, ElsewhereOK, ObjectsKept
<1>5. CASE CheckTenant(r)
  <2>1. CASE Finish(r)
    BY <1>1, <1>3, <2>1, FinishElsewhere, ElsewhereOK, ObjectsKept
  <2>2. CASE Goto(r, "findDevice")
    <3>1. Elsewhere(r)
      BY <2>2, GotoElsewhere
    <3> QED BY <1>1, <1>3, <3>1, ElsewhereOK, ObjectsKept
  <2>3. CASE Goto(r, "findRules") /\ job[r].goal = "rules"
    <3>1. /\ Others(r) /\ job'[r].pc = "findRules"
          /\ job'[r].tenant = job[r].tenant
      BY <2>3, GotoFields
    <3>2. <<"package", job[r].tenant>> \in stored
      BY <1>5, <2>3 DEF CheckTenant, At, ObjectInv, JobsPackaged, Packaged, Publishing
    <3>3. Named(job[r])' /\ Packaged(job[r])'
      BY <1>1, <3>1, <3>2 DEF Named, Packaged
    <3> QED BY <1>1, <1>3, <3>1, <3>3, ObjectsKept
  <2> QED BY <1>5, <2>1, <2>2, <2>3 DEF CheckTenant
<1> QED BY <1>4, <1>5 DEF TenantStep

\* The key that GetOrInsertAPIKey finds for a device is the tenant's in hand.
LEMMA FoundKey ==
  ASSUME SensorInv, InactiveKnown, NEW r \in Runs, job[r].pc \in Checked,
         NEW k \in keys, k.device = job[r].device
  PROVE  Names(k.id, job[r].tenant, job[r].device)
<1> SUFFICES ASSUME reused = {}, job[r].tenant \notin retired, job[r].device \notin released
             PROVE  k.tenant = job[r].tenant
  BY DEF Names, InactiveKnown
<1>1. PICK x \in devices : x.id = job[r].device /\ x.tenant = job[r].tenant
  BY DEF SensorInv, JobsKnown, Known
<1> QED BY <1>1 DEF SensorInv, OneTenantPerSensor

\* A key that is found, and returned for the tenant in hand.
LEMMA FindKeyObjects ==
  ASSUME Typed, SensorInv, InactiveKnown, ObjectInv, NEW r \in Runs, FindKey(r)
  PROVE  ObjectInv'
<1>1. UNCHANGED <<keys, configs, rules, stored, reused, retired, released, revoked,
                inactive, former>>
  BY DEF FindKey, Reads, sensors, content, objects, history
<1>2. KeysKept
  BY <1>1, SameKeys
<1>3. CASE Goto(r, "insertKey")
  <2>1. Elsewhere(r)
    BY <1>3, GotoElsewhere
  <2> QED BY <1>1, <1>2, <2>1, ElsewhereOK, ObjectsKept
<1>4. ASSUME NEW k \in keys, k.device = job[r].device, GotKey(r, k.id)
      PROVE  ObjectInv'
  <2>1. CASE Elsewhere(r)
    BY <1>1, <1>2, <2>1, ElsewhereOK, ObjectsKept
  <2>2. CASE /\ Others(r) /\ job'[r].pc = "uploadConfig" /\ job'[r].key = k.id
             /\ job'[r].tenant = job[r].tenant /\ job'[r].device = job[r].device
    <3>1. job[r].pc \in Checked
      BY DEF FindKey, At, Checked
    <3>2. Names(k.id, job[r].tenant, job[r].device)
      BY <1>4, <3>1, FoundKey
    <3>3. Named(job[r])' /\ Packaged(job[r])'
      BY <1>1, <2>2, <3>2 DEF Named, Names, Packaged, Publishing
    <3> QED BY <1>1, <1>2, <2>2, <3>3, ObjectsKept
  <2> QED BY <1>4, <2>1, <2>2, GotKeyFields
<1> QED BY <1>3, <1>4 DEF FindKey

\* A key that is inserted names the device and the tenant in hand.
LEMMA InsertKeyObjects ==
  ASSUME Typed, ObjectInv, NEW r \in Runs, InsertKey(r)
  PROVE  ObjectInv'
<1>1. /\ UNCHANGED <<configs, rules, stored, reused, retired, released, revoked, former>>
      /\ inactive \subseteq inactive'
  BY DEF InsertKey, content, objects
<1>2. CASE UNCHANGED keys /\ Finish(r)
  <2>1. KeysKept
    BY <1>1, <1>2, SameKeys
  <2> QED BY <1>1, <1>2, <2>1, FinishElsewhere, ElsewhereOK, ObjectsKept
<1>3. ASSUME NEW k, NEW a, GotKey(r, k),
             keys' = keys \cup {[id |-> k, tenant |-> job[r].tenant,
                                 device |-> job[r].device, active |-> a]},
             inactive' = IF a THEN inactive ELSE inactive \cup {k}
      PROVE  ObjectInv'
  <2>1. KeysKept
    BY <1>1, <1>3, SameKeys
  <2>2. CASE Elsewhere(r)
    BY <1>1, <2>1, <2>2, ElsewhereOK, ObjectsKept
  <2>3. CASE /\ Others(r) /\ job'[r].pc = "uploadConfig" /\ job'[r].key = k
             /\ job'[r].tenant = job[r].tenant /\ job'[r].device = job[r].device
    <3>1. k \notin inactive' =>
            \E x \in keys' : /\ x.id = k /\ x.active /\ x.tenant = job[r].tenant
                             /\ x.device = job[r].device
      <4> DEFINE new == [id |-> k, tenant |-> job[r].tenant,
                         device |-> job[r].device, active |-> a]
      <4>1. new \in keys'
        BY <1>3
      <4>2. /\ new.id = k /\ new.tenant = job[r].tenant /\ new.device = job[r].device
            /\ k \notin inactive' => new.active
        BY <1>3
      <4> QED BY <4>1, <4>2
    <3>2. Named(job[r])' /\ Packaged(job[r])'
      BY <2>3, <3>1 DEF Named, Names, Packaged, Publishing
    <3> QED BY <1>1, <2>1, <2>3, <3>2, ObjectsKept
  <2> QED BY <1>3, <2>2, <2>3, GotKeyFields
<1> QED BY <1>2, <1>3 DEF InsertKey

\* The configuration that is stored names what the run has in hand.
LEMMA UploadConfigObjects ==
  ASSUME Typed, ObjectInv, NEW r \in Runs, UploadConfig(r)
  PROVE  ObjectInv'
<1>1. UNCHANGED <<keys, rules, stored, reused, retired, released, revoked, inactive, former>>
  BY DEF UploadConfig, sensors, content, history
<1>2. KeysKept
  BY <1>1, SameKeys
<1>3. JobsNamed' /\ JobsPackaged'
  BY <1>1, <1>2, FinishElsewhere, ElsewhereOK, RunsKept DEF UploadConfig
<1>4. Names(job[r].key, job[r].tenant, job[r].device)
  BY DEF UploadConfig, At, ObjectInv, JobsNamed, Named
<1>5. ConfigAuthenticates'
  <2> SUFFICES ASSUME NEW c \in configs' PROVE Names(c.key, c.tenant, c.device)'
    BY DEF ConfigAuthenticates, Names
  <2>1. CASE c \in configs
    BY <1>1, <2>1 DEF ObjectInv, ConfigAuthenticates, Names
  <2>2. CASE c \notin configs
    <3>1. c.key = job[r].key /\ c.tenant = job[r].tenant /\ c.device = job[r].device
      BY <2>2 DEF UploadConfig
    <3> QED BY <1>1, <1>4, <3>1 DEF Names
  <2> QED BY <2>1, <2>2
<1> QED BY <1>1, <1>3, <1>5, RulesKept DEF ObjectInv

\* GetOrInsertDevice, GetOrInsertAPIKey, the object, and the reports.
LEMMA SensorStepObjects ==
  ASSUME Typed, SensorInv, InactiveKnown, ObjectInv, NEW r \in Runs, SensorStep(r)
  PROVE  ObjectInv'
<1>1. CASE \/ FindDevice(r) \/ InsertDevice(r) \/ CheckDevice(r)
           \/ FindReport(r) \/ InsertReport(r)
  <2>1. UNCHANGED <<keys, configs, rules, stored, reused, retired, released, revoked,
                  inactive, former>>
    BY <1>1
    DEF FindDevice, InsertDevice, CheckDevice, FindReport, InsertReport, Reads,
        sensors, content, objects, history
  <2>2. KeysKept
    BY <2>1, SameKeys
  <2>3. Elsewhere(r)
    BY <1>1, GotDeviceElsewhere, GotoElsewhere, FinishElsewhere
    DEF FindDevice, InsertDevice, CheckDevice, FindReport, InsertReport
  <2> QED BY <2>1, <2>2, <2>3, ElsewhereOK, ObjectsKept
<1> QED
  BY <1>1, FindKeyObjects, InsertKeyObjects, UploadConfigObjects DEF SensorStep

\* PublishRules' steps: from the upload on, the package is there.
LEMMA RulesStepObjects ==
  ASSUME Typed, ObjectInv, NEW r \in Runs, RulesStep(r)
  PROVE  ObjectInv'
<1>1. UNCHANGED <<keys, configs, reused, retired, released, revoked, inactive, former>>
  BY DEF RulesStep, UploadRules, UploadMetadata, FindRules, InsertRules, Reads,
         sensors, objects, history
<1>2. KeysKept
  BY <1>1, SameKeys
<1>3. stored \subseteq stored'
  BY DEF RulesStep, UploadRules, UploadMetadata, FindRules, InsertRules, Reads, objects
<1>4. job[r].pc \in {"uploadMetadata", "findRules", "insertRules"} =>
        <<"package", job[r].tenant>> \in stored
  BY DEF ObjectInv, JobsPackaged, Packaged, Publishing
<1>5. ASSUME NEW p, p # "uploadConfig", Goto(r, p), UNCHANGED rules,
             <<"package", job[r].tenant>> \in stored'
      PROVE  ObjectInv'
  <2>1. /\ Others(r) /\ job'[r].pc = p /\ job'[r].tenant = job[r].tenant
    BY <1>5, GotoFields
  <2>2. Named(job[r])' /\ Packaged(job[r])'
    BY <1>5, <2>1 DEF Named, Packaged
  <2> QED BY <1>1, <1>2, <1>3, <1>5, <2>1, <2>2, ObjectsKept
<1>6. CASE UploadRules(r)
  <2>1. <<"package", job[r].tenant>> \in stored' /\ UNCHANGED rules
    BY <1>6 DEF UploadRules, content
  <2> QED BY <1>5, <1>6, <2>1 DEF UploadRules
<1>7. CASE UploadMetadata(r)
  <2>1. <<"package", job[r].tenant>> \in stored' /\ UNCHANGED rules
    BY <1>3, <1>4, <1>7 DEF UploadMetadata, At, content
  <2> QED BY <1>5, <1>7, <2>1 DEF UploadMetadata
<1>8. CASE FindRules(r)
  <2>1. <<"package", job[r].tenant>> \in stored' /\ UNCHANGED rules
    BY <1>3, <1>4, <1>8 DEF FindRules, At, Reads, content
  <2>2. CASE Goto(r, "insertRules")
    BY <1>5, <2>1, <2>2
  <2>3. CASE Finish(r)
    BY <1>1, <1>2, <1>3, <2>1, <2>3, FinishElsewhere, ElsewhereOK, ObjectsKept
  <2> QED BY <1>8, <2>2, <2>3 DEF FindRules
<1>9. CASE InsertRules(r)
  <2>1. <<"package", job[r].tenant>> \in stored /\ UNCHANGED stored
    BY <1>4, <1>9 DEF InsertRules, At, objects
  <2>2. JobsNamed' /\ JobsPackaged'
    BY <1>2, <1>3, <1>9, FinishElsewhere, ElsewhereOK, RunsKept DEF InsertRules
  <2>3. RulesStored'
    BY <1>1, <1>9, <2>1 DEF InsertRules, ObjectInv, RulesStored
  <2> QED BY <1>1, <1>2, <2>2, <2>3, ConfigsKept DEF ObjectInv
<1> QED BY <1>6, <1>7, <1>8, <1>9 DEF RulesStep

\* A migration leaves the rules' packages under an id that is retired now.
LEMMA MigrateObjects ==
  ASSUME Typed, ObjectInv, NEW r \in Runs, Migrate(r)
  PROVE  ObjectInv'
<1> DEFINE o == job[r].tenant
           n == job[r].new
           NoClash == /\ keys' = Moved(keys, o, n) /\ retired' = retired \cup {o}
                      /\ rules' = {IF i = o THEN n ELSE i : i \in rules}
                      /\ reused \subseteq reused' /\ ~ (IsTenant(o) /\ IsTenant(n))
                      /\ former' = IF IsTenant(o)
                           THEN [former EXCEPT ![n] = former[o] \cup {o}, ![o] = {}]
                           ELSE former
<1>1. Elsewhere(r)
  BY GotoElsewhere, FinishElsewhere DEF Migrate
<1>2. UNCHANGED <<configs, stored, released, revoked, inactive>>
  BY DEF Migrate, objects
<1>3. CASE UNCHANGED <<keys, rules, retired, reused, former>>
  <2>1. KeysKept
    BY <1>2, <1>3, SameKeys
  <2> QED BY <1>1, <1>2, <1>3, <2>1, ElsewhereOK, ObjectsKept
<1>4. CASE NoClash
  <2>1. ASSUME NEW k \in keys PROVE k \in keys' \/ k.tenant \in retired'
    BY <1>4 DEF Moved
  <2>2. KeysKept
    BY <1>2, <1>4, <2>1 DEF KeysKept
  <2>3. JobsNamed' /\ JobsPackaged'
    BY <1>1, <1>2, <2>2, ElsewhereOK, RunsKept
  <2>4. RulesStored'
    <3> SUFFICES ASSUME NEW i \in rules'
                 PROVE  \E q \in {i} \cup former'[i] : <<"package", q>> \in stored'
      BY DEF RulesStored
    <3>1. PICK c \in rules : i = IF c = o THEN n ELSE c
      BY <1>4
    <3>2. PICK q \in {c} \cup former[c] : <<"package", q>> \in stored
      BY DEF ObjectInv, RulesStored
    <3>3. o \in TenantIds /\ n \in TenantIds /\ former \in [TenantIds -> SUBSET TenantIds]
      BY DEF Migrate, At, Typed, TypeOK, JobsOK, JobOK, HasTenant
    <3>4. IsTenant(c) /\ c \in TenantIds
      BY DEF Typed, TypeOK, IsTenant, TenantRow, InUse
    <3>5. CASE c = o
      <4>1. i = n /\ n # o /\ former'[n] = former[o] \cup {o}
        BY <1>4, <3>1, <3>3, <3>4, <3>5
      <4> QED BY <1>2, <3>2, <3>5, <4>1
    <3>6. CASE c # o
      <4>1. i = c /\ former'[c] = former[c]
        BY <1>4, <3>1, <3>3, <3>4, <3>6
      <4> QED BY <1>2, <3>2, <4>1
    <3> QED BY <3>5, <3>6
  <2> QED BY <1>2, <2>2, <2>3, <2>4, ConfigsKept DEF ObjectInv
<1>5. UNCHANGED <<keys, rules, retired, reused, former>> \/ NoClash
  BY DEF Migrate, sensors, content
<1> QED BY <1>3, <1>4, <1>5

\* move-tenant.sh.
LEMMA MoveStepObjects ==
  ASSUME Typed, ObjectInv, NEW r \in Runs, MoveStep(r)
  PROVE  ObjectInv'
<1>1. CASE FetchTenant(r) \/ ListRules(r) \/ CopyRules(r)
  <2>1. UNCHANGED <<keys, configs, rules, reused, retired, released, revoked, inactive, former>>
    BY <1>1
    DEF FetchTenant, ListRules, CopyRules, Reads, sensors, content, objects, history
  <2>2. stored \subseteq stored'
    BY <1>1 DEF FetchTenant, ListRules, CopyRules, Reads, objects
  <2>3. Elsewhere(r)
    <3>1. CASE FetchTenant(r)
      BY <3>1, GotoElsewhere, FinishElsewhere DEF FetchTenant
    <3>2. CASE ListRules(r)
      <4> DEFINE j == [job[r] EXCEPT !.pc = "nextTenantId",
                                     !.listed = job[r].tenant \in rules]
      <4>1. job' = [job EXCEPT ![r] = j]
        BY <3>2 DEF ListRules
      <4>2. job[r] \in Job
        BY DEF Typed, TypeOK
      <4>3. j.pc = "nextTenantId"
        BY <4>2 DEF Job
      <4> HIDE DEF j
      <4>4. job'[r] = j /\ Others(r)
        BY <4>1, Replaced
      <4> QED BY <4>3, <4>4 DEF Elsewhere, Publishing
    <3>3. CASE CopyRules(r)
      BY <3>3, FinishElsewhere DEF CopyRules
    <3> QED BY <1>1, <3>1, <3>2, <3>3
  <2>4. KeysKept
    BY <2>1, SameKeys
  <2> QED BY <2>1, <2>2, <2>3, <2>4, ElsewhereOK, ObjectsKept
<1> QED BY <1>1, MigrateObjects DEF MoveStep

\* A key whose row is deleted is revoked.
LEMMA AdministrationObjects ==
  ASSUME Typed, ObjectInv, Administration
  PROVE  ObjectInv'
<1> DEFINE Kept == /\ KeysKept /\ rules' \subseteq rules
                   /\ \A i \in rules' : former'[i] = former[i]
<1>1. UNCHANGED <<job, configs, stored>>
  BY DEF Administration, InsertTenantWithSpecificID, DeleteTenant, InsertUser,
         DeleteDevice, DeleteAPIKey, DeleteHndrRules, DeleteStatus, objects
<1>2. Kept
  <2>1. ASSUME NEW n, NEW e, NEW i, InsertTenantWithSpecificID(i, n, e) PROVE Kept
    BY <2>1, SameKeys DEF InsertTenantWithSpecificID, AddTenant, sensors, content
  <2>2. ASSUME NEW i, DeleteTenant(i) PROVE Kept
    <3>1. revoked' = revoked \cup InUse(keys \ keys')
      BY <2>2 DEF DeleteTenant
    <3>2. \A k \in keys : k \in keys' \/ k.id \in revoked'
      BY <3>1 DEF InUse
    <3>3. KeysKept /\ rules' = rules \ {i}
      BY <2>2, <3>1, <3>2 DEF DeleteTenant, KeysKept
    <3>4. ASSUME NEW c \in rules' PROVE former'[c] = former[c]
      <4>1. c # i /\ c \in TenantIds
        BY <3>3 DEF Typed, TypeOK, InUse
      <4>2. former \in [TenantIds -> SUBSET TenantIds]
        BY DEF Typed, TypeOK
      <4> QED BY <2>2, <4>1, <4>2 DEF DeleteTenant
    <3> QED BY <3>3, <3>4
  <2>3. ASSUME NEW i, InsertUser(i) PROVE Kept
    BY <2>3, SameKeys DEF InsertUser, sensors, history
  <2>4. ASSUME NEW d, DeleteDevice(d) PROVE Kept
    <3>1. revoked' = revoked \cup InUse(keys \ keys')
      BY <2>4 DEF DeleteDevice
    <3>2. \A k \in keys : k \in keys' \/ k.id \in revoked'
      BY <3>1 DEF InUse
    <3> QED BY <2>4, <3>1, <3>2 DEF DeleteDevice, KeysKept, content
  <2>5. ASSUME NEW k, DeleteAPIKey(k) PROVE Kept
    BY <2>5 DEF DeleteAPIKey, KeysKept, content
  <2>6. ASSUME NEW i, DeleteHndrRules(i) PROVE Kept
    BY <2>6, SameKeys DEF DeleteHndrRules, sensors, history
  <2>7. ASSUME NEW x, DeleteStatus(x) PROVE Kept
    BY <2>7, SameKeys DEF DeleteStatus, content, history
  <2> QED BY <2>1, <2>2, <2>3, <2>4, <2>5, <2>6, <2>7 DEF Administration
<1> QED BY <1>1, <1>2, ToolKept, ConfigsKept, RulesKept DEF ObjectInv

\* Nothing is stored at first.
LEMMA ObjectInit ==
  ASSUME Init
  PROVE  InactiveKnown /\ ObjectInv
BY DEF Init, Idle, InactiveKnown, ObjectInv, ConfigAuthenticates, RulesStored,
       JobsNamed, Named, JobsPackaged, Packaged, Publishing

\* A key's flag is what InsertKey wrote, wherever the key is moved to.
LEMMA InactiveNext ==
  ASSUME InactiveKnown, [Next]_vars
  PROVE  InactiveKnown'
<1> DEFINE Old == /\ inactive' = inactive
                  /\ \A k \in keys' : \E x \in keys : x.id = k.id /\ x.active = k.active
<1>1. ASSUME Old PROVE InactiveKnown'
  BY <1>1 DEF InactiveKnown
<1>2. ASSUME NEW r \in Runs, InsertKey(r) PROVE InactiveKnown'
  <2>1. CASE UNCHANGED <<keys, inactive>>
    BY <2>1 DEF InactiveKnown
  <2>2. ASSUME NEW k, NEW a,
               keys' = keys \cup {[id |-> k, tenant |-> job[r].tenant,
                                   device |-> job[r].device, active |-> a]},
               inactive' = IF a THEN inactive ELSE inactive \cup {k}
        PROVE  InactiveKnown'
    BY <2>2 DEF InactiveKnown
  <2> QED BY <1>2, <2>1, <2>2 DEF InsertKey
<1>3. ASSUME NEW r \in Runs, Migrate(r) PROVE Old
  <2>1. ASSUME NEW o, NEW n, NEW k \in Moved(keys, o, n)
        PROVE  \E x \in keys : x.id = k.id /\ x.active = k.active
    <3>1. PICK x \in keys : k = IF x.tenant = o THEN [x EXCEPT !.tenant = n] ELSE x
      BY DEF Moved
    <3>2. [x EXCEPT !.tenant = n].id = x.id /\ [x EXCEPT !.tenant = n].active = x.active
      OBVIOUS
    <3> QED BY <3>1, <3>2
  <2>2. inactive' = inactive
    BY <1>3 DEF Migrate
  <2>3. UNCHANGED keys \/ keys' = Moved(keys, job[r].tenant, job[r].new)
    BY <1>3 DEF Migrate, sensors
  <2>4. CASE UNCHANGED keys
    BY <2>2, <2>4
  <2>5. CASE keys' = Moved(keys, job[r].tenant, job[r].new)
    <3>1. ASSUME NEW k \in keys' PROVE \E x \in keys : x.id = k.id /\ x.active = k.active
      BY <2>1, <2>5
    <3> QED BY <2>2, <3>1
  <2> QED BY <2>3, <2>4, <2>5
<1>4. ASSUME NEW r \in Runs,
             \/ Start(r) \/ TenantStep(r) \/ RulesStep(r) \/ Stop(r)
             \/ SensorStep(r) /\ ~ InsertKey(r)
             \/ MoveStep(r) /\ ~ Migrate(r)
      PROVE  Old
  <2>1. UNCHANGED <<keys, inactive>>
    BY <1>4
    DEF Start, ProvisionTenant, ProvisionSensor, PublishRules, DbtoolInsertDevice,
        DbtoolInsertAPIKey, MoveTenant, Authenticate, Stop, Reads, sensors, content,
        objects, history, TenantStep, FindTenant, NextTenantId, InsertTenant,
        CheckTenant, RulesStep, UploadRules, UploadMetadata, FindRules, InsertRules,
        SensorStep, FindDevice, InsertDevice, CheckDevice, FindKey, UploadConfig,
        FindReport, InsertReport, MoveStep, FetchTenant, ListRules, CopyRules
  <2> QED BY <2>1
<1>5. CASE Administration
  <2>1. inactive' = inactive /\ keys' \subseteq keys
    BY <1>5
    DEF Administration, InsertTenantWithSpecificID, DeleteTenant, InsertUser,
        DeleteDevice, DeleteAPIKey, DeleteHndrRules, DeleteStatus, sensors, history
  <2> QED BY <2>1, <1>1
<1>6. CASE UNCHANGED vars
  <2>1. UNCHANGED <<keys, inactive>>
    BY <1>6 DEF vars, sensors, history
  <2> QED BY <2>1, <1>1
<1> HIDE DEF Old
<1>7. ASSUME NEW r \in Runs,
             \/ Start(r) \/ TenantStep(r) \/ RulesStep(r) \/ Stop(r)
             \/ SensorStep(r) \/ MoveStep(r)
      PROVE  InactiveKnown'
  <2>1. CASE InsertKey(r)
    BY <1>2, <2>1
  <2>2. CASE ~ InsertKey(r)
    BY <1>1, <1>3, <1>4, <1>7, <2>2
  <2> QED BY <2>1, <2>2
<1>8. Next \/ UNCHANGED vars
  OBVIOUS
<1> QED BY <1>5, <1>6, <1>7, <1>8 DEF Next

\* Every step keeps what objects and tables say of one another.
LEMMA ObjectNext ==
  ASSUME Typed, SensorInv, InactiveKnown, ObjectInv, [Next]_vars
  PROVE  ObjectInv'
<1>1. ASSUME NEW r \in Runs, Start(r) \/ Stop(r) PROVE ObjectInv'
  <2>1. Elsewhere(r)
    BY <1>1, StartElsewhere, FinishElsewhere DEF Stop
  <2>2. UNCHANGED <<keys, configs, rules, stored, reused, retired, released, revoked,
                  inactive, former>>
    BY <1>1
    DEF Start, ProvisionTenant, ProvisionSensor, PublishRules, DbtoolInsertDevice,
        DbtoolInsertAPIKey, MoveTenant, Authenticate, Stop, Reads, sensors, content,
        objects, history
  <2>3. KeysKept
    BY <2>2, SameKeys
  <2> QED BY <2>1, <2>2, <2>3, ElsewhereOK, ObjectsKept
<1>2. CASE UNCHANGED vars
  <2>1. UNCHANGED <<keys, configs, rules, stored, job, reused, retired, released,
                  revoked, inactive, former>>
    BY <1>2 DEF vars, sensors, content, objects, history
  <2>2. KeysKept
    BY <2>1, SameKeys
  <2> QED BY <2>1, <2>2, ToolKept, ConfigsKept, RulesKept DEF ObjectInv
<1> QED
  BY <1>1, <1>2, AdministrationObjects, TenantStepObjects, SensorStepObjects,
     RulesStepObjects, MoveStepObjects DEF Next

(***************************************************************************)
(* The theorems                                                            *)
(***************************************************************************)

\* The four invariants together are inductive.
LEMMA RegistryInvariant == Spec => [](Typed /\ SensorInv /\ InactiveKnown /\ ObjectInv)
BY InitOK, NextOK, SensorInit, SensorNext, ObjectInit, InactiveNext, ObjectNext, PTL
DEF Spec

\* Whatever runs the provisioner's four calls interleave with, and however
\* often it is cut short and run again, the configuration that is stored lets
\* its sensor in, with the exceptions the property names.
THEOREM ConfigsAuthenticate == Spec => []ConfigAuthenticates
<1>1. ObjectInv => ConfigAuthenticates
  BY DEF ObjectInv
<1> QED BY <1>1, RegistryInvariant, PTL

\* A row that objupdater has written has its package, through any migrations.
THEOREM RulesHavePackage == Spec => []RulesStored
<1>1. ObjectInv => RulesStored
  BY DEF ObjectInv
<1> QED BY <1>1, RegistryInvariant, PTL

===============================================================================
