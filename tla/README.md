# Orion, verified: TLA+ models, model checks and proofs

Orion distributes an intrusion detection system. A server (PostgreSQL, MinIO,
an API server and nginx in containers) holds the software, the rules and the
threat intelligence; sensors at the tenants' sites poll it, install what it
offers and report back; operators publish packages and register tenants and
sensors with command line tools; users of a tenant look at their sensors in a
web UI. This directory models the parts of it that keep state, checks them
with TLC and proves the main results with TLAPS.

Run `tlc -config X.cfg MCModule` for a run of the table below and
`tlapm XProofs.tla` for the proofs.

## 1. The system

| component | source | state it keeps | operations | talks to |
|---|---|---|---|---|
| Sensor updater | `src/updater` | two deployment folders, the link to the one in use, `hndr-config.json`, the update lock | poll, download, install software, install rules, report | API server (HTTPS), nginx (download), supervisord |
| Supervision of a sensor | `src/config/supervisor`, `src/config/scripts/init-sensor.sh` | what `hndr` and `updater` run | start at boot, restart on exit | - |
| UI authentication | `src/apis/handlers_auth.go`, `middleware.go` | `users`, `refresh_tokens`, `login_audit_log`; JWTs held by clients | login, refresh, logout, check of a JWT | PostgreSQL |
| UI user management | `src/apis/handlers_users.go`, `handlers_resources.go` | `users` | create, delete, reset password; read-only listings | PostgreSQL |
| User operations of dbtool | `src/db/dbtool.go` | `users` | insert, delete, deactivate, reset password | PostgreSQL |
| objupdater | `src/objupdater` | MinIO buckets, `hndr_sw`, `hndr_rules`, `threatintel` | publish a package | MinIO, PostgreSQL |
| Sensor requests | `src/apis/handlers_network_agents.go`, `src/nginx` | none of their own | authenticate, manifest, download | PostgreSQL, MinIO |
| Status reporting | `InsertVersions`, `InsertStatus`, `handleListStatus` | `version`, `status` | report versions, report outcomes, list | PostgreSQL |
| Registry | `src/apis/dbutil.go`, `src/db/schema_pg_v3.sql` | `tenants`, `devices`, `api_keys`, the id sequences | get-or-insert and delete of each | PostgreSQL |
| Provisioner | `src/provisioner`, `src/utils/add-new-tenant-sensor.sh` | the registry, configuration objects | provision a tenant, a sensor | PostgreSQL, MinIO |
| Tenant migration | `src/db/move-tenant.sh` | the registry, rules objects | move a tenant to another environment | PostgreSQL, MinIO |
| Schema migrations | `src/db/migrate_*.sh` | the schema | run once, by hand | PostgreSQL |
| Connectivity indicator | `src/common/liveness.go` | none: a function of `version.updated_at` | shown by `handleListStatus` | - |
| Build, release, deployment | `src/utils`, scripts | none of their own | - | - |

How they interact: objupdater writes an object and then the row that announces
it. A sensor posts its versions and gets a manifest made from the rows; it
downloads the objects through nginx, which asks the API server for permission
and passes the request to MinIO; it verifies the digest, installs, records what
it has in `hndr-config.json` and posts a status. Nothing ties these calls
together but the order they are made in: there is no transaction around the
statements of a handler or of a tool, and none over PostgreSQL and MinIO.

What is hard in it:

* **interruption of an update** at any of some fifteen calls on the sensor's disk
  and service, with no clean-up at the next start;
* **statements of concurrent requests** between two statements of a handler that
  goes on with the row it read first;
* **two stores** written in turn by tools that may overlap or be cut short;
* **state that is trusted for a while**: a manifest, a JWT, a row, a recorded
  version;
* **time that is measured from another moment than the reader thinks**: the next
  poll is an interval after the last one *returned*.

What makes each component correct:

* *Updater*: an update is one switch to a later release and one record of it,
  however many calls it takes; the linked folder is never half written; the service
  runs the linked folder's software; what is recorded and reported is what is
  installed; an interrupted update is made good by a later one.
* *Authentication*: a bound on guesses; a lockout lasts; sign-out takes hold; a
  token has a user; a sign-in is audited.
* *Distribution*: only what was announced is installed; no sensor goes back; a row
  has its object; every sensor gets the release chosen for it.
* *Registry, provisioner, migration*: one tenant per name, one id per tenant and
  environment; a repeated provisioning completes the first; a moved tenant keeps
  its sensors and its users.
* *Reports*: the server shows what the sensor last said, and its versions catch
  up with the sensor's.
* *Connectivity*: a healthy sensor is green; one that is down is not green after 20
  minutes and ends up red.

## 2. The modules

| module | what it is |
|---|---|
| `Deployment` | abstract specification: what the updater promises of the software in use and on record |
| `Updater` | the sensor: `CheckUpdates`, `UpateSoftwareNow` and `UpateRulesNow` call by call, with supervisord, kills and reboots; implements `Deployment` |
| `UpdaterProofs` | type correctness, three deployment invariants, the refinement, and the truth of the reported successes |
| `UserAuth` | UI users: login with lockout, tokens, the handlers behind a JWT, and dbtool |
| `UserAuthProofs` | its type correctness, tokens and their users, audited sign-ins, the bound on guesses |
| `Rollout` | abstract specification: what the distribution of packages promises |
| `Distribution` | objupdater, the three tables of packages, MinIO, `handleUpdates` and the polling sensor; implements `Rollout` |
| `DistributionProofs` | its invariants, and the refinement |
| `Registry` | tenants, devices, API keys: the get-or-insert functions, dbtool, the provisioner, reports, rules packages and `move-tenant.sh` |
| `RegistryProofs` | its type correctness: foreign keys, id blocks, what each run has in hand |
| `RegistrySensorProofs` | one tenant per sensor; how many devices of one name and keys of one device there may be |
| `RegistryObjectProofs` | the stored configurations and packages agree with the tables |
| `Reporting` | the rows of `version` and `status`: handlers that overlap, the sensor that posts, dbtool, and the page that reads both |
| `ReportingProofs` | its type correctness, the status row of a sensor, the consistency of the page |
| `Connectivity` | `DeviceLiveness` against the loop of the updater, minute by minute |
| `ConnectivityProofs` | when a sensor is green, when it is not red, and when it is not green |
| `MCUpdater`, `MCUserAuth`, `MCDistribution`, `MCRegistry`, `MCReporting`, `MCConnectivity` | the constants of the instances TLC checks |

### Updater

One action is one call that changes, or decides on, persistent state: `os.Stat`
and `os.Create` of the lock, the cleaning, the extraction, `supervisorctl stop`,
`os.Remove` and `os.Symlink` of the link, the start or restart,
`LoadJSONConfig`, and the two halves of `SaveJSONConfig` (`Truncate` is its
`os.Create`, `Encode` its write). Each has, where the Go call has an error
return, an alternative that consumes one unit of `budget` and leaves through
`Unlock`, which is the deferred `RemoveUpdateLock`. `Crash` kills the process
between two calls, `Reboot` the sensor, `HndrExits` is the service that exits
and is restarted by supervisord.

A release is a natural number in the order of publication; `Torn` is content that
is not, or only partly, there. A folder is the software it holds, the rules it
holds, and whether `suricata.yaml` is there, which decides whether
`UpateSoftwareNow` starts the service. `Corrupt` is a `hndr-config.json` that
does not decode. Two things of the code are easy to miss and are kept: the
deferred removal of the lock is registered *before* the lock is looked at, and
a failed creation of the lock is read as "no update in progress". Threat
intelligence is downloaded, reported as a success and never recorded, because
`UpateThreatIntelNow` returns at once. `Manifest` reduces the server to the
newest release of each kind; `Distribution` has the server.

`Deployment` says what all of this comes to for the software: three variables,
the releases published, the one in use, the one on record. `Switch` goes to a later
release, `Record` writes down the release in use; there are two ways to lose either
for good, and nothing is switched to afterwards. The mapping reads the link and
the file *through* the two moments in which they are not there: while a process is
at `symlink`, the software in use is that of the folder it has just unlinked; while
one is at `encode`, the record is the one it loaded. A kill at such a moment, and
nothing else, is `LoseSoftware` or `LoseRecord`.

### UserAuth

A handler is a process that issues one SQL statement a step. The label of a
request is the statement it is about to issue, so between any two labels every
other request, dbtool and time may act. The checks a handler makes on the row
it read are made in the step that read it (`LoginReads` is `GetUserByEmail`,
`is_active`, `lockout_until` and bcrypt). A request that is refused before it
writes is no step. `guesses` and `fresh` are history variables: wrong passwords
compared since the lockout last ended, and "a reset has ended and no failure was
counted since". `attempts` stops at the threshold: above it every failure locks,
so the number does not matter.

The model keeps that `RecordFailedAttempt`, `ClearLockout` and the audit log have
their errors ignored, that `ClearLockout` is unconditional, that the lockout's
expiry leaves the counter at the threshold, that a JWT is trusted without a
look at the row, and that dbtool's `reset-user-password` is `ResetUserPassword`
alone. `OtherAdmin` is an administrator of whom only the JWT matters: it can
delete the users and reset their passwords.

### Distribution and Rollout

There are three kinds of packages, and a table and a bucket for each; a row of
`hndr_rules` and its object belong to a tenant. A *channel* is the software, the
threat intelligence, or the rules of one tenant: `table[c]` is the sequence of its
rows by id, so that "the newest row" is the last one and a republished version keeps
its id, as in the tables; a deleted row is `Nothing`. `bucket[c]` has the object at
the path of each version, which every upload overwrites.

`Publishers` are runs of objupdater (upload, metadata, `SELECT`, then `INSERT` or
`UPDATE`) or of dbtool's inserts (the row alone). The path of a rules object takes
the tenant from the command line and the *name of the file* (`main.go:119-121`), while
the manifest composes its URL from the row's tenant alone: a file named after another tenant is
stored where no manifest points, and the run goes on to its row. `unserved` has the
releases listed without an object that a manifest names, for either reason.

A poll is a request of reads, one a step: `InsertVersions` (one step here;
`Reporting` takes it apart), the device's row, the row of each kind in turn. One that is missing
is a 404 for the whole manifest. The sensor then takes the offered items in order,
each with its download (the object as it is *then*) and the check of its digest; an
item that fails is skipped. `isUpdateNeeded` is the code's: no version at all, a newer
version, or the same version with another digest. Digests are the contents they were
computed from. Threat intelligence is downloaded at every poll and never recorded.
The installation is one step, `VerifyAndInstall`: that it may be is what `Updater`
shows with `Deployment`, whose `Switch` and `Record` it stands for.

`Rollout` has two variables: the releases `announced` on each channel and what each
sensor `holds` of each kind. `Install` takes a release announced on the channel that
`Feed` gives the sensor for the kind, not older than the one there.
`Distribution!ImplementsRollout` is `RolloutSpec` with `holds` mapped to the recorded
versions and `Feed` to software, threat intelligence and the sensor's tenant.

### Registry

Every run of a tool and every request of a sensor is one of `Runs`, with its next
SQL statement or object in `job[r].pc` and its locals beside it. `goal` is what
follows the shared functions: `GetOrInsertTenant` is the same three steps in
`provision-tenant`, `insert-tenant` and `provision-sensor`, and `ValidateDevice` the
same step before a key and before a report. `Start` has the arguments a tool can
be called with: ids that are there when it is called, and any names. `Stop` is a run
that is killed or a call that fails, a dry run, or an operator who says no.

What the schema does is part of the statements: the unique name and the range
trigger in `MayInsertTenant`, the foreign keys in `InsertDevice`, `InsertKey` and
`InsertReport`, the cascades in `DeleteTenant` and `DeleteDevice`. `status` and
`version` reference a tenant and no device, so their rows outlive their device;
`api_keys` references a tenant and a device and nothing relates the two: that
they agree is `OneTenantPerSensor`, a property and not a constraint. The sequence of
an environment is `next`; `insert-tenant -tenant-id` does not advance it.

The transaction of `move-tenant.sh` is one step because its first statement locks the
row of the tenant, which the insertion of any child row needs as well. Before it,
the script makes the list of the rules it will copy and draws the id (a dry run
draws it too, although docs/TENANT-MIGRATION-README.md:52 says that nothing is
changed); after it, it copies the metadata objects, not the packages.

Two of dbtool's deletions need a word. `DeleteHndrRules` is the deletion of a tenant's
last row of rules, whose objects stay; `delete-status` validates the device for the tenant it is
given, so the rows that outlive a device, or are another tenant's, cannot be deleted with it.

`retired`, `reused`, `released`, `revoked`, `inactive` and `former` are history variables:
tenant ids whose row is gone, those inserted again, device ids and keys whose row was
deleted, keys that dbtool inserted as inactive, and the ids a tenant had before its
migrations. They state the exceptions of the properties, which are the code's:

* a tenant's id that is used again (`reused`) lets a run that was under way insert
  what it had checked for the tenant that had the id before;
* a device's id that is registered again with `-device-id` (`released`) finds the
  report rows of the device before it; when they are another tenant's, it can
  neither insert nor update its own;
* a migration leaves `sensor-config.json` and the packages under the old id; `RulesStored`
  accepts a package there only for the tenant that had that id (`former`);
* a key that was inserted as inactive (`inactive`) is one that `GetOrInsertAPIKey` returns
  like any other (`dbutil.go:557`), while `authenticate` refuses it: `provision-sensor`
  reports success and stores a configuration that lets nobody in.

Two more things of the code are kept: `GetOrInsertAPIKey` looks a key up by the device alone;
objupdater calls
`ValidateTenant` before it uploads and ignores that the tenant is not there.

### Reporting

`call` has the handlers at work: the sensor and the table of the report, the next of
its three statements (`ValidateDevice`, `SELECT`, `INSERT` or `UPDATE`) and the row the
`SELECT` gave. `open` says whether the client still waits: the HTTP client gives up after
`api_server_timeout`, and the handler goes on without it, with the row it read. A
sensor is at one step of `CheckUpdates`: it posts its versions and waits for the
manifest, installs the items of the offer, posts the outcome. The merge is the code's:
a column of the stored row is replaced where the report has a value. `recorded`
merges the reports that were answered; `overlap`, `misread` and `byhand` are the
three ways for the row to differ, which `LastReportedAlone` excepts: it is about a sensor whose
reports never overlapped, and says nothing of an update lost between two that did. `ListStatus` is
`handleListStatus`, with its two reads as steps, statuses before versions.

### Connectivity

Time is in minutes. `timer` is how long the updater has waited or polled, `age` how old
the sensor's row is. `Tick` lets a minute pass when no timer is due: a wait lasts
`PollInterval` and a poll at most `MaxWork`. The order of calls in main (poll, then
`time.After`) is what makes the row of a sensor that never misses up to
`PollInterval + 2 MaxWork` old.

A request for the manifest may outlive its client: when a poll is missed, or the updater
stops in the middle of one, the handler may go on (`Abandon`), and later it writes the row
or fails (`RecordLate`), however late. `late` counts these handlers. While the updater is
down, `timer` is the time since neither it nor such a handler was there: nothing bounds
from the updater's end alone how young the row can be.

## 3. The runs

| run | shows | bounds | states |
|---|---|---|---|
| `Updater` | `TypeOK`, `ActiveSoftwareWhole`, `RunningIsActive`, `RecordedSoftwareIsActive`, `SuccessIsDeployed`, `ImplementsDeployment` with failures anywhere, and `Converges` | 1 process, 3 software and 2 rules releases, 3 failures | 435 000 |
| `UpdaterTwo` | `LockCoversUpdate` is violated | 2 processes, 1 release, no failure | |
| `UpdaterRules` | `RecordedRulesInUse` is violated | 2 releases, no failure | |
| `UpdaterWedge` | `NeverWedges` is violated | 1 release, 1 failure | |
| `UserAuth` | `TypeOK`, `TokensHaveUsers`, `BoundedGuesses`, `SignInsAudited`, `SignOutTakesHold` | 1 user and another administrator, 2 requests, threshold 2, 1 failure | 215 000 |
| `UserAuthLockout` | `LockoutLasts` is violated | 1 user, 2 requests, threshold 3 | |
| `UserAuthReset` | `ResetUnlocks` is violated | 1 user, 1 request, threshold 3 | |
| `Distribution` | `TypeOK`, `ListedIsStored`, `ReportedIsInstalled`, `ImplementsRollout`, `EventuallyServed` | 1 sensor, 2 publishers, 3 kinds, 2 versions, 2 contents, channels empty or with a first release, 2 operations, 1 failure | 371 000 |
| `Registry` | `TypeOK`, `OneTenantPerSensor`, `ConfigAuthenticates`, `DuplicatesBounded`, `RulesStored` | 2 runs, 2 tenant names, 1 device name, 2 environments of 2 ids, 1 device id, 2 keys, 4 operations | 1 536 000 |
| `RegistryMove` | `MoveKeepsUsers` is violated | 1 run, 1 tenant name, 4 operations | |
| `Reporting` | `TypeOK`, `LastReportedAlone`, `ListedHasPolled`, `VersionsCatchUp` | 1 sensor, 2 handlers, 1 release of each kind, 1 operation of dbtool, 1 failure | 318 000 |
| `Connectivity` | `TypeOK`, `NominalIsGreen`, `OneMissIsNotRed`, `DownIsNotGreen`, `DownTurnsRed`, `UpTurnsGreen` | 1 sensor, interval 10, polls of up to 3 minutes, 4 missed polls or stops | 37 000 |

**Why the bounds are enough.** *Updater*: three releases after the bundled one
take the link from folder one to two, back, and over again, so that every folder
is reused while the other is linked; three failures allow a failure, one in the
recovery from it, and one after. *UserAuth*: two requests are what a race needs;
the smaller threshold only shortens the way to a lockout, and the two violations
use the code's own 3. What a second user does to the first is what another
administrator can do.
*Distribution*: two versions and two contents give newer, older, rebuilt and
identical packages; two runs are an overlap; channels that start empty or with a first
release let two operations be a publication of each of two kinds, a rebuild beside the
first run, or a publication and a deletion or pinning; sensors share no state but the
tables they only read, so one is enough, and so is one tenant, whose rules a file
named after another tenant misses. *Registry*: two runs are an overlap; four operations
are a provisioning, a second run beside it, and two of deletion, migration or
insertion by hand, which is what it takes to use an id of a tenant twice; two
ids per block let a sequence run out; two keys are what a race on one device
leaves. With one device id, two devices of one name do not arise together:
`DuplicatesBounded` counts the run that is about to insert the second. *Reporting*: two
handlers are what one client that gave up leaves behind; one failure is its timeout or a
statement's, and one operation of dbtool is one report the sensor did not make.
*Connectivity*: the thresholds and the interval are the code's and the template's; three minutes
are the longest polls with which one that is missed is not red, so the bound of
`OneMissIsNotRed` is met exactly; two missed polls or stops take a sensor to red, and four
leave several late handlers to one that is down again. Sensors share nothing but time, so one
is enough. The theorems have no such bounds.

**Bounds that are not in the code**: `MaxRelease`, `MaxFaults`, `MaxChanges`,
`MaxOps`, `MaxEdits`, `DeviceIds`, `ApiKeys`, the ages above the last threshold and the
times down above the first in `Connectivity`, and the counter's cap in `UserAuth`. Runs that check deadlock: `Distribution`
and `Reporting`, where the sensor polls for ever, and `Connectivity`, where time
passes. `Updater` stops when everything is installed and
`UserAuth` when every user is deleted, `Registry` when no operation is left: those
switch the check off.

**Fairness.** `Updater!FairSpec` is weak fairness of `CheckUpdates` of each process:
main polls in an endless loop and supervisord restarts it (`autorestart=true`).
`Distribution!FairSpec` is weak fairness of each poll, for the same reason, and of
each started run of objupdater, a straight-line program. `UserAuth!FairSpec` is
weak fairness of the next statement of a request in flight, which the Go runtime
schedules, and of the expiry of an access JWT, which is time. `Reporting!FairSpec` is
the same of the sensor's loop and of the handlers, which run to their end whether or
not a client waits. `Connectivity!FairSpec` is that time passes and an updater that runs goes round
its loop; nothing starts one that is down, and a handler nobody waits for may hang. Publications,
deletions, requests, failures and exits of the service are never assumed.

`Converges` and `EventuallyServed` name their exceptions, which are the code's:
a sensor that is wedged (finding 3), a server without a row of some kind (404 for
the whole manifest), a row whose object is another run's or was never uploaded,
no row for the pinned version. `EventuallyServed` is about software and rules: threat
intelligence is never recorded, and the property shows that its download at every poll
holds up neither.

## 4. Findings

1. **A skipped update deletes the other update's lock** (`UpdaterTwo`,
   `updater.go:308`). `defer RemoveUpdateLock` runs on the return for "update in
   progress" too. One supervised process never meets this; one started by hand
   next to it does. The side effect is useful: it is what makes a lock left by a
   killed updater go away at the next poll (`Converges` fails without it).
2. **Rules recorded but not in use** (`UpdaterRules`, `updater.go:400`). A software
   update switches to the folder without the recorded rules; the server does not
   offer them again.
3. **Wedged by one kill** (`UpdaterWedge`, `updater.go:161`, `config.go:41`). Between
   removing the link and making it, or between truncating the configuration and
   writing it, an interruption leaves a sensor that fails every later update.
4. **A lockout lifted by a login that began before it** (`UserAuthLockout`,
   `handlers_auth.go:161`).
5. **A password reset with dbtool leaves the account locked** (`UserAuthReset`,
   `dbtool.go:682`).
6. **A migration loses the users of the tenant** (`RegistryMove`,
   `move-tenant.sh:398`). `users` references `tenants` with `ON DELETE CASCADE` and is not
   among the tables that are re-pointed.

Observations that no run refutes, met while modelling:

* A threat intelligence package is downloaded at every poll, because
  `UpateThreatIntelNow` records nothing (`updater.go:495`).
* objupdater ignores what `ValidateTenant` finds (`main.go:270`), and stores a rules file
  named after another tenant where no manifest looks for it (`main.go:119`, against
  `DownloadURLFormatRules`); it is listed, and every sensor of the tenant gets a 404 at the download.
* Of two reports of a sensor in flight, which a client that timed out leaves behind, an
  older one may win (`dbutil.go:919`): `LastReported`, the property without the
  exceptions of `LastReportedAlone`, fails. The versions catch up at the next poll; a
  status is not sent again.
* docs/hndr-api.yaml:632-633 says that a sensor is yellow for less than 60 minutes and red
  from 60; `liveness.go:28`, its comment (`:8-9`) and its tests say 30. The model has the code's 30.
  `OneMissIsNotRed` and `DownTurnsRed` would hold with 60 as well, and the other properties
  are about the first threshold, on which all agree. updater/config/updater-config.json:15 polls every 60 minutes, with which a
  healthy sensor would be red most of the time; the provisioner's template has 10.
* docs/hndr-api.yaml:252-253 promises the list "for every device in the tenant"; `handleListStatus` lists
  the rows of `status`, so that a device which polls and has had no update is not on it. The
  same page says "FAILURE" where the sensor sends "FAILED".
* A password reset leaves the user's refresh tokens valid (`handlers_users.go:150`).

## 5. What is proved

For every value of the constants, under the modules' named assumptions (bounds
are naturals, versions positive naturals, requests and runs finite sets, the model values
distinct from the data).

**UpdaterProofs.** `TypeCorrect` for any set of processes. `ActiveWhole`,
`RunsActive`, `RecordsActive`: the linked software is whole, the running service
runs it, and the recorded release is not newer, for any number of releases and
failures, *given one updater process on the sensor* (`SoleUpdater`, which is how
supervisord runs it; `UpdaterTwo` shows why it is needed: two processes clean and
link the same folder). None of the three is inductive. `IInv` adds `InstallInv`,
what a process has established when it reaches each step: from the cleaning to
the removal of the link its target is the folder *not* linked; from the end of
the extraction the target holds the offered release; from the stop to the start
the service is down; after the link is made it names the target; and the offer is
never older than the recorded release. The step theorem has one case per action.
For the actions of one process the sole-updater assumption says there is no other
process to disturb; for `Crash` and `Reboot` every `InstallInv` becomes vacuous
because the process is back at `idle`.

`Deploys: SoleUpdater => (Spec => ImplementsDeployment)` needs `OfferInv` beside it: no folder holds
a release that was not published or is newer than the offer under way; until it is
recorded, the offer is newer than the record; what is about to be written back is what
was loaded; and the folder just unlinked is whole. `Views` evaluates the two mapped
variables for a sole updater. Then `Symlink` is `Switch` (or `LoseSoftware`, when it fails),
`Encode` is `Record` for software, invisible for rules, and `LoseRecord` when it fails; `Unlink` and
`Truncate` are invisible, because the mapping looks through them; a kill or a reboot at
`symlink` or `encode` loses what was being moved or rewritten; and all the other
steps touch neither the link, nor the file, nor the linked software.

`SuccessDeployed: SoleUpdater => (Spec => []SuccessIsDeployed)` adds `SuccessInv` to both.
The kinds are dealt with in order, so that when rules succeed the software is behind
them (`DoneInv`); what succeeded is in the linked folder, and nothing touches that
part of it until the next poll (`InUseInv`); what was loaded of the other kind is
written back, so that its record survives the second rewriting (`RecordInv`, which
rests on `OfferInv`); and the service was restarted after the new rules were laid
down (`NewRulesInv`). A service that exits in between comes back with what the
linked folder holds, which is the offered release already.

**UserAuthProofs.** For any users, any finite set of requests in flight, any positive
threshold and any number of failing statements.

* `TypeCorrect`: `TypeOK` is inductive once a request at a statement is known to have a
  user, which is part of it.
* `TokensOfUsers: Spec => []TokensHaveUsers` follows from types alone: every statement
  that deletes a row takes the tokens with it (`DeleteRow`, the cascade), and
  `InsertRefreshToken` for a user that is gone fails on the foreign key.
* `SignedInAudited: Spec => []SignInsAudited`. `AuditInv` adds that a request at a statement
  *after* the audit row (issuing a token, refreshing one, signing a JWT) is one of a user
  that has been audited; a refresh is covered because the token it found was issued
  by an audited login. It holds as long as no statement has failed, and a failure is
  never taken back (`FailuresStay`).
* `GuessesBounded: Spec => []BoundedGuesses`. The bound says nothing of how the guesses
  came about, so it is not inductive. `GuessesInv` accounts for them, of every user: while
  the account is not locked, the guesses are at most those *counted* in
  `failed_login_attempts`, those of requests *about to be counted* (`Guessing`: between
  bcrypt and `RecordFailedAttempt`), and those *lost* to failures, a whole set of
  requests for each one, because a restart may take all of them; and always at most the
  threshold less one, the number of requests and what was lost. A guess moves a
  request into `Guessing`; a count moves it from there into the counter, or
  locks; a restart moves all of `Guessing` into what was lost. A login that reads the row
  while it is not locked finds the counter below the threshold or just unlocked, which
  is where the second half comes from.

**DistributionProofs.** `TypeCorrect`, `ListedStored`, `ReportedInstalled` and
`Refines: Spec => ImplementsRollout`, for any sensors, tenants, overlapping runs,
versions and contents. The inductive invariant says, of every channel: the rows were
all announced; a run that has reached the statement has its object in the bucket,
unless its release is `unserved`; every offered item that is left was announced on the channel
the sensor follows for its kind and is not older than what the sensor has (only the
sensor's own poll changes that, and installing one kind leaves the items of the others
alone); the reported version of each kind is at most the installed one. Given it,
`VerifyAndInstall` maps to `Install` (the verified content *is* the announced one) or,
for threat intelligence, to a stutter, `InsertRow` and `UpdateRow` to `Announce` or a
stutter, and everything else to a stutter.

**ConnectivityProofs.** `TypeCorrect`, for any sensors, interval and lengths of polls.
`GreenWhenNominal` and `NotRedAfterOneMiss` state when the thresholds are right: the first if an interval and
two polls are less than 20 minutes, the second if two intervals and three polls are less than
30. `AgeBounded`, the inductive part, bounds the age of a row by the polls missed since, an interval and
a poll each, and by where the updater is in its loop. `NotGreenWhenDown` has no condition: a sensor whose
updater and last handler have been gone for the first threshold is not green, whatever the interval and the
polls, and however often it stopped before. `DownAged` is what makes it inductive: the row is no younger
than the moment the last of them was gone, and while a handler is left that moment is now.

**RegistryProofs.** `TypeCorrect`, for any runs that overlap, any names, environments
with disjoint blocks and any ids. Beside types, `TypeOK` says that every foreign key
names a row that is there. `JobOK` strengthens it: at each step the run has in hand
what that step uses (the steps from `ValidateTenant` on a tenant's id, from
`ValidateDevice` on a device's), so that what is inserted has its type whatever the
other runs did meanwhile; that the referenced row is still there is the guard
of the insertion, which is the database's check.

**RegistrySensorProofs.** `SensorHasOneTenant: Spec => []OneTenantPerSensor`. It is not
inductive: the key is inserted two statements after the check. `SensorInv` adds what
is left of the check (the device has the tenant in hand, or that tenant's id was
retired, or the device's row deleted), that device ids are unique, that an id of a
tenant that is in use and was retired before is `reused`, and that a report's device
is there or was deleted. At the insertion, the foreign key says that the tenant
is there; without a reused id it was never retired, so the device still has it. A
migration changes the tenant of the device, its keys and its reports at once.

`DuplicatesFew: Spec => []DuplicatesBounded`, for a finite set of runs
(`RunsAssumption`). `CountInv` counts, for every tenant's id in a block and every name, and for every
device's id, the rows that are there together with the runs that are about to insert one. A
run comes to the insertion only when it has found no row, and then at most all of the runs are there; an
insertion trades a run for a row; deletions and the other steps take away from both.
The migration is what needs more: it carries a tenant's devices to the new id, so that
its count must be the old tenant's. For that no run may already be waiting to insert under
the new id: `JobsInTenant` says that a run between `ValidateTenant` and the insertion has an id
that is in use or was retired, and an id that is neither, and not `reused`, has none waiting.
`MovedBounded` (no more rows after a move than before) rests on the library's theorem on
surjections, `FewerBounded` and `InsertedBounded` on those about subsets and single elements.

**RegistryObjectProofs.** `ConfigsAuthenticate` and `RulesHavePackage`. `ObjectInv` adds that
the key a run is about to store has a row that names the device and the tenant in
hand, under the same exceptions as the property, and that a run of objupdater that
has uploaded finds its package. The first rests on `SensorInv`: `GetOrInsertAPIKey`
looks a key up by its device alone, and that the key found is the tenant's in hand
is `OneTenantPerSensor`. That it is active rests on `InactiveKnown`: only dbtool inserts one that is not,
no statement changes the flag, and a migration moves the row as it is. For `RulesHavePackage` a
migration is the step that matters: the row goes to an id whose `former` has the old one and all
that the old one had, so the package that was found is found still.

**ReportingProofs.** For any sensors, any set of handlers at work, any releases and any
number of failures.

* `TypeCorrect`. `TypeOK` has one conjunct that is no type: at most one client waits for
  an answer to a sensor, and it is the step the sensor is at. It is proved in four
  parts (`RowsOK`, `StepsOK`, `CallsOK`, `ServedOK`), because an action of a sensor
  and one of a handler disturb different ones.
* `ReportsRecorded: Spec => []LastReportedAlone`. `FaithfulInv` adds, of every sensor whose reports
  never overlapped, that at most one report is at work, and, of one whose row was neither
  misread nor changed by hand, that a handler about to `UPDATE` has in hand the row *as it
  is now*, and one about to `INSERT` finds none. So a report that arrives after its client
  gave up writes on top of what the last one wrote; it takes a second one between its `SELECT`
  and its write to undo anything.
* `PageConsistent: Spec => []ListedHasPolled`. `PolledInv` follows a report back to the poll it came
  from: a handler of a poll that is past its write has left a row of `version`; a
  sensor that installs or reports has had the answer of such a handler; so a status
  row, or a report at work, has a row of `version` beside it, unless dbtool wrote it.
  Rows of `version` are never deleted, so the page, which reads the statuses
  first, still finds them when it reads the versions.

Every safety invariant that a run checks is now a theorem, and so are the two refinements.
Left to TLC: liveness (`Converges`, `EventuallyServed`, `SignOutTakesHold`, `DownTurnsRed`,
`UpTurnsGreen`, `VersionsCatchUp`), since TLAPS has no rule for fairness and ENABLED; and the
six violations, which are counterexamples. There is no recursive operator in the
models, and no theorem by induction over data.

## 6. What is not modelled

* In `Registry`, dbtool's `insert-hndr-rules` (it is in `Distribution`; a row without its
  package is why `RulesStored` is about the rows objupdater writes) and the `location` of
  `update-device`, which nothing reads back into a decision.
* Which files a package holds. `CleanupFolder` removes an entry literally named
  `*`, so files of an older release survive, and a symbolic link that is there
  already fails the extraction: both are below a folder that is whole or torn.
* Authentication of a sensor on download, TLS, nginx: the decision of
  `Registry!Authenticate` on a row, with no state of its own.
* The read-only listings of `handlers_resources.go` other than the status page: one
  `SELECT` each, which changes nothing.
* Schema migrations (run once on a stopped installation), packaging and
  deployment scripts (no state of their own), formats of requests and logs.

## 7. Plan

In order of what matters to the system; done unless said otherwise.

1. `Deployment`, `Updater`, `UpdaterProofs`.
2. `UserAuth`, `UserAuthProofs`.
3. `Rollout`, `Distribution`, `DistributionProofs`.
4. `Registry`, `RegistryProofs`, `RegistrySensorProofs`, `RegistryObjectProofs`.
5. `Reporting`, `ReportingProofs`.
6. `Connectivity`, `ConnectivityProofs`.
