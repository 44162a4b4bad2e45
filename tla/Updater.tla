------------------------------- MODULE Updater -------------------------------
(***************************************************************************)
(* The sensor updater (src/updater): the daemon that polls the API server  *)
(* for a manifest and installs what it offers.                             *)
(*                                                                         *)
(* One sensor.  Its disk holds two deployment folders, the symbolic link   *)
(* that names the one in use, hndr-config.json (the releases the sensor    *)
(* says it has) and the update lock.  supervisord runs the IDS service     *)
(* `hndr' out of the linked folder.  Procs are the updater processes on    *)
(* the sensor: the supervised daemon and, possibly, one started by hand.   *)
(*                                                                         *)
(* A release (a version and its digest) is a natural number that grows     *)
(* with every publication, 0 being what the installer laid down.  Every    *)
(* call that can fail is an alternative that consumes one unit of `budget';*)
(* so do a killed process and a rebooted sensor.                           *)
(***************************************************************************)
EXTENDS Integers

CONSTANTS
  Procs,        \* updater processes of the sensor
  MaxRelease,   \* [Kinds -> Nat]: bound on the releases published of a kind
  MaxFaults,    \* bound on failed calls, kills and reboots in a behaviour
  Corrupt       \* content of a hndr-config.json that does not decode

Kinds   == {"sw", "rules", "ti"}
Folders == {"one", "two"}
NoLink  == "none"
Torn    == -1
Release == Nat \cup {Torn}

ASSUME ReleaseAssumption == MaxRelease \in [Kinds -> Nat]
ASSUME FaultAssumption   == MaxFaults \in Nat
ASSUME CorruptAssumption == Corrupt \notin [Kinds -> Nat]

VARIABLES
  lock,     \* does the update_lock file exist
  folder,   \* what each deployment folder holds
  link,     \* the folder hndr_symlink names, or NoLink
  cfg,      \* hndr-config.json
  svc,      \* the hndr service and the content it was started from
  latest,   \* what the server's manifest offers of each kind; 0: no row
  budget,   \* failures that may still happen
  pc,       \* where each updater process is in CheckUpdates
  offer,    \* updates: the releases the manifest offered it
  todo,     \* the offered kinds it has not dealt with
  status,   \* upInfo: what it will report of each kind
  good,     \* is the downloaded content the one whose digest was announced
  target,   \* folderToDeploy
  cache     \* hndrCfg: the configuration as Upate*Now loaded it

disk   == <<folder, link>>
locals == <<good, target, cache>>
plan   == <<offer, todo>>
vars   == <<lock, folder, link, cfg, svc, latest, budget, pc, offer, todo,
            status, good, target, cache>>

Zero      == [k \in Kinds |-> 0]
\* "unset" is the empty status of a kind the manifest did not offer.
Statuses  == {"unset", "FAILED", "SUCCESS"}
NoStatus  == [k \in Kinds |-> "unset"]
HndrDown  == [up |-> FALSE, sw |-> Torn, rules |-> Torn]
Whole(r)  == r >= 0

\* init-sensor.sh: folder one linked, holding the bundled suricata stub and no
\* rules, folder two empty.  The service may or may not have come up yet.
Init ==
  /\ lock   = FALSE
  /\ folder = [f \in Folders |->
                 [sw |-> IF f = "one" THEN 0 ELSE Torn, rules |-> 0, yaml |-> FALSE]]
  /\ link   = "one"
  /\ cfg    = Zero
  /\ svc    \in {HndrDown, [up |-> TRUE, sw |-> 0, rules |-> 0]}
  /\ latest = Zero
  /\ budget = MaxFaults
  /\ pc     = [p \in Procs |-> "idle"]
  /\ offer  = [p \in Procs |-> Zero]
  /\ todo   = [p \in Procs |-> {}]
  /\ status = [p \in Procs |-> NoStatus]
  /\ good   = [p \in Procs |-> FALSE]
  /\ target = [p \in Procs |-> "one"]
  /\ cache  = [p \in Procs |-> Zero]

(***************************************************************************)
(* Helpers                                                                 *)
(***************************************************************************)

Fault   == budget > 0 /\ budget' = budget - 1
NoFault == UNCHANGED budget

Goto(p, l) == pc' = [pc EXCEPT ![p] = l]

\* Mutants of OtherFolder: the empty path of a foreign link is not refused, and
\* the software is deployed in place.
OtherFolderUnchecked(f) == NoLink
OtherFolderInPlace(f)   == f

\* GetFolderToDeploy: the folder that is not in use.
OtherFolder(f) == IF f = "one" THEN "two" ELSE "one"

\* CheckUpdates deals with software, then rules, then threat intelligence.
First(s) == IF "sw" \in s THEN "sw" ELSE IF "rules" \in s THEN "rules" ELSE "ti"
Kind(p)  == First(todo[p])

\* isUpdateNeeded, for releases numbered in the order they were published.
Manifest(installed) ==
  [k \in Kinds |-> IF latest[k] > installed[k] THEN latest[k] ELSE 0]

\* Can supervisord bring the service up?  The installer's stub needs no
\* suricata.yaml, a real suricata does.
CanRun ==
  /\ link # NoLink
  /\ Whole(folder[link].sw)
  /\ folder[link].yaml \/ folder[link].sw = 0

HndrFromLink == [up |-> TRUE, sw |-> folder[link].sw, rules |-> folder[link].rules]

\* The return of Upate*Now: its locals are gone, CheckUpdates goes on.
Return(p) ==
  /\ todo'   = [todo EXCEPT ![p] = @ \ {Kind(p)}]
  /\ pc'     = [pc EXCEPT ![p] = IF todo[p] = {Kind(p)} THEN "send" ELSE "download"]
  /\ good'   = [good EXCEPT ![p] = FALSE]
  /\ target' = [target EXCEPT ![p] = "one"]
  /\ cache'  = [cache EXCEPT ![p] = Zero]

\* The process is back at the top of its polling loop, or dead and restarted.
ToIdle(S) ==
  /\ pc'     = [p \in Procs |-> IF p \in S THEN "idle" ELSE pc[p]]
  /\ offer'  = [p \in Procs |-> IF p \in S THEN Zero ELSE offer[p]]
  /\ todo'   = [p \in Procs |-> IF p \in S THEN {} ELSE todo[p]]
  /\ status' = [p \in Procs |-> IF p \in S THEN NoStatus ELSE status[p]]
  /\ good'   = [p \in Procs |-> IF p \in S THEN FALSE ELSE good[p]]
  /\ target' = [p \in Procs |-> IF p \in S THEN "one" ELSE target[p]]
  /\ cache'  = [p \in Procs |-> IF p \in S THEN Zero ELSE cache[p]]

\* Mutant of Abort: the error is logged and the new version recorded.
AbortIgnored(p) == Fault /\ Goto(p, "load")

\* A call failed: return through the deferred RemoveUpdateLock.
Abort(p) == Fault /\ Goto(p, "unlock")

(***************************************************************************)
(* CheckUpdates                                                            *)
(***************************************************************************)

\* Authenticate, LoadJSONConfig and GetUpdateManifest.  Each failure returns
\* with nothing changed, and so does an empty manifest.  The server answers
\* 404 for the whole manifest while it has no row of one of the kinds.
Poll(p) ==
  /\ pc[p] = "idle"
  /\ cfg # Corrupt
  /\ \A k \in Kinds : latest[k] > 0
  /\ LET m == Manifest(cfg) IN
       /\ m # Zero
       /\ offer' = [offer EXCEPT ![p] = m]
       /\ todo'  = [todo EXCEPT ![p] = {k \in Kinds : m[k] > 0}]
  /\ Goto(p, "download")
  /\ NoFault
  /\ UNCHANGED <<lock, disk, cfg, svc, latest, status, locals>>

\* DownloadFile.  A truncated or replaced object is content whose digest is
\* not the announced one.  UpateThreatIntelNow installs nothing and returns
\* SUCCESS.
Download(p) ==
  /\ pc[p] = "download"
  /\ \/ /\ IF Kind(p) = "ti"
             THEN /\ NoFault /\ Return(p)
                  /\ status' = [status EXCEPT ![p]["ti"] = "SUCCESS"]
             ELSE /\ status' = [status EXCEPT ![p][Kind(p)] = "FAILED"]
                  /\ Goto(p, "stat")
                  /\ \/ NoFault /\ good' = [good EXCEPT ![p] = TRUE]
                     \/ Fault /\ good' = [good EXCEPT ![p] = FALSE]
                  /\ UNCHANGED <<todo, target, cache>>
     \/ /\ Fault
        /\ status' = [status EXCEPT ![p][Kind(p)] = "FAILED"]
        /\ Return(p)
  /\ UNCHANGED <<lock, disk, cfg, svc, latest, offer>>

\* SendStatus, whose failure is only logged; then the next poll interval.
Send(p) ==
  /\ pc[p] = "send"
  /\ NoFault \/ Fault
  /\ ToIdle({p})
  /\ UNCHANGED <<lock, disk, cfg, svc, latest>>

(***************************************************************************)
(* UpateSoftwareNow and UpateRulesNow                                      *)
(***************************************************************************)

\* Mutant of Stat: RemoveUpdateLock is deferred after the check.
StatKeepsLock(p) ==
  /\ pc[p] = "stat"
  /\ IF lock THEN Return(p) ELSE Goto(p, "create") /\ UNCHANGED <<todo, locals>>
  /\ NoFault
  /\ UNCHANGED <<lock, disk, cfg, svc, latest, offer, status>>

\* IsUpdateInProgress, its os.Stat.  When the lock is there the update is
\* skipped, and the RemoveUpdateLock deferred before the check removes it.
Stat(p) ==
  /\ pc[p] = "stat"
  /\ IF lock THEN lock' = FALSE /\ Return(p)
             ELSE Goto(p, "create") /\ UNCHANGED <<lock, todo, locals>>
  /\ NoFault
  /\ UNCHANGED <<disk, cfg, svc, latest, offer, status>>

\* IsUpdateInProgress, its os.Create.  A failed create returns an error that
\* is not nil, which the caller reads as "no update in progress".
Create(p) ==
  /\ pc[p] = "create"
  /\ \/ NoFault /\ lock' = TRUE
     \/ Fault /\ UNCHANGED lock
  /\ Goto(p, "prepare")
  /\ UNCHANGED <<disk, cfg, svc, latest, plan, status, locals>>

\* WriteToFile, VerifyFileHash, GetRealPath and GetFolderToDeploy: software
\* goes to the folder not in use, rules to the one in use.
Prepare(p) ==
  /\ pc[p] = "prepare"
  /\ \/ /\ good[p] /\ link # NoLink
        /\ target' = [target EXCEPT ![p] =
                        IF Kind(p) = "sw" THEN OtherFolder(link) ELSE link]
        /\ Goto(p, "clean") /\ NoFault
     \/ /\ ~good[p] \/ link = NoLink
        /\ Goto(p, "unlock") /\ NoFault /\ UNCHANGED target
     \/ Abort(p) /\ UNCHANGED target
  /\ UNCHANGED <<lock, disk, cfg, svc, latest, plan, status, good, cache>>

\* CleanupSoftwareFolder, or the cleanup of the rules, and the first entries
\* ExtractTarGz writes: from here until the last entry the folder's copy is
\* torn.  A rules package also lays down suricata.yaml, at some entry.
Clean(p) ==
  /\ pc[p] = "clean"
  /\ \/ /\ Kind(p) = "sw"
        /\ folder' = [folder EXCEPT ![target[p]].sw = Torn]
        /\ Goto(p, "extract") /\ NoFault
     \/ /\ Kind(p) = "rules"
        /\ \E y \in {folder[target[p]].yaml, TRUE} :
             folder' = [folder EXCEPT ![target[p]].rules = Torn, ![target[p]].yaml = y]
        /\ Goto(p, "extract") /\ NoFault
     \/ Abort(p) /\ UNCHANGED folder
  /\ UNCHANGED <<lock, link, cfg, svc, latest, plan, status, locals>>

\* ExtractTarGz up to the end of the archive.
Extract(p) ==
  /\ pc[p] = "extract"
  /\ \/ /\ Kind(p) = "sw"
        /\ folder' = [folder EXCEPT ![target[p]].sw = offer[p]["sw"]]
        /\ Goto(p, "stop") /\ NoFault
     \/ /\ Kind(p) = "rules"
        /\ folder' = [folder EXCEPT ![target[p]].rules = offer[p]["rules"],
                                    ![target[p]].yaml = TRUE]
        /\ Goto(p, "restart") /\ NoFault
     \/ Abort(p) /\ UNCHANGED folder
  /\ UNCHANGED <<lock, link, cfg, svc, latest, plan, status, locals>>

\* Mutant of Stop: the service is left running while the link moves.
StopForgotten(p) ==
  /\ pc[p] = "stop" /\ Goto(p, "unlink") /\ NoFault
  /\ UNCHANGED <<lock, disk, cfg, svc, latest, plan, status, locals>>

\* supervisorctl stop hndr.
Stop(p) ==
  /\ pc[p] = "stop"
  /\ \/ svc' = HndrDown /\ Goto(p, "unlink") /\ NoFault
     \/ Abort(p) /\ UNCHANGED svc
  /\ UNCHANGED <<lock, disk, cfg, latest, plan, status, locals>>

\* UnlinkAndLink, its os.Remove: fails when there is no link.
Unlink(p) ==
  /\ pc[p] = "unlink"
  /\ \/ link # NoLink /\ link' = NoLink /\ Goto(p, "symlink") /\ NoFault
     \/ link = NoLink /\ Goto(p, "unlock") /\ NoFault /\ UNCHANGED link
     \/ Abort(p) /\ UNCHANGED link
  /\ UNCHANGED <<lock, folder, cfg, svc, latest, plan, status, locals>>

\* UnlinkAndLink, its os.Symlink: fails when there is a link.
Symlink(p) ==
  /\ pc[p] = "symlink"
  /\ \/ link = NoLink /\ link' = target[p] /\ Goto(p, "start") /\ NoFault
     \/ link # NoLink /\ Goto(p, "unlock") /\ NoFault /\ UNCHANGED link
     \/ Abort(p) /\ UNCHANGED link
  /\ UNCHANGED <<lock, folder, cfg, svc, latest, plan, status, locals>>

\* FileExists(suricata.yaml) in the folder just linked; without it the service
\* is left stopped.  Otherwise supervisorctl start hndr.
Start(p) ==
  /\ pc[p] = "start"
  /\ \/ /\ ~folder[target[p]].yaml
        /\ Goto(p, "load") /\ NoFault /\ UNCHANGED svc
     \/ /\ folder[target[p]].yaml /\ CanRun
        /\ svc' = HndrFromLink /\ Goto(p, "load") /\ NoFault
     \/ /\ folder[target[p]].yaml /\ ~CanRun
        /\ Goto(p, "unlock") /\ NoFault /\ UNCHANGED svc
     \/ /\ folder[target[p]].yaml
        /\ Abort(p) /\ UNCHANGED svc
  /\ UNCHANGED <<lock, disk, cfg, latest, plan, status, locals>>

\* Mutant of Restart: the service goes on with the rules it was started with.
RestartForgotten(p) ==
  /\ pc[p] = "restart" /\ Goto(p, "load") /\ NoFault
  /\ UNCHANGED <<lock, disk, cfg, svc, latest, plan, status, locals>>

\* supervisorctl restart hndr, after new rules: a stop and a start.
Restart(p) ==
  /\ pc[p] = "restart"
  /\ \/ CanRun /\ svc' = HndrFromLink /\ Goto(p, "load") /\ NoFault
     \/ ~CanRun /\ svc' = HndrDown /\ Goto(p, "unlock") /\ NoFault
     \/ Abort(p) /\ svc' \in {svc, HndrDown}
  /\ UNCHANGED <<lock, disk, cfg, latest, plan, status, locals>>

\* LoadJSONConfig of hndr-config.json.
Load(p) ==
  /\ pc[p] = "load"
  /\ \/ cfg # Corrupt /\ cache' = [cache EXCEPT ![p] = cfg] /\ Goto(p, "truncate") /\ NoFault
     \/ cfg = Corrupt /\ Goto(p, "unlock") /\ NoFault /\ UNCHANGED cache
     \/ Abort(p) /\ UNCHANGED cache
  /\ UNCHANGED <<lock, disk, cfg, svc, latest, plan, status, good, target>>

\* SaveJSONConfig, its os.Create, which empties the file.
Truncate(p) ==
  /\ pc[p] = "truncate"
  /\ \/ cfg' = Corrupt /\ Goto(p, "encode") /\ NoFault
     \/ Abort(p) /\ UNCHANGED cfg
  /\ UNCHANGED <<lock, disk, svc, latest, plan, status, locals>>

\* Mutant of Encode: the configuration is written afresh, not as loaded.
EncodeAfresh(p) ==
  /\ pc[p] = "encode"
  /\ cfg' = [Zero EXCEPT ![Kind(p)] = offer[p][Kind(p)]]
  /\ status' = [status EXCEPT ![p][Kind(p)] = "SUCCESS"]
  /\ Goto(p, "unlock") /\ NoFault
  /\ UNCHANGED <<lock, disk, svc, latest, plan, locals>>

\* SaveJSONConfig, its Encode: the configuration as loaded, with the new
\* version and digest of this kind.
Encode(p) ==
  /\ pc[p] = "encode"
  /\ \/ /\ cfg' = [cache[p] EXCEPT ![Kind(p)] = offer[p][Kind(p)]]
        /\ status' = [status EXCEPT ![p][Kind(p)] = "SUCCESS"]
        /\ Goto(p, "unlock") /\ NoFault
     \/ Abort(p) /\ UNCHANGED <<cfg, status>>
  /\ UNCHANGED <<lock, disk, svc, latest, plan, locals>>

\* The deferred DeleteFile and RemoveUpdateLock, on every return.
Unlock(p) ==
  /\ pc[p] = "unlock"
  /\ lock' = FALSE
  /\ Return(p)
  /\ NoFault
  /\ UNCHANGED <<disk, cfg, svc, latest, offer, status>>

(***************************************************************************)
(* The environment                                                         *)
(***************************************************************************)

\* objupdater publishes a release of one kind.
Publish(k) ==
  /\ latest[k] < MaxRelease[k]
  /\ latest' = [latest EXCEPT ![k] = @ + 1]
  /\ NoFault
  /\ UNCHANGED <<lock, disk, cfg, svc, pc, plan, status, locals>>

\* The updater process is killed (supervisorctl stop sends SIGTERM, which
\* main does not trap) and restarted.
Crash(p) ==
  /\ pc[p] # "idle"
  /\ Fault
  /\ ToIdle({p})
  /\ UNCHANGED <<lock, disk, cfg, svc, latest>>

\* The sensor reboots: supervisord starts updater and hndr (autostart=true).
Reboot ==
  /\ Fault
  /\ ToIdle(Procs)
  /\ svc' = IF CanRun THEN HndrFromLink ELSE HndrDown
  /\ UNCHANGED <<lock, disk, cfg, latest>>

\* The service exits and supervisord restarts it from the link
\* (autorestart=true), or gives up on it.
HndrExits ==
  /\ svc.up
  /\ \/ CanRun /\ svc' = HndrFromLink /\ NoFault
     \/ Fault /\ svc' = HndrDown
  /\ UNCHANGED <<lock, disk, cfg, latest, pc, plan, status, locals>>

(***************************************************************************)
(* Specification                                                           *)
(***************************************************************************)

Update(p) ==
  \/ Stat(p)    \/ Create(p) \/ Prepare(p) \/ Clean(p) \/ Extract(p)
  \/ Stop(p)    \/ Unlink(p) \/ Symlink(p) \/ Start(p) \/ Restart(p)
  \/ Load(p)    \/ Truncate(p) \/ Encode(p) \/ Unlock(p)

CheckUpdates(p) == Poll(p) \/ Download(p) \/ Update(p) \/ Send(p)

Next ==
  \/ \E p \in Procs : CheckUpdates(p) \/ Crash(p)
  \/ \E k \in Kinds : Publish(k)
  \/ Reboot
  \/ HndrExits

Spec == Init /\ [][Next]_vars

\* main polls for ever and supervisord restarts it: a process that can take a
\* step of CheckUpdates takes one.  Nothing obliges releases to be published,
\* the service to exit, or failures to happen.
FairSpec == Spec /\ \A p \in Procs : WF_vars(CheckUpdates(p))

(***************************************************************************)
(* Properties                                                              *)
(***************************************************************************)

Labels == {"idle", "download", "stat", "create", "prepare", "clean", "extract",
           "stop", "unlink", "symlink", "start", "restart", "load", "truncate",
           "encode", "unlock", "send"}

\* An update is in progress: IsUpdateInProgress has let the process through
\* and its deferred RemoveUpdateLock has not run.
Updating(p) == pc[p] \notin {"idle", "download", "stat", "create", "send"}

\* The types of the updater's state.
TypeOK ==
  /\ lock \in BOOLEAN
  /\ folder \in [Folders -> [sw : Release, rules : Release, yaml : BOOLEAN]]
  /\ link \in Folders \cup {NoLink}
  /\ cfg \in [Kinds -> Nat] \cup {Corrupt}
  /\ svc \in [up : BOOLEAN, sw : Release, rules : Release]
  /\ latest \in [Kinds -> Nat]
  /\ budget \in Nat
  /\ pc \in [Procs -> Labels]
  /\ offer \in [Procs -> [Kinds -> Nat]]
  /\ todo \in [Procs -> SUBSET Kinds]
  /\ status \in [Procs -> [Kinds -> Statuses]]
  /\ good \in [Procs -> BOOLEAN]
  /\ target \in [Procs -> Folders]
  /\ cache \in [Procs -> [Kinds -> Nat]]

\* The link never names a folder whose software is half cleaned or half
\* extracted, whatever is killed, fails or reboots in the middle of an update:
\* what the two folders and the order of UpateSoftwareNow are for.
ActiveSoftwareWhole == link # NoLink => Whole(folder[link].sw)

\* While the service runs there is a link and the service is running the
\* software of the folder it names: it is stopped before the link moves, and
\* neither a crash nor a restart by supervisord runs anything else.
RunningIsActive == svc.up => link # NoLink /\ svc.sw = folder[link].sw

\* hndr-config.json never claims software newer than the linked folder holds:
\* the server would stop offering a release that was never switched to.
RecordedSoftwareIsActive ==
  cfg # Corrupt /\ link # NoLink => cfg["sw"] <= folder[link].sw

\* What a sole updater has established when it reaches each step of an update:
\* the strengthening that makes the three invariants above inductive.
Installing == {"stat", "create", "prepare", "clean", "extract", "stop", "unlink",
               "symlink", "start", "restart", "load", "truncate", "encode"}

InstallInv(p) ==
  /\ pc[p] \in Installing => Kind(p) \in {"sw", "rules"}
  /\ pc[p] \in {"stop", "unlink", "symlink", "start"} => Kind(p) = "sw"
  /\ pc[p] = "restart" => Kind(p) = "rules"
  /\ pc[p] \in {"clean", "extract", "stop", "unlink"} /\ Kind(p) = "sw" =>
       link # NoLink /\ target[p] = OtherFolder(link)
  /\ pc[p] \in {"stop", "unlink", "symlink", "start", "load", "truncate", "encode"}
     /\ Kind(p) = "sw" => folder[target[p]].sw = offer[p]["sw"]
  /\ pc[p] \in {"unlink", "symlink", "start"} => ~svc.up
  /\ pc[p] = "symlink" => link = NoLink
  /\ pc[p] \in {"start", "load", "truncate", "encode"} => link = target[p]
  /\ pc[p] \in {"clean", "extract", "restart"} /\ Kind(p) = "rules" => link = target[p]
  /\ pc[p] \in {"truncate", "encode"} /\ Kind(p) = "rules" =>
       cache[p]["sw"] <= folder[link].sw
  /\ "sw" \in todo[p] /\ cfg # Corrupt => cfg["sw"] <= offer[p]["sw"]

\* A "SUCCESS" the sensor is about to report is true: the release it was
\* offered is in the linked folder, recorded (unless the file is being
\* rewritten or has been lost), and what the service, if up, was started from.
SuccessIsDeployed ==
  \A p \in Procs :
    /\ status[p]["sw"] = "SUCCESS" =>
         /\ link # NoLink
         /\ folder[link].sw = offer[p]["sw"]
         /\ cfg # Corrupt => cfg["sw"] = offer[p]["sw"]
    /\ status[p]["rules"] = "SUCCESS" =>
         /\ link # NoLink
         /\ folder[link].rules = offer[p]["rules"]
         /\ cfg # Corrupt => cfg["rules"] = offer[p]["rules"]
         /\ svc.up => svc.rules = offer[p]["rules"]

\* The process that is between two calls of which the first has taken away what
\* the second puts there: the link, or the configuration.
Within(l)  == CHOOSE p \in Procs : pc[p] = l
Someone(l) == \E p \in Procs : pc[p] = l

\* The software in use, that of the folder the link named until the update in
\* progress removed it; and the recorded release, the one loaded before the file
\* was emptied.
ActiveSoftware ==
  IF link # NoLink THEN folder[link].sw
  ELSE IF Someone("symlink") THEN folder[OtherFolder(target[Within("symlink")])].sw
  ELSE Torn
RecordedSoftware ==
  IF cfg # Corrupt THEN cfg["sw"]
  ELSE IF Someone("encode") THEN cache[Within("encode")]["sw"]
  ELSE Torn

\* The abstract promise: the cleaning, the extraction, the two calls that move
\* the link and the two that rewrite hndr-config.json come to one switch and one
\* record, failures, kills and reboots in between included.
Promise ==
  INSTANCE Deployment WITH
    Lost <- Torn, published <- latest["sw"],
    active <- ActiveSoftware, recorded <- RecordedSoftware
ImplementsDeployment == Promise!DeploymentSpec

IInv ==
  /\ TypeOK /\ ActiveSoftwareWhole /\ RunningIsActive /\ RecordedSoftwareIsActive
  /\ \A p \in Procs : InstallInv(p)

\* An interrupted update has left the sensor without a link, or without a
\* configuration it can decode, and no process is about to put it back.
Wedged ==
  \/ link = NoLink /\ \A p \in Procs : pc[p] # "symlink"
  \/ cfg = Corrupt /\ \A p \in Procs : pc[p] # "encode"

\* The sensor has, and says it has, the releases the server offers.
UpToDate ==
  /\ cfg # Corrupt /\ cfg["sw"] = latest["sw"] /\ cfg["rules"] = latest["rules"]
  /\ link # NoLink /\ folder[link].sw = latest["sw"]

\* Once failures stop the sensor catches up and stays so, a lock left behind by
\* a killed update included, unless it is wedged or the server has no row of
\* some kind and answers 404 for all of them.
Converges == <>[](UpToDate \/ Wedged \/ \E k \in Kinds : latest[k] = 0)

\* updater/schema/updater-config.json:8 says of the lock: "File created to
\* indicate update in progress, deleted after update is done".
LockCoversUpdate == \A p \in Procs : Updating(p) => lock

\* core/updater.go:417 says "The rules must be deployed in the folder that is
\* currently in use": between two updates the folder in use holds the rules
\* hndr-config.json records.
RecordedRulesInUse ==
  (\A p \in Procs : pc[p] = "idle") /\ cfg # Corrupt /\ link # NoLink
    => folder[link].rules = cfg["rules"]

\* updater/README.md:3 says the service "runs infinitely until it is
\* interrupted by a signal.  It completes the task and exits on receiving the
\* signal": no interruption keeps it from ever updating again.
NeverWedges == []<>~Wedged
=============================================================================
