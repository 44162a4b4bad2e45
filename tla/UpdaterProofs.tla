---------------------------- MODULE UpdaterProofs ----------------------------
(***************************************************************************)
(* Theorems about the sensor updater, for any bounds on releases and       *)
(* failures.  Type correctness holds for any set of processes; the         *)
(* deployment invariants for a sensor with one updater process, which is   *)
(* how supervisord runs it, and so do the refinement of Deployment and the *)
(* truth of the reported successes.                                        *)
(***************************************************************************)
EXTENDS Updater, TLAPS

\* The process supervisord runs is the only one.
SoleUpdater == \A p, q \in Procs : p = q

\* The kind a process deals with is one of the three.
LEMMA KindType ==
  ASSUME TypeOK, NEW p \in Procs
  PROVE  /\ Kind(p) \in Kinds
         /\ Kind(p) = "sw" \/ Kind(p) = "rules" \/ Kind(p) = "ti"
BY DEF Kind, First, Kinds

\* Changing an entry of a map of kinds, or a field of a folder, keeps its type.
LEMMA EntryType ==
  ASSUME NEW S, NEW m \in [Kinds -> S], NEW k \in Kinds, NEW v \in S
  PROVE  [m EXCEPT ![k] = v] \in [Kinds -> S]
OBVIOUS

FolderContent == [sw : Release, rules : Release, yaml : BOOLEAN]

\* Changing a field of a folder keeps its type.
LEMMA FieldType ==
  ASSUME NEW c \in FolderContent, NEW r \in Release, NEW y \in BOOLEAN
  PROVE  /\ [c EXCEPT !.sw = r] \in FolderContent
         /\ [c EXCEPT !.rules = r] \in FolderContent
         /\ [c EXCEPT !.yaml = y] \in FolderContent
BY DEF FolderContent

\* What the steps write of a folder, in terms of the folder's old content.
LEMMA FolderType ==
  ASSUME TypeOK, NEW f \in Folders, NEW r \in Release, NEW y \in BOOLEAN
  PROVE  /\ [folder EXCEPT ![f].sw = r] \in [Folders -> FolderContent]
         /\ [folder EXCEPT ![f].rules = r, ![f].yaml = y] \in [Folders -> FolderContent]
<1>1. folder \in [Folders -> FolderContent]
  BY DEF TypeOK, FolderContent
<1>2. [folder EXCEPT ![f].sw = r] \in [Folders -> FolderContent]
  BY <1>1, FieldType
<1>3. [folder EXCEPT ![f].rules = r] \in [Folders -> FolderContent]
  BY <1>1, FieldType
<1>4. [folder EXCEPT ![f].rules = r, ![f].yaml = y] \in [Folders -> FolderContent]
  BY <1>3, FieldType
<1>5. QED
  BY <1>2, <1>4

\* Setting the status of a kind keeps the type of the statuses.
LEMMA StatusType ==
  ASSUME TypeOK, NEW p \in Procs, NEW k \in Kinds, NEW v \in Statuses
  PROVE  [status EXCEPT ![p][k] = v] \in [Procs -> [Kinds -> Statuses]]
<1>1. [status[p] EXCEPT ![k] = v] \in [Kinds -> Statuses]
  BY EntryType DEF TypeOK
<1>2. QED
  BY <1>1 DEF TypeOK

\* The return of an update keeps the types of the locals it resets.
LEMMA ReturnType ==
  ASSUME TypeOK, NEW p \in Procs, Return(p)
  PROVE  /\ todo' \in [Procs -> SUBSET Kinds]
         /\ pc' \in [Procs -> Labels]
         /\ good' \in [Procs -> BOOLEAN]
         /\ target' \in [Procs -> Folders]
         /\ cache' \in [Procs -> [Kinds -> Nat]]
<1>1. pc' \in [Procs -> Labels]
  BY DEF TypeOK, Return, Labels
<1>2. todo' \in [Procs -> SUBSET Kinds]
  BY DEF TypeOK, Return
<1>3. Zero \in [Kinds -> Nat]
  BY DEF Zero
<1>4. QED
  BY <1>1, <1>2, <1>3 DEF TypeOK, Return, Folders

\* Going back to the polling loop keeps the types of the locals.
LEMMA ToIdleType ==
  ASSUME TypeOK, NEW S \in SUBSET Procs, ToIdle(S)
  PROVE  /\ pc' \in [Procs -> Labels]
         /\ offer' \in [Procs -> [Kinds -> Nat]]
         /\ todo' \in [Procs -> SUBSET Kinds]
         /\ status' \in [Procs -> [Kinds -> Statuses]]
         /\ good' \in [Procs -> BOOLEAN]
         /\ target' \in [Procs -> Folders]
         /\ cache' \in [Procs -> [Kinds -> Nat]]
<1>1. Zero \in [Kinds -> Nat] /\ NoStatus \in [Kinds -> Statuses]
  BY DEF Zero, NoStatus, Statuses
<1>2. pc' \in [Procs -> Labels]
  BY DEF TypeOK, ToIdle, Labels
<1>3. QED
  BY <1>1, <1>2 DEF TypeOK, ToIdle, Folders

\* A service started from the link has the type of the service.
LEMMA HndrFromLinkType ==
  ASSUME TypeOK, CanRun
  PROVE  HndrFromLink \in [up : BOOLEAN, sw : Release, rules : Release]
BY DEF TypeOK, CanRun, HndrFromLink

\* Going to a label keeps the type of the labels.
LEMMA GotoType ==
  ASSUME TypeOK, NEW p \in Procs, NEW l \in Labels, Goto(p, l)
  PROVE  pc' \in [Procs -> Labels]
BY DEF TypeOK, Goto

\* A failure leaves a natural number of failures.
LEMMA BudgetType ==
  ASSUME TypeOK, NoFault \/ Fault
  PROVE  budget' \in Nat
<1>1. budget \in Nat
  BY DEF TypeOK
<1>2. CASE NoFault
  BY <1>1, <1>2 DEF NoFault
<1>3. CASE Fault
  BY <1>1, <1>3 DEF Fault
<1>4. QED
  BY <1>2, <1>3

\* A stopped service has the type of the service.
LEMMA HndrDownType == HndrDown \in [up : BOOLEAN, sw : Release, rules : Release]
BY DEF HndrDown, Release

\* The initial states have the types.
LEMMA TypeInit == Init => TypeOK
<1> SUFFICES ASSUME Init PROVE TypeOK
  OBVIOUS
<1>1. Zero \in [Kinds -> Nat] /\ NoStatus \in [Kinds -> Statuses]
  BY DEF Zero, NoStatus, Statuses
<1>2. folder \in [Folders -> [sw : Release, rules : Release, yaml : BOOLEAN]]
  BY DEF Init, Release
<1>3. svc \in [up : BOOLEAN, sw : Release, rules : Release]
  <2>1. [up |-> TRUE, sw |-> 0, rules |-> 0] \in [up : BOOLEAN, sw : Release, rules : Release]
    BY DEF Release
  <2>2. QED
    BY <2>1, HndrDownType DEF Init
<1>4. link \in Folders \cup {NoLink} /\ target \in [Procs -> Folders]
  BY DEF Init, Folders
<1>5. pc \in [Procs -> Labels] /\ todo \in [Procs -> SUBSET Kinds]
  BY DEF Init, Labels
<1>6. QED
  BY <1>1, <1>2, <1>3, <1>4, <1>5, FaultAssumption DEF Init, TypeOK

\* Every step keeps the types, whatever the number of processes.
LEMMA TypeStep == TypeOK /\ [Next]_vars => TypeOK'
<1> SUFFICES ASSUME TypeOK, [Next]_vars PROVE TypeOK'
  OBVIOUS
<1> USE DEF disk, locals, plan
<1> DEFINE Goes == \A p \in Procs, l \in Labels : Goto(p, l) => pc' \in [Procs -> Labels]
<1>0. Goes
  BY GotoType
<1>1. ASSUME NEW p \in Procs, Poll(p) PROVE TypeOK'
  <2>1. Manifest(cfg) \in [Kinds -> Nat]
    BY <1>1 DEF TypeOK, Manifest, Poll
  <2>2. "download" \in Labels
    BY DEF Labels
  <2>3. offer' \in [Procs -> [Kinds -> Nat]] /\ todo' \in [Procs -> SUBSET Kinds]
    BY <1>1, <2>1 DEF TypeOK, Poll
  <2>4. pc' \in [Procs -> Labels] /\ budget' \in Nat
    BY <1>1, <1>0, <2>2, BudgetType DEF Poll
  <2>5. QED
    BY <1>1, <2>3, <2>4 DEF Poll, TypeOK
<1>2. ASSUME NEW p \in Procs, Download(p) PROVE TypeOK'
  <2>1. "stat" \in Labels
    BY DEF Labels
  <2>2. status' \in [Procs -> [Kinds -> Statuses]]
    BY <1>2, StatusType, KindType DEF Download, Kinds, Statuses
  <2>3. /\ todo' \in [Procs -> SUBSET Kinds]
        /\ pc' \in [Procs -> Labels]
        /\ good' \in [Procs -> BOOLEAN]
        /\ target' \in [Procs -> Folders]
        /\ cache' \in [Procs -> [Kinds -> Nat]]
    <3>1. CASE Return(p)
      BY <3>1, ReturnType
    <3>2. CASE Goto(p, "stat") /\ good' \in [Procs -> BOOLEAN] /\ UNCHANGED <<todo, target, cache>>
      BY <3>2, <1>0, <2>1 DEF TypeOK
    <3>3. QED
      BY <1>2, <3>1, <3>2 DEF Download, TypeOK
  <2>4. budget' \in Nat
    BY <1>2, BudgetType DEF Download
  <2>5. QED
    BY <1>2, <2>2, <2>3, <2>4 DEF Download, TypeOK
<1>3. ASSUME NEW p \in Procs, Send(p) PROVE TypeOK'
  BY <1>3, ToIdleType, BudgetType DEF Send, TypeOK
<1>4. ASSUME NEW p \in Procs, Update(p) PROVE TypeOK'
  <2>0. {"create", "prepare", "clean", "extract", "stop", "unlink", "symlink", "start",
         "restart", "load", "truncate", "encode", "unlock"} \subseteq Labels
    BY DEF Labels
  <2>1. CASE Stat(p)
    BY <2>1, <2>0, <1>0, ReturnType, BudgetType DEF Stat, TypeOK
  <2>2. CASE Create(p)
    BY <2>2, <2>0, <1>0, BudgetType DEF Create, TypeOK
  <2>3. CASE Prepare(p)
    <3>1. link # NoLink => link \in Folders /\ OtherFolder(link) \in Folders
      BY DEF TypeOK, OtherFolder, Folders
    <3>2. target' \in [Procs -> Folders]
      BY <2>3, <3>1 DEF Prepare, TypeOK
    <3>3. pc' \in [Procs -> Labels] /\ budget' \in Nat
      BY <2>3, <2>0, <1>0, BudgetType DEF Prepare, Abort
    <3>4. QED
      BY <2>3, <3>2, <3>3 DEF Prepare, TypeOK
  <2>4. CASE Clean(p)
    <3>1. folder' \in [Folders -> [sw : Release, rules : Release, yaml : BOOLEAN]]
      <4>1. target[p] \in Folders /\ folder[target[p]].yaml \in BOOLEAN /\ Torn \in Release
        BY DEF TypeOK, Release
      <4>2. folder \in [Folders -> FolderContent]
        BY DEF TypeOK, FolderContent
      <4>3. [folder EXCEPT ![target[p]].sw = Torn] \in [Folders -> FolderContent]
        BY <4>1, FolderType
      <4>4. \A y \in {folder[target[p]].yaml, TRUE} :
              [folder EXCEPT ![target[p]].rules = Torn, ![target[p]].yaml = y]
                \in [Folders -> FolderContent]
        BY <4>1, FolderType
      <4>5. QED
        BY <2>4, <4>2, <4>3, <4>4 DEF Clean, FolderContent
    <3>2. pc' \in [Procs -> Labels] /\ budget' \in Nat
      BY <2>4, <2>0, <1>0, BudgetType DEF Clean, Abort
    <3>3. QED
      BY <2>4, <3>1, <3>2 DEF Clean, TypeOK
  <2>5. CASE Extract(p)
    <3>1. folder' \in [Folders -> [sw : Release, rules : Release, yaml : BOOLEAN]]
      <4>1. target[p] \in Folders /\ offer[p]["sw"] \in Release /\ offer[p]["rules"] \in Release
        BY DEF TypeOK, Release, Kinds
      <4>2. folder \in [Folders -> FolderContent]
        BY DEF TypeOK, FolderContent
      <4>3. [folder EXCEPT ![target[p]].sw = offer[p]["sw"]] \in [Folders -> FolderContent]
        BY <4>1, FolderType
      <4>4. [folder EXCEPT ![target[p]].rules = offer[p]["rules"], ![target[p]].yaml = TRUE]
              \in [Folders -> FolderContent]
        BY <4>1, FolderType
      <4>5. QED
        BY <2>5, <4>2, <4>3, <4>4 DEF Extract, FolderContent
    <3>2. pc' \in [Procs -> Labels] /\ budget' \in Nat
      BY <2>5, <2>0, <1>0, BudgetType DEF Extract, Abort
    <3>3. QED
      BY <2>5, <3>1, <3>2 DEF Extract, TypeOK
  <2>6. CASE Stop(p)
    BY <2>6, <2>0, <1>0, BudgetType, HndrDownType DEF Stop, Abort, TypeOK
  <2>7. CASE Unlink(p)
    BY <2>7, <2>0, <1>0, BudgetType DEF Unlink, Abort, TypeOK
  <2>8. CASE Symlink(p)
    <3>1. link' \in Folders \cup {NoLink}
      BY <2>8 DEF Symlink, TypeOK
    <3>2. pc' \in [Procs -> Labels] /\ budget' \in Nat
      BY <2>8, <2>0, <1>0, BudgetType DEF Symlink, Abort
    <3>3. QED
      BY <2>8, <3>1, <3>2 DEF Symlink, TypeOK
  <2>9. CASE Start(p)
    BY <2>9, <2>0, <1>0, BudgetType, HndrFromLinkType DEF Start, Abort, TypeOK
  <2>10. CASE Restart(p)
    BY <2>10, <2>0, <1>0, BudgetType, HndrFromLinkType, HndrDownType
       DEF Restart, Abort, TypeOK
  <2>11. CASE Load(p)
    BY <2>11, <2>0, <1>0, BudgetType DEF Load, Abort, TypeOK
  <2>12. CASE Truncate(p)
    BY <2>12, <2>0, <1>0, BudgetType DEF Truncate, Abort, TypeOK
  <2>13. CASE Encode(p)
    <3>1. [cache[p] EXCEPT ![Kind(p)] = offer[p][Kind(p)]] \in [Kinds -> Nat]
      BY KindType, EntryType DEF TypeOK
    <3>2. status' \in [Procs -> [Kinds -> Statuses]]
      <4>1. [status EXCEPT ![p][Kind(p)] = "SUCCESS"] \in [Procs -> [Kinds -> Statuses]]
        BY KindType, StatusType DEF Statuses
      <4>2. QED
        BY <2>13, <4>1 DEF Encode, TypeOK
    <3>3. pc' \in [Procs -> Labels] /\ budget' \in Nat
      BY <2>13, <2>0, <1>0, BudgetType DEF Encode, Abort
    <3>4. QED
      BY <2>13, <3>1, <3>2, <3>3 DEF Encode, TypeOK
  <2>14. CASE Unlock(p)
    BY <2>14, ReturnType, BudgetType DEF Unlock, TypeOK
  <2>15. QED
    BY <1>4, <2>1, <2>2, <2>3, <2>4, <2>5, <2>6, <2>7, <2>8, <2>9, <2>10, <2>11,
       <2>12, <2>13, <2>14 DEF Update
<1>5. ASSUME NEW p \in Procs, Crash(p) PROVE TypeOK'
  BY <1>5, ToIdleType, BudgetType DEF Crash, TypeOK
<1>6. ASSUME NEW k \in Kinds, Publish(k) PROVE TypeOK'
  <2>1. latest[k] + 1 \in Nat
    BY DEF TypeOK
  <2>2. latest' \in [Kinds -> Nat]
    BY <1>6, <2>1, EntryType DEF Publish, TypeOK
  <2>3. QED
    BY <1>6, <2>2, BudgetType DEF Publish, TypeOK
<1>7. CASE Reboot
  BY <1>7, ToIdleType, BudgetType, HndrFromLinkType, HndrDownType DEF Reboot, TypeOK
<1>8. CASE HndrExits
  BY <1>8, BudgetType, HndrFromLinkType, HndrDownType DEF HndrExits, TypeOK
<1>9. CASE UNCHANGED vars
  BY <1>9 DEF vars, TypeOK
<1>10. QED
  BY <1>1, <1>2, <1>3, <1>4, <1>5, <1>6, <1>7, <1>8, <1>9 DEF Next, CheckUpdates

\* The types are an invariant, whatever the number of processes.
THEOREM TypeCorrect == Spec => []TypeOK
  BY TypeInit, TypeStep, PTL DEF Spec

-----------------------------------------------------------------------------
\* The deployment invariants, apart from the types.
Safe == ActiveSoftwareWhole /\ RunningIsActive /\ RecordedSoftwareIsActive

\* The installation satisfies the invariant.
LEMMA DeployInit == Init => IInv
<1> SUFFICES ASSUME Init PROVE IInv
  OBVIOUS
<1>1. TypeOK
  BY TypeInit
<1>2. Safe
  BY DEF Init, Safe, ActiveSoftwareWhole, RunningIsActive, RecordedSoftwareIsActive,
     HndrDown, Whole, Zero, Folders, Kinds, NoLink
<1>3. ASSUME NEW p \in Procs PROVE InstallInv(p)
  BY DEF Init, InstallInv, Installing
<1>4. QED
  BY <1>1, <1>2, <1>3 DEF IInv, Safe

\* The releases offered are newer than the recorded ones.
LEMMA PollKeeps ==
  ASSUME TypeOK, Safe, NEW p \in Procs, InstallInv(p), Poll(p)
  PROVE  Safe' /\ InstallInv(p)'
BY DEF Poll, TypeOK, Goto, disk, Safe, ActiveSoftwareWhole, RunningIsActive,
   RecordedSoftwareIsActive, InstallInv, Installing, Manifest

\* Nothing is installed yet.
LEMMA DownloadKeeps ==
  ASSUME TypeOK, Safe, NEW p \in Procs, InstallInv(p), Download(p)
  PROVE  Safe' /\ InstallInv(p)'
BY DEF Download, TypeOK, Goto, Return, disk, Safe, ActiveSoftwareWhole,
   RunningIsActive, RecordedSoftwareIsActive, InstallInv, Installing, Kind, First

\* The process is idle again.
LEMMA SendKeeps ==
  ASSUME TypeOK, Safe, NEW p \in Procs, InstallInv(p), Send(p)
  PROVE  Safe' /\ InstallInv(p)'
BY DEF Send, ToIdle, disk, Safe, ActiveSoftwareWhole, RunningIsActive,
   RecordedSoftwareIsActive, InstallInv, Installing

\* Looking for the lock keeps the invariant: only the lock and the locals change.
LEMMA StatKeeps ==
  ASSUME TypeOK, Safe, NEW p \in Procs, InstallInv(p), Stat(p)
  PROVE  Safe' /\ InstallInv(p)'
BY DEF Stat, TypeOK, Goto, Return, disk, Safe, ActiveSoftwareWhole, RunningIsActive,
   RecordedSoftwareIsActive, InstallInv, Installing, Kind

\* Creating the lock keeps the invariant, whether or not it fails.
LEMMA CreateKeeps ==
  ASSUME TypeOK, Safe, NEW p \in Procs, InstallInv(p), Create(p)
  PROVE  Safe' /\ InstallInv(p)'
BY DEF Create, Goto, disk, plan, Safe, ActiveSoftwareWhole, RunningIsActive,
   RecordedSoftwareIsActive, InstallInv, Installing, Kind

\* Software is sent to the folder that is not linked, rules to the linked one.
LEMMA PrepareKeeps ==
  ASSUME TypeOK, Safe, NEW p \in Procs, InstallInv(p), Prepare(p)
  PROVE  Safe' /\ InstallInv(p)'
BY DEF Prepare, TypeOK, Goto, Abort, disk, plan, Safe, ActiveSoftwareWhole,
   RunningIsActive, RecordedSoftwareIsActive, InstallInv, Installing, Kind

\* The folder that is torn is not the linked one, unless only its rules are.
LEMMA CleanKeeps ==
  ASSUME TypeOK, Safe, NEW p \in Procs, InstallInv(p), Clean(p)
  PROVE  Safe' /\ InstallInv(p)'
<1>1. CASE Kind(p) = "sw"
  <2>1. link # NoLink /\ link \in Folders /\ target[p] \in Folders /\ target[p] # link
    BY <1>1 DEF Clean, TypeOK, InstallInv, OtherFolder
  <2>2. \/ folder' = [folder EXCEPT ![target[p]].sw = Torn]
        \/ UNCHANGED folder
    BY <1>1 DEF Clean
  <2>3. folder'[link] = folder[link]
    BY <2>1, <2>2 DEF TypeOK
  <2>4. Safe'
    BY <2>3 DEF Clean, Safe, ActiveSoftwareWhole, RunningIsActive,
       RecordedSoftwareIsActive
  <2>5. InstallInv(p)'
    BY <1>1 DEF Clean, TypeOK, Goto, Abort, locals, plan, InstallInv, Kind
  <2>6. QED
    BY <2>4, <2>5
<1>2. CASE Kind(p) # "sw"
  <2>1. \A f \in Folders : folder'[f].sw = folder[f].sw
    BY <1>2 DEF Clean, TypeOK, Folders
  <2>2. Safe'
    BY <2>1 DEF Clean, TypeOK, Safe, ActiveSoftwareWhole, RunningIsActive,
       RecordedSoftwareIsActive
  <2>3. InstallInv(p)'
    BY DEF Clean, TypeOK, Goto, Abort, locals, plan, InstallInv, Installing, Kind
  <2>4. QED
    BY <2>2, <2>3
<1>3. QED
  BY <1>1, <1>2

\* The target folder holds the offered software.
LEMMA ExtractKeeps ==
  ASSUME TypeOK, Safe, NEW p \in Procs, InstallInv(p), Extract(p)
  PROVE  Safe' /\ InstallInv(p)'
<1>1. CASE Kind(p) = "sw"
  <2>1. link # NoLink /\ link \in Folders /\ target[p] \in Folders /\ target[p] # link
    BY <1>1 DEF Extract, TypeOK, InstallInv, OtherFolder
  <2>2. \/ folder' = [folder EXCEPT ![target[p]].sw = offer[p]["sw"]]
        \/ UNCHANGED folder
    BY <1>1 DEF Extract
  <2>3. folder'[link] = folder[link]
    BY <2>1, <2>2 DEF TypeOK
  <2>4. Safe'
    BY <2>3 DEF Extract, Safe, ActiveSoftwareWhole, RunningIsActive,
       RecordedSoftwareIsActive
  <2>5. InstallInv(p)'
    BY <1>1 DEF Extract, TypeOK, Goto, Abort, locals, plan, InstallInv, Kind
  <2>6. QED
    BY <2>4, <2>5
<1>2. CASE Kind(p) # "sw"
  <2>1. \A f \in Folders : folder'[f].sw = folder[f].sw
    BY <1>2 DEF Extract, TypeOK, Folders
  <2>2. Safe'
    BY <2>1 DEF Extract, TypeOK, Safe, ActiveSoftwareWhole, RunningIsActive,
       RecordedSoftwareIsActive
  <2>3. InstallInv(p)'
    BY DEF Extract, TypeOK, Goto, Abort, locals, plan, InstallInv, Installing, Kind
  <2>4. QED
    BY <2>2, <2>3
<1>3. QED
  BY <1>1, <1>2

\* No service runs while the link moves.
LEMMA StopKeeps ==
  ASSUME TypeOK, Safe, NEW p \in Procs, InstallInv(p), Stop(p)
  PROVE  Safe' /\ InstallInv(p)'
<1>1. ActiveSoftwareWhole'
  BY DEF Stop, disk, Safe, ActiveSoftwareWhole
<1>2. RunningIsActive'
  BY DEF Stop, disk, Safe, RunningIsActive, HndrDown
<1>3. RecordedSoftwareIsActive'
  BY DEF Stop, disk, Safe, RecordedSoftwareIsActive
<1>4. InstallInv(p)'
  BY DEF Stop, TypeOK, Goto, Abort, disk, locals, plan, InstallInv, Kind, HndrDown
<1>5. QED
  BY <1>1, <1>2, <1>3, <1>4 DEF Safe

\* Removing the link keeps the invariant: the service is down by then.
LEMMA UnlinkKeeps ==
  ASSUME TypeOK, Safe, NEW p \in Procs, InstallInv(p), Unlink(p)
  PROVE  Safe' /\ InstallInv(p)'
<1>1. ActiveSoftwareWhole'
  BY DEF Unlink, Safe, ActiveSoftwareWhole
<1>2. RunningIsActive'
  BY DEF Unlink, RunningIsActive, InstallInv
<1>3. RecordedSoftwareIsActive'
  BY DEF Unlink, Safe, RecordedSoftwareIsActive
<1>4. InstallInv(p)'
  BY DEF Unlink, TypeOK, Goto, Abort, locals, plan, InstallInv, Kind
<1>5. QED
  BY <1>1, <1>2, <1>3, <1>4 DEF Safe

\* The link names the folder just extracted, not a torn one.
LEMMA SymlinkKeeps ==
  ASSUME TypeOK, Safe, NEW p \in Procs, InstallInv(p), Symlink(p)
  PROVE  Safe' /\ InstallInv(p)'
<1>1. ActiveSoftwareWhole'
  BY DEF Symlink, TypeOK, ActiveSoftwareWhole, InstallInv, Kinds, Whole
<1>2. RunningIsActive'
  BY DEF Symlink, Safe, RunningIsActive
<1>3. RecordedSoftwareIsActive'
  BY DEF Symlink, RecordedSoftwareIsActive, InstallInv, Kind, First
<1>4. InstallInv(p)'
  BY DEF Symlink, TypeOK, Goto, Abort, locals, plan, InstallInv, Kind
<1>5. QED
  BY <1>1, <1>2, <1>3, <1>4 DEF Safe

\* The service is started from the link.
LEMMA StartKeeps ==
  ASSUME TypeOK, Safe, NEW p \in Procs, InstallInv(p), Start(p)
  PROVE  Safe' /\ InstallInv(p)'
<1>1. ActiveSoftwareWhole'
  BY DEF Start, disk, Safe, ActiveSoftwareWhole
<1>2. RunningIsActive'
  BY DEF Start, disk, Safe, RunningIsActive, HndrFromLink, CanRun
<1>3. RecordedSoftwareIsActive'
  BY DEF Start, disk, Safe, RecordedSoftwareIsActive
<1>4. InstallInv(p)'
  BY DEF Start, TypeOK, Goto, Abort, disk, locals, plan, InstallInv, Installing, Kind
<1>5. QED
  BY <1>1, <1>2, <1>3, <1>4 DEF Safe

\* The service is restarted from the link.
LEMMA RestartKeeps ==
  ASSUME TypeOK, Safe, NEW p \in Procs, InstallInv(p), Restart(p)
  PROVE  Safe' /\ InstallInv(p)'
<1>1. ActiveSoftwareWhole'
  BY DEF Restart, disk, Safe, ActiveSoftwareWhole
<1>2. RunningIsActive'
  BY DEF Restart, disk, Safe, RunningIsActive, HndrFromLink, HndrDown, CanRun
<1>3. RecordedSoftwareIsActive'
  BY DEF Restart, disk, Safe, RecordedSoftwareIsActive
<1>4. InstallInv(p)'
  BY DEF Restart, TypeOK, Goto, Abort, disk, locals, plan, InstallInv, Installing, Kind
<1>5. QED
  BY <1>1, <1>2, <1>3, <1>4 DEF Safe

\* The configuration cached names no newer software than the linked folder holds.
LEMMA LoadKeeps ==
  ASSUME TypeOK, Safe, NEW p \in Procs, InstallInv(p), Load(p)
  PROVE  Safe' /\ InstallInv(p)'
BY DEF Load, TypeOK, Goto, Abort, disk, plan, Safe, ActiveSoftwareWhole,
   RunningIsActive, RecordedSoftwareIsActive, InstallInv, Installing, Kind,
   Folders, NoLink

\* Emptying the configuration keeps the invariant: what follows has been loaded.
LEMMA TruncateKeeps ==
  ASSUME TypeOK, Safe, NEW p \in Procs, InstallInv(p), Truncate(p)
  PROVE  Safe' /\ InstallInv(p)'
<1>1. ActiveSoftwareWhole'
  BY DEF Truncate, disk, Safe, ActiveSoftwareWhole
<1>2. RunningIsActive'
  BY DEF Truncate, disk, Safe, RunningIsActive
<1>3. RecordedSoftwareIsActive'
  BY DEF Truncate, disk, Safe, RecordedSoftwareIsActive
<1>4. InstallInv(p)'
  BY DEF Truncate, TypeOK, Goto, Abort, disk, locals, plan, InstallInv, Installing, Kind
<1>5. QED
  BY <1>1, <1>2, <1>3, <1>4 DEF Safe

\* The version recorded is the linked one.
LEMMA EncodeKeeps ==
  ASSUME TypeOK, Safe, NEW p \in Procs, InstallInv(p), Encode(p)
  PROVE  Safe' /\ InstallInv(p)'
<1>1. ActiveSoftwareWhole'
  BY DEF Encode, disk, Safe, ActiveSoftwareWhole
<1>2. RunningIsActive'
  BY DEF Encode, disk, Safe, RunningIsActive
<1>3. RecordedSoftwareIsActive'
  BY DEF Encode, TypeOK, disk, plan, Safe, RecordedSoftwareIsActive, InstallInv,
     Installing, Kind, First, Kinds
<1>4. InstallInv(p)'
  BY DEF Encode, TypeOK, Goto, Abort, disk, locals, plan, InstallInv, Installing, Kind,
     First, Kinds
<1>5. QED
  BY <1>1, <1>2, <1>3, <1>4 DEF Safe

\* The deferred removal of the lock keeps the invariant.
LEMMA UnlockKeeps ==
  ASSUME TypeOK, Safe, NEW p \in Procs, InstallInv(p), Unlock(p)
  PROVE  Safe' /\ InstallInv(p)'
BY DEF Unlock, TypeOK, Return, disk, Safe, ActiveSoftwareWhole, RunningIsActive,
   RecordedSoftwareIsActive, InstallInv, Installing, Kind

\* A killed process is back at the top of its loop, with nothing established.
LEMMA CrashKeeps ==
  ASSUME TypeOK, Safe, NEW p \in Procs, InstallInv(p), Crash(p)
  PROVE  Safe' /\ InstallInv(p)'
BY DEF Crash, ToIdle, disk, Safe, ActiveSoftwareWhole, RunningIsActive,
   RecordedSoftwareIsActive, InstallInv, Installing

\* What a publication, a reboot or an exit of the service does.
LEMMA PublishKeeps ==
  ASSUME TypeOK, Safe, NEW p \in Procs, InstallInv(p), NEW k \in Kinds, Publish(k)
  PROVE  Safe' /\ InstallInv(p)'
BY DEF Publish, disk, locals, plan, Safe, ActiveSoftwareWhole, RunningIsActive,
   RecordedSoftwareIsActive, InstallInv, Kind

\* A reboot starts the service from the link, and every process anew.
LEMMA RebootKeeps ==
  ASSUME TypeOK, Safe, NEW p \in Procs, InstallInv(p), Reboot
  PROVE  Safe' /\ InstallInv(p)'
BY DEF Reboot, ToIdle, disk, Safe, ActiveSoftwareWhole, RunningIsActive,
   RecordedSoftwareIsActive, InstallInv, Installing, HndrDown, HndrFromLink, CanRun

\* A service restarted by supervisord runs what is linked.
LEMMA HndrExitsKeeps ==
  ASSUME TypeOK, Safe, NEW p \in Procs, InstallInv(p), HndrExits
  PROVE  Safe' /\ InstallInv(p)'
BY DEF HndrExits, disk, locals, plan, Safe, ActiveSoftwareWhole, RunningIsActive,
   RecordedSoftwareIsActive, InstallInv, Kind, HndrDown, HndrFromLink, CanRun

\* A stutter keeps the invariant.
LEMMA NothingKeeps ==
  ASSUME Safe, NEW p \in Procs, InstallInv(p), UNCHANGED vars
  PROVE  Safe' /\ InstallInv(p)'
BY DEF vars, Safe, ActiveSoftwareWhole, RunningIsActive, RecordedSoftwareIsActive,
   InstallInv, Kind

\* Without an updater only the environment moves.
LEMMA NobodyKeeps ==
  ASSUME Procs = {}, TypeOK, Safe, [Next]_vars
  PROVE  Safe'
BY DEF Next, Publish, Reboot, HndrExits, vars, disk, Safe, ActiveSoftwareWhole,
   RunningIsActive, RecordedSoftwareIsActive, HndrDown, HndrFromLink, CanRun

\* The invariant of a sole updater is inductive.
LEMMA DeployStep == SoleUpdater /\ IInv /\ [Next]_vars => IInv'
<1> SUFFICES ASSUME SoleUpdater, IInv, [Next]_vars PROVE IInv'
  OBVIOUS
<1>1. TypeOK /\ Safe /\ \A p \in Procs : InstallInv(p)
  BY DEF IInv, Safe
<1>2. TypeOK'
  BY <1>1, TypeStep
<1>3. ASSUME NEW p \in Procs PROVE Safe' /\ InstallInv(p)'
  <2>1. \A q \in Procs : q = p
    BY <1>3 DEF SoleUpdater
  <2>2. InstallInv(p)
    BY <1>1, <1>3
  <2>3. CASE CheckUpdates(p)
    BY <1>1, <1>3, <2>2, <2>3, PollKeeps, DownloadKeeps, SendKeeps, StatKeeps,
       CreateKeeps, PrepareKeeps, CleanKeeps, ExtractKeeps, StopKeeps, UnlinkKeeps,
       SymlinkKeeps, StartKeeps, RestartKeeps, LoadKeeps, TruncateKeeps, EncodeKeeps,
       UnlockKeeps DEF CheckUpdates, Update
  <2>4. CASE Crash(p)
    BY <1>1, <1>3, <2>2, <2>4, CrashKeeps
  <2>5. ASSUME NEW k \in Kinds, Publish(k) PROVE Safe' /\ InstallInv(p)'
    BY <1>1, <1>3, <2>2, <2>5, PublishKeeps
  <2>6. CASE Reboot
    BY <1>1, <1>3, <2>2, <2>6, RebootKeeps
  <2>7. CASE HndrExits
    BY <1>1, <1>3, <2>2, <2>7, HndrExitsKeeps
  <2>8. CASE UNCHANGED vars
    BY <1>1, <1>3, <2>2, <2>8, NothingKeeps
  <2>9. QED
    BY <2>1, <2>3, <2>4, <2>5, <2>6, <2>7, <2>8 DEF Next
<1>4. CASE Procs = {}
  BY <1>1, <1>2, <1>4, NobodyKeeps DEF IInv, Safe
<1>5. CASE Procs # {}
  BY <1>2, <1>3, <1>5 DEF IInv, Safe
<1>6. QED
  BY <1>4, <1>5

\* With one updater process, the invariant holds of every reachable state.
LEMMA DeployInvariant == SoleUpdater => (Spec => []IInv)
<1> SUFFICES ASSUME SoleUpdater PROVE Spec => []IInv
  OBVIOUS
<1>1. Init => IInv
  BY DeployInit
<1>2. IInv /\ [Next]_vars => IInv'
  BY DeployStep
<1>3. QED
  BY <1>1, <1>2, PTL DEF Spec

\* The link never names a folder whose software is torn, however an update by
\* a sole updater is interrupted (UpateSoftwareNow, UnlinkAndLink).
THEOREM ActiveWhole == SoleUpdater => (Spec => []ActiveSoftwareWhole)
<1>1. IInv => ActiveSoftwareWhole
  BY DEF IInv
<1>2. QED
  BY <1>1, DeployInvariant, PTL

\* The service never runs software other than that of the linked folder.
THEOREM RunsActive == SoleUpdater => (Spec => []RunningIsActive)
<1>1. IInv => RunningIsActive
  BY DEF IInv
<1>2. QED
  BY <1>1, DeployInvariant, PTL

\* hndr-config.json never claims software newer than the linked folder holds.
THEOREM RecordsActive == SoleUpdater => (Spec => []RecordedSoftwareIsActive)
<1>1. IInv => RecordedSoftwareIsActive
  BY DEF IInv
<1>2. QED
  BY <1>1, DeployInvariant, PTL

-----------------------------------------------------------------------------
\* The updater implements Deployment: what its steps have established beyond
\* the invariant above.  No folder holds a release that was not published, or
\* one newer than an offer still to be dealt with; the offered release is newer
\* than the recorded one until it is recorded; and what is about to be written
\* back is what was there.
OfferInv(p) ==
  /\ \A f \in Folders : folder[f].sw <= latest["sw"]
  /\ "sw" \in todo[p] =>
       /\ offer[p]["sw"] <= latest["sw"]
       /\ \A f \in Folders : folder[f].sw <= offer[p]["sw"]
       /\ pc[p] \notin {"encode", "unlock"} => cfg # Corrupt /\ cfg["sw"] < offer[p]["sw"]
  /\ pc[p] = "truncate" => cfg # Corrupt /\ cache[p] = cfg
  /\ pc[p] = "encode" => cfg = Corrupt
  /\ pc[p] = "symlink" => Whole(folder[OtherFolder(target[p])].sw)

\* The releases of software are numbers, and a kind that is dealt with is one
\* that was to be done.
LEMMA SoftwareNumbers ==
  ASSUME TypeOK, NEW p \in Procs
  PROVE  /\ latest["sw"] \in Nat /\ offer[p]["sw"] \in Nat /\ cache[p]["sw"] \in Nat
         /\ cfg # Corrupt => cfg["sw"] \in Nat
         /\ \A f \in Folders : folder[f].sw \in Release
         /\ Kind(p) = "sw" <=> "sw" \in todo[p]
BY DEF TypeOK, Kinds, Kind, First

\* At first the bundled release is in one folder.
LEMMA OfferInit ==
  ASSUME Init, NEW p \in Procs
  PROVE  OfferInv(p)
BY DEF Init, OfferInv, Zero, Kinds, Folders, Torn

\* Steps that change neither the folders nor what the server offers, go to none
\* of the steps the invariant speaks of, and leave the record alone.
LEMMA OfferKept ==
  ASSUME TypeOK, NEW p \in Procs, OfferInv(p),
         UNCHANGED <<folder, latest, cfg, offer>>,
         todo'[p] \subseteq todo[p],
         pc'[p] \notin {"truncate", "encode", "symlink"},
         "sw" \in todo'[p] /\ pc'[p] # "unlock" => pc[p] \notin {"encode", "unlock"}
  PROVE  OfferInv(p)'
BY DEF OfferInv

\* What a return leaves to be done.
LEMMA Returned ==
  ASSUME TypeOK, NEW p \in Procs, Return(p)
  PROVE  /\ todo'[p] \subseteq todo[p] /\ pc'[p] \in {"send", "download"}
         /\ "sw" \notin todo'[p]
BY DEF TypeOK, Return, Kind, First

\* The process is where it goes.
LEMMA Gone ==
  ASSUME TypeOK, NEW p \in Procs, NEW l, Goto(p, l)
  PROVE  pc'[p] = l
BY DEF TypeOK, Goto

\* What is written of the software of a folder is what it holds then.
LEMMA SoftwareReplaced ==
  ASSUME TypeOK, NEW t \in Folders, NEW r, NEW f \in Folders,
         folder' = [folder EXCEPT ![t].sw = r]
  PROVE  folder'[f].sw = r \/ folder'[f].sw = folder[f].sw
<1>1. folder \in [Folders -> FolderContent]
  BY DEF TypeOK, FolderContent
<1>2. CASE f = t
  <2>1. folder'[f] = [folder[f] EXCEPT !.sw = r]
    BY <1>1, <1>2
  <2>2. folder[f] \in FolderContent
    BY <1>1
  <2> QED BY <2>1, <2>2 DEF FolderContent
<1>3. CASE f # t
  BY <1>1, <1>3
<1> QED BY <1>2, <1>3

\* The process's own steps keep the invariant.
LEMMA OfferStep ==
  ASSUME TypeOK, Safe, NEW p \in Procs, InstallInv(p), OfferInv(p), CheckUpdates(p)
  PROVE  OfferInv(p)'
<1> USE DEF disk, locals, plan
<1>1. CASE Poll(p)
  <2>1. pc'[p] = "download"
    BY <1>1, Gone DEF Poll
  <2>2. /\ "sw" \in todo'[p] => offer'[p]["sw"] = latest["sw"] /\ cfg["sw"] < latest["sw"]
        /\ cfg # Corrupt
    BY <1>1, SoftwareNumbers DEF Poll, Manifest, TypeOK, Kinds
  <2> QED BY <1>1, <2>1, <2>2, SoftwareNumbers DEF Poll, OfferInv
<1>2. CASE Download(p)
  <2>1. CASE Return(p)
    BY <1>2, <2>1, Returned, OfferKept DEF Download
  <2>2. CASE Goto(p, "stat") /\ UNCHANGED todo
    BY <1>2, <2>2, Gone, OfferKept DEF Download
  <2> QED BY <1>2, <2>1, <2>2 DEF Download
<1>3. CASE Send(p)
  BY <1>3, OfferKept DEF Send, ToIdle, OfferInv
<1>4. CASE Stat(p)
  <2>1. CASE Return(p)
    BY <1>4, <2>1, Returned, OfferKept DEF Stat
  <2>2. CASE Goto(p, "create") /\ UNCHANGED todo
    BY <1>4, <2>2, Gone, OfferKept DEF Stat
  <2> QED BY <1>4, <2>1, <2>2 DEF Stat
<1>5. CASE Create(p)
  BY <1>5, Gone, OfferKept DEF Create
<1>6. CASE Prepare(p)
  BY <1>6, Gone, OfferKept DEF Prepare, Abort
<1>7. CASE Clean(p)
  <2>1. \A f \in Folders : folder'[f].sw = folder[f].sw \/ folder'[f].sw = Torn
    <3>1. CASE Kind(p) = "sw"
      <4>1. folder' = [folder EXCEPT ![target[p]].sw = Torn] \/ UNCHANGED folder
        BY <1>7, <3>1 DEF Clean
      <4>2. target[p] \in Folders
        BY DEF TypeOK
      <4>3. CASE folder' = [folder EXCEPT ![target[p]].sw = Torn]
        BY <4>2, <4>3, SoftwareReplaced
      <4>4. CASE UNCHANGED folder
        BY <4>4
      <4> QED BY <4>1, <4>3, <4>4
    <3>2. CASE Kind(p) # "sw"
      BY <1>7, <3>2 DEF Clean, TypeOK, Folders
    <3> QED BY <3>1, <3>2
  <2>2. pc'[p] \in {"extract", "unlock"}
    BY <1>7, Gone DEF Clean, Abort
  <2> QED BY <1>7, <2>1, <2>2, SoftwareNumbers DEF Clean, OfferInv, Torn
<1>8. CASE Extract(p)
  <2>1. \A f \in Folders : \/ folder'[f].sw = folder[f].sw
                           \/ Kind(p) = "sw" /\ folder'[f].sw = offer[p]["sw"]
    <3>1. CASE Kind(p) = "sw"
      <4>1. folder' = [folder EXCEPT ![target[p]].sw = offer[p]["sw"]] \/ UNCHANGED folder
        BY <1>8, <3>1 DEF Extract
      <4>2. target[p] \in Folders
        BY DEF TypeOK
      <4>3. CASE folder' = [folder EXCEPT ![target[p]].sw = offer[p]["sw"]]
        <5>1. \A f \in Folders :
                folder'[f].sw = offer[p]["sw"] \/ folder'[f].sw = folder[f].sw
          BY <4>2, <4>3, SoftwareReplaced
        <5> QED BY <3>1, <5>1
      <4>4. CASE UNCHANGED folder
        BY <4>4
      <4> QED BY <4>1, <4>3, <4>4
    <3>2. CASE Kind(p) # "sw"
      BY <1>8, <3>2 DEF Extract, TypeOK, Folders
    <3> QED BY <3>1, <3>2
  <2>2. pc'[p] \in {"stop", "restart", "unlock"}
    BY <1>8, Gone DEF Extract, Abort
  <2> QED BY <1>8, <2>1, <2>2, SoftwareNumbers DEF Extract, OfferInv
<1>9. CASE Stop(p)
  BY <1>9, Gone, OfferKept DEF Stop, Abort
<1>10. CASE Unlink(p)
  <2>1. CASE pc'[p] = "unlock"
    BY <1>10, <2>1, OfferKept DEF Unlink
  <2>2. CASE pc'[p] = "symlink"
    <3>1. Kind(p) = "sw"
      BY <1>10 DEF Unlink, InstallInv
    <3>2. link \in Folders /\ target[p] = OtherFolder(link)
      BY <1>10, <3>1 DEF Unlink, InstallInv, TypeOK
    <3>3. OtherFolder(target[p]) = link
      BY <3>2 DEF OtherFolder, Folders
    <3>4. Whole(folder[link].sw)
      BY <3>2 DEF Safe, ActiveSoftwareWhole, Folders, NoLink
    <3>5. UNCHANGED <<folder, latest, cfg, offer, todo, target>>
      BY <1>10 DEF Unlink
    <3>6. Whole(folder[OtherFolder(target[p])].sw)'
      BY <3>3, <3>4, <3>5
    <3> QED BY <1>10, <2>2, <3>5, <3>6 DEF Unlink, OfferInv
  <2>3. pc'[p] \in {"symlink", "unlock"}
    BY <1>10, Gone DEF Unlink, Abort
  <2> QED BY <2>1, <2>2, <2>3
<1>11. CASE Symlink(p)
  BY <1>11, Gone, OfferKept DEF Symlink, Abort
<1>12. CASE Start(p)
  BY <1>12, Gone, OfferKept DEF Start, Abort
<1>13. CASE Restart(p)
  BY <1>13, Gone, OfferKept DEF Restart, Abort
<1>14. CASE Load(p)
  <2>1. CASE pc'[p] = "unlock"
    BY <1>14, <2>1, OfferKept DEF Load
  <2>2. CASE pc'[p] = "truncate"
    <3>1. cfg # Corrupt /\ cache' = [cache EXCEPT ![p] = cfg]
      BY <1>14, <2>2, Gone DEF Load, Abort
    <3>2. cache'[p] = cfg
      BY <3>1 DEF TypeOK
    <3> QED BY <1>14, <2>2, <3>1, <3>2 DEF Load, OfferInv
  <2>3. pc'[p] \in {"truncate", "unlock"}
    BY <1>14, Gone DEF Load, Abort
  <2> QED BY <2>1, <2>2, <2>3
<1>15. CASE Truncate(p)
  <2>1. CASE pc'[p] = "unlock"
    <3>1. UNCHANGED cfg
      BY <1>15, <2>1, Gone DEF Truncate
    <3> QED BY <1>15, <2>1, <3>1, OfferKept DEF Truncate
  <2>2. CASE pc'[p] = "encode"
    <3>1. cfg' = Corrupt
      BY <1>15, <2>2, Gone DEF Truncate, Abort
    <3> QED BY <1>15, <2>2, <3>1 DEF Truncate, OfferInv
  <2>3. pc'[p] \in {"encode", "unlock"}
    BY <1>15, Gone DEF Truncate, Abort
  <2> QED BY <2>1, <2>2, <2>3
<1>16. CASE Encode(p)
  <2>1. pc'[p] = "unlock"
    BY <1>16, Gone DEF Encode, Abort
  <2> QED BY <1>16, <2>1 DEF Encode, OfferInv
<1>17. CASE Unlock(p)
  BY <1>17, Returned, OfferKept DEF Unlock
<1> QED
  BY <1>1, <1>2, <1>3, <1>4, <1>5, <1>6, <1>7, <1>8, <1>9, <1>10, <1>11, <1>12,
     <1>13, <1>14, <1>15, <1>16, <1>17 DEF CheckUpdates, Update

\* The environment publishes, kills and reboots.
LEMMA OfferEnvironment ==
  ASSUME TypeOK, NEW p \in Procs, OfferInv(p),
         \/ Crash(p) \/ Reboot \/ HndrExits \/ UNCHANGED vars
         \/ \E k \in Kinds : Publish(k)
  PROVE  OfferInv(p)'
<1> USE DEF disk, locals, plan
<1>1. CASE Crash(p)
  BY <1>1, OfferKept DEF Crash, ToIdle, OfferInv
<1>2. CASE Reboot
  BY <1>2 DEF Reboot, ToIdle, OfferInv
<1>3. CASE HndrExits
  BY <1>3 DEF HndrExits, OfferInv
<1>4. CASE UNCHANGED vars
  BY <1>4 DEF vars, OfferInv
<1>5. CASE \E k \in Kinds : Publish(k)
  <2>1. latest["sw"] <= latest'["sw"]
    BY <1>5, SoftwareNumbers DEF Publish, TypeOK, Kinds
  <2>2. latest'["sw"] \in Nat
    BY <1>5 DEF Publish, TypeOK, Kinds
  <2> QED
    BY <1>5, <2>1, <2>2, SoftwareNumbers DEF Publish, OfferInv, Release, Torn
<1> QED BY <1>1, <1>2, <1>3, <1>4, <1>5

\* The sole updater in the two views of the abstract specification.
Sole(p) == \A q \in Procs : q = p

\* What the two views are for a sole updater.
LEMMA Views ==
  ASSUME NEW p \in Procs, Sole(p)
  PROVE  /\ ActiveSoftware =
              IF link # NoLink THEN folder[link].sw
              ELSE IF pc[p] = "symlink" THEN folder[OtherFolder(target[p])].sw
              ELSE Torn
         /\ RecordedSoftware =
              IF cfg # Corrupt THEN cfg["sw"]
              ELSE IF pc[p] = "encode" THEN cache[p]["sw"]
              ELSE Torn
<1>1. ASSUME NEW l PROVE /\ Someone(l) <=> pc[p] = l
                         /\ pc[p] = l => Within(l) = p
  BY DEF Sole, Someone, Within
<1> QED BY <1>1 DEF ActiveSoftware, RecordedSoftware

\* The same after the step.
LEMMA ViewsNext ==
  ASSUME NEW p \in Procs, Sole(p)
  PROVE  /\ ActiveSoftware' =
              IF link' # NoLink THEN folder'[link'].sw
              ELSE IF pc'[p] = "symlink" THEN folder'[OtherFolder(target'[p])].sw
              ELSE Torn
         /\ RecordedSoftware' =
              IF cfg' # Corrupt THEN cfg'["sw"]
              ELSE IF pc'[p] = "encode" THEN cache'[p]["sw"]
              ELSE Torn
<1>1. ASSUME NEW l PROVE /\ Someone(l)' <=> pc'[p] = l
                         /\ pc'[p] = l => Within(l)' = p
  BY DEF Sole, Someone, Within
<1> QED BY <1>1 DEF ActiveSoftware, RecordedSoftware, OtherFolder

\* What the abstract specification sees is unchanged.
Unseen == UNCHANGED <<latest["sw"], ActiveSoftware, RecordedSoftware>>

\* A step away from the two moments in between changes nothing it sees, if it
\* leaves the link, the record and the linked software alone.
LEMMA UnseenStep ==
  ASSUME NEW p \in Procs, Sole(p), UNCHANGED <<link, cfg, latest>>,
         pc[p] \notin {"symlink", "encode"}, pc'[p] \notin {"symlink", "encode"},
         link # NoLink => folder'[link].sw = folder[link].sw
  PROVE  Unseen
BY Views, ViewsNext DEF Unseen

\* The steps of an update, seen from the abstract specification.
LEMMA UpdateRefines ==
  ASSUME TypeOK, Safe, NEW p \in Procs, Sole(p), InstallInv(p), OfferInv(p),
         CheckUpdates(p)
  PROVE  Promise!DeploymentNext \/ Unseen
<1> USE DEF disk, locals, plan
<1>0. /\ link # NoLink => folder[link].sw \in Nat
      /\ cfg # Corrupt => cfg["sw"] \in Nat
  BY SoftwareNumbers DEF Safe, ActiveSoftwareWhole, TypeOK, Whole, Folders, Release, Torn
<1>1. CASE Poll(p)
  BY <1>1, Gone, UnseenStep DEF Poll
<1>2. CASE Download(p)
  <2>1. pc'[p] \in {"send", "download", "stat"}
    BY <1>2, Returned, Gone DEF Download
  <2> QED BY <1>2, <2>1, UnseenStep DEF Download
<1>3. CASE Send(p)
  BY <1>3, UnseenStep DEF Send, ToIdle
<1>4. CASE Stat(p)
  <2>1. pc'[p] \in {"send", "download", "create"}
    BY <1>4, Returned, Gone DEF Stat
  <2> QED BY <1>4, <2>1, UnseenStep DEF Stat
<1>5. CASE Create(p)
  BY <1>5, Gone, UnseenStep DEF Create
<1>6. CASE Prepare(p)
  BY <1>6, Gone, UnseenStep DEF Prepare, Abort
<1>7. CASE Clean(p)
  <2>1. pc'[p] \in {"extract", "unlock"}
    BY <1>7, Gone DEF Clean, Abort
  <2>2. link # NoLink => folder'[link].sw = folder[link].sw
    <3>1. CASE Kind(p) = "sw"
      <4>1. target[p] # link
        BY <1>7, <3>1 DEF Clean, InstallInv, TypeOK, OtherFolder
      <4> QED BY <1>7, <3>1, <4>1 DEF Clean, TypeOK
    <3>2. CASE Kind(p) # "sw"
      BY <1>7, <3>2 DEF Clean, TypeOK, Folders
    <3> QED BY <3>1, <3>2
  <2> QED BY <1>7, <2>1, <2>2, UnseenStep DEF Clean
<1>8. CASE Extract(p)
  <2>1. pc'[p] \in {"stop", "restart", "unlock"}
    BY <1>8, Gone DEF Extract, Abort
  <2>2. link # NoLink => folder'[link].sw = folder[link].sw
    <3>1. CASE Kind(p) = "sw"
      <4>1. target[p] # link
        BY <1>8, <3>1 DEF Extract, InstallInv, TypeOK, OtherFolder
      <4> QED BY <1>8, <3>1, <4>1 DEF Extract, TypeOK
    <3>2. CASE Kind(p) # "sw"
      BY <1>8, <3>2 DEF Extract, TypeOK, Folders
    <3> QED BY <3>1, <3>2
  <2> QED BY <1>8, <2>1, <2>2, UnseenStep DEF Extract
<1>9. CASE Stop(p)
  BY <1>9, Gone, UnseenStep DEF Stop, Abort
<1>10. CASE Unlink(p)
  <2>1. CASE UNCHANGED link /\ pc'[p] = "unlock"
    BY <1>10, <2>1, UnseenStep DEF Unlink
  <2>2. CASE link # NoLink /\ link' = NoLink /\ pc'[p] = "symlink"
    <3>1. Kind(p) = "sw" /\ link \in Folders /\ target[p] = OtherFolder(link)
      BY <1>10, <2>2 DEF Unlink, InstallInv, TypeOK
    <3>2. OtherFolder(target[p]) = link
      BY <3>1 DEF OtherFolder, Folders
    <3>3. UNCHANGED <<folder, latest, cfg, target>>
      BY <1>10 DEF Unlink
    <3>4. ActiveSoftware = folder[link].sw /\ ActiveSoftware' = folder[link].sw
      BY <2>2, <3>2, <3>3, Views, ViewsNext
    <3>5. UNCHANGED RecordedSoftware
      BY <1>10, <2>2, <3>3, Views, ViewsNext DEF Unlink
    <3> QED BY <3>3, <3>4, <3>5 DEF Unseen
  <2> QED BY <1>10, <2>1, <2>2, Gone DEF Unlink, Abort
<1>11. CASE Symlink(p)
  <2>1. /\ link = NoLink /\ Kind(p) = "sw" /\ "sw" \in todo[p]
        /\ folder[target[p]].sw = offer[p]["sw"]
    BY <1>11, SoftwareNumbers DEF Symlink, InstallInv
  <2>2. target[p] \in Folders /\ OtherFolder(target[p]) \in Folders
    BY DEF TypeOK, OtherFolder, Folders
  <2> DEFINE old == folder[OtherFolder(target[p])].sw
             r   == offer[p]["sw"]
  <2>3. /\ old \in Nat /\ old <= r /\ r \in Nat /\ r <= latest["sw"]
        /\ cfg # Corrupt /\ cfg["sw"] \in Nat /\ cfg["sw"] < r
    BY <1>11, <1>0, <2>1, <2>2, SoftwareNumbers
    DEF Symlink, OfferInv, Whole, Release, Torn
  <2>4. ActiveSoftware = old /\ RecordedSoftware = cfg["sw"] /\ UNCHANGED <<cfg, latest>>
    BY <1>11, <2>1, <2>3, Views DEF Symlink
  <2>5. UNCHANGED RecordedSoftware
    BY <2>3, <2>4, ViewsNext
  <2>6. CASE link' = target[p] /\ UNCHANGED folder
    <3>1. ActiveSoftware' = r
      BY <2>1, <2>2, <2>6, ViewsNext DEF Folders, NoLink
    <3>2. r \in 1..latest["sw"] /\ old # Torn /\ cfg["sw"] # Torn
      BY <2>3, SoftwareNumbers DEF Torn
    <3>3. Promise!Switch(r)
      BY <2>3, <2>4, <2>5, <3>1, <3>2 DEF Promise!Switch
    <3> QED BY <3>2, <3>3 DEF Promise!DeploymentNext
  <2>7. CASE link' = NoLink /\ pc'[p] = "unlock"
    <3>1. ActiveSoftware' = Torn
      BY <2>7, ViewsNext
    <3>2. Promise!LoseSoftware
      BY <2>3, <2>4, <2>5, <3>1 DEF Promise!LoseSoftware, Torn
    <3> QED BY <3>2 DEF Promise!DeploymentNext
  <2> QED BY <1>11, <2>1, <2>6, <2>7, Gone DEF Symlink, Abort
<1>12. CASE Start(p)
  BY <1>12, Gone, UnseenStep DEF Start, Abort
<1>13. CASE Restart(p)
  BY <1>13, Gone, UnseenStep DEF Restart, Abort
<1>14. CASE Load(p)
  BY <1>14, Gone, UnseenStep DEF Load, Abort
<1>15. CASE Truncate(p)
  <2>1. CASE UNCHANGED cfg /\ pc'[p] = "unlock"
    BY <1>15, <2>1, UnseenStep DEF Truncate
  <2>2. CASE cfg' = Corrupt /\ pc'[p] = "encode"
    <3>1. cfg # Corrupt /\ cache[p] = cfg /\ UNCHANGED <<folder, link, latest, cache, target>>
      BY <1>15 DEF Truncate, OfferInv
    <3>2. RecordedSoftware = cfg["sw"] /\ RecordedSoftware' = cfg["sw"]
      BY <2>2, <3>1, Views, ViewsNext
    <3>3. UNCHANGED ActiveSoftware
      BY <1>15, <2>2, <3>1, Views, ViewsNext DEF Truncate
    <3> QED BY <3>1, <3>2, <3>3 DEF Unseen
  <2> QED BY <1>15, <2>1, <2>2, Gone DEF Truncate, Abort
<1>16. CASE Encode(p)
  <2>1. /\ cfg = Corrupt /\ link # NoLink /\ link = target[p] /\ pc'[p] = "unlock"
        /\ UNCHANGED <<folder, link, latest, cache>>
    <3>1. link = target[p] /\ pc'[p] = "unlock"
      BY <1>16, Gone DEF Encode, InstallInv, Abort
    <3>2. link # NoLink
      BY <3>1 DEF TypeOK, Folders, NoLink
    <3> QED BY <1>16, <3>1, <3>2 DEF Encode, OfferInv
  <2>2. /\ ActiveSoftware = folder[link].sw /\ UNCHANGED ActiveSoftware
        /\ RecordedSoftware = cache[p]["sw"]
    BY <1>16, <2>1, Views, ViewsNext DEF Encode
  <2>3. cache[p]["sw"] \in Nat /\ cache[p]["sw"] # Torn /\ folder[link].sw # Torn
    BY <1>0, <2>1, SoftwareNumbers DEF Torn
  <2>4. CASE cfg' = [cache[p] EXCEPT ![Kind(p)] = offer[p][Kind(p)]]
    <3>1. cfg' \in [Kinds -> Nat] /\ cfg' # Corrupt
      <4>1. [cache[p] EXCEPT ![Kind(p)] = offer[p][Kind(p)]] \in [Kinds -> Nat]
        BY KindType, EntryType DEF TypeOK
      <4> QED BY <2>4, <4>1, CorruptAssumption
    <3>2. RecordedSoftware' = cfg'["sw"]
      BY <3>1, ViewsNext
    <3>3. CASE Kind(p) = "sw"
      <4>1. cfg'["sw"] = offer[p]["sw"]
        BY <2>4, <3>3 DEF TypeOK, Kinds
      <4>2. folder[link].sw = offer[p]["sw"]
        BY <1>16, <2>1, <3>3 DEF Encode, InstallInv
      <4>3. Promise!Record
        BY <2>1, <2>2, <2>3, <3>2, <4>1, <4>2 DEF Promise!Record
      <4> QED BY <4>3 DEF Promise!DeploymentNext
    <3>4. CASE Kind(p) # "sw"
      <4>1. cfg'["sw"] = cache[p]["sw"]
        BY <2>4, <3>4, KindType DEF TypeOK, Kinds
      <4> QED BY <2>1, <2>2, <3>2, <4>1 DEF Unseen
    <3> QED BY <3>3, <3>4
  <2>5. CASE UNCHANGED cfg
    <3>1. RecordedSoftware' = Torn
      BY <2>1, <2>5, ViewsNext
    <3>2. Promise!LoseRecord
      BY <2>1, <2>2, <2>3, <3>1 DEF Promise!LoseRecord
    <3> QED BY <3>2 DEF Promise!DeploymentNext
  <2> QED BY <1>16, <2>4, <2>5 DEF Encode
<1>17. CASE Unlock(p)
  <2>1. pc'[p] \in {"send", "download"}
    BY <1>17, Returned DEF Unlock
  <2> QED BY <1>17, <2>1, UnseenStep DEF Unlock
<1> QED
  BY <1>1, <1>2, <1>3, <1>4, <1>5, <1>6, <1>7, <1>8, <1>9, <1>10, <1>11, <1>12,
     <1>13, <1>14, <1>15, <1>16, <1>17 DEF CheckUpdates, Update

\* The environment, seen from the abstract specification: a kill or a reboot
\* between two of the calls loses what they were moving or rewriting.
LEMMA InterruptionRefines ==
  ASSUME TypeOK, Safe, NEW p \in Procs, Sole(p), InstallInv(p), OfferInv(p),
         UNCHANGED <<folder, link, cfg, latest>>, pc'[p] = "idle"
  PROVE  Promise!DeploymentNext \/ Unseen
<1>1. CASE pc[p] \notin {"symlink", "encode"}
  BY <1>1, UnseenStep
<1>2. CASE pc[p] = "symlink"
  <2>1. link = NoLink /\ ActiveSoftware = folder[OtherFolder(target[p])].sw
    BY <1>2, Views DEF InstallInv
  <2>2. ActiveSoftware # Torn
    BY <1>2, <2>1 DEF OfferInv, Whole, Torn
  <2>3. ActiveSoftware' = Torn
    BY <2>1, ViewsNext
  <2>4. UNCHANGED RecordedSoftware
    BY <1>2, Views, ViewsNext
  <2>5. Promise!LoseSoftware
    BY <2>2, <2>3, <2>4 DEF Promise!LoseSoftware
  <2> QED BY <2>5 DEF Promise!DeploymentNext
<1>3. CASE pc[p] = "encode"
  <2>1. cfg = Corrupt /\ RecordedSoftware = cache[p]["sw"]
    BY <1>3, Views DEF OfferInv
  <2>2. RecordedSoftware # Torn
    BY <2>1, SoftwareNumbers DEF Torn
  <2>3. RecordedSoftware' = Torn
    BY <2>1, ViewsNext
  <2>4. UNCHANGED ActiveSoftware
    BY <1>3, Views, ViewsNext
  <2>5. Promise!LoseRecord
    BY <2>2, <2>3, <2>4 DEF Promise!LoseRecord
  <2> QED BY <2>5 DEF Promise!DeploymentNext
<1> QED BY <1>1, <1>2, <1>3

\* A step that changes only what the server offers is a publication.
LEMMA PublishRefines ==
  ASSUME TypeOK, NEW k \in Kinds, Publish(k)
  PROVE  Promise!DeploymentNext \/ Unseen
<1>1. UNCHANGED <<ActiveSoftware, RecordedSoftware>>
  BY <1>1 DEF Publish, disk, plan, locals, ActiveSoftware, RecordedSoftware, Someone, Within
<1>2. latest'["sw"] = latest["sw"] + 1 \/ UNCHANGED latest["sw"]
  BY DEF Publish, TypeOK, Kinds
<1> QED BY <1>1, <1>2 DEF Unseen, Promise!DeploymentNext, Promise!Publish

\* A step of the service alone is not seen.
LEMMA ServiceUnseen ==
  ASSUME UNCHANGED <<folder, link, cfg, latest, pc, target, cache>>
  PROVE  Unseen
BY DEF Unseen, ActiveSoftware, RecordedSoftware, Someone, Within

\* Without an updater there is a link and a record, and they stay.
Idle == Procs = {} => link # NoLink /\ cfg # Corrupt

\* No step takes them away then.
LEMMA IdleStep ==
  ASSUME Idle, [Next]_vars
  PROVE  Idle'
BY DEF Idle, Next, Publish, Reboot, HndrExits, vars, disk

\* The strengthening the refinement rests on.
DeploymentInv == IInv /\ Idle /\ \A p \in Procs : OfferInv(p)

\* The strengthened invariant is inductive for a sole updater.
LEMMA DeploymentInvStep == SoleUpdater /\ DeploymentInv /\ [Next]_vars => DeploymentInv'
<1> SUFFICES ASSUME SoleUpdater, DeploymentInv, [Next]_vars PROVE DeploymentInv'
  OBVIOUS
<1>1. IInv' /\ Idle'
  BY DeployStep, IdleStep DEF DeploymentInv
<1>2. TypeOK /\ Safe /\ \A p \in Procs : InstallInv(p) /\ OfferInv(p)
  BY DEF DeploymentInv, IInv, Safe
<1>3. ASSUME NEW p \in Procs PROVE OfferInv(p)'
  <2>1. \A q \in Procs : q = p
    BY DEF SoleUpdater
  <2>2. CheckUpdates(p) \/ Crash(p) \/ Reboot \/ HndrExits \/ UNCHANGED vars
        \/ \E k \in Kinds : Publish(k)
    BY <2>1 DEF Next
  <2> QED BY <1>2, <2>2, OfferStep, OfferEnvironment
<1> QED BY <1>1, <1>3 DEF DeploymentInv

\* Every step is a step of the abstract specification, or is not seen there.
LEMMA StepRefines ==
  SoleUpdater /\ DeploymentInv /\ [Next]_vars => Promise!DeploymentNext \/ Unseen
<1> SUFFICES ASSUME SoleUpdater, DeploymentInv, [Next]_vars
             PROVE  Promise!DeploymentNext \/ Unseen
  OBVIOUS
<1>1. TypeOK /\ Safe /\ \A p \in Procs : InstallInv(p) /\ OfferInv(p)
  BY DEF DeploymentInv, IInv, Safe
<1>2. ASSUME NEW p \in Procs, CheckUpdates(p) PROVE Promise!DeploymentNext \/ Unseen
  <2>1. Sole(p)
    BY DEF SoleUpdater, Sole
  <2> QED BY <1>1, <1>2, <2>1, UpdateRefines
<1>3. ASSUME NEW p \in Procs, Crash(p) \/ Reboot PROVE Promise!DeploymentNext \/ Unseen
  <2>1. Sole(p)
    BY DEF SoleUpdater, Sole
  <2>2. UNCHANGED <<folder, link, cfg, latest>> /\ pc'[p] = "idle"
    BY <1>3 DEF Crash, Reboot, ToIdle, disk
  <2> QED BY <1>1, <2>1, <2>2, InterruptionRefines
<1>4. ASSUME Procs = {}, Reboot PROVE Promise!DeploymentNext \/ Unseen
  BY <1>4 DEF DeploymentInv, Idle, Reboot, disk, Unseen, ActiveSoftware, RecordedSoftware
<1>5. CASE HndrExits \/ UNCHANGED vars
  BY <1>5, ServiceUnseen DEF HndrExits, vars, disk, plan, locals
<1>6. ASSUME NEW k \in Kinds, Publish(k) PROVE Promise!DeploymentNext \/ Unseen
  BY <1>1, <1>6, PublishRefines
<1>7. CASE Reboot
  BY <1>3, <1>4, <1>7
<1> QED BY <1>2, <1>3, <1>5, <1>6, <1>7 DEF Next

\* The installed sensor is an initial state of the abstract specification.
LEMMA DeploymentStart ==
  ASSUME Init
  PROVE  DeploymentInv /\ Promise!DeploymentInit
<1>1. IInv /\ \A p \in Procs : OfferInv(p)
  BY DeployInit, OfferInit
<1>2. link # NoLink /\ cfg # Corrupt
  BY CorruptAssumption DEF Init, Zero, NoLink
<1>3. latest["sw"] = 0 /\ ActiveSoftware = 0 /\ RecordedSoftware = 0
  BY <1>2 DEF Init, ActiveSoftware, RecordedSoftware, Zero, Kinds, Folders
<1> QED BY <1>1, <1>2, <1>3 DEF DeploymentInv, Idle, Promise!DeploymentInit

\* A sole updater implements Deployment: one switch to a later release and one
\* record of it per update, whatever fails or is killed on the way.
THEOREM Deploys == SoleUpdater => (Spec => ImplementsDeployment)
<1> SUFFICES ASSUME SoleUpdater PROVE Spec => ImplementsDeployment
  OBVIOUS
<1>1. Init => DeploymentInv /\ Promise!DeploymentInit
  BY DeploymentStart
<1>2. DeploymentInv /\ [Next]_vars => DeploymentInv'
  BY DeploymentInvStep
<1>3. DeploymentInv /\ [Next]_vars =>
        [Promise!DeploymentNext]_<<latest["sw"], ActiveSoftware, RecordedSoftware>>
  BY StepRefines DEF Unseen
<1> QED BY <1>1, <1>2, <1>3, PTL DEF Spec, ImplementsDeployment, Promise!DeploymentSpec

-----------------------------------------------------------------------------
\* A reported success is true.  A kind that succeeded is done but for the removal
\* of the lock, and kinds are dealt with in their order; what is in the linked
\* folder stays there until the next poll; what was loaded of the other kinds is
\* written back; and the service was restarted after the new rules.
Reported(p, k) == status[p][k] = "SUCCESS"

\* A kind that succeeded has been dealt with, apart from the deferred calls.
DoneInv(p) ==
  /\ pc[p] = "idle" => status[p] = NoStatus
  /\ Reported(p, "sw") => ("sw" \in todo[p] => pc[p] = "unlock")
  /\ Reported(p, "rules") => "sw" \notin todo[p] /\ ("rules" \in todo[p] => pc[p] = "unlock")

\* Its release is recorded, or about to be written back.
RecordInv(p) ==
  \A k \in {"sw", "rules"} : Reported(p, k) =>
    /\ cfg # Corrupt => cfg[k] = offer[p][k]
    /\ pc[p] = "encode" => cache[p][k] = offer[p][k]

\* Its release is in the linked folder, and the service runs its rules.
InUseInv(p) ==
  /\ Reported(p, "sw") => link # NoLink /\ folder[link].sw = offer[p]["sw"]
  /\ Reported(p, "rules") =>
       /\ link # NoLink /\ folder[link].rules = offer[p]["rules"]
       /\ svc.up => svc.rules = offer[p]["rules"]

\* New rules are in the linked folder before the restart, and running after it.
NewRulesInv(p) ==
  Kind(p) = "rules" =>
    /\ pc[p] \in {"restart", "load", "truncate", "encode"} =>
         folder[target[p]].rules = offer[p]["rules"]
    /\ pc[p] \in {"load", "truncate", "encode"} /\ svc.up =>
         svc.rules = offer[p]["rules"]

\* The four parts.
SuccessInv(p) == DoneInv(p) /\ RecordInv(p) /\ InUseInv(p) /\ NewRulesInv(p)

\* The kinds in the order they are dealt with.
LEMMA KindOrder ==
  ASSUME TypeOK, NEW p \in Procs
  PROVE  /\ status[p] \in [Kinds -> Statuses] /\ offer[p] \in [Kinds -> Nat]
         /\ cache[p] \in [Kinds -> Nat] /\ todo[p] \subseteq Kinds /\ Kind(p) \in Kinds
         /\ Kind(p) = "sw" <=> "sw" \in todo[p]
         /\ Kind(p) = "rules" <=> "sw" \notin todo[p] /\ "rules" \in todo[p]
BY KindType DEF TypeOK, Kind, First

\* While an update is at work at most the software, the kind before it, has succeeded.
LEMMA Midway ==
  ASSUME TypeOK, NEW p \in Procs, InstallInv(p), DoneInv(p), pc[p] \in Installing
  PROVE  /\ ~Reported(p, "rules")
         /\ Reported(p, "sw") => Kind(p) = "rules"
BY KindOrder DEF InstallInv, DoneInv, Installing, Reported

\* A step of an update other than its last reports nothing new.
LEMMA MidwayKept ==
  ASSUME TypeOK, NEW p \in Procs, InstallInv(p), DoneInv(p), pc[p] \in Installing,
         UNCHANGED <<todo, status, offer>>, pc'[p] \in Installing \cup {"unlock"},
         Reported(p, "sw") /\ Kind(p) = "rules" =>
           /\ UNCHANGED link /\ link # NoLink /\ folder'[link].sw = folder[link].sw
           /\ cfg' = cfg \/ cfg' = Corrupt
           /\ pc'[p] = "encode" => cache'[p]["sw"] = cfg["sw"] /\ cfg # Corrupt,
         RecordInv(p), InUseInv(p)
  PROVE  DoneInv(p)' /\ RecordInv(p)' /\ InUseInv(p)'
<1>1. ~Reported(p, "rules") /\ (Reported(p, "sw") => Kind(p) = "rules")
  BY Midway
<1>2. \A k : Reported(p, k)' <=> Reported(p, k)
  BY DEF Reported
<1>3. DoneInv(p)'
  BY <1>1, <1>2, KindOrder DEF DoneInv, Installing
<1>4. RecordInv(p)'
  BY <1>1, <1>2 DEF RecordInv
<1>5. InUseInv(p)'
  BY <1>1, <1>2 DEF InUseInv
<1> QED BY <1>3, <1>4, <1>5

\* A step between updates keeps the success of the kinds done before.
LEMMA BetweenKept ==
  ASSUME TypeOK, NEW p \in Procs, SuccessInv(p),
         UNCHANGED <<folder, link, cfg, svc, offer>>,
         \A k \in {"sw", "rules"} : Reported(p, k)' => Reported(p, k),
         todo'[p] \subseteq todo[p],
         pc'[p] \in {"send", "download", "stat"},
         Reported(p, "sw")' => "sw" \notin todo'[p],
         Reported(p, "rules")' => todo'[p] \cap {"sw", "rules"} = {}
  PROVE  SuccessInv(p)'
<1>1. DoneInv(p)'
  BY DEF DoneInv
<1>2. RecordInv(p)'
  BY DEF SuccessInv, RecordInv
<1>3. InUseInv(p)'
  BY DEF SuccessInv, InUseInv
<1>4. NewRulesInv(p)'
  BY DEF NewRulesInv
<1> QED BY <1>1, <1>2, <1>3, <1>4 DEF SuccessInv

\* The process's own steps keep it.
LEMMA SuccessStep ==
  ASSUME TypeOK, Safe, NEW p \in Procs, InstallInv(p), OfferInv(p), SuccessInv(p),
         CheckUpdates(p)
  PROVE  SuccessInv(p)'
<1> USE DEF disk, locals, plan
<1>0. DoneInv(p) /\ RecordInv(p) /\ InUseInv(p) /\ NewRulesInv(p)
  BY DEF SuccessInv
<1>1. CASE Poll(p)
  <2>1. pc'[p] = "download" /\ status'[p] = NoStatus
    BY <1>0, <1>1, Gone DEF Poll, DoneInv
  <2>2. ~Reported(p, "sw")' /\ ~Reported(p, "rules")'
    BY <2>1 DEF Reported, NoStatus, Kinds
  <2> QED BY <2>1, <2>2 DEF SuccessInv, DoneInv, RecordInv, InUseInv, NewRulesInv
<1>2. CASE Download(p)
  <2>1. Kind(p) # "ti" => ~Reported(p, Kind(p))
    BY <1>0, <1>2, KindOrder DEF Download, DoneInv, Kinds
  <2>2. /\ UNCHANGED <<folder, link, cfg, svc, offer>>
        /\ todo'[p] \subseteq todo[p] /\ pc'[p] \in {"send", "download", "stat"}
    BY <1>2, Gone, Returned DEF Download
  <2>3. \A k \in {"sw", "rules"} : Reported(p, k)' => Reported(p, k) /\ k # Kind(p)
    <3>1. \A k \in Kinds : k # Kind(p) => status'[p][k] = status[p][k]
      BY <1>2, KindOrder DEF Download, TypeOK, Kinds
    <3>2. Kind(p) # "ti" => status'[p][Kind(p)] = "FAILED"
      BY <1>2, KindOrder DEF Download, TypeOK
    <3> QED BY <3>1, <3>2 DEF Reported, Kinds
  <2>4. /\ Reported(p, "sw")' => "sw" \notin todo'[p]
        /\ Reported(p, "rules")' => todo'[p] \cap {"sw", "rules"} = {}
    BY <1>0, <1>2, <2>2, <2>3 DEF Download, DoneInv
  <2> QED BY <2>2, <2>3, <2>4, BetweenKept
<1>3. CASE Send(p)
  <2>1. pc'[p] = "idle" /\ status'[p] = NoStatus
    BY <1>3 DEF Send, ToIdle
  <2>2. ~Reported(p, "sw")' /\ ~Reported(p, "rules")'
    BY <2>1 DEF Reported, NoStatus, Kinds
  <2> QED BY <2>1, <2>2 DEF SuccessInv, DoneInv, RecordInv, InUseInv, NewRulesInv
<1>4. CASE Return(p) /\ (Stat(p) \/ Unlock(p))
  <2>1. /\ UNCHANGED <<folder, link, cfg, svc, offer, status>>
        /\ todo'[p] = todo[p] \ {Kind(p)} /\ pc'[p] \in {"send", "download"}
    BY <1>4, Returned DEF Stat, Unlock, Return, TypeOK
  <2>2. \A k : Reported(p, k)' <=> Reported(p, k)
    BY <2>1 DEF Reported
  <2>3. /\ Reported(p, "sw") => "sw" \notin todo'[p]
        /\ Reported(p, "rules") => todo'[p] \cap {"sw", "rules"} = {}
    BY <1>0, <2>1, KindOrder DEF DoneInv
  <2> QED BY <2>1, <2>2, <2>3, BetweenKept
<1>5. CASE ~Return(p) /\ Stat(p)
  <2>1. /\ UNCHANGED <<disk, cfg, todo, status, offer, cache>> /\ pc[p] \in Installing
        /\ pc'[p] = "create"
    BY <1>5, Gone DEF Stat, Installing
  <2>2. DoneInv(p)' /\ RecordInv(p)' /\ InUseInv(p)'
    BY <1>0, <2>1, MidwayKept DEF Installing, InUseInv
  <2> QED BY <2>1, <2>2 DEF SuccessInv, NewRulesInv
<1>6. CASE Create(p) \/ Prepare(p)
  <2>1. /\ UNCHANGED <<disk, cfg, todo, status, offer>> /\ pc[p] \in Installing
        /\ pc'[p] \in {"prepare", "clean", "unlock"}
    BY <1>6, Gone DEF Create, Prepare, Abort, Installing
  <2>2. DoneInv(p)' /\ RecordInv(p)' /\ InUseInv(p)'
    BY <1>0, <2>1, MidwayKept DEF Installing, InUseInv
  <2> QED BY <2>1, <2>2 DEF SuccessInv, NewRulesInv
<1>7. CASE Clean(p)
  <2>1. /\ UNCHANGED <<link, cfg, todo, status, offer>> /\ pc[p] \in Installing
        /\ pc'[p] \in {"extract", "unlock"}
    BY <1>7, Gone DEF Clean, Abort, Installing
  <2>2. Kind(p) = "rules" => \A f \in Folders : folder'[f].sw = folder[f].sw
    BY <1>7 DEF Clean, TypeOK, Folders
  <2>3. DoneInv(p)' /\ RecordInv(p)' /\ InUseInv(p)'
    BY <1>0, <2>1, <2>2, MidwayKept DEF Installing, InUseInv, TypeOK
  <2> QED BY <2>1, <2>3 DEF SuccessInv, NewRulesInv
<1>8. CASE Extract(p)
  <2>1. /\ UNCHANGED <<link, cfg, todo, status, offer, target>> /\ pc[p] \in Installing
        /\ pc'[p] \in {"stop", "restart", "unlock"}
    BY <1>8, Gone DEF Extract, Abort, Installing
  <2>2. Kind(p) = "rules" => \A f \in Folders : folder'[f].sw = folder[f].sw
    BY <1>8 DEF Extract, TypeOK, Folders
  <2>3. DoneInv(p)' /\ RecordInv(p)' /\ InUseInv(p)'
    BY <1>0, <2>1, <2>2, MidwayKept DEF Installing, InUseInv, TypeOK
  <2>4. Kind(p) = "rules" /\ pc'[p] = "restart" =>
          folder'[target[p]].rules = offer[p]["rules"]
    BY <1>8, Gone DEF Extract, Abort, TypeOK, Folders
  <2>5. Kind(p)' = Kind(p)
    BY <2>1 DEF Kind
  <2> QED BY <2>1, <2>3, <2>4, <2>5 DEF SuccessInv, NewRulesInv
<1>9. CASE Stop(p) \/ Unlink(p) \/ Symlink(p) \/ Start(p)
  <2>1. /\ UNCHANGED <<folder, cfg, todo, status, offer>> /\ pc[p] \in Installing
        /\ pc'[p] \in {"unlink", "symlink", "start", "load", "unlock"}
    BY <1>9, Gone DEF Stop, Unlink, Symlink, Start, Abort, Installing
  <2>2. Kind(p) = "sw" /\ Kind(p)' = "sw"
    BY <1>9, <2>1 DEF Stop, Unlink, Symlink, Start, InstallInv, Kind
  <2>3. DoneInv(p)' /\ RecordInv(p)' /\ InUseInv(p)'
    BY <1>0, <2>1, <2>2, MidwayKept DEF Installing
  <2> QED BY <2>2, <2>3 DEF SuccessInv, NewRulesInv
<1>10. CASE Restart(p)
  <2>1. /\ UNCHANGED <<folder, link, cfg, todo, status, offer, target>>
        /\ pc[p] \in Installing /\ pc'[p] \in {"load", "unlock"}
        /\ Kind(p) = "rules" /\ link = target[p]
    BY <1>10, Gone DEF Restart, Abort, Installing, InstallInv
  <2>2. DoneInv(p)' /\ RecordInv(p)' /\ InUseInv(p)'
    BY <1>0, <2>1, MidwayKept DEF Installing, InUseInv
  <2>3. folder[link].rules = offer[p]["rules"]
    BY <1>0, <1>10, <2>1 DEF Restart, NewRulesInv
  <2>4. pc'[p] = "load" => svc'.rules = folder[link].rules
    BY <1>10, Gone DEF Restart, Abort, HndrFromLink
  <2> QED BY <2>1, <2>2, <2>3, <2>4 DEF SuccessInv, NewRulesInv
<1>11. CASE Load(p) \/ Truncate(p)
  <2>1. /\ UNCHANGED <<folder, link, svc, todo, status, offer, target>>
        /\ pc[p] \in Installing /\ pc'[p] \in {"truncate", "encode", "unlock"}
        /\ pc[p] \in {"load", "truncate"} /\ cfg' \in {cfg, Corrupt}
        /\ pc'[p] = "encode" => pc[p] = "truncate" /\ UNCHANGED cache
    BY <1>11, Gone DEF Load, Truncate, Abort, Installing
  <2>2. pc'[p] = "encode" => cfg # Corrupt /\ cache'[p] = cfg
    BY <2>1 DEF OfferInv
  <2>3. DoneInv(p)' /\ RecordInv(p)' /\ InUseInv(p)'
    BY <1>0, <2>1, <2>2, MidwayKept DEF Installing, InUseInv
  <2>4. NewRulesInv(p)'
    BY <1>0, <2>1 DEF NewRulesInv, Kind
  <2> QED BY <2>3, <2>4 DEF SuccessInv
<1>12. CASE Encode(p)
  <2>1. /\ UNCHANGED <<folder, link, svc, todo, offer>>
        /\ pc[p] \in Installing /\ pc'[p] = "unlock" /\ link = target[p] /\ link # NoLink
    <3>1. link = target[p] /\ target[p] \in Folders
      BY <1>12 DEF Encode, InstallInv, TypeOK
    <3> QED BY <1>12, <3>1, Gone DEF Encode, Abort, Installing, Folders, NoLink
  <2>2. NewRulesInv(p)'
    BY <2>1 DEF NewRulesInv
  <2>3. CASE UNCHANGED <<cfg, status>>
    <3>1. DoneInv(p)' /\ RecordInv(p)' /\ InUseInv(p)'
      BY <1>0, <2>1, <2>3, MidwayKept DEF Installing, InUseInv
    <3> QED BY <2>2, <3>1 DEF SuccessInv
  <2>4. CASE /\ cfg' = [cache[p] EXCEPT ![Kind(p)] = offer[p][Kind(p)]]
             /\ status' = [status EXCEPT ![p][Kind(p)] = "SUCCESS"]
    <3>1. Kind(p) \in {"sw", "rules"}
      BY <2>1 DEF InstallInv
    <3>2. ~Reported(p, "rules") /\ (Reported(p, "sw") => Kind(p) = "rules")
      BY <1>0, <2>1, Midway
    <3>3. \A k \in {"sw", "rules"} : Reported(p, k)' <=> k = Kind(p) \/ Reported(p, k)
      BY <2>4, <3>1, KindOrder DEF Reported, TypeOK, Kinds
    <3>4. \A k \in {"sw", "rules"} :
            cfg'[k] = IF k = Kind(p) THEN offer[p][k] ELSE cache[p][k]
      BY <2>4, <3>1, KindOrder DEF TypeOK, Kinds
    <3>5. DoneInv(p)'
      BY <2>1, <3>1, <3>2, <3>3, KindOrder DEF DoneInv
    <3>6. RecordInv(p)'
      BY <1>0, <1>12, <2>1, <3>3, <3>4 DEF RecordInv, Encode
    <3>7. InUseInv(p)'
      <4>1. Kind(p) = "sw" => folder[link].sw = offer[p]["sw"]
        BY <1>12, <2>1 DEF Encode, InstallInv
      <4>2. Kind(p) = "rules" => /\ folder[link].rules = offer[p]["rules"]
                                 /\ svc.up => svc.rules = offer[p]["rules"]
        BY <1>0, <1>12, <2>1 DEF Encode, NewRulesInv
      <4> QED BY <1>0, <2>1, <3>1, <3>2, <3>3, <4>1, <4>2 DEF InUseInv
    <3> QED BY <2>2, <3>5, <3>6, <3>7 DEF SuccessInv
  <2> QED BY <1>12, <2>3, <2>4 DEF Encode
<1> QED
  BY <1>1, <1>2, <1>3, <1>4, <1>5, <1>6, <1>7, <1>8, <1>9, <1>10, <1>11, <1>12
  DEF CheckUpdates, Update, Unlock

\* At first nothing is reported and no update is under way.
LEMMA SuccessInit ==
  ASSUME Init, NEW p \in Procs
  PROVE  SuccessInv(p)
BY DEF Init, SuccessInv, DoneInv, RecordInv, InUseInv, NewRulesInv, Reported, NoStatus, Kinds

\* A process that is idle again reports nothing.
LEMMA SuccessIdle ==
  ASSUME NEW p \in Procs, pc'[p] = "idle", status'[p] = NoStatus
  PROVE  SuccessInv(p)'
<1>1. ~Reported(p, "sw")' /\ ~Reported(p, "rules")'
  BY DEF Reported, NoStatus, Kinds
<1> QED BY <1>1 DEF SuccessInv, DoneInv, RecordInv, InUseInv, NewRulesInv

\* A service that exits comes back with what the linked folder holds, or not at all.
LEMMA SuccessHndrExits ==
  ASSUME TypeOK, NEW p \in Procs, InstallInv(p), SuccessInv(p), HndrExits
  PROVE  SuccessInv(p)'
<1> USE DEF disk, locals, plan
<1>1. UNCHANGED <<folder, link, cfg, pc, offer, todo, status, target, cache>>
  BY DEF HndrExits
<1>2. svc'.up => svc'.rules = folder[link].rules
  BY DEF HndrExits, HndrFromLink, HndrDown
<1>3. DoneInv(p)' /\ RecordInv(p)'
  BY <1>1 DEF SuccessInv, DoneInv, RecordInv, Reported
<1>4. InUseInv(p)'
  BY <1>1, <1>2 DEF SuccessInv, InUseInv, Reported
<1>5. NewRulesInv(p)'
  BY <1>1, <1>2 DEF SuccessInv, NewRulesInv, InstallInv, Kind
<1> QED BY <1>3, <1>4, <1>5 DEF SuccessInv

\* The steps of the environment keep it.
LEMMA SuccessEnvironment ==
  ASSUME TypeOK, NEW p \in Procs, InstallInv(p), SuccessInv(p),
         Crash(p) \/ Reboot \/ HndrExits \/ UNCHANGED vars \/ \E k \in Kinds : Publish(k)
  PROVE  SuccessInv(p)'
<1> USE DEF disk, locals, plan
<1>1. CASE Crash(p) \/ Reboot
  <2>1. pc'[p] = "idle" /\ status'[p] = NoStatus
    BY <1>1 DEF Crash, Reboot, ToIdle
  <2> QED BY <2>1, SuccessIdle
<1>2. CASE HndrExits
  BY <1>2, SuccessHndrExits
<1>3. CASE UNCHANGED vars \/ \E k \in Kinds : Publish(k)
  <2>1. UNCHANGED <<folder, link, cfg, svc, pc, offer, todo, status, target, cache>>
    BY <1>3 DEF vars, Publish
  <2> QED BY <2>1 DEF SuccessInv, DoneInv, RecordInv, InUseInv, NewRulesInv, Reported, Kind
<1> QED BY <1>1, <1>2, <1>3

\* What it says of a process that is about to report.
LEMMA SuccessHolds ==
  ASSUME NEW p \in Procs, SuccessInv(p)
  PROVE  /\ status[p]["sw"] = "SUCCESS" =>
              /\ link # NoLink
              /\ folder[link].sw = offer[p]["sw"]
              /\ cfg # Corrupt => cfg["sw"] = offer[p]["sw"]
         /\ status[p]["rules"] = "SUCCESS" =>
              /\ link # NoLink
              /\ folder[link].rules = offer[p]["rules"]
              /\ cfg # Corrupt => cfg["rules"] = offer[p]["rules"]
              /\ svc.up => svc.rules = offer[p]["rules"]
BY DEF SuccessInv, RecordInv, InUseInv, Reported

\* The strengthening of SuccessIsDeployed.
ReportInv == DeploymentInv /\ \A p \in Procs : SuccessInv(p)

\* It is inductive for a sole updater.
LEMMA ReportInvStep == SoleUpdater /\ ReportInv /\ [Next]_vars => ReportInv'
<1> SUFFICES ASSUME SoleUpdater, ReportInv, [Next]_vars PROVE ReportInv'
  OBVIOUS
<1>1. DeploymentInv'
  BY DeploymentInvStep DEF ReportInv
<1>2. TypeOK /\ Safe /\ \A p \in Procs : InstallInv(p) /\ OfferInv(p) /\ SuccessInv(p)
  BY DEF ReportInv, DeploymentInv, IInv, Safe
<1>3. ASSUME NEW p \in Procs PROVE SuccessInv(p)'
  <2>1. \A q \in Procs : q = p
    BY DEF SoleUpdater
  <2>2. CheckUpdates(p) \/ Crash(p) \/ Reboot \/ HndrExits \/ UNCHANGED vars
        \/ \E k \in Kinds : Publish(k)
    BY <2>1 DEF Next
  <2> QED BY <1>2, <2>2, SuccessStep, SuccessEnvironment
<1> QED BY <1>1, <1>3 DEF ReportInv

\* A "SUCCESS" that a sole updater is about to report is true: the release it was
\* offered is in the linked folder, recorded, and what the service runs on
\* (CheckUpdates, UpateSoftwareNow, UpateRulesNow).
THEOREM SuccessDeployed == SoleUpdater => (Spec => []SuccessIsDeployed)
<1> SUFFICES ASSUME SoleUpdater PROVE Spec => []SuccessIsDeployed
  OBVIOUS
<1>1. Init => ReportInv
  BY DeploymentStart, SuccessInit DEF ReportInv
<1>2. ReportInv /\ [Next]_vars => ReportInv'
  BY ReportInvStep
<1>3. ReportInv => SuccessIsDeployed
  <2> SUFFICES ASSUME ReportInv PROVE SuccessIsDeployed
    OBVIOUS
  <2>1. ASSUME NEW p \in Procs PROVE SuccessInv(p)
    BY DEF ReportInv
  <2> QED BY <2>1, SuccessHolds, Zenon DEF SuccessIsDeployed
<1> QED BY <1>1, <1>2, <1>3, PTL DEF Spec
=============================================================================
