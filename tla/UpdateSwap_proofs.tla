------------------------- MODULE UpdateSwap_proofs -------------------------
(***************************************************************************)
(* That an interrupted swap loses nothing, whatever the files, the         *)
(* releases and the incidents, until a recovery does one of the harms the  *)
(* model names; and what holds of a running app even then.                 *)
(*                                                                         *)
(* NothingLost speaks of what a launch would make of the folder, and no    *)
(* step of the swap can be judged by that alone.  The inductive invariant  *)
(* IInv has three parts.  Working says, for each phase, which files have   *)
(* been replaced, which have their original in .bak and what the journal   *)
(* says of them: it holds until the app and the updater work at once.      *)
(* Whole says that what a launch settles on is one release, and where a    *)
(* rollback of it is: it holds until the folder comes to harm.             *)
(***************************************************************************)
EXTENDS UpdateSwap, TLAPS

(* The processes do not overlap: the updater works while the app is off.   *)
Alone ==
    /\ updater \notin {"none", "waiting", "relaunching"} => app = "off"
    /\ updater = "waiting" => app \in {"off", "leaving"}

(* What the journal on disk is, in each phase of either process.           *)
JournalFits ==
    /\ updater \in {"journaling", "confirming"} => journal.state = "torn"
    /\ updater \in {"backing", "installing", "copying", "deleting"} =>
          journal = plan
    /\ updater = "cleaning" => journal.state = "committed"
    /\ app \in {"rolling", "restoring"} =>
          held = journal /\ journal.state = "pending"
    /\ app = "sweeping" => held = journal /\ journal.state = "committed"

Planned == {"journaling", "backing", "installing", "copying", "deleting", "confirming"}

(* What the plan says of the target and of the files it leaves alone.      *)
PlanFits ==
    updater \in Planned =>
        /\ plan.state = "pending"
        /\ plan.fresh \subseteq plan.files
        /\ plan.files \subseteq Ships(target)
        /\ plan.dropped = DeletedFiles
        /\ \A p \in Ships(target) \ plan.files : disk[p] = Release[target][p]

(* A .bak that has not outlived its update.                                *)
Backed(p) == bak[p] # Absent /\ p \notin stale

(* A folder between updates: past a recovery, or not yet under an update.  *)
AtRest ==
    \/ app \in {"loading", "running", "leaving"}
    \/ updater \in {"waiting", "comparing"}

(* Which files may be backed.                                              *)
BaksFit ==
    \A p \in Paths : Backed(p) =>
        /\ ~AtRest /\ updater # "journaling"
        /\ IF updater = "confirming" THEN p \in plan.files
           ELSE journal.state \in {"pending", "committed"} /\ p \in journal.files
        /\ journal.state = "pending" => p \notin journal.fresh
        /\ updater = "cleaning" => p \in todo
        /\ app \in {"rolling", "restoring", "sweeping"} => p \in rest

(* A file the swap has not reached is as it was, not backed.               *)
Untouched(p) == ~Backed(p) /\ (p \in plan.fresh <=> disk[p] = Absent)

(* A file it has taken away is backed, if it was there.                    *)
Saved(p) == p \notin plan.fresh => Backed(p)

(* Where the swap of each file is.                                         *)
SwapFits ==
    /\ updater = "journaling" => \A p \in plan.files : Untouched(p)
    /\ updater = "backing" =>
          /\ todo \subseteq plan.files
          /\ \A p \in todo : Untouched(p)
          /\ \A p \in plan.files \ todo : Saved(p) /\ disk[p] = Release[target][p]
    /\ updater \in {"installing", "copying"} =>
          /\ todo \subseteq plan.files
          /\ \A p \in todo : IF p \in Earliest(todo) THEN Saved(p) ELSE Untouched(p)
          /\ \A p \in plan.files \ todo : Saved(p) /\ disk[p] = Release[target][p]
    /\ updater = "deleting" =>
          /\ todo \subseteq plan.dropped
          /\ \A p \in plan.files : Saved(p) /\ disk[p] = Release[target][p]
    /\ updater = "confirming" =>
          \A p \in Ships(target) : disk[p] = Release[target][p]

(* A running app found its own front.                                      *)
FrontFits == app \in {"running", "leaving"} => disk[Front] = image

Working == Alone /\ JournalFits /\ PlanFits /\ BaksFit /\ SwapFits /\ FrontFits

(* What a launch settles on is one release.                                *)
OneRelease ==
    /\ Version \in Versions
    /\ \A p \in Ships(Version) :
          \/ Settled(p) = Release[Version][p]
          \/ Settled(p) = Absent /\ p \in Unprotected(Version)

(* The version asked for is above the one installed until it is committed. *)
Ahead ==
    updater \in {"waiting", "comparing"} \cup (Planned \ {"confirming"}) =>
        target > Version

(* Where the rollback of each file is.                                     *)
RollFits ==
    /\ app \in {"rolling", "restoring"} =>
          /\ rest \subseteq journal.files
          /\ \A p \in journal.files \ rest : p \in journal.fresh => disk[p] = Absent
    /\ app = "restoring" =>
          \A p \in Earliest(rest) : p \notin journal.fresh /\ Backed(p)

(* A folder between updates is settled.                                    *)
Rested == AtRest => \A p \in Paths : Settled(p) = disk[p]

(* A committed update drops no file of its own release.                    *)
CommitFits ==
    journal.state = "committed" => journal.dropped \cap Ships(Version) = {}

RunsFit == app \in {"running", "leaving"} => image = Version

MarkFits == mark <= Version

Whole ==
    OneRelease /\ Ahead /\ RollFits /\ Rested /\ CommitFits /\ RunsFit /\ MarkFits

IInv ==
    /\ TypeOK
    /\ "overlap" \notin harm => Working
    /\ harm = {} => Whole

-----------------------------------------------------------------------------
(* The executable and the front's manifest are in every release, in its    *)
(* own content.                                                            *)
LEMMA Own ==
    ASSUME NEW v \in Versions
    PROVE  /\ v \in Nat /\ v > 0
           /\ Exe \in Ships(v) /\ Front \in Ships(v)
           /\ Release[v][Exe] = v /\ Release[v][Front] = v
           /\ Exe \notin Unprotected(v) /\ Front \notin Unprotected(v)
<1>1. \A w \in Versions : w \in Nat /\ w > 0 /\ Release[w][Exe] = w /\ Release[w][Front] = w
  BY UpdateAssumption DEF Versions
<1>2. \A w \in Versions : Exe \in Ships(w) /\ Front \in Ships(w)
  BY <1>1, UpdateAssumption DEF Ships, Absent
<1> QED
  BY <1>1, <1>2 DEF Unprotected

(* What a launch settles on hangs on the folder alone.                     *)
LEMMA SameFolder ==
    ASSUME disk' = disk, bak' = bak, journal' = journal, stale' = stale
    PROVE  \A p \in Paths : Settled(p)' = Settled(p)
  BY DEF Settled, Undone

(* While no file's settled content changes, nothing is lost.               *)
LEMMA SameSettled ==
    ASSUME OneRelease, \A p \in Paths : Settled(p)' = Settled(p)
    PROVE  Version' = Version /\ OneRelease'
<1>1. Version' = Version
  BY UpdateAssumption DEF Version
<1>2. Version \in Versions
  BY DEF OneRelease
<1>3. ASSUME NEW p \in Ships(Version)
      PROVE  \/ Settled(p)' = Release[Version][p]
             \/ Settled(p)' = Absent /\ p \in Unprotected(Version)
  BY <1>3 DEF OneRelease, Ships
<1>4. \A p \in Ships(Version)' : p \in Ships(Version)
  BY <1>1 DEF Ships
<1>5. OneRelease'
  BY <1>1, <1>2, <1>3, <1>4 DEF OneRelease, Ships, Unprotected
<1> QED
  BY <1>1, <1>5

(* With no journal, or one that is not undone, the disk is what settles.   *)
LEMMA OnDisk ==
    ASSUME journal.state # "pending"
    PROVE  (\A p \in Paths : Settled(p) = disk[p]) /\ Version = disk[Exe]
  BY UpdateAssumption DEF Settled, Undone, Version

LEMMA OnDiskNext ==
    ASSUME journal'.state # "pending"
    PROVE  (\A p \in Paths : Settled(p)' = disk'[p]) /\ Version' = disk'[Exe]
  BY UpdateAssumption DEF Settled, Undone, Version

(* Loops take one path at a time. *)
LEMMA OneEarliest ==
    ASSUME NEW S \in SUBSET Paths, NEW p \in Earliest(S), NEW q \in Earliest(S)
    PROVE  p = q /\ p \in S
  BY UpdateAssumption DEF Earliest

-----------------------------------------------------------------------------
(* Type correctness: it needs nothing else. *)

LEMMA Blanks == \A s \in {"none", "torn"} : Blank(s) \in Journals /\ Blank(s).state = s
  BY DEF Blank, Journals

LEMMA InitType == Init => TypeOK
<1> SUFFICES ASSUME Init PROVE TypeOK
  OBVIOUS
<1> USE UpdateAssumption DEF Init
<1>1. disk \in [Paths -> Contents] /\ bak \in [Paths -> Contents]
  BY DEF Contents, Versions, Absent
<1>2. journal \in Journals /\ plan \in Journals /\ held \in Journals
  BY Blanks
<1>3. mark \in 0..Newest /\ incidents \in 0..MaxIncidents /\ todo \subseteq Paths /\ rest \subseteq Paths
  OBVIOUS
<1>4. updater \in UpdaterStates /\ app \in AppStates
  BY DEF UpdaterStates, AppStates
<1> QED
  BY <1>1, <1>2, <1>3, <1>4 DEF TypeOK

(* An incident is counted. *)
LEMMA Counted ==
    ASSUME TypeOK, NEW done \in BOOLEAN, NEW k \in IncidentKinds,
           \/ Unchecked(done) \/ Incident(k) \/ UNCHANGED incidents
    PROVE  incidents' \in 0..MaxIncidents
  BY UpdateAssumption DEF TypeOK, Unchecked, Incident

LEMMA DropType == ASSUME TypeOK, DropJournal PROVE journal' \in Journals /\ incidents' \in 0..MaxIncidents
  BY Blanks, UpdateAssumption DEF DropJournal, TypeOK, Unchecked, Incident

LEMMA UpdaterType ==
    ASSUME TypeOK, UpdaterStep
    PROVE  TypeOK'
<1> USE DEF folder, updaterVars, appVars, history
<1>0. TypeOK
  OBVIOUS
<1>1. CASE WaitForExit \/ GiveUp
  BY <1>1, <1>0 DEF WaitForExit, GiveUp, TypeOK, UpdaterStates
<1>2. CASE Compare
  <2>1. journal' \in Journals /\ incidents' \in 0..MaxIncidents /\ staged' \in BOOLEAN
    <3>1. CASE NothingToUpdate
      BY <3>1, <1>0, DropType DEF NothingToUpdate
    <3>2. CASE Prepare
      BY <3>2, <1>0, Blanks DEF Prepare, TypeOK
    <3> QED
      BY <1>2, <3>1, <3>2 DEF Compare
  <2>2. plan' \in Journals
    <3>1. FilesToUpdate \subseteq Paths /\ DeletedFiles \subseteq Paths
      BY DEF FilesToUpdate, DeletedFiles, Ships
    <3>2. CASE NothingToUpdate
      BY <3>2, <1>0 DEF NothingToUpdate, TypeOK
    <3>3. CASE Prepare
      BY <3>3, <3>1 DEF Prepare, Journals
    <3> QED
      BY <1>2, <3>2, <3>3 DEF Compare
  <2>3. updater' \in UpdaterStates
    BY <1>2 DEF Compare, NothingToUpdate, Prepare, UpdaterStates
  <2> QED
    BY <1>0, <1>2, <2>1, <2>2, <2>3 DEF Compare, TypeOK
<1>3. CASE WriteJournal \/ AllInstalled
  BY <1>3, <1>0 DEF WriteJournal, AllInstalled, TypeOK, UpdaterStates, Journals
<1>4. CASE StartCommit
  BY <1>4, <1>0, Blanks DEF StartCommit, TypeOK, UpdaterStates
<1>5. CASE Commit
  BY <1>5, <1>0 DEF Commit, Committed, TypeOK, UpdaterStates, Journals
<1>6. CASE EndCleanup
  BY <1>6, <1>0, DropType DEF EndCleanup, TypeOK, UpdaterStates
<1>7. CASE Relaunch
  BY <1>7, <1>0 DEF Relaunch, Startable, TypeOK, UpdaterStates, AppStates
<1>8. CASE Fail
  <2>1. incidents' \in 0..MaxIncidents
    BY <1>8, <1>0, UpdateAssumption DEF Fail, Incident, TypeOK
  <2>2. journal' \in Journals /\ stale' \subseteq Paths
    <3>1. Committed \in Journals
      BY <1>0 DEF Committed, TypeOK, Journals
    <3> QED
      BY <1>8, <1>0, <3>1 DEF Fail, WriteFails, Baks, TypeOK
  <2> QED
    BY <1>8, <1>0, <2>1, <2>2 DEF Fail, TypeOK, UpdaterStates
<1>9. ASSUME NEW p \in Paths, Backup(p) PROVE TypeOK'
  <2>1. disk' \in [Paths -> Contents] /\ bak' \in [Paths -> Contents]
    BY <1>9, <1>0, UpdateAssumption DEF Backup, TypeOK, Contents, Absent
  <2>2. stale' \subseteq Paths
    BY <1>9, <1>0 DEF Backup, TypeOK
  <2> QED
    BY <1>9, <1>0, <2>1, <2>2 DEF Backup, TypeOK, UpdaterStates
<1>10. ASSUME NEW p \in Paths, Install(p) \/ StartCopy(p) \/ EndCopy(p) PROVE TypeOK'
  <2>1. Release[target][p] \in Contents /\ Torn \in Contents
    BY <1>0, UpdateAssumption DEF TypeOK, Contents, Torn
  <2>2. disk' \in [Paths -> Contents]
    BY <1>10, <1>0, <2>1 DEF Install, StartCopy, EndCopy, TypeOK
  <2>3. incidents' \in 0..MaxIncidents
    BY <1>10, <1>0, UpdateAssumption DEF Install, StartCopy, EndCopy, Incident, TypeOK
  <2> QED
    BY <1>10, <1>0, <2>2, <2>3 DEF Install, StartCopy, EndCopy, TypeOK, UpdaterStates
<1>11. ASSUME NEW p \in Paths, DeleteObsolete(p) PROVE TypeOK'
  <2>1. disk' \in [Paths -> Contents] /\ incidents' \in 0..MaxIncidents
    BY <1>11, <1>0, UpdateAssumption DEF DeleteObsolete, Unchecked, Incident, TypeOK, Contents, Absent
  <2> QED
    BY <1>11, <1>0, <2>1 DEF DeleteObsolete, TypeOK
<1>12. ASSUME NEW p \in Paths, CleanBackup(p) PROVE TypeOK'
  <2>1. bak' \in [Paths -> Contents] /\ incidents' \in 0..MaxIncidents /\ stale' \subseteq Paths
    BY <1>12, <1>0, UpdateAssumption DEF CleanBackup, SweepBak, Unchecked, Incident, TypeOK, Contents, Absent
  <2> QED
    BY <1>12, <1>0, <2>1 DEF CleanBackup, TypeOK
<1> QED
  BY <1>1, <1>2, <1>3, <1>4, <1>5, <1>6, <1>7, <1>8, <1>9, <1>10, <1>11, <1>12 DEF UpdaterStep

LEMMA AppType ==
    ASSUME TypeOK, AppStep
    PROVE  TypeOK'
<1> USE DEF folder, updaterVars, appVars, history
<1>0. TypeOK
  OBVIOUS
<1>1. CASE Launch
  <2>1. incidents' \in 0..MaxIncidents
    BY <1>1, <1>0, UpdateAssumption DEF Launch, Incident, TypeOK
  <2>2. harm' \subseteq Harms
    BY <1>1, <1>0 DEF Launch, TypeOK, Harms
  <2> QED
    BY <1>1, <1>0, <2>1, <2>2 DEF Launch, Startable, TypeOK, AppStates
<1>2. CASE Exit \/ NoJournal
  BY <1>2, <1>0 DEF Exit, NoJournal, TypeOK, AppStates
<1>3. CASE ReadJournal
  BY <1>3, <1>0 DEF ReadJournal, TypeOK, AppStates, Journals
<1>4. CASE ForgetJournal
  BY <1>4, <1>0, DropType DEF ForgetJournal, TypeOK, AppStates
<1>5. CASE ReadFails
  <2>1. incidents' \in 0..MaxIncidents
    BY <1>5, <1>0, UpdateAssumption DEF ReadFails, Incident, TypeOK
  <2>2. harm' \subseteq Harms
    BY <1>5, <1>0 DEF ReadFails, TypeOK, Harms
  <2>3. stale' \subseteq Paths
    BY <1>5, <1>0 DEF ReadFails, TypeOK, Baks
  <2> QED
    BY <1>5, <1>0, <2>1, <2>2, <2>3, Blanks DEF ReadFails, TypeOK, AppStates
<1>6. CASE EndRecovery
  BY <1>6, <1>0, DropType DEF EndRecovery, TypeOK, AppStates
<1>7. CASE Boot
  <2>1. incidents' \in 0..MaxIncidents /\ mark' \in 0..Newest
    BY <1>7, <1>0, UpdateAssumption DEF Boot, Unchecked, Incident, TypeOK, Versions
  <2> QED
    BY <1>7, <1>0, <2>1 DEF Boot, TypeOK, AppStates
<1>8. ASSUME NEW v \in Versions, Apply(v) PROVE TypeOK'
  BY <1>8, <1>0 DEF Apply, TypeOK, UpdaterStates, AppStates
<1>9. ASSUME NEW p \in Paths, RollBack(p) PROVE TypeOK'
  <2>1. incidents' \in 0..MaxIncidents
    BY <1>9, <1>0, UpdateAssumption DEF RollBack, RemoveNew, MakeWay, LeaveAlone, Removes,
           Unchecked, Incident, TypeOK
  <2>2. disk' \in [Paths -> Contents]
    BY <1>9, <1>0, UpdateAssumption DEF RollBack, RemoveNew, MakeWay, LeaveAlone, Removes,
           TypeOK, Contents, Absent
  <2>3. harm' \subseteq Harms
    BY <1>9, <1>0 DEF RollBack, RemoveNew, MakeWay, LeaveAlone, TypeOK, Harms
  <2>4. rest' \subseteq Paths /\ app' \in AppStates
    BY <1>9, <1>0 DEF RollBack, RemoveNew, MakeWay, LeaveAlone, TypeOK, AppStates
  <2> QED
    BY <1>9, <1>0, <2>1, <2>2, <2>3, <2>4 DEF RollBack, TypeOK
<1>10. ASSUME NEW p \in Paths, Restore(p) PROVE TypeOK'
  <2>1. incidents' \in 0..MaxIncidents /\ harm' \subseteq Harms
    BY <1>10, <1>0, UpdateAssumption DEF Restore, Unchecked, Incident, TypeOK, Harms
  <2>2. disk' \in [Paths -> Contents] /\ bak' \in [Paths -> Contents] /\ stale' \subseteq Paths
    BY <1>10, <1>0, UpdateAssumption DEF Restore, SweepBak, TypeOK, Contents, Absent
  <2> QED
    BY <1>10, <1>0, <2>1, <2>2 DEF Restore, TypeOK, AppStates
<1>11. ASSUME NEW p \in Paths, Sweep(p) PROVE TypeOK'
  <2>1. incidents' \in 0..MaxIncidents
    BY <1>11, <1>0, UpdateAssumption DEF Sweep, Unchecked, Incident, TypeOK
  <2>2. PICK done \in BOOLEAN :
           /\ IF p \in held.files THEN SweepBak(p, done) ELSE UNCHANGED <<bak, stale>>
           /\ disk' = IF done /\ p \in held.dropped THEN [disk EXCEPT ![p] = Absent] ELSE disk
    BY <1>11 DEF Sweep
  <2>3. disk' \in [Paths -> Contents] /\ bak' \in [Paths -> Contents]
    BY <2>2, <1>0, UpdateAssumption DEF SweepBak, TypeOK, Contents, Absent
  <2>4. stale' \subseteq Paths
    BY <2>2, <1>0 DEF SweepBak, TypeOK
  <2> QED
    BY <1>11, <1>0, <2>1, <2>3, <2>4 DEF Sweep, TypeOK
<1> QED
  BY <1>1, <1>2, <1>3, <1>4, <1>5, <1>6, <1>7, <1>8, <1>9, <1>10, <1>11 DEF AppStep

LEMMA CrashType == ASSUME TypeOK, Crash PROVE TypeOK'
<1>1. incidents' \in 0..MaxIncidents
  BY UpdateAssumption DEF Crash, Incident, TypeOK
<1>2. stale' \subseteq Paths
  BY DEF Crash, TypeOK, Baks
<1> QED
  BY <1>1, <1>2 DEF Crash, TypeOK, UpdaterStates, AppStates, folder

LEMMA TypeStep == ASSUME TypeOK, [Next]_vars PROVE TypeOK'
<1>1. CASE UNCHANGED vars
  BY <1>1 DEF vars, folder, updaterVars, appVars, history, TypeOK
<1> QED
  BY <1>1, UpdaterType, AppType, CrashType DEF Next


-----------------------------------------------------------------------------
(* Working: where the swap, the recovery and the .bak files are.           *)

LEMMA InitWorking == Init => Working
  BY DEF Init, Blank, Working, Alone, JournalFits, PlanFits, Planned, BaksFit, Backed, SwapFits,
         FrontFits

(* What asks nothing of the updater holds while it touches no file.        *)
LEMMA NoSwap ==
    ASSUME updater' \in {"none", "waiting", "comparing", "relaunching", "cleaning"}
    PROVE  PlanFits' /\ SwapFits'
  BY DEF PlanFits, Planned, SwapFits

(* When every .bak has outlived its update, none is backed.                *)
LEMMA AllStale ==
    ASSUME TypeOK, bak' = bak, stale' = stale \cup Baks
    PROVE  BaksFit'
  BY DEF BaksFit, Backed, Baks

(* The app's recovery runs alone: no updater is at work.                   *)
LEMMA Resting ==
    ASSUME TypeOK, Alone, app \notin {"off", "leaving"}
    PROVE  updater \in {"none", "relaunching"}
  BY DEF TypeOK, Alone, UpdaterStates

LEMMA GoesWorking ==
    ASSUME TypeOK, Working, WaitForExit \/ GiveUp \/ Relaunch \/ Exit \/ NoJournal
    PROVE  Working'
<1>0. Working
  OBVIOUS
<1>1. /\ UNCHANGED <<disk, bak, journal, stale>>
      /\ updater' \in {updater, "comparing", "relaunching", "none"}
  BY DEF WaitForExit, GiveUp, Relaunch, Exit, NoJournal, folder, updaterVars, history
<1>2. Alone'
  BY <1>0, Resting DEF Working, Alone, WaitForExit, GiveUp, Relaunch, Exit, NoJournal, appVars, updaterVars, TypeOK, AppStates
<1>3. JournalFits'
  BY <1>0 DEF Working, JournalFits, WaitForExit, GiveUp, Relaunch, Exit, NoJournal, folder,
              appVars, updaterVars
<1>4. PlanFits' /\ SwapFits'
  <2>1. CASE WaitForExit \/ GiveUp \/ Relaunch
    BY <2>1, NoSwap DEF WaitForExit, GiveUp, Relaunch
  <2>2. CASE Exit \/ NoJournal
    <3>1. updater \in {"none", "relaunching", "waiting"}
      BY <1>0, <2>2, Resting DEF Working, Alone, Exit, NoJournal, TypeOK, UpdaterStates
    <3> QED
      BY <2>2, <3>1, NoSwap DEF Exit, NoJournal, updaterVars
  <2> QED
    BY <2>1, <2>2
<1>5. BaksFit'
  <2>1. CASE WaitForExit \/ GiveUp \/ Relaunch
    BY <1>0, <1>1, <2>1 DEF Working, BaksFit, Backed, AtRest, WaitForExit, GiveUp, Relaunch, appVars
  <2>2. CASE Exit
    BY <1>0, <1>1, <2>2 DEF Working, BaksFit, Backed, AtRest, Exit, updaterVars
  <2>3. CASE NoJournal
    <3>1. updater \in {"none", "relaunching"}
      BY <1>0, <2>3, Resting DEF Working, NoJournal
    <3> QED
      BY <1>0, <1>1, <2>3, <3>1 DEF Working, BaksFit, Backed, AtRest, NoJournal, updaterVars
  <2> QED
    BY <2>1, <2>2, <2>3
<1>6. FrontFits'
  BY <1>0, <1>1 DEF Working, FrontFits, WaitForExit, GiveUp, Relaunch, Exit, NoJournal, appVars
<1> QED
  BY <1>2, <1>3, <1>4, <1>5, <1>6 DEF Working

LEMMA LaunchWorking ==
    ASSUME TypeOK, Working, Launch, "overlap" \notin harm'
    PROVE  Working'
<1>0. Working
  OBVIOUS
<1>1. /\ UNCHANGED <<disk, bak, journal, stale, updater, target, plan, todo>>
      /\ app = "off" /\ app' = "reading"
      /\ updater \in {"none", "relaunching"}
  BY DEF Launch, folder, updaterVars, TypeOK
<1>2. Alone' /\ JournalFits' /\ FrontFits'
  BY <1>0, <1>1 DEF Working, Alone, JournalFits, FrontFits
<1>3. PlanFits' /\ SwapFits'
  BY <1>1, NoSwap
<1>4. BaksFit'
  BY <1>0, <1>1 DEF Working, BaksFit, Backed, AtRest
<1> QED
  BY <1>2, <1>3, <1>4 DEF Working

LEMMA ApplyWorking ==
    ASSUME TypeOK, Working, NEW v \in Versions, Apply(v)
    PROVE  Working'
<1>0. Working
  OBVIOUS
<1>1. /\ UNCHANGED <<disk, bak, journal, stale, plan, todo, image>>
      /\ app = "running" /\ app' = "leaving"
      /\ updater = "none" /\ updater' = "waiting"
  BY DEF Apply, history
<1>2. Alone' /\ JournalFits' /\ FrontFits'
  BY <1>0, <1>1 DEF Working, Alone, JournalFits, FrontFits
<1>3. PlanFits' /\ SwapFits'
  BY <1>1, NoSwap
<1>4. BaksFit'
  BY <1>0, <1>1 DEF Working, BaksFit, Backed, AtRest
<1> QED
  BY <1>2, <1>3, <1>4 DEF Working

LEMMA BootWorking ==
    ASSUME TypeOK, Working, Boot
    PROVE  Working'
<1>0. Working
  OBVIOUS
<1>1. /\ UNCHANGED <<disk, bak, journal, stale, updater, target, plan, todo, image>>
      /\ app = "loading"
      /\ \/ app' = "running" /\ disk[Front] = image
         \/ app' = "off"
      /\ updater \in {"none", "relaunching"}
  BY Resting DEF Working, Boot, folder, updaterVars, history
<1>2. Alone' /\ JournalFits' /\ FrontFits'
  BY <1>0, <1>1 DEF Working, Alone, JournalFits, FrontFits
<1>3. PlanFits' /\ SwapFits'
  BY <1>1, NoSwap
<1>4. BaksFit'
  BY <1>0, <1>1 DEF Working, BaksFit, Backed, AtRest
<1> QED
  BY <1>2, <1>3, <1>4 DEF Working

(* A write or a rename is refused, or everything stops. *)
LEMMA StopWorking ==
    ASSUME TypeOK, Working, Fail \/ Crash
    PROVE  Working'
<1>0. Working
  OBVIOUS
<1>1. /\ updater' \in {"none", "relaunching"} /\ app' = "off" /\ disk' = disk /\ bak' = bak
      /\ \/ updater = "confirming" /\ stale' = stale \cup Baks
         \/ updater = "confirming" /\ stale' = stale /\ journal' = Committed
         \/ updater = "journaling" /\ stale' = stale
         \/ updater \notin {"confirming", "journaling"} /\ stale' = stale /\ journal' = journal
  BY DEF Working, Alone, Fail, WriteFails, Crash, folder, Committed, appVars
<1>2. Alone' /\ JournalFits' /\ FrontFits'
  BY <1>1 DEF Alone, JournalFits, FrontFits
<1>3. PlanFits' /\ SwapFits'
  BY <1>1, NoSwap
<1>4. BaksFit'
  <2>1. CASE stale' = stale \cup Baks
    BY <1>1, <2>1, AllStale
  <2>2. CASE updater = "confirming" /\ stale' = stale /\ journal' = Committed
    <3>1. journal'.state = "committed" /\ journal'.files = plan.files
      BY <2>2 DEF Committed, TypeOK, Journals
    <3> QED
      BY <1>0, <1>1, <2>2, <3>1 DEF Working, BaksFit, Backed, AtRest
  <2>3. CASE updater = "journaling" /\ stale' = stale
    BY <1>0, <1>1, <2>3 DEF Working, BaksFit, Backed
  <2>4. CASE updater \notin {"confirming", "journaling"} /\ stale' = stale /\ journal' = journal
    BY <1>0, <1>1, <2>4 DEF Working, BaksFit, Backed, AtRest
  <2> QED
    BY <1>1, <2>1, <2>2, <2>3, <2>4
<1> QED
  BY <1>2, <1>3, <1>4 DEF Working

LEMMA CompareWorking ==
    ASSUME TypeOK, Working, Compare
    PROVE  Working'
<1>0. Working
  OBVIOUS
<1>1. /\ updater = "comparing" /\ app = "off" /\ app' = "off"
      /\ UNCHANGED <<disk, bak, target, stale>>
  BY DEF Compare, Working, Alone, appVars, history
<1>2. \A p \in Paths : ~Backed(p) /\ ~Backed(p)'
  BY <1>0, <1>1 DEF Working, BaksFit, AtRest, Backed
<1>3. FilesToUpdate \subseteq Ships(target) /\ FilesToUpdate \subseteq Paths
  BY DEF FilesToUpdate, Ships
<1>4. BaksFit'
  BY <1>2 DEF BaksFit
<1>5. CASE NothingToUpdate
  <2>1. updater' = "relaunching"
    BY <1>5 DEF NothingToUpdate
  <2> QED
    BY <1>1, <1>4, <2>1, NoSwap DEF Working, Alone, JournalFits, FrontFits
<1>6. CASE Prepare
  <2>1. /\ updater' = "journaling" /\ journal'.state = "torn"
        /\ plan' = [state |-> "pending",
                    files |-> FilesToUpdate,
                    fresh |-> {p \in FilesToUpdate : disk[p] = Absent},
                    dropped |-> DeletedFiles]
    BY <1>6, Blanks DEF Prepare
  <2>2. Alone' /\ JournalFits' /\ FrontFits'
    BY <1>1, <2>1 DEF Alone, JournalFits, FrontFits
  <2>3. PlanFits'
    BY <1>1, <1>3, <2>1 DEF PlanFits, FilesToUpdate, DeletedFiles, Ships
  <2>4. SwapFits'
    BY <1>1, <1>2, <1>3, <2>1 DEF SwapFits, Untouched
  <2> QED
    BY <1>4, <2>2, <2>3, <2>4 DEF Working
<1> QED
  BY <1>5, <1>6 DEF Compare

LEMMA WriteJournalWorking ==
    ASSUME TypeOK, Working, WriteJournal
    PROVE  Working'
<1>0. Working
  OBVIOUS
<1>1. /\ updater = "journaling" /\ updater' = "backing" /\ app = "off" /\ app' = "off"
      /\ journal' = plan /\ plan' = plan /\ todo' = plan.files
      /\ UNCHANGED <<disk, bak, target, stale>>
  BY DEF WriteJournal, Working, Alone, appVars, history
<1>2. Alone' /\ JournalFits' /\ FrontFits'
  BY <1>1 DEF Alone, JournalFits, FrontFits
<1>3. PlanFits'
  BY <1>0, <1>1 DEF Working, PlanFits, Planned, DeletedFiles, Ships
<1>4. SwapFits'
  BY <1>0, <1>1 DEF Working, SwapFits, Untouched, Backed
<1>5. BaksFit'
  BY <1>0, <1>1 DEF Working, BaksFit, Backed
<1> QED
  BY <1>2, <1>3, <1>4, <1>5 DEF Working

LEMMA BackupWorking ==
    ASSUME TypeOK, Working, NEW p \in Paths, Backup(p)
    PROVE  Working'
<1>0. TypeOK /\ Working
  OBVIOUS
<1>1. /\ updater = "backing" /\ updater' = "installing" /\ app = "off" /\ app' = "off"
      /\ p \in Earliest(todo) /\ p \in todo /\ p \in plan.files
      /\ journal = plan /\ plan.state = "pending" /\ todo \subseteq Paths
      /\ UNCHANGED <<journal, target, plan, todo>>
  BY <1>0 DEF Backup, appVars, TypeOK, Working, Alone, JournalFits, PlanFits, Planned, Earliest, SwapFits
<1>2. Untouched(p)
  BY <1>0, <1>1 DEF Working, SwapFits
<1>3. disk \in [Paths -> Contents] /\ bak \in [Paths -> Contents]
  BY <1>0 DEF TypeOK
<1>4. \A q \in Paths \ {p} : disk'[q] = disk[q] /\ (Backed(q)' <=> Backed(q))
  BY <1>3 DEF Backup, Backed
<1>5. Saved(p)' /\ (Backed(p)' => p \notin plan.fresh)
  <2>1. CASE disk[p] # Absent
    BY <1>1, <1>2, <1>3, <2>1 DEF Backup, Saved, Backed, Untouched
  <2>2. CASE disk[p] = Absent
    BY <1>1, <1>2, <2>2 DEF Backup, Saved, Backed, Untouched
  <2> QED
    BY <2>1, <2>2
<1>6. Alone' /\ JournalFits' /\ FrontFits'
  BY <1>1 DEF Alone, JournalFits, FrontFits
<1>7. PlanFits'
  BY <1>0, <1>1, <1>4 DEF Working, PlanFits, Planned, DeletedFiles, Ships
<1>8. BaksFit'
  BY <1>0, <1>1, <1>4, <1>5 DEF Working, BaksFit, AtRest
<1>9. SwapFits'
  <2>1. todo \subseteq plan.files
    BY <1>0, <1>1 DEF Working, SwapFits
  <2>2. ASSUME NEW q \in todo, q # p
        PROVE  q \notin Earliest(todo) /\ Untouched(q)'
    <3>1. Untouched(q) /\ q \in Paths
      BY <1>0, <1>1 DEF Working, SwapFits
    <3> QED
      BY <2>2, <1>1, <1>4, <3>1, OneEarliest DEF Untouched
  <2>3. ASSUME NEW q \in plan.files \ todo
        PROVE  Saved(q)' /\ disk'[q] = Release[target][q]
    <3>1. Saved(q) /\ disk[q] = Release[target][q] /\ q # p /\ q \in Paths
      BY <1>0, <1>1 DEF Working, SwapFits, TypeOK, Journals
    <3> QED
      BY <3>1, <1>1, <1>4 DEF Saved
  <2>4. Earliest(todo)' = Earliest(todo)
    BY <1>1 DEF Earliest
  <2> QED
    BY <1>1, <1>5, <2>1, <2>2, <2>3, <2>4 DEF SwapFits
<1> QED
  BY <1>6, <1>7, <1>8, <1>9 DEF Working

(* The rename into place, or its copy, begun or ended. *)
LEMMA PutWorking ==
    ASSUME TypeOK, Working, NEW p \in Paths, Install(p) \/ StartCopy(p) \/ EndCopy(p)
    PROVE  Working'
<1>0. TypeOK /\ Working
  OBVIOUS
<1>1. /\ updater \in {"installing", "copying"} /\ p \in Earliest(todo)
      /\ UNCHANGED <<bak, journal, target, plan, app, image, held, stale>>
      /\ \/ /\ updater' = "backing" /\ todo' = todo \ {p}
            /\ disk' = [disk EXCEPT ![p] = Release[target][p]]
         \/ /\ updater' = "copying" /\ todo' = todo
            /\ disk' = [disk EXCEPT ![p] = Torn]
  BY DEF Install, StartCopy, EndCopy, appVars, history
<1>2. /\ p \in todo /\ p \in plan.files /\ Saved(p)
      /\ journal = plan /\ plan.state = "pending" /\ app = "off"
      /\ todo \subseteq plan.files /\ plan.files \subseteq Paths
  BY <1>0, <1>1 DEF TypeOK, Journals, Working, Alone, JournalFits, PlanFits, Planned, SwapFits, Earliest
<1>3. /\ \A q \in Paths \ {p} : disk'[q] = disk[q]
      /\ updater' = "backing" => disk'[p] = Release[target][p]
      /\ \A q \in Paths : Backed(q)' <=> Backed(q)
  BY <1>0, <1>1 DEF TypeOK, Backed
<1>4. Alone' /\ JournalFits' /\ FrontFits'
  BY <1>1, <1>2 DEF Alone, JournalFits, FrontFits
<1>5. PlanFits'
  BY <1>0, <1>1, <1>2, <1>3 DEF Working, PlanFits, Planned, DeletedFiles, Ships
<1>6. BaksFit'
  BY <1>0, <1>1, <1>2, <1>3 DEF Working, BaksFit, AtRest
<1>7. SwapFits'
  <2>1. ASSUME NEW q \in todo, q # p
        PROVE  q \notin Earliest(todo) /\ Untouched(q)'
    <3>1. q \notin Earliest(todo) /\ q \in Paths
      BY <2>1, <1>1, <1>2, OneEarliest
    <3>2. Untouched(q)
      BY <1>0, <1>1, <3>1 DEF Working, SwapFits
    <3> QED
      BY <2>1, <1>1, <1>3, <3>1, <3>2 DEF Untouched
  <2>2. ASSUME NEW q \in plan.files \ todo
        PROVE  Saved(q)' /\ disk'[q] = Release[target][q]
    <3>1. Saved(q) /\ disk[q] = Release[target][q] /\ q # p /\ q \in Paths
      BY <1>0, <1>1, <1>2 DEF Working, SwapFits
    <3> QED
      BY <3>1, <1>1, <1>3 DEF Saved
  <2>3. Saved(p)'
    BY <1>1, <1>2, <1>3 DEF Saved
  <2>4. CASE updater' = "backing"
    BY <1>1, <1>2, <1>3, <2>1, <2>2, <2>3, <2>4 DEF SwapFits
  <2>5. CASE updater' = "copying"
    <3>1. Earliest(todo)' = Earliest(todo) /\ todo' = todo
      BY <1>1, <2>5 DEF Earliest
    <3> QED
      BY <1>1, <1>2, <2>1, <2>2, <2>3, <2>5, <3>1 DEF SwapFits
  <2> QED
    BY <1>1, <2>4, <2>5
<1> QED
  BY <1>4, <1>5, <1>6, <1>7 DEF Working

LEMMA AllInstalledWorking ==
    ASSUME TypeOK, Working, AllInstalled
    PROVE  Working'
<1>0. Working
  OBVIOUS
<1>1. /\ updater = "backing" /\ updater' = "deleting" /\ app = "off" /\ app' = "off"
      /\ todo = {} /\ todo' = plan.dropped
      /\ UNCHANGED <<disk, bak, journal, target, plan, stale>>
  BY DEF AllInstalled, Working, Alone, folder, appVars, history
<1>2. Alone' /\ JournalFits' /\ FrontFits'
  BY <1>0, <1>1 DEF Working, Alone, JournalFits, FrontFits
<1>3. PlanFits'
  BY <1>0, <1>1 DEF Working, PlanFits, Planned, DeletedFiles, Ships
<1>4. SwapFits'
  BY <1>0, <1>1 DEF Working, SwapFits, Saved, Backed
<1>5. BaksFit'
  BY <1>0, <1>1 DEF Working, BaksFit, Backed, AtRest
<1> QED
  BY <1>2, <1>3, <1>4, <1>5 DEF Working

(* A file the release drops goes, or stays. *)
LEMMA DeleteObsoleteWorking ==
    ASSUME TypeOK, Working, NEW p \in Paths, DeleteObsolete(p)
    PROVE  Working'
<1>0. TypeOK /\ Working
  OBVIOUS
<1>1. /\ updater = "deleting" /\ updater' = "deleting" /\ app = "off" /\ app' = "off"
      /\ p \in todo /\ todo' = todo \ {p}
      /\ UNCHANGED <<bak, journal, target, plan, stale>>
  BY DEF DeleteObsolete, Working, Alone, appVars, Earliest, history
<1>2. /\ p \notin plan.files /\ p \notin Ships(target)
      /\ plan.files \subseteq Paths /\ todo \subseteq plan.dropped
  BY <1>0, <1>1 DEF TypeOK, Journals, Working, PlanFits, Planned, SwapFits, DeletedFiles
<1>3. \A q \in Paths \ {p} : disk'[q] = disk[q]
  BY <1>0 DEF TypeOK, DeleteObsolete
<1>4. Alone' /\ JournalFits' /\ FrontFits'
  BY <1>0, <1>1 DEF Working, Alone, JournalFits, FrontFits
<1>5. PlanFits'
  <2>1. \A q \in Ships(target) \ plan.files : disk'[q] = Release[target][q]
    BY <1>0, <1>1, <1>2, <1>3 DEF Working, PlanFits, Planned, Ships
  <2> QED
    BY <1>0, <1>1, <2>1 DEF Working, PlanFits, Planned, DeletedFiles, Ships
<1>6. BaksFit'
  BY <1>0, <1>1 DEF Working, BaksFit, Backed, AtRest
<1>7. SwapFits'
  <2>1. ASSUME NEW q \in plan.files
        PROVE  Saved(q)' /\ disk'[q] = Release[target][q]
    <3>1. Saved(q) /\ disk[q] = Release[target][q] /\ q # p /\ q \in Paths
      BY <1>0, <1>1, <1>2 DEF Working, SwapFits
    <3> QED
      BY <3>1, <1>1, <1>3 DEF Saved, Backed
  <2> QED
    BY <1>1, <1>2, <2>1 DEF SwapFits
<1> QED
  BY <1>4, <1>5, <1>6, <1>7 DEF Working

LEMMA StartCommitWorking ==
    ASSUME TypeOK, Working, StartCommit
    PROVE  Working'
<1>0. TypeOK /\ Working
  OBVIOUS
<1>1. /\ updater = "deleting" /\ updater' = "confirming" /\ app = "off" /\ app' = "off"
      /\ journal'.state = "torn" /\ journal = plan
      /\ UNCHANGED <<disk, bak, target, plan, todo, stale>>
  BY Blanks DEF StartCommit, Working, Alone, JournalFits, appVars, history
<1>2. \A p \in Ships(target) : disk[p] = Release[target][p]
  BY <1>0, <1>1 DEF Working, SwapFits, PlanFits, Planned
<1>3. Alone' /\ JournalFits' /\ FrontFits'
  BY <1>1 DEF Alone, JournalFits, FrontFits
<1>4. PlanFits'
  BY <1>0, <1>1 DEF Working, PlanFits, Planned, DeletedFiles, Ships
<1>5. BaksFit'
  BY <1>0, <1>1 DEF Working, BaksFit, Backed, AtRest
<1>6. SwapFits'
  BY <1>1, <1>2 DEF SwapFits, Ships
<1> QED
  BY <1>3, <1>4, <1>5, <1>6 DEF Working

LEMMA CommitWorking ==
    ASSUME TypeOK, Working, Commit
    PROVE  Working'
<1>0. TypeOK /\ Working
  OBVIOUS
<1>1. /\ updater = "confirming" /\ updater' = "cleaning" /\ app = "off" /\ app' = "off"
      /\ journal' = Committed /\ todo' = plan.files
      /\ UNCHANGED <<disk, bak, stale>>
  BY DEF Commit, Working, Alone, appVars, history
<1>2. journal'.state = "committed" /\ journal'.files = plan.files
  BY <1>0, <1>1 DEF TypeOK, Journals, Committed
<1>3. Alone' /\ JournalFits' /\ FrontFits'
  BY <1>1, <1>2 DEF Alone, JournalFits, FrontFits
<1>4. BaksFit'
  BY <1>0, <1>1, <1>2 DEF Working, BaksFit, Backed, AtRest
<1> QED
  BY <1>1, <1>3, <1>4, NoSwap DEF Working

LEMMA CleanBackupWorking ==
    ASSUME TypeOK, Working, NEW p \in Paths, CleanBackup(p)
    PROVE  Working'
<1>0. TypeOK /\ Working
  OBVIOUS
<1>1. /\ updater = "cleaning" /\ updater' = "cleaning" /\ app = "off" /\ app' = "off"
      /\ todo' = todo \ {p}
      /\ UNCHANGED <<disk, journal>>
  BY DEF CleanBackup, Working, Alone, appVars
<1>2. /\ ~Backed(p)'
      /\ \A q \in Paths \ {p} : Backed(q)' <=> Backed(q)
  <2>1. PICK done \in BOOLEAN : SweepBak(p, done)
    BY DEF CleanBackup
  <2> QED
    BY <1>0, <2>1 DEF TypeOK, SweepBak, Backed
<1>3. Alone' /\ JournalFits' /\ FrontFits'
  BY <1>0, <1>1 DEF Working, Alone, JournalFits, FrontFits
<1>4. BaksFit'
  BY <1>0, <1>1, <1>2 DEF Working, BaksFit, AtRest
<1> QED
  BY <1>1, <1>3, <1>4, NoSwap DEF Working

LEMMA EndCleanupWorking ==
    ASSUME TypeOK, Working, EndCleanup
    PROVE  Working'
<1>0. TypeOK /\ Working
  OBVIOUS
<1>1. /\ updater = "cleaning" /\ updater' = "relaunching" /\ app = "off" /\ app' = "off"
      /\ todo = {}
      /\ UNCHANGED <<disk, bak, stale>>
  BY DEF EndCleanup, Working, Alone, appVars, history
<1>2. Alone' /\ JournalFits' /\ FrontFits'
  BY <1>1 DEF Alone, JournalFits, FrontFits
<1>3. BaksFit'
  BY <1>0, <1>1 DEF Working, BaksFit, Backed
<1> QED
  BY <1>1, <1>2, <1>3, NoSwap DEF Working

LEMMA ReadJournalWorking ==
    ASSUME TypeOK, Working, ReadJournal
    PROVE  Working'
<1>0. TypeOK /\ Working
  OBVIOUS
<1>1. /\ app = "reading" /\ updater \in {"none", "relaunching"}
      /\ UNCHANGED <<disk, bak, journal, updater, stale>> /\ held' = journal
      /\ \/ journal.state = "pending" /\ app' = "rolling" /\ rest' = journal.files
         \/ /\ journal.state = "committed" /\ app' = "sweeping"
            /\ rest' = journal.files \cup journal.dropped
  BY Resting DEF ReadJournal, Working, folder, updaterVars, history
<1>2. Alone' /\ JournalFits' /\ FrontFits'
  BY <1>0, <1>1 DEF Working, Alone, JournalFits, FrontFits
<1>3. BaksFit'
  BY <1>0, <1>1 DEF Working, BaksFit, Backed, AtRest
<1> QED
  BY <1>1, <1>2, <1>3, NoSwap DEF Working

(* A journal is forgotten, removed unread, or done with. *)
LEMMA EndsWorking ==
    ASSUME TypeOK, Working, ForgetJournal \/ ReadFails \/ EndRecovery
    PROVE  Working'
<1>0. TypeOK /\ Working
  OBVIOUS
<1>1. /\ app' = "loading" /\ updater \in {"none", "relaunching"}
      /\ UNCHANGED <<disk, bak, updater>>
  BY Resting DEF ForgetJournal, ReadFails, EndRecovery, Working, updaterVars
<1>2. Alone' /\ JournalFits' /\ FrontFits'
  BY <1>0, <1>1 DEF Working, Alone, JournalFits, FrontFits
<1>3. BaksFit'
  <2>1. CASE ForgetJournal
    BY <1>0, <1>1, <2>1 DEF Working, BaksFit, Backed, ForgetJournal, history
  <2>2. CASE ReadFails
    BY <1>1, <2>2, AllStale DEF ReadFails
  <2>3. CASE EndRecovery
    BY <1>0, <1>1, <2>3 DEF Working, BaksFit, Backed, EndRecovery, history
  <2> QED
    BY <2>1, <2>2, <2>3
<1> QED
  BY <1>1, <1>2, <1>3, NoSwap DEF Working

LEMMA RollBackWorking ==
    ASSUME TypeOK, Working, NEW p \in Paths, RollBack(p)
    PROVE  Working'
<1>0. TypeOK /\ Working
  OBVIOUS
<1>1. /\ app = "rolling" /\ updater \in {"none", "relaunching"}
      /\ held = journal /\ journal.state = "pending"
      /\ UNCHANGED <<bak, journal, updater, held, stale>>
      /\ \/ /\ app' = "rolling" /\ rest' = rest \ {p}
            /\ p \in journal.fresh \/ bak[p] = Absent
         \/ app' = "restoring" /\ rest' = rest
  BY Resting DEF RollBack, RemoveNew, MakeWay, LeaveAlone, Restorable, Working, JournalFits,
                 updaterVars
<1>2. Alone' /\ JournalFits' /\ FrontFits'
  BY <1>0, <1>1 DEF Working, Alone, JournalFits, FrontFits
<1>3. BaksFit'
  BY <1>0, <1>1 DEF Working, BaksFit, Backed, AtRest
<1> QED
  BY <1>1, <1>2, <1>3, NoSwap DEF Working

(* A .bak put back or swept is gone, or has outlived its update. *)
LEMMA RestoreSweepWorking ==
    ASSUME TypeOK, Working, NEW p \in Paths, Restore(p) \/ Sweep(p)
    PROVE  Working'
<1>0. TypeOK /\ Working
  OBVIOUS
<1>1. /\ app \in {"restoring", "sweeping"} /\ updater \in {"none", "relaunching"}
      /\ UNCHANGED <<journal, updater, held>>
      /\ app' \in {"rolling", "sweeping"} /\ rest' = rest \ {p}
      /\ app = "restoring" <=> app' = "rolling"
      /\ held = journal
  BY Resting DEF Restore, Sweep, Working, JournalFits, updaterVars
<1>2. /\ p \in journal.files \/ app = "restoring" => ~Backed(p)'
      /\ \A q \in Paths \ {p} : Backed(q)' <=> Backed(q)
      /\ Backed(p)' => Backed(p)
  <2>1. CASE Restore(p)
    <3>1. PICK done \in BOOLEAN : SweepBak(p, done)
      BY <2>1 DEF Restore
    <3> QED
      BY <1>0, <3>1 DEF TypeOK, SweepBak, Backed
  <2>2. CASE Sweep(p)
    <3>1. PICK done \in BOOLEAN :
             IF p \in held.files THEN SweepBak(p, done) ELSE UNCHANGED <<bak, stale>>
      BY <2>2 DEF Sweep
    <3> QED
      BY <1>0, <1>1, <2>2, <3>1 DEF TypeOK, SweepBak, Backed, Sweep
  <2> QED
    BY <2>1, <2>2
<1>3. Alone' /\ JournalFits' /\ FrontFits'
  BY <1>0, <1>1 DEF Working, Alone, JournalFits, FrontFits
<1>4. BaksFit'
  BY <1>0, <1>1, <1>2 DEF Working, BaksFit, AtRest
<1> QED
  BY <1>1, <1>3, <1>4, NoSwap DEF Working

(* Every step keeps the phases as they are to be, while the app and the    *)
(* updater do not overlap.                                                 *)
LEMMA WorkingStep ==
    ASSUME TypeOK, Working, [Next]_vars, "overlap" \notin harm'
    PROVE  Working'
<1>1. CASE UpdaterStep
  BY <1>1, GoesWorking, StopWorking, CompareWorking, WriteJournalWorking, BackupWorking,
     PutWorking, AllInstalledWorking, DeleteObsoleteWorking, StartCommitWorking, CommitWorking,
     CleanBackupWorking, EndCleanupWorking DEF UpdaterStep
<1>2. CASE AppStep
  BY <1>2, GoesWorking, LaunchWorking, ApplyWorking, BootWorking, ReadJournalWorking,
     EndsWorking, RollBackWorking, RestoreSweepWorking DEF AppStep
<1>3. CASE Crash
  BY <1>3, StopWorking
<1>4. CASE UNCHANGED vars
  BY <1>4 DEF vars, folder, updaterVars, appVars, history, Working, Alone, JournalFits, PlanFits,
              DeletedFiles, Ships, BaksFit, Backed, AtRest, SwapFits, Untouched, Saved, Earliest,
              FrontFits
<1> QED
  BY <1>1, <1>2, <1>3, <1>4 DEF Next

-----------------------------------------------------------------------------
(* Whole: what a launch settles on.                                        *)

LEMMA InitWhole == Init => Whole
<1> SUFFICES ASSUME Init PROVE Whole
  OBVIOUS
<1> USE UpdateAssumption DEF Init
<1>1. journal.state = "none"
  BY Blanks
<1>2. (\A p \in Paths : Settled(p) = disk[p]) /\ Version = Bundled
  BY <1>1, OnDisk, Own
<1>3. OneRelease /\ MarkFits
  BY <1>2, Own DEF OneRelease, Ships, MarkFits
<1>4. Ahead /\ RollFits /\ Rested /\ CommitFits /\ RunsFit
  BY <1>1 DEF Ahead, Planned, RollFits, Rested, AtRest, CommitFits, RunsFit
<1> QED
  BY <1>3, <1>4 DEF Whole

(* A step of a folder that has not come to harm, and does not. *)
Kept == TypeOK /\ Working /\ Whole /\ TypeOK' /\ Working' /\ harm' = {}

(* A step that keeps what settles keeps one release, and the mark. *)
LEMMA Same ==
    ASSUME Kept, \A p \in Paths : Settled(p)' = Settled(p)
    PROVE  /\ Version' = Version /\ OneRelease' /\ Version \in Versions
           /\ mark' = mark => MarkFits'
           /\ journal' = journal => CommitFits'
<1>1. Version' = Version /\ OneRelease'
  BY SameSettled DEF Kept, Whole
<1>2. Version \in Versions
  BY DEF Kept, Whole, OneRelease
<1> QED
  BY <1>1, <1>2 DEF Kept, Whole, MarkFits, CommitFits, Ships

(* Off, the app has nothing to roll back and no version to be of. *)
LEMMA OffIsIdle == ASSUME app' = "off" PROVE RollFits' /\ RunsFit'
  BY DEF RollFits, RunsFit

LEMMA GoesWhole ==
    ASSUME Kept,
           \/ WaitForExit \/ GiveUp \/ Relaunch \/ Launch \/ Exit \/ NoJournal
           \/ \E v \in Versions : Apply(v)
    PROVE  Whole' /\ Version' = Version
<1>0. Whole /\ Working
  BY DEF Kept
<1>1. UNCHANGED <<disk, bak, journal, stale, mark>>
  BY DEF WaitForExit, GiveUp, Relaunch, Launch, Exit, NoJournal, Apply, folder, appVars, history
<1>2. \A p \in Paths : Settled(p)' = Settled(p)
  BY <1>1, SameFolder
<1>3. Version' = Version /\ OneRelease' /\ MarkFits' /\ CommitFits'
  BY <1>1, <1>2, Same
<1>4. CASE \E v \in Versions : Apply(v)
  <2>1. /\ app = "running" /\ app' = "leaving" /\ updater' = "waiting"
        /\ target' > image /\ image' = image
    BY <1>4 DEF Apply
  <2>2. Ahead' /\ RunsFit' /\ RollFits'
    BY <1>0, <1>3, <2>1 DEF Whole, Ahead, Planned, RunsFit, RollFits
  <2>3. Rested'
    BY <1>0, <1>1, <1>2, <2>1 DEF Whole, Rested, AtRest
  <2> QED
    BY <1>3, <2>2, <2>3 DEF Whole
<1>5. CASE WaitForExit \/ GiveUp
  <2>1. /\ \/ updater = "waiting" /\ updater' = "comparing"
           \/ updater' = "relaunching"
        /\ UNCHANGED <<target, app, image, rest>>
    BY <1>5 DEF WaitForExit, GiveUp, appVars
  <2>2. Ahead' /\ RunsFit'
    BY <1>0, <1>3, <2>1 DEF Whole, Ahead, Planned, RunsFit
  <2>3. RollFits'
    BY <1>0, <1>1, <2>1 DEF Whole, RollFits, Backed, Earliest
  <2>4. Rested'
    BY <1>0, <1>1, <1>2, <2>1 DEF Whole, Rested, AtRest
  <2> QED
    BY <1>3, <2>2, <2>3, <2>4 DEF Whole
<1>6. CASE Relaunch
  <2>1. /\ updater' = "none"
        /\ app' = "reading" \/ UNCHANGED <<app, image>>
        /\ rest' = rest
    BY <1>6 DEF Relaunch
  <2>2. Ahead' /\ RunsFit'
    BY <1>0, <1>3, <2>1 DEF Whole, Ahead, Planned, RunsFit
  <2>3. RollFits'
    BY <1>0, <1>1, <2>1 DEF Whole, RollFits, Backed, Earliest
  <2>4. Rested'
    BY <1>0, <1>1, <1>2, <2>1 DEF Whole, Rested, AtRest
  <2> QED
    BY <1>3, <2>2, <2>3, <2>4 DEF Whole
<1>7. CASE Launch \/ Exit \/ NoJournal
  <2>1. /\ app' \in {"reading", "off", "loading"} /\ UNCHANGED <<updater, target>>
        /\ app' = "loading" => journal.state = "none"
        /\ app' \in {"off", "loading"} \/ app = "off"
    BY <1>7 DEF Launch, Exit, NoJournal, updaterVars
  <2>2. Ahead' /\ RunsFit' /\ RollFits'
    BY <1>0, <1>3, <2>1 DEF Whole, Ahead, Planned, RunsFit, RollFits
  <2>3. Rested'
    <3>1. CASE app' = "loading"
      BY <1>1, <1>2, <2>1, <3>1, OnDisk DEF Rested
    <3>2. CASE app' # "loading"
      BY <1>0, <1>1, <1>2, <2>1, <3>2 DEF Whole, Rested, AtRest
    <3> QED
      BY <3>1, <3>2
  <2> QED
    BY <1>3, <2>2, <2>3 DEF Whole
<1> QED
  BY <1>4, <1>5, <1>6, <1>7

(* A launch that gets through found the front of the release on the disk.  *)
LEMMA BootWhole ==
    ASSUME Kept, Boot
    PROVE  Whole' /\ Version' = Version
<1>0. Whole /\ Working /\ TypeOK
  BY DEF Kept
<1>1. /\ UNCHANGED <<disk, bak, journal, stale, updater, target, image, rest>>
      /\ app = "loading"
      /\ \/ disk[Front] = image /\ app' = "running" /\ mark' \in {mark, image}
         \/ app' = "off" /\ mark' = mark
  BY DEF Boot, folder, updaterVars, history
<1>2. \A p \in Paths : Settled(p)' = Settled(p) /\ Settled(p) = disk[p]
  BY <1>0, <1>1, SameFolder DEF Whole, Rested, AtRest
<1>3. Version' = Version /\ OneRelease' /\ CommitFits' /\ Version \in Versions
  BY <1>1, <1>2, Same
<1>4. disk[Front] = Version
  BY <1>0, <1>2, <1>3, Own, UpdateAssumption DEF Whole, OneRelease
<1>5. Ahead' /\ RunsFit' /\ RollFits'
  BY <1>0, <1>1, <1>3, <1>4 DEF Whole, Ahead, RunsFit, RollFits
<1>6. Rested'
  BY <1>1, <1>2 DEF Rested
<1>7. MarkFits'
  BY <1>0, <1>1, <1>3, <1>4, Own DEF Whole, MarkFits
<1> QED
  BY <1>3, <1>5, <1>6, <1>7 DEF Whole

(* With every file in place, what is on the disk is the version asked for. *)
LEMMA Confirming ==
    ASSUME Kept, updater = "confirming"
    PROVE  /\ journal.state = "torn" /\ Version = target
           /\ plan.dropped \cap Ships(target) = {}
<1>1. journal.state = "torn" /\ target \in Versions
  BY DEF Kept, TypeOK, Working, JournalFits
<1>2. Version = target
  BY <1>1, OnDisk, Own DEF Kept, Working, SwapFits
<1>3. plan.dropped \cap Ships(target) = {}
  BY DEF Kept, Working, PlanFits, Planned, DeletedFiles
<1> QED
  BY <1>1, <1>2, <1>3

LEMMA StopWhole ==
    ASSUME Kept, Fail \/ Crash
    PROVE  Whole' /\ Version' = Version
<1>0. Whole /\ Working /\ TypeOK
  BY DEF Kept
<1>1. /\ updater' \in {"none", "relaunching"} /\ app' = "off"
      /\ UNCHANGED <<disk, bak, mark>>
      /\ \/ updater = "confirming" /\ journal' \in {journal, Committed}
         \/ updater = "journaling" /\ stale' = stale /\ journal' \in {journal, plan}
         \/ updater \notin {"confirming", "journaling"} /\ stale' = stale /\ journal' = journal
  BY <1>0 DEF Working, Alone, Fail, WriteFails, Crash, folder, appVars
<1>2. Ahead' /\ RollFits' /\ Rested' /\ RunsFit'
  BY <1>1, OffIsIdle DEF Ahead, Planned, Rested, AtRest
<1>3. CASE updater = "confirming" /\ journal' \in {journal, Committed}
  <2>1. /\ journal.state = "torn" /\ journal'.state # "pending"
        /\ journal'.state = "committed" => journal'.dropped \cap Ships(Version) = {}
    BY <1>0, <1>3, Confirming DEF TypeOK, Journals, Committed
  <2>2. \A p \in Paths : Settled(p)' = Settled(p)
    BY <1>1, <2>1, OnDisk, OnDiskNext
  <2>3. Version' = Version /\ OneRelease' /\ MarkFits'
    BY <1>1, <2>2, Same
  <2>4. CommitFits'
    BY <2>1, <2>3 DEF CommitFits, Ships
  <2> QED
    BY <1>2, <2>3, <2>4 DEF Whole
<1>4. CASE updater = "journaling" /\ stale' = stale /\ journal' \in {journal, plan}
  <2>1. journal.state = "torn" /\ plan.state = "pending" /\ \A p \in plan.files : Untouched(p)
    BY <1>0, <1>4 DEF Working, JournalFits, PlanFits, Planned, SwapFits
  <2>2. ASSUME NEW p \in Paths PROVE Settled(p)' = Settled(p)
    <3>1. Settled(p) = disk[p]
      BY <2>1, OnDisk
    <3>2. CASE journal' = journal
      BY <1>1, <1>4, <3>2, SameFolder
    <3>3. CASE journal' = plan
      BY <1>1, <1>4, <2>1, <3>1, <3>3 DEF Settled, Undone, Untouched, Backed
    <3> QED
      BY <1>4, <3>2, <3>3
  <2>3. Version' = Version /\ OneRelease' /\ MarkFits'
    BY <1>1, <2>2, Same
  <2>4. CommitFits'
    BY <1>4, <2>1 DEF CommitFits
  <2> QED
    BY <1>2, <2>3, <2>4 DEF Whole
<1>5. CASE updater \notin {"confirming", "journaling"} /\ stale' = stale /\ journal' = journal
  <2>1. \A p \in Paths : Settled(p)' = Settled(p)
    BY <1>1, <1>5, SameFolder
  <2>2. Version' = Version /\ OneRelease' /\ MarkFits' /\ CommitFits'
    BY <1>1, <1>5, <2>1, Same
  <2> QED
    BY <1>2, <2>2 DEF Whole
<1> QED
  BY <1>1, <1>3, <1>4, <1>5

(* A new comparison overwrites what journal was left. *)
LEMMA CompareWhole ==
    ASSUME Kept, Compare
    PROVE  Whole' /\ Version' = Version
<1>0. Whole /\ Working /\ TypeOK
  BY DEF Kept
<1>1. /\ updater = "comparing" /\ app' = "off"
      /\ UNCHANGED <<disk, bak, target, mark, stale>>
      /\ updater' \in {"relaunching", "journaling"}
      /\ journal'.state # "pending" \/ journal' = journal
      /\ journal'.state = "committed" => journal' = journal
  BY <1>0, Blanks DEF Compare, NothingToUpdate, Prepare, DropJournal, Working, Alone, appVars,
                      history
<1>2. ASSUME NEW p \in Paths PROVE Settled(p)' = Settled(p)
  <2>1. Settled(p) = disk[p]
    BY <1>0, <1>1 DEF Whole, Rested, AtRest
  <2>2. CASE journal' = journal
    BY <1>1, <2>2, SameFolder
  <2>3. CASE journal'.state # "pending"
    BY <1>1, <2>1, <2>3, OnDiskNext
  <2> QED
    BY <1>1, <2>2, <2>3
<1>3. Version' = Version /\ OneRelease' /\ MarkFits'
  BY <1>1, <1>2, Same
<1>4. CommitFits'
  BY <1>0, <1>1, <1>3 DEF Whole, CommitFits, Ships
<1>5. Ahead' /\ RollFits' /\ Rested' /\ RunsFit'
  BY <1>0, <1>1, <1>3, OffIsIdle DEF Whole, Ahead, Planned, Rested, AtRest
<1> QED
  BY <1>3, <1>4, <1>5 DEF Whole

(* What the swap settles on, while its journal is pending. *)
LEMMA SwapSettles ==
    ASSUME Kept, updater \in Planned, updater' \in Planned \ {"confirming"}, app' = "off",
           UNCHANGED <<target, mark>>,
           updater # "confirming",
           journal'.state # "committed",
           \A p \in Paths : Settled(p)' = Settled(p)
    PROVE  Whole' /\ Version' = Version
<1>1. Version' = Version /\ OneRelease' /\ MarkFits'
  BY Same
<1>2. Ahead' /\ CommitFits' /\ Rested'
  BY <1>1 DEF Kept, Whole, Ahead, Planned, CommitFits, Rested, AtRest
<1> QED
  BY <1>1, <1>2, OffIsIdle DEF Whole

LEMMA WriteJournalWhole ==
    ASSUME Kept, WriteJournal
    PROVE  Whole' /\ Version' = Version
<1>1. /\ updater = "journaling" /\ updater' = "backing" /\ app' = "off"
      /\ journal.state = "torn" /\ journal' = plan /\ plan.state = "pending"
      /\ UNCHANGED <<disk, bak, target, mark, stale>>
      /\ \A p \in plan.files : Untouched(p)
  BY DEF Kept, WriteJournal, Working, Alone, JournalFits, PlanFits, Planned, SwapFits, appVars,
         history
<1>2. ASSUME NEW p \in Paths PROVE Settled(p)' = Settled(p)
  <2>1. Settled(p) = disk[p]
    BY <1>1, OnDisk
  <2>2. Settled(p)' = disk[p]
    BY <1>1 DEF Settled, Undone, Untouched, Backed
  <2> QED
    BY <2>1, <2>2
<1> QED
  BY <1>1, <1>2, SwapSettles DEF Planned

LEMMA BackupWhole ==
    ASSUME Kept, NEW p \in Paths, Backup(p)
    PROVE  Whole' /\ Version' = Version
<1>1. /\ updater = "backing" /\ updater' = "installing" /\ app' = "off"
      /\ p \in todo /\ p \in plan.files
      /\ journal = plan /\ plan.state = "pending"
      /\ UNCHANGED <<journal, target, mark>>
      /\ Untouched(p)
  BY DEF Kept, Backup, Working, Alone, JournalFits, PlanFits, Planned, SwapFits, Earliest, appVars
<1>2. disk \in [Paths -> Contents] /\ bak \in [Paths -> Contents]
  BY DEF Kept, TypeOK
<1>3. ASSUME NEW q \in Paths PROVE Settled(q)' = Settled(q)
  <2>1. CASE q = p /\ disk[p] # Absent
    BY <2>1, <1>1, <1>2 DEF Backup, Settled, Undone, Untouched, Backed
  <2>2. CASE disk[p] = Absent
    BY <2>2, <1>1, SameFolder DEF Backup
  <2>3. CASE q # p
    BY <2>3, <1>1, <1>2 DEF Backup, Settled, Undone
  <2> QED
    BY <2>1, <2>2, <2>3
<1> QED
  BY <1>1, <1>3, SwapSettles DEF Planned

(* A file whose original is saved may be written over: what it settles on  *)
(* is the .bak, or its absence.                                            *)
LEMMA PutWhole ==
    ASSUME Kept, NEW p \in Paths, Install(p) \/ StartCopy(p) \/ EndCopy(p)
    PROVE  Whole' /\ Version' = Version
<1>1. /\ updater \in {"installing", "copying"} /\ updater' \in {"backing", "copying"}
      /\ p \in Earliest(todo)
      /\ UNCHANGED <<bak, journal, target, mark, stale, app>>
      /\ disk' \in {[disk EXCEPT ![p] = Release[target][p]], [disk EXCEPT ![p] = Torn]}
  BY DEF Install, StartCopy, EndCopy, appVars, history
<1>2. /\ p \in plan.files /\ Saved(p) /\ app' = "off"
      /\ journal = plan /\ plan.state = "pending"
  BY <1>1 DEF Kept, Working, Alone, JournalFits, PlanFits, Planned, SwapFits, Earliest
<1>3. disk \in [Paths -> Contents]
  BY DEF Kept, TypeOK
<1>4. ASSUME NEW q \in Paths PROVE Settled(q)' = Settled(q)
  <2>1. CASE q = p
    BY <2>1, <1>1, <1>2 DEF Settled, Undone, Saved, Backed
  <2>2. CASE q # p
    BY <2>2, <1>1, <1>3 DEF Settled, Undone
  <2> QED
    BY <2>1, <2>2
<1> QED
  BY <1>1, <1>2, <1>4, SwapSettles DEF Planned

LEMMA AllInstalledWhole ==
    ASSUME Kept, AllInstalled
    PROVE  Whole' /\ Version' = Version
<1>1. /\ updater = "backing" /\ updater' = "deleting" /\ app' = "off"
      /\ UNCHANGED <<disk, bak, journal, target, mark, stale>>
      /\ journal.state = "pending"
  BY DEF Kept, AllInstalled, Working, Alone, JournalFits, PlanFits, Planned, folder, appVars,
         history
<1>2. \A p \in Paths : Settled(p)' = Settled(p)
  BY <1>1, SameFolder
<1> QED
  BY <1>1, <1>2, SwapSettles DEF Planned

(* A file the release drops stays lost if the swap is undone. *)
LEMMA DeleteObsoleteWhole ==
    ASSUME Kept, NEW p \in Paths, DeleteObsolete(p)
    PROVE  Whole' /\ Version' = Version
<1>0. Whole /\ Working /\ TypeOK
  BY DEF Kept
<1>1. /\ updater = "deleting" /\ updater' = "deleting" /\ app' = "off"
      /\ UNCHANGED <<bak, journal, target, mark, stale>>
      /\ p \in todo
  BY <1>0 DEF DeleteObsolete, Working, Alone, Earliest, appVars, history
<1>2. /\ p \in DeletedFiles /\ p \notin plan.files
      /\ target > Version /\ target \in Versions
      /\ journal = plan /\ plan.state = "pending"
  BY <1>0, <1>1 DEF TypeOK, Working, JournalFits, PlanFits, Planned, SwapFits, DeletedFiles,
                    Whole, Ahead
<1>3. /\ \A q \in Paths \ {p} : disk'[q] = disk[q]
      /\ disk' = disk \/ disk'[p] = Absent
  BY <1>0 DEF TypeOK, DeleteObsolete
<1>4. Version \in Versions
  BY <1>0 DEF Whole, OneRelease
<1>5. /\ \A q \in Paths \ {p} : Settled(q)' = Settled(q)
      /\ Settled(p)' \in {Settled(p), Absent}
  BY <1>1, <1>2, <1>3 DEF Settled, Undone
<1>6. p \in Unprotected(Version)
  BY <1>2, <1>4 DEF Unprotected, DeletedFiles
<1>7. Version' = Version
  BY <1>4, <1>5, <1>6, Own, UpdateAssumption DEF Version
<1>8. OneRelease'
  <2>1. ASSUME NEW q \in Ships(Version)
        PROVE  \/ Settled(q)' = Release[Version][q]
               \/ Settled(q)' = Absent /\ q \in Unprotected(Version)
    BY <1>0, <1>5, <1>6 DEF Whole, OneRelease, Ships
  <2> QED
    BY <1>4, <1>7, <2>1 DEF OneRelease, Ships, Unprotected
<1>9. Ahead' /\ CommitFits' /\ Rested' /\ MarkFits'
  BY <1>0, <1>1, <1>2, <1>7 DEF Whole, Ahead, Planned, CommitFits, Rested, AtRest, MarkFits
<1> QED
  BY <1>1, <1>7, <1>8, <1>9, OffIsIdle DEF Whole

(* The one step that moves the version. *)
LEMMA StartCommitWhole ==
    ASSUME Kept, StartCommit
    PROVE  Whole' /\ Version' = target /\ updater' = "confirming"
<1>0. Whole /\ Working /\ TypeOK
  BY DEF Kept
<1>1. /\ updater = "deleting" /\ updater' = "confirming" /\ app' = "off"
      /\ journal'.state = "torn"
      /\ UNCHANGED <<disk, bak, target, mark>>
  BY <1>0, Blanks DEF StartCommit, Working, Alone, appVars
<1>2. target \in Versions /\ target > Version /\ Version \in Versions
  BY <1>0, <1>1 DEF TypeOK, Whole, Ahead, Planned, OneRelease
<1>3. \A p \in Ships(target) : disk[p] = Release[target][p]
  BY <1>0, <1>1 DEF Working, SwapFits, PlanFits, Planned
<1>4. (\A p \in Paths : Settled(p)' = disk[p]) /\ Version' = target
  BY <1>1, <1>2, <1>3, OnDiskNext, Own
<1>5. OneRelease'
  BY <1>1, <1>2, <1>3, <1>4 DEF OneRelease, Ships
<1>6. MarkFits'
  <2>1. mark <= Version /\ mark \in Nat /\ Version \in Nat /\ target \in Nat
    BY <1>0, <1>2, Own, UpdateAssumption DEF Whole, MarkFits, TypeOK
  <2> QED
    BY <1>1, <1>2, <1>4, <2>1 DEF MarkFits
<1>7. Ahead' /\ CommitFits' /\ Rested'
  BY <1>1 DEF Ahead, Planned, CommitFits, Rested, AtRest
<1> QED
  BY <1>1, <1>4, <1>5, <1>6, <1>7, OffIsIdle DEF Whole

(* After it, the updater has only its own traces to remove. *)
LEMMA AfterCommitWhole ==
    ASSUME Kept, Commit \/ EndCleanup \/ \E p \in Paths : CleanBackup(p)
    PROVE  Whole' /\ Version' = Version
<1>0. Whole /\ Working /\ TypeOK
  BY DEF Kept
<1>1. /\ updater' \in {"cleaning", "relaunching"} /\ app' = "off"
      /\ disk' = disk /\ mark' = mark
      /\ updater \in {"confirming", "cleaning"}
  BY <1>0 DEF Commit, EndCleanup, CleanBackup, Working, Alone, appVars
<1>2. /\ journal.state # "pending" /\ journal'.state # "pending"
      /\ journal'.state = "committed" => journal'.dropped \cap Ships(Version) = {}
  <2>1. CASE Commit
    <3>1. journal'.state = "committed" /\ journal'.dropped = plan.dropped
      BY <1>0, <2>1 DEF Commit, Committed, TypeOK, Journals
    <3> QED
      BY <2>1, <3>1, Confirming DEF Commit
  <2>2. CASE EndCleanup
    <3>1. journal.state = "committed" /\ (journal' = journal \/ journal'.state = "none")
      BY <1>0, <2>2, Blanks DEF EndCleanup, DropJournal, Working, JournalFits
    <3> QED
      BY <1>0, <3>1 DEF Whole, CommitFits
  <2>3. CASE \E p \in Paths : CleanBackup(p)
    BY <1>0, <2>3 DEF CleanBackup, Working, JournalFits, Whole, CommitFits
  <2> QED
    BY <2>1, <2>2, <2>3
<1>3. \A p \in Paths : Settled(p)' = Settled(p)
  BY <1>1, <1>2, OnDisk, OnDiskNext
<1>4. Version' = Version /\ OneRelease' /\ MarkFits'
  BY <1>1, <1>3, Same
<1>5. Ahead' /\ CommitFits' /\ Rested'
  BY <1>1, <1>2, <1>4 DEF Ahead, Planned, CommitFits, Ships, Rested, AtRest
<1> QED
  BY <1>1, <1>4, <1>5, OffIsIdle DEF Whole

(* The recovery: the updater is not at work. *)
LEMMA NotAhead == ASSUME updater' \in {"none", "relaunching"} PROVE Ahead'
  BY DEF Ahead, Planned

LEMMA ReadJournalWhole ==
    ASSUME Kept, ReadJournal
    PROVE  Whole' /\ Version' = Version
<1>1. /\ UNCHANGED <<disk, bak, journal, stale, mark, updater>>
      /\ app' \in {"rolling", "sweeping"}
      /\ app' = "rolling" => rest' = journal.files
      /\ updater \in {"none", "relaunching"}
  BY Resting DEF Kept, Working, ReadJournal, folder, updaterVars, history
<1>2. \A p \in Paths : Settled(p)' = Settled(p)
  BY <1>1, SameFolder
<1>3. Version' = Version /\ OneRelease' /\ MarkFits' /\ CommitFits'
  BY <1>1, <1>2, Same
<1>4. RollFits' /\ Rested' /\ RunsFit'
  BY <1>1 DEF RollFits, Rested, AtRest, RunsFit
<1> QED
  BY <1>1, <1>3, <1>4, NotAhead DEF Whole

(* A rolled back file is absent if it was new, and otherwise not backed. *)
LEMMA RolledBack ==
    ASSUME Kept, app \in {"rolling", "sweeping"}, rest = {}, NEW p \in Paths
    PROVE  Settled(p) = disk[p]
<1>1. ~Backed(p)
  BY DEF Kept, Working, BaksFit
<1>2. CASE app = "rolling"
  BY <1>1, <1>2 DEF Kept, Whole, RollFits, Settled, Undone, Backed
<1>3. CASE app = "sweeping"
  BY <1>3, OnDisk DEF Kept, Working, JournalFits
<1> QED
  BY <1>2, <1>3

LEMMA EndsWhole ==
    ASSUME Kept, ForgetJournal \/ ReadFails \/ EndRecovery
    PROVE  Whole' /\ Version' = Version
<1>0. Whole /\ Working /\ TypeOK
  BY DEF Kept
<1>1. /\ UNCHANGED <<disk, bak, mark, updater>> /\ app' = "loading"
      /\ updater \in {"none", "relaunching"}
      /\ \/ journal' = journal /\ stale' = stale
         \/ journal'.state = "none"
  BY <1>0, Resting, Blanks DEF ForgetJournal, ReadFails, EndRecovery, DropJournal, Working,
                               updaterVars, history
<1>2. ASSUME NEW p \in Paths PROVE Settled(p) = disk[p]
  <2>1. CASE ForgetJournal
    BY <2>1, OnDisk DEF ForgetJournal
  <2>2. CASE ReadFails
    <3>1. journal.state # "pending"
      BY <2>2 DEF ReadFails, Kept
    <3> QED
      BY <3>1, OnDisk
  <2>3. CASE EndRecovery
    BY <2>3, RolledBack DEF EndRecovery
  <2> QED
    BY <2>1, <2>2, <2>3
<1>3. ASSUME NEW p \in Paths PROVE Settled(p)' = Settled(p)
  <2>1. CASE journal' = journal /\ stale' = stale
    BY <1>1, <2>1, SameFolder
  <2>2. CASE journal'.state = "none"
    BY <1>1, <1>2, <2>2, OnDiskNext
  <2> QED
    BY <1>1, <2>1, <2>2
<1>4. Version' = Version /\ OneRelease' /\ MarkFits'
  BY <1>1, <1>3, Same
<1>5. RollFits' /\ RunsFit' /\ Rested'
  BY <1>1, <1>2, <1>3 DEF RollFits, RunsFit, Rested
<1>6. CommitFits'
  BY <1>0, <1>1, <1>4 DEF Whole, CommitFits, Ships
<1> QED
  BY <1>1, <1>4, <1>5, <1>6, NotAhead DEF Whole

(* A file that makes way has its .bak; one that is removed was brought. *)
LEMMA RollBackWhole ==
    ASSUME Kept, NEW p \in Paths, RollBack(p)
    PROVE  Whole' /\ Version' = Version
<1>0. Whole /\ Working /\ TypeOK
  BY DEF Kept
<1>1. /\ app = "rolling" /\ updater \in {"none", "relaunching"}
      /\ held = journal /\ journal.state = "pending"
      /\ UNCHANGED <<bak, journal, mark, updater, stale>>
      /\ p \in Earliest(rest) /\ p \in rest /\ p \in journal.files
      /\ rest \subseteq Paths /\ rest \subseteq journal.files
      /\ disk \in [Paths -> Contents]
  BY <1>0, Resting DEF RollBack, Working, JournalFits, updaterVars, Earliest, Whole, RollFits,
                       TypeOK
<1>2. /\ \A q \in Paths \ {p} : disk'[q] = disk[q]
      /\ \/ p \in journal.fresh /\ disk'[p] = Absent /\ app' = "rolling" /\ rest' = rest \ {p}
         \/ p \notin journal.fresh /\ Backed(p) /\ app' = "restoring" /\ rest' = rest
         \/ p \notin journal.fresh /\ disk' = disk /\ app' = "rolling" /\ rest' = rest \ {p}
  <2>1. CASE RemoveNew(p)
    BY <1>1, <2>1 DEF Kept, RemoveNew, Removes
  <2>2. CASE MakeWay(p)
    BY <1>1, <2>2 DEF Kept, MakeWay, Removes, Restorable, Backed
  <2>3. CASE LeaveAlone(p)
    BY <1>1, <2>3 DEF LeaveAlone
  <2> QED
    BY <2>1, <2>2, <2>3 DEF RollBack
<1>3. ASSUME NEW q \in Paths PROVE Settled(q)' = Settled(q)
  <2>1. CASE q = p
    BY <2>1, <1>1, <1>2 DEF Settled, Undone, Backed
  <2>2. CASE q # p
    BY <2>2, <1>1, <1>2 DEF Settled, Undone
  <2> QED
    BY <2>1, <2>2
<1>4. Version' = Version /\ OneRelease' /\ MarkFits' /\ CommitFits'
  BY <1>1, <1>3, Same
<1>5. RollFits'
  <2>1. rest' \subseteq journal.files
    BY <1>1, <1>2
  <2>2. ASSUME NEW q \in journal.files \ rest', q \in journal.fresh PROVE disk'[q] = Absent
    <3>1. q \in Paths
      BY <1>0 DEF TypeOK, Journals
    <3>2. q # p => q \notin rest
      BY <1>2, <2>2
    <3> QED
      BY <1>0, <1>1, <1>2, <2>2, <3>1, <3>2 DEF Whole, RollFits
  <2>3. ASSUME app' = "restoring", NEW q \in Earliest(rest)'
        PROVE  q \notin journal.fresh /\ Backed(q)'
    <3>1. rest' = rest /\ p \notin journal.fresh /\ Backed(p)
      BY <1>2, <2>3
    <3>2. q \in Earliest(rest)
      BY <2>3, <3>1 DEF Earliest
    <3>3. q = p
      BY <1>1, <3>2, OneEarliest
    <3> QED
      BY <1>1, <3>1, <3>3 DEF Backed
  <2> QED
    BY <1>1, <2>1, <2>2, <2>3 DEF RollFits
<1>6. RunsFit' /\ Rested'
  BY <1>1, <1>2 DEF RunsFit, Rested, AtRest
<1> QED
  BY <1>1, <1>4, <1>5, <1>6, NotAhead DEF Whole

LEMMA RestoreWhole ==
    ASSUME Kept, NEW p \in Paths, Restore(p)
    PROVE  Whole' /\ Version' = Version
<1>0. Whole /\ Working /\ TypeOK
  BY DEF Kept
<1>1. /\ app = "restoring" /\ app' = "rolling" /\ updater \in {"none", "relaunching"}
      /\ journal.state = "pending"
      /\ UNCHANGED <<journal, mark, updater>>
      /\ rest' = rest \ {p} /\ p \in journal.files /\ p \notin journal.fresh /\ Backed(p)
      /\ disk \in [Paths -> Contents] /\ bak \in [Paths -> Contents]
      /\ rest \subseteq journal.files
  BY <1>0, Resting DEF Restore, Working, JournalFits, updaterVars, Whole, RollFits, Earliest,
                       TypeOK
<1>2. /\ disk' = [disk EXCEPT ![p] = bak[p]]
      /\ bak' = [bak EXCEPT ![p] = Absent]
      /\ stale' = stale \ {p}
  BY DEF Kept, Restore, SweepBak
<1>3. ASSUME NEW q \in Paths PROVE Settled(q)' = Settled(q)
  <2>1. CASE q = p
    BY <2>1, <1>1, <1>2 DEF Settled, Undone, Backed
  <2>2. CASE q # p
    BY <2>2, <1>1, <1>2 DEF Settled, Undone
  <2> QED
    BY <2>1, <2>2
<1>4. Version' = Version /\ OneRelease' /\ MarkFits' /\ CommitFits'
  BY <1>1, <1>3, Same
<1>5. RollFits'
  <2>1. ASSUME NEW q \in journal.files \ rest', q \in journal.fresh PROVE disk'[q] = Absent
    <3>1. q \in Paths /\ q # p /\ q \notin rest
      BY <1>0, <1>1, <2>1 DEF TypeOK, Journals
    <3> QED
      BY <1>0, <1>1, <1>2, <2>1, <3>1 DEF Whole, RollFits
  <2> QED
    BY <1>1, <2>1 DEF RollFits
<1>6. RunsFit' /\ Rested'
  BY <1>1 DEF RunsFit, Rested, AtRest
<1> QED
  BY <1>1, <1>4, <1>5, <1>6, NotAhead DEF Whole

LEMMA SweepWhole ==
    ASSUME Kept, NEW p \in Paths, Sweep(p)
    PROVE  Whole' /\ Version' = Version
<1>0. Whole /\ Working /\ TypeOK
  BY DEF Kept
<1>1. /\ app = "sweeping" /\ app' = "sweeping" /\ updater \in {"none", "relaunching"}
      /\ journal.state = "committed" /\ held = journal
      /\ UNCHANGED <<journal, mark, updater>>
  BY <1>0, Resting DEF Sweep, Working, JournalFits, updaterVars
<1>2. /\ \A q \in Paths \ {p} : disk'[q] = disk[q]
      /\ p \notin journal.dropped => disk' = disk
  BY <1>0, <1>1 DEF Sweep, TypeOK
<1>3. /\ Version = disk[Exe] /\ Version' = disk'[Exe]
      /\ \A q \in Paths : Settled(q) = disk[q] /\ Settled(q)' = disk'[q]
  BY <1>1, OnDisk, OnDiskNext
<1>4. Version \in Versions /\ \A q \in Ships(Version) : disk'[q] = disk[q]
  BY <1>0, <1>1, <1>2 DEF Whole, OneRelease, CommitFits, Ships
<1>5. Version' = Version
  BY <1>3, <1>4, Own
<1>6. OneRelease'
  <2>1. ASSUME NEW q \in Ships(Version)
        PROVE  \/ Settled(q)' = Release[Version][q]
               \/ Settled(q)' = Absent /\ q \in Unprotected(Version)
    <3>1. q \in Paths
      BY DEF Ships
    <3> QED
      BY <1>0, <1>3, <1>4, <3>1 DEF Whole, OneRelease
  <2> QED
    BY <1>4, <1>5, <2>1 DEF OneRelease, Ships, Unprotected
<1>7. RollFits' /\ RunsFit' /\ Rested' /\ CommitFits' /\ MarkFits'
  BY <1>0, <1>1, <1>5 DEF RollFits, RunsFit, Rested, AtRest, Whole, CommitFits, Ships, MarkFits
<1> QED
  BY <1>1, <1>5, <1>6, <1>7, NotAhead DEF Whole

(* Every step of a folder that comes to no harm keeps it whole, and all    *)
(* but one keep the version.                                               *)
LEMMA WholeStep ==
    ASSUME Kept, [Next]_vars
    PROVE  /\ Whole'
           /\ Version' # Version => updater' = "confirming" /\ Version' = target
<1>1. CASE StartCommit
  BY <1>1, StartCommitWhole
<1>2. CASE UpdaterStep /\ ~StartCommit
  BY <1>2, GoesWhole, StopWhole, CompareWhole, WriteJournalWhole, BackupWhole, PutWhole,
     AllInstalledWhole, DeleteObsoleteWhole, AfterCommitWhole DEF UpdaterStep
<1>3. CASE AppStep
  BY <1>3, GoesWhole, BootWhole, ReadJournalWhole, EndsWhole, RollBackWhole, RestoreWhole,
     SweepWhole DEF AppStep
<1>4. CASE Crash
  BY <1>4, StopWhole
<1>5. CASE UNCHANGED vars
  <2>1. UNCHANGED <<disk, bak, journal, stale, updater, target, app, image, rest, mark>>
    BY <1>5 DEF vars, folder, updaterVars, appVars, history
  <2>2. \A p \in Paths : Settled(p)' = Settled(p)
    BY <2>1, SameFolder
  <2>3. Version' = Version /\ OneRelease' /\ MarkFits' /\ CommitFits'
    BY <2>1, <2>2, Same
  <2>4. Ahead' /\ RunsFit' /\ Rested'
    BY <2>1, <2>2, <2>3 DEF Kept, Whole, Ahead, RunsFit, Rested, AtRest
  <2>5. RollFits'
    BY <2>1 DEF Kept, Whole, RollFits, Backed, Earliest
  <2> QED
    BY <2>3, <2>4, <2>5 DEF Whole
<1> QED
  BY <1>1, <1>2, <1>3, <1>4, <1>5 DEF Next

-----------------------------------------------------------------------------
(* Harm is not undone. *)
LEMMA HarmStays == ASSUME [Next]_vars PROVE harm \subseteq harm'
<1>1. CASE UpdaterStep
  BY <1>1 DEF UpdaterStep, WaitForExit, GiveUp, Compare, WriteJournal, AllInstalled, StartCommit,
     Commit, EndCleanup, Relaunch, Fail, Backup, Install, StartCopy, EndCopy, DeleteObsolete,
     CleanBackup, history
<1>2. CASE AppStep
  <2>1. CASE Launch \/ Exit \/ ReadJournal \/ NoJournal \/ ForgetJournal \/ ReadFails
    BY <2>1 DEF Launch, Exit, ReadJournal, NoJournal, ForgetJournal, ReadFails, history
  <2>2. CASE EndRecovery \/ Boot \/ \E v \in Versions : Apply(v)
    BY <2>2 DEF EndRecovery, Boot, Apply, history
  <2>3. ASSUME NEW p \in Paths, RollBack(p) \/ Restore(p) \/ Sweep(p)
        PROVE  harm \subseteq harm'
    BY <2>3 DEF RollBack, RemoveNew, MakeWay, LeaveAlone, Restore, Sweep
  <2> QED
    BY <1>2, <2>1, <2>2, <2>3 DEF AppStep
<1>3. CASE Crash \/ UNCHANGED vars
  BY <1>3 DEF Crash, vars, history
<1> QED
  BY <1>1, <1>2, <1>3 DEF Next

LEMMA Step ==
    ASSUME IInv, [Next]_vars
    PROVE  /\ IInv'
           /\ harm' = {} => (Version' # Version => updater' = "confirming" /\ Version' = target)
<1>1. TypeOK /\ TypeOK'
  BY TypeStep DEF IInv
<1>2. "overlap" \notin harm' => Working /\ Working'
  BY <1>1, HarmStays, WorkingStep DEF IInv
<1>3. harm' = {} => Kept
  BY <1>1, <1>2, HarmStays DEF IInv, Kept
<1> QED
  BY <1>1, <1>2, <1>3, WholeStep DEF IInv

(* The folder, the journal on it and both processes' places in their loops *)
(* stay what they can be, whatever goes wrong.                             *)
THEOREM TypeCorrect == Spec => []TypeOK
<1>1. TypeOK /\ [Next]_vars => TypeOK'
  BY TypeStep
<1> QED
  BY InitType, <1>1, PTL DEF Spec

(* Whatever crashes, refused calls and silent failures befall the swap and *)
(* the recovery, the folder stays as its phase says until the app and the  *)
(* updater overlap, and settles on one release until it comes to harm.     *)
THEOREM Invariant == Spec => []IInv
<1>1. Init => IInv
  BY InitType, InitWorking, InitWhole DEF IInv
<1>2. IInv /\ [Next]_vars => IInv'
  BY Step
<1> QED
  BY <1>1, <1>2, PTL DEF Spec

(* At every instant of an update, its crashes and its rollbacks, a commit  *)
(* cut off in its write included, each file of the version a launch        *)
(* settles on is there or in the .bak of this update, except what the      *)
(* update deletes ahead of its commit: until a recovery fails to put a     *)
(* file back, puts an older .bak back or removes the journal unread, or    *)
(* the app is started beside the updater.                                  *)
THEOREM NothingIsLost == Spec => []NothingLost
<1>1. IInv => NothingLost
  BY DEF IInv, Whole, OneRelease, NothingLost
<1> QED
  BY <1>1, Invariant, PTL

(* The high-water mark never passes the version the folder settles on, so  *)
(* no rollback that puts its files back leaves an app below it.            *)
THEOREM MarkCorrect == Spec => []MarkIsInstalled
<1>1. IInv => MarkIsInstalled
  BY DEF IInv, Whole, MarkFits, MarkIsInstalled
<1> QED
  BY <1>1, Invariant, PTL

(* A running app has its own front and no .bak of its update, even where a *)
(* recovery could not put a file back; in a folder that came to no harm it *)
(* is the installed executable, and the next launch changes nothing.       *)
THEOREM RunsCorrect == Spec => []RunsSettled
<1>1. ASSUME IInv PROVE RunsSettled
  <2> SUFFICES ASSUME app \in {"running", "leaving"}, "overlap" \notin harm
               PROVE  /\ disk[Front] = image
                      /\ Baks \subseteq stale
                      /\ harm = {} => disk[Exe] = image /\ \A p \in Paths : Settled(p) = disk[p]
    BY DEF RunsSettled
  <2>1. Working
    BY <1>1 DEF IInv
  <2>2. disk[Front] = image
    BY <2>1 DEF Working, FrontFits
  <2>3. Baks \subseteq stale
    BY <2>1 DEF Working, BaksFit, AtRest, Backed, Baks
  <2>4. ASSUME harm = {}
        PROVE  disk[Exe] = image /\ \A p \in Paths : Settled(p) = disk[p]
    BY <1>1, <2>4, UpdateAssumption DEF IInv, Whole, Rested, AtRest, RunsFit, Version
  <2> QED
    BY <2>2, <2>3, <2>4
<1> QED
  BY <1>1, Invariant, PTL

(* Both: what a launch that got through runs, and what it leaves as mark.  *)
THEOREM LaunchCorrect == Spec => []LaunchIsSettled
<1>1. RunsSettled /\ MarkIsInstalled => LaunchIsSettled
  BY DEF LaunchIsSettled
<1> QED
  BY <1>1, RunsCorrect, MarkCorrect, PTL

(* The emptying of the pending journal, with every file in place, is the   *)
(* one step that changes what a launch settles on, and it changes it to    *)
(* the version asked for; a torn or a failed commit write changes nothing. *)
THEOREM MovesCorrect == Spec => MovesAtCommit
<1>1. ASSUME IInv, [Next]_vars
      PROVE  [harm' = {} /\ Version' # Version => updater' = "confirming" /\ Version' = target]_vars
  BY <1>1, Step
<1>2. Spec => []IInv
  BY Invariant
<1> QED
  BY <1>1, <1>2, PTL DEF Spec, MovesAtCommit
=============================================================================
