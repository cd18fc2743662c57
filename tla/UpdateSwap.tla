----------------------------- MODULE UpdateSwap -----------------------------
(***************************************************************************)
(* The swap of an installed TidaLunar for a newer release, and its undoing. *)
(*                                                                         *)
(* Two processes share the install folder and nothing else.  The UPDATER   *)
(* (src/updater) waits for the app to exit, writes a journal, renames each *)
(* file that differs to .bak and the staged one in its place, deletes what *)
(* the release dropped, marks the journal committed, sweeps the .bak files *)
(* and starts the app again.  The APP (src/src/updater/recovery.rs), at    *)
(* each launch, resolves a journal it finds: a pending one is rolled back, *)
(* a committed one is swept, and only then does it read the front files,   *)
(* which must be of its own version.                                       *)
(*                                                                         *)
(* A file's content is the number of the release that last changed it.     *)
(* The folder is what survives a crash: every rename, removal and journal  *)
(* write takes effect in program order.  Hashes, signatures and archives   *)
(* are abstracted to a staging directory that either holds the target's    *)
(* files or is gone.                                                       *)
(***************************************************************************)
EXTENDS Integers

CONSTANTS
    Paths,         \* the files of the releases, in the order of their names
    Exe,           \* the app itself
    Front,         \* frontend/frontend.json, which names the front's version
    Newest,        \* the versions are 1..Newest
    Release,       \* [version -> [path -> content]], Absent where not shipped
    Bundled,       \* the version whose installer wrote manifest.json
    Incidents,     \* what may go wrong: a subset of IncidentKinds
    MaxIncidents   \* how often, over a behaviour

Absent == 0          \* no such file
Torn == -1           \* a copy that stopped half way

Versions == 1..Newest
Contents == -1..Newest

(* "crash" everything stops, anywhere; "fail" a read, a rename, a copy or  *)
(* a write is refused and the code sees it; "keep" one whose result the    *)
(* code ignores does nothing; "launch" the user starts the app while the   *)
(* updater works.                                                          *)
IncidentKinds == {"crash", "fail", "keep", "launch"}

(* What a folder does not get over, in the code as it is: an app whose     *)
(* recovery ran beside a working updater; a rollback that did not put a    *)
(* file back; one that put back the .bak of an earlier update; a pending   *)
(* journal removed unread.                                                 *)
Harms == {"overlap", "unrestored", "older", "unread"}

ASSUME UpdateAssumption ==
    /\ Paths \subseteq Int
    /\ Exe \in Paths
    /\ Front \in Paths
    /\ Newest \in Nat
    /\ Bundled \in Versions
    /\ Release \in [Versions -> [Paths -> 0..Newest]]
    /\ \A v \in Versions : Release[v][Exe] = v /\ Release[v][Front] = v
    /\ Incidents \subseteq IncidentKinds
    /\ MaxIncidents \in Nat

VARIABLES
    disk,      \* [Paths -> Contents]: the file at each path
    bak,       \* [Paths -> Contents]: the file at each path with .bak added
    journal,   \* .update-journal.json
    staged,    \* .update-staging holds the target's files
    updater,   \* where the updater is, "none" when there is no such process
    target,    \* the version it was started for
    plan,      \* the journal it holds in memory
    todo,      \* the paths its current loop has left
    app,       \* where the app is
    image,     \* the version of the executable it runs
    held,      \* the journal its recovery has read
    rest,      \* the paths its recovery has left
    mark,      \* the highest version ever launched, in the data folder
    incidents, \* how many incidents there have been
    pins,      \* rigid: a running executable cannot be removed or replaced (Windows)
    stale,     \* history: the .bak files that outlived their update
    harm       \* history: which of Harms befell the folder

folder == <<disk, bak, journal, staged>>
updaterVars == <<updater, target, plan, todo>>
appVars == <<app, image, held, rest, mark>>
history == <<pins, stale, harm>>
vars == <<folder, updaterVars, appVars, incidents, history>>

UpdaterStates ==
    {"none", "waiting", "comparing", "journaling", "backing", "installing",
     "copying", "deleting", "confirming", "cleaning", "relaunching"}
AppStates ==
    {"off", "reading", "rolling", "restoring", "sweeping", "loading",
     "running", "leaving"}

Journals ==
    [state : {"none", "torn", "pending", "committed"},
     files : SUBSET Paths,     \* the files to update
     fresh : SUBSET Paths,     \* those that had no original (is_new)
     dropped : SUBSET Paths]   \* deleted_files

Blank(state) == [state |-> state, files |-> {}, fresh |-> {}, dropped |-> {}]

TypeOK ==
    /\ disk \in [Paths -> Contents]
    /\ bak \in [Paths -> Contents]
    /\ journal \in Journals
    /\ staged \in BOOLEAN
    /\ updater \in UpdaterStates
    /\ target \in Versions
    /\ plan \in Journals
    /\ todo \subseteq Paths
    /\ app \in AppStates
    /\ image \in Versions
    /\ held \in Journals
    /\ rest \subseteq Paths
    /\ mark \in 0..Newest
    /\ incidents \in 0..MaxIncidents
    /\ pins \in BOOLEAN /\ stale \subseteq Paths /\ harm \subseteq Harms

(* The install as the installer left it, before its first launch.          *)
Init ==
    /\ disk = Release[Bundled]
    /\ bak = [p \in Paths |-> Absent]
    /\ journal = Blank("none")
    /\ staged = FALSE
    /\ updater = "none"
    /\ target = Bundled
    /\ plan = Blank("none")
    /\ todo = {}
    /\ app = "off"
    /\ image = Bundled
    /\ held = Blank("none")
    /\ rest = {}
    /\ mark = 0
    /\ incidents = 0
    /\ pins \in BOOLEAN /\ stale = {} /\ harm = {}

(* The manifest's files are in an ordered map: loops go in path order.     *)
Earliest(S) == {p \in S : \A q \in S : p <= q}

Ships(v) == {p \in Paths : Release[v][p] # Absent}

Incident(kind) ==
    /\ kind \in Incidents
    /\ incidents < MaxIncidents
    /\ incidents' = incidents + 1

(* Whether a call whose result is ignored does what it is called for.      *)
Unchecked(done) == IF done THEN UNCHANGED incidents ELSE Incident("keep")

Baks == {p \in Paths : bak[p] # Absent}

(* The removal of the journal, whose result is ignored: it may stay.       *)
DropJournal == \E done \in BOOLEAN :
    /\ Unchecked(done)
    /\ journal' = IF done THEN Blank("none") ELSE journal

-----------------------------------------------------------------------------
(* The updater. *)

(* The app claims a staged version, spawns the updater and starts to quit. *)
(* A version is offered above the running one only; the mark is looked at  *)
(* when a build is downloaded, not when one is found already staged.       *)
Apply(v) ==
    /\ app = "running" /\ updater = "none"
    /\ v > image
    /\ app' = "leaving"
    /\ updater' = "waiting"
    /\ target' = v
    /\ staged' = TRUE
    /\ UNCHANGED <<disk, bak, journal, plan, todo, image, held, rest, mark, incidents, history>>

WaitForExit ==
    /\ updater = "waiting" /\ app # "leaving"
    /\ updater' = "comparing"
    /\ UNCHANGED <<folder, target, plan, todo, appVars, incidents, history>>

(* The app did not exit in time, a file is locked, a signature or a hash   *)
(* does not match: run() fails before it has changed anything.             *)
GiveUp ==
    /\ updater \in {"waiting", "comparing"}
    /\ updater' = "relaunching"
    /\ UNCHANGED <<folder, target, plan, todo, appVars, incidents, history>>

FilesToUpdate == {p \in Ships(target) : disk[p] # Release[target][p]}

(* diff_removed reads the manifest.json beside the exe, which the releases *)
(* leave out of their file lists: it stays the installer's.                *)
DeletedFiles == Ships(Bundled) \ Ships(target)

NothingToUpdate ==
    /\ FilesToUpdate = {}
    /\ DropJournal
    /\ staged' = FALSE
    /\ updater' = "relaunching"
    /\ UNCHANGED plan

(* File::create leaves an empty journal until its text is written.         *)
Prepare ==
    /\ FilesToUpdate # {}
    /\ journal' = Blank("torn")
    /\ plan' = [state |-> "pending",
                files |-> FilesToUpdate,
                fresh |-> {p \in FilesToUpdate : disk[p] = Absent},
                dropped |-> DeletedFiles]
    /\ updater' = "journaling"
    /\ UNCHANGED <<staged, incidents>>

(* What differs, against the disk as it is now.                            *)
Compare ==
    /\ updater = "comparing" /\ staged
    /\ NothingToUpdate \/ Prepare
    /\ UNCHANGED <<disk, bak, target, todo, appVars, history>>

WriteJournal ==
    /\ updater = "journaling"
    /\ journal' = plan
    /\ todo' = plan.files
    /\ updater' = "backing"
    /\ UNCHANGED <<disk, bak, staged, target, plan, appVars, incidents, history>>

(* An original goes to .bak, over a .bak of an earlier update.             *)
Backup(p) ==
    /\ updater = "backing"
    /\ p \in Earliest(todo)
    /\ IF disk[p] # Absent
       THEN /\ bak' = [bak EXCEPT ![p] = disk[p]]
            /\ disk' = [disk EXCEPT ![p] = Absent]
            /\ stale' = stale \ {p}
       ELSE UNCHANGED <<disk, bak, stale>>
    /\ updater' = "installing"
    /\ UNCHANGED <<journal, staged, target, plan, todo, appVars, incidents, pins, harm>>

Install(p) ==
    /\ updater = "installing" /\ staged
    /\ p \in Earliest(todo)
    /\ disk' = [disk EXCEPT ![p] = Release[target][p]]
    /\ todo' = todo \ {p}
    /\ updater' = "backing"
    /\ UNCHANGED <<bak, journal, staged, target, plan, appVars, incidents, history>>

(* The rename is refused and the staged file is copied instead.            *)
StartCopy(p) ==
    /\ updater = "installing" /\ staged
    /\ p \in Earliest(todo)
    /\ Incident("fail")
    /\ disk' = [disk EXCEPT ![p] = Torn]
    /\ updater' = "copying"
    /\ UNCHANGED <<bak, journal, staged, target, plan, todo, appVars, history>>

EndCopy(p) ==
    /\ updater = "copying"
    /\ p \in Earliest(todo)
    /\ disk' = [disk EXCEPT ![p] = Release[target][p]]
    /\ todo' = todo \ {p}
    /\ updater' = "backing"
    /\ UNCHANGED <<bak, journal, staged, target, plan, appVars, incidents, history>>

Committed == [plan EXCEPT !.state = "committed"]

(* A journal write fails, before its text has reached the disk or after:   *)
(* write_all and sync_all both return their error.                         *)
WriteFails ==
    \/ updater = "journaling" /\ journal' \in {journal, plan} /\ UNCHANGED stale
    \/ updater = "confirming" /\ journal' = journal /\ stale' = stale \cup Baks
    \/ updater = "confirming" /\ journal' = Committed /\ UNCHANGED stale

(* Or a rename to .bak, a rename and its copy, or the creation of the      *)
(* committed journal: run() returns the error, main() shows it and starts  *)
(* the app all the same.                                                   *)
Fail ==
    /\ \/ updater \in {"backing", "installing", "copying", "deleting"} /\ UNCHANGED <<journal, stale>>
       \/ WriteFails
    /\ Incident("fail")
    /\ updater' = "relaunching"
    /\ UNCHANGED <<disk, bak, staged, target, plan, todo, appVars, pins, harm>>

AllInstalled ==
    /\ updater = "backing" /\ todo = {}
    /\ todo' = plan.dropped
    /\ updater' = "deleting"
    /\ UNCHANGED <<folder, target, plan, appVars, incidents, history>>

DeleteObsolete(p) ==
    /\ updater = "deleting"
    /\ p \in Earliest(todo)
    /\ \E done \in BOOLEAN :
         /\ Unchecked(done)
         /\ disk' = IF done THEN [disk EXCEPT ![p] = Absent] ELSE disk
    /\ todo' = todo \ {p}
    /\ UNCHANGED <<bak, journal, staged, updater, target, plan, appVars, history>>

(* Marking the journal committed starts by emptying it.                    *)
StartCommit ==
    /\ updater = "deleting" /\ todo = {}
    /\ journal' = Blank("torn")
    /\ updater' = "confirming"
    /\ UNCHANGED <<disk, bak, staged, target, plan, todo, appVars, incidents, history>>

(* Faulty: the sweep after the commit is given no files.                   *)
FaultyCommit ==
    /\ updater = "confirming"
    /\ journal' = Committed
    /\ todo' = {}
    /\ updater' = "cleaning"
    /\ UNCHANGED <<disk, bak, staged, target, plan, appVars, incidents, history>>

Commit ==
    /\ updater = "confirming"
    /\ journal' = Committed
    /\ todo' = plan.files
    /\ updater' = "cleaning"
    /\ UNCHANGED <<disk, bak, staged, target, plan, appVars, incidents, history>>

(* The .bak of p is removed, or stays unseen.                              *)
SweepBak(p, done) ==
    /\ bak' = IF done THEN [bak EXCEPT ![p] = Absent] ELSE bak
    /\ stale' = IF done \/ bak[p] = Absent THEN stale \ {p} ELSE stale \cup {p}

CleanBackup(p) ==
    /\ updater = "cleaning"
    /\ p \in Earliest(todo)
    /\ \E done \in BOOLEAN : Unchecked(done) /\ SweepBak(p, done)
    /\ todo' = todo \ {p}
    /\ UNCHANGED <<disk, journal, staged, updater, target, plan, appVars, pins, harm>>

EndCleanup ==
    /\ updater = "cleaning" /\ todo = {}
    /\ DropJournal
    /\ staged' = FALSE
    /\ updater' = "relaunching"
    /\ UNCHANGED <<disk, bak, target, plan, todo, appVars, history>>

Startable == disk[Exe] \in Versions

(* The spawn fails without a whole executable; a second instance finds the *)
(* first one's lock and leaves.                                            *)
Relaunch ==
    /\ updater = "relaunching"
    /\ updater' = "none"
    /\ IF Startable /\ app = "off"
       THEN app' = "reading" /\ image' = disk[Exe]
       ELSE UNCHANGED <<app, image>>
    /\ UNCHANGED <<folder, target, plan, todo, held, rest, mark, incidents, history>>

-----------------------------------------------------------------------------
(* The app. *)

(* The user starts it.  No lock is shared with the updater: only the user's *)
(* patience keeps the two apart.                                           *)
Launch ==
    /\ app = "off" /\ Startable
    /\ IF updater \in {"none", "relaunching"}
       THEN UNCHANGED <<incidents, harm>>
       ELSE Incident("launch") /\ harm' = harm \cup {"overlap"}
    /\ app' = "reading"
    /\ image' = disk[Exe]
    /\ UNCHANGED <<folder, updaterVars, held, rest, mark, pins, stale>>

Exit ==
    /\ app = "leaving"
    /\ app' = "off"
    /\ UNCHANGED <<folder, updaterVars, image, held, rest, mark, incidents, history>>

(* Faulty: any journal that parses is taken for a committed one.           *)
FaultyReadJournal ==
    /\ app = "reading" /\ journal.state \in {"pending", "committed"}
    /\ held' = journal
    /\ app' = "sweeping" /\ rest' = journal.files \cup journal.dropped
    /\ UNCHANGED <<folder, updaterVars, image, mark, incidents, history>>

ReadJournal ==
    /\ app = "reading" /\ journal.state \in {"pending", "committed"}
    /\ held' = journal
    /\ IF journal.state = "pending"
       THEN app' = "rolling" /\ rest' = journal.files
       ELSE app' = "sweeping" /\ rest' = journal.files \cup journal.dropped
    /\ UNCHANGED <<folder, updaterVars, image, mark, incidents, history>>

NoJournal ==
    /\ app = "reading" /\ journal.state = "none"
    /\ app' = "loading"
    /\ UNCHANGED <<folder, updaterVars, image, held, rest, mark, incidents, history>>

(* A journal that does not parse is removed, and its update forgotten.     *)
ForgetJournal ==
    /\ app = "reading" /\ journal.state = "torn"
    /\ DropJournal
    /\ app' = "loading"
    /\ UNCHANGED <<disk, bak, staged, updaterVars, image, held, rest, mark, history>>

(* So is one that cannot be read, whatever it says.                        *)
ReadFails ==
    /\ app = "reading" /\ journal.state \in {"pending", "committed"}
    /\ Incident("fail")
    /\ harm' = IF journal.state = "pending" THEN harm \cup {"unread"} ELSE harm
    /\ stale' = stale \cup Baks
    /\ journal' = Blank("none")
    /\ app' = "loading"
    /\ UNCHANGED <<disk, bak, staged, updaterVars, image, held, rest, mark, pins>>

Restorable(p) == p \notin held.fresh /\ bak[p] # Absent

(* The file a rollback runs from.                                          *)
Stuck(p) == pins /\ p = Exe /\ disk[p] # Absent

(* A rollback removes p, and is not told when it stays.                    *)
Removes(p, done) ==
    /\ IF Stuck(p) THEN ~done /\ UNCHANGED incidents ELSE Unchecked(done)
    /\ disk' = IF done THEN [disk EXCEPT ![p] = Absent] ELSE disk

(* A file the update brought goes.                                         *)
RemoveNew(p) ==
    /\ p \in held.fresh
    /\ \E done \in BOOLEAN :
         /\ Removes(p, done)
         /\ harm' = IF done THEN harm ELSE harm \cup {"unrestored"}
    /\ app' = "rolling" /\ rest' = rest \ {p}

(* One it replaced makes way for its .bak, whichever update made that.     *)
MakeWay(p) ==
    /\ Restorable(p)
    /\ \E done \in BOOLEAN : Removes(p, done)
    /\ harm' = IF p \in stale THEN harm \cup {"older"} ELSE harm
    /\ app' = "restoring" /\ UNCHANGED rest

(* Faulty: a file is removed before its .bak is known to exist.            *)
FaultyLeaveAlone(p) ==
    /\ p \notin held.fresh /\ ~Restorable(p)
    /\ disk' = [disk EXCEPT ![p] = Absent]
    /\ app' = "rolling" /\ rest' = rest \ {p}
    /\ UNCHANGED <<incidents, harm>>

(* One it had not reached stays.                                           *)
LeaveAlone(p) ==
    /\ p \notin held.fresh /\ ~Restorable(p)
    /\ app' = "rolling" /\ rest' = rest \ {p}
    /\ UNCHANGED <<disk, incidents, harm>>

RollBack(p) ==
    /\ app = "rolling"
    /\ p \in Earliest(rest)
    /\ RemoveNew(p) \/ MakeWay(p) \/ LeaveAlone(p)
    /\ UNCHANGED <<bak, journal, staged, updaterVars, image, held, mark, pins, stale>>

(* The .bak takes the file's place; the rename's result is ignored too.    *)
Restore(p) ==
    /\ app = "restoring"
    /\ p \in Earliest(rest)
    /\ \E done \in BOOLEAN :
         /\ IF Stuck(p) THEN ~done /\ UNCHANGED incidents ELSE Unchecked(done)
         /\ disk' = IF done THEN [disk EXCEPT ![p] = bak[p]] ELSE disk
         /\ SweepBak(p, done)
         /\ harm' = IF done THEN harm ELSE harm \cup {"unrestored"}
    /\ rest' = rest \ {p}
    /\ app' = "rolling"
    /\ UNCHANGED <<journal, staged, updaterVars, image, held, mark, pins>>

(* A committed update is swept: its .bak files, then what it was to delete. *)
Sweep(p) ==
    /\ app = "sweeping"
    /\ IF rest \cap held.files # {} THEN p \in Earliest(rest \cap held.files)
                                  ELSE p \in Earliest(rest)
    /\ \E done \in BOOLEAN :
         /\ Unchecked(done)
         /\ IF p \in held.files THEN SweepBak(p, done) ELSE UNCHANGED <<bak, stale>>
         /\ disk' = IF done /\ p \in held.dropped THEN [disk EXCEPT ![p] = Absent] ELSE disk
    /\ rest' = rest \ {p}
    /\ UNCHANGED <<journal, staged, updaterVars, app, image, held, mark, pins, harm>>

EndRecovery ==
    /\ app \in {"rolling", "sweeping"} /\ rest = {}
    /\ staged' = FALSE
    /\ DropJournal
    /\ app' = "loading"
    /\ UNCHANGED <<disk, bak, updaterVars, image, held, rest, mark, history>>

(* Faulty: the mark recorded is the one to reach next.                     *)
FaultyBoot ==
    /\ app = "loading"
    /\ IF disk[Front] = image
       THEN /\ app' = "running"
            /\ mark' = IF image >= mark THEN image + 1 ELSE mark
       ELSE app' = "off" /\ UNCHANGED mark
    /\ UNCHANGED <<folder, updaterVars, image, held, rest, incidents, history>>

(* The front must be of the running executable's version, or the launch is *)
(* refused.  A launch that gets through records its version, or fails to.  *)
Boot ==
    /\ app = "loading"
    /\ IF disk[Front] = image
       THEN /\ app' = "running"
            /\ \E done \in BOOLEAN :
                 /\ Unchecked(done)
                 /\ mark' = IF done /\ image > mark THEN image ELSE mark
       ELSE app' = "off" /\ UNCHANGED <<mark, incidents>>
    /\ UNCHANGED <<folder, updaterVars, image, held, rest, history>>

-----------------------------------------------------------------------------
(* Power is lost, or both processes are killed: the folder stays, with the *)
(* .bak files of a commit that was being written.                          *)
Crash ==
    /\ updater # "none" \/ app # "off"
    /\ Incident("crash")
    /\ updater' = "none"
    /\ app' = "off"
    /\ stale' = IF updater = "confirming" THEN stale \cup Baks ELSE stale
    /\ UNCHANGED <<folder, target, plan, todo, image, held, rest, mark, pins, harm>>

UpdaterStep ==
    \/ WaitForExit \/ GiveUp \/ Compare \/ WriteJournal \/ AllInstalled
    \/ StartCommit \/ Commit \/ EndCleanup \/ Relaunch \/ Fail
    \/ \E p \in Paths : \/ Backup(p) \/ Install(p) \/ StartCopy(p) \/ EndCopy(p)
                         \/ DeleteObsolete(p) \/ CleanBackup(p)

AppStep ==
    \/ Launch \/ Exit \/ ReadJournal \/ NoJournal \/ ForgetJournal \/ ReadFails
    \/ EndRecovery \/ Boot
    \/ \E v \in Versions : Apply(v)
    \/ \E p \in Paths : RollBack(p) \/ Restore(p) \/ Sweep(p)

Next == UpdaterStep \/ AppStep \/ Crash

Spec == Init /\ [][Next]_vars

-----------------------------------------------------------------------------
(* What a launch is to make of the folder.  A pending journal is undone,   *)
(* from the .bak files its update made; any other leaves the disk alone.   *)
Undone(p) == journal.state = "pending" /\ p \in journal.files

Settled(p) ==
    IF Undone(p) /\ p \in journal.fresh THEN Absent
    ELSE IF Undone(p) /\ bak[p] # Absent /\ p \notin stale THEN bak[p]
    ELSE disk[p]

(* The version an interrupted update leaves, once the app has seen to it.  *)
Version == Settled(Exe)

(* The files an update deletes before it commits, which no rollback brings *)
(* back: what the installer shipped and a later release no longer does.    *)
Unprotected(v) == {p \in Ships(Bundled) : \E w \in Versions : w > v /\ p \notin Ships(w)}

(* At every instant, whatever the updater or the recovery is in the middle *)
(* of, the folder holds one release: each file of that release is there in *)
(* its content, or in the .bak the update made of it.  That a recovery     *)
(* then puts it back is another matter: one that could not, as it cannot   *)
(* the executable it runs from on Windows, or put back another .bak, is    *)
(* named in harm, and the folder has lost its release by it.  The files a  *)
(* later release drops are excepted: the updater deletes them while its    *)
(* journal is still pending, and keeps no copy (updater/src/main.rs:622).  *)
NothingLost ==
    harm = {} =>
        /\ Version \in Versions
        /\ \A p \in Ships(Version) :
              \/ Settled(p) = Release[Version][p]
              \/ Settled(p) = Absent /\ p \in Unprotected(Version)

(* The folder goes from one release to the next in one step, and only to   *)
(* the one asked for: the emptying of the pending journal, all of its      *)
(* files being in place.  Nothing before it, no torn journal and nothing a *)
(* recovery does changes the version, until one does harm.                 *)
MovesAtCommit ==
    [][harm' = {} /\ Version' # Version => updater' = "confirming" /\ Version' = target]_vars

(* A running app has its own front, whatever went wrong before, and no     *)
(* .bak but those that outlived their update, by a commit cut off or a     *)
(* removal that failed.  Unless the folder came to harm it is the app's    *)
(* own executable that is installed, and the next launch changes nothing.  *)
RunsSettled ==
    app \in {"running", "leaving"} /\ updater \in {"none", "waiting"} /\ "overlap" \notin harm =>
        /\ disk[Front] = image
        /\ Baks \subseteq stale
        /\ harm = {} => disk[Exe] = image /\ \A p \in Paths : Settled(p) = disk[p]

(* The mark that refuses downgrades never exceeds the version the folder   *)
(* settles on: an update that is undone never leaves an app the mark would *)
(* not have installed.                                                     *)
MarkIsInstalled == harm = {} => mark <= Version

(* A launch that got through runs one release, settled, and none below the *)
(* mark it leaves for the next.                                            *)
LaunchIsSettled == RunsSettled /\ MarkIsInstalled

(* Recovered: "the install folder holds no half-applied update".  An app   *)
(* past its recovery finds every file of its release in its content.       *)
RecoveredIsWhole ==
    app = "running" /\ updater = "none" =>
        \A p \in Ships(image) : disk[p] = Release[image][p]
=============================================================================
