---------------------------- MODULE UpdateOffer -----------------------------
(***************************************************************************)
(* The updater inside the application (updater/types.rs, handlers.rs,      *)
(* check.rs, download.rs): what is on offer, the phase every surface reads, *)
(* the one staging folder, and the claim of an apply, up to the moment the *)
(* updater child is started and the application quits (UpdateSwap goes on  *)
(* from there).                                                            *)
(*                                                                         *)
(* Every request is a task of its own; the state is behind one mutex, the  *)
(* settings behind the database's queue, and the staging folder behind     *)
(* neither.  A step is one hold of the mutex, or one touch of the folder.  *)
(***************************************************************************)
EXTENDS Naturals, FiniteSets, FiniteSetsExt

CONSTANTS Releases,     \* the releases newer than the one that runs
          Prereleases,  \* those of them the stable channel does not list
          Tasks,        \* numbers for the tasks that run at once
          None,
          Histories     \* what a history may ask for: request -> how often; and whether its
                        \* folder may refuse to go ("stuck", a flag)

Channels == {"stable", "dev"}
Requests == {"check", "login", "change", "dismiss", "download", "cancel", "apply", "kill", "stuck"}

ASSUME OfferAssumption ==
    /\ Tasks \subseteq Nat \ {0} /\ IsFiniteSet(Tasks)
    /\ Prereleases \subseteq Releases
    /\ None \notin Releases /\ None \notin Channels /\ None \notin Tasks
    /\ Histories \subseteq [Requests -> Nat]

VARIABLES
    left,       \* request -> how many more of it the history has
    setting,    \* settings.db: the channel chosen
    skip,       \* settings.db: the version dismissed last
    phase,      \* UpdaterPhase; .under: the channel its release was found on, None when a
                \* former launch staged it; .stray: adopted although its folder was on its way
                \* out, or a deletion of it had failed
    info,       \* last_info, with the channel it was found on
    channel,    \* the channel the state is on, or None before the first check
    held,       \* the download whose task and token the state holds
    task,       \* the tasks that run, Blank for a free number
    staging,    \* .update-staging: whose release, by which download, whether its manifest is
                \* there; .spared: a deletion of it failed, some of its files may be gone
    cleanups,   \* calls of cleanup_staging still to run, outside the mutex
    lingered,   \* ghost: a download that was stopped acted over a later operation
    gone        \* the child runs and the application has quit

db    == <<setting, skip>>
state == <<phase, info, channel, held>>
disk  == <<staging, cleanups>>
vars  == <<left, db, state, task, disk, lingered, gone>>

(***************************************************************************)
(* State                                                                   *)
(***************************************************************************)

Idle      == [at |-> "Idle", v |-> None, under |-> None, stray |-> FALSE]
NoStaging == [v |-> None, by |-> 0, under |-> None, whole |-> FALSE, spared |-> FALSE]
Blank     == [does |-> "none", at |-> "none", v |-> None, under |-> None, skip |-> None,
              stopped |-> FALSE]

Places ==
    [none     |-> {"none"},
     check    |-> {"asking"},
     login    |-> {"scanning", "found", "declined", "asking"},
     change   |-> {"asked"},
     dismiss  |-> {"asked"},
     download |-> {"fetching", "filling", "verified", "whole", "failed"},
     apply    |-> {"claiming", "launching", "spawning", "refused", "up"}]

Versions == Releases \cup {None}
Found    == Channels \cup {None}
Does     == DOMAIN Places
Ats      == UNION {Places[d] : d \in Does}

TypeOK ==
    /\ left \in [Requests -> Nat]
    /\ setting \in Channels /\ skip \in Versions
    /\ phase \in [at : {"Idle", "Downloading", "Ready", "Applying"}, v : Versions, under : Found,
                  stray : BOOLEAN]
    /\ phase.at = "Idle" => phase = Idle
    /\ info \in [v : Releases, under : Channels] \cup {None}
    /\ channel \in Found /\ held \in Tasks \cup {None}
    /\ task \in [Tasks -> [does : Does, at : Ats, v : Versions, under : Found, skip : Versions,
                           stopped : BOOLEAN]]
    /\ \A t \in Tasks : task[t].at \in Places[task[t].does]
    /\ staging \in [v : Versions, by : Tasks \cup {0}, under : Found, whole : BOOLEAN,
                   spared : BOOLEAN]
    /\ cleanups \in Nat /\ lingered \in BOOLEAN /\ gone \in BOOLEAN

(* The releases a channel lists (check.rs:35-38).                            *)
List(ch) == IF ch = "dev" THEN Releases ELSE Releases \ Prereleases

Live(t)    == task[t] # Blank
At(t, does, at) == task[t].does = does /\ task[t].at = at
Goes(t, at)     == task' = [task EXCEPT ![t].at = at]
Ends(t)         == task' = [task EXCEPT ![t] = Blank]
Staged(v)  == staging.whole /\ staging.v = v
OnOffer(v) == info # None /\ info.v = v

(* names_version and answer_download: a version this state itself put on     *)
(* the table, and nothing else holds the phase.                              *)
MayDownload(v) ==
    /\ OnOffer(v)
    /\ phase.at \notin {"Downloading", "Applying"}
    /\ phase.at = "Ready" => phase.v # v

(* A request spawns a task.  Tasks bounds how many run at once.              *)
Free == {t \in Tasks : ~Live(t)}

Starts(does, at, v, under, skips) ==
    /\ Free # {}
    /\ task' = [task EXCEPT ![Min(Free)] = [does |-> does, at |-> at, v |-> v, under |-> under,
                                            skip |-> skips, stopped |-> FALSE]]

(* A deletion of the folder that was decided and has not run.                *)
Clearing == cleanups > 0 \/ \E t \in Tasks : At(t, "login", "declined")

Asks(request) ==
    /\ ~gone /\ left[request] > 0
    /\ left' = [left EXCEPT ![request] = @ - 1]

(* What a deletion leaves: nothing, or, its failure ignored, the folder with *)
(* or without its manifest.                                                  *)
Removed ==
    {NoStaging} \cup
    {[staging EXCEPT !.spared = TRUE, !.whole = whole] :
        whole \in IF left["stuck"] = 0 \/ staging = NoStaging THEN {} ELSE {FALSE, staging.whole}}

(* Faulty: the phase is reset, the task and its token are forgotten.         *)
ForgetHeld(tasks) == tasks

(* stop_download: the token is cancelled and the task aborted.  Dropped at   *)
(* its next await, it still settles if it is past its last one.              *)
StopHeld(tasks) ==
    IF held = None THEN tasks ELSE [tasks EXCEPT ![held].stopped = TRUE]

(* Faulty: the phase keeps naming the version.                               *)
ResetTask == phase' = [phase EXCEPT !.at = "Idle"] /\ held' = None

ResetToIdle == phase' = Idle /\ held' = None

(* What owes a deletion of the folder has it done off the mutex.             *)
Owed == cleanups + 1

Init ==
    /\ left \in Histories
    /\ setting \in Channels /\ skip = None
    /\ phase = Idle /\ info = None /\ channel = None /\ held = None
    /\ task = [t \in Tasks |-> Blank]
    /\ staging \in {NoStaging} \cup [v : Releases, by : {0}, under : {None}, whole : {TRUE},
                                     spared : {FALSE}]
    /\ cleanups = 0 /\ lingered = FALSE /\ gone = FALSE

(***************************************************************************)
(* The update channel, and a dismissal                                     *)
(***************************************************************************)

(* updater.set_channel: the setting is posted, and a task takes it from      *)
(* there.                                                                    *)
SetChannel(now) ==
    /\ Asks("change") /\ setting' = now
    /\ Starts("change", "asked", None, now, None)
    /\ UNCHANGED <<skip, state, disk, lingered, gone>>

(* Faulty: a switch ends an apply too.                                       *)
AbandonsAll == phase.at # "Idle"

(* abandon_for_channel_change: an apply is spared, its child installs from   *)
(* the folder.                                                               *)
Abandons == phase.at \in {"Downloading", "Ready"}

Abandon(t) ==
    /\ At(t, "change", "asked")
    /\ channel' = task[t].under /\ info' = None
    /\ IF Abandons
       THEN /\ task' = [StopHeld(task) EXCEPT ![t] = Blank]
            /\ ResetToIdle /\ cleanups' = Owed
       ELSE Ends(t) /\ UNCHANGED <<phase, held, cleanups>>
    /\ UNCHANGED <<left, db, staging, lingered, gone>>

(* handle_updater_dismiss: the version is posted as the one to skip, then    *)
(* everything that names it ends.                                            *)
Dismiss(v) ==
    /\ Asks("dismiss") /\ skip' = v
    /\ Starts("dismiss", "asked", v, None, None)
    /\ UNCHANGED <<setting, state, disk, lingered, gone>>

Drops(v) == phase.at \in {"Downloading", "Ready"} /\ phase.v = v

DismissOffer(t) ==
    /\ At(t, "dismiss", "asked")
    /\ info' = IF OnOffer(task[t].v) THEN None ELSE info
    /\ IF Drops(task[t].v)
       THEN /\ task' = [StopHeld(task) EXCEPT ![t] = Blank]
            /\ ResetToIdle /\ cleanups' = Owed
       ELSE Ends(t) /\ UNCHANGED <<phase, held, cleanups>>
    /\ UNCHANGED <<left, db, channel, staging, lingered, gone>>

(* cleanup_staging, off the mutex: after a change, a dismissal or a release. *)
Cleanup ==
    /\ cleanups > 0
    /\ cleanups' = cleanups - 1 /\ staging' \in Removed
    /\ UNCHANGED <<left, db, state, task, lingered, gone>>

(***************************************************************************)
(* Checks                                                                  *)
(***************************************************************************)

(* updater.check, once its task has read the channel.                        *)
Check ==
    /\ Asks("check")
    /\ Starts("check", "asking", None, setting, None)
    /\ UNCHANGED <<db, state, disk, lingered, gone>>

(* trigger_update_check: at every login, all the settings in one read.       *)
Login ==
    /\ Asks("login")
    /\ Starts("login", "scanning", None, setting, skip)
    /\ UNCHANGED <<db, state, disk, lingered, gone>>

(* detect_staged_update reads the folder under no lock.                      *)
Scan(t) ==
    /\ At(t, "login", "scanning")
    /\ task' = [task EXCEPT ![t].at = IF staging.whole THEN "found" ELSE "asking",
                            ![t].v  = IF staging.whole THEN staging.v ELSE None]
    /\ UNCHANGED <<left, db, state, disk, lingered, gone>>

(* take_staged: only Idle holds nothing of its own.                          *)
MayAdopt == phase.at = "Idle"

TakeStaged(t) ==
    /\ At(t, "login", "found")
    /\ CASE ~MayAdopt                  -> Ends(t) /\ UNCHANGED phase
          [] MayAdopt /\ task[t].v = task[t].skip -> Goes(t, "declined") /\ UNCHANGED phase
          [] OTHER ->
               /\ Ends(t)
               /\ phase' = [at |-> "Ready", v |-> task[t].v,
                            under |-> IF Staged(task[t].v) THEN staging.under ELSE None,
                            stray |-> ~Staged(task[t].v) \/ Clearing \/ staging.spared]
    /\ UNCHANGED <<left, db, info, channel, held, disk, lingered, gone>>

CleanDeclined(t) ==
    /\ At(t, "login", "declined")
    /\ staging' \in Removed /\ Goes(t, "asking")
    /\ UNCHANGED <<left, db, state, cleanups, lingered, gone>>

(* Faulty: an answer counts whatever the channel is by then.                 *)
NeverStale(t) == FALSE

(* check_for_update and settle_check.  What it found is a release its        *)
(* channel listed, none it could offer, or no answer.                        *)
IsStale(t) == channel \notin {None, task[t].under}

Settle(t, outcome) ==
    /\ channel' = task[t].under
    /\ info' = CASE outcome = "failed" -> info
                 [] outcome = "none"   -> IF phase.at = "Idle" THEN None ELSE info
                 [] OTHER              -> [v |-> outcome, under |-> task[t].under]

Answer(t) ==
    /\ task[t].does \in {"check", "login"} /\ task[t].at = "asking"
    /\ Ends(t)
    /\ \E outcome \in List(task[t].under) \cup {"none", "failed"} :
          IF IsStale(t) \/ outcome = task[t].skip
          THEN UNCHANGED <<channel, info>>
          ELSE Settle(t, outcome)
    /\ UNCHANGED <<left, db, phase, held, disk, lingered, gone>>

(***************************************************************************)
(* Downloads                                                               *)
(***************************************************************************)

(* handle_updater_download: what another version staged goes first, under    *)
(* the mutex.                                                                *)
Download(v) ==
    /\ Asks("download") /\ MayDownload(v)
    /\ phase' = [at |-> "Downloading", v |-> v, under |-> info.under, stray |-> FALSE]
    /\ Starts("download", "fetching", v, info.under, None)
    /\ held' = Min(Free)
    /\ staging' \in IF phase.at = "Ready" THEN Removed ELSE {staging}
    /\ UNCHANGED <<db, info, channel, cleanups, lingered, gone>>

(* prepare_staging_dir, once the manifest is fetched and verified: a folder  *)
(* that would not go is taken over, its old manifest with it if that stayed. *)
Prepare(t) ==
    /\ At(t, "download", "fetching")
    /\ Goes(t, "filling")
    /\ \E old \in Removed :
          staging' = IF old.whole
                     THEN [old EXCEPT !.by = t]
                     ELSE [v |-> task[t].v, by |-> t, under |-> task[t].under, whole |-> FALSE,
                           spared |-> FALSE]
    /\ UNCHANGED <<left, db, state, cleanups, lingered, gone>>

(* The archive is fetched, extracted and verified, file by file: a folder    *)
(* that is not this download's any more fails it.  A timing assumption, the  *)
(* only one: a deletion that was decided, and what a stopped download still  *)
(* does before its next await, take less time than a whole archive.          *)
Lingering == \E u \in Tasks : task[u].stopped /\ Live(u)

Fill(t) ==
    /\ At(t, "download", "filling") /\ ~task[t].stopped
    /\ ~Clearing /\ ~Lingering
    /\ Goes(t, IF staging.by = t THEN "verified" ELSE "failed")
    /\ UNCHANGED <<left, db, state, disk, lingered, gone>>

(* The manifest is written last, with no await since the verification: a     *)
(* stopped download goes on here.  Without the folder the write fails.  What *)
(* was verified is all there, whatever a deletion before it left.            *)
WriteManifest(t) ==
    /\ At(t, "download", "verified")
    /\ IF staging = NoStaging
       THEN Goes(t, "failed") /\ UNCHANGED staging
       ELSE /\ Goes(t, "whole")
            /\ staging' = [staging EXCEPT !.v = task[t].v, !.under = task[t].under, !.whole = TRUE,
                                          !.spared = @ /\ (task[t].stopped \/ staging.by # t)]
    /\ lingered' = (lingered \/ staging.by \notin {0, t})
    /\ UNCHANGED <<left, db, state, cleanups, gone>>

(* A request, the disk or a verification fails; or the token is found        *)
(* cancelled.                                                                *)
Fail(t) ==
    /\ task[t].does = "download" /\ task[t].at \in {"fetching", "filling", "verified"}
    /\ Goes(t, "failed")
    /\ UNCHANGED <<left, db, state, disk, lingered, gone>>

IsAwaited(t) == phase.at = "Downloading" /\ phase.v = task[t].v

(* download_update, once it has the mutex: a download nobody waits for any   *)
(* more drops what it staged.                                                *)
Finish(t) ==
    /\ At(t, "download", "whole")
    /\ Ends(t)
    /\ IF IsAwaited(t)
       THEN phase' = [phase EXCEPT !.at = "Ready"] /\ held' = None /\ UNCHANGED staging
       ELSE staging' \in Removed /\ UNCHANGED <<phase, held>>
    /\ lingered' = (lingered \/ (task[t].stopped /\ phase.at # "Idle"))
    /\ UNCHANGED <<left, db, info, channel, cleanups, gone>>

FailsClean(t) == ~task[t].stopped

GiveUp(t) ==
    /\ At(t, "download", "failed")
    /\ Ends(t) /\ ResetToIdle
    /\ staging' \in IF FailsClean(t) THEN Removed ELSE {staging}
    /\ lingered' = (lingered \/ (task[t].stopped /\ phase.at # "Idle"))
    /\ UNCHANGED <<left, db, info, channel, cleanups, gone>>

(* The abort takes a stopped download at its next await.                     *)
Aborted(t) ==
    /\ task[t].stopped /\ Live(t)
    /\ Ends(t)
    /\ UNCHANGED <<left, db, state, disk, lingered, gone>>

(* handle_updater_cancel: all of it under the mutex.                         *)
Cancel ==
    /\ Asks("cancel") /\ phase.at = "Downloading"
    /\ task' = StopHeld(task) /\ ResetToIdle /\ staging' \in Removed
    /\ UNCHANGED <<db, info, channel, cleanups, lingered, gone>>

(***************************************************************************)
(* Applies                                                                 *)
(***************************************************************************)

(* handle_updater_apply: its task reads the channel, then claims.            *)
Apply(v) ==
    /\ Asks("apply")
    /\ Starts("apply", "claiming", v, setting, None)
    /\ UNCHANGED <<db, state, disk, lingered, gone>>

MayClaim(v) == phase.at = "Ready" /\ phase.v = v

ClaimApply(t) ==
    /\ At(t, "apply", "claiming")
    /\ IF MayClaim(task[t].v)
       THEN Goes(t, "launching") /\ phase' = [phase EXCEPT !.at = "Applying"]
       ELSE Ends(t) /\ UNCHANGED phase
    /\ UNCHANGED <<left, db, info, channel, held, disk, lingered, gone>>

(* The staged manifest decides whether the child is told to skip its own     *)
(* download (.skip then names the release); what does not match goes.        *)
ReadStaged(t) ==
    /\ At(t, "apply", "launching")
    /\ IF Staged(task[t].v)
       THEN /\ task' = [task EXCEPT ![t].at = "spawning", ![t].skip = task[t].v]
            /\ UNCHANGED staging
       ELSE Goes(t, "spawning") /\ staging' \in Removed
    /\ UNCHANGED <<left, db, state, cleanups, lingered, gone>>

Spawn(t) ==
    /\ At(t, "apply", "spawning")
    /\ \E outcome \in {"up", "refused"} : Goes(t, outcome)
    /\ UNCHANGED <<left, db, state, disk, lingered, gone>>

Claims(t) == phase.at = "Applying" /\ phase.v = task[t].v

(* Faulty: after a switch nobody gives the phase back.                       *)
ReleasesOnItsChannel(t) == Claims(t) /\ ~IsStale(t)

GivesBack(t) == Claims(t)

(* release_apply: a claim no child was started for goes back to its offer,   *)
(* or to nothing when the channel moved meanwhile.                           *)
ReleaseApply(t) ==
    /\ At(t, "apply", "refused")
    /\ Ends(t)
    /\ CASE ~GivesBack(t) -> UNCHANGED <<phase, held, cleanups>>
          [] GivesBack(t) /\ IsStale(t) -> ResetToIdle /\ cleanups' = Owed
          [] OTHER -> phase' = [phase EXCEPT !.at = "Ready"] /\ UNCHANGED <<held, cleanups>>
    /\ UNCHANGED <<left, db, info, channel, staging, lingered, gone>>

(* UpdaterQuitTask, on the UI thread.                                        *)
Quit(t) ==
    /\ At(t, "apply", "up") /\ ~gone
    /\ gone' = TRUE
    /\ UNCHANGED <<left, db, state, task, disk, lingered>>

(* The application ends some other way and is started again: the folder and  *)
(* the settings stay.                                                        *)
Kill ==
    /\ Asks("kill") /\ ~\E t \in Tasks : At(t, "apply", "up")
    /\ phase' = Idle /\ info' = None /\ channel' = None /\ held' = None
    /\ task' = [t \in Tasks |-> Blank]
    /\ staging' = [staging EXCEPT !.by = 0, !.under = None]
    /\ cleanups' = 0 /\ lingered' = FALSE
    /\ UNCHANGED <<db, gone>>

(***************************************************************************)
(* Specification                                                           *)
(***************************************************************************)

OfChange(t)   == Abandon(t) \/ DismissOffer(t)
OfCheck(t)    == Scan(t) \/ TakeStaged(t) \/ CleanDeclined(t) \/ Answer(t)
OfDownload(t) == Prepare(t) \/ Fill(t) \/ WriteManifest(t) \/ Fail(t) \/ Finish(t) \/ GiveUp(t)
                    \/ Aborted(t)
OfApply(t)    == ClaimApply(t) \/ ReadStaged(t) \/ Spawn(t) \/ ReleaseApply(t) \/ Quit(t)

Next ==
    \/ \E ch \in Channels : SetChannel(ch)
    \/ \E v \in Releases : Dismiss(v) \/ Download(v) \/ Apply(v)
    \/ Check \/ Login \/ Cancel \/ Kill
    \/ ~gone /\ (Cleanup \/ \E t \in Tasks : OfChange(t) \/ OfCheck(t) \/ OfDownload(t) \/ OfApply(t))

(* The runtime polls a task that can go on, and UI tasks run.  Nothing is     *)
(* assumed of the network, the user, or what a download does.                *)
Spec == Init /\ [][Next]_vars /\ \A t \in Tasks : WF_vars(~gone /\ OfApply(t))

(***************************************************************************)
(* Properties                                                              *)
(***************************************************************************)

(* What is on offer, and what is being downloaded, was found on the channel  *)
(* the state is on: no answer of a check that was asked on another channel,  *)
(* however late, and no download that was started before a switch, survives  *)
(* it (types.rs:258, 301).                                                   *)
OfferOfItsChannel ==
    /\ info # None => info.under = channel
    /\ phase.at = "Downloading" => phase.under = channel

(* A release that is ready is in the folder, whole, whatever was cancelled,  *)
(* dismissed, switched or scanned before, and whichever deletions failed.    *)
(* Two doors stay open (README): .stray, a folder adopted on a scan that was *)
(* out of date or though its deletion had failed, and lingered.              *)
ReadyIsStaged ==
    phase.at = "Ready" /\ ~phase.stray /\ ~lingered
        => Staged(phase.v) /\ ~staging.spared /\ ~Clearing

(* A download that runs is the one the phase names and the one a cancel, a   *)
(* dismissal or a switch can stop; and the phase names no other.             *)
DownloadIsHeld ==
    ~lingered =>
        /\ \A t \in Tasks : task[t].does = "download" /\ Live(t) /\ ~task[t].stopped
                => held = t /\ phase.at = "Downloading" /\ phase.v = task[t].v
        /\ phase.at = "Downloading" => held # None /\ Live(held) /\ ~task[held].stopped

(* At most one updater child is started in the life of a claim, and for the  *)
(* release the phase names (handlers.rs:308).                                *)
Starting(t) == task[t].does = "apply" /\ task[t].at \in {"launching", "spawning", "refused", "up"}

OneClaim ==
    ~lingered => \A t \in Tasks : Starting(t) =>
        /\ phase.at = "Applying" /\ phase.v = task[t].v
        /\ \A u \in Tasks : Starting(u) => u = t

(* The phase names the task that works for it, and no other works: one       *)
(* download that can be stopped, one apply.                                  *)
PhaseHasItsTask == DownloadIsHeld /\ OneClaim

(* An offer stands on work that is under way for it, and on its own channel. *)
OfferStands == OfferOfItsChannel /\ PhaseHasItsTask

(* The folder a child was told to install from stays whole under it: no      *)
(* switch, dismissal, scan or late download deletes or replaces it.          *)
ApplyKeepsStaging ==
    \A t \in Tasks : task[t].does = "apply" /\ task[t].at \in {"spawning", "up"}
                      /\ task[t].skip # None /\ ~phase.stray /\ ~lingered
        => Staged(task[t].skip)

(* What was cancelled, dismissed or switched away from leaves nothing that a *)
(* later login would find and adopt, whatever ran meanwhile: but the folder  *)
(* whose own deletion failed (.spared), as nothing tries again, and the one  *)
(* another launch left (by 0).                                               *)
DeclinedLeavesNothing ==
    (\A t \in Tasks : ~Live(t)) /\ cleanups = 0 /\ ~lingered /\ staging.whole /\ staging.by # 0
        => staging.spared \/ (phase.at = "Ready" /\ phase.v = staging.v)

(* The phase and the staging folder agree, both ways: what is ready or being *)
(* installed is there, whole, and what was declined is not.                  *)
PhaseIsTheFolder == ReadyIsStaged /\ ApplyKeepsStaging /\ DeclinedLeavesNothing

(* A claim ends: the child runs and the application quits, or the phase is   *)
(* given back (handlers.rs:414).                                             *)
ClaimEnds == phase.at = "Applying" ~> (gone \/ phase.at # "Applying")
=============================================================================
