# TidaLunar in TLA+

TidaLunar is a native desktop client for TIDAL: a Rust process that embeds
TIDAL's web player in CEF, plays the audio itself, and answers the page, the
plugins, other devices (TIDAL Connect) and the operating system. This directory
holds the specifications kept beside that code. Paths below are relative to the
directory that contains `src/`.

Contents

1. The system: components, state, interactions, what is hard
2. The modules, and how they correspond to the code
3. The runs: what each checks, its bounds, its fairness
4. What is proved, and how
5. Where the code and what is said of it differ
6. What is abstracted, external, or not modelled
7. Plan

## 1. The system

### Threads and who talks to whom

| Actor | What it is | Talks to |
| --- | --- | --- |
| CEF UI thread | runs every IPC handler of the page under the `AppState` lock (`with_state`) | the player (`Player`), the settings actor, tokio |
| Player thread | one thread, one FIFO of `PlayerCommand`s | decode thread, audio backend, UI thread (events) |
| Decode threads | read a track's buffer and feed the backend | `RamBuffer` |
| Audio callback | pulls samples, cpal, WASAPI or ASIO | shared atomics |
| tokio tasks | load, download, preload, re-arm, advance, Connect, updates | all of the above |
| Database actor | one thread, one queue of closures over `settings.db` | whoever posted them |
| Connect receiver and controller | a web-socket session each, on tokio | the player, the page |
| Plugin host | a child process per trust domain, IPC over its stdio | UI thread |
| Updater | a second executable that replaces the install | the files of the install |

### Components

Each row names the state a component keeps, its operations, what makes it hard,
and the property that makes it correct. `PROJECT.json` lists the same
components with their sources and whether they are modelled.

| Component | State | Operations | Hard because | Correct when |
| --- | --- | --- | --- | --- |
| **Output level** (`player/mod.rs` `OutputLevel`, `LevelStore`; `volume.ts`) | one level, its audible companion, a count of changes and the floor of admitted reports, one save slot; the page's mirror | set from a page, a controller, the mixer, a plugin, TIDAL's restore; mute, unmute; save; catch up | five writers, messages in both directions, kills between change and write | the page and Rust agree once quiet; the newest level is the one saved; unmute is heard |
| **Volume output** (`thread/commands.rs`, `device.rs`, `volume_sync.rs`) | software gain, bypass gain, the endpoint session held, the device and the mode | set volume, load, device and mode switch, mixer notification, setting on and off | the same level lives in three places and moves between them on every switch | what is recorded is what is heard, and applied once |
| **Load coordination** (`player/mod.rs`, `flush.rs`, `commands.rs`) | a generation word with owner, the load's handle, token and source, the thread's loaded and pending state | load, stop, play, pause, re-arm, advance, their tasks and commands | a request's steps take separate locks, and its continuations hold none | a stop holds; nothing starts over a newer load; a deferred play is answered |
| **Streaming buffer** (`player/buffer.rs`, `audio/preload.rs`) | bytes from a base, end marks, one restart slot, the staged ciphertext | read, seek, restart, reconnect, cancel, finish, cache | a blocking reader and an async task share one slot and two different wake-ups | a reader hears the file or a failure, always; the cache gets whole files only |
| Preload and crossfade | the staged next track and its owner | stage, adopt, promote, discard | adoption races a new load | one owner per buffer; no staged track of a dead queue |
| Player thread: decode, seek, resume | decode handle, position, resume intent | seek, end of track, failure, recovery | late events of a decode already replaced | events of one decode only |
| **Track cache on disk** (`player/cache.rs`) | index rows, files, evictions in progress, the total | store, look up, evict, clear, resize | files move outside the lock the rows live under | a row never names a file that is not its own; a removal takes what it meant |
| Bandwidth governor | budgets of the playing and the staged download | acquire, adjust | priorities under a changing link | the playing track is never starved |
| Output devices | backend handles, host threads, negotiated formats | open, start, stop, lose, release | host threads outlive the requests they serve | one stream; teardown ends |
| Connect receiver | session, queue, play state, outbox | join, command, leave, resume | a controller and this host contend for one player | messages of one session only |
| **Connect controller** (`connect/controller/`, `ipc/controller.rs`) | one attempt in flight, its waiters, the session, what the page was told | dial, supersede, cancel, resume, close | one slot shared by requests that await | each request answered once; a replaced attempt installs nothing; the page is told |
| Connect transport | pending requests, heartbeat | request, answer, time out, close | an answer races a time-out and a close | every request ends |
| **Page session, plugin load gate** (`app_state.rs`, `ui/proactive_refresh.rs`) | session epoch, token, parked loads, the gate | log out, refresh, open the gate, load | work that spans a logout or a reload | nothing of an old session is committed; a parked load is answered |
| **Plugin store and lifecycle** (`plugins/manager.rs`, `ipc/plugin/`) | flags, the live load of each plugin | enable, disable, restart, load all; install, update, remove | a task per call, each reading rows and loads in separate steps | what runs is what the manager names; off stays off |
| Trust prompts, install consent | slots of open dialogs | ask, share, answer, abandon | an uninstall between an answer and its write | nothing recorded that nobody answered |
| **Updater, in the application** (`src/updater/`) | the phase, the staging folder, the channel, the skipped version | check, download, cancel, dismiss, switch, apply | the mutex covers the phase, not the folder | an offer is of its channel and stands on what is staged |
| **Updater, the replacing process** (`updater/`, `recovery.rs`) | install folder, journal, high-water mark | swap, roll back, recover | a crash between any two file operations | the install is one version |
| **Single instance** (`platform/app_lock.rs`) | mutex, focus event, pipe | acquire, hand a link over, stop, take over | two launches at once, one of them leaving | one instance; no click lost |
| Settings and database actor | `settings.db`, a queue | post, call, flush, repair | damage found while open | no setting lost silently |

The interactions that matter most are modelled where they bite: the page and
the output level, the mixer and the player thread, requests and continuations
over the generation word, the download task and the decoder, the tasks of an
update over the staging folder, the updater and the next launch over the install
folder, a launch and the holder it waits for, requests to connect over one slot, and
plugin tasks over the state's lock while a logout runs between their steps.

## 2. The modules

| Module | Models | Used by |
| --- | --- | --- |
| `Level` | `OutputLevel` as a value: set, mute, unmute, admit, restore | `OutputLevel` |
| `OutputLevel` | the level's owners, the page, the wires, the save slot, launches | `MCOutputLevel`, `Player_proofs` |
| `VolumeOutput` | how the recorded level comes to be heard, on Windows | `MCVolumeOutput`, `VolumeOutput_proofs` |
| `LoadCoordinator` | loads, stops, re-arms, advances and the player thread | `MCLoadCoordinator`, `Player_proofs` |
| `ByteSource` | the abstract specification: what a decoder may rely on | `StreamBuffer` (`INSTANCE`) |
| `StreamBuffer` | `RamBuffer`, `download_stream` and their readers | `MCStreamBuffer`, `TrackBytes_proofs` |
| `UpdateSwap` | the updater's swap of the install folder and the app's recovery | `MCUpdateSwap`, `UpdateSwap_proofs` |
| `UpdateOffer` | the application's update phases, their tasks and the staging folder | `MCUpdateOffer`, `UpdateOffer_proofs` |
| `TrackCache` | the index, the files, stores, eviction passes and a Clear | `MCTrackCache`, `TrackBytes_proofs` |
| `AppLock` | launches, the holder of the account's lock and its listener, on Windows | `MCAppLock`, `AppLock_proofs` |
| `ConnectController` | the attempt in flight, the sockets, the session, the page | `MCConnectController`, `ConnectController_proofs` |
| `PluginLoads` | plugin calls and load passes, the session and its gate, the page's claims | `MCPluginLoads`, `PluginLoads_proofs` |

`Player_proofs` is about two modules, `OutputLevel` and `LoadCoordinator`, and
`TrackBytes_proofs` about `StreamBuffer` and `TrackCache`; one of each pair carries its
component in the names of its specification (`LevelSpec`, `CacheSpec`), so that both can
be extended together.

Most modules take a rigid set of histories (`Launches`, `Sessions`, `Worlds`). One is
drawn in `Init` and never changes; an action that needs something of it has that as a
conjunct. One run then covers several environments, and a property can say which of
them it holds in.

### OutputLevel

`level` is `Player.output_level`; `unsaved`, `queued`, `writing` and `saved` are
the stages of `LevelStore::save` through the database actor. `Remote` is
`change_level`, the path of a controller, a mute and `note_volume`: it changes
the level, keeps it, and reports to the page, all under the level's lock, so it
is one action. `SetVolume` is `player.volume` as Rust receives it: `Admits`
compares the report the page had seen with the floor. `CatchUpPage` is
`connect.catch_up_level`. The page has TIDAL's `store`, and the forwarder's
`held` and `seen`. `Mirror` and `SeedRust` are the two branches of
`catchUpWithRust`. `toRust` is a FIFO, as CEF delivers a page's messages;
`reports` is a set, because an event and a reply take different ways.
`PageLoad`, `Kill` and `Quit` start the next page or launch.

### VolumeOutput

The fields keep the names of `PlayerThread`. `InitVolumeSync` is
`init_volume_sync` with its three outcomes: bound and asserted or adopted,
unavailable, and bound but failed. `LoadShared`, `Rebuild`, `EnterBypass` and
`LeaveBypass` are the paths of `handle_load` and `apply_device_switch` that
reach it. `session` is Windows' per-endpoint volume of this application, and
`MixerMove` its slider. Only levels matter to the properties: formats, latency
and the audio itself are not there.

### LoadCoordinator

A generation identifies the request that minted it. `mint[g]` is what it
carries, and `at[g]` its next step in `load_with_policy`: announce, abort,
publish, spawn. Requests of the page and of a controller hold the `AppState`
lock (`lock`) from mint to the last step; `Continue`, the tail of a re-arm or
an advance, holds none, which is where the interleavings come from. `cmds` is
the thread's channel. Each `Handle…` action is one command handled to its end.
`tails`, `replays`, `takers` and `ended` are the events and spawned tasks
between the thread and a continuation, with what they captured.

### StreamBuffer and ByteSource

Each action is one critical section of `Inner`'s lock, or the code between two
awaits of `download_stream`. `at` is the task's program counter. Its steps in
`Awaits` are those at which the future may be dropped. A reader's `armed` step
is the gap between posting a restart and the wait, during which a notification
is lost on it. `Interrupted` is `wait_for_restart_or_cancel` winning a
`select!`; `Signalled` says when it must. `ByteSource` knows a file and readers:
a read is told the byte at its position, the end, or a failure. `StreamBuffer`
implements it with `asking` mapped to "the reader is inside `read`"; the other
variables have the same names.

### UpdateSwap

`disk`, `bak`, `journal` and `staged` are the install folder, and survive `Crash`.
`updater` and `app` are the two processes' program counters, `todo` and `rest` what
their loops have left. Each rename, removal and journal write of `run` in
`updater/src/main.rs` and of `apply_journal` in `recovery.rs` is an action, so that a
crash falls between any two. `Fail` is an error returned by `run`, after which
`main` starts the app on the folder as it is. A file's content is the number of the
release that last changed it. A rollback is two actions per file, as in the code: `RollBack`
removes what is in the way, `Restore` renames the `.bak` to it, and neither is told when it
does nothing.

`Incidents` chooses what may go wrong, and the run and the proofs have all four: `"crash"`,
anywhere, the write of a journal included; `"fail"`, a read, rename, copy or write that is
refused and seen; `"keep"`, a call whose result is ignored and that does nothing;
`"launch"`, the user starts the app while the updater works. `pins` is drawn in `Init`: on
Windows a running executable can be neither removed nor replaced, and the recovery runs
from the file it is to restore (`Stuck`). Two history variables record what the code does
not get over. `stale` are the `.bak` files that outlived their update: a commit that was cut
off or could not be written leaves them, and so does a removal that failed. `harm` says which
of four things befell the folder: `"overlap"`, a recovery beside a working updater;
`"unrestored"`, a rollback that did not put a file back; `"older"`, one that put back a
stale `.bak`; `"unread"`, a pending journal removed because it could not be read.

### UpdateOffer

A step is one hold of the `UPDATER_STATE` mutex or one touch of `.update-staging`,
which the mutex does not cover. `at` and `job` are the tasks (a check, a login, a
switch, a dismissal, a download, an apply) with what each captured; `Tasks` bounds
how many run at once, and `left` is what the history may still ask for. The setting
and the skipped version survive `Kill`, as `settings.db` does. The staging folder
has the release it holds, the task that writes it, the settings it was asked under, and
whether it is whole. `lingered` holds a stopped download past its last await. In a history
with `"stuck"` any deletion of the folder may do nothing, or take only some of its files: the
code ignores the result in each place (`Removed`). What is left is marked `spared`.

### TrackCache

A store is reserve, move, commit; a pass is claim, unlink, settle; `Clear` is the gate,
the wipe, a pass over all rows, the sweep of what no row owns, the answer. Each is
one hold of the index's lock or the file operation between two. A kill, `Relaunch`, keeps what was
committed to the index and every file. A history says whether deletions of files are
refused, whether statements of the index are (`IndexErrs`), and whether a file vanishes from
outside. A refused statement has the outcome the code gives it: a failed look for a row
counts as no row, a failed sum or size as zero, a failed `DELETE` as nothing deleted while
the file still goes. `astray` are the ids such a statement set apart from what their row
says, `unread` that a look was taken for an empty one.

### AppLock

`Starts` are launches, `Old` an earlier build. A launch asks for the mutex, and finds
it free, or held: then it tries the pipe, then the focus event, and waits or defers.
The holder goes from taking the mutex to serving links, and, when it quits, stops the
listener, joins it, tears down and releases. The listener has its own steps (wait,
make an instance of the pipe, serve). There is no clock: a wait runs out only where
nothing it waits for can still happen. `links` follows each click to its fate.

### ConnectController

A request's number names its attempt, its socket and the session it would install.
A step is one hold of the attempt's slot or of the controller's lock. `flights` are
the attempts with their hooks and reasons, sockets have an inbox and an end, and `page`
is what the page was told and how far it has read. The history chooses what a device
and the network do: a session ended, a socket lost, an answer that is malformed, a
reload of the page, a disconnect, the exit.

### PluginLoads

A step is one hold of the `AppState` lock or one trip to the database actor, with what
it posts to the page. `at` and `job` are the calls (enable, disable, restart) and the
load passes; all inject through `Mark`, `Prepare` and `Recheck`, which are
`inject_plugin`. `mail` holds code and unloads on their way, which `Deliver` takes in
any order against `_plClaim` and `_plUnload`. The session is an epoch, the session of
the token in use, the gate, and the exchanges still out. An exchange may be made with a token
or without one (a login's, or a refresh of the page's own), and a logout may fall anywhere,
between an exchange's request and its reply included; the reply commits only under the epoch
it was asked in (`SameSession`). A `Reload` keeps any part of what was posted to the old
page, and the history variable `strays` holds the loads whose code is still to come when
what refuses it went with that page.

## 3. The runs

| Run | Expects | Shows |
| --- | --- | --- |
| `level` | pass | agreement, saving and unmuting over every order of pages, controllers, mixer, plugins, TIDAL's restore, kills and quits |
| `level_saved` | pass | the level set last reaches the disk (liveness) |
| `volume` | pass | what is heard against what is recorded |
| `load` | pass | generations, ownership, stops and deferred plays |
| `stream` | pass | the buffer implements `ByteSource` and answers every read |
| `update` | pass | the swap of the install folder and its recovery, against crashes, refused and ignored operations, and launches beside the updater, on a system that pins a running executable and on one that does not |
| `offer` | pass | what is on offer against what is staged, over checks, downloads, cancels, dismissals, switches, applies, restarts and deletions that fail |
| `cache` | pass | rows, files and bytes against stores, passes, Clears, resizes, kills, refused deletions and refused statements |
| `instance` | pass | who runs, and what becomes of each click, over launches that start, quit, die and take over |
| `connect` | pass | attempts that are shared, replaced and lost, what each installs, and what the page and each request are told |
| `plugins` | pass | enables, disables, restarts and load passes against logouts, token exchanges, reloads and loads that never answer |
| `update_dropped` | violation | a rollback leaves a version without the files its successor was to drop |

### The properties

A property that names several parts is their conjunction; the modules state each part
with its own comment.

*Output level.* `LevelNotLost`: an unmute gives back the last audible level
(`UnmuteIsHeard`); one closure waits exactly while a level does, and no order of
writers and actor saves an older level last (`OneWriteQueued`, `SavedIsNewest`).
`PageFollows`: the floor never passes what a page can have seen
(`NewestReportAdmitted`), and with nothing in flight the page shows what Rust plays
(`Agree`). `EventuallySaved` is the liveness half of `SavedIsNewest`.

*Volume.* `PlaysOnce`: while the session carries the level the software gain
is at full scale (`AppliedOnce`), and once settled the recorded level is the one heard
(`PlaysRecorded`). `OnlyChosenPlays`: no level is heard that nobody chose.
`SwitchKeepsLevel`: a switch asserts, never adopts.

*Loads.* `ReplacedStaysSo`: after a stop nothing of before it starts the music
(`StopIsKept`), a page's music ends with its page (`OrphanedIsSilent`), and events are
installed in order (`SeqNeverFalls`). `LoadingIsLive`: what the thread waits for is
still to answer. `CarriesItsLoadOn`: continuations act only for the load and the
owner they saw (`AdvanceIsLocal`, `RearmCarriesOn`).

*Stream.* `HoldsTheFile`: what is held, staged and cached is the file
(`BufferIsTheFile`, `SinkIsTheBuffer`, `CachedIsWhole`). `ReadsTheFile` is the
refinement of `ByteSource`. `ReadAnswered`: every read returns.

*Update.* A launch settles the folder: it undoes a pending journal, from the `.bak` files
its update made, and leaves the disk alone otherwise. `Version` is the release it settles on.
`NothingLost`: as long as no harm was done, at every instant each file of `Version` is in
place or in its `.bak`. `MovesAtCommit`: `Version` changes in one step, the emptying of the
pending journal, and to the version asked for; no torn journal, stale `.bak` or recovery
moves it without doing harm. `LaunchIsSettled`: a running app has its own front whatever
happened but an overlap, and no `.bak` that is not stale; without harm it also has its own
executable and nothing left to undo (`RunsSettled`), and the high-water mark is never
above `Version` (`MarkIsInstalled`).

*Offer.* `OfferStands`: what is on offer is of the channel chosen
(`OfferOfItsChannel`), a download in the phase has a task that writes it
(`DownloadIsHeld`), and at most one apply holds the claim (`OneClaim`).
`PhaseIsTheFolder`: a build ready or claimed is the one staged, whole
(`ReadyIsStaged`), no one deletes it under an apply (`ApplyKeepsStaging`), and a
declined build leaves nothing for a login to adopt but the folder whose own deletion failed
(`DeclinedLeavesNothing`). `ClaimEnds`: an apply's
claim is given back or carried through.

*Cache.* `IndexIsTrue`: a file has one owner, a row its file, and bytes
without a row are somebody's, or a removal that failed left them (`RowsAreFiles`); the
total is the sum of the rows, and with no pass under way a cache over its cap has said
so (`SizeIsKnown`). A refused statement costs at most the id it was about (`astray`) and, when
a look was taken for zero (`unread`), the total; two stores never have one path, whatever is
refused. `RemovesWhatItMeant`: a Clear that
answers well leaves only files that a row or a pass still owns
(`ClearLeavesNothing`), and a verdict on a file takes the row its reader looked up,
never a later one of the track (`VerdictSparesNewer`). `ChangesEnd`: a Clear and a
resize come to an end.

*Single instance.* `OneRuns`: two launches never both hold the account, and none
starts before the holder has torn down. `LinksAreKept`: each click's link is shown,
replaced by a later one, or reported (`LinkAccounted`), and shown or replaced where
nothing failed (`NothingDropped`). `LaunchIsPatient`: a holder on its way out is waited for, not given
up on (`LeavingIsOutwaited`), and every launch comes to an end (`LaunchEnds`).

*Connect.* `PageIsTold`: with nothing posted the page shows the session there is
(`PageAgrees`); an end is owed exactly while the page has a session armed, is told
once, and is final (`ArmedWhileOwed`, `NeverEndedTwice`, `OverStaysOver`). `SessionKeepsItsSocket`: a
stopped or replaced attempt installs nothing, and a loss is laid on the session whose
socket it was. `EachAnsweredOnce`: a request is answered once, and is answered.

*Plugins.* `NothingOutlives`: what runs in the page is what the manager names or is about
to be ended (`NoGhost`), or came to a new document when the old one took what refuses it
(`strays`); no load and no token outlives its session, an exchange answered after a logout
included (`LoadOfItsSession`, `TokenOfItsSession`). `FlagsHold`: a plugin its user turned off
does not run, unless overtaken or a stray (`OffStaysOff`), and one a pass turned off failed by itself
(`FailedByItself`). `AskedIsAnswered`: one pass runs at a time, answers its own
session's requests, and every request parked is answered.

### Bounds, and why they are enough

* `level`: three percentages, silence, full scale and one between, since the
  code compares levels only with silence and for equality. Two pages let a
  replaced page's messages meet a new page; two moves let two writers race.
  About four million states.
* `volume`: two endpoints, so that a switch has somewhere to go, three levels,
  two moves.
* `load`: three generations: one that plays, one that replaces it, one that
  races the replacement. One ask, two commands waiting. Two tracks, symmetric.
  Five kinds of session, each with two or three uses.
* `stream`: a file of three chunks with a lookahead of one, so that a seek may
  be inside, just past, and too far past what has landed; two decoders, two
  stall cycles, one reconnect.
* `update`: five files (the front, swapped before the executable; one that is
  changed; one that is dropped; the executable; one that is new and dropped again)
  and three releases, so that there is an update after an update and after a
  rolled back one. Three incidents, of any of the four kinds, let a crash of an update be
  followed by a crash of its recovery and by one of the next update, and a commit cut off,
  whose `.bak` files stay, by an update that is rolled back. The paths are numbers because
  the manifest is an ordered map: each loop has one order, and the front comes before
  the executable in it. About 2.4 million states.
* `offer`: a stable and a development release, so that a switch makes an offer wrong;
  three tasks at once; nine histories of requests (`MCUpdateOffer`), each a family of
  races: a cancelled download and the next, checks across a switch, logins and a
  restart, applies across a switch, two switches, a cancel against an apply; and three in
  which the folder may refuse to go, under a cancel, a dismissal with a restart, a switch.
  About 1.2 million states.
* `cache`: two tracks, two stores, one reader; sizes 4 and 7 under caps 5 and 10, which
  make a track that never fits, a pair over the cap, and one over the target of a
  pass. A batch of one, so that a pass takes several claims. One change, one read,
  one kill, and ten histories that pair incidents: statements of the index refused
  amid stores, passes and a Clear, a resize, a load, a kill, or with refused deletions. About
  900,000 states.
* `instance`: three launches (a holder, the one that takes over, the one that races it)
  and an earlier build. Launches 1 and 3 carry a link, 1 and 2 may quit, 1 may fail to
  make its thread, event or pipe.
* `connect`: two requests for one device or for two, three for one, and histories that
  pair a session ended by the device, a socket lost, and a third incident.
* `plugins`: two plugins, one of which needs the other; each call once; two requests of
  the page; one session that ends; one exchange out at a time. The fourteen histories pair
  what races: a disable, a restart and an enable each with a reload or a logout, and logouts
  with exchanges, also from a cold start and across a reload. About half a million states.

Counters that grow without limit in the code are capped in guards: `MaxPages`,
`MaxMoves`, `MaxGen`, `MaxAsks`, `MaxCmds`, `MaxReaders`, `MaxChanges`, `MaxReads`,
`MaxKills`, `MaxEpoch`, the number of incidents or requests a history has. Deadlock checking is off
in every run: when these bounds are reached and the channels are empty, a
specification has nothing left to do, and a real launch rests in the same way. In
`update` the newest version has nothing to update to, and a crash between the two
renames of the executable leaves no app to start.

### Fairness

Seven properties need some.

* `EventuallySaved`: the database actor runs the closures it has, and messages and
  events are delivered; both are loops that block on a channel.
* `ReadAnswered`: a thread inside `read` keeps running, its five-second wait included
  (`wait_timeout`), and the download task, its timers and the server go on. The server
  need not send: it sends or breaks. With a silent server a reader is answered by its
  stall cycles.
* `ChangesEnd`: the thread of the cache's changes runs its pass and its Clear.
* `LaunchEnds`: each process and its listener run; a wait that can only run out does, so
  strong fairness for the grace and the budget, which a holder's moves may disable
  for a while.
* `AllAnswered`: the task of each request runs, and so do the exit's steps. A device that
  never answers a start has no deadline in the code, and is excused.
* `ClaimEnds`: the task of an apply runs.
* `ParkedIsAnswered`: a spawned pass runs, the UI thread goes on to what it parked, the
  gate's timer runs out. The network need not answer.

No user request is ever assumed.

## 4. What is proved

The proof modules are checked by tlapm to the last leaf and hold for every value
of the constants that satisfies the named assumptions (`LevelAssumption`,
`OutputLevelAssumption`, `VolumeOutputAssumption`, `LoadCoordinatorAssumption`,
`StreamBufferAssumption`, `TrackCacheAssumption`, `UpdateAssumption`,
`AppLockAssumption`, `OfferAssumption`, `ConnectAssumption`,
`PluginLoadsAssumption`). Each says no more than that the special values differ, that the
sets are of what they are sets of and that the bounds are naturals; `UpdateAssumption`
also that every release ships its own executable and front, `AppLockAssumption` that the
launches are finitely many and that a link, a quit or a failure is a launch's, and
`OfferAssumption`, `ConnectAssumption` and `TrackCacheAssumption` that the tasks, the
requests and the tracks are finitely many (a track has a size, not 0).
No theorem has a hypothesis beside them.

* `Player_proofs`, of `OutputLevel`: `LevelTypeCorrect`, `LevelKept` (with its parts `UnmuteCorrect`,
  `QueueCorrect`, `SaveCorrect`), `FollowsCorrect` (with its part `AdmitCorrect`), and
  `QuitCorrect`: a quit, which flushes, loses nothing. The inductive invariant adds to
  the properties that every pair on its way to the disk can be unmuted
  (`PairsHeard`), which the restored level of the next launch needs. `FollowsCorrect` needs
  an account of every message in flight, `FollowInv`: the page's asks arrive in the order
  it made them (`AsksInOrder`), what it knows of the floor is a floor there was
  (`FloorKnown`), and either something on its way will still bring the page the level
  (`Behind`) or both have it (`Abreast`). Whether the last ask will still be admitted,
  whatever is admitted before it, decides which (`LastCounts`).
* `VolumeOutput_proofs`: `TypeCorrect`, `PlaysOnceCorrect` (with its parts
  `AppliedOnceCorrect`, `PlaysRecordedCorrect`), `SwitchCorrect`, `OnlyChosenCorrect`.
  `OnceInv` ties the setting to what the thread does; `InStep` says that the last command
  still waiting, or else the thread's own level, is the recorded one, and that a shared
  stream plays the thread's level. For `OnlyChosenPlays` `Wanted` says of each place a level
  lives in that somebody wanted it. The thread's own level is the exception: it may be
  nobody's while the setting is on and no session is held, which is when the setting
  cannot be switched off and nothing plays.
* `Player_proofs`, of `LoadCoordinator`: `TypeCorrect`, `CarriesOnCorrect` (with its parts
  `AdvanceCorrect`, `RearmCorrect`), `LoadingCorrect`, `ReplacedCorrect` (with its part
  `SilenceCorrect`). `WordInv` is about the generation words: what a replay or a
  tail captured is still what the newest word says, or a newer one was minted
  and the continuation fails its check. `ChannelInv` is about the FIFO: a load
  announced and not yet taken by the thread is still out, or its settle stands
  behind its announcement. `PastInv` is about the order of what the thread has still to
  read: while the newest word is a stop nobody asked over, whatever may start the music
  stands before that stop (`Obeyed`); an orphan stands right behind its stop
  (`Silenced`); the stops' sequences rise along the channel, above what the thread
  installed and up to the newest word's (`InOrder`), unless an advance undercut one. Every
  step is one of two rules for it: what it sends (`SendRule`) or what it takes
  (`TakeRule`).
* `TrackBytes_proofs`, of `StreamBuffer`: `TypeCorrect`, `HoldsCorrect` (with its parts
  `FileCorrect`, `SinkCorrect`, `CacheCorrect`), and `SourceCorrect`, the refinement of `ByteSource`. The
  invariant `Flow` adds that the task's offset is where the buffer ends unless a
  restart is pending (`OffsetFollows`), that the buffer stays within the file,
  that a finished stream ended at the file's end or was cut, and what the task
  holds at each of its steps. Each action of `Next` has its lemma.
* `TrackBytes_proofs`, of `TrackCache`: `CacheTypeCorrect`, `IndexCorrect` and
  `RemovesCorrect`, for any tracks, stores, readers, sizes, caps, batches and histories.
  `IndexIsTrue` is not inductive: whether a file is its row's depends on who may still
  touch the path. `CacheInv` says that a path has one owner, its row, the store moving a
  download in, or the pass unlinking it (`OwnerInv`); whose pass is at what (`PassInv`);
  what is on each path, by its owner and the owner's step (`FileInv`); why a file without
  an owner is there (`StrayInv`: a failure left it, or a Clear has it still to sweep, or a
  store still to commit it); and that a cache over its cap has said so, unless a trim is
  under way or a Clear has all its rows ahead of it (`SaidInv`). `LooksInv`, that a
  generation names one row of all there are and were, in the index or in a pass, is what
  keeps a load's verdict off a newer row; where a refused statement leaves a track in the index
  and in a pass, one generation still means one store's bytes (`TwinsInv`). The histories
  include every refused deletion and statement, and the exceptions are those of the
  properties. The running size is a fold over the rows:
  `SumUnique` derives, from the fold's definition on the least of a finite set, what one
  row more or less makes of it, by choosing a least counterexample; the lemmas on
  `Weight` follow. What a pass claims rests on the order of stamps and tracks
  (`OldestExists`, `NewestIn`): a claim always takes some row, and a Clear's cursor never
  passes a row it has not claimed (`ClearClaims`, `ClearGoesOn`).
* `ConnectController_proofs`, for any requests, devices and histories:
  `ConnectTypeCorrect`, `PageCorrect`, `SocketCorrect`, and `AnsweredCorrect`, the safety
  in `EachAnsweredOnce`. `HookInv` says that a request has its hook until it is answered,
  by the hook or by itself. `SessionInv` ties the session to its socket: a live session
  has the newest generation and a loop on its socket, no other loop is current, TIDAL is
  owed its end, and no session that was told over can be the one held. `PageInv` is an
  account of what is queued for the page (`Story`): events are in the order of their
  generations and none is ahead of the newest (`Ordered`); while the session lives, each
  thing that makes the page say otherwise has a start behind it (`Restarted`); while it
  does not, each that makes it say connected has an end or a loss behind it (`Undone`).
  Each step is then one of a few on that queue, whatever it does to the flights.
  `SessionKeepsItsSocket` is an action property: a step leaves the session, ends it,
  installs one whose attempt nobody stopped, or takes it out of the live state by its own
  socket's doing (`SessionMoves`).
* `UpdateSwap_proofs`: `TypeCorrect`, `NothingIsLost`, `MovesCorrect`, `LaunchCorrect`
  (with its parts `RunsCorrect`, `MarkCorrect`), for any files and releases, incidents of any
  kind and number, and both kinds of system. `NothingLost` alone is not inductive. What a
  file settles to in the middle of a loop depends on whether the loop has reached it, so
  `IInv` says for each phase which files are untouched, which have their original in `.bak`,
  and which `.bak` is this update's. It has three tiers. `TypeOK` holds always. Unless a
  recovery ran beside the updater, `Working`: one of the two processes works on the folder
  (`Alone`), the journal and the plan are what the step says (`JournalFits`, `PlanFits`), a
  `.bak` is stale or of the journal on disk (`BaksFit`), the loops have done what they passed
  (`SwapFits`), and a running app has its front (`FrontFits`). Without harm, `Whole`: the
  folder settles on one release (`OneRelease`), which is the one running (`RunsFit`) and not
  below the mark (`MarkFits`), through each phase of an update and a rollback (`Ahead`,
  `RollFits`, `Rested`, `CommitFits`). Each action has a lemma that gives the tier and that
  `Version` stays; `StartCommit` alone moves it (`StartCommitMoves`).
* `AppLock_proofs`: `OneRunsCorrect`, `TypeCorrect`, `LinksCorrect` and `LeavingCorrect`, for any launches,
  links and incidents. Two processes that run would both hold the legacy mutex: a launch passes its
  probe only when nobody has it, and gives it back after the tear-down (`HoldsLegacy`).
  The newer lock is not needed for it. `TypeOK` bounds a pipe to two instances and a
  launch to one of them all, which are facts of the whole protocol: `PipeInv` relates the
  number of instances to the listener's step (`Instances`), and says that a launch that
  may still connect holds none (`HoldsOne`).
  `LinksCorrect` is four invariants, each on the one before: whoever is past the newer
  mutex has it (`LockInv`); a process that closes answers or ends each instance of its
  pipe (`HouseInv`); each link is where its fate says (`FateInv`); and while nothing fails
  and neither gap opened, a launch that looks for the holder finds it (`CalmInv`), for
  the holder it watches cannot be between two of its doors when its patience ends.
  `LeavingCorrect` needs one more: where no thread fails, the focus event is there only
  while its holder is past its creation and its closing has not got to it (`Served`).
* `UpdateOffer_proofs`: `TypeCorrect`, `OfferCorrect`, `FolderCorrect`, for any releases,
  channels, tasks and requests. What a ready phase says of the folder rests on the tasks
  that may still write there: a download that was stopped lingers, but has at most its
  last step left (`Left`, `Lingers`), one that was not is the one the state holds
  (`Works`), and what it verified is what it settles (`Fetched`). A deletion may fail at any
  of its places: what one leaves is marked (`Removing`), and the invariant follows the mark.
* `PluginLoads_proofs`, for any plugins, needs, passes, requests and histories.
  `WellFormed` says what each task carries at each of its steps; on it rest `TypeCorrect`
  and `OnePassCorrect`. For the rest every step is one of a few to the loads: it leaves
  them, ends one, marks one or posts the code of one (`LoadSteps`). From that follow
  `SessionCorrect` (no load and no token of a session that ended), `PageCorrect` (what
  runs is named by the manager, or what will end it is on its way), and, with an account
  of why each flag was cleared (`Faults`) and of what is left to a plugin its user turned
  off (`UserOff`), `FailedByItselfCorrect`, `NothingOutlivesCorrect` and `FlagsCorrect`.
  They cover every history, those with a reload between any two steps of a call and those
  with a logout inside an exchange; a load among `strays` is the one exception, in `NoGhost`
  and `OffStaysOff`, and section 5 has how it comes about.

Only model-checked are the liveness properties, since the provers do not do fairness:
`EventuallySaved`, `ReadAnswered`, `ClaimEnds` and `ChangesEnd`, and the liveness in
`LaunchIsPatient` (`LaunchEnds`), `EachAnsweredOnce` (`AllAnswered`) and
`AskedIsAnswered` (`ParkedIsAnswered`), whose safety is proved. Every invariant of the runs, and every action property, has a theorem, for
every history and incident of its module.

## 5. Where the code and what is said of it differ

One run checks a sentence of the repository that the code does not keep;
`PROJECT.json` quotes it.

* `update_dropped`. The updater deletes obsolete files before it marks the journal
  committed, and they have no `.bak`. A crash in between is rolled back to a release
  that lacks them. `NothingLost` excepts exactly those files (`Unprotected`).

Seen while modelling, excused in a property by name or left out of its histories, and
not counted as findings.

*Level, volume, loads, stream*

* TIDAL puts the account's level back when its own read resolves; the slot decided on
  `chosen` earlier. A level chosen and mirrored in between is overwritten, with the
  newest report on it.
* A device switch rebuilds nothing while no track is loaded, and the next load finds
  `volume_sync` bound, to the previous endpoint.
* A continuation (an advance, a re-arm) holds no lock between its mint and its abort of
  `load_handle` (`player/mod.rs:1489-1528`): a load minted in between is the one aborted,
  its download cancelled, and the older track put in `CURRENT_TRACK`.
* `download_stream` returns from a 416 on a reconnect whatever the stream's offset, so a
  later read before the base posts a restart to nobody.
* A server that ignores Range: the reset of its 200 wakes the reader, which posts the
  same restart, which interrupts the stream. No stall cycle is ever counted.
* A plugin's level is not reported to the page (`lastBy = "plugin"` in `Agree`).
* Mixer moves never update `last_volume`: a bypass mode entered later, or a stream
  rebuilt elsewhere, starts at the level before them. A mixer event in the queue
  may also be recorded after a newer level was applied. `PlaysRecorded` therefore
  excludes the mixer, and `OnlyChosenPlays` does not.
* A re-assert that fails returns with the previous endpoint's session held.
* The setting switched off while no session is held leaves the gain at full scale
  if a session had carried the level; a cold start in a bypass mode adopts the
  session's level on the way back, since only an adoption sets the baseline.
* A stop takes its event sequence after its mint. An advance that mints in
  between (`undercut`) takes the smaller one.
* `start_preload` stamps the staged track with whatever is current, a stop
  included (`asked`): a `Completed` still in flight then advances over the stop.
* A task aborted before its first poll (`dropped`) never makes its
  `LoadSettleGuard`: `loading_gen` and a deferred play stay until the next load
  is accepted.
* A play after a stop and a device release re-arms under a generation the stop
  outran, is superseded, and does nothing. A re-assert resumes whatever is
  committed when it is handled. A DASH load leaves the download before it to
  `handle_load`.
* A range request at the announced length is answered 416 and ends the task with
  the buffer short; later reads are told the end of the track (`cut`).
* The `break` on a restart target that is gone by the time it is taken
  (`take_restart_target` answering `None`) cannot be reached; the proof of
  `TakeTarget` shows it.

*Updates*

* The write that commits empties the journal first (`updater/src/main.rs:637`, `1095`). A
  crash inside it, or a write that fails, leaves a torn journal, which the next launch
  removes, and the `.bak` files stay (`stale`). A later update that is rolled back restores
  them for any file it had not replaced yet (`"older"`): an old front beside a new
  executable, refused at every launch, or an executable below the mark. A `.bak` whose
  removal fails unseen does the same.
* The recovery runs in the executable it is to restore, and ignores whether the removal and
  the rename did anything (`recovery.rs:84-87`). On Windows neither can: the front is put
  back, the executable is not, line 58 removes the journal, and the folder is left with the
  new executable, the old front, no journal and an executable's `.bak` nobody will read
  (`"unrestored"`). The launch is refused, and so is each one after it. A rename or removal
  that fails for another file has the like effect.
* A journal that cannot be read is removed like one that does not parse: a pending update
  then stays half applied (`"unread"`).
* Nothing stops a user from starting the app while the updater works: its recovery
  takes the journal of a living updater for an interrupted one and rolls it back
  under it (`"overlap"`).
* `NothingLost`, `MovesAtCommit` and `MarkIsInstalled` hold up to the first of these four,
  and `RunsSettled` says what is left of it after each. Any of the four alone violates the
  first two; each but `"unread"` violates the third.
* A build found staged at launch is offered when it is newer than the running one; the
  mark is not read again. `Apply` has that guard, and `MarkIsInstalled` holds with it:
  after a launch that got through the mark is at most the running version.
* `manifest.json` is not among the files of a release, so no update replaces it.
  `DeletedFiles` is judged against the first release for ever.
* A login that scanned the folder before a cancel, a dismissal or a switch adopts a
  build that is deleted or declined since (`stray`): `take_staged` acts on what was read
  under no lock. `types.rs:289-294` says "That build stops being installable at
  whatever step it had reached".
* The result of each deletion of the staging folder is ignored (`cleanup_staging`,
  `download.rs:469-475`; `prepare_staging_dir`, `369-375`; `handlers.rs:370-374`). Where one
  fails the declined build stays, and the next login finds it, whole, and offers it again.
  `DeclinedLeavesNothing` excepts such a folder (`spared`). So it does what another launch
  left (`by` 0): a kill between the reset of the phase and the deletion it announces leaves
  the folder to the next launch, where nobody remembers that it was declined.
* Two channel switches are two tasks, in any order: the state may end on the channel
  left, and refuse each later check as stale. A claim taken between a switch's save and
  its `abandon` is spared, and given back as an offer of the new channel.
* A cancelled download past its last await settles over the next one (`lingered`,
  `download.rs:41-43`). An automatic check in flight settles a version dismissed
  meanwhile, and only one version is skipped.

*Cache*

* A Clear that ends well sets `stranded` to 0, although a pass that ran beside it may have
  stranded bytes after the sweep read what is owned. `ClearLeavesNothing` excludes the
  history in which deletes and the index both fail.
* `cache.rs:686-691` says that each path over the cap runs a pass right after. The rows a
  Clear puts back go over it without one; the failure is reported.
* A `DELETE` that fails counts as no row deleted, and the file is unlinked all the same
  (`cache.rs:788-800`, `825-839`): the row outlives its file until a load looks it up or the
  track is stored again.
* A look for a row that fails counts as no row (`lookup_path`, `737-743`): `reserve` (`881`)
  then grants a store the path of a track that has one, and its row and its file are two
  stores' until it commits. An id that this or the failed `DELETE` befell is `astray`, and
  left out of `OneOwner`, `RowHasItsFile`, `NoStrayFile` and `ClearLeavesNothing`.
* A failed sum, size or list of candidates counts as zero (`unread`): the total drifts from
  the rows, or a pass ends early without a word, and `SizeIsKnown` says nothing from then on.
* A store whose `INSERT` fails leaves a file that neither a row nor `stranded` counts,
  until a Clear, the next start or a store of the track (`left`).

*Single instance*

* `alive_since` is never reset (`app_lock.rs:1398`): when one holder gives way to another,
  the second gets none of the start-up grace the comment at 1343 promises (gap
  `"grace"`).
* The holder raises `closing` before its focus event goes. A client served in between
  ends the pipe first, against 1055-1057 (gap `"pipe"`).
* The listener reads `closing`, then makes its next instance of the pipe. The closer's
  wake, in between, finds none free; the join times out, the pipe stays to the exit, and
  a link written to it is read by nobody (`unread`).
* `main.rs:376` delivers a launch's own link after it acquired: over a newer one that
  already came. A launch refused before that line does not report its link.

*Connect*

* An attempt's failure is decided under the slot and posted later: a newer attempt
  may have installed by then (`PageAgrees` allows `"failed"`).
* A page that loads after a live session's socket died, but before the loss is relayed,
  reads a snapshot that says "no session", although `session.rs:188` says that a reload
  replays the live session: `session_info` asks the socket too. The relay would tell it.
  A resume that comes first moves a session that is not marked suspended: `resumed()`
  has nothing to say of one that is live, the old socket's loss is stale from then on
  (`adopt_resumed`), and the page shows no session while one is held. Where
  a page was reloaded and a socket may be lost (`Unheard`) `PageAgrees` does not ask that
  a live session show; it asks everything else. The run has such histories
  (`{"lost", "reload"}`), and the proof covers them.
* A request spawned but not yet joined when a disconnect cancels goes on, and may install.

*Plugins*

* An enable or a boot pass that read a row before a disable injects after it: the plugin
  runs until the next launch. `restart_live` looks again; they do not (`overtaken`).
  A disable's late look may as well retire the load of a newer enable.
* A page reload in the middle of a pass: the new page's request joins the pass and is
  answered, though the plugins went to the old page; `watch_ack` then turns off those
  that did not answer. It, and an enable's revert, may also turn off a flag a newer
  enable set.
* `restart_live` reads the old load and the session in two holds. A logout in between lets
  the restart inject under the session after it.
* A reload of the page between a disable and an enable's post. `retire_load` is written
  against a plugin that runs with no map knowing it, and `generate_unload_js` says that an
  unload posted ahead of the code "leaves the id in the page so the code is refused"
  (`manager.rs:311-312`). The id is left in the document that took the unload. When the
  page reloads before the enable posts, the new document takes the code: the plugin runs,
  its load is retired, and nothing unloads it until the next reload. The same goes for the
  unload a logout or a restart posts, and for one lost with the old document while the
  code reaches the new one. The histories have it; `NoGhost` and `OffStaysOff` except
  exactly the loads it befalls (`strays`).
* `hard_reset` does not open the gate again; the five-second timer does.

## 6. Abstractions

*External*, modelled from how the code uses them: SQLite (`settings.db` commits; a
statement of the cache's index may fail),
TIDAL's own volume saga, Windows' audio sessions, the CDN (its announced length is
the file's; every other answer is allowed when the session says so), CEF's delivery
order.

*Merged steps.* A stop and its orphan are sent as one. An abort and the cancel of
the download are one. Spawning a task and keeping its handle are one. `LoadFailed`
is part of `EndTask`. A chunk is one byte; a decrypt failure is a "status".
`set_ciphertext` and `finish` are one: nothing reads the parked file before the stream is
finished.

*Left out of a modelled component.* In `LoadCoordinator`: u32 wrap of the
generation, seeks and resume positions, `SwitchRearm::AwaitLoad`, a cpal device
lost on resume, the crossfade's promotion. In `StreamBuffer`: head waits
(`head_status`), the hand-over of the owner (`adopt_as_playback`), the governor's
rates, buffers that arrive complete. `async_notify` is notified with `notify_one`
and awaited by both a head wait and the task; with head waits out, that contention
is out too. In `VolumeOutput`: exclusive WASAPI and ASIO are one bypass mode, and
the mute that covers the hand-over of a disable is not there. In `UpdateSwap`: the
phases before an apply is claimed, the updater's own download and delta archives (it
may give up before the comparison, and has the target's files otherwise), hashes and
signatures, directories, the install mutex it shares with the installer, and
`--cleanup-stale`. A `.bak` that is overwritten is removed and replaced in one step. The
removal of the staging folder succeeds there, since each apply claims one of its own; its
failure is in `UpdateOffer`.

In `UpdateOffer`: what the surfaces are told, the choice of an archive and of deltas,
signatures, the order of versions, managed installs, an extraction that blocks past its
abort. It makes one assumption of time (`Fill`): a deletion that was decided, and the
last step of a stopped download, take less time than a whole archive. In
`TrackCache`: staging files, the migration of old formats, the checkpoint thread and the
publisher, `OWNED_MAX`, a power cut that loses the tail of the log, a batch of rows cut short (a read
that fails finds nothing, or all). A store's rename is
one step under the gate, and the clock is never ahead of the newest stamp. In `AppLock`:
Linux (a `flock` and a datagram socket), a pipe of a foreign owner, a link too long,
what the focus signal does. In `ConnectController`: discovery, server info and token
hand-outs, device commands and their pending requests, player status, frame faults. An
abort hook settles and tells in one step. After a shutdown the page is told nothing. In
`PluginLoads`: install, update and uninstall, plugin storage, capabilities, a missing
frame, refused names. A helper's failure and a flag that is not saved are free where the
history allows them; rows are taken in any order.

*Not modelled*: every component with that status in `PROJECT.json`, each with its
reason there. They are either planned below, or hold no protocol (filters, window
glue, packaging), or compute pure data (codecs, containers, signatures).

## 7. Plan

Done: output level, volume output, load coordination, streaming buffer, the updater's
swap, the application's update offers, the track cache, the single instance, the
connect controller, plugin loads and the session's gate.

Proved: every invariant and action property the runs check, without hypotheses. What they
except by name (`harm` and `stale`, `spared` and `stray`, `astray` and `unread`, `strays` and
`overtaken`) is what section 5 describes; were the code to close one of those, its
exception goes.

Modules:

1. `Preload` over `StreamBuffer` and `LoadCoordinator`: staging, head waits, adoption, the
   crossfade's promotion. It would cover the contention for `async_notify`.
2. `PlayerThread`: seeks, resume positions, the events of a replaced decode.
3. `ConnectReceiver` composed with `LoadCoordinator`: the two owners of the player.
4. `ConnectWs`: pending requests against time-outs and close.
5. `NativeTrust`: prompts and answers against an uninstall; plugin install and update.
6. The repair of `settings.db`.
