---------------------------- MODULE VolumeOutput ----------------------------
(***************************************************************************)
(* How the level Rust records comes to be the one that is heard, on        *)
(* Windows: the player thread's software gain, its bypass gain (exclusive  *)
(* WASAPI and ASIO) and the OS mixer's session it keeps in step            *)
(* (src/src/player/thread/commands.rs, device.rs, platform/volume_sync.rs).*)
(*                                                                         *)
(* A shared stream is heard at volume times the session of its endpoint; a *)
(* bypass stream at the bypass gain alone.  The recorded level is that of  *)
(* OutputLevel; here it is written by the app and by the mixer only.       *)
(* The session and its notifications are Windows', modelled from the calls *)
(* the thread makes.                                                       *)
(***************************************************************************)
EXTENDS Sequences, Naturals

CONSTANTS Devices,      \* the output endpoints
          Levels,       \* gains
          Full,         \* 1.0: a never-set session, software gain left alone
          None,         \* no device, no level
          MaxMoves,     \* bound: levels the app or the mixer sets
          Launches      \* what a launch may meet: <<a level was restored, incidents>>

(* The app's slider moves in the OS mixer; a session or stream call fails;  *)
(* the device is changed while no track is loaded; the setting is toggled   *)
(* while neither a shared stream nor a session is held.                    *)
Incidents == {"mixer", "failure", "idleSwitch", "idleToggle"}

ASSUME VolumeOutputAssumption ==
    /\ Full \in Levels
    /\ None \notin Levels \cup Devices
    /\ MaxMoves \in Nat
    /\ Launches \subseteq BOOLEAN \X SUBSET Incidents

VARIABLES
    restored,   \* rigid: a level of an earlier launch was restored
    incidents,  \* rigid: which of Incidents this launch meets
    recorded,   \* Player.output_level's volume
    cmds,       \* SetVolume commands on their way to the thread
    events,     \* VolumeSync events on their way to Player::note_volume
    rx,         \* volume_rx: the newest mixer level not drained yet, or None
    volume,     \* PlayerThread.volume: the shared stream's software gain
    lastVolume, \* PlayerThread.last_volume
    gain,       \* PlayerThread.exclusive_gain
    baseline,   \* PlayerThread.volume_baseline_established
    sync,       \* the endpoint whose session volume_sync holds, or None
    enabled,    \* PlayerThread.volume_sync_enabled
    asked,      \* what the settings page last asked for
    bypass,     \* is_exclusive_mode or is_asio_mode
    device,     \* current_device_id
    hasTrack,   \* PlayerThread.has_track
    stream,     \* the endpoint of cpal_stream, or None
    session,    \* OS: the session volume of this app on each endpoint
    wanted,     \* history: levels the app, the mixer or an earlier launch chose
    moves       \* levels set so far (bound)

gains   == <<volume, lastVolume, gain, baseline>>
os      == <<sync, rx, session>>
place   == <<bypass, device, hasTrack, stream>>
channel == <<recorded, cmds, wanted, moves>>
launch  == <<restored, incidents>>
setting == <<launch, enabled, asked>>
vars    == <<channel, events, gains, os, setting, place>>

Fails == "failure" \in incidents

-----------------------------------------------------------------------------
(* Player and the mixer *)

Move(v) == /\ moves < MaxMoves
           /\ moves' = moves + 1
           /\ wanted' = wanted \cup {v}

(* A level set by the page, a controller or a mute: recorded and sent under one lock. *)
SetVolume(v) == /\ Move(v)
                /\ recorded' = v
                /\ cmds' = Append(cmds, v)
                /\ UNCHANGED <<events, gains, os, setting, place>>

(* VolumeSync reaches the page's side: recorded, and not sent to the thread. *)
NoteVolume == /\ events # <<>>
              /\ recorded' = Head(events)
              /\ events' = Tail(events)
              /\ UNCHANGED <<cmds, wanted, moves, gains, os, setting, place>>

(* The OS mixer moves the session of the stream; VolumeCallback is told. *)
MixerMove(v) == /\ "mixer" \in incidents
                /\ stream # None
                /\ Move(v)
                /\ session' = [session EXCEPT ![stream] = v]
                /\ rx' = IF sync = stream THEN v ELSE rx
                /\ UNCHANGED <<recorded, cmds, events, gains, sync, setting, place>>

(* The thread drains volume_rx and keeps the last level. *)
DrainMixer == /\ rx # None
              /\ events' = Append(events, rx)
              /\ rx' = None
              /\ UNCHANGED <<channel, gains, sync, session, setting, place>>

-----------------------------------------------------------------------------
(* The player thread *)

HandleSetVolume ==
    /\ cmds # <<>>
    /\ LET v == Head(cmds) IN
       /\ cmds' = Tail(cmds)
       /\ lastVolume' = v
       /\ gain' = IF bypass THEN v ELSE gain
       /\ \/ /\ sync # None
             /\ session' = [session EXCEPT ![sync] = v]
             /\ volume' = Full
             /\ UNCHANGED <<sync, rx>>
          \/ /\ sync = None \/ Fails
             /\ volume' = v
             /\ sync' = None
             /\ rx' = None
             /\ UNCHANGED session
    /\ UNCHANGED <<recorded, events, wanted, moves, baseline, setting, place>>

KeepSync == UNCHANGED <<os, volume, lastVolume, baseline, events>>

(* Faulty: a re-init adopts the session, as a cold start does. *)
InitVolumeSyncAdopts(d) ==
    IF ~enabled
    THEN KeepSync
    ELSE /\ baseline' = TRUE
         /\ lastVolume' = session[d]
         /\ events' = Append(events, session[d])
         /\ volume' = Full
         /\ sync' = d
         /\ rx' = None
         /\ UNCHANGED session

(* init_volume_sync on the endpoint `d`.  A known level is asserted into    *)
(* the session; a cold start adopts the session's.                         *)
InitVolumeSync(d) ==
    \/ /\ enabled
       /\ volume' = Full
       /\ sync' = d
       /\ rx' = None
       /\ IF baseline
          THEN /\ session' = [session EXCEPT ![d] = lastVolume]
               /\ UNCHANGED <<lastVolume, baseline, events>>
          ELSE /\ baseline' = TRUE
               /\ lastVolume' = session[d]
               /\ events' = Append(events, session[d])
               /\ UNCHANGED session
    \/ /\ enabled => Fails                  \* disabled, or the session is not opened or read
       /\ KeepSync
    \/ /\ enabled /\ Fails /\ baseline      \* the re-assert failed
       /\ volume' = lastVolume
       /\ UNCHANGED <<os, lastVolume, baseline, events>>

(* handle_load on the shared path: the sync is bound by the first stream only. *)
LoadShared == /\ bypass' = FALSE
              /\ \/ /\ hasTrack' = TRUE
                    /\ stream' = device
                    /\ IF sync = None THEN InitVolumeSync(device) ELSE KeepSync
                 \/ /\ Fails                \* no stream opens: abandon_failed_load
                    /\ hasTrack' = FALSE
                    /\ stream' = None
                    /\ KeepSync
              /\ UNCHANGED <<channel, gain, setting, device>>

(* A bypass mode takes the load, or refuses the track and leaves it shared. *)
Load == \/ /\ bypass
           /\ hasTrack' = TRUE
           /\ UNCHANGED <<channel, events, gains, os, setting, bypass, device, stream>>
        \/ LoadShared

(* The track plays out: the stream is closed and the sync stays. *)
Complete == /\ hasTrack
            /\ hasTrack' = FALSE
            /\ stream' = None
            /\ UNCHANGED <<channel, events, gains, os, setting, bypass, device>>

(* rebuild_pipeline_at on `d`; nothing is rebuilt without a track. *)
Rebuild(d) == \/ hasTrack /\ stream' = d /\ InitVolumeSync(d)
              \/ hasTrack /\ Fails /\ stream' = None /\ KeepSync
              \/ ~hasTrack /\ UNCHANGED stream /\ KeepSync

(* A shared device is chosen while shared, or the open one was lost. *)
SwitchDevice(d) == /\ ~bypass
                   /\ hasTrack \/ "idleSwitch" \in incidents
                   /\ device' = d
                   /\ Rebuild(d)
                   /\ UNCHANGED <<channel, gain, setting, bypass, hasTrack>>

(* Faulty: the gain of the last bypass session is kept. *)
EnterBypassKeepsGain(d) == /\ ~bypass
                           /\ bypass' = TRUE
                           /\ device' = d
                           /\ stream' = None
                           /\ hasTrack' \in {hasTrack, FALSE}
                           /\ UNCHANGED gain
                           /\ sync' = None
                           /\ rx' = None
                           /\ UNCHANGED <<channel, events, volume, lastVolume, baseline,
                                          session, setting>>

(* apply_device_switch, shared to exclusive or ASIO: the track restarts on its buffer, or is loaded again. *)
EnterBypass(d) == /\ ~bypass
                  /\ bypass' = TRUE
                  /\ device' = d
                  /\ stream' = None
                  /\ hasTrack' \in {hasTrack, FALSE}
                  /\ gain' = lastVolume
                  /\ sync' = None
                  /\ rx' = None
                  /\ UNCHANGED <<channel, events, volume, lastVolume, baseline, session, setting>>

(* apply_device_switch, back to shared. *)
LeaveBypass(d) == /\ bypass
                  /\ bypass' = FALSE
                  /\ device' = d
                  /\ \/ hasTrack' = hasTrack /\ Rebuild(d)
                     \/ hasTrack' = FALSE /\ UNCHANGED stream /\ KeepSync
                  /\ UNCHANGED <<channel, gain, setting>>

(* handle_set_volume_sync(true) *)
EnableSync == \/ /\ stream # None
                 /\ enabled' = TRUE
                 /\ session' = [session EXCEPT ![device] = volume]
                 /\ volume' = Full
                 /\ sync' = device
                 /\ rx' = None
              \/ /\ stream = None \/ Fails
                 /\ enabled' = TRUE
                 /\ UNCHANGED <<os, volume>>

(* Faulty: the level handed over is the mixer's last report, not the session's. *)
DisableSyncFromReport == /\ enabled' = FALSE
                         /\ volume' = IF sync # None THEN rx ELSE volume
                         /\ session' = IF sync # None
                                       THEN [session EXCEPT ![sync] = Full]
                                       ELSE session
                         /\ sync' = None
                         /\ rx' = None

(* handle_set_volume_sync(false): a failure leaves it on. *)
DisableSync == \/ /\ sync # None
                  /\ enabled' = FALSE
                  /\ volume' = session[sync]
                  /\ session' = [session EXCEPT ![sync] = Full]
                  /\ sync' = None
                  /\ rx' = None
               \/ /\ sync = None
                  /\ enabled' = FALSE
                  /\ UNCHANGED <<os, volume>>
               \/ /\ sync # None /\ Fails
                  /\ enabled' = TRUE
                  /\ volume' \in {volume, Full}
                  /\ UNCHANGED os

HandleSetVolumeSync == /\ stream # None \/ sync # None \/ "idleToggle" \in incidents
                       /\ asked' = ~asked
                       /\ IF asked THEN DisableSync ELSE EnableSync
                       /\ UNCHANGED <<launch, channel, events, lastVolume, gain, baseline, place>>

-----------------------------------------------------------------------------
Init == /\ \E l \in Launches : restored = l[1] /\ incidents = l[2]
        /\ device \in Devices
        /\ session \in [Devices -> Levels]
        /\ enabled \in BOOLEAN
        /\ asked = enabled
        /\ recorded \in IF restored THEN Levels ELSE {Full}
        /\ volume = recorded
        /\ lastVolume = recorded
        /\ gain = recorded
        /\ baseline = restored
        /\ wanted = IF restored THEN {recorded} ELSE {}
        /\ cmds = <<>>
        /\ events = <<>>
        /\ rx = None
        /\ sync = None
        /\ bypass = FALSE
        /\ hasTrack = FALSE
        /\ stream = None
        /\ moves = 0

Next == \/ \E v \in Levels : SetVolume(v) \/ MixerMove(v)
        \/ NoteVolume
        \/ DrainMixer
        \/ HandleSetVolume
        \/ Load
        \/ Complete
        \/ \E d \in Devices : SwitchDevice(d) \/ EnterBypass(d) \/ LeaveBypass(d)
        \/ HandleSetVolumeSync

Spec == Init /\ [][Next]_vars

-----------------------------------------------------------------------------
(* Properties *)

(* Every variable holds what the thread's field can hold. *)
TypeOK == /\ <<restored, incidents>> \in Launches
          /\ {recorded, volume, lastVolume, gain} \subseteq Levels
          /\ cmds \in Seq(Levels)
          /\ events \in Seq(Levels)
          /\ rx \in Levels \cup {None}
          /\ baseline \in BOOLEAN
          /\ enabled \in BOOLEAN
          /\ asked \in BOOLEAN
          /\ bypass \in BOOLEAN
          /\ hasTrack \in BOOLEAN
          /\ sync \in Devices \cup {None}
          /\ stream \in Devices \cup {None}
          /\ device \in Devices
          /\ session \in [Devices -> Levels]
          /\ wanted \subseteq Levels
          /\ moves \in 0 .. MaxMoves

(* Unless a session call fails: while the mixer's session carries the      *)
(* level, the software gain is out of the way, and a level is never        *)
(* applied twice.  A bypass mode holds no session and no shared stream.    *)
AppliedOnce == ~Fails => /\ sync # None => volume = Full /\ enabled /\ ~bypass
                         /\ rx # None => sync # None
                         /\ bypass => stream = None

(* A bypass stream, and a shared one, play only levels someone chose:      *)
(* neither a device switch nor a mode switch lets a fresh session's full   *)
(* scale through.  commands.rs:1434 counts on the switch to rebind the     *)
(* session ("Re-init happens on device switch").                           *)
ChosenPlays ==
    /\ bypass => gain \in wanted
    /\ stream # None => (IF sync = None THEN volume ELSE session[stream]) \in wanted

(* After a restored level, and whatever the mixer does.                    *)
OnlyChosenPlays == restored /\ incidents \subseteq {"mixer"} => ChosenPlays

Settled == cmds = <<>> /\ events = <<>> /\ rx = None

(* In step with the session, the stream plays through the one held. *)
SharedPlays(l) == IF sync = None
                  THEN volume = l
                  ELSE sync = stream /\ volume = Full /\ session[stream] = l

(* After a restored level and with no incident, the recorded level is the  *)
(* one that plays, whatever the mode, the endpoint and the setting.        *)
PlaysRecorded ==
    restored /\ incidents = {} /\ Settled =>
        /\ bypass => gain = recorded
        /\ stream # None => SharedPlays(recorded)

(* The level a slider shows is the level heard: applied, and applied once, *)
(* wherever it lives now and whichever switches it has been through.       *)
PlaysOnce == AppliedOnce /\ PlaysRecorded

(* After a restored level, a switch asserts the app's level on the new     *)
(* endpoint: it never adopts the one the fresh session reports.            *)
SwitchKeepsLevel == [][restored /\ device' # device => lastVolume' = lastVolume]_vars
=============================================================================
