------------------------ MODULE VolumeOutput_proofs ------------------------
(***************************************************************************)
(* What is heard on Windows, for every set of endpoints and levels: a      *)
(* level is applied once unless a session call fails, a device switch      *)
(* adopts nothing once a level was restored, and with none of the          *)
(* Incidents the recorded level is the one that plays.                     *)
(***************************************************************************)
EXTENDS VolumeOutput, SequenceTheorems, TLAPS

-----------------------------------------------------------------------------
(* TypeOK is inductive. *)

LEMMA InitType == Init => TypeOK
<1> SUFFICES ASSUME Init PROVE TypeOK
  OBVIOUS
<1>1. baseline \in BOOLEAN
  BY VolumeOutputAssumption, Zenon DEF Init
<1> HIDE DEF Init
<1>2. {recorded, volume, lastVolume, gain} \subseteq Levels /\ wanted \subseteq Levels
  BY VolumeOutputAssumption DEF Init
<1>3. enabled \in BOOLEAN /\ asked \in BOOLEAN /\ bypass \in BOOLEAN /\ hasTrack \in BOOLEAN
  BY Zenon DEF Init
<1> QED
  BY <1>1, <1>2, <1>3, VolumeOutputAssumption DEF Init, TypeOK

(* A rebuilt or opened stream leaves every variable it binds typed. *)
LEMMA InitSyncType ==
    ASSUME TypeOK, NEW d \in Devices, InitVolumeSync(d)
    PROVE  /\ {volume', lastVolume'} \subseteq Levels
           /\ events' \in Seq(Levels)
           /\ rx' \in Levels \cup {None}
           /\ baseline' \in BOOLEAN
           /\ sync' \in Devices \cup {None}
           /\ session' \in [Devices -> Levels]
<1> USE VolumeOutputAssumption DEF TypeOK
<1>1. {volume', lastVolume'} \subseteq Levels
  BY DEF InitVolumeSync, KeepSync
<1>2. events' \in Seq(Levels)
  <2>1. events' = events \/ events' = Append(events, session[d])
    BY DEF InitVolumeSync, KeepSync
  <2>2. session[d] \in Levels
    OBVIOUS
  <2>3. events \in Seq(Levels)
    OBVIOUS
  <2> HIDE DEF TypeOK
  <2> QED
    BY <2>1, <2>2, <2>3
<1>3. rx' \in Levels \cup {None} /\ sync' \in Devices \cup {None}
  BY DEF InitVolumeSync, KeepSync, os
<1>4. baseline' \in BOOLEAN
  <2>1. baseline' = TRUE \/ baseline' = baseline
    BY DEF InitVolumeSync, KeepSync
  <2> QED
    BY <2>1 DEF TypeOK
<1>5. session' \in [Devices -> Levels]
  BY DEF InitVolumeSync, KeepSync, os
<1> QED
  BY <1>1, <1>2, <1>3, <1>4, <1>5

LEMMA NextType == TypeOK /\ [Next]_vars => TypeOK'
<1> SUFFICES ASSUME TypeOK, [Next]_vars PROVE TypeOK'
  OBVIOUS
<1> USE VolumeOutputAssumption
        DEF channel, gains, os, launch, setting, place, Fails
<1>1. ASSUME NEW v \in Levels, SetVolume(v) PROVE TypeOK'
  BY <1>1 DEF SetVolume, Move, TypeOK
<1>2. ASSUME NEW v \in Levels, MixerMove(v) PROVE TypeOK'
  BY <1>2 DEF MixerMove, Move, TypeOK
<1>3. CASE NoteVolume
  BY <1>3 DEF NoteVolume, TypeOK
<1>4. CASE DrainMixer
  BY <1>4 DEF DrainMixer, TypeOK
<1>5. CASE HandleSetVolume
  BY <1>5 DEF HandleSetVolume, TypeOK
<1>6. CASE Load
  <2>1. CASE LoadShared /\ sync = None /\ InitVolumeSync(device)
    BY <1>6, <2>1, InitSyncType DEF LoadShared, TypeOK
  <2>2. CASE LoadShared /\ KeepSync
    BY <2>2 DEF LoadShared, KeepSync, TypeOK
  <2>3. CASE ~LoadShared
    BY <1>6, <2>3 DEF Load, TypeOK
  <2> QED
    BY <2>1, <2>2, <2>3 DEF LoadShared
<1>7. CASE Complete
  BY <1>7 DEF Complete, TypeOK
<1>8. ASSUME NEW d \in Devices, SwitchDevice(d) PROVE TypeOK'
  <2>1. CASE InitVolumeSync(d) /\ stream' = d
    BY <1>8, <2>1, InitSyncType DEF SwitchDevice, TypeOK
  <2>2. CASE KeepSync /\ stream' \in {None, stream}
    BY <1>8, <2>2 DEF SwitchDevice, KeepSync, TypeOK
  <2> QED
    BY <1>8, <2>1, <2>2 DEF SwitchDevice, Rebuild
<1>9. ASSUME NEW d \in Devices, EnterBypass(d) PROVE TypeOK'
  BY <1>9 DEF EnterBypass, TypeOK
<1>10. ASSUME NEW d \in Devices, LeaveBypass(d) PROVE TypeOK'
  <2>1. CASE InitVolumeSync(d) /\ stream' = d /\ hasTrack' = hasTrack
    BY <1>10, <2>1, InitSyncType DEF LeaveBypass, TypeOK
  <2>2. CASE KeepSync /\ stream' \in {None, stream} /\ hasTrack' \in {hasTrack, FALSE}
    BY <1>10, <2>2 DEF LeaveBypass, KeepSync, TypeOK
  <2> QED
    BY <1>10, <2>1, <2>2 DEF LeaveBypass, Rebuild
<1>11. CASE HandleSetVolumeSync
  <2>1. asked' \in BOOLEAN
    BY <1>11 DEF HandleSetVolumeSync, TypeOK
  <2>2. enabled' \in BOOLEAN
    BY <1>11 DEF HandleSetVolumeSync, EnableSync, DisableSync, TypeOK
  <2>3. /\ session' \in [Devices -> Levels]
        /\ volume' \in Levels
        /\ sync' \in Devices \cup {None}
        /\ rx' \in Levels \cup {None}
    <3>1. CASE EnableSync
      BY <3>1 DEF EnableSync, TypeOK
    <3>2. CASE DisableSync
      BY <3>2 DEF DisableSync, TypeOK
    <3> QED
      BY <1>11, <3>1, <3>2 DEF HandleSetVolumeSync
  <2> QED
    BY <1>11, <2>1, <2>2, <2>3 DEF HandleSetVolumeSync, TypeOK
<1>12. CASE UNCHANGED vars
  BY <1>12 DEF vars, TypeOK
<1> QED
  BY <1>1, <1>2, <1>3, <1>4, <1>5, <1>6, <1>7, <1>8, <1>9, <1>10, <1>11, <1>12 DEF Next

(* Every variable holds what the thread's field can hold. *)
THEOREM TypeCorrect == Spec => []TypeOK
BY InitType, NextType, PTL DEF Spec

-----------------------------------------------------------------------------
(* AppliedOnce, unless a session call fails: what the settings page shows  *)
(* is then what the thread does, and the thread can give the level back.   *)

Once == /\ sync # None => volume = Full /\ enabled /\ ~bypass
        /\ rx # None => sync # None
        /\ bypass => stream = None
        /\ asked <=> enabled

OnceInv == TypeOK /\ (~Fails => Once)

LEMMA InitOnce == Init => OnceInv
BY InitType DEF Init, OnceInv, Once

LEMMA NextOnce == OnceInv /\ [Next]_vars => OnceInv'
<1> SUFFICES ASSUME OnceInv, [Next]_vars PROVE OnceInv'
  OBVIOUS
<1>0. TypeOK'
  BY NextType DEF OnceInv
<1> USE VolumeOutputAssumption
        DEF OnceInv, Once, TypeOK, channel, gains, os, launch, setting, place, Fails
<1>1. ASSUME NEW v \in Levels, SetVolume(v) PROVE OnceInv'
  BY <1>0, <1>1 DEF SetVolume
<1>2. ASSUME NEW v \in Levels, MixerMove(v) PROVE OnceInv'
  BY <1>0, <1>2 DEF MixerMove
<1>3. CASE NoteVolume
  BY <1>0, <1>3 DEF NoteVolume
<1>4. CASE DrainMixer
  BY <1>0, <1>4 DEF DrainMixer
<1>5. CASE HandleSetVolume
  BY <1>0, <1>5 DEF HandleSetVolume
<1>6. CASE Load
  BY <1>0, <1>6 DEF Load, LoadShared, InitVolumeSync, KeepSync
<1>7. CASE Complete
  BY <1>0, <1>7 DEF Complete
<1>8. ASSUME NEW d \in Devices, SwitchDevice(d) PROVE OnceInv'
  BY <1>0, <1>8 DEF SwitchDevice, Rebuild, InitVolumeSync, KeepSync
<1>9. ASSUME NEW d \in Devices, EnterBypass(d) PROVE OnceInv'
  BY <1>0, <1>9 DEF EnterBypass
<1>10. ASSUME NEW d \in Devices, LeaveBypass(d) PROVE OnceInv'
  BY <1>0, <1>10 DEF LeaveBypass, Rebuild, InitVolumeSync, KeepSync
<1>11. CASE HandleSetVolumeSync
  BY <1>0, <1>11 DEF HandleSetVolumeSync, EnableSync, DisableSync
<1>12. CASE UNCHANGED vars
  BY <1>0, <1>12 DEF vars
<1> QED
  BY <1>1, <1>2, <1>3, <1>4, <1>5, <1>6, <1>7, <1>8, <1>9, <1>10, <1>11, <1>12 DEF Next

(* While the session carries the level the software gain is out of the     *)
(* way, whatever the mixer does and wherever the device is changed.        *)
THEOREM AppliedOnceCorrect == Spec => []AppliedOnce
<1>1. Init => OnceInv
  BY InitOnce
<1>2. OnceInv /\ [Next]_vars => OnceInv'
  BY NextOnce
<1>3. OnceInv => AppliedOnce
  BY DEF OnceInv, Once, AppliedOnce
<1> QED
  BY <1>1, <1>2, <1>3, PTL DEF Spec

-----------------------------------------------------------------------------
(* After a restored level the baseline stands, and a switch adopts nothing. *)

(* What a launch meets is settled before it starts. *)
LEMMA LaunchRigid == [Next]_vars => restored' = restored /\ incidents' = incidents
<1> SUFFICES ASSUME [Next]_vars PROVE restored' = restored /\ incidents' = incidents
  OBVIOUS
<1> USE DEF launch, setting
<1>1. ASSUME NEW v \in Levels, SetVolume(v) \/ MixerMove(v)
      PROVE  restored' = restored /\ incidents' = incidents
  BY <1>1 DEF SetVolume, MixerMove
<1>2. CASE NoteVolume \/ DrainMixer \/ HandleSetVolume \/ Complete \/ HandleSetVolumeSync
  BY <1>2 DEF NoteVolume, DrainMixer, HandleSetVolume, Complete, HandleSetVolumeSync
<1>3. CASE Load
  BY <1>3 DEF Load, LoadShared
<1>4. ASSUME NEW d \in Devices, SwitchDevice(d) \/ EnterBypass(d) \/ LeaveBypass(d)
      PROVE  restored' = restored /\ incidents' = incidents
  BY <1>4 DEF SwitchDevice, EnterBypass, LeaveBypass
<1>5. CASE UNCHANGED vars
  BY <1>5 DEF vars
<1> QED
  BY <1>1, <1>2, <1>3, <1>4, <1>5 DEF Next

Based == restored => baseline

LEMMA InitBaseline == Init => Based
BY Zenon DEF Init, Based

LEMMA NextBaseline == baseline /\ [Next]_vars => baseline'
<1> SUFFICES ASSUME baseline, [Next]_vars PROVE baseline'
  OBVIOUS
<1> USE DEF gains
<1>1. ASSUME NEW v \in Levels, SetVolume(v) \/ MixerMove(v) PROVE baseline'
  BY <1>1 DEF SetVolume, MixerMove
<1>2. CASE NoteVolume \/ DrainMixer \/ HandleSetVolume \/ Complete \/ HandleSetVolumeSync
  BY <1>2 DEF NoteVolume, DrainMixer, HandleSetVolume, Complete, HandleSetVolumeSync
<1>3. CASE Load
  BY <1>3 DEF Load, LoadShared, InitVolumeSync, KeepSync
<1>4. ASSUME NEW d \in Devices, SwitchDevice(d) \/ EnterBypass(d) \/ LeaveBypass(d)
      PROVE  baseline'
  BY <1>4 DEF SwitchDevice, EnterBypass, LeaveBypass, Rebuild, InitVolumeSync, KeepSync
<1>5. CASE UNCHANGED vars
  BY <1>5 DEF vars
<1> QED
  BY <1>1, <1>2, <1>3, <1>4, <1>5 DEF Next

LEMMA NextSwitch ==
    Based /\ [Next]_vars => (restored /\ device' # device => lastVolume' = lastVolume)
<1> SUFFICES ASSUME baseline, [Next]_vars, device' # device PROVE lastVolume' = lastVolume
  BY DEF Based
<1> USE DEF gains, place
<1>1. PICK d \in Devices : SwitchDevice(d) \/ EnterBypass(d) \/ LeaveBypass(d)
  BY DEF Next, SetVolume, MixerMove, NoteVolume, DrainMixer, HandleSetVolume, Complete,
         HandleSetVolumeSync, Load, LoadShared, vars
<1> QED
  BY <1>1 DEF SwitchDevice, EnterBypass, LeaveBypass, Rebuild, InitVolumeSync, KeepSync

(* A switch asserts the level of an earlier launch on the new endpoint,    *)
(* whatever fails: it never takes the level the fresh session reports.     *)
THEOREM SwitchCorrect == Spec => SwitchKeepsLevel
<1>1. Init => Based
  BY InitBaseline
<1>2. Based /\ [Next]_vars => Based'
  BY NextBaseline, LaunchRigid DEF Based
<1>3. Based /\ [Next]_vars => [restored /\ device' # device => lastVolume' = lastVolume]_vars
  BY NextSwitch
<1> QED
  BY <1>1, <1>2, <1>3, PTL DEF Spec, SwitchKeepsLevel

-----------------------------------------------------------------------------
(* After a restored level and with none of the Incidents, the newest level *)
(* recorded is the last command's, and every command the thread ran plays. *)

NewestSent == /\ cmds = <<>> => lastVolume = recorded
              /\ cmds # <<>> => cmds[Len(cmds)] = recorded

InStep == /\ TypeOK
          /\ baseline
          /\ asked <=> enabled
          /\ events = <<>> /\ rx = None
          /\ NewestSent
          /\ bypass => gain = lastVolume /\ sync = None /\ stream = None
          /\ sync # None => /\ enabled /\ sync = device
                            /\ volume = Full /\ session[device] = lastVolume
          /\ stream # None => stream = device
          /\ sync = None /\ (stream # None \/ ~enabled) => volume = lastVolume

(* The command run was the last one, or the last one still waits. *)
LEMMA TailEmpty == ASSUME NEW S, NEW s \in Seq(S), s # <<>>, Tail(s) = <<>>
                   PROVE  Head(s) = s[Len(s)]
<1>1. Len(s) \in Nat /\ Len(s) # 0 /\ Len(Tail(s)) = Len(s) - 1
  OBVIOUS
<1>2. Len(Tail(s)) = 0
  BY EmptySeq
<1>3. Len(s) = 1
  BY <1>1, <1>2
<1> QED
  BY <1>3

LEMMA TailLast == ASSUME NEW S, NEW s \in Seq(S), s # <<>>, Tail(s) # <<>>
                  PROVE  Tail(s)[Len(Tail(s))] = s[Len(s)]
<1>1. Len(s) \in Nat /\ Len(s) # 0 /\ Len(Tail(s)) = Len(s) - 1 /\ Tail(s) \in Seq(S)
  OBVIOUS
<1>2. Len(Tail(s)) \in Nat /\ Len(Tail(s)) # 0
  BY <1>1
<1>3. Tail(s)[Len(Tail(s))] = s[Len(Tail(s)) + 1]
  BY <1>2, HeadTailProperties
<1>4. Len(Tail(s)) + 1 = Len(s)
  BY <1>1
<1> QED
  BY <1>3, <1>4

Quiet == restored /\ incidents = {}

LEMMA InitInStep == Init /\ Quiet => InStep
<1> SUFFICES ASSUME Init, Quiet PROVE InStep
  OBVIOUS
<1>1. baseline /\ (asked <=> enabled)
  BY Zenon DEF Init, Quiet
<1> QED
  BY <1>1, InitType DEF Init, InStep, NewestSent

(* A stream bound to an endpoint while shared plays the last level run. *)
LEMMA InitSyncInStep ==
    ASSUME InStep, incidents = {}, NEW d \in Devices, InitVolumeSync(d)
    PROVE  /\ baseline' /\ events' = <<>> /\ rx' = None /\ lastVolume' = lastVolume
           /\ enabled => sync' = d /\ volume' = Full /\ session'[d] = lastVolume
           /\ ~enabled => sync' = None /\ volume' = lastVolume
BY VolumeOutputAssumption DEF InStep, TypeOK, InitVolumeSync, KeepSync, Fails, os

LEMMA NextInStep == InStep /\ Quiet /\ [Next]_vars => InStep'
<1> SUFFICES ASSUME InStep, incidents = {}, [Next]_vars PROVE InStep'
  BY DEF Quiet
<1>0. TypeOK'
  BY NextType DEF InStep
<1> USE VolumeOutputAssumption DEF InStep, TypeOK, channel, gains, os, launch, setting, place, Fails
<1>1. ASSUME NEW v \in Levels, SetVolume(v) PROVE InStep'
  <2>1. NewestSent'
    BY <1>1 DEF SetVolume, NewestSent
  <2> QED
    BY <1>0, <1>1, <2>1 DEF SetVolume
<1>2. ~ \E v \in Levels : MixerMove(v)
  BY DEF MixerMove
<1>3. ~NoteVolume /\ ~DrainMixer
  BY DEF NoteVolume, DrainMixer
<1>4. CASE HandleSetVolume
  <2>1. NewestSent'
    <3>1. cmds # <<>> /\ cmds' = Tail(cmds) /\ lastVolume' = Head(cmds) /\ recorded' = recorded
      BY <1>4 DEF HandleSetVolume
    <3>2. cmds \in Seq(Levels)
      OBVIOUS
    <3>3. cmds[Len(cmds)] = recorded
      BY <3>1 DEF NewestSent
    <3>4. CASE Tail(cmds) = <<>>
      BY <3>1, <3>2, <3>3, <3>4, TailEmpty DEF NewestSent
    <3>5. CASE Tail(cmds) # <<>>
      BY <3>1, <3>2, <3>3, <3>5, TailLast DEF NewestSent
    <3> QED
      BY <3>4, <3>5
  <2> QED
    BY <1>0, <1>4, <2>1 DEF HandleSetVolume
<1>5. CASE Load
  <2>1. NewestSent'
    BY <1>5, InitSyncInStep DEF Load, LoadShared, KeepSync, NewestSent
  <2> QED
    BY <1>0, <1>5, <2>1, InitSyncInStep DEF Load, LoadShared, KeepSync
<1>6. CASE Complete
  <2>1. NewestSent'
    BY <1>6 DEF Complete, NewestSent
  <2> QED
    BY <1>0, <1>6, <2>1 DEF Complete
<1>7. ASSUME NEW d \in Devices, SwitchDevice(d) PROVE InStep'
  <2>1. stream' = d /\ InitVolumeSync(d)
    BY <1>7 DEF SwitchDevice, Rebuild
  <2>2. NewestSent'
    BY <1>7, <2>1, InitSyncInStep DEF SwitchDevice, NewestSent
  <2> QED
    BY <1>0, <1>7, <2>1, <2>2, InitSyncInStep DEF SwitchDevice
<1>8. ASSUME NEW d \in Devices, EnterBypass(d) PROVE InStep'
  <2>1. NewestSent'
    BY <1>8 DEF EnterBypass, NewestSent
  <2> QED
    BY <1>0, <1>8, <2>1 DEF EnterBypass
<1>9. ASSUME NEW d \in Devices, LeaveBypass(d) PROVE InStep'
  <2>1. (stream' = d /\ InitVolumeSync(d)) \/ (stream' = stream /\ KeepSync)
    BY <1>9 DEF LeaveBypass, Rebuild
  <2>2. NewestSent'
    BY <1>9, <2>1, InitSyncInStep DEF LeaveBypass, KeepSync, NewestSent
  <2>3. CASE stream' = d /\ InitVolumeSync(d)
    BY <1>0, <1>9, <2>2, <2>3, InitSyncInStep DEF LeaveBypass
  <2>4. CASE stream' = stream /\ KeepSync
    BY <1>0, <1>9, <2>2, <2>4 DEF LeaveBypass, KeepSync
  <2> QED
    BY <2>1, <2>3, <2>4
<1>10. CASE HandleSetVolumeSync
  <2>1. NewestSent'
    BY <1>10 DEF HandleSetVolumeSync, NewestSent
  <2>2. /\ baseline' = baseline /\ events' = events /\ bypass' = bypass
        /\ lastVolume' = lastVolume /\ device' = device /\ stream' = stream /\ gain' = gain
    BY <1>10 DEF HandleSetVolumeSync
  <2>3. CASE ~asked
    <3>1. /\ session' = [session EXCEPT ![device] = volume] /\ volume' = Full
          /\ sync' = device /\ rx' = None /\ stream # None
      BY <1>10, <2>3 DEF HandleSetVolumeSync, EnableSync
    <3>2. enabled' /\ asked'
      BY <1>10, <2>3 DEF HandleSetVolumeSync, EnableSync
    <3>3. volume = lastVolume /\ ~bypass /\ session'[device] = volume
      BY <2>3, <3>1
    <3> QED
      BY <1>0, <2>1, <2>2, <3>1, <3>2, <3>3
  <2>4. CASE asked
    <3>1. ~enabled' /\ ~asked'
      BY <1>10, <2>4 DEF HandleSetVolumeSync, DisableSync
    <3>2. sync # None => volume' = lastVolume
      BY <1>10, <2>4 DEF HandleSetVolumeSync, DisableSync
    <3>3. sync' = None /\ rx' = None
      BY <1>10, <2>4 DEF HandleSetVolumeSync, DisableSync
    <3>4. sync = None => stream # None /\ volume' = volume
      BY <1>10, <2>4 DEF HandleSetVolumeSync, DisableSync
    <3> QED
      BY <1>0, <2>1, <2>2, <3>1, <3>2, <3>3, <3>4
  <2> QED
    BY <2>3, <2>4
<1>11. CASE UNCHANGED vars
  BY <1>0, <1>11 DEF vars, NewestSent
<1> QED
  BY <1>1, <1>2, <1>3, <1>4, <1>5, <1>6, <1>7, <1>8, <1>9, <1>10, <1>11 DEF Next

(* The recorded level is the one that plays, on every endpoint and in      *)
(* every mode, once the commands have reached the thread.                  *)
THEOREM PlaysRecordedCorrect == Spec => []PlaysRecorded
<1>1. Init => (Quiet => InStep)
  BY InitInStep
<1>2. (Quiet => InStep) /\ [Next]_vars => (Quiet => InStep)'
  BY NextInStep, LaunchRigid DEF Quiet
<1>3. (Quiet => InStep) => PlaysRecorded
  BY DEF Quiet, InStep, NewestSent, PlaysRecorded, SharedPlays, Settled
<1> QED
  BY <1>1, <1>2, <1>3, PTL DEF Spec

(* The level recorded is applied, and applied once, wherever it lives.      *)
THEOREM PlaysOnceCorrect == Spec => []PlaysOnce
<1>1. AppliedOnce /\ PlaysRecorded => PlaysOnce
  BY DEF PlaysOnce
<1> QED
  BY <1>1, AppliedOnceCorrect, PlaysRecordedCorrect, PTL

-----------------------------------------------------------------------------
(* After a restored level, and whatever the mixer does, only chosen levels *)
(* play.  The thread's own level may be nobody's only in the one state the *)
(* setting cannot be switched off in: enabled, with no session held.       *)

SentWanted == \A i \in 1 .. Len(cmds) : cmds[i] \in wanted

Wanted == /\ TypeOK
          /\ baseline
          /\ asked <=> enabled
          /\ SentWanted
          /\ {lastVolume, gain} \subseteq wanted
          /\ bypass => sync = None /\ stream = None
          /\ sync # None => /\ enabled /\ sync = device
                            /\ volume = Full /\ session[device] \in wanted
          /\ stream # None => stream = device /\ (enabled => sync # None)
          /\ ~enabled => volume \in wanted

InTune == restored /\ incidents \subseteq {"mixer"}

LEMMA InitWanted == Init /\ InTune => Wanted
<1> SUFFICES ASSUME Init, InTune PROVE Wanted
  OBVIOUS
<1>1. baseline /\ (asked <=> enabled)
  BY Zenon DEF Init, InTune
<1>2. wanted = {recorded}
  BY Zenon DEF Init, InTune
<1>3. /\ volume = recorded /\ lastVolume = recorded /\ gain = recorded
      /\ cmds = <<>> /\ sync = None /\ stream = None /\ ~bypass
  BY Zenon DEF Init
<1>4. SentWanted
  BY <1>3 DEF SentWanted
<1> QED
  BY <1>1, <1>2, <1>3, <1>4, InitType DEF Wanted

(* What the channel holds once a command is sent, or taken by the thread. *)
LEMMA SendWanted ==
    ASSUME TypeOK, SentWanted, NEW v \in Levels,
           cmds' = Append(cmds, v), wanted' = wanted \cup {v}
    PROVE  SentWanted'
<1>1. cmds \in Seq(Levels)
  BY DEF TypeOK
<1>2. Len(cmds') = Len(cmds) + 1
  BY <1>1
<1>3. \A i \in 1 .. Len(cmds') : cmds'[i] = IF i = Len(cmds) + 1 THEN v ELSE cmds[i]
  BY <1>1, <1>2
<1> QED
  BY <1>1, <1>2, <1>3 DEF SentWanted

LEMMA TakeWanted ==
    ASSUME TypeOK, SentWanted, cmds # <<>>, cmds' = Tail(cmds), wanted' = wanted
    PROVE  SentWanted' /\ Head(cmds) \in wanted
<1>1. cmds \in Seq(Levels)
  BY DEF TypeOK
<1>2. Len(cmds) \in Nat /\ Len(cmds) # 0 /\ Len(cmds') = Len(cmds) - 1 /\ Head(cmds) = cmds[1]
  BY <1>1
<1>3. \A i \in 1 .. Len(cmds') : cmds'[i] = cmds[i + 1]
  BY <1>1, <1>2, HeadTailProperties
<1> QED
  BY <1>2, <1>3 DEF SentWanted

(* A stream bound to an endpoint while shared asserts the thread's level. *)
LEMMA InitSyncWanted ==
    ASSUME Wanted, InTune, NEW d \in Devices, InitVolumeSync(d)
    PROVE  /\ baseline' /\ lastVolume' = lastVolume
           /\ enabled => sync' = d /\ volume' = Full /\ session'[d] = lastVolume
           /\ ~enabled => sync' = None /\ volume' = volume
BY VolumeOutputAssumption
   DEF Wanted, InTune, TypeOK, InitVolumeSync, KeepSync, Fails, os

LEMMA NextWanted == Wanted /\ InTune /\ [Next]_vars => Wanted'
<1> SUFFICES ASSUME Wanted, InTune, [Next]_vars PROVE Wanted'
  OBVIOUS
<1>0. TypeOK'
  BY NextType DEF Wanted
<1> USE VolumeOutputAssumption DEF channel, gains, os, launch, setting, place, Fails
<1>1. ASSUME NEW v \in Levels, SetVolume(v) PROVE Wanted'
  <2>1. SentWanted'
    BY <1>1, SendWanted DEF SetVolume, Move, Wanted
  <2> QED
    BY <1>0, <1>1, <2>1 DEF SetVolume, Move, Wanted, TypeOK
<1>2. ASSUME NEW v \in Levels, MixerMove(v) PROVE Wanted'
  <2>1. SentWanted'
    BY <1>2 DEF MixerMove, Move, Wanted, SentWanted
  <2> QED
    BY <1>0, <1>2, <2>1 DEF MixerMove, Move, Wanted, TypeOK
<1>3. CASE NoteVolume \/ DrainMixer
  <2>1. SentWanted'
    BY <1>3 DEF NoteVolume, DrainMixer, Wanted, SentWanted
  <2>2. CASE NoteVolume
    BY <1>0, <2>1, <2>2 DEF NoteVolume, Wanted
  <2>3. CASE DrainMixer
    BY <1>0, <2>1, <2>3 DEF DrainMixer, Wanted
  <2> QED
    BY <1>3, <2>2, <2>3
<1>4. CASE HandleSetVolume
  <2>1. SentWanted' /\ Head(cmds) \in wanted
    BY <1>4, TakeWanted DEF HandleSetVolume, Wanted
  <2> QED
    BY <1>0, <1>4, <2>1 DEF HandleSetVolume, Wanted, InTune, TypeOK
<1>5. CASE Load
  <2>1. SentWanted'
    BY <1>5 DEF Load, LoadShared, Wanted, SentWanted
  <2> QED
    BY <1>0, <1>5, <2>1, InitSyncWanted DEF Load, LoadShared, KeepSync, Wanted, InTune, TypeOK
<1>6. CASE Complete
  <2>1. SentWanted'
    BY <1>6 DEF Complete, Wanted, SentWanted
  <2> QED
    BY <1>0, <1>6, <2>1 DEF Complete, Wanted
<1>7. ASSUME NEW d \in Devices, SwitchDevice(d) PROVE Wanted'
  <2>1. stream' = d /\ InitVolumeSync(d)
    BY <1>7 DEF SwitchDevice, Rebuild, InTune
  <2>2. SentWanted'
    BY <1>7 DEF SwitchDevice, Wanted, SentWanted
  <2> QED
    BY <1>0, <1>7, <2>1, <2>2, InitSyncWanted DEF SwitchDevice, Wanted, TypeOK
<1>8. ASSUME NEW d \in Devices, EnterBypass(d) PROVE Wanted'
  <2>1. SentWanted'
    BY <1>8 DEF EnterBypass, Wanted, SentWanted
  <2> QED
    BY <1>0, <1>8, <2>1 DEF EnterBypass, Wanted
<1>9. ASSUME NEW d \in Devices, LeaveBypass(d) PROVE Wanted'
  <2>1. SentWanted'
    BY <1>9 DEF LeaveBypass, Wanted, SentWanted
  <2>2. CASE stream' = d /\ InitVolumeSync(d)
    BY <1>0, <1>9, <2>1, <2>2, InitSyncWanted DEF LeaveBypass, Wanted, TypeOK
  <2>3. CASE stream' = stream /\ KeepSync
    BY <1>0, <1>9, <2>1, <2>3 DEF LeaveBypass, KeepSync, Wanted
  <2> QED
    BY <1>9, <2>2, <2>3 DEF LeaveBypass, Rebuild, InTune
<1>10. CASE HandleSetVolumeSync
  <2>1. SentWanted'
    BY <1>10 DEF HandleSetVolumeSync, Wanted, SentWanted
  <2>2. /\ baseline' = baseline /\ bypass' = bypass /\ wanted' = wanted /\ gain' = gain
        /\ lastVolume' = lastVolume /\ device' = device /\ stream' = stream
    BY <1>10 DEF HandleSetVolumeSync
  <2>3. CASE ~asked
    <3>1. /\ session' = [session EXCEPT ![device] = volume] /\ volume' = Full
          /\ sync' = device /\ stream # None /\ enabled' /\ asked'
      BY <1>10, <2>3 DEF HandleSetVolumeSync, EnableSync, Wanted, InTune
    <3>2. volume \in wanted /\ ~bypass /\ session'[device] = volume
      BY <2>3, <3>1 DEF Wanted, TypeOK
    <3> QED
      BY <1>0, <2>1, <2>2, <3>1, <3>2 DEF Wanted
  <2>4. CASE asked
    <3>1. ~enabled' /\ ~asked'
      BY <1>10, <2>4 DEF HandleSetVolumeSync, DisableSync, InTune
    <3>2. sync # None /\ volume' = session[sync] /\ sync' = None
      BY <1>10, <2>4 DEF HandleSetVolumeSync, DisableSync, Wanted, InTune
    <3> QED
      BY <1>0, <2>1, <2>2, <3>1, <3>2 DEF Wanted
  <2> QED
    BY <2>3, <2>4
<1>11. CASE UNCHANGED vars
  BY <1>0, <1>11 DEF vars, Wanted, SentWanted
<1> QED
  BY <1>1, <1>2, <1>3, <1>4, <1>5, <1>6, <1>7, <1>8, <1>9, <1>10, <1>11 DEF Next

(* No level is heard that nobody chose: a switch of the device or the mode *)
(* lets no fresh session's full scale through, however the mixer moves.    *)
THEOREM OnlyChosenCorrect == Spec => []OnlyChosenPlays
<1>1. Init => (InTune => Wanted)
  BY InitWanted
<1>2. (InTune => Wanted) /\ [Next]_vars => (InTune => Wanted)'
  BY NextWanted, LaunchRigid DEF InTune
<1>3. (InTune => Wanted) => OnlyChosenPlays
  BY DEF InTune, Wanted, OnlyChosenPlays, ChosenPlays
<1> QED
  BY <1>1, <1>2, <1>3, PTL DEF Spec
=============================================================================
