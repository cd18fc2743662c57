-------------------------- MODULE UpdateOffer_proofs --------------------------
(***************************************************************************)
(* What is on offer, the phase and the staging folder, for any releases,   *)
(* tasks and requests: an offer is of the state's channel, the phase has   *)
(* one task that works for it, and what it says of the folder is so.       *)
(*                                                                         *)
(* None of this is inductive alone.  That a ready release is whole rests   *)
(* on what a download that was stopped can still do to the folder (Left,   *)
(* Lingers), on there being one that was not (Works), and on what it found *)
(* when it had verified the archive (Fetched).                             *)
(***************************************************************************)
EXTENDS UpdateOffer, FiniteSetTheorems, TLAPS

(* A download, and one that can still be stopped. *)
Downloads(t) == task[t].does = "download"
Running(t)   == Downloads(t) /\ ~task[t].stopped

(* Only a download is ever stopped; a check knows its channel; an apply skips nothing but its own *)
(* release. *)
Kinds ==
    \A t \in Tasks :
        /\ task[t].stopped => Downloads(t)
        /\ task[t].does \in {"check", "login"} => task[t].under \in Channels
        /\ task[t].does = "apply" => task[t].skip \in {None, task[t].v}

(* A download has a channel, so that no answer of another can be taken for its own. *)
Offers == OfferOfItsChannel /\ (phase.at = "Downloading" => phase.under \in Channels)

(* What is held is what the phase downloads, and it runs.  (Whatever lingers: a stopped download *)
(* that fails late takes the phase with it, and forgets the task.) *)
Holds ==
    /\ phase.at = "Downloading" <=> held # None
    /\ held # None => Running(held) /\ task[held].v = phase.v

(* The tasks that work for the phase: one download that can be stopped, or one apply. *)
Works ==
    ~lingered =>
        /\ \A t \in Tasks : Running(t) => held = t
        /\ \A t \in Tasks : Starting(t) => phase.at = "Applying" /\ phase.v = task[t].v
        /\ \A t, u \in Tasks : Starting(t) /\ Starting(u) => t = u
        /\ phase.at = "Applying" => \E t \in Tasks : Starting(t)

(* What a download that can be stopped has verified stays: nobody else is about to touch it. *)
Fetched ==
    ~lingered => \A t \in Tasks : Running(t) /\ task[t].at \in {"verified", "whole"} =>
        /\ ~Clearing /\ ~Lingering /\ staging.by = t
        /\ task[t].at = "whole" => Staged(task[t].v) /\ ~staging.spared

(* A stopped download that still writes its manifest writes it into a folder that is not its own, *)
(* that is about to go, or that would not; a folder without a download is none that one is filling. *)
Left ==
    /\ \A t \in Tasks : Downloads(t) /\ task[t].stopped /\ task[t].at \in {"verified", "whole"}
          => Clearing \/ staging.by # t \/ staging.spared
    /\ \A t \in Tasks : Downloads(t) /\ task[t].at \in {"filling", "verified", "whole"}
          => staging.by # 0 \/ staging = NoStaging

(* Once the phase has moved on, a stopped download leaves no whole folder behind that would go. *)
Lingers ==
    ~lingered /\ Lingering /\ phase.at # "Downloading"
        => Clearing \/ ~staging.whole \/ staging.spared

(* What is ready, or being applied, is in the folder, and nothing is about to delete it. *)
Kept ==
    phase.at \in {"Ready", "Applying"} /\ ~phase.stray /\ ~lingered
        => Staged(phase.v) /\ ~staging.spared /\ ~Clearing

(* A whole folder is about to go, or would not, or is named by the phase, or is that of a download *)
(* about to say so. *)
Named ==
    ~lingered /\ staging.whole /\ staging.by # 0 =>
        \/ Clearing
        \/ staging.spared
        \/ phase.at \in {"Ready", "Applying"} /\ phase.v = staging.v
        \/ \E t \in Tasks : Running(t) /\ task[t].at = "whole" /\ staging.by = t

(* The inductive invariant. *)
IInv == TypeOK /\ Kinds /\ Offers /\ Holds /\ Works /\ Fetched /\ Left /\ Lingers /\ Kept /\ Named

-----------------------------------------------------------------------------
(* A free number there is, and it is nobody's. *)
LEMMA FirstFree == ASSUME TypeOK, Free # {} PROVE Min(Free) \in Tasks /\ task[Min(Free)] = Blank
<1>1. Free \subseteq Nat
  BY OfferAssumption DEF Free
<1> DEFINE Less == OpToRel(<, Nat)
<1>2. \A m, n \in Nat : m < n => <<m, n>> \in Less
  BY Zenon DEF OpToRel
<1>3. \E x \in Free : \A y \in Free : ~(<<y, x>> \in Less)
  BY <1>1, NatLessThanWellFounded, WFMin, Zenon
<1>4. ASSUME NEW x \in Free, \A y \in Free : ~(<<y, x>> \in Less), NEW y \in Free PROVE x =< y
  <2>1. x \in Nat /\ y \in Nat
    BY <1>1
  <2>2. y < x => <<y, x>> \in Less
    BY <1>2, <2>1, Zenon
  <2>3. ~(y < x)
    BY <1>4, <2>2, Zenon
  <2> QED
    BY <2>1, <2>3
<1>5. Min(Free) \in Free
  BY <1>3, <1>4, Zenon DEF Min
<1> QED
  BY <1>5 DEF Free, Live

-----------------------------------------------------------------------------
(* What the staging folder can be. *)
Folders ==
    [v : Versions, by : Tasks \cup {0}, under : Found, whole : BOOLEAN, spared : BOOLEAN]

(* What a deletion leaves, if it leaves anything, is marked as what would not go. *)
LEMMA Removing ==
    ASSUME TypeOK, NEW d \in Removed
    PROVE  /\ d \in Folders
           /\ d.by = 0 \/ (d.by = staging.by /\ d.spared)
           /\ d.whole => d.spared
           /\ staging = NoStaging \/ staging.by # 0 => d = NoStaging \/ d.by # 0
           /\ d = NoStaging \/ (d.by = staging.by /\ d.spared)
<1>1. staging \in Folders
  BY DEF TypeOK, Folders
<1>2. CASE d = NoStaging
  BY <1>2, OfferAssumption DEF NoStaging, Folders, Versions, Found
<1>3. CASE d # NoStaging
  <2>1. PICK whole \in {FALSE, staging.whole} :
           d = [staging EXCEPT !.spared = TRUE, !.whole = whole] /\ staging # NoStaging
    BY <1>3 DEF Removed
  <2>2. whole \in BOOLEAN
    BY <1>1 DEF Folders
  <2>3. /\ d \in Folders /\ d.by = staging.by /\ d.spared
    BY <1>1, <2>1, <2>2 DEF Folders
  <2> QED
    BY <2>1, <2>3
<1> QED
  BY <1>2, <1>3

-----------------------------------------------------------------------------
(* What a step makes of the tasks. *)
Slots == [does : Does, at : Ats, v : Versions, under : Found, skip : Versions, stopped : BOOLEAN]

(* Every task is at a place of its kind. *)
Shaped == task \in [Tasks -> Slots] /\ \A t \in Tasks : task[t].at \in Places[task[t].does]

(* The other tasks stay where they are. *)
Others(t) == \A u \in Tasks \ {t} : task'[u] = task[u]

(* The kinds of tasks, and the places of each. *)
LEMMA Kind ==
    /\ Does = {"none", "check", "login", "change", "dismiss", "download", "apply"}
    /\ \A d \in Does : Places[d] \subseteq Ats
    /\ Places["none"] = {"none"} /\ Places["check"] = {"asking"}
    /\ Places["login"] = {"scanning", "found", "declined", "asking"}
    /\ Places["change"] = {"asked"} /\ Places["dismiss"] = {"asked"}
    /\ Places["download"] = {"fetching", "filling", "verified", "whole", "failed"}
    /\ Places["apply"] = {"claiming", "launching", "spawning", "refused", "up"}
<1>1. Does = {"none", "check", "login", "change", "dismiss", "download", "apply"}
  BY DEF Does, Places
<1>2. \A d \in Does : Places[d] \subseteq Ats
  BY Zenon DEF Ats
<1> QED
  BY <1>1, <1>2 DEF Places

(* A task goes to another place of its kind. *)
LEMMA Going ==
    ASSUME TypeOK, NEW t \in Tasks, NEW at, Goes(t, at), at \in Places[task[t].does]
    PROVE  /\ Shaped' /\ Others(t)
           /\ task'[t].does = task[t].does /\ task'[t].at = at /\ task'[t].v = task[t].v
           /\ task'[t].under = task[t].under /\ task'[t].skip = task[t].skip
           /\ task'[t].stopped = task[t].stopped
<1>1. at \in Ats
  BY Kind DEF TypeOK
<1> QED
  BY <1>1 DEF TypeOK, Shaped, Slots, Goes, Others

(* A number nothing runs under is of the right shape. *)
LEMMA BlankFits == Blank \in Slots /\ Blank.at \in Places[Blank.does]
  BY Kind DEF Blank, Slots, Versions, Found

(* The phase that names nothing is a phase. *)
LEMMA IdleFits ==
    /\ Idle \in [at : {"Idle", "Downloading", "Ready", "Applying"}, v : Versions, under : Found,
                 stray : BOOLEAN]
    /\ Idle.at = "Idle"
  BY DEF Idle, Versions, Found

(* A task ends. *)
LEMMA Ending ==
    ASSUME TypeOK, NEW t \in Tasks, Ends(t)
    PROVE  Shaped' /\ Others(t) /\ task'[t] = Blank
  BY BlankFits DEF TypeOK, Shaped, Slots, Ends, Others

(* A task begins under a free number. *)
Begun(n, does, at, v, under, skips) ==
    /\ n \in Tasks /\ task[n] = Blank /\ Shaped' /\ Others(n)
    /\ task'[n].does = does /\ task'[n].at = at /\ task'[n].v = v
    /\ task'[n].under = under /\ task'[n].skip = skips /\ task'[n].stopped = FALSE

(* It has what it was begun with. *)
LEMMA Beginning ==
    ASSUME TypeOK, NEW does \in Does, NEW at, NEW v \in Versions, NEW under \in Found,
           NEW skips \in Versions, at \in Places[does], Starts(does, at, v, under, skips)
    PROVE  Begun(Min(Free), does, at, v, under, skips)
<1>1. Min(Free) \in Tasks /\ task[Min(Free)] = Blank
  BY FirstFree DEF Starts
<1> DEFINE r == [does |-> does, at |-> at, v |-> v, under |-> under, skip |-> skips,
                 stopped |-> FALSE]
<1>2. r \in Slots /\ r.at \in Places[r.does]
  BY Kind DEF Slots
<1>3. /\ r.does = does /\ r.at = at /\ r.v = v /\ r.under = under /\ r.skip = skips
      /\ r.stopped = FALSE
  OBVIOUS
<1>4. task' = [task EXCEPT ![Min(Free)] = r]
  BY DEF Starts
<1> HIDE DEF r
<1> QED
  BY <1>1, <1>2, <1>3, <1>4 DEF TypeOK, Shaped, Slots, Others, Begun

(* The download that is held is stopped, and only it. *)
LEMMA Stopping ==
    ASSUME TypeOK, NEW q, q = StopHeld(task)
    PROVE  /\ q \in [Tasks -> Slots] /\ \A t \in Tasks : q[t].at \in Places[q[t].does]
           /\ \A t \in Tasks :
                 /\ q[t].does = task[t].does /\ q[t].at = task[t].at /\ q[t].v = task[t].v
                 /\ q[t].under = task[t].under /\ q[t].skip = task[t].skip
                 /\ t # held => q[t] = task[t]
           /\ held # None => held \in Tasks /\ q[held].stopped = TRUE
<1>1. CASE held = None
  BY <1>1, OfferAssumption DEF TypeOK, StopHeld, Slots
<1>2. CASE held # None
  <2> DEFINE r == [task[held] EXCEPT !.stopped = TRUE]
  <2>1. held \in Tasks /\ q = [task EXCEPT ![held] = r]
    BY <1>2 DEF TypeOK, StopHeld
  <2>2. task \in [Tasks -> Slots] /\ \A t \in Tasks : task[t].at \in Places[task[t].does]
    BY DEF TypeOK, Slots
  <2>3. /\ r \in Slots /\ r.does = task[held].does /\ r.at = task[held].at
        /\ r.v = task[held].v /\ r.under = task[held].under /\ r.skip = task[held].skip
        /\ r.stopped = TRUE
    BY <2>1, <2>2 DEF Slots
  <2> HIDE DEF r
  <2> QED
    BY <1>2, <2>1, <2>2, <2>3
<1> QED
  BY <1>1, <1>2

-----------------------------------------------------------------------------
(* What the folder, the phase and the downloads are to each other: all of the invariant that a *)
(* request or a check leaves alone. *)
Work == Holds /\ Works /\ Fetched /\ Left /\ Lingers /\ Kept /\ Named

(* A slot that is neither a download, nor an apply with a claim, nor owes a deletion. *)
Apart(r) ==
    /\ r.does # "download" /\ ~r.stopped
    /\ r.does = "apply" => r.at = "claiming"
    /\ r.does = "login" => r.at # "declined"

(* A free number is such a slot. *)
LEMMA BlankApart == Apart(Blank) /\ Blank.does = "none" /\ Blank.stopped = FALSE
  BY DEF Apart, Blank

(* A task that neither works for the phase nor owes a deletion moves nothing of it. *)
LEMMA Bystander ==
    ASSUME IInv, Shaped', NEW n \in Tasks, Others(n), Apart(task[n]), Apart(task'[n]),
           UNCHANGED <<phase, held, staging, cleanups, lingered>>
    PROVE  Work'
<1>1. \A t \in Tasks : (Downloads(t) \/ Starting(t) \/ task[t].stopped) => t # n
  BY DEF Apart, Downloads, Starting, IInv, Kinds
<1>2. \A t \in Tasks : (Downloads(t)' \/ Starting(t)' \/ task'[t].stopped) => t # n
  BY DEF Apart, Downloads, Starting
<1>3. \A t \in Tasks : t # n => task'[t] = task[t]
  BY DEF Others
<1>4. Clearing' <=> Clearing
  BY <1>3 DEF Clearing, At, Apart
<1>5. Lingering' <=> Lingering
  BY <1>1, <1>2, <1>3 DEF Lingering, Live
<1>6. \A t \in Tasks :
         /\ Downloads(t)' <=> Downloads(t)
         /\ Starting(t)' <=> Starting(t)
         /\ Running(t)' <=> Running(t)
         /\ Downloads(t) \/ Starting(t) => task'[t] = task[t]
  BY <1>1, <1>2, <1>3 DEF Downloads, Starting, Running
<1>7. Holds'
  BY <1>6 DEF IInv, Holds, TypeOK, Running
<1>8. Works'
  BY <1>6 DEF IInv, Works
<1>9. Fetched'
  BY <1>4, <1>5, <1>6 DEF IInv, Fetched, Running, Staged
<1>10. Left'
  BY <1>4, <1>6 DEF IInv, Left
<1>11. Lingers' /\ Kept'
  BY <1>4, <1>5 DEF IInv, Lingers, Kept, Staged
<1>12. Named'
  BY <1>4, <1>6 DEF IInv, Named, Running
<1> QED
  BY <1>7, <1>8, <1>9, <1>10, <1>11, <1>12 DEF Work

-----------------------------------------------------------------------------
(* Before anything happened, the invariant holds. *)
LEMMA InitInv == Init => IInv
<1> SUFFICES ASSUME Init PROVE IInv
  OBVIOUS
<1>1. \A t \in Tasks : task[t] = Blank
  BY DEF Init
<1>2. \A t \in Tasks : task[t].does = "none" /\ task[t].at = "none" /\ task[t].stopped = FALSE
  BY <1>1 DEF Blank
<1>3. TypeOK
  <2>1. left \in [Requests -> Nat]
    BY OfferAssumption DEF Init
  <2>2. task \in [Tasks -> Slots]
    BY BlankFits DEF Init
  <2>3. \A t \in Tasks : task[t].at \in Places[task[t].does]
    BY <1>1, BlankFits
  <2>4. staging \in Folders
    <3>1. CASE staging = NoStaging
      BY <3>1 DEF NoStaging, Folders, Versions, Found
    <3>2. CASE staging \in [v : Releases, by : {0}, under : {None}, whole : {TRUE}, spared : {FALSE}]
      BY <3>2 DEF Folders, Versions, Found
    <3> QED
      BY <3>1, <3>2 DEF Init
  <2> QED
    BY <2>1, <2>2, <2>3, <2>4 DEF Init, TypeOK, Slots, Folders, Versions, Found, Idle
<1>4. Kinds
  BY <1>2 DEF Kinds
<1>5. Offers /\ Holds /\ Kept
  BY DEF Init, Idle, Offers, OfferOfItsChannel, Holds, Kept
<1>6. \A t \in Tasks : ~Downloads(t) /\ ~Starting(t) /\ ~task[t].stopped
  BY <1>2 DEF Downloads, Starting
<1>7. phase.at = "Idle"
  BY DEF Init, Idle
<1>8. Works /\ Fetched /\ Left /\ Lingers
  BY <1>6, <1>7 DEF Works, Fetched, Left, Lingers, Running, Lingering
<1>9. staging.by = 0
  <2>1. NoStaging.by = 0
    BY DEF NoStaging
  <2>2. \A g \in [v : Releases, by : {0}, under : {None}, whole : {TRUE}, spared : {FALSE}] : g.by = 0
    OBVIOUS
  <2> QED
    BY <2>1, <2>2 DEF Init
<1>10. Named
  BY <1>9 DEF Named
<1> QED
  BY <1>3, <1>4, <1>5, <1>8, <1>10 DEF IInv

-----------------------------------------------------------------------------
(* A request only begins a task: a switch, a dismissal, a check, a login, an apply. *)
LEMMA RequestStep ==
    ASSUME IInv, NEW does \in {"change", "dismiss", "check", "login", "apply"}, NEW at,
           NEW v \in Versions, NEW under \in Found, NEW skips \in Versions,
           Starts(does, at, v, under, skips), at \in Places[does],
           at \in {"asked", "asking", "scanning", "claiming"},
           does \in {"check", "login"} => under \in Channels, does = "apply" => skips = None,
           left' \in [Requests -> Nat], setting' \in Channels, skip' \in Versions,
           UNCHANGED <<state, disk, lingered, gone>>
    PROVE  IInv'
<1>0. UNCHANGED <<phase, info, channel, held, staging, cleanups, lingered, gone>>
  BY DEF state, disk
<1> DEFINE n == Min(Free)
<1>1. Begun(n, does, at, v, under, skips)
  <2>1. does \in Does /\ TypeOK
    BY Kind DEF IInv
  <2> QED
    BY <2>1, Beginning, Zenon
<1> HIDE DEF n
<1> USE DEF Begun
<1>2. TypeOK'
  BY <1>0, <1>1 DEF IInv, TypeOK, Shaped, Slots
<1>3. Kinds'
  BY <1>1 DEF IInv, Kinds, Others, Downloads
<1>4. Offers'
  BY <1>0 DEF IInv, Offers, OfferOfItsChannel
<1>5. Apart(task[n]) /\ Apart(task'[n])
  <2>1. does # "download" /\ (does = "apply" => at = "claiming") /\ at # "declined"
    BY Kind
  <2> QED
    BY <1>1, <2>1, BlankApart DEF Apart
<1>6. Work'
  BY <1>0, <1>1, <1>5, Bystander
<1> QED
  BY <1>2, <1>3, <1>4, <1>6 DEF IInv, Work

(* A history has one request less. *)
LEMMA Asking == ASSUME TypeOK, NEW r \in Requests, Asks(r) PROVE left' \in [Requests -> Nat]
  BY DEF TypeOK, Asks

(* A switch of channel is asked for. *)
LEMMA SetChannelStep == ASSUME IInv, NEW ch \in Channels, SetChannel(ch) PROVE IInv'
<1>1. left' \in [Requests -> Nat]
  BY Asking DEF SetChannel, Requests, IInv
<1>2. "asked" \in Places["change"]
  BY Kind
<1> QED
  BY <1>1, <1>2, RequestStep DEF SetChannel, Versions, Found, IInv, TypeOK

(* A dismissal is asked for. *)
LEMMA DismissStep == ASSUME IInv, NEW v \in Releases, Dismiss(v) PROVE IInv'
<1>1. left' \in [Requests -> Nat]
  BY Asking DEF Dismiss, Requests, IInv
<1>2. "asked" \in Places["dismiss"]
  BY Kind
<1> QED
  BY <1>1, <1>2, RequestStep DEF Dismiss, Versions, Found, IInv, TypeOK

(* A check is asked for. *)
LEMMA CheckStep == ASSUME IInv, Check PROVE IInv'
<1>1. left' \in [Requests -> Nat]
  BY Asking DEF Check, Requests, IInv
<1>2. "asking" \in Places["check"]
  BY Kind
<1> QED
  BY <1>1, <1>2, RequestStep DEF Check, db, Versions, Found, IInv, TypeOK

(* A login looks for what was staged. *)
LEMMA LoginStep == ASSUME IInv, Login PROVE IInv'
<1>1. left' \in [Requests -> Nat]
  BY Asking DEF Login, Requests, IInv
<1>2. "scanning" \in Places["login"]
  BY Kind
<1> QED
  BY <1>1, <1>2, RequestStep DEF Login, db, Versions, Found, IInv, TypeOK

(* An apply is asked for. *)
LEMMA ApplyStep == ASSUME IInv, NEW v \in Releases, Apply(v) PROVE IInv'
<1>1. left' \in [Requests -> Nat]
  BY Asking DEF Apply, Requests, IInv
<1>2. "claiming" \in Places["apply"]
  BY Kind
<1> QED
  BY <1>1, <1>2, RequestStep DEF Apply, db, Versions, Found, IInv, TypeOK

-----------------------------------------------------------------------------
(* A switch or a dismissal ends what it names: the download is stopped, the phase is nobody's, *)
(* and the folder has its deletion owed. *)
LEMMA Dropping ==
    ASSUME IInv, NEW t \in Tasks, task[t].does \in {"change", "dismiss"},
           phase.at \in {"Downloading", "Ready"},
           task' = [StopHeld(task) EXCEPT ![t] = Blank], ResetToIdle, cleanups' = Owed,
           UNCHANGED <<staging, lingered>>
    PROVE  Shaped' /\ Kinds' /\ Work'
<1> DEFINE q == StopHeld(task)
<1>1. /\ q \in [Tasks -> Slots] /\ \A u \in Tasks : q[u].at \in Places[q[u].does]
      /\ \A u \in Tasks :
            /\ q[u].does = task[u].does /\ q[u].at = task[u].at /\ q[u].v = task[u].v
            /\ q[u].under = task[u].under /\ q[u].skip = task[u].skip
            /\ u # held => q[u] = task[u]
      /\ held # None => held \in Tasks /\ q[held].stopped = TRUE
  BY Stopping DEF IInv
<1>2. task' = [q EXCEPT ![t] = Blank]
  OBVIOUS
<1> HIDE DEF q
<1>3. /\ Shaped' /\ task'[t] = Blank /\ \A u \in Tasks \ {t} : task'[u] = q[u]
  BY <1>1, <1>2, BlankFits DEF Shaped
<1>4. \A u \in Tasks : Downloads(u)' \/ Starting(u)' \/ task'[u].stopped => u # t
  BY <1>3, BlankApart DEF Downloads, Starting
<1>5. /\ \A u \in Tasks : Downloads(u)' => Downloads(u)
      /\ \A u \in Tasks : Starting(u)' => Starting(u)
      /\ \A u \in Tasks : Running(u)' => Running(u) /\ u # held
  BY <1>1, <1>3, <1>4, OfferAssumption DEF Downloads, Starting, Running, IInv, TypeOK
<1>6. phase'.at = "Idle" /\ held' = None
  BY DEF ResetToIdle, Idle
<1>7. Clearing'
  BY DEF Clearing, Owed, IInv, TypeOK
<1>8. Kinds'
  <2>1. \A u \in Tasks : u # t /\ task'[u].stopped => Downloads(u)'
    <3>1. \A u \in Tasks : task[u].stopped => task[u].does = "download"
      BY DEF IInv, Kinds, Downloads
    <3>2. held # None => task[held].does = "download"
      BY DEF IInv, Holds, Running, Downloads
    <3>3. \A u \in Tasks : u # t => task'[u].does = task[u].does /\ (u # held => task'[u] = task[u])
      BY <1>1, <1>3
    <3>4. \A u \in Tasks : u = held => held # None
      BY OfferAssumption
    <3> QED
      BY <3>1, <3>2, <3>3, <3>4 DEF Downloads
  <2>2. \A u \in Tasks : u # t =>
           /\ task'[u].does \in {"check", "login"} => task'[u].under \in Channels
           /\ task'[u].does = "apply" => task'[u].skip \in {None, task'[u].v}
    BY <1>1, <1>3 DEF IInv, Kinds
  <2> QED
    BY <1>3, <2>1, <2>2, BlankApart DEF Kinds
<1>9. Holds'
  BY <1>6 DEF Holds
<1>10. Works'
  BY <1>5, <1>6 DEF IInv, Works
<1>11. Fetched'
  BY <1>5 DEF IInv, Works, Fetched
<1>12. Left'
  <2>1. \A u \in Tasks : Downloads(u)' => task'[u].at = task[u].at
    BY <1>1, <1>3, <1>4
  <2> QED
    BY <1>5, <1>7, <2>1 DEF IInv, Left
<1>13. Lingers' /\ Kept' /\ Named'
  BY <1>6, <1>7 DEF Lingers, Kept, Named
<1> QED
  BY <1>3, <1>8, <1>9, <1>10, <1>11, <1>12, <1>13 DEF Work

(* A task ends that neither works for the phase nor owes a deletion. *)
LEMMA Withdrawing ==
    ASSUME IInv, NEW t \in Tasks, Apart(task[t]), Ends(t),
           UNCHANGED <<phase, held, staging, cleanups, lingered>>
    PROVE  Shaped' /\ Kinds' /\ Work'
<1>1. Shaped' /\ Others(t) /\ task'[t] = Blank
  BY Ending DEF IInv
<1>2. Kinds'
  BY <1>1, BlankApart DEF IInv, Kinds, Others, Downloads
<1> QED
  BY <1>1, <1>2, BlankApart, Bystander

(* A switch ends what is under way, but an apply. *)
LEMMA AbandonStep == ASSUME IInv, NEW t \in Tasks, Abandon(t) PROVE IInv'
<1>1. Shaped' /\ Kinds' /\ Work'
  <2>1. CASE Abandons
    BY <2>1, Dropping DEF Abandon, Abandons, At
  <2>2. CASE ~Abandons
    BY <2>2, Withdrawing DEF Abandon, At, Apart, IInv, Kinds, Downloads
  <2> QED
    BY <2>1, <2>2
<1>2. phase'.at = "Downloading" => FALSE
  BY DEF Abandon, Abandons, ResetToIdle, Idle
<1>3. TypeOK'
  <2>1. /\ channel' \in Found /\ info' = None
        /\ UNCHANGED <<left, setting, skip, staging, lingered, gone>>
    BY DEF Abandon, IInv, TypeOK, db
  <2>2. phase' \in {phase, Idle} /\ held' \in {held, None} /\ cleanups' \in {cleanups, cleanups + 1}
    BY DEF Abandon, ResetToIdle, Owed
  <2> QED
    BY <1>1, <2>1, <2>2, IdleFits DEF IInv, TypeOK, Shaped, Slots
<1>4. Offers'
  BY <1>2 DEF Offers, OfferOfItsChannel, Abandon
<1> QED
  BY <1>1, <1>3, <1>4 DEF IInv, Work

(* A dismissal ends what names its version. *)
LEMMA DismissOfferStep == ASSUME IInv, NEW t \in Tasks, DismissOffer(t) PROVE IInv'
<1>1. Shaped' /\ Kinds' /\ Work'
  <2>1. CASE Drops(task[t].v)
    BY <2>1, Dropping DEF DismissOffer, Drops, At
  <2>2. CASE ~Drops(task[t].v)
    BY <2>2, Withdrawing DEF DismissOffer, At, Apart, IInv, Kinds, Downloads
  <2> QED
    BY <2>1, <2>2
<1>2. /\ phase' \in {phase, Idle} /\ held' \in {held, None}
      /\ cleanups' \in {cleanups, cleanups + 1} /\ info' \in {info, None}
      /\ UNCHANGED <<left, setting, skip, channel, staging, lingered, gone>>
  BY DEF DismissOffer, ResetToIdle, Owed, db
<1>3. TypeOK'
  BY <1>1, <1>2, IdleFits DEF IInv, TypeOK, Shaped, Slots
<1>4. Offers'
  BY <1>2 DEF IInv, Offers, OfferOfItsChannel, Idle
<1> QED
  BY <1>1, <1>3, <1>4 DEF IInv, Work

(* A login looks into the folder. *)
LEMMA ScanStep == ASSUME IInv, NEW t \in Tasks, Scan(t) PROVE IInv'
<1>1. /\ Shaped' /\ Others(t) /\ task'[t].does = "login" /\ task'[t].at \in {"found", "asking"}
      /\ task'[t].stopped = task[t].stopped /\ task'[t].under = task[t].under
  <2> DEFINE a == IF staging.whole THEN "found" ELSE "asking"
             w == IF staging.whole THEN staging.v ELSE None
             r == [task[t] EXCEPT !.at = a, !.v = w]
  <2>1. task[t] \in Slots /\ task[t].does = "login" /\ a \in {"found", "asking"} /\ w \in Versions
    BY DEF IInv, TypeOK, Slots, Scan, At, Versions
  <2> HIDE DEF a, w
  <2>2. /\ r \in Slots /\ r.does = "login" /\ r.at = a /\ r.under = task[t].under
        /\ r.stopped = task[t].stopped
    BY <2>1, Kind DEF Slots
  <2>3. task' = [task EXCEPT ![t] = r]
    BY DEF Scan, a, w
  <2> HIDE DEF r
  <2> QED
    BY <2>1, <2>2, <2>3, Kind DEF IInv, TypeOK, Shaped, Slots, Others
<1>2. /\ UNCHANGED <<left, setting, skip, phase, info, channel, held, staging, cleanups>>
      /\ UNCHANGED <<lingered, gone>>
  BY DEF Scan, db, state, disk
<1>3. Apart(task[t]) /\ Apart(task'[t])
  BY <1>1 DEF Apart, IInv, Kinds, Downloads, Scan, At
<1>4. TypeOK'
  BY <1>1, <1>2 DEF IInv, TypeOK, Shaped, Slots
<1>5. Kinds'
  BY <1>1 DEF IInv, Kinds, Others, Downloads, Scan, At
<1>6. Offers'
  BY <1>2 DEF IInv, Offers, OfferOfItsChannel
<1>7. Work'
  BY <1>1, <1>2, <1>3, Bystander
<1> QED
  BY <1>4, <1>5, <1>6, <1>7 DEF IInv, Work

(* A check has its answer, of its channel or too late. *)
LEMMA AnswerStep == ASSUME IInv, NEW t \in Tasks, Answer(t) PROVE IInv'
<1>1. Shaped' /\ Kinds' /\ Work'
  BY Withdrawing DEF Answer, disk, Apart, IInv, Kinds, Downloads
<1>2. UNCHANGED <<left, setting, skip, phase, held, staging, cleanups, lingered, gone>>
  BY DEF Answer, db, disk
<1>3. task[t].under \in Channels /\ phase.at \in {"Idle", "Downloading", "Ready", "Applying"}
  BY DEF IInv, Kinds, Answer, TypeOK
<1>4. PICK outcome \in List(task[t].under) \cup {"none", "failed"} :
         IF IsStale(t) \/ outcome = task[t].skip
         THEN UNCHANGED <<channel, info>> ELSE Settle(t, outcome)
  BY DEF Answer
<1>5. CASE UNCHANGED <<channel, info>>
  BY <1>1, <1>2, <1>5 DEF IInv, TypeOK, Shaped, Slots, Offers, OfferOfItsChannel, Work
<1>6. CASE ~IsStale(t) /\ Settle(t, outcome)
  <2>1. channel' = task[t].under /\ channel \in {None, task[t].under}
    BY <1>6 DEF Settle, IsStale
  <2>2. \/ info' = info \/ info' = None
        \/ info' = [v |-> outcome, under |-> task[t].under] /\ outcome \in Releases
    BY <1>6, OfferAssumption DEF Settle, List
  <2>3. TypeOK'
    BY <1>1, <1>2, <1>3, <2>1, <2>2 DEF IInv, TypeOK, Shaped, Slots, Found
  <2>4. info # None => info.under \in Channels
    BY DEF IInv, TypeOK
  <2>5. Offers'
    BY <1>2, <1>3, <2>1, <2>2, <2>4, OfferAssumption DEF IInv, Offers, OfferOfItsChannel
  <2> QED
    BY <1>1, <2>3, <2>5 DEF IInv, Work
<1> QED
  BY <1>4, <1>5, <1>6

-----------------------------------------------------------------------------
(* Tasks that owe a deletion, and the deletion. *)

(* No download and no apply is touched. *)
Same ==
    \A t \in Tasks :
        /\ Downloads(t)' <=> Downloads(t)
        /\ Starting(t)' <=> Starting(t)
        /\ Downloads(t) \/ Starting(t) => task'[t] = task[t]

(* A login that has looked moves no download and no apply. *)
LEMMA LoginMoves ==
    ASSUME IInv, NEW t \in Tasks, task[t].does = "login", NEW at \in Places["login"], Goes(t, at)
    PROVE  Shaped' /\ Others(t) /\ task'[t].does = "login" /\ task'[t].at = at /\ Kinds' /\ Same
<1>1. /\ Shaped' /\ Others(t)
      /\ task'[t].does = "login" /\ task'[t].at = at
      /\ task'[t].under = task[t].under /\ task'[t].stopped = task[t].stopped
  BY Going DEF IInv
<1>2. Kinds'
  BY <1>1 DEF IInv, Kinds, Others, Downloads
<1>3. Same
  BY <1>1 DEF Same, Others, Downloads, Starting
<1> QED
  BY <1>1, <1>2, <1>3

(* A login adopts the release it found, declines it, or leaves the phase to its owner. *)
LEMMA TakeStagedStep == ASSUME IInv, NEW t \in Tasks, TakeStaged(t) PROVE IInv'
<1>1. /\ UNCHANGED <<left, setting, skip, info, channel, held, staging, cleanups, lingered, gone>>
      /\ task[t].does = "login" /\ task[t].at = "found"
  BY DEF TakeStaged, db, disk, At
<1>2. Apart(task[t])
  BY <1>1 DEF Apart, IInv, Kinds, Downloads
<1>3. CASE Ends(t) /\ UNCHANGED phase
  <2>1. Shaped' /\ Kinds' /\ Work'
    BY <1>1, <1>2, <1>3, Withdrawing
  <2> QED
    BY <1>1, <1>3, <2>1 DEF IInv, TypeOK, Shaped, Slots, Offers, OfferOfItsChannel, Work
<1>4. CASE phase.at = "Idle" /\ Goes(t, "declined") /\ UNCHANGED phase
  <2>1. /\ Shaped' /\ Others(t) /\ Kinds' /\ Same
        /\ task'[t].does = "login" /\ task'[t].at = "declined"
    BY <1>1, <1>4, LoginMoves, Kind
  <2>2. Clearing'
    BY <2>1 DEF Clearing, At
  <2>3. TypeOK' /\ Offers'
    BY <1>1, <1>4, <2>1 DEF IInv, TypeOK, Shaped, Slots, Offers, OfferOfItsChannel
  <2>4. held = None /\ (~lingered => \A u \in Tasks : ~Running(u) /\ ~Starting(u))
    BY <1>4, OfferAssumption DEF IInv, Holds, Works
  <2>5. Holds' /\ Works' /\ Fetched'
    BY <1>1, <1>4, <2>1, <2>4 DEF Holds, Works, Fetched, Same, Running
  <2>6. Left' /\ Lingers' /\ Kept' /\ Named'
    BY <1>1, <1>4, <2>1, <2>2 DEF IInv, Left, Lingers, Kept, Named, Same
  <2> QED
    BY <2>1, <2>3, <2>5, <2>6 DEF IInv
<1>5. CASE /\ phase.at = "Idle" /\ Ends(t)
           /\ phase' = [at |-> "Ready", v |-> task[t].v,
                        under |-> IF Staged(task[t].v) THEN staging.under ELSE None,
                        stray |-> ~Staged(task[t].v) \/ Clearing \/ staging.spared]
  <2>1. Shaped' /\ Others(t) /\ task'[t] = Blank
    BY <1>5, Ending DEF IInv
  <2>2. Kinds'
    BY <2>1, BlankApart DEF IInv, Kinds, Others, Downloads
  <2>3. Same
    BY <1>1, <2>1, BlankApart DEF Same, Others, Downloads, Starting
  <2>4. Clearing' <=> Clearing
    BY <1>1, <2>1, BlankApart DEF Clearing, Others, At
  <2>5. Lingering' => Lingering
    BY <2>1, BlankApart DEF Lingering, Others, Live
  <2>6. /\ phase'.at = "Ready" /\ phase'.v = task[t].v
        /\ ~phase'.stray => Staged(task[t].v) /\ ~Clearing /\ ~staging.spared
    BY <1>5
  <2>7. phase' \in [at : {"Idle", "Downloading", "Ready", "Applying"}, v : Versions, under : Found,
                    stray : BOOLEAN]
    <3>1. (~Staged(task[t].v) \/ Clearing \/ staging.spared) \in BOOLEAN
      OBVIOUS
    <3>2. task[t].v \in Versions /\ (IF Staged(task[t].v) THEN staging.under ELSE None) \in Found
      BY DEF IInv, TypeOK, Found
    <3> QED
      BY <1>5, <3>1, <3>2, Zenon
  <2>8. TypeOK' /\ Offers'
    BY <1>1, <2>1, <2>6, <2>7 DEF IInv, TypeOK, Shaped, Slots, Offers, OfferOfItsChannel
  <2>9. ~lingered => \A u \in Tasks : ~Running(u) /\ ~Starting(u)
    BY <1>5, OfferAssumption DEF IInv, Holds, Works
  <2>10. Holds' /\ Works'
    BY <1>1, <1>5, <2>3, <2>6, <2>9 DEF IInv, Holds, Works, Same, Running, TypeOK
  <2>11. Fetched'
    BY <1>1, <2>3, <2>9 DEF Fetched, Same, Running
  <2>12. Left' /\ Lingers'
    BY <1>1, <1>5, <2>3, <2>4, <2>5 DEF IInv, Left, Lingers, Same
  <2>13. Kept' /\ Named'
    BY <1>1, <1>5, <2>4, <2>6, <2>9 DEF IInv, Kept, Named, Staged
  <2> QED
    BY <2>2, <2>8, <2>10, <2>11, <2>12, <2>13 DEF IInv
<1> QED
  BY <1>3, <1>4, <1>5 DEF TakeStaged, MayAdopt

(* The folder goes, or would not: nothing that is ready, and no download that has verified it, *)
(* had it. *)
LEMMA Clearance ==
    ASSUME IInv, Clearing, staging' \in Removed, Same, UNCHANGED <<phase, held, lingered>>,
           \A t \in Tasks : task'[t].stopped = task[t].stopped
    PROVE  Work'
<1>1. /\ staging'.by = 0 \/ staging'.spared
      /\ staging'.whole => staging'.spared
      /\ staging = NoStaging \/ staging.by # 0 => staging' = NoStaging \/ staging'.by # 0
  BY Removing DEF IInv
<1>2. Holds' /\ Works'
  BY DEF IInv, Holds, Works, Same, Running, TypeOK
<1>3. Fetched'
  BY DEF IInv, Fetched, Same, Running
<1>4. Left'
  <2>1. \A t \in Tasks : t # 0
    BY OfferAssumption
  <2>2. \A t \in Tasks : Downloads(t)' => Downloads(t) /\ task'[t] = task[t]
    BY DEF Same
  <2> QED
    BY <1>1, <2>1, <2>2 DEF IInv, Left
<1>5. Lingers' /\ Named'
  BY <1>1 DEF Lingers, Named
<1>6. Kept'
  BY DEF IInv, Kept
<1> QED
  BY <1>2, <1>3, <1>4, <1>5, <1>6 DEF Work

(* A login has the release it declined deleted. *)
LEMMA CleanDeclinedStep == ASSUME IInv, NEW t \in Tasks, CleanDeclined(t) PROVE IInv'
<1>1. /\ UNCHANGED <<left, setting, skip, phase, info, channel, held, cleanups, lingered, gone>>
      /\ staging' \in Removed /\ staging' \in Folders
  BY Removing DEF CleanDeclined, db, state, IInv
<1>2. /\ Shaped' /\ Others(t) /\ task'[t].does = "login" /\ task'[t].at = "asking" /\ Kinds' /\ Same
  BY LoginMoves, Kind DEF CleanDeclined, At
<1>3. Clearing
  BY DEF Clearing, CleanDeclined
<1>4. \A u \in Tasks : task'[u].stopped = task[u].stopped
  BY Going, Kind DEF CleanDeclined, At, IInv, Others
<1>5. Work'
  BY <1>1, <1>2, <1>3, <1>4, Clearance
<1>6. TypeOK' /\ Offers'
  BY <1>1, <1>2 DEF IInv, TypeOK, Folders, Shaped, Slots, Offers, OfferOfItsChannel
<1> QED
  BY <1>2, <1>5, <1>6 DEF IInv, Work

(* An owed deletion is done. *)
LEMMA CleanupStep == ASSUME IInv, Cleanup PROVE IInv'
<1>1. /\ UNCHANGED <<left, setting, skip, phase, info, channel, held, task, lingered, gone>>
      /\ staging' \in Removed /\ staging' \in Folders /\ cleanups' \in Nat
  BY Removing DEF Cleanup, db, state, IInv, TypeOK
<1>2. Same
  BY <1>1 DEF Same, Downloads, Starting
<1>3. Clearing
  BY DEF Clearing, Cleanup
<1>4. Work'
  BY <1>1, <1>2, <1>3, Clearance
<1>5. TypeOK' /\ Kinds' /\ Offers'
  BY <1>1 DEF IInv, TypeOK, Folders, Kinds, Downloads, Offers, OfferOfItsChannel
<1> QED
  BY <1>4, <1>5 DEF IInv, Work

-----------------------------------------------------------------------------
(* Downloads. *)

(* While the phase has nothing under way, no download runs that can be stopped; and so on. *)
LEMMA WhoWorks ==
    ASSUME IInv, ~lingered
    PROVE  /\ \A t \in Tasks : Running(t) =>
                 /\ phase.at = "Downloading" /\ held = t /\ phase.v = task[t].v
                 /\ \A u \in Tasks : Running(u) => u = t
           /\ phase.at # "Applying" => \A t \in Tasks : ~Starting(t)
  BY OfferAssumption DEF IInv, Holds, Works

(* A download begins, and is held. *)
LEMMA DownloadStep == ASSUME IInv, NEW v \in Releases, Download(v) PROVE IInv'
<1>1. PICK n \in Tasks : n = Min(Free) /\ Begun(n, "download", "fetching", v, info.under, None)
  <2>1. /\ info.under \in Found /\ v \in Versions /\ None \in Versions /\ "download" \in Does
        /\ "fetching" \in Places["download"]
    BY Kind DEF IInv, TypeOK, Found, Versions, Download, MayDownload, OnOffer
  <2>2. Starts("download", "fetching", v, info.under, None) /\ TypeOK
    BY DEF Download, IInv
  <2>3. Begun(Min(Free), "download", "fetching", v, info.under, None)
    BY <2>1, <2>2, Beginning
  <2>4. Min(Free) \in Tasks
    BY <2>3 DEF Begun
  <2> QED
    BY <2>3, <2>4
<1>2. held' = n
  BY <1>1 DEF Download
<1>3. /\ n \in Tasks /\ task[n] = Blank /\ Shaped' /\ Others(n)
      /\ task'[n].does = "download" /\ task'[n].at = "fetching" /\ task'[n].v = v
      /\ task'[n].stopped = FALSE
  BY <1>1 DEF Begun
<1>4. /\ UNCHANGED <<setting, skip, info, channel, cleanups, lingered, gone>>
      /\ left' \in [Requests -> Nat]
  BY Asking DEF Download, db, Requests, IInv
<1>5. /\ info # None /\ info.under \in Channels /\ info.under = channel
      /\ phase.at \in {"Idle", "Ready"}
  BY DEF Download, MayDownload, OnOffer, IInv, Offers, OfferOfItsChannel, TypeOK
<1>6. /\ phase'.at = "Downloading" /\ phase'.v = v /\ phase'.under = info.under
      /\ phase' \in [at : {"Idle", "Downloading", "Ready", "Applying"}, v : Versions,
                     under : Found, stray : BOOLEAN]
  BY <1>5 DEF Download, Versions, Found
<1>7. /\ staging' \in Folders
      /\ \/ phase.at # "Ready" /\ staging' = staging
         \/ /\ staging'.by = 0 \/ (staging'.by = staging.by /\ staging'.spared)
            /\ staging'.whole => staging'.spared
            /\ staging = NoStaging \/ staging.by # 0 => staging' = NoStaging \/ staging'.by # 0
  <2>1. staging' \in Removed \/ (phase.at # "Ready" /\ staging' = staging)
    BY DEF Download
  <2>2. staging \in Folders
    BY DEF IInv, TypeOK, Folders
  <2> QED
    BY <2>1, <2>2, Removing DEF IInv
<1>8. TypeOK'
  BY <1>2, <1>3, <1>4, <1>6, <1>7 DEF IInv, TypeOK, Folders, Shaped, Slots
<1>9. Kinds'
  BY <1>3 DEF IInv, Kinds, Others, Downloads
<1>10. Offers'
  BY <1>4, <1>5, <1>6 DEF Offers, OfferOfItsChannel
<1>11. Holds'
  BY <1>2, <1>3, <1>6, OfferAssumption DEF Holds, Running, Downloads
<1>12. \A t \in Tasks : t # n =>
          /\ task'[t] = task[t] /\ (Downloads(t)' <=> Downloads(t))
          /\ (Running(t)' <=> Running(t)) /\ (Starting(t)' <=> Starting(t))
  BY <1>3 DEF Others, Downloads, Running, Starting
<1>13. /\ ~lingered => \A t \in Tasks : t # n => ~Running(t)' /\ ~Starting(t)'
       /\ ~Starting(n)' /\ \A t \in Tasks : Downloads(t) => t # n
  <2>1. ~lingered => \A t \in Tasks : ~Running(t) /\ ~Starting(t)
    BY <1>5, WhoWorks
  <2>2. ~Starting(n)'
    BY <1>3 DEF Starting
  <2>3. \A t \in Tasks : Downloads(t) => t # n
    BY <1>3, BlankApart DEF Downloads
  <2> QED
    BY <1>12, <2>1, <2>2, <2>3
<1>14. Works'
  BY <1>2, <1>4, <1>6, <1>13 DEF Works
<1>15. Fetched'
  BY <1>3, <1>4, <1>13 DEF Fetched
<1>16. Clearing' <=> Clearing
  BY <1>3, <1>4, <1>12, BlankApart DEF Clearing, At
<1>17. Left'
  <2>1. \A t \in Tasks : t # 0
    BY OfferAssumption
  <2> QED
    BY <1>3, <1>7, <1>12, <1>16, <2>1 DEF IInv, Left, Downloads
<1>18. Lingers' /\ Kept'
  BY <1>6 DEF Lingers, Kept
<1>19. Named'
  BY <1>4, <1>5, <1>7, <1>16, WhoWorks DEF IInv, Named
<1> QED
  BY <1>8, <1>9, <1>10, <1>11, <1>14, <1>15, <1>17, <1>18, <1>19 DEF IInv

(* A download goes to another of its places. *)
LEMMA DownloadMoves ==
    ASSUME IInv, NEW t \in Tasks, Downloads(t), NEW at \in Places["download"], Goes(t, at)
    PROVE  /\ Shaped' /\ Others(t) /\ task'[t].at = at /\ task'[t].v = task[t].v
           /\ task'[t].stopped = task[t].stopped /\ Kinds'
           /\ \A u \in Tasks :
                 /\ Downloads(u)' <=> Downloads(u)
                 /\ Running(u)' <=> Running(u)
                 /\ Starting(u)' <=> Starting(u)
                 /\ task'[u].v = task[u].v /\ task'[u].stopped = task[u].stopped
           /\ cleanups' = cleanups => (Clearing' <=> Clearing)
           /\ Lingering' <=> Lingering
<1>1. /\ Shaped' /\ Others(t) /\ task'[t].does = "download" /\ task'[t].at = at
      /\ task'[t].v = task[t].v /\ task'[t].under = task[t].under /\ task'[t].skip = task[t].skip
      /\ task'[t].stopped = task[t].stopped
  BY Going DEF IInv, Downloads
<1>2. Kinds'
  BY <1>1 DEF IInv, Kinds, Others, Downloads
<1>3. \A u \in Tasks :
         /\ Downloads(u)' <=> Downloads(u)
         /\ Running(u)' <=> Running(u)
         /\ Starting(u)' <=> Starting(u)
         /\ task'[u].v = task[u].v /\ task'[u].stopped = task[u].stopped
  BY <1>1 DEF Others, Downloads, Running, Starting
<1>4. cleanups' = cleanups => (Clearing' <=> Clearing)
  BY <1>1 DEF Clearing, At, Others, Downloads
<1>5. \A u \in Tasks : Live(u)' <=> Live(u)
  BY <1>1, BlankApart DEF Live, Others, Downloads
<1>6. Lingering' <=> Lingering
  BY <1>3, <1>5 DEF Lingering
<1> QED
  BY <1>1, <1>2, <1>3, <1>4, <1>6

(* A download makes the folder its own. *)
LEMMA PrepareStep == ASSUME IInv, NEW t \in Tasks, Prepare(t) PROVE IInv'
<1>1. /\ UNCHANGED <<left, setting, skip, phase, info, channel, held, cleanups, lingered, gone>>
      /\ Downloads(t) /\ task[t].at = "fetching"
  BY DEF Prepare, db, state, At, Downloads
<1>2. /\ Shaped' /\ Others(t) /\ task'[t].at = "filling"
      /\ task'[t].stopped = task[t].stopped /\ Kinds'
      /\ \A u \in Tasks :
            /\ Downloads(u)' <=> Downloads(u)
            /\ Running(u)' <=> Running(u)
            /\ Starting(u)' <=> Starting(u)
            /\ task'[u].v = task[u].v /\ task'[u].stopped = task[u].stopped
      /\ Clearing' <=> Clearing
      /\ Lingering' <=> Lingering
  BY <1>1, DownloadMoves, Kind DEF Prepare
<1>3. staging'.by = t /\ (staging'.whole => staging'.spared) /\ staging' \in Folders
  <2>1. PICK old \in Removed :
           staging' = IF old.whole
                      THEN [old EXCEPT !.by = t]
                      ELSE [v |-> task[t].v, by |-> t, under |-> task[t].under, whole |-> FALSE,
                            spared |-> FALSE]
    BY DEF Prepare
  <2>2. old \in Folders /\ (old.whole => old.spared)
    BY Removing DEF IInv
  <2>3. task[t].v \in Versions /\ task[t].under \in Found
    BY DEF IInv, TypeOK
  <2>4. CASE old.whole
    BY <2>1, <2>2, <2>4 DEF Folders
  <2>5. CASE ~old.whole
    BY <2>1, <2>3, <2>5 DEF Folders
  <2> QED
    BY <2>4, <2>5
<1>4. TypeOK' /\ Offers'
  BY <1>1, <1>2, <1>3 DEF IInv, TypeOK, Folders, Shaped, Slots, Offers, OfferOfItsChannel
<1>5. Holds' /\ Works'
  BY <1>1, <1>2 DEF IInv, Holds, Works, TypeOK
<1>6. Live(t)
  BY <1>1, BlankApart DEF Live, Downloads
<1>7. Fetched'
  BY <1>1, <1>2, <1>6, WhoWorks DEF IInv, Fetched, Lingering, Running, Others
<1>8. Left'
  <2>1. t # 0 /\ \A u \in Tasks : u # t => task'[u] = task[u]
    BY <1>2, OfferAssumption DEF Others
  <2> QED
    BY <1>2, <1>3, <2>1 DEF Left
<1>9. Lingers' /\ Named'
  BY <1>3 DEF Lingers, Named
<1>10. Kept'
  BY <1>1, <1>6, WhoWorks DEF IInv, Kept, Lingers, Lingering, Running, Staged
<1> QED
  BY <1>2, <1>4, <1>5, <1>7, <1>8, <1>9, <1>10 DEF IInv

(* A download goes on, or fails, and touches nothing but itself. *)
LEMMA Proceeding ==
    ASSUME IInv, NEW t \in Tasks, Downloads(t), NEW at \in {"verified", "failed"}, Goes(t, at),
           task[t].at \in {"fetching", "filling", "verified"},
           at = "verified" => task[t].at = "filling" /\ ~task[t].stopped /\ ~Clearing /\ ~Lingering
                                 /\ staging.by = t,
           UNCHANGED <<left, db, state, disk, lingered, gone>>
    PROVE  IInv'
<1>1. /\ UNCHANGED <<left, setting, skip, phase, info, channel, held, staging, cleanups>>
      /\ UNCHANGED <<lingered, gone>>
  BY DEF db, state, disk
<1>2. /\ Shaped' /\ Others(t) /\ task'[t].at = at
      /\ task'[t].stopped = task[t].stopped /\ Kinds'
      /\ \A u \in Tasks :
            /\ Downloads(u)' <=> Downloads(u)
            /\ Running(u)' <=> Running(u)
            /\ Starting(u)' <=> Starting(u)
            /\ task'[u].v = task[u].v /\ task'[u].stopped = task[u].stopped
      /\ Clearing' <=> Clearing
      /\ Lingering' <=> Lingering
  BY <1>1, DownloadMoves, Kind
<1>3. \A u \in Tasks : u # t => task'[u] = task[u]
  BY <1>2 DEF Others
<1>4. TypeOK' /\ Offers'
  BY <1>1, <1>2 DEF IInv, TypeOK, Shaped, Slots, Offers, OfferOfItsChannel
<1>5. Holds' /\ Works'
  BY <1>1, <1>2 DEF IInv, Holds, Works, TypeOK
<1>6. Fetched'
  BY <1>1, <1>2, <1>3 DEF IInv, Fetched, Staged
<1>7. Left'
  BY <1>1, <1>2, <1>3 DEF IInv, Left, Downloads
<1>8. Lingers' /\ Kept'
  BY <1>1, <1>2 DEF IInv, Lingers, Kept, Staged
<1>9. Named'
  BY <1>1, <1>2, <1>3 DEF IInv, Named
<1> QED
  BY <1>2, <1>4, <1>5, <1>6, <1>7, <1>8, <1>9 DEF IInv

(* A download has its archive verified, or finds the folder gone. *)
LEMMA FillStep == ASSUME IInv, NEW t \in Tasks, Fill(t) PROVE IInv'
<1>1. CASE staging.by = t
  BY <1>1, Proceeding DEF Fill, At, Downloads
<1>2. CASE staging.by # t
  BY <1>2, Proceeding DEF Fill, At, Downloads
<1> QED
  BY <1>1, <1>2

(* A download fails. *)
LEMMA FailStep == ASSUME IInv, NEW t \in Tasks, Fail(t) PROVE IInv'
  BY Proceeding DEF Fail, Downloads

(* A download writes the manifest: its own folder is whole, or it comes too late. *)
LEMMA WriteManifestStep == ASSUME IInv, NEW t \in Tasks, WriteManifest(t) PROVE IInv'
<1>1. /\ UNCHANGED <<left, setting, skip, phase, info, channel, held, cleanups, gone>>
      /\ Downloads(t) /\ task[t].at = "verified"
      /\ lingered' = (lingered \/ staging.by \notin {0, t})
  BY DEF WriteManifest, db, state, At, Downloads
<1>2. CASE staging = NoStaging
  <2>1. NoStaging.by = 0
    BY DEF NoStaging
  <2>2. lingered' = lingered
    BY <1>1, <1>2, <2>1 DEF IInv, TypeOK
  <2> QED
    BY <1>1, <1>2, <2>2, Proceeding DEF WriteManifest, db, state, disk
<1>3. CASE staging # NoStaging
  <2>1. /\ Goes(t, "whole")
        /\ staging' = [staging EXCEPT !.v = task[t].v, !.under = task[t].under, !.whole = TRUE,
                                      !.spared = @ /\ (task[t].stopped \/ staging.by # t)]
    BY <1>3 DEF WriteManifest
  <2>2. /\ Shaped' /\ Others(t) /\ task'[t].at = "whole"
        /\ task'[t].stopped = task[t].stopped /\ Kinds'
        /\ \A u \in Tasks :
              /\ Downloads(u)' <=> Downloads(u)
              /\ Running(u)' <=> Running(u)
              /\ Starting(u)' <=> Starting(u)
              /\ task'[u].v = task[u].v /\ task'[u].stopped = task[u].stopped
        /\ Clearing' <=> Clearing
        /\ Lingering' <=> Lingering
    BY <1>1, <2>1, DownloadMoves, Kind
  <2>3. /\ staging'.v = task[t].v /\ staging'.whole = TRUE /\ staging'.by = staging.by
        /\ staging'.spared = (staging.spared /\ (task[t].stopped \/ staging.by # t))
        /\ staging' \in Folders
    <3>1. /\ staging \in Folders /\ task[t].v \in Versions /\ task[t].under \in Found
          /\ task[t].stopped \in BOOLEAN
      BY DEF IInv, TypeOK, Folders
    <3> QED
      BY <2>1, <3>1 DEF Folders
  <2>4. staging.by # 0
    BY <1>1, <1>3 DEF IInv, Left
  <2>5. ~lingered' => ~lingered /\ staging.by = t
    BY <1>1, <2>4
  <2>6. \A u \in Tasks : u # t => task'[u] = task[u]
    BY <2>2 DEF Others
  <2>7. task[t].stopped /\ ~lingered' => Clearing \/ staging'.spared
    BY <1>1, <2>3, <2>5 DEF IInv, Left
  <2>8. ~task[t].stopped /\ ~lingered' => ~Clearing /\ ~Lingering
    BY <1>1, <2>5 DEF IInv, Fetched, Running
  <2>9. TypeOK' /\ Offers'
    <3>1. lingered' \in BOOLEAN
      BY <1>1 DEF IInv, TypeOK
    <3> QED
      BY <1>1, <2>2, <2>3, <3>1 DEF IInv, TypeOK, Folders, Shaped, Slots, Offers, OfferOfItsChannel
  <2>10. Holds' /\ Works'
    BY <1>1, <2>2, <2>5 DEF IInv, Holds, Works, TypeOK
  <2>11. Fetched'
    <3> SUFFICES ASSUME ~lingered', NEW u \in Tasks, Running(u)',
                        task'[u].at \in {"verified", "whole"}
                 PROVE  (~Clearing /\ ~Lingering /\ staging.by = u
                            /\ (task[u].at = "whole" => Staged(task[u].v) /\ ~staging.spared))'
      BY DEF Fetched
    <3>1. u = t
      BY <2>2, <2>5, <2>6, <2>7, <2>8, WhoWorks DEF IInv, Fetched, Running
    <3> QED
      BY <2>2, <2>3, <2>5, <2>8, <3>1 DEF Staged, Running
  <2>12. Left'
    BY <1>1, <2>2, <2>3, <2>4, <2>6 DEF IInv, Left
  <2>13. Lingers'
    BY <1>1, <2>2, <2>5, <2>7, <2>8 DEF Lingers
  <2>14. Kept'
    <3>1. ~lingered' /\ phase.at \in {"Ready", "Applying"} /\ ~phase.stray => task[t].stopped
      BY <1>1, <2>5, WhoWorks DEF Running
    <3> QED
      BY <1>1, <2>3, <2>5, <2>7, <3>1 DEF IInv, Kept
  <2>15. Named'
    BY <1>1, <2>2, <2>3, <2>5, <2>7 DEF Named, Running
  <2> QED
    BY <2>2, <2>9, <2>10, <2>11, <2>12, <2>13, <2>14, <2>15 DEF IInv
<1> QED
  BY <1>2, <1>3

(* A download ends. *)
LEMMA DownloadEnds ==
    ASSUME IInv, NEW t \in Tasks, Downloads(t), Ends(t)
    PROVE  /\ Shaped' /\ Kinds'
           /\ \A u \in Tasks :
                 /\ Downloads(u)' <=> Downloads(u) /\ u # t
                 /\ Running(u)' <=> Running(u) /\ u # t
                 /\ Starting(u)' <=> Starting(u)
                 /\ u # t => task'[u] = task[u]
           /\ cleanups' = cleanups => (Clearing' <=> Clearing)
           /\ Lingering' => Lingering
<1>1. Shaped' /\ Others(t) /\ task'[t] = Blank
  BY Ending DEF IInv
<1>2. Kinds'
  BY <1>1, BlankApart DEF IInv, Kinds, Others, Downloads
<1>3. \A u \in Tasks :
         /\ Downloads(u)' <=> Downloads(u) /\ u # t
         /\ Running(u)' <=> Running(u) /\ u # t
         /\ Starting(u)' <=> Starting(u)
         /\ u # t => task'[u] = task[u]
  BY <1>1, BlankApart DEF Others, Downloads, Running, Starting
<1>4. cleanups' = cleanups => (Clearing' <=> Clearing)
  BY <1>1, BlankApart DEF Clearing, At, Others, Downloads
<1>5. Lingering' => Lingering
  BY <1>1, BlankApart DEF Lingering, Live, Others
<1> QED
  BY <1>1, <1>2, <1>3, <1>4, <1>5

(* A download is done: the release is ready, or nobody waits for it. *)
LEMMA FinishStep == ASSUME IInv, NEW t \in Tasks, Finish(t) PROVE IInv'
<1>1. /\ UNCHANGED <<left, setting, skip, info, channel, cleanups, gone>>
      /\ Downloads(t) /\ task[t].at = "whole"
      /\ lingered' = (lingered \/ (task[t].stopped /\ phase.at # "Idle"))
  BY DEF Finish, db, At, Downloads
<1>2. /\ Shaped' /\ Kinds'
      /\ \A u \in Tasks :
            /\ Downloads(u)' <=> Downloads(u) /\ u # t
            /\ Running(u)' <=> Running(u) /\ u # t
            /\ Starting(u)' <=> Starting(u)
            /\ u # t => task'[u] = task[u]
      /\ Clearing' <=> Clearing
      /\ Lingering' => Lingering
  BY <1>1, DownloadEnds DEF Finish
<1>3. lingered' \in BOOLEAN /\ (~lingered' => ~lingered)
  BY <1>1 DEF IInv, TypeOK
<1>4. CASE IsAwaited(t)
  <2>1. phase' = [phase EXCEPT !.at = "Ready"] /\ held' = None /\ staging' = staging
    BY <1>4 DEF Finish
  <2>2. /\ phase.at = "Downloading" /\ phase.v = task[t].v
        /\ phase'.at = "Ready" /\ phase'.v = phase.v
        /\ phase' \in [at : {"Idle", "Downloading", "Ready", "Applying"}, v : Versions,
                       under : Found, stray : BOOLEAN]
    BY <1>4, <2>1 DEF IsAwaited, IInv, TypeOK
  <2>3. ~lingered' => /\ Running(t) /\ ~Clearing /\ ~Lingering
                      /\ Staged(task[t].v) /\ ~staging.spared
    BY <1>1, <2>2 DEF IInv, Fetched, Running
  <2>4. TypeOK' /\ Offers'
    BY <1>1, <1>2, <1>3, <2>1, <2>2 DEF IInv, TypeOK, Shaped, Slots, Offers, OfferOfItsChannel
  <2>5. ~lingered' => \A u \in Tasks : ~Running(u)' /\ ~Starting(u)'
    BY <1>2, <1>3, <2>2, <2>3, WhoWorks
  <2>6. Holds' /\ Works' /\ Fetched'
    BY <2>1, <2>2, <2>5 DEF Holds, Works, Fetched
  <2>7. Left'
    BY <1>2, <2>1 DEF IInv, Left
  <2>8. Lingers'
    BY <1>2, <2>3 DEF Lingers
  <2>9. Kept' /\ Named'
    BY <1>2, <2>1, <2>2, <2>3 DEF Kept, Named, Staged
  <2> QED
    BY <1>2, <2>4, <2>6, <2>7, <2>8, <2>9 DEF IInv
<1>5. CASE ~IsAwaited(t)
  <2>1. staging' \in Removed /\ UNCHANGED <<phase, held>>
    BY <1>5 DEF Finish
  <2>2. /\ staging' \in Folders
        /\ staging'.by = 0 \/ staging'.spared
        /\ staging'.whole => staging'.spared
        /\ staging = NoStaging \/ staging.by # 0 => staging' = NoStaging \/ staging'.by # 0
    BY <2>1, Removing DEF IInv
  <2>3. ~lingered' => phase.at = "Idle"
    BY <1>1, <1>3, <1>5, WhoWorks DEF IsAwaited, Running
  <2>4. held # t
    BY <1>5, OfferAssumption DEF IInv, Holds, IsAwaited
  <2>5. TypeOK' /\ Offers'
    BY <1>1, <1>2, <1>3, <2>1, <2>2
       DEF IInv, TypeOK, Folders, Shaped, Slots, Offers, OfferOfItsChannel
  <2>6. Holds'
    BY <1>2, <2>1, <2>4 DEF IInv, Holds, TypeOK
  <2>7. ~lingered' => \A u \in Tasks : ~Running(u)' /\ ~Starting(u)'
    BY <1>2, <1>3, <2>3, WhoWorks
  <2>8. Works' /\ Fetched' /\ Kept'
    BY <2>1, <2>3, <2>7 DEF Works, Fetched, Kept
  <2>9. Left'
    <3>1. \A u \in Tasks : u # 0
      BY OfferAssumption
    <3> QED
      BY <1>2, <2>2, <3>1 DEF IInv, Left
  <2>10. Lingers' /\ Named'
    BY <2>2 DEF Lingers, Named
  <2> QED
    BY <1>2, <2>5, <2>6, <2>8, <2>9, <2>10 DEF IInv
<1> QED
  BY <1>4, <1>5

(* A download has failed, and takes the phase with it. *)
LEMMA GiveUpStep == ASSUME IInv, NEW t \in Tasks, GiveUp(t) PROVE IInv'
<1>1. /\ UNCHANGED <<left, setting, skip, info, channel, cleanups, gone>>
      /\ Downloads(t) /\ task[t].at = "failed"
      /\ lingered' = (lingered \/ (task[t].stopped /\ phase.at # "Idle"))
      /\ phase' = Idle /\ held' = None
  BY DEF GiveUp, db, At, Downloads, ResetToIdle
<1>2. /\ Shaped' /\ Kinds'
      /\ \A u \in Tasks :
            /\ Downloads(u)' <=> Downloads(u) /\ u # t
            /\ Running(u)' <=> Running(u) /\ u # t
            /\ Starting(u)' <=> Starting(u)
            /\ u # t => task'[u] = task[u]
      /\ Clearing' <=> Clearing
      /\ Lingering' => Lingering
  BY <1>1, DownloadEnds DEF GiveUp
<1>3. lingered' \in BOOLEAN /\ (~lingered' => ~lingered)
  BY <1>1 DEF IInv, TypeOK
<1>4. task[t].stopped => staging' = staging
  BY DEF GiveUp, FailsClean
<1>5. /\ staging' \in Folders
      /\ ~task[t].stopped => /\ staging'.by = 0 \/ staging'.spared
                             /\ staging'.whole => staging'.spared
      /\ staging = NoStaging \/ staging.by # 0 => staging' = NoStaging \/ staging'.by # 0
  <2>1. staging' \in Removed \/ (task[t].stopped /\ staging' = staging)
    BY DEF GiveUp, FailsClean
  <2>2. staging \in Folders
    BY DEF IInv, TypeOK, Folders
  <2> QED
    BY <2>1, <2>2, Removing DEF IInv
<1>6. TypeOK' /\ Offers'
  BY <1>1, <1>2, <1>3, <1>5, IdleFits
     DEF IInv, TypeOK, Folders, Shaped, Slots, Offers, OfferOfItsChannel
<1>7. ~lingered' => \A u \in Tasks : ~Running(u)' /\ ~Starting(u)'
  BY <1>1, <1>2, <1>3, WhoWorks DEF Running
<1>8. Holds' /\ Works' /\ Fetched' /\ Kept'
  BY <1>1, <1>7, IdleFits DEF Holds, Works, Fetched, Kept
<1>9. Left'
  <2>1. \A u \in Tasks : u # 0
    BY OfferAssumption
  <2> QED
    BY <1>2, <1>4, <1>5, <2>1 DEF IInv, Left
<1>10. Lingers' /\ Named'
  <2>1. CASE ~task[t].stopped
    BY <1>4, <1>5, <2>1 DEF Lingers, Named
  <2>2. CASE task[t].stopped
    <3>1. ~lingered' => phase.at = "Idle" /\ \A u \in Tasks : ~Running(u)
      BY <1>1, <1>3, <2>2, WhoWorks
    <3> QED
      BY <1>2, <1>3, <1>4, <2>2, <3>1 DEF IInv, Lingers, Named
  <2> QED
    BY <2>1, <2>2
<1> QED
  BY <1>2, <1>6, <1>8, <1>9, <1>10 DEF IInv

(* A stopped download is dropped. *)
LEMMA AbortedStep == ASSUME IInv, NEW t \in Tasks, Aborted(t) PROVE IInv'
<1>1. /\ UNCHANGED <<left, setting, skip, phase, info, channel, held, staging, cleanups>>
      /\ UNCHANGED <<lingered, gone>>
      /\ Downloads(t) /\ task[t].stopped
  BY DEF Aborted, db, state, disk, IInv, Kinds
<1>2. /\ Shaped' /\ Kinds'
      /\ \A u \in Tasks :
            /\ Downloads(u)' <=> Downloads(u) /\ u # t
            /\ Running(u)' <=> Running(u)
            /\ Starting(u)' <=> Starting(u)
            /\ u # t => task'[u] = task[u]
      /\ Clearing' <=> Clearing
      /\ Lingering' => Lingering
  BY <1>1, DownloadEnds DEF Aborted, Running
<1>3. \A u \in Tasks : Running(u) \/ Starting(u) => u # t
  BY <1>1 DEF Running, Starting, Downloads
<1>4. TypeOK' /\ Offers'
  BY <1>1, <1>2 DEF IInv, TypeOK, Shaped, Slots, Offers, OfferOfItsChannel
<1>5. Holds'
  BY <1>1, <1>2, <1>3 DEF IInv, Holds, TypeOK
<1>6. Works'
  BY <1>1, <1>2, <1>3 DEF IInv, Works
<1>7. Fetched'
  BY <1>1, <1>2, <1>3 DEF IInv, Fetched, Staged
<1>8. Left'
  BY <1>1, <1>2 DEF IInv, Left
<1>9. Lingers' /\ Kept' /\ Named'
  BY <1>1, <1>2, <1>3 DEF IInv, Lingers, Kept, Named, Staged
<1> QED
  BY <1>2, <1>4, <1>5, <1>6, <1>7, <1>8, <1>9 DEF IInv

(* A download is cancelled. *)
LEMMA CancelStep == ASSUME IInv, Cancel PROVE IInv'
<1>1. /\ UNCHANGED <<setting, skip, info, channel, cleanups, lingered, gone>>
      /\ left' \in [Requests -> Nat]
      /\ phase.at = "Downloading" /\ task' = StopHeld(task)
      /\ phase' = Idle /\ held' = None /\ staging' \in Removed
  BY Asking DEF Cancel, db, Requests, IInv, ResetToIdle
<1>2. /\ Shaped'
      /\ \A u \in Tasks :
            /\ task'[u].does = task[u].does /\ task'[u].at = task[u].at /\ task'[u].v = task[u].v
            /\ task'[u].under = task[u].under /\ task'[u].skip = task[u].skip
            /\ u # held => task'[u] = task[u]
      /\ held \in Tasks /\ task'[held].stopped = TRUE
  BY <1>1, Stopping DEF IInv, Shaped, Holds
<1>3. /\ staging' \in Folders
      /\ staging'.by = 0 \/ staging'.spared
      /\ staging'.whole => staging'.spared
      /\ staging = NoStaging \/ staging.by # 0 => staging' = NoStaging \/ staging'.by # 0
  BY <1>1, Removing DEF IInv
<1>4. TypeOK' /\ Offers'
  BY <1>1, <1>2, <1>3, IdleFits
     DEF IInv, TypeOK, Folders, Shaped, Slots, Offers, OfferOfItsChannel
<1>5. Kinds'
  <2>1. task[held].does = "download"
    BY <1>1 DEF IInv, Holds, Running, Downloads
  <2> QED
    BY <1>2, <2>1 DEF IInv, Kinds, Downloads
<1>6. ~lingered => \A u \in Tasks : ~Running(u)' /\ ~Starting(u)'
  BY <1>1, <1>2, WhoWorks DEF Running, Downloads, Starting
<1>7. Holds' /\ Works' /\ Fetched' /\ Kept'
  BY <1>1, <1>6, IdleFits DEF Holds, Works, Fetched, Kept
<1>8. Left'
  <2>1. \A u \in Tasks : u # 0
    BY OfferAssumption
  <2>2. \A u \in Tasks : (Downloads(u)' <=> Downloads(u)) /\ task'[u].at = task[u].at
    BY <1>2 DEF Downloads
  <2> QED
    BY <1>3, <2>1, <2>2 DEF IInv, Left
<1>9. Lingers' /\ Named'
  BY <1>1, <1>3 DEF Lingers, Named
<1> QED
  BY <1>4, <1>5, <1>7, <1>8, <1>9 DEF IInv

-----------------------------------------------------------------------------
(* Applies. *)

(* An apply goes to another of its places. *)
LEMMA ApplyMoves ==
    ASSUME IInv, NEW t \in Tasks, task[t].does = "apply", NEW at \in Places["apply"], Goes(t, at)
    PROVE  /\ Shaped' /\ Others(t) /\ Kinds'
           /\ task'[t].does = "apply" /\ task'[t].at = at /\ task'[t].v = task[t].v
           /\ task'[t].skip = task[t].skip
<1>1. /\ Shaped' /\ Others(t) /\ task'[t].does = "apply" /\ task'[t].at = at
      /\ task'[t].v = task[t].v /\ task'[t].under = task[t].under /\ task'[t].skip = task[t].skip
      /\ task'[t].stopped = task[t].stopped
  BY Going DEF IInv
<1>2. Kinds'
  BY <1>1 DEF IInv, Kinds, Others, Downloads
<1> QED
  BY <1>1, <1>2

(* What an apply leaves alone of the others, when its task was one and is one or nothing. *)
LEMMA ApplyApart ==
    ASSUME IInv, NEW t \in Tasks, task[t].does = "apply", Shaped', Others(t),
           task'[t] = Blank \/ task'[t].does = "apply", Kinds'
    PROVE  /\ \A u \in Tasks :
                 /\ Downloads(u)' <=> Downloads(u)
                 /\ Running(u)' <=> Running(u)
                 /\ u # t => task'[u] = task[u] /\ (Starting(u)' <=> Starting(u))
                 /\ Downloads(u) => u # t
           /\ cleanups' = cleanups => (Clearing' <=> Clearing)
           /\ Lingering' <=> Lingering
<1>1. \A u \in Tasks : u # t => task'[u] = task[u]
  BY DEF Others
<1>2. task'[t].does # "download" /\ task'[t].does # "login" /\ ~task'[t].stopped
  BY BlankApart DEF Kinds, Downloads
<1>3. ~task[t].stopped
  BY DEF IInv, Kinds, Downloads
<1>4. \A u \in Tasks :
         /\ Downloads(u)' <=> Downloads(u)
         /\ Running(u)' <=> Running(u)
         /\ u # t => Starting(u)' <=> Starting(u)
         /\ Downloads(u) => u # t
  BY <1>1, <1>2 DEF Downloads, Running, Starting
<1>5. cleanups' = cleanups => (Clearing' <=> Clearing)
  BY <1>1, <1>2 DEF Clearing, At
<1>6. Lingering' <=> Lingering
  BY <1>1, <1>2, <1>3 DEF Lingering, Live
<1> QED
  BY <1>1, <1>4, <1>5, <1>6

(* An apply claims the phase, or is refused. *)
LEMMA ClaimApplyStep == ASSUME IInv, NEW t \in Tasks, ClaimApply(t) PROVE IInv'
<1>1. /\ UNCHANGED <<left, setting, skip, info, channel, held, staging, cleanups, lingered, gone>>
      /\ task[t].does = "apply" /\ task[t].at = "claiming"
  BY DEF ClaimApply, db, disk, At
<1>2. CASE ~MayClaim(task[t].v)
  <2>1. Ends(t) /\ UNCHANGED phase /\ Apart(task[t])
    BY <1>1, <1>2 DEF ClaimApply, Apart, IInv, Kinds, Downloads
  <2>2. Shaped' /\ Kinds' /\ Work'
    BY <1>1, <2>1, Withdrawing
  <2> QED
    BY <1>1, <2>1, <2>2 DEF IInv, TypeOK, Shaped, Slots, Offers, OfferOfItsChannel, Work
<1>3. CASE MayClaim(task[t].v)
  <2>1. Goes(t, "launching") /\ phase' = [phase EXCEPT !.at = "Applying"]
    BY <1>3 DEF ClaimApply
  <2>2. /\ phase.at = "Ready" /\ phase.v = task[t].v
        /\ phase'.at = "Applying" /\ phase'.v = phase.v /\ phase'.stray = phase.stray
        /\ phase' \in [at : {"Idle", "Downloading", "Ready", "Applying"}, v : Versions,
                       under : Found, stray : BOOLEAN]
    BY <1>3, <2>1 DEF MayClaim, IInv, TypeOK
  <2>3. /\ Shaped' /\ Others(t) /\ Kinds'
        /\ task'[t].does = "apply" /\ task'[t].at = "launching" /\ task'[t].v = task[t].v
    BY <1>1, <2>1, ApplyMoves, Kind
  <2>4. /\ \A u \in Tasks :
              /\ Downloads(u)' <=> Downloads(u)
              /\ Running(u)' <=> Running(u)
              /\ u # t => task'[u] = task[u] /\ (Starting(u)' <=> Starting(u))
              /\ Downloads(u) => u # t
        /\ Clearing' <=> Clearing
        /\ Lingering' <=> Lingering
    BY <1>1, <2>3, ApplyApart
  <2>5. TypeOK' /\ Offers'
    BY <1>1, <2>2, <2>3 DEF IInv, TypeOK, Shaped, Slots, Offers, OfferOfItsChannel
  <2>6. /\ held = None
        /\ ~lingered => \A u \in Tasks : ~Running(u) /\ ~Starting(u)
    BY <2>2, WhoWorks DEF IInv, Holds
  <2>7. Holds' /\ Fetched'
    BY <1>1, <2>2, <2>4, <2>6 DEF Holds, Fetched
  <2>8. Works'
    <3>1. Starting(t)'
      BY <2>3 DEF Starting
    <3> QED
      BY <1>1, <2>2, <2>3, <2>4, <2>6, <3>1 DEF Works
  <2>9. Left' /\ Lingers'
    BY <1>1, <2>2, <2>4 DEF IInv, Left, Lingers
  <2>10. Kept' /\ Named'
    BY <1>1, <2>2, <2>4, <2>6 DEF IInv, Kept, Named, Staged
  <2> QED
    BY <2>3, <2>5, <2>7, <2>8, <2>9, <2>10 DEF IInv
<1> QED
  BY <1>2, <1>3

(* An apply that has its claim goes on, with the folder as it was or to be deleted. *)
LEMMA Launching ==
    ASSUME IInv, NEW t \in Tasks, Starting(t), Shaped', Others(t), Kinds', Starting(t)',
           task'[t].v = task[t].v,
           UNCHANGED <<left, db, state, cleanups, lingered, gone>>,
           \/ staging' = staging
           \/ staging' \in Removed /\ ~Staged(task[t].v)
    PROVE  IInv'
<1>1. UNCHANGED <<left, setting, skip, phase, info, channel, held, cleanups, lingered, gone>>
  BY DEF db, state
<1>2. /\ \A u \in Tasks :
            /\ Downloads(u)' <=> Downloads(u)
            /\ Running(u)' <=> Running(u)
            /\ u # t => task'[u] = task[u] /\ (Starting(u)' <=> Starting(u))
            /\ Downloads(u) => u # t
      /\ Clearing' <=> Clearing
      /\ Lingering' <=> Lingering
  BY <1>1, ApplyApart DEF Starting
<1>3. /\ staging' \in Folders
      /\ \/ staging' = staging
         \/ /\ ~Staged(task[t].v)
            /\ staging'.by = 0 \/ staging'.spared
            /\ staging'.whole => staging'.spared
            /\ staging = NoStaging \/ staging.by # 0 => staging' = NoStaging \/ staging'.by # 0
  <2>1. staging \in Folders
    BY DEF IInv, TypeOK, Folders
  <2> QED
    BY <2>1, Removing DEF IInv
<1>4. TypeOK' /\ Offers'
  BY <1>1, <1>3 DEF IInv, TypeOK, Folders, Shaped, Slots, Offers, OfferOfItsChannel
<1>5. Holds'
  BY <1>1, <1>2 DEF IInv, TypeOK, Holds, Running
<1>6. Works'
  BY <1>1, <1>2 DEF IInv, Works
<1>7. ~lingered => phase.at = "Applying" /\ phase.v = task[t].v /\ \A u \in Tasks : ~Running(u)
  BY WhoWorks DEF IInv, Works
<1>8. Fetched'
  BY <1>1, <1>2, <1>7 DEF Fetched
<1>9. Left'
  <2>1. \A u \in Tasks : u # 0
    BY OfferAssumption
  <2> QED
    BY <1>2, <1>3, <2>1 DEF IInv, Left
<1>10. Lingers' /\ Named'
  BY <1>1, <1>2, <1>3, <1>7 DEF IInv, Lingers, Named
<1>11. Kept'
  BY <1>1, <1>2, <1>3, <1>7 DEF IInv, Kept, Staged
<1> QED
  BY <1>4, <1>5, <1>6, <1>8, <1>9, <1>10, <1>11 DEF IInv

(* An apply finds what it installs from, or has it deleted. *)
LEMMA ReadStagedStep == ASSUME IInv, NEW t \in Tasks, ReadStaged(t) PROVE IInv'
<1>1. /\ UNCHANGED <<left, db, state, cleanups, lingered, gone>>
      /\ task[t].does = "apply" /\ Starting(t)
  BY DEF ReadStaged, At, Starting
<1>2. CASE Staged(task[t].v)
  <2> DEFINE r == [task[t] EXCEPT !.at = "spawning", !.skip = task[t].v]
  <2>1. /\ r \in Slots /\ r.does = "apply" /\ r.at = "spawning" /\ r.v = task[t].v
        /\ r.skip = task[t].v /\ r.stopped = task[t].stopped /\ r.under = task[t].under
    <3>1. task[t] \in Slots /\ task[t].v \in Versions /\ "spawning" \in Ats
      BY Kind DEF IInv, TypeOK, Slots
    <3> QED
      BY <1>1, <3>1 DEF Slots
  <2>2. task' = [task EXCEPT ![t] = r] /\ staging' = staging
    BY <1>2 DEF ReadStaged
  <2> HIDE DEF r
  <2>3. Shaped' /\ Others(t) /\ task'[t] = r
    BY <2>1, <2>2, Kind DEF IInv, TypeOK, Shaped, Slots, Others
  <2>4. Kinds'
    BY <1>1, <2>1, <2>3 DEF IInv, Kinds, Others, Downloads
  <2>5. Starting(t)'
    BY <2>1, <2>3 DEF Starting
  <2> QED
    BY <1>1, <2>1, <2>2, <2>3, <2>4, <2>5, Launching
<1>3. CASE ~Staged(task[t].v)
  <2>1. Goes(t, "spawning") /\ staging' \in Removed
    BY <1>3 DEF ReadStaged
  <2>2. /\ Shaped' /\ Others(t) /\ Kinds'
        /\ task'[t].does = "apply" /\ task'[t].at = "spawning" /\ task'[t].v = task[t].v
    BY <1>1, <2>1, ApplyMoves, Kind
  <2>3. Starting(t)'
    BY <2>2 DEF Starting
  <2> QED
    BY <1>1, <1>3, <2>1, <2>2, <2>3, Launching
<1> QED
  BY <1>2, <1>3

(* The child starts, or not. *)
LEMMA SpawnStep == ASSUME IInv, NEW t \in Tasks, Spawn(t) PROVE IInv'
<1>1. PICK outcome \in {"up", "refused"} : Goes(t, outcome)
  BY DEF Spawn
<1>2. /\ UNCHANGED <<left, db, state, cleanups, lingered, gone>> /\ staging' = staging
      /\ task[t].does = "apply" /\ Starting(t)
  BY DEF Spawn, At, Starting, disk
<1>3. /\ Shaped' /\ Others(t) /\ Kinds'
      /\ task'[t].does = "apply" /\ task'[t].at = outcome /\ task'[t].v = task[t].v
  BY <1>1, <1>2, ApplyMoves, Kind
<1>4. Starting(t)'
  BY <1>3 DEF Starting
<1> QED
  BY <1>2, <1>3, <1>4, Launching

(* A claim no child was started for is given back. *)
LEMMA ReleaseApplyStep == ASSUME IInv, NEW t \in Tasks, ReleaseApply(t) PROVE IInv'
<1>1. /\ UNCHANGED <<left, setting, skip, info, channel, staging, lingered, gone>>
      /\ task[t].does = "apply" /\ Starting(t) /\ Ends(t)
  BY DEF ReleaseApply, At, Starting, db
<1>2. Shaped' /\ Others(t) /\ task'[t] = Blank
  BY <1>1, Ending DEF IInv
<1>3. Kinds'
  BY <1>2, BlankApart DEF IInv, Kinds, Others, Downloads
<1>4. /\ \A u \in Tasks :
            /\ Downloads(u)' <=> Downloads(u)
            /\ Running(u)' <=> Running(u)
            /\ u # t => task'[u] = task[u] /\ (Starting(u)' <=> Starting(u))
            /\ Downloads(u) => u # t
      /\ cleanups' = cleanups => (Clearing' <=> Clearing)
      /\ Lingering' <=> Lingering
  BY <1>1, <1>2, <1>3, ApplyApart
<1>5. ~Starting(t)'
  BY <1>2, BlankApart DEF Starting
<1>6. ~lingered => /\ Claims(t)
                   /\ \A u \in Tasks : ~Running(u) /\ ~Running(u)' /\ ~Starting(u)'
  BY <1>1, <1>4, <1>5, WhoWorks DEF IInv, Works, Claims
<1>7. \/ ~Claims(t) /\ UNCHANGED <<phase, held, cleanups>>
      \/ Claims(t) /\ phase' = Idle /\ held' = None /\ cleanups' = cleanups + 1
      \/ Claims(t) /\ phase' = [phase EXCEPT !.at = "Ready"] /\ UNCHANGED <<held, cleanups>>
  BY DEF ReleaseApply, GivesBack, ResetToIdle, Owed
<1>8. CASE ~Claims(t) /\ UNCHANGED <<phase, held, cleanups>>
  <2>1. lingered /\ lingered'
    BY <1>1, <1>6, <1>8
  <2>2. Works' /\ Fetched' /\ Lingers' /\ Kept' /\ Named'
    BY <2>1 DEF Works, Fetched, Lingers, Kept, Named
  <2>3. TypeOK' /\ Offers'
    BY <1>1, <1>2, <1>8 DEF IInv, TypeOK, Shaped, Slots, Offers, OfferOfItsChannel
  <2>4. Holds' /\ Left'
    BY <1>1, <1>4, <1>8 DEF IInv, TypeOK, Holds, Left, Running
  <2> QED
    BY <1>3, <2>2, <2>3, <2>4 DEF IInv
<1>9. CASE phase' = Idle /\ held' = None /\ cleanups' = cleanups + 1
  <2>1. Clearing'
    BY <1>9 DEF Clearing, IInv, TypeOK
  <2>2. TypeOK' /\ Offers'
    BY <1>1, <1>2, <1>9, IdleFits DEF IInv, TypeOK, Shaped, Slots, Offers, OfferOfItsChannel
  <2>3. Holds' /\ Works' /\ Fetched'
    BY <1>1, <1>6, <1>9, IdleFits DEF Holds, Works, Fetched
  <2>4. Left'
    BY <1>1, <1>4, <2>1 DEF IInv, Left
  <2>5. Lingers' /\ Kept' /\ Named'
    BY <1>9, <2>1, IdleFits DEF Lingers, Kept, Named
  <2> QED
    BY <1>3, <2>2, <2>3, <2>4, <2>5 DEF IInv
<1>10. CASE Claims(t) /\ phase' = [phase EXCEPT !.at = "Ready"] /\ UNCHANGED <<held, cleanups>>
  <2>1. /\ phase.at = "Applying" /\ phase'.at = "Ready" /\ phase'.v = phase.v
        /\ phase'.stray = phase.stray
        /\ phase' \in [at : {"Idle", "Downloading", "Ready", "Applying"}, v : Versions,
                       under : Found, stray : BOOLEAN]
    BY <1>10 DEF Claims, IInv, TypeOK
  <2>2. TypeOK' /\ Offers'
    BY <1>1, <1>2, <1>10, <2>1 DEF IInv, TypeOK, Shaped, Slots, Offers, OfferOfItsChannel
  <2>3. held = None
    BY <2>1 DEF IInv, Holds
  <2>4. Holds' /\ Works' /\ Fetched'
    BY <1>1, <1>6, <1>10, <2>1, <2>3 DEF Holds, Works, Fetched
  <2>5. Left' /\ Lingers'
    BY <1>1, <1>4, <1>10, <2>1 DEF IInv, Left, Lingers
  <2>6. Kept' /\ Named'
    BY <1>1, <1>4, <1>6, <1>10, <2>1 DEF IInv, Kept, Named, Staged
  <2> QED
    BY <1>3, <2>2, <2>4, <2>5, <2>6 DEF IInv
<1> QED
  BY <1>7, <1>8, <1>9, <1>10

(* The application ends and is started again. *)
LEMMA KillStep == ASSUME IInv, Kill PROVE IInv'
<1>1. /\ UNCHANGED <<setting, skip, gone>> /\ left' \in [Requests -> Nat]
      /\ phase' = Idle /\ info' = None /\ channel' = None /\ held' = None
      /\ cleanups' = 0 /\ lingered' = FALSE
  BY Asking DEF Kill, db, Requests, IInv
<1>2. task' = [t \in Tasks |-> Blank]
  BY DEF Kill
<1>3. \A t \in Tasks : task'[t] = Blank
  BY <1>2
<1>4. Shaped'
  BY <1>2, <1>3, BlankFits DEF Shaped
<1>5. \A t \in Tasks : ~Downloads(t)' /\ ~Starting(t)' /\ ~task'[t].stopped
  BY <1>3, BlankApart DEF Downloads, Starting
<1>6. /\ staging'.by = 0
      /\ staging' \in Folders
  BY DEF Kill, IInv, TypeOK, Folders, Found
<1>7. TypeOK' /\ Offers'
  BY <1>1, <1>4, <1>6, IdleFits DEF IInv, TypeOK, Folders, Shaped, Slots, Offers, OfferOfItsChannel, Found
<1>8. Kinds'
  BY <1>3, BlankApart DEF Kinds
<1>9. Holds' /\ Works' /\ Fetched' /\ Kept'
  BY <1>1, <1>5, IdleFits DEF Holds, Works, Fetched, Kept, Running
<1>10. Left' /\ Lingers' /\ Named'
  BY <1>5, <1>6 DEF Left, Lingers, Lingering, Named
<1> QED
  BY <1>7, <1>8, <1>9, <1>10 DEF IInv

(* The invariant speaks of nothing else. *)
LEMMA QuietStep ==
    ASSUME IInv, gone' \in BOOLEAN, UNCHANGED <<left, db, state, task, disk, lingered>>
    PROVE  IInv'
<1>1. /\ UNCHANGED <<left, setting, skip, phase, info, channel, held, task, staging>>
      /\ UNCHANGED <<cleanups, lingered>>
  BY DEF db, state, disk
<1>2. TypeOK' /\ Kinds' /\ Offers'
  BY <1>1 DEF IInv, TypeOK, Kinds, Downloads, Offers, OfferOfItsChannel
<1>3. /\ Clearing' <=> Clearing
      /\ Lingering' <=> Lingering
      /\ \A t \in Tasks :
            /\ Downloads(t)' <=> Downloads(t)
            /\ Running(t)' <=> Running(t)
            /\ Starting(t)' <=> Starting(t)
  BY <1>1 DEF Clearing, At, Lingering, Live, Downloads, Running, Starting
<1>4. Holds' /\ Works' /\ Fetched'
  BY <1>1, <1>3 DEF IInv, TypeOK, Holds, Works, Fetched, Staged
<1>5. Left' /\ Lingers' /\ Kept' /\ Named'
  BY <1>1, <1>3 DEF IInv, Left, Lingers, Kept, Named, Staged
<1> QED
  BY <1>2, <1>4, <1>5 DEF IInv

(* No step of the updater breaks the invariant. *)
LEMMA NextInv == IInv /\ [Next]_vars => IInv'
<1> SUFFICES ASSUME IInv, [Next]_vars PROVE IInv'
  OBVIOUS
<1>1. ASSUME NEW ch \in Channels, SetChannel(ch) PROVE IInv'
  BY <1>1, SetChannelStep
<1>2. ASSUME NEW v \in Releases, Dismiss(v) \/ Download(v) \/ Apply(v) PROVE IInv'
  BY <1>2, DismissStep, DownloadStep, ApplyStep
<1>3. CASE Check \/ Login \/ Cancel \/ Kill
  BY <1>3, CheckStep, LoginStep, CancelStep, KillStep
<1>4. CASE Cleanup
  BY <1>4, CleanupStep
<1>5. ASSUME NEW t \in Tasks, OfChange(t) PROVE IInv'
  BY <1>5, AbandonStep, DismissOfferStep DEF OfChange
<1>6. ASSUME NEW t \in Tasks, OfCheck(t) PROVE IInv'
  BY <1>6, ScanStep, TakeStagedStep, CleanDeclinedStep, AnswerStep DEF OfCheck
<1>7. ASSUME NEW t \in Tasks, OfDownload(t) PROVE IInv'
  BY <1>7, PrepareStep, FillStep, WriteManifestStep, FailStep, FinishStep, GiveUpStep, AbortedStep
     DEF OfDownload
<1>8. ASSUME NEW t \in Tasks, Quit(t) PROVE IInv'
  BY <1>8, QuietStep DEF Quit
<1>9. ASSUME NEW t \in Tasks, OfApply(t) PROVE IInv'
  BY <1>8, <1>9, ClaimApplyStep, ReadStagedStep, SpawnStep, ReleaseApplyStep DEF OfApply
<1>10. CASE UNCHANGED vars
  <2>1. UNCHANGED <<left, db, state, task, disk, lingered>> /\ gone' \in BOOLEAN
    BY <1>10 DEF vars, IInv, TypeOK
  <2> QED
    BY <2>1, QuietStep
<1> QED
  BY <1>1, <1>2, <1>3, <1>4, <1>5, <1>6, <1>7, <1>9, <1>10 DEF Next

(* In every state the application can reach, the invariant holds. *)
THEOREM Invariant == Spec => []IInv
<1>1. Init => IInv
  BY InitInv
<1>2. IInv /\ [Next]_vars => IInv'
  BY NextInv
<1> QED
  BY <1>1, <1>2, PTL DEF Spec

-----------------------------------------------------------------------------
(* The state of the updater, its tasks and its folder are always what they are declared to be: an *)
(* idle phase names nothing, and no task is at a place that is not of its kind. *)
THEOREM TypeCorrect == Spec => []TypeOK
<1>1. IInv => TypeOK
  BY DEF IInv
<1> QED
  BY <1>1, Invariant, PTL

(* What is on offer was found on the channel the state is on; the phase names the download that *)
(* runs, which a cancel, a dismissal or a switch can stop, and the one apply that has the claim: *)
(* however late a check answers and whatever was cancelled before (settle_check, release_apply). *)
THEOREM OfferCorrect == Spec => []OfferStands
<1>1. IInv => OfferOfItsChannel
  BY DEF IInv, Offers
<1>2. IInv => DownloadIsHeld
  <2> SUFFICES ASSUME IInv, ~lingered PROVE DownloadIsHeld
    BY DEF DownloadIsHeld
  <2>1. \A t \in Tasks : Running(t) => phase.at = "Downloading" /\ held = t /\ phase.v = task[t].v
    BY WhoWorks
  <2>2. phase.at = "Downloading" => held # None /\ held \in Tasks /\ Running(held)
    BY DEF IInv, Holds, TypeOK
  <2>3. \A t \in Tasks : Downloads(t) => Live(t)
    BY BlankApart DEF Downloads, Live
  <2> QED
    BY <2>1, <2>2, <2>3 DEF DownloadIsHeld, Running, Downloads
<1>3. IInv => OneClaim
  BY DEF IInv, Works, OneClaim
<1>4. IInv => OfferStands
  BY <1>1, <1>2, <1>3 DEF OfferStands, PhaseHasItsTask
<1> QED
  BY <1>4, Invariant, PTL

(* The phase and the folder agree, though any deletion may fail half-way: what is ready, or being *)
(* installed, is in the folder, whole and with no deletion under way, and what was declined leaves *)
(* nothing that a login would adopt, but the folder that would not go itself (cleanup_staging, *)
(* prepare_staging_dir, download_update). *)
THEOREM FolderCorrect == Spec => []PhaseIsTheFolder
<1>1. IInv => ReadyIsStaged
  BY DEF IInv, Kept, ReadyIsStaged
<1>2. IInv => ApplyKeepsStaging
  <2> SUFFICES ASSUME IInv, ~lingered, ~phase.stray, NEW t \in Tasks, task[t].does = "apply",
                      task[t].at \in {"spawning", "up"}, task[t].skip # None
               PROVE  Staged(task[t].skip)
    BY DEF ApplyKeepsStaging
  <2>1. Starting(t)
    BY DEF Starting
  <2>2. phase.at = "Applying" /\ phase.v = task[t].v
    BY <2>1 DEF IInv, Works
  <2>3. task[t].skip = task[t].v
    BY DEF IInv, Kinds
  <2> QED
    BY <2>2, <2>3 DEF IInv, Kept
<1>3. IInv => DeclinedLeavesNothing
  <2> SUFFICES ASSUME IInv, \A t \in Tasks : ~Live(t), cleanups = 0, ~lingered, staging.whole,
                      staging.by # 0, ~staging.spared
               PROVE  phase.at = "Ready" /\ phase.v = staging.v
    BY DEF DeclinedLeavesNothing
  <2>1. \A t \in Tasks : ~Running(t) /\ ~Starting(t) /\ ~At(t, "login", "declined")
    BY BlankApart DEF Live, Running, Downloads, Starting, At
  <2>2. ~Clearing
    BY <2>1 DEF Clearing
  <2>3. phase.at # "Applying"
    BY <2>1 DEF IInv, Works
  <2> QED
    BY <2>1, <2>2, <2>3 DEF IInv, Named
<1>4. IInv => PhaseIsTheFolder
  BY <1>1, <1>2, <1>3 DEF PhaseIsTheFolder
<1> QED
  BY <1>4, Invariant, PTL
=============================================================================
