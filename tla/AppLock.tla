------------------------------- MODULE AppLock -------------------------------
(***************************************************************************)
(* One instance per account on Windows (src/src/platform/app_lock.rs,      *)
(* windows_impl) and what becomes of a clicked link (ui/deep_link.rs): a   *)
(* launch takes the lock and serves a focus event and a link pipe, or      *)
(* reaches the holder through them, or outwaits a holder that is leaving   *)
(* and takes over.  The holder's main thread, its pipe listener and the    *)
(* launches run at once, and share named kernel objects only.              *)
(*                                                                         *)
(* A link is the number of the launch that carries it.  No clock: a wait   *)
(* runs out only where nothing it waits for can still happen in time.      *)
(***************************************************************************)
EXTENDS Integers, Sequences, FiniteSets

CONSTANTS Starts,       \* launches, numbered in the order the user makes them
          Clicks,       \* the sets of launches that may carry a link
          Quitting,     \* the launches that may quit again
          Failing,      \* the launches that may fail to make a thread, an event or a pipe
          Histories     \* the sets of incidents a history may meet

Old   == 0             \* an earlier build, which knows the legacy names only
None  == -1
Procs == Starts \cup {Old}
Waker == -2            \* the closer's own client end

(* A holder that dies; a listener, an event or a pipe that cannot be made;  *)
(* a budget of five seconds spent; an earlier build running.                *)
Incidents == {"crash", "thread", "late", "earlier"}

ASSUME AppLockAssumption ==
    /\ Starts \subseteq Nat \ {0} /\ IsFiniteSet(Starts)
    /\ Clicks \subseteq SUBSET Starts /\ Failing \cup Quitting \subseteq Starts
    /\ Histories \subseteq SUBSET Incidents

VARIABLES
    incidents,  \* rigid
    carries,    \* rigid: the launches with a link
    at,         \* process -> its main thread's step
    lock,       \* the mutex in the private namespace: its owner, or None
    legacy,     \* the mutex earlier builds take
    event,      \* the processes that hold the focus event open: its name lives with them
    patience,   \* launch -> alive_since: "none", "since", or "over" after the grace
    pipe,       \* process -> its instances of the link pipe, the one it serves first
    listener,   \* process -> its pipe listener's step
    closing,    \* the processes whose closing flag is set
    pending,    \* process -> the link in its PENDING slot, or None
    fate,       \* launch -> what became of its link
    unread,     \* the processes that said a link may be left unread
    watched,    \* history: launch -> the holder its alive_since was set for
    gaps        \* history: "pipe", one left before its holder's focus event; "grace", one
                \* begun on a holder ran out on the next

links == <<pending, fate>>
past  == <<watched, gaps>>
vars  == <<incidents, carries, at, lock, legacy, event, patience, pipe, listener, closing, links, unread, past>>

May(what) == what \in incidents
Fails(p)  == May("thread") /\ p \in Failing
Free      == [by |-> None, msg |-> "open"]

(* The instances of the pipe a client holds, as process and place; those a  *)
(* client may take are nobody's.                                            *)
Taken(c) == {i \in Procs \X {1, 2} : i[2] =< Len(pipe[i[1]]) /\ pipe[i[1]][i[2]].by = c}
Open     == Taken(None)
Named   == \E h \in Procs : pipe[h] # <<>>

(* The client end c holds gets what c wrote, or is closed. *)
Put(c, msg) == [h \in Procs |-> [i \in DOMAIN pipe[h] |->
                   IF pipe[h][i].by = c THEN [pipe[h][i] EXCEPT !.msg = msg] ELSE pipe[h][i]]]

Serving == {"boot", "up"}
Closer  == {"stop", "wake", "join", "teardown"}
Alive   == Serving \cup Closer \cup {"leaving", "released"}
Started == {p \in Procs : at[p] \notin {"new", "gone"}}

Step(p, s) == at' = [at EXCEPT ![p] = s]

-----------------------------------------------------------------------------
(* A launch: the lock, or the pipe of whoever has it *)

Start(l) ==
    /\ at[l] = "new" /\ \A q \in Starts : q < l => at[q] # "new"
    /\ IF lock = None THEN lock' = l /\ Step(l, "legacy")
                      ELSE Step(l, "ask") /\ UNCHANGED lock
    /\ UNCHANGED <<incidents, carries, legacy, event, patience, pipe, listener, closing, links, unread, past>>

(* Whom a launch at "defer" hands over to has the legacy lock; it holds the *)
(* other, and cannot wait for it.                                           *)
Asking(l) == at[l] \in {"ask", "defer"}

Connect(l) ==
    /\ Asking(l)
    /\ \E i \in Open :
          pipe' = [pipe EXCEPT ![i[1]][i[2]] = [by |-> l, msg |-> "open"]]
    /\ Step(l, IF at[l] = "ask" THEN "pipe" ELSE "deferPipe")
    /\ UNCHANGED <<incidents, carries, lock, legacy, event, patience, listener, closing, links, unread, past>>

(* Busy: the wait ends on an instance or on the lock; absent: on the lock   *)
(* alone, and the focus event tells a live holder from a leaving one.       *)
FindNone(l) ==
    /\ at[l] = "ask" /\ Open = {}
    /\ Step(l, IF Named THEN "busy" ELSE "absent")
    /\ UNCHANGED <<incidents, carries, lock, legacy, event, patience, pipe, listener, closing, links, unread, past>>

TakeOver(l) ==
    /\ at[l] \in {"busy", "absent"}
    /\ lock = None /\ lock' = l
    /\ Step(l, "legacy")
    /\ UNCHANGED <<incidents, carries, legacy, event, patience, pipe, listener, closing, links, unread, past>>

LookAgain(l) ==
    /\ at[l] \in {"busy", "absent"} /\ lock # None
    /\ ~(at[l] = "absent" /\ event # {} /\ patience[l] = "over")
    /\ IF at[l] = "absent" /\ event # {} /\ patience[l] = "none"
       THEN patience' = [patience EXCEPT ![l] = "since"] /\ watched' = [watched EXCEPT ![l] = lock]
       ELSE UNCHANGED <<patience, watched>>
    /\ Step(l, "ask")
    /\ UNCHANGED <<incidents, carries, lock, legacy, event, pipe, listener, closing, links, unread, gaps>>

(* The grace is longer than a look, a start, and the end of the listeners   *)
(* of focus: what a launch finds after it, it found past those.             *)
GraceElapses(l) ==
    /\ at[l] = "ask" /\ patience[l] = "since" /\ Open = {}
    /\ lock # None /\ at[lock] \notin {"legacy", "events", "channel", "stop"}
    /\ patience' = [patience EXCEPT ![l] = "over"]
    /\ UNCHANGED <<incidents, carries, at, lock, legacy, event, pipe, listener, closing, links, unread, past>>

(* Nobody answers: for the grace, with a holder that still serves focus.    *)
NoListener(l) ==
    /\ at[l] = "absent" /\ lock # None
    /\ event # {} /\ patience[l] = "over"
    /\ Step(l, "focus")
    /\ gaps' = IF watched[l] = lock THEN gaps ELSE gaps \cup {"grace"}
    /\ UNCHANGED <<incidents, carries, lock, legacy, event, patience, pipe, listener, closing, links, unread, watched>>

(* A live holder with neither pipe nor event is looked for for the budget.  *)
Unanswered(l) == at[l] = "absent" /\ event = {} /\ ~Named /\ lock # None /\ at[lock] \in Serving

BudgetSpent(l) ==
    /\ \/ May("late") /\ at[l] \in {"busy", "absent"} /\ Step(l, "focus")
       \/ Unanswered(l) /\ Step(l, "focus")
       \/ at[l] = "defer" /\ Open = {} /\ (May("late") \/ ~Named) /\ Step(l, "deferFocus")
    /\ UNCHANGED <<incidents, carries, lock, legacy, event, patience, pipe, listener, closing, links, unread, past>>

(* The client end is written whole and closed, or closed unwritten. *)
WriteLink(l) ==
    /\ at[l] \in {"pipe", "deferPipe"}
    /\ LET lands == l \in carries /\ Taken(l) # {}
           end   == IF at[l] = "pipe" THEN "gone" ELSE "dropLock"
           ask   == IF at[l] = "pipe" THEN "focus" ELSE "deferFocus"
       IN  /\ pipe' = Put(l, IF lands THEN "link" ELSE "closed")
           /\ fate' = IF lands THEN [fate EXCEPT ![l] = "landed"] ELSE fate
           /\ Step(l, IF lands THEN end ELSE ask)
    /\ UNCHANGED <<incidents, carries, lock, legacy, event, patience, listener, closing, pending, unread, past>>

(* ask_focus and report_lost: a link that did not land is said.             *)
AskFocus(l) ==
    /\ at[l] \in {"focus", "deferFocus"}
    /\ fate' = IF l \in carries THEN [fate EXCEPT ![l] = "reported"] ELSE fate
    /\ Step(l, IF at[l] = "focus" THEN "gone" ELSE "dropLock")
    /\ UNCHANGED <<incidents, carries, lock, legacy, event, patience, pipe, listener, closing, pending, unread, past>>

-----------------------------------------------------------------------------
(* first_instance: the lock is this launch's *)

(* Faulty: the legacy name is not probed. *)
LegacyUnprobed(l) == /\ Step(l, "events")
                     /\ legacy' = IF legacy = None THEN l ELSE legacy

LegacyLock(l) == IF legacy = None THEN legacy' = l /\ Step(l, "events")
                                  ELSE Step(l, "defer") /\ UNCHANGED legacy

ProbeLegacy(l) ==
    /\ at[l] = "legacy"
    /\ LegacyLock(l)
    /\ UNCHANGED <<incidents, carries, lock, event, patience, pipe, listener, closing, links, unread, past>>

(* A launch that deferred to an earlier build gives its own lock back. *)
DropLock(l) ==
    /\ at[l] = "dropLock"
    /\ lock' = None
    /\ Step(l, "gone")
    /\ UNCHANGED <<incidents, carries, legacy, event, patience, pipe, listener, closing, links, unread, past>>

(* An event no thread serves is kept for its name. *)
CreateFocus(l) ==
    /\ at[l] = "events"
    /\ event' \in IF Fails(l) THEN {event, event \cup {l}} ELSE {event \cup {l}}
    /\ Step(l, "channel")
    /\ UNCHANGED <<incidents, carries, lock, legacy, patience, pipe, listener, closing, links, unread, past>>

(* The address exists before the launch goes on, or not at all.             *)
CreatePipe(l) ==
    /\ at[l] = "channel"
    /\ \/ pipe' = [pipe EXCEPT ![l] = <<Free>>] /\ listener' = [listener EXCEPT ![l] = "wait"]
       \/ Fails(l) /\ UNCHANGED <<pipe, listener>>
    /\ Step(l, "boot")
    /\ UNCHANGED <<incidents, carries, lock, legacy, event, patience, closing, links, unread, past>>

-----------------------------------------------------------------------------
(* The link, in the holder *)

(* The slot keeps the link that comes last. *)
Deliver(h, l) ==
    /\ pending' = [pending EXCEPT ![h] = l]
    /\ fate' = [k \in Starts |-> IF k = l THEN "pending"
                                 ELSE IF k = pending[h] THEN "superseded" ELSE fate[k]]

OwnLink(h) ==
    /\ at[h] = "boot"
    /\ IF h \in carries THEN Deliver(h, h) ELSE UNCHANGED links
    /\ Step(h, "up")
    /\ UNCHANGED <<incidents, carries, lock, legacy, event, patience, pipe, listener, closing, unread, past>>

Show(h) ==
    /\ at[h] = "up" /\ pending[h] # None
    /\ fate' = [fate EXCEPT ![pending[h]] = "shown"]
    /\ pending' = [pending EXCEPT ![h] = None]
    /\ UNCHANGED <<incidents, carries, at, lock, legacy, event, patience, pipe, listener, closing, unread, past>>

(* The listener: a client on the first instance, the next instance before   *)
(* this one is served, unless the app closes.                               *)
Met(h) ==
    /\ listener[h] = "wait" /\ pipe[h][1].by # None
    /\ listener' = [listener EXCEPT ![h] = IF h \in closing THEN "serve" ELSE "make"]
    /\ UNCHANGED <<incidents, carries, at, lock, legacy, event, patience, pipe, closing, links, unread, past>>

(* Faulty: the next instance is made once this one is served; or one more   *)
(* than the next.                                                            *)
NoNext(h)  == UNCHANGED pipe
OneMore(h) == pipe' = [pipe EXCEPT ![h] = @ \o <<Free, Free>>]

NextInstance(h) == pipe' = [pipe EXCEPT ![h] = Append(@, Free)]

MakeNext(h) ==
    /\ listener[h] = "make"
    /\ NextInstance(h) \/ (Fails(h) /\ UNCHANGED pipe)
    /\ listener' = [listener EXCEPT ![h] = "serve"]
    /\ UNCHANGED <<incidents, carries, at, lock, legacy, event, patience, closing, links, unread, past>>

Serve(h) ==
    /\ listener[h] = "serve" /\ pipe[h][1].msg # "open"
    /\ IF pipe[h][1].msg = "link" THEN Deliver(h, pipe[h][1].by) ELSE UNCHANGED links
    /\ pipe' = [pipe EXCEPT ![h] = Tail(@)]
    /\ listener' = [listener EXCEPT ![h] = IF Len(pipe[h]) > 1 THEN "wait" ELSE "none"]
    /\ gaps' = IF Len(pipe[h]) = 1 /\ h \in closing \cap event THEN gaps \cup {"pipe"} ELSE gaps
    /\ UNCHANGED <<incidents, carries, at, lock, legacy, event, patience, closing, unread, watched>>

-----------------------------------------------------------------------------
(* The holder leaves *)

(* The user's quit, or a launch that is refused past the lock.              *)
Quit(h) ==
    /\ at[h] \in Serving /\ h \in Quitting
    /\ closing' = closing \cup {h}
    /\ fate' = IF at[h] = "boot" /\ h \in carries THEN [fate EXCEPT ![h] = "refused"] ELSE fate
    /\ Step(h, "stop")
    /\ UNCHANGED <<incidents, carries, lock, legacy, event, patience, pipe, listener, pending, unread, past>>

(* Faulty: the focus event stays until the process ends. *)
FocusStays(h) == UNCHANGED event

FocusGone(h) == event' = event \ {h}

(* A listener of focus that the stop event cannot reach keeps its event. *)
CloseFocus(h) ==
    /\ at[h] = "stop"
    /\ FocusGone(h) \/ (Fails(h) /\ UNCHANGED event)
    /\ Step(h, "wake")
    /\ UNCHANGED <<incidents, carries, lock, legacy, patience, pipe, listener, closing, links, unread, past>>

(* A client that writes nothing ends the listener's wait, if an instance is *)
(* free to take it.                                                          *)
Wake(h) ==
    /\ at[h] = "wake"
    /\ \/ \E i \in Open : pipe' = [pipe EXCEPT ![i[1]][i[2]] = [by |-> Waker, msg |-> "closed"]]
       \/ Open = {} /\ UNCHANGED pipe
    /\ Step(h, "join")
    /\ UNCHANGED <<incidents, carries, lock, legacy, event, patience, listener, closing, links, unread, past>>

(* Nothing the listener waits for is on its way. *)
Stuck(h) == \/ listener[h] = "wait" /\ pipe[h][1].by = None
            \/ listener[h] = "serve" /\ pipe[h][1].msg = "open"

JoinLink(h) ==
    /\ at[h] = "join"
    /\ \/ listener[h] = "none" /\ UNCHANGED unread
       \/ Stuck(h) /\ unread' = unread \cup {h}
    /\ Step(h, "teardown")
    /\ UNCHANGED <<incidents, carries, lock, legacy, event, patience, pipe, listener, closing, links, past>>

ReportUnshown(h) ==
    /\ fate' = IF pending[h] = None THEN fate ELSE [fate EXCEPT ![pending[h]] = "unshown"]
    /\ pending' = [pending EXCEPT ![h] = None]

Teardown(h) ==
    /\ at[h] = "teardown"
    /\ ReportUnshown(h)
    /\ Step(h, "leaving")
    /\ UNCHANGED <<incidents, carries, lock, legacy, event, patience, pipe, listener, closing, unread, past>>

(* The lock goes with AppLock, every other handle with the process. *)
Release(h) ==
    /\ at[h] = "leaving"
    /\ lock' = None /\ legacy' = IF legacy = h THEN None ELSE legacy
    /\ Step(h, "released")
    /\ UNCHANGED <<incidents, carries, event, patience, pipe, listener, closing, links, unread, past>>

Ends(h) ==
    /\ event' = event \ {h} /\ pipe' = [pipe EXCEPT ![h] = <<>>]
    /\ listener' = [listener EXCEPT ![h] = "none"] /\ closing' = closing \ {h}
    /\ pending' = [pending EXCEPT ![h] = None]
    /\ Step(h, "gone")

Unheard(h) == {l \in Starts : pending[h] = l \/ \E i \in DOMAIN pipe[h] :
                                 pipe[h][i].by = l /\ pipe[h][i].msg = "link"}

Exit(h) ==
    /\ at[h] = "released"
    /\ Ends(h)
    /\ fate' = [l \in Starts |-> IF l \in Unheard(h) THEN "lost" ELSE fate[l]]
    /\ UNCHANGED <<incidents, carries, lock, legacy, patience, unread, past>>

Crash(h) ==
    /\ May("crash") \/ h = Old
    /\ at[h] \in {"events", "channel"} \cup Serving \cup Closer
    /\ Ends(h)
    /\ fate' = [l \in Starts |-> IF l \in Unheard(h) \/ (l = h /\ fate[l] = "carried")
                                 THEN "crashed" ELSE fate[l]]
    /\ lock' = IF lock = h THEN None ELSE lock
    /\ legacy' = IF legacy = h THEN None ELSE legacy
    /\ UNCHANGED <<incidents, carries, patience, unread, past>>

-----------------------------------------------------------------------------
Init ==
    /\ incidents \in Histories
    /\ carries \in Clicks
    /\ lock = None
    /\ at = [p \in Procs |-> IF p # Old THEN "new" ELSE IF May("earlier") THEN "up" ELSE "gone"]
    /\ legacy = IF May("earlier") THEN Old ELSE None
    /\ pipe = [p \in Procs |-> IF p = Old /\ May("earlier") THEN <<Free>> ELSE <<>>]
    /\ listener = [p \in Procs |-> IF p = Old /\ May("earlier") THEN "wait" ELSE "none"]
    /\ event = {} /\ closing = {} /\ unread = {} /\ gaps = {}
    /\ watched = [l \in Starts |-> None]
    /\ patience = [l \in Starts |-> "none"]
    /\ pending = [p \in Procs |-> None]
    /\ fate = [l \in Starts |-> IF l \in carries THEN "carried" ELSE "none"]

LaunchStep(l) == \/ Connect(l) \/ FindNone(l) \/ TakeOver(l) \/ LookAgain(l) \/ NoListener(l)
                 \/ WriteLink(l) \/ AskFocus(l) \/ ProbeLegacy(l) \/ DropLock(l)
                 \/ CreateFocus(l) \/ CreatePipe(l) \/ OwnLink(l)
HolderStep(h) == \/ Show(h) \/ CloseFocus(h) \/ Wake(h) \/ JoinLink(h) \/ Teardown(h)
                 \/ Release(h) \/ Exit(h)
ListenStep(h) == Met(h) \/ MakeNext(h) \/ Serve(h)

Next ==
    \/ \E l \in Starts : Start(l) \/ LaunchStep(l) \/ GraceElapses(l) \/ BudgetSpent(l) \/ Quit(l)
    \/ \E h \in Procs : HolderStep(h) \/ ListenStep(h) \/ Crash(h)

(* Threads run, and the grace and the budget pass; nobody has to quit.      *)
Fairness ==
    /\ \A l \in Starts : WF_vars(LaunchStep(l)) /\ SF_vars(GraceElapses(l) \/ BudgetSpent(l))
    /\ WF_vars(\E h \in Procs : HolderStep(h) \/ ListenStep(h))

Spec == Init /\ [][Next]_vars /\ Fairness

-----------------------------------------------------------------------------
(* Properties *)

(* Every field holds what the code's can hold. *)
TypeOK ==
    /\ incidents \in Histories /\ carries \in Clicks
    /\ lock \in Starts \cup {None} /\ legacy \in Procs \cup {None}
    /\ event \subseteq Starts /\ closing \subseteq Starts /\ unread \subseteq Starts
    /\ patience \in [Starts -> {"none", "since", "over"}]
    /\ \A h \in Procs : /\ Len(pipe[h]) =< 2
                        /\ listener[h] = "none" <=> pipe[h] = <<>>
                        /\ pending[h] \in Starts \cup {None}
    /\ \A c \in Starts : Cardinality(Taken(c)) =< 1

(* From the moment a launch goes on past the guard to the release of its    *)
(* lock, no other does, and no earlier build runs beside it: the stores it   *)
(* opens have one owner.                                                    *)
OneRuns ==
    \A p, q \in Procs : p # q /\ at[p] \in Serving \cup Closer \cup {"leaving"}
                       => at[q] \notin Serving \cup Closer \cup {"leaving"}

(* A clicked link ends shown, replaced by another in the slot, or said: by  *)
(* its launch, by the holder as it leaves, or, for what a client wrote too   *)
(* late, by the closing that could not wait for it.  Only a process that     *)
(* dies takes one away.                                                      *)
LinkAccounted ==
    \A l \in carries :
        /\ fate[l] = "lost" => unread # {}
        /\ fate[l] = "carried" => at[l] # "gone"
        /\ fate[l] = "landed" => Taken(l) # {}
        /\ fate[l] = "pending" => \E h \in Procs : pending[h] = l

(* While nothing fails and no client keeps a closing holder waiting, a link *)
(* lands or its launch takes over: but for the two gaps named in gaps, the   *)
(* startup and the hand-over of the lock leave nobody without an answer.     *)
NothingDropped ==
    incidents = {} /\ unread = {} /\ gaps = {} => \A l \in carries : fate[l] \notin {"reported", "lost"}

(* No clicked link vanishes between two processes: it lands, or somebody    *)
(* says that it did not, and with no failure it lands.                      *)
LinksAreKept == LinkAccounted /\ NothingDropped

(* A launch gives up before its budget on a live holder only: one whose     *)
(* closing has got to the focus event is waited for.                         *)
LeavingIsOutwaited ==
    [][\A l \in Starts : at[l] = "absent" /\ at'[l] = "focus" /\ ~May("late") /\ ~May("thread") /\ gaps' = gaps
                           => lock \notin closing \/ at[lock] = "stop"]_vars

(* Every launch ends: it runs, or has handed over, or has said it could not.*)
LaunchEnds == []<>(\A l \in Starts : at[l] \in {"new", "up", "gone"})

(* A launch waits for a holder on its way out, and never for ever.          *)
LaunchIsPatient == LeavingIsOutwaited /\ LaunchEnds
=============================================================================
