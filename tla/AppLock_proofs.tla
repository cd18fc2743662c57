---------------------------- MODULE AppLock_proofs ----------------------------
(***************************************************************************)
(* One instance, for any launches, links and incidents: who runs holds the *)
(* legacy mutex, which a launch takes only when nobody has it and gives    *)
(* back once it has torn down.  Then where each clicked link is, and whom  *)
(* a launch waits for.                                                     *)
(***************************************************************************)
EXTENDS AppLock, SequenceTheorems, FiniteSetTheorems, TLAPS

Runs     == Serving \cup Closer \cup {"leaving"}
Probed   == {"events", "channel"} \cup Runs
Places   == {"new", "ask", "pipe", "busy", "absent", "focus", "legacy", "defer", "deferPipe",
             "deferFocus", "dropLock", "released", "gone"} \cup Probed

(* Past its probe a process has the legacy mutex until it is done.          *)
HoldsLegacy == \A p \in Procs : at[p] \in Probed => legacy = p

(* The earlier build runs until it dies.                                    *)
OldRuns == at[Old] \in {"up", "gone"}

IInv == at \in [Procs -> Places] /\ HoldsLegacy /\ OldRuns

(* None is nobody, and no launch is the earlier build.                      *)
LEMMA Names == None \notin Procs /\ Starts \subseteq Procs /\ Old \notin Starts
BY AppLockAssumption DEF None, Procs, Old

(* A process that moves on without the mutex leaves it where it is, unless  *)
(* it goes where only its owner may be.                                     *)
LEMMA Moves ==
    ASSUME IInv, NEW p \in Procs \ {Old}, NEW s \in Places, Step(p, s), legacy' = legacy,
           s \in Probed => at[p] \in Probed
    PROVE  IInv'
BY Names DEF IInv, HoldsLegacy, OldRuns, Step, Procs

(* It may leave what only the owner does, with the mutex or without.        *)
LEMMA Leaves ==
    ASSUME IInv, NEW p \in Procs, NEW s \in Places \ Probed, Step(p, s),
           legacy' = legacy \/ (legacy = p /\ legacy' = None), s = "gone" \/ p # Old
    PROVE  IInv'
BY Names DEF IInv, HoldsLegacy, OldRuns, Step, Procs

LEMMA InitInv == ASSUME Init PROVE IInv
<1> USE Names
<1>1. at \in [Procs -> Places]
  BY DEF Init, Places, Probed, Runs, Serving
<1>2. HoldsLegacy
  BY DEF Init, HoldsLegacy, Probed, Runs, Serving, Closer
<1>3. OldRuns
  BY DEF Init, OldRuns, Procs
<1> QED
  BY <1>1, <1>2, <1>3 DEF IInv

(* Each step of a launch. *)
LEMMA LaunchInv ==
    ASSUME IInv, NEW l \in Starts,
           Start(l) \/ LaunchStep(l) \/ GraceElapses(l) \/ BudgetSpent(l) \/ Quit(l)
    PROVE  IInv'
<1>0. l \in Procs \ {Old} /\ at[l] \in Places
  BY Names DEF IInv
<1>1. CASE Start(l)
  BY <1>0, <1>1, Moves DEF Start, Places, Probed, Runs, Serving, Closer
<1>2. CASE Connect(l)
  BY <1>0, <1>2, Moves DEF Connect, Places, Probed, Runs, Serving, Closer
<1>3. CASE FindNone(l)
  BY <1>0, <1>3, Moves DEF FindNone, Places, Probed, Runs, Serving, Closer
<1>4. CASE TakeOver(l)
  BY <1>0, <1>4, Moves DEF TakeOver, Places, Probed, Runs, Serving, Closer
<1>5. CASE LookAgain(l)
  BY <1>0, <1>5, Moves DEF LookAgain, Places, Probed, Runs, Serving, Closer
<1>6. CASE NoListener(l)
  BY <1>0, <1>6, Moves DEF NoListener, Places, Probed, Runs, Serving, Closer
<1>7. CASE WriteLink(l)
  BY <1>0, <1>7, Moves DEF WriteLink, Places, Probed, Runs, Serving, Closer
<1>8. CASE AskFocus(l)
  BY <1>0, <1>8, Moves DEF AskFocus, Places, Probed, Runs, Serving, Closer
<1>9. CASE ProbeLegacy(l)
  <2>1. CASE legacy = None
    <3>1. \A p \in Procs : at[p] \notin Probed
      BY <2>1, Names DEF IInv, HoldsLegacy
    <3>2. legacy' = l /\ Step(l, "events")
      BY <1>9, <2>1 DEF ProbeLegacy, LegacyLock
    <3> QED
      BY <1>0, <3>1, <3>2 DEF IInv, HoldsLegacy, OldRuns, Step, Places, Probed
  <2>2. CASE legacy # None
    <3>1. legacy' = legacy /\ Step(l, "defer")
      BY <1>9, <2>2 DEF ProbeLegacy, LegacyLock
    <3> QED
      BY <1>0, <3>1, Moves DEF Places, Probed, Runs, Serving, Closer
  <2> QED
    BY <2>1, <2>2
<1>10. CASE DropLock(l)
  BY <1>0, <1>10, Moves DEF DropLock, Places, Probed, Runs, Serving, Closer
<1>11. CASE CreateFocus(l)
  BY <1>0, <1>11, Moves DEF CreateFocus, Places, Probed, Runs, Serving, Closer
<1>12. CASE CreatePipe(l)
  BY <1>0, <1>12, Moves DEF CreatePipe, Places, Probed, Runs, Serving, Closer
<1>13. CASE OwnLink(l)
  BY <1>0, <1>13, Moves DEF OwnLink, Places, Probed, Runs, Serving, Closer
<1>14. CASE GraceElapses(l)
  BY <1>14 DEF GraceElapses, IInv, HoldsLegacy, OldRuns
<1>15. CASE BudgetSpent(l)
  BY <1>0, <1>15, Moves DEF BudgetSpent, Unanswered, Places, Probed, Runs, Serving, Closer
<1>16. CASE Quit(l)
  BY <1>0, <1>16, Moves DEF Quit, Places, Probed, Runs, Serving, Closer
<1> QED
  BY <1>1, <1>2, <1>3, <1>4, <1>5, <1>6, <1>7, <1>8, <1>9, <1>10, <1>11, <1>12, <1>13, <1>14,
     <1>15, <1>16 DEF LaunchStep

(* Each step of a holder, of its listener, and its death. *)
LEMMA HolderInv ==
    ASSUME IInv, NEW h \in Procs, HolderStep(h) \/ ListenStep(h) \/ Crash(h)
    PROVE  IInv'
<1>0. at[h] \notin {"up", "gone"} => h # Old
  BY DEF IInv, OldRuns
<1>1. CASE Show(h)
  BY <1>1 DEF Show, IInv, HoldsLegacy, OldRuns
<1>2. CASE CloseFocus(h)
  BY <1>0, <1>2, Moves DEF CloseFocus, Places, Probed, Runs, Closer
<1>3. CASE Wake(h)
  BY <1>0, <1>3, Moves DEF Wake, Places, Probed, Runs, Closer
<1>4. CASE JoinLink(h)
  BY <1>0, <1>4, Moves DEF JoinLink, Places, Probed, Runs, Closer
<1>5. CASE Teardown(h)
  BY <1>0, <1>5, Moves DEF Teardown, Places, Probed, Runs, Closer
<1>6. CASE Release(h)
  BY <1>0, <1>6, Leaves DEF Release, Places, Probed, Runs, Serving, Closer
<1>7. CASE Exit(h)
  BY <1>7, Leaves DEF Exit, Ends, Places, Probed, Runs, Serving, Closer
<1>8. CASE Met(h)
  BY <1>8 DEF Met, IInv, HoldsLegacy, OldRuns
<1>9. CASE MakeNext(h)
  BY <1>9 DEF MakeNext, IInv, HoldsLegacy, OldRuns
<1>10. CASE Serve(h)
  BY <1>10 DEF Serve, IInv, HoldsLegacy, OldRuns
<1>11. CASE Crash(h)
  BY <1>11, Leaves DEF Crash, Ends, Places, Probed, Runs, Serving, Closer
<1> QED
  BY <1>1, <1>2, <1>3, <1>4, <1>5, <1>6, <1>7, <1>8, <1>9, <1>10, <1>11 DEF HolderStep, ListenStep

LEMMA StepInv == ASSUME IInv, [Next]_vars PROVE IInv'
<1>1. CASE Next
  BY <1>1, LaunchInv, HolderInv DEF Next
<1>2. CASE UNCHANGED vars
  BY <1>2 DEF vars, IInv, HoldsLegacy, OldRuns
<1> QED
  BY <1>1, <1>2

(***************************************************************************)
(* The pipe: whose listener serves how many instances, and which client    *)
(* holds one.                                                              *)
(***************************************************************************)
Instance == [by : Starts \cup {None, Waker}, msg : {"open", "closed", "link"}]
Listens  == {"none", "wait", "make", "serve"}

(* How many instances the process h has, and one of them as its number. *)
Count(h)  == Len(pipe[h])
Has(h, i) == i \in 1..Count(h)

(* What never leaves its set. *)
Shapes ==
    /\ incidents \in Histories /\ carries \in Clicks
    /\ lock \in Starts \cup {None} /\ legacy \in Procs \cup {None}
    /\ event \subseteq Starts /\ closing \subseteq Starts /\ unread \subseteq Starts
    /\ patience \in [Starts -> {"none", "since", "over"}]
    /\ pending \in [Procs -> Starts \cup {None}]
    /\ pipe \in [Procs -> Seq(Instance)]
    /\ listener \in [Procs -> Listens]

(* A link comes from a launch. *)
LinksHaveClients == \A h \in Procs : \A i \in 1..2 :
                       Has(h, i) /\ pipe[h][i].msg = "link" => pipe[h][i].by \in Starts

(* One instance waits for a client; two are there between the making of the *)
(* next and the end of the one that is served.                              *)
Instances == \A h \in Procs : /\ Count(h) =< 2
                              /\ listener[h] = "none" <=> Count(h) = 0
                              /\ listener[h] \in {"wait", "make"} => Count(h) = 1

(* A launch that may still connect holds no instance, and none holds two.   *)
MayConnect == {"new", "ask", "busy", "absent", "legacy", "defer"}

Holds(c, h, i) == Has(h, i) /\ pipe[h][i].by = c

HoldsOne ==
    \A c \in Starts : \A h, g \in Procs : \A i, j \in 1..2 :
        Holds(c, h, i) => /\ at[c] \notin MayConnect
                          /\ Holds(c, g, j) => h = g /\ i = j

PipeInv == Shapes /\ LinksHaveClients /\ Instances /\ HoldsOne

(* A step that leaves the pipe alone, of a process that was to connect when *)
(* it still is.                                                             *)
LEMMA LeavesPipe ==
    ASSUME IInv, PipeInv, Shapes', pipe' = pipe, listener' = listener,
           NEW p \in Procs, NEW s, at' = at \/ Step(p, s),
           s \in MayConnect => at[p] \in MayConnect
    PROVE  PipeInv'
<1>1. LinksHaveClients' /\ Instances'
  BY DEF PipeInv, LinksHaveClients, Instances, Has, Count
<1>2. \A c \in Starts : at'[c] \in MayConnect => at[c] \in MayConnect
  BY Names DEF IInv, Step
<1>3. HoldsOne'
  BY <1>1, <1>2 DEF PipeInv, HoldsOne, Holds, Has, Count
<1> QED
  BY <1>1, <1>3 DEF PipeInv

(* What a client makes of an instance that was free, x; the others stay.    *)
Takes(h, i, x) ==
    /\ pipe' \in [Procs -> Seq(Instance)]
    /\ \A g \in Procs : Count(g)' = Count(g)
    /\ \A g \in Procs : \A j \in 1..2 : Has(g, j) =>
          pipe'[g][j] = IF g = h /\ j = i THEN x ELSE pipe[g][j]

LEMMA TakesInstance ==
    ASSUME PipeInv, NEW h \in Procs, NEW i \in 1..2, Holds(None, h, i), NEW r \in Instance,
           NEW q, q = [pipe[h] EXCEPT ![i] = r], pipe' = [pipe EXCEPT ![h] = q]
    PROVE  Takes(h, i, r)
<1>1. pipe[h] \in Seq(Instance) /\ i \in 1..Len(pipe[h])
  BY DEF PipeInv, Shapes, Holds, Has, Count
<1>2. /\ q \in Seq(Instance) /\ Len(q) = Len(pipe[h])
      /\ \A j \in 1..Len(pipe[h]) : q[j] = IF j = i THEN r ELSE pipe[h][j]
  BY <1>1, ExceptSeq
<1> QED
  BY <1>2 DEF PipeInv, Shapes, Has, Takes, Count

(* The steps of a launch that leave the pipe alone. *)
LEMMA LaunchLeavesPipe ==
    ASSUME IInv, PipeInv, NEW l \in Starts,
           \/ Start(l) \/ FindNone(l) \/ TakeOver(l) \/ LookAgain(l) \/ GraceElapses(l)
           \/ NoListener(l) \/ BudgetSpent(l) \/ AskFocus(l) \/ ProbeLegacy(l) \/ DropLock(l)
           \/ CreateFocus(l) \/ OwnLink(l) \/ Quit(l)
    PROVE  PipeInv'
<1>0. l \in Procs /\ Shapes
  BY Names DEF PipeInv
<1> USE DEF links, Shapes
<1>1. CASE Start(l)
  <2>1. Shapes'
    BY <1>0, <1>1 DEF Start, Step
  <2> QED
    BY <1>0, <1>1, <2>1, LeavesPipe DEF Start, MayConnect
<1>2. CASE FindNone(l)
  <2>1. Shapes'
    BY <1>0, <1>2 DEF FindNone, Step
  <2> QED
    BY <1>0, <1>2, <2>1, LeavesPipe DEF FindNone, MayConnect
<1>3. CASE TakeOver(l)
  <2>1. Shapes'
    BY <1>0, <1>3 DEF TakeOver, Step
  <2> QED
    BY <1>0, <1>3, <2>1, LeavesPipe DEF TakeOver, MayConnect
<1>4. CASE LookAgain(l)
  <2>1. Shapes'
    BY <1>0, <1>4 DEF LookAgain, Step
  <2> QED
    BY <1>0, <1>4, <2>1, LeavesPipe DEF LookAgain, MayConnect
<1>5. CASE GraceElapses(l)
  <2>1. Shapes'
    BY <1>0, <1>5 DEF GraceElapses, Step
  <2> QED
    BY <1>0, <1>5, <2>1, LeavesPipe DEF GraceElapses, MayConnect
<1>6. CASE NoListener(l)
  <2>1. Shapes'
    BY <1>0, <1>6 DEF NoListener, Step
  <2> QED
    BY <1>0, <1>6, <2>1, LeavesPipe DEF NoListener, MayConnect
<1>7. CASE BudgetSpent(l)
  <2>1. Shapes'
    BY <1>0, <1>7 DEF BudgetSpent, Unanswered, Step
  <2> QED
    BY <1>0, <1>7, <2>1, LeavesPipe DEF BudgetSpent, Unanswered, MayConnect
<1>8. CASE AskFocus(l)
  <2>1. Shapes'
    BY <1>0, <1>8 DEF AskFocus, Step
  <2> QED
    BY <1>0, <1>8, <2>1, LeavesPipe DEF AskFocus, MayConnect
<1>9. CASE ProbeLegacy(l)
  <2>1. Shapes'
    BY <1>0, <1>9 DEF ProbeLegacy, LegacyLock, Step
  <2> QED
    BY <1>0, <1>9, <2>1, LeavesPipe DEF ProbeLegacy, LegacyLock, MayConnect
<1>10. CASE DropLock(l)
  <2>1. Shapes'
    BY <1>0, <1>10 DEF DropLock, Step
  <2> QED
    BY <1>0, <1>10, <2>1, LeavesPipe DEF DropLock, MayConnect
<1>11. CASE CreateFocus(l)
  <2>1. Shapes'
    BY <1>0, <1>11 DEF CreateFocus, Fails, Step
  <2> QED
    BY <1>0, <1>11, <2>1, LeavesPipe DEF CreateFocus, Fails, MayConnect
<1>12. CASE OwnLink(l)
  <2>1. Shapes'
    BY <1>0, <1>12 DEF OwnLink, Deliver, links, Step
  <2> QED
    BY <1>0, <1>12, <2>1, LeavesPipe DEF OwnLink, Deliver, links, MayConnect
<1>13. CASE Quit(l)
  <2>1. Shapes'
    BY <1>0, <1>13 DEF Quit, Serving, Step
  <2> QED
    BY <1>0, <1>13, <2>1, LeavesPipe DEF Quit, Serving, MayConnect
<1> QED
  BY <1>1, <1>2, <1>3, <1>4, <1>5, <1>6, <1>7, <1>8, <1>9, <1>10, <1>11, <1>12, <1>13

(* The steps of a holder that leave the pipe alone. *)
LEMMA HolderLeavesPipe ==
    ASSUME IInv, PipeInv, NEW h \in Procs,
           Show(h) \/ CloseFocus(h) \/ JoinLink(h) \/ Teardown(h) \/ Release(h)
    PROVE  PipeInv'
<1>0. Shapes
  BY DEF PipeInv
<1> USE DEF links, Shapes
<1>1. CASE Show(h)
  <2>1. Shapes'
    BY <1>0, <1>1 DEF Show, Step
  <2> QED
    BY <1>0, <1>1, <2>1, LeavesPipe DEF Show, MayConnect
<1>2. CASE CloseFocus(h)
  <2>1. Shapes'
    BY <1>0, <1>2 DEF CloseFocus, FocusGone, Step
  <2> QED
    BY <1>0, <1>2, <2>1, LeavesPipe DEF CloseFocus, FocusGone, MayConnect
<1>3. CASE JoinLink(h)
  <2>1. Shapes'
    BY <1>0, <1>3 DEF JoinLink, Step, IInv, OldRuns, Procs
  <2> QED
    BY <1>0, <1>3, <2>1, LeavesPipe DEF JoinLink, MayConnect
<1>4. CASE Teardown(h)
  <2>1. Shapes'
    BY <1>0, <1>4 DEF Teardown, ReportUnshown, Step
  <2> QED
    BY <1>0, <1>4, <2>1, LeavesPipe DEF Teardown, ReportUnshown, MayConnect
<1>5. CASE Release(h)
  <2>1. Shapes'
    BY <1>0, <1>5 DEF Release, Step
  <2> QED
    BY <1>0, <1>5, <2>1, LeavesPipe DEF Release, MayConnect
<1> QED
  BY <1>1, <1>2, <1>3, <1>4, <1>5

(* What a client makes of an instance that was nobody's. *)
TakesOne(c, msg) ==
    \E h \in Procs : \E i \in 1..2 : \E r \in Instance :
        r.by = c /\ r.msg = msg /\ Holds(None, h, i) /\ Takes(h, i, r)

LEMMA TakesOpen ==
    ASSUME PipeInv, NEW r \in Instance,
           NEW k \in Open, pipe' = [pipe EXCEPT ![k[1]][k[2]] = r]
    PROVE  TakesOne(r.by, r.msg)
<1>1. PICK h \in Procs, i \in 1..2 : k = <<h, i>> /\ Holds(None, h, i)
  BY DEF Open, Taken, Holds, Has, Count, PipeInv, Shapes
<1> DEFINE q == [pipe[h] EXCEPT ![i] = r]
<1>2. pipe' = [pipe EXCEPT ![h] = q]
  BY <1>1
<1> HIDE DEF q
<1>3. q = [pipe[h] EXCEPT ![i] = r]
  BY DEF q
<1>4. Takes(h, i, r)
  BY <1>1, <1>2, <1>3, TakesInstance
<1> QED
  BY <1>1, <1>4 DEF TakesOne

LEMMA ConnectTakes == ASSUME PipeInv, NEW l \in Starts, Connect(l) PROVE TakesOne(l, "open")
<1> DEFINE r == [by |-> l, msg |-> "open"]
<1>1. PICK k \in Open : pipe' = [pipe EXCEPT ![k[1]][k[2]] = r]
  BY DEF Connect
<1>2. r \in Instance /\ r.by = l /\ r.msg = "open"
  BY DEF Instance
<1> HIDE DEF r
<1>3. TakesOne(r.by, r.msg)
  BY <1>1, <1>2, TakesOpen
<1> QED
  BY <1>2, <1>3

LEMMA WakeTakes ==
    ASSUME PipeInv, NEW p \in Procs, Wake(p), pipe' # pipe PROVE TakesOne(Waker, "closed")
<1> DEFINE r == [by |-> Waker, msg |-> "closed"]
<1>1. PICK k \in Open : pipe' = [pipe EXCEPT ![k[1]][k[2]] = r]
  BY DEF Wake
<1>2. r \in Instance /\ r.by = Waker /\ r.msg = "closed"
  BY DEF Instance
<1> HIDE DEF r
<1>3. TakesOne(r.by, r.msg)
  BY <1>1, <1>2, TakesOpen
<1> QED
  BY <1>2, <1>3

(* A launch connects to an instance that was nobody's. *)
LEMMA ConnectInv == ASSUME IInv, PipeInv, NEW l \in Starts, Connect(l) PROVE PipeInv'
<1>2. PICK h \in Procs, i \in 1..2, r \in Instance :
          r.by = l /\ r.msg = "open" /\ Holds(None, h, i) /\ Takes(h, i, r)
  BY ConnectTakes DEF TakesOne
<1>4. Takes(h, i, r)
  BY <1>2
<1>5. r.by = l /\ r.msg = "open"
  BY <1>2
<1>6. at[l] \in MayConnect /\ at' \in {[at EXCEPT ![l] = "pipe"], [at EXCEPT ![l] = "deferPipe"]}
  BY DEF Connect, Asking, Step, MayConnect
<1>7. Shapes' /\ listener' = listener
  BY <1>4 DEF Takes, Connect, links, PipeInv, Shapes
<1>8. LinksHaveClients'
  BY <1>4, <1>5 DEF Takes, PipeInv, LinksHaveClients, Has
<1>9. Instances'
  BY <1>4, <1>7 DEF Takes, PipeInv, Instances
<1>10. \A c \in Starts, g \in Procs, j \in 1..2 : Holds(c, g, j)' =>
          IF c = l THEN g = h /\ j = i ELSE Holds(c, g, j)
  BY <1>2, <1>4, <1>5, <1>6, Names DEF Takes, PipeInv, HoldsOne, Holds, Has
<1>11. HoldsOne'
  BY <1>6, <1>10, Names DEF PipeInv, HoldsOne, IInv, MayConnect
<1> QED
  BY <1>7, <1>8, <1>9, <1>11 DEF PipeInv

(* The closer's client does, too, and is no launch. *)
LEMMA WakeInv == ASSUME IInv, PipeInv, NEW p \in Procs, Wake(p) PROVE PipeInv'
<1>0. Shapes /\ at[p] = "wake" /\ Step(p, "join") /\ listener' = listener
  BY DEF PipeInv, Wake
<1>1. CASE pipe' = pipe
  <2>1. Shapes'
    BY <1>0, <1>1 DEF Wake, links, Shapes
  <2> QED
    BY <1>0, <1>1, <2>1, LeavesPipe DEF MayConnect
<1>2. CASE pipe' # pipe
  <2>3. Waker \notin Starts
    BY AppLockAssumption DEF Waker
  <2>4. PICK h \in Procs, i \in 1..2, r \in Instance :
            r.by = Waker /\ r.msg = "closed" /\ Holds(None, h, i) /\ Takes(h, i, r)
    BY <1>2, WakeTakes DEF TakesOne
  <2>5. Shapes'
    BY <2>4 DEF Takes, Wake, links, PipeInv, Shapes
  <2>6. LinksHaveClients'
    BY <2>3, <2>4 DEF Takes, PipeInv, LinksHaveClients, Has
  <2>7. Instances'
    BY <1>0, <2>4 DEF Takes, PipeInv, Instances
  <2>8. \A c \in Starts, g \in Procs, j \in 1..2 : Holds(c, g, j)' => Holds(c, g, j)
    BY <2>3, <2>4 DEF Takes, Holds, Has
  <2>9. HoldsOne'
    BY <1>0, <2>8, Names DEF PipeInv, HoldsOne, IInv, Step, MayConnect
  <2> QED
    BY <2>5, <2>6, <2>7, <2>9 DEF PipeInv
<1> QED
  BY <1>1, <1>2

LEMMA Written ==
    ASSUME NEW x \in Instance, NEW msg \in {"link", "closed"}, NEW y, y = [x EXCEPT !.msg = msg]
    PROVE  y \in Instance /\ y.by = x.by /\ y.msg = msg
BY DEF Instance

(* What a client writes is in the instance it has; the others stay.        *)
Writes(l, msg) ==
    /\ pipe' \in [Procs -> Seq(Instance)]
    /\ \A h \in Procs : Count(h)' = Count(h)
    /\ \A h \in Procs : \A i \in 1..2 : Has(h, i) =>
          /\ pipe'[h][i].by = pipe[h][i].by
          /\ pipe'[h][i].msg = IF pipe[h][i].by = l THEN msg ELSE pipe[h][i].msg

LEMMA PutWrites ==
    ASSUME PipeInv, NEW l \in Starts, NEW msg \in {"link", "closed"}, pipe' = Put(l, msg)
    PROVE  Writes(l, msg)
<1>1. \A h \in Procs : /\ pipe'[h] = [i \in 1..Len(pipe[h]) |->
                            IF pipe[h][i].by = l THEN [pipe[h][i] EXCEPT !.msg = msg] ELSE pipe[h][i]]
                       /\ pipe[h] \in Seq(Instance) /\ Len(pipe[h]) \in Nat
  BY DEF Put, PipeInv, Shapes
<1>2. ASSUME NEW h \in Procs
      PROVE  /\ pipe'[h] \in Seq(Instance) /\ Len(pipe'[h]) = Len(pipe[h])
             /\ \A i \in 1..Len(pipe[h]) :
                  /\ pipe'[h][i].by = pipe[h][i].by
                  /\ pipe'[h][i].msg = IF pipe[h][i].by = l THEN msg ELSE pipe[h][i].msg
  <2>1. \A i \in 1..Len(pipe[h]) : pipe[h][i] \in Instance
    BY <1>1, ElementOfSeq
  <2>2. ASSUME NEW i \in 1..Len(pipe[h])
        PROVE  /\ pipe'[h][i] \in Instance
               /\ pipe'[h][i].by = pipe[h][i].by
               /\ pipe'[h][i].msg = IF pipe[h][i].by = l THEN msg ELSE pipe[h][i].msg
    <3>1. CASE pipe[h][i].by = l
      <4>1. pipe'[h][i] = [pipe[h][i] EXCEPT !.msg = msg]
        BY <1>1, <3>1
      <4> QED
        BY <2>1, <3>1, <4>1, Written
    <3>2. CASE pipe[h][i].by # l
      <4>1. pipe'[h][i] = pipe[h][i]
        BY <1>1, <3>2
      <4> QED
        BY <2>1, <3>2, <4>1
    <3> QED
      BY <3>1, <3>2
  <2>3. pipe'[h] \in [1..Len(pipe[h]) -> Instance]
    BY <1>1, <2>2
  <2>4. pipe'[h] \in Seq(Instance) /\ Len(pipe'[h]) = Len(pipe[h])
    BY <1>1, <2>3, LenProperties, SeqDef
  <2> QED
    BY <2>2, <2>4
<1>3. pipe' \in [Procs -> Seq(Instance)]
  BY <1>2 DEF Put
<1> QED
  BY <1>2, <1>3 DEF Writes, Has, Count

LEMMA WriteInv == ASSUME IInv, PipeInv, NEW l \in Starts, WriteLink(l) PROVE PipeInv'
<1>1. PICK msg \in {"link", "closed"} : pipe' = Put(l, msg)
  BY DEF WriteLink
<1>2. PICK s \in {"gone", "dropLock", "focus", "deferFocus"} : Step(l, s)
  BY DEF WriteLink
<1>3. Writes(l, msg)
  BY <1>1, PutWrites
<1>5. Shapes' /\ listener' = listener
  BY <1>3 DEF Writes, WriteLink, PipeInv, Shapes
<1>6. LinksHaveClients'
  BY <1>3 DEF Writes, PipeInv, LinksHaveClients, Has
<1>7. Instances'
  BY <1>3, <1>5 DEF Writes, PipeInv, Instances
<1>8. \A c \in Starts, g \in Procs, j \in 1..2 : Holds(c, g, j)' => Holds(c, g, j)
  BY <1>3 DEF Writes, Holds, Has
<1>9. HoldsOne'
  BY <1>2, <1>8, Names DEF PipeInv, HoldsOne, IInv, Step, MayConnect
<1> QED
  BY <1>5, <1>6, <1>7, <1>9 DEF PipeInv

(* A pipe is made where a launch has none, and goes with its process. *)
LEMMA FreeIs == Free \in Instance /\ Free.by = None /\ Free.msg = "open"
BY DEF Free, Instance

(* The pipe of h becomes q, and no other changes. *)
Becomes(h, q) == /\ pipe' \in [Procs -> Seq(Instance)]
                 /\ pipe'[h] = q /\ Count(h)' = Len(q)
                 /\ \A g \in Procs \ {h} : pipe'[g] = pipe[g] /\ Count(g)' = Count(g)

LEMMA Replaced ==
    ASSUME PipeInv, NEW h \in Procs, NEW q \in Seq(Instance), pipe' = [pipe EXCEPT ![h] = q]
    PROVE  Becomes(h, q)
BY DEF PipeInv, Shapes, Becomes, Count

LEMMA CreateInv == ASSUME IInv, PipeInv, NEW l \in Starts, CreatePipe(l) PROVE PipeInv'
<1>0. l \in Procs /\ Step(l, "boot")
  BY Names DEF CreatePipe
<1>1. CASE pipe' = pipe /\ listener' = listener
  <2>1. Shapes'
    BY <1>1 DEF CreatePipe, links, PipeInv, Shapes
  <2> QED
    BY <1>0, <1>1, <2>1, LeavesPipe DEF MayConnect
<1>2. CASE pipe' = [pipe EXCEPT ![l] = <<Free>>] /\ listener' = [listener EXCEPT ![l] = "wait"]
  <2> DEFINE q == <<Free>>
  <2>1. q \in Seq(Instance) /\ Len(q) = 1 /\ q[1] = Free
    BY FreeIs
  <2> HIDE DEF q
  <2>2. Becomes(l, q)
    BY <1>0, <1>2, <2>1, Replaced DEF q
  <2>3. Shapes'
    BY <1>0, <1>2, <2>1, <2>2 DEF Becomes, CreatePipe, links, PipeInv, Shapes, Listens
  <2>4. LinksHaveClients'
    BY <2>1, <2>2, FreeIs DEF Becomes, PipeInv, LinksHaveClients, Has
  <2>5. Instances'
    BY <1>2, <2>1, <2>2 DEF Becomes, PipeInv, Shapes, Instances
  <2>6. \A c \in Starts, g \in Procs, j \in 1..2 : Holds(c, g, j)' => Holds(c, g, j)
    BY <2>1, <2>2, FreeIs, Names DEF Becomes, Holds, Has, Procs
  <2>7. HoldsOne'
    BY <1>0, <2>6, Names DEF PipeInv, HoldsOne, IInv, Step, MayConnect
  <2> QED
    BY <2>3, <2>4, <2>5, <2>7 DEF PipeInv
<1> QED
  BY <1>1, <1>2 DEF CreatePipe

LEMMA EndsInv ==
    ASSUME IInv, PipeInv, NEW h \in Procs, Ends(h), UNCHANGED <<incidents, carries, patience, unread>>,
           lock' \in {lock, None}, legacy' \in {legacy, None}
    PROVE  PipeInv'
<1> DEFINE q == <<>>
<1>1. q \in Seq(Instance) /\ Len(q) = 0
  OBVIOUS
<1> HIDE DEF q
<1>2. pipe' = [pipe EXCEPT ![h] = q] /\ listener' = [listener EXCEPT ![h] = "none"] /\ Step(h, "gone")
  BY DEF Ends, q
<1>8. Becomes(h, q)
  BY <1>1, <1>2, Replaced
<1>3. Shapes'
  BY <1>2, <1>8 DEF Becomes, Ends, PipeInv, Shapes, Listens
<1>4. LinksHaveClients'
  BY <1>1, <1>8 DEF Becomes, PipeInv, LinksHaveClients, Has
<1>5. Instances'
  BY <1>1, <1>2, <1>8 DEF Becomes, PipeInv, Shapes, Instances
<1>6. \A c \in Starts, g \in Procs, j \in 1..2 : Holds(c, g, j)' => Holds(c, g, j)
  BY <1>1, <1>8 DEF Becomes, Holds, Has
<1>7. HoldsOne'
  BY <1>2, <1>6, Names DEF PipeInv, HoldsOne, IInv, Step, MayConnect
<1> QED
  BY <1>3, <1>4, <1>5, <1>7 DEF PipeInv

(* The listener has one instance, and makes the next of it, a free one. *)
Makes(h) == /\ Count(h) = 1 /\ Count(h)' \in {1, 2} /\ (~Fails(h) => Count(h)' = 2)
            /\ pipe'[h][1] = pipe[h][1] /\ (Count(h)' = 2 => pipe'[h][2] = Free)
            /\ \A g \in Procs \ {h} : pipe'[g] = pipe[g] /\ Count(g)' = Count(g)

LEMMA MakeMakes ==
    ASSUME PipeInv, NEW h \in Procs, MakeNext(h)
    PROVE  Makes(h) /\ pipe' \in [Procs -> Seq(Instance)]
<1>1. pipe[h] \in Seq(Instance) /\ Count(h) = 1 /\ Len(pipe[h]) = 1
  BY DEF MakeNext, PipeInv, Shapes, Instances, Count
<1>2. CASE pipe' = pipe /\ Fails(h)
  <2>1. \A g \in Procs : Count(g)' = Count(g)
    BY <1>2 DEF Count
  <2> QED
    BY <1>1, <1>2, <2>1 DEF Makes, PipeInv, Shapes
<1>3. CASE NextInstance(h)
  <2> DEFINE q == Append(pipe[h], Free)
  <2>1. q \in Seq(Instance) /\ Len(q) = 2 /\ q[1] = pipe[h][1] /\ q[2] = Free
    <3>1. /\ q \in Seq(Instance) /\ Len(q) = Len(pipe[h]) + 1
          /\ \A i \in 1..Len(pipe[h]) : q[i] = pipe[h][i]
          /\ q[Len(pipe[h]) + 1] = Free
      <4>1. pipe[h] \in Seq(Instance)
        BY <1>1
      <4> QED
        BY <4>1, FreeIs, AppendProperties
    <3> HIDE DEF q
    <3> QED
      BY <1>1, <3>1
  <2>2. Becomes(h, q)
    BY <1>3, <2>1, Replaced DEF NextInstance
  <2> HIDE DEF q
  <2> QED
    BY <1>1, <2>1, <2>2 DEF Becomes, Makes
<1> QED
  BY <1>2, <1>3 DEF MakeNext

(* It serves the first instance, which ends; the next is first then.        *)
Serves(h) == /\ Count(h) \in {1, 2} /\ Count(h)' = Count(h) - 1
             /\ Count(h)' = 1 => pipe'[h][1] = pipe[h][2]
             /\ \A g \in Procs \ {h} : pipe'[g] = pipe[g] /\ Count(g)' = Count(g)

LEMMA ServeServes ==
    ASSUME PipeInv, NEW h \in Procs, Serve(h)
    PROVE  Serves(h) /\ pipe' \in [Procs -> Seq(Instance)]
<1>0. pipe[h] \in Seq(Instance) /\ Count(h) \in Nat /\ (Count(h) = 0 <=> pipe[h] = <<>>)
  BY EmptySeq, LenProperties DEF PipeInv, Shapes, Count
<1>1. Count(h) \in {1, 2} /\ pipe[h] # <<>>
  BY <1>0 DEF Serve, PipeInv, Instances
<1> DEFINE q == Tail(pipe[h])
<1>2. /\ q \in Seq(Instance) /\ Len(q) = Count(h) - 1
      /\ \A i \in 1..Len(q) : q[i] = pipe[h][i + 1]
  BY <1>0, <1>1, HeadTailProperties DEF Count
<1>3. Becomes(h, q)
  BY <1>2, Replaced DEF Serve
<1> HIDE DEF q
<1> QED
  BY <1>1, <1>2, <1>3 DEF Becomes, Serves

(* The listener meets a client, makes the next instance and serves the first. *)
LEMMA ListenInv == ASSUME IInv, PipeInv, NEW h \in Procs, ListenStep(h) PROVE PipeInv'
<1>0. pipe[h] \in Seq(Instance) /\ Count(h) \in Nat /\ (Count(h) = 0 <=> pipe[h] = <<>>)
  BY EmptySeq, LenProperties DEF PipeInv, Shapes, Count
<1>1. CASE Met(h)
  <2>1. Shapes' /\ LinksHaveClients' /\ HoldsOne'
    BY <1>1 DEF Met, links, PipeInv, Shapes, Listens, LinksHaveClients, HoldsOne, Holds, Has, Count
  <2>2. Instances'
    BY <1>1 DEF Met, PipeInv, Shapes, Instances, Count
  <2> QED
    BY <2>1, <2>2 DEF PipeInv
<1>2. CASE MakeNext(h)
  <2>1. Count(h) = 1 /\ listener' = [listener EXCEPT ![h] = "serve"] /\ at' = at
    BY <1>2 DEF MakeNext, PipeInv, Instances
  <2>2. Makes(h) /\ pipe' \in [Procs -> Seq(Instance)]
    BY <1>2, MakeMakes
  <2>3. /\ Count(h)' \in {1, 2}
        /\ pipe'[h][1] = pipe[h][1] /\ (Count(h)' = 2 => pipe'[h][2] = Free)
        /\ \A g \in Procs \ {h} : pipe'[g] = pipe[g] /\ Count(g)' = Count(g)
    BY <2>2 DEF Makes
  <2>4. Shapes'
    BY <1>2, <2>2 DEF MakeNext, links, PipeInv, Shapes, Listens
  <2>5. LinksHaveClients'
    BY <2>1, <2>3, FreeIs DEF PipeInv, LinksHaveClients, Has
  <2>6. Instances'
    <3>1. listener'[h] = "serve" /\ \A g \in Procs \ {h} : listener'[g] = listener[g]
      BY <2>1 DEF PipeInv, Shapes
    <3> QED
      BY <2>3, <3>1 DEF PipeInv, Instances
  <2>7. \A c \in Starts : \A g \in Procs : \A j \in 1..2 : Holds(c, g, j)' => Holds(c, g, j)
    BY <2>1, <2>3, FreeIs, Names DEF Holds, Has, Procs
  <2>8. HoldsOne'
    BY <2>1, <2>7 DEF PipeInv, HoldsOne
  <2> QED
    BY <2>4, <2>5, <2>6, <2>8 DEF PipeInv
<1>3. CASE Serve(h)
  <2>1. Count(h) \in {1, 2} /\ at' = at
    BY <1>3, ServeServes DEF Serve, Serves
  <2>3. Serves(h) /\ pipe' \in [Procs -> Seq(Instance)]
    BY <1>3, ServeServes
  <2>4. /\ Count(h)' = Count(h) - 1 /\ (Count(h)' = 1 => pipe'[h][1] = pipe[h][2])
        /\ \A g \in Procs \ {h} : pipe'[g] = pipe[g] /\ Count(g)' = Count(g)
    BY <2>3 DEF Serves
  <2>5. /\ listener'[h] = IF Count(h) > 1 THEN "wait" ELSE "none"
        /\ \A g \in Procs \ {h} : listener'[g] = listener[g]
        /\ listener' \in [Procs -> Listens]
    BY <1>3 DEF Serve, PipeInv, Shapes, Listens, Count
  <2>6. Shapes'
    <3>1. pipe[h][1].msg = "link" => pipe[h][1].by \in Starts
      BY <2>1 DEF PipeInv, LinksHaveClients, Has
    <3>2. pending' \in [Procs -> Starts \cup {None}]
      BY <1>3, <3>1 DEF Serve, Deliver, links, PipeInv, Shapes
    <3>3. pipe' \in [Procs -> Seq(Instance)]
      BY <2>3
    <3> QED
      BY <1>3, <2>5, <3>2, <3>3 DEF Serve, PipeInv, Shapes
  <2>7. \A j \in 1..2 : Has(h, j)' => j = 1 /\ Has(h, 2) /\ pipe'[h][1] = pipe[h][2]
    BY <2>1, <2>4 DEF Has
  <2>8. LinksHaveClients'
    BY <2>4, <2>7 DEF PipeInv, LinksHaveClients, Has
  <2>9. Instances'
    BY <2>1, <2>4, <2>5 DEF PipeInv, Instances
  <2>10. \A c \in Starts : \A g \in Procs : \A j \in 1..2 :
            Holds(c, g, j)' => IF g = h THEN j = 1 /\ Holds(c, g, 2) ELSE Holds(c, g, j)
    BY <2>4, <2>7 DEF Holds, Has
  <2>11. HoldsOne'
    BY <2>1, <2>10 DEF PipeInv, HoldsOne
  <2> QED
    BY <2>6, <2>8, <2>9, <2>11 DEF PipeInv
<1> QED
  BY <1>1, <1>2, <1>3 DEF ListenStep

LEMMA PipeInit == ASSUME Init PROVE PipeInv
<1>1. /\ pipe \in [Procs -> Seq(Instance)]
      /\ \A h \in Procs : Count(h) \in {0, 1} /\ (Count(h) = 1 => pipe[h][1] = Free)
      /\ \A h \in Procs : listener[h] = IF Count(h) = 0 THEN "none" ELSE "wait"
  <2> DEFINE one == <<Free>>
             none == <<>>
  <2>1. /\ one \in Seq(Instance) /\ Len(one) = 1 /\ one[1] = Free
        /\ none \in Seq(Instance) /\ Len(none) = 0
    BY FreeIs
  <2>2. \A h \in Procs : \/ pipe[h] = one /\ listener[h] = "wait"
                         \/ pipe[h] = none /\ listener[h] = "none"
    BY DEF Init
  <2>3. DOMAIN pipe = Procs /\ pipe = [h \in Procs |-> pipe[h]]
    BY DEF Init
  <2> HIDE DEF one, none
  <2>4. pipe \in [Procs -> Seq(Instance)]
    <3>1. \A h \in Procs : pipe[h] \in Seq(Instance)
      BY <2>1, <2>2
    <3> QED
      BY <2>3, <3>1
  <2>5. ASSUME NEW h \in Procs
        PROVE  /\ Count(h) \in {0, 1} /\ (Count(h) = 1 => pipe[h][1] = Free)
               /\ listener[h] = IF Count(h) = 0 THEN "none" ELSE "wait"
    <3>1. CASE pipe[h] = one /\ listener[h] = "wait"
      <4>1. Count(h) = 1
        BY <2>1, <3>1 DEF Count
      <4> QED
        BY <2>1, <3>1, <4>1
    <3>2. CASE pipe[h] = none /\ listener[h] = "none"
      <4>1. Count(h) = 0
        BY <2>1, <3>2 DEF Count
      <4> QED
        BY <3>2, <4>1
    <3> QED
      BY <2>2, <3>1, <3>2
  <2> QED
    BY <2>4, <2>5
<1>2. Shapes
  BY <1>1, Names, AppLockAssumption DEF Init, Shapes, Listens, Procs
<1>3. LinksHaveClients /\ Instances
  BY <1>1, FreeIs DEF LinksHaveClients, Instances, Has
<1>4. \A c \in Starts : \A h \in Procs : \A i \in 1..2 : ~Holds(c, h, i)
  BY <1>1, FreeIs, Names DEF Holds, Has, Procs
<1> QED
  BY <1>2, <1>3, <1>4 DEF PipeInv, HoldsOne

LEMMA PipeStep == ASSUME IInv, PipeInv, [Next]_vars PROVE PipeInv'
<1>1. ASSUME NEW l \in Starts, Start(l) \/ LaunchStep(l) \/ GraceElapses(l) \/ BudgetSpent(l) \/ Quit(l)
      PROVE  PipeInv'
  BY <1>1, LaunchLeavesPipe, ConnectInv, WriteInv, CreateInv DEF LaunchStep
<1>2. ASSUME NEW h \in Procs, HolderStep(h) \/ ListenStep(h) \/ Crash(h)
      PROVE  PipeInv'
  <2>1. CASE Exit(h)
    BY <2>1, EndsInv DEF Exit
  <2>2. CASE Crash(h)
    BY <2>2, EndsInv DEF Crash
  <2>3. CASE ListenStep(h)
    BY <2>3, ListenInv
  <2>4. CASE Wake(h)
    BY <2>4, WakeInv
  <2> QED
    BY <1>2, <2>1, <2>2, <2>3, <2>4, HolderLeavesPipe DEF HolderStep
<1>3. ASSUME UNCHANGED vars PROVE PipeInv'
  <2> USE <1>3 DEF vars, links
  <2>1. Shapes'
    BY DEF PipeInv, Shapes
  <2>2. LinksHaveClients' /\ Instances'
    BY DEF PipeInv, LinksHaveClients, Instances, Has, Count
  <2>3. HoldsOne'
    BY DEF PipeInv, HoldsOne, Holds, Has, Count
  <2> QED
    BY <2>1, <2>2, <2>3 DEF PipeInv
<1> QED
  BY <1>1, <1>2, <1>3 DEF Next

(* Two instances, the slots and a client's one are all there is. *)
LEMMA PipeTypes == ASSUME PipeInv PROVE TypeOK
<1>1. \A h \in Procs : /\ Len(pipe[h]) =< 2
                       /\ listener[h] = "none" <=> pipe[h] = <<>>
                       /\ pending[h] \in Starts \cup {None}
  <2> SUFFICES ASSUME NEW h \in Procs
               PROVE  /\ Len(pipe[h]) =< 2
                      /\ listener[h] = "none" <=> pipe[h] = <<>>
                      /\ pending[h] \in Starts \cup {None}
    OBVIOUS
  <2>1. Count(h) = 0 <=> pipe[h] = <<>>
    BY EmptySeq DEF PipeInv, Shapes, Count
  <2>2. Len(pipe[h]) =< 2
    BY DEF PipeInv, Instances, Count
  <2> QED
    BY <2>1, <2>2 DEF PipeInv, Shapes, Instances
<1>2. ASSUME NEW c \in Starts PROVE Cardinality(Taken(c)) =< 1
  <2>1. \A x \in Taken(c) : \E h \in Procs : \E i \in 1..2 : x = <<h, i>> /\ Holds(c, h, i)
    BY DEF Taken, Holds, Has, Count, PipeInv, Shapes
  <2>2. \A x, y \in Taken(c) : x = y
    BY <2>1 DEF PipeInv, HoldsOne
  <2>3. CASE Taken(c) = {}
    BY <2>3, FS_EmptySet
  <2>4. CASE Taken(c) # {}
    <3>1. PICK x \in Taken(c) : Taken(c) = {x}
      BY <2>2, <2>4
    <3>2. Cardinality({x}) = 1
      BY FS_Singleton
    <3>3. Cardinality(Taken(c)) = 1
      BY <3>1, <3>2, Zenon
    <3> QED
      BY <3>3
  <2> QED
    BY <2>3, <2>4
<1> QED
  BY <1>1, <1>2 DEF TypeOK, PipeInv, Shapes

(* TypeOK, for any launches: at most two instances of a pipe, and one of    *)
(* them all for a client, however many meet it (app_lock.rs, serve_links).  *)
THEOREM TypeCorrect == Spec => []TypeOK
<1>1. Init => IInv /\ PipeInv
  BY InitInv, PipeInit
<1>2. IInv /\ PipeInv /\ [Next]_vars => (IInv /\ PipeInv)'
  BY StepInv, PipeStep
<1>3. PipeInv => TypeOK
  BY PipeTypes
<1> QED
  BY <1>1, <1>2, <1>3, PTL DEF Spec

(* OneRuns, for every number of launches: two that run would both hold the  *)
(* legacy mutex (app_lock.rs, first_instance and AppLock's drop).           *)
THEOREM OneRunsCorrect == Spec => []OneRuns
<1>1. Init => IInv
  BY InitInv
<1>2. IInv /\ [Next]_vars => IInv'
  BY StepInv
<1>3. IInv => OneRuns
  BY DEF IInv, HoldsLegacy, OneRuns, Probed, Runs
<1> QED
  BY <1>1, <1>2, <1>3, PTL DEF Spec

-----------------------------------------------------------------------------
(***************************************************************************)
(* What becomes of a link.  Who has the newer mutex, what a pipe and a     *)
(* slot are where their process is, what each fate stands on; and, while   *)
(* nothing fails, that a launch that looks for the holder finds it.        *)
(***************************************************************************)
Locked == {"legacy", "defer", "deferPipe", "deferFocus", "dropLock"} \cup Probed

(* A launch is past the newer mutex exactly while it has it.                *)
LockInv == \A p \in Starts : at[p] \in Locked <=> lock = p

(* A process that goes on with what it has, or one that takes the mutex,    *)
(* or gives it back.                                                        *)
LEMMA LockMoves ==
    ASSUME IInv, LockInv, NEW p \in Procs, NEW s, at' = at \/ Step(p, s),
           \/ lock' = lock /\ (p \in Starts /\ Step(p, s) => (s \in Locked <=> at[p] \in Locked))
           \/ p \in Starts /\ Step(p, s) /\ s \in Locked /\ lock = None /\ lock' = p
           \/ p \in Starts /\ Step(p, s) /\ s \notin Locked /\ lock = p /\ lock' = None
    PROVE  LockInv'
BY Names DEF IInv, LockInv, Step

LEMMA LaunchLock ==
    ASSUME IInv, LockInv, NEW l \in Starts,
           Start(l) \/ LaunchStep(l) \/ GraceElapses(l) \/ BudgetSpent(l) \/ Quit(l)
    PROVE  LockInv'
<1>0. l \in Procs /\ at[l] \in Places
  BY Names DEF IInv
<1> USE DEF Locked, Probed, Runs, Serving, Closer
<1>1. CASE Start(l)
  BY <1>0, <1>1, LockMoves DEF Start
<1>2. CASE Connect(l)
  BY <1>0, <1>2, LockMoves DEF Connect, Asking
<1>3. CASE FindNone(l)
  BY <1>0, <1>3, LockMoves DEF FindNone
<1>4. CASE TakeOver(l)
  BY <1>0, <1>4, LockMoves DEF TakeOver
<1>5. CASE LookAgain(l)
  BY <1>0, <1>5, LockMoves DEF LookAgain
<1>6. CASE NoListener(l)
  BY <1>0, <1>6, LockMoves DEF NoListener
<1>7. CASE WriteLink(l)
  BY <1>0, <1>7, LockMoves DEF WriteLink
<1>8. CASE AskFocus(l)
  BY <1>0, <1>8, LockMoves DEF AskFocus
<1>9. CASE ProbeLegacy(l)
  BY <1>0, <1>9, LockMoves DEF ProbeLegacy, LegacyLock
<1>10. CASE DropLock(l)
  BY <1>0, <1>10, LockMoves DEF DropLock, LockInv
<1>11. CASE CreateFocus(l)
  BY <1>0, <1>11, LockMoves DEF CreateFocus
<1>12. CASE CreatePipe(l)
  BY <1>0, <1>12, LockMoves DEF CreatePipe
<1>13. CASE OwnLink(l)
  BY <1>0, <1>13, LockMoves DEF OwnLink
<1>14. CASE GraceElapses(l)
  BY <1>0, <1>14, LockMoves DEF GraceElapses
<1>15. CASE BudgetSpent(l)
  BY <1>0, <1>15, LockMoves DEF BudgetSpent, Unanswered
<1>16. CASE Quit(l)
  BY <1>0, <1>16, LockMoves DEF Quit
<1> QED
  BY <1>1, <1>2, <1>3, <1>4, <1>5, <1>6, <1>7, <1>8, <1>9, <1>10, <1>11, <1>12, <1>13, <1>14,
     <1>15, <1>16 DEF LaunchStep

LEMMA HolderLock ==
    ASSUME IInv, PipeInv, LockInv, NEW h \in Procs, HolderStep(h) \/ ListenStep(h) \/ Crash(h)
    PROVE  LockInv'
<1>0. at[h] \notin {"up", "gone"} => h \in Starts
  BY Names DEF IInv, OldRuns, Procs
<1>1. lock # Old
  BY Names DEF PipeInv, Shapes, None, Old
<1> USE DEF Locked, Probed, Runs, Serving, Closer
<1>2. CASE Show(h) \/ Met(h) \/ MakeNext(h) \/ Serve(h)
  BY <1>2, LockMoves DEF Show, Met, MakeNext, Serve
<1>3. CASE CloseFocus(h)
  BY <1>0, <1>3, LockMoves DEF CloseFocus
<1>4. CASE Wake(h)
  BY <1>0, <1>4, LockMoves DEF Wake
<1>5. CASE JoinLink(h)
  BY <1>0, <1>5, LockMoves DEF JoinLink
<1>6. CASE Teardown(h)
  BY <1>0, <1>6, LockMoves DEF Teardown
<1>7. CASE Release(h)
  BY <1>0, <1>7, LockMoves DEF Release, LockInv
<1>8. CASE Exit(h)
  BY <1>0, <1>8, LockMoves DEF Exit, Ends
<1>9. CASE Crash(h)
  <2>1. Step(h, "gone") /\ lock' = IF lock = h THEN None ELSE lock
    BY <1>9 DEF Crash, Ends
  <2>2. CASE h \in Starts
    <3>1. lock = h
      BY <1>9, <2>2 DEF Crash, LockInv
    <3> QED
      BY <2>1, <2>2, <3>1, LockMoves
  <2>3. CASE h \notin Starts
    <3>1. lock' = lock
      BY <1>1, <2>1, <2>3 DEF Procs
    <3> QED
      BY <2>1, <2>3, <3>1, LockMoves
  <2> QED
    BY <2>2, <2>3
<1> QED
  BY <1>2, <1>3, <1>4, <1>5, <1>6, <1>7, <1>8, <1>9 DEF HolderStep, ListenStep

LEMMA LockStep == ASSUME IInv, PipeInv, LockInv, [Next]_vars PROVE LockInv'
<1>1. CASE Next
  BY <1>1, LaunchLock, HolderLock DEF Next
<1>2. CASE UNCHANGED vars
  BY <1>2 DEF vars, LockInv
<1> QED
  BY <1>1, <1>2

LEMMA LockInit == ASSUME Init PROVE LockInv
BY Names DEF Init, LockInv, Procs, Locked, Probed, Runs, Serving, Closer

(* A client c has an instance that carries m, and every launch keeps what   *)
(* it has.                                                                  *)
Msgs     == {"open", "closed", "link"}
In(c, m) == \E h \in Procs : \E i \in 1..2 : Holds(c, h, i) /\ pipe[h][i].msg = m
KeepsIn  == \A c \in Starts : \A m \in Msgs : In(c, m) => In(c, m)'
SameCounts == \A g \in Procs : Count(g)' = Count(g)

LEMMA StaysIn == ASSUME pipe' = pipe PROVE KeepsIn /\ SameCounts
BY DEF KeepsIn, In, Holds, Has, Count, SameCounts

LEMMA TakesIn ==
    ASSUME PipeInv, NEW c \in Starts \cup {Waker}, NEW m \in Msgs, TakesOne(c, m)
    PROVE  KeepsIn /\ SameCounts /\ (c \in Starts => In(c, m)')
<1>1. PICK h \in Procs, i \in 1..2, r \in Instance :
          r.by = c /\ r.msg = m /\ Holds(None, h, i) /\ Takes(h, i, r)
  BY DEF TakesOne
<1>2. SameCounts /\ \A g \in Procs : \A j \in 1..2 : Has(g, j)' <=> Has(g, j)
  BY <1>1 DEF Takes, SameCounts, Has
<1>3. Holds(c, h, i)' /\ pipe'[h][i].msg = m
  BY <1>1, <1>2 DEF Takes, Holds
<1>4. ASSUME NEW d \in Starts, NEW n \in Msgs, In(d, n) PROVE In(d, n)'
  <2>1. PICK g \in Procs, j \in 1..2 : Holds(d, g, j) /\ pipe[g][j].msg = n
    BY <1>4 DEF In
  <2>2. ~(g = h /\ j = i)
    BY <1>1, <2>1, Names DEF Holds, Procs
  <2>3. Holds(d, g, j)' /\ pipe'[g][j].msg = n
    BY <1>1, <1>2, <2>1, <2>2 DEF Takes, Holds
  <2> QED
    BY <2>3 DEF In
<1> QED
  BY <1>2, <1>3, <1>4 DEF KeepsIn, In

LEMMA WritesIn ==
    ASSUME PipeInv, NEW l \in Starts, NEW msg \in {"link", "closed"}, Writes(l, msg)
    PROVE  /\ SameCounts
           /\ \A c \in Starts \ {l} : \A m \in Msgs : In(c, m) => In(c, m)'
           /\ \A m \in Msgs : In(l, m) => In(l, msg)'
<1>1. SameCounts /\ \A g \in Procs : \A j \in 1..2 : Has(g, j)' <=> Has(g, j)
  BY DEF Writes, SameCounts, Has
<1>2. ASSUME NEW c \in Starts, NEW m \in Msgs, In(c, m)
      PROVE  In(c, IF c = l THEN msg ELSE m)'
  <2>1. PICK g \in Procs, j \in 1..2 : Holds(c, g, j) /\ pipe[g][j].msg = m
    BY <1>2 DEF In
  <2>2. Holds(c, g, j)' /\ pipe'[g][j].msg = IF c = l THEN msg ELSE m
    BY <1>1, <2>1 DEF Writes, Holds
  <2> QED
    BY <2>2 DEF In
<1> QED
  BY <1>1, <1>2

LEMMA MakesIn == ASSUME PipeInv, NEW h \in Procs, Makes(h) PROVE KeepsIn
<1>1. ASSUME NEW c \in Starts, NEW m \in Msgs, In(c, m) PROVE In(c, m)'
  <2>1. PICK g \in Procs, j \in 1..2 : Holds(c, g, j) /\ pipe[g][j].msg = m
    BY <1>1 DEF In
  <2>2. Holds(c, g, j)' /\ pipe'[g][j].msg = m
    BY <2>1 DEF Makes, Holds, Has
  <2> QED
    BY <2>2 DEF In
<1> QED
  BY <1>1 DEF KeepsIn

LEMMA ServesIn ==
    ASSUME PipeInv, NEW h \in Procs, Serves(h)
    PROVE  \A c \in Starts : \A m \in Msgs :
              In(c, m) => In(c, m)' \/ (Holds(c, h, 1) /\ pipe[h][1].msg = m)
<1> SUFFICES ASSUME NEW c \in Starts, NEW m \in Msgs, In(c, m),
                    ~(Holds(c, h, 1) /\ pipe[h][1].msg = m)
             PROVE  In(c, m)'
  OBVIOUS
<1>1. PICK g \in Procs, j \in 1..2 : Holds(c, g, j) /\ pipe[g][j].msg = m
  BY DEF In
<1>2. CASE g = h
  <2>1. j = 2
    BY <1>1, <1>2
  <2>2. Holds(c, h, 1)' /\ pipe'[h][1].msg = m
    BY <1>1, <1>2, <2>1 DEF Serves, Holds, Has
  <2> QED
    BY <2>2 DEF In
<1>3. CASE g # h
  <2>1. Holds(c, g, j)' /\ pipe'[g][j].msg = m
    BY <1>1, <1>3 DEF Serves, Holds, Has
  <2> QED
    BY <2>1 DEF In
<1> QED
  BY <1>2, <1>3

(* A process that had no instance, or that ends, leaves the others'.        *)
LEMMA BecomesIn ==
    ASSUME PipeInv, NEW h \in Procs, NEW q, Becomes(h, q)
    PROVE  \A c \in Starts : \A m \in Msgs :
              In(c, m) => In(c, m)' \/ \E i \in 1..2 : Holds(c, h, i) /\ pipe[h][i].msg = m
<1> SUFFICES ASSUME NEW c \in Starts, NEW m \in Msgs, In(c, m),
                    ~ \E i \in 1..2 : Holds(c, h, i) /\ pipe[h][i].msg = m
             PROVE  In(c, m)'
  OBVIOUS
<1>1. PICK g \in Procs, j \in 1..2 : Holds(c, g, j) /\ pipe[g][j].msg = m
  BY DEF In
<1>2. Holds(c, g, j)' /\ pipe'[g][j].msg = m
  BY <1>1 DEF Becomes, Holds, Has
<1> QED
  BY <1>2 DEF In

LEMMA CreateIn ==
    ASSUME PipeInv, NEW l \in Starts, CreatePipe(l), Count(l) = 0
    PROVE  /\ KeepsIn
           /\ \A g \in Procs \ {l} : Count(g)' = Count(g)
           /\ ~Fails(l) => Count(l)' # 0
<1>0. l \in Procs
  BY Names
<1>1. CASE pipe' = pipe /\ Fails(l)
  BY <1>1, StaysIn DEF SameCounts
<1>2. CASE pipe' = [pipe EXCEPT ![l] = <<Free>>]
  <2> DEFINE q == <<Free>>
  <2>1. q \in Seq(Instance) /\ Len(q) = 1
    BY FreeIs
  <2> HIDE DEF q
  <2>2. Becomes(l, q)
    BY <1>0, <1>2, <2>1, Replaced DEF q
  <2>3. \A c \in Starts : \A i \in 1..2 : ~Holds(c, l, i)
    BY DEF Holds, Has
  <2>4. KeepsIn
    BY <1>0, <2>2, <2>3, BecomesIn DEF KeepsIn
  <2> QED
    BY <2>1, <2>2, <2>4 DEF Becomes
<1> QED
  BY <1>1, <1>2 DEF CreatePipe

LEMMA EndsIn ==
    ASSUME PipeInv, NEW h \in Procs, Ends(h)
    PROVE  /\ Count(h)' = 0 /\ \A g \in Procs \ {h} : Count(g)' = Count(g)
           /\ \A c \in Starts : \A m \in Msgs :
                In(c, m) => In(c, m)' \/ \E i \in 1..2 : Holds(c, h, i) /\ pipe[h][i].msg = m
<1> DEFINE q == <<>>
<1>1. q \in Seq(Instance) /\ Len(q) = 0
  OBVIOUS
<1> HIDE DEF q
<1>2. pipe' = [pipe EXCEPT ![h] = q]
  BY DEF Ends, q
<1>3. Becomes(h, q)
  BY <1>1, <1>2, Replaced
<1> QED
  BY <1>1, <1>3, BecomesIn DEF Becomes

(* A pipe and a closing flag are those of a process that has gone on past   *)
(* its own creation; one that was joined is empty, and its slot emptied.    *)
Late  == {"teardown", "leaving", "released"}
Ended == {"leaving", "released"}

House(h) == /\ Count(h) # 0 => at[h] \in Alive
            /\ h \in closing => at[h] \in Closer \cup Ended
            /\ at[h] \in Late /\ h \notin unread => Count(h) = 0
            /\ at[h] \in Ended /\ h \notin unread => pending[h] = None

HouseInv == \A h \in Procs : House(h)

(* A step that leaves pipes, slots and flags alone, of a process that goes  *)
(* on within its part of its life.                                          *)
LEMMA HouseMoves ==
    ASSUME IInv, HouseInv, NEW p \in Procs, NEW s, at' = at \/ Step(p, s),
           SameCounts, UNCHANGED <<closing, unread, pending>>,
           at[p] \in Alive => s \in Alive,
           at[p] \in Closer \cup Ended => s \in Closer \cup Ended,
           s \in Late => at[p] \in Late, s \in Ended => at[p] \in Ended
    PROVE  HouseInv'
<1>1. ASSUME NEW h \in Procs PROVE House(h)'
  <2>1. House(h) /\ Count(h)' = Count(h) /\ at'[h] = IF at' # at /\ h = p THEN s ELSE at[h]
    BY DEF HouseInv, SameCounts, IInv, Step
  <2> QED
    BY <2>1 DEF House
<1> QED
  BY <1>1 DEF HouseInv

LEMMA LaunchHouse ==
    ASSUME IInv, PipeInv, HouseInv, NEW l \in Starts,
           Start(l) \/ LaunchStep(l) \/ GraceElapses(l) \/ BudgetSpent(l) \/ Quit(l)
    PROVE  HouseInv'
<1>0. l \in Procs /\ (pipe' = pipe => SameCounts)
  BY Names, StaysIn
<1> USE DEF Alive, Late, Ended, Serving, Closer, links
<1>1. CASE Start(l)
  BY <1>0, <1>1, HouseMoves DEF Start
<1>2. CASE Connect(l)
  <2>1. SameCounts
    BY <1>2, ConnectTakes, TakesIn DEF Msgs
  <2> QED
    BY <1>0, <1>2, <2>1, HouseMoves DEF Connect, Asking
<1>3. CASE FindNone(l)
  BY <1>0, <1>3, HouseMoves DEF FindNone
<1>4. CASE TakeOver(l)
  BY <1>0, <1>4, HouseMoves DEF TakeOver
<1>5. CASE LookAgain(l)
  BY <1>0, <1>5, HouseMoves DEF LookAgain
<1>6. CASE NoListener(l)
  BY <1>0, <1>6, HouseMoves DEF NoListener
<1>7. CASE WriteLink(l)
  <2>1. PICK msg \in {"link", "closed"} : pipe' = Put(l, msg)
    BY <1>7 DEF WriteLink
  <2>2. SameCounts
    BY <2>1, PutWrites, WritesIn
  <2> QED
    BY <1>0, <1>7, <2>2, HouseMoves DEF WriteLink
<1>8. CASE AskFocus(l)
  BY <1>0, <1>8, HouseMoves DEF AskFocus
<1>9. CASE ProbeLegacy(l)
  BY <1>0, <1>9, HouseMoves DEF ProbeLegacy, LegacyLock
<1>10. CASE DropLock(l)
  BY <1>0, <1>10, HouseMoves DEF DropLock
<1>11. CASE CreateFocus(l)
  BY <1>0, <1>11, HouseMoves DEF CreateFocus
<1>12. CASE CreatePipe(l)
  <2>1. Count(l) = 0 /\ l \notin closing
    BY <1>0, <1>12 DEF CreatePipe, HouseInv, House
  <2>2. \A g \in Procs \ {l} : Count(g)' = Count(g)
    BY <1>12, <2>1, CreateIn
  <2>3. Step(l, "boot") /\ UNCHANGED <<closing, unread, pending>>
    BY <1>12 DEF CreatePipe
  <2>4. ASSUME NEW h \in Procs PROVE House(h)'
    BY <1>0, <2>1, <2>2, <2>3 DEF HouseInv, House, IInv, Step
  <2> QED
    BY <2>4 DEF HouseInv
<1>13. CASE OwnLink(l)
  <2>1. Step(l, "up") /\ UNCHANGED <<pipe, closing, unread>> /\ at[l] = "boot"
    BY <1>13 DEF OwnLink
  <2>2. \A h \in Procs \ {l} : pending'[h] = pending[h]
    BY <1>13 DEF OwnLink, Deliver, PipeInv, Shapes
  <2>3. ASSUME NEW h \in Procs PROVE House(h)'
    BY <1>0, <2>1, <2>2 DEF HouseInv, House, IInv, Step, SameCounts
  <2> QED
    BY <2>3 DEF HouseInv
<1>14. CASE GraceElapses(l)
  BY <1>0, <1>14, HouseMoves DEF GraceElapses
<1>15. CASE BudgetSpent(l)
  BY <1>0, <1>15, HouseMoves DEF BudgetSpent, Unanswered
<1>16. CASE Quit(l)
  <2>1. /\ Step(l, "stop") /\ UNCHANGED <<pipe, pending, unread>> /\ at[l] \in Serving
        /\ closing' = closing \cup {l}
    BY <1>16 DEF Quit
  <2>2. ASSUME NEW h \in Procs PROVE House(h)'
    BY <1>0, <2>1 DEF HouseInv, House, IInv, Step, SameCounts
  <2> QED
    BY <2>2 DEF HouseInv
<1> QED
  BY <1>1, <1>2, <1>3, <1>4, <1>5, <1>6, <1>7, <1>8, <1>9, <1>10, <1>11, <1>12, <1>13, <1>14,
     <1>15, <1>16 DEF LaunchStep

LEMMA HolderHouse ==
    ASSUME IInv, PipeInv, HouseInv, NEW h \in Procs, HolderStep(h) \/ ListenStep(h) \/ Crash(h)
    PROVE  HouseInv'
<1>0. /\ pipe' = pipe => SameCounts
      /\ Count(h) = 0 <=> listener[h] = "none"
      /\ House(h)
  BY StaysIn DEF PipeInv, Instances, HouseInv
<1> USE DEF Alive, Late, Ended, Serving, Closer, links
<1>1. CASE Show(h)
  <2>1. UNCHANGED <<at, pipe, closing, unread>>
    BY <1>1 DEF Show
  <2>2. \A g \in Procs : pending'[g] = pending[g] \/ pending'[g] = None
    BY <1>1 DEF Show, PipeInv, Shapes
  <2>3. ASSUME NEW g \in Procs PROVE House(g)'
    BY <1>0, <2>1, <2>2 DEF HouseInv, House, SameCounts
  <2> QED
    BY <2>3 DEF HouseInv
<1>2. CASE CloseFocus(h)
  BY <1>0, <1>2, HouseMoves DEF CloseFocus
<1>3. CASE Wake(h)
  <2>1. SameCounts
    BY <1>0, <1>3, WakeTakes, TakesIn DEF Msgs
  <2> QED
    BY <1>3, <2>1, HouseMoves DEF Wake
<1>4. CASE JoinLink(h)
  <2>1. /\ Step(h, "teardown") /\ UNCHANGED <<pipe, closing, pending>> /\ at[h] = "join"
        /\ \/ listener[h] = "none" /\ unread' = unread
           \/ unread' = unread \cup {h}
    BY <1>4 DEF JoinLink
  <2>2. ASSUME NEW g \in Procs PROVE House(g)'
    BY <1>0, <2>1 DEF HouseInv, House, IInv, Step, SameCounts
  <2> QED
    BY <2>2 DEF HouseInv
<1>5. CASE Teardown(h)
  <2>1. /\ Step(h, "leaving") /\ UNCHANGED <<pipe, closing, unread>> /\ at[h] = "teardown"
        /\ pending' = [pending EXCEPT ![h] = None]
    BY <1>5 DEF Teardown, ReportUnshown
  <2>2. pending'[h] = None /\ \A g \in Procs \ {h} : pending'[g] = pending[g]
    BY <2>1 DEF PipeInv, Shapes
  <2>3. ASSUME NEW g \in Procs PROVE House(g)'
    BY <1>0, <2>1, <2>2 DEF HouseInv, House, IInv, Step, SameCounts
  <2> QED
    BY <2>3 DEF HouseInv
<1>6. CASE Release(h)
  BY <1>0, <1>6, HouseMoves DEF Release
<1>7. CASE Met(h)
  BY <1>0, <1>7, HouseMoves DEF Met
<1>8. CASE MakeNext(h)
  <2>1. Makes(h) /\ UNCHANGED <<at, closing, unread, pending>>
    BY <1>8, MakeMakes DEF MakeNext
  <2>2. ASSUME NEW g \in Procs PROVE House(g)'
    BY <1>0, <2>1 DEF HouseInv, House, Makes
  <2> QED
    BY <2>2 DEF HouseInv
<1>9. CASE Serve(h)
  <2>1. Serves(h) /\ UNCHANGED <<at, closing, unread>>
    BY <1>9, ServeServes DEF Serve
  <2>2. \A g \in Procs \ {h} : pending'[g] = pending[g]
    BY <1>9 DEF Serve, Deliver, PipeInv, Shapes
  <2>3. ASSUME NEW g \in Procs PROVE House(g)'
    BY <1>0, <2>1, <2>2 DEF HouseInv, House, Serves
  <2> QED
    BY <2>3 DEF HouseInv
<1>10. CASE Exit(h) \/ Crash(h)
  <2>1. Ends(h) /\ unread' = unread
    BY <1>10 DEF Exit, Crash
  <2>2. /\ Step(h, "gone") /\ closing' = closing \ {h}
        /\ \A g \in Procs \ {h} : pending'[g] = pending[g]
    BY <2>1 DEF Ends, PipeInv, Shapes
  <2>3. Count(h)' = 0 /\ \A g \in Procs \ {h} : Count(g)' = Count(g)
    BY <2>1, EndsIn
  <2>4. ASSUME NEW g \in Procs PROVE House(g)'
    BY <2>1, <2>2, <2>3 DEF HouseInv, House, IInv, Step
  <2> QED
    BY <2>4 DEF HouseInv
<1> QED
  BY <1>1, <1>2, <1>3, <1>4, <1>5, <1>6, <1>7, <1>8, <1>9, <1>10 DEF HolderStep, ListenStep

LEMMA HouseStep == ASSUME IInv, PipeInv, HouseInv, [Next]_vars PROVE HouseInv'
<1>1. CASE Next
  BY <1>1, LaunchHouse, HolderHouse DEF Next
<1>2. CASE UNCHANGED vars
  BY <1>2 DEF vars, links, HouseInv, House, Count
<1> QED
  BY <1>1, <1>2

LEMMA HouseInit == ASSUME Init PROVE HouseInv
<1>1. ASSUME NEW h \in Procs PROVE House(h)
  <2>1. /\ h \notin closing /\ pending[h] = None
        /\ at[h] = IF h # Old THEN "new" ELSE IF May("earlier") THEN "up" ELSE "gone"
        /\ pipe[h] = IF h = Old /\ May("earlier") THEN <<Free>> ELSE <<>>
    BY DEF Init
  <2>2. Count(h) # 0 => h = Old /\ May("earlier")
    BY <2>1 DEF Count
  <2> QED
    BY <2>1, <2>2 DEF House, Alive, Late, Ended, Serving, Closer
<1> QED
  BY <1>1 DEF HouseInv

(* What a fate stands on: a link that landed is in an instance, one that is *)
(* pending in a slot, one that was lost was said, and a launch that has     *)
(* delivered or said its link, or has none, carries none any more.          *)
Fates == {"none", "carried", "landed", "reported", "pending", "superseded", "shown",
          "refused", "unshown", "lost", "crashed"}
Done  == {"up", "dropLock", "gone"} \cup Closer \cup Ended \cup {"released"}

Fated(l) == /\ fate[l] = "lost" => unread # {}
            /\ fate[l] = "carried" => l \in carries /\ at[l] \notin Done
            /\ fate[l] = "landed" => l \in carries /\ In(l, "link")
            /\ fate[l] = "pending" => \E h \in Procs : pending[h] = l

FateInv == fate \in [Starts -> Fates] /\ \A l \in Starts : Fated(l)

(* A step that leaves slots and fates alone, and takes no instance.         *)
LEMMA FateMoves ==
    ASSUME IInv, FateInv, NEW p \in Procs, NEW s, at' = at \/ Step(p, s),
           KeepsIn, UNCHANGED <<links, carries>>, unread \subseteq unread',
           s \in Done => at[p] \in Done
    PROVE  FateInv'
<1>1. ASSUME NEW l \in Starts PROVE Fated(l)'
  <2>1. Fated(l) /\ fate'[l] = fate[l] /\ pending' = pending /\ carries' = carries
    BY DEF FateInv, links
  <2>2. In(l, "link") => In(l, "link")'
    BY DEF KeepsIn, Msgs
  <2>3. at'[l] = at[l] \/ (l = p /\ at'[l] = s)
    BY Names DEF IInv, Step
  <2> QED
    BY <2>1, <2>2, <2>3 DEF Fated
<1> QED
  BY <1>1 DEF FateInv, links

(* The link l comes into the slot of h, over the one that is there.         *)
LEMMA FateDelivers ==
    ASSUME IInv, PipeInv, FateInv, NEW h \in Procs, NEW l \in Starts, Deliver(h, l),
           at' = at \/ Step(l, "up"), UNCHANGED <<carries, unread>>,
           \A c \in Starts \ {l} : In(c, "link") => In(c, "link")'
    PROVE  FateInv'
<1>1. pending' = [pending EXCEPT ![h] = l] /\ pending \in [Procs -> Starts \cup {None}]
  BY DEF Deliver, PipeInv, Shapes
<1>2. fate' = [k \in Starts |-> IF k = l THEN "pending"
                               ELSE IF k = pending[h] THEN "superseded" ELSE fate[k]]
  BY DEF Deliver
<1>3. fate' \in [Starts -> Fates]
  BY <1>2 DEF FateInv, Fates
<1>4. ASSUME NEW k \in Starts PROVE Fated(k)'
  <2>1. CASE k = l
    <3>1. fate'[k] = "pending" /\ pending'[h] = k
      BY <1>1, <1>2, <2>1
    <3> QED
      BY <3>1 DEF Fated
  <2>2. CASE k # l /\ k = pending[h]
    <3>1. fate'[k] = "superseded"
      BY <1>2, <2>2
    <3> QED
      BY <3>1 DEF Fated
  <2>3. CASE k # l /\ k # pending[h]
    <3>1. fate'[k] = fate[k] /\ Fated(k) /\ at'[k] = at[k]
      BY <1>2, <2>3, Names DEF FateInv, IInv, Step
    <3>2. \A g \in Procs : pending[g] = k => pending'[g] = k
      BY <1>1, <2>3
    <3>3. In(k, "link") => In(k, "link")'
      BY <2>3
    <3> QED
      BY <3>1, <3>2, <3>3 DEF Fated
  <2> QED
    BY <2>1, <2>2, <2>3
<1> QED
  BY <1>3, <1>4 DEF FateInv

(* The links of some launches come to an end, x, and no other changes.      *)
LEMMA FateEnds ==
    ASSUME IInv, FateInv, NEW L \in SUBSET Starts,
           NEW x \in {"reported", "shown", "refused", "unshown", "lost", "crashed"},
           fate' = [k \in Starts |-> IF k \in L THEN x ELSE fate[k]],
           UNCHANGED <<carries, unread>>, x = "lost" /\ L # {} => unread # {},
           NEW p \in Procs, NEW s, at' = at \/ Step(p, s),
           p \in Starts \ L /\ fate[p] = "carried" /\ s \in Done => at[p] \in Done,
           \A k \in Starts \ L : In(k, "link") => In(k, "link")',
           \A k \in Starts \ L : \A g \in Procs : pending[g] = k => pending'[g] = k
    PROVE  FateInv'
<1>1. fate' \in [Starts -> Fates]
  BY DEF FateInv, Fates
<1>2. ASSUME NEW k \in Starts PROVE Fated(k)'
  <2>1. CASE k \in L
    BY <2>1 DEF Fated
  <2>2. CASE k \notin L
    <3>1. fate'[k] = fate[k] /\ Fated(k)
      BY <2>2 DEF FateInv
    <3>2. at'[k] = at[k] \/ (k = p /\ at'[k] = s)
      BY Names DEF IInv, Step
    <3> QED
      BY <2>2, <3>1, <3>2 DEF Fated
  <2> QED
    BY <2>1, <2>2
<1> QED
  BY <1>1, <1>2 DEF FateInv

LEMMA FateInit == ASSUME Init PROVE FateInv
<1>1. fate = [l \in Starts |-> IF l \in carries THEN "carried" ELSE "none"]
  BY DEF Init
<1>2. \A l \in Starts : at[l] = "new"
  BY Names DEF Init
<1> QED
  BY <1>1, <1>2 DEF FateInv, Fated, Fates, Done, Closer, Ended

LEMMA LaunchFate ==
    ASSUME IInv, PipeInv, HouseInv, FateInv, NEW l \in Starts,
           Start(l) \/ LaunchStep(l) \/ GraceElapses(l) \/ BudgetSpent(l) \/ Quit(l)
    PROVE  FateInv'
<1>0. l \in Procs /\ (pipe' = pipe => KeepsIn)
  BY Names, StaysIn
<1> USE DEF Done, Ended, Closer
<1>1. CASE Start(l)
  BY <1>0, <1>1, FateMoves DEF Start
<1>2. CASE Connect(l)
  <2>1. KeepsIn
    BY <1>2, ConnectTakes, TakesIn DEF Msgs
  <2> QED
    BY <1>0, <1>2, <2>1, FateMoves DEF Connect
<1>3. CASE FindNone(l)
  BY <1>0, <1>3, FateMoves DEF FindNone
<1>4. CASE TakeOver(l)
  BY <1>0, <1>4, FateMoves DEF TakeOver
<1>5. CASE LookAgain(l)
  BY <1>0, <1>5, FateMoves DEF LookAgain
<1>6. CASE NoListener(l)
  BY <1>0, <1>6, FateMoves DEF NoListener
<1>7. CASE WriteLink(l)
  <2>1. CASE l \in carries /\ Taken(l) # {}
    <3>1. /\ pipe' = Put(l, "link") /\ fate' = [fate EXCEPT ![l] = "landed"]
          /\ UNCHANGED <<carries, pending, unread>>
          /\ \E s \in {"gone", "dropLock"} : Step(l, s)
      BY <1>7, <2>1 DEF WriteLink
    <3>2. /\ \A c \in Starts \ {l} : In(c, "link") => In(c, "link")'
          /\ \A m \in Msgs : In(l, m) => In(l, "link")'
      BY <3>1, PutWrites, WritesIn DEF Msgs
    <3>3. \E m \in Msgs : In(l, m)
      <4>1. PICK g \in Procs, j \in 1..2 : Holds(l, g, j)
        BY <2>1 DEF Taken, Holds, Has, Count, PipeInv, Shapes
      <4>2. pipe[g][j] \in Instance
        <5>1. pipe[g] \in Seq(Instance) /\ j \in 1..Len(pipe[g])
          BY <4>1 DEF PipeInv, Shapes, Holds, Has, Count
        <5> QED
          BY <5>1, ElementOfSeq
      <4>3. pipe[g][j].msg \in Msgs
        BY <4>2 DEF Instance, Msgs
      <4> QED
        BY <4>1, <4>3 DEF In
    <3>4. fate'[l] = "landed" /\ \A k \in Starts \ {l} : fate'[k] = fate[k] /\ at'[k] = at[k]
      BY <3>1, Names DEF FateInv, IInv, Step
    <3>5. ASSUME NEW k \in Starts PROVE Fated(k)'
      <4>1. CASE k = l
        <5>1. fate'[k] = "landed" /\ l \in carries' /\ In(l, "link")'
          BY <2>1, <3>1, <3>2, <3>3, <3>4, <4>1
        <5> QED
          BY <4>1, <5>1 DEF Fated
      <4>2. CASE k # l
        <5>1. In(k, "link") => In(k, "link")'
          BY <3>2, <4>2
        <5> QED
          BY <3>1, <3>4, <4>2, <5>1 DEF FateInv, Fated
      <4> QED
        BY <4>1, <4>2
    <3> QED
      BY <3>1, <3>5 DEF FateInv, Fates
  <2>2. CASE ~(l \in carries /\ Taken(l) # {})
    <3>1. /\ pipe' = Put(l, "closed") /\ UNCHANGED <<links, carries, unread>>
          /\ \E s \in {"focus", "deferFocus"} : Step(l, s)
      BY <1>7, <2>2 DEF WriteLink, links
    <3>2. \A c \in Starts \ {l} : In(c, "link") => In(c, "link")'
      BY <3>1, PutWrites, WritesIn DEF Msgs
    <3>3. fate[l] # "landed"
      <4>1. ASSUME In(l, "link") PROVE Taken(l) # {}
        <5>1. PICK g \in Procs, j \in 1..2 : Holds(l, g, j)
          BY <4>1 DEF In
        <5>2. <<g, j>> \in Taken(l)
          BY <5>1 DEF Taken, Holds, Has, Count
        <5> QED
          BY <5>2
      <4> QED
        BY <2>2, <4>1 DEF FateInv, Fated
    <3>4. \A k \in Starts : at'[k] \in Done => at[k] \in Done
      BY <3>1, Names DEF IInv, Step
    <3>5. ASSUME NEW k \in Starts PROVE Fated(k)'
      BY <3>1, <3>2, <3>3, <3>4 DEF FateInv, Fated, links
    <3> QED
      BY <3>1, <3>5 DEF FateInv, links
  <2> QED
    BY <2>1, <2>2
<1>8. CASE AskFocus(l)
  <2>1. /\ fate' = IF l \in carries THEN [fate EXCEPT ![l] = "reported"] ELSE fate
        /\ UNCHANGED <<carries, pending, unread, pipe>>
        /\ \E s \in {"gone", "dropLock"} : Step(l, s)
    BY <1>8 DEF AskFocus
  <2> DEFINE L == IF l \in carries THEN {l} ELSE {}
  <2>2. fate' = [k \in Starts |-> IF k \in L THEN "reported" ELSE fate[k]]
    BY <2>1 DEF FateInv
  <2>3. \A k \in Starts \ L : In(k, "link") => In(k, "link")'
    BY <1>0, <2>1 DEF KeepsIn, Msgs
  <2>4. l \notin L => fate[l] # "carried"
    BY DEF FateInv, Fated
  <2>5. L \in SUBSET Starts
    OBVIOUS
  <2> HIDE DEF L
  <2> QED
    BY <1>0, <2>1, <2>2, <2>3, <2>4, <2>5, FateEnds
<1>9. CASE ProbeLegacy(l)
  BY <1>0, <1>9, FateMoves DEF ProbeLegacy, LegacyLock
<1>10. CASE DropLock(l)
  BY <1>0, <1>10, FateMoves DEF DropLock
<1>11. CASE CreateFocus(l)
  BY <1>0, <1>11, FateMoves DEF CreateFocus
<1>12. CASE CreatePipe(l)
  <2>1. KeepsIn
    <3>1. Count(l) = 0
      BY <1>0, <1>12 DEF CreatePipe, HouseInv, House, Alive, Serving
    <3> QED
      BY <1>12, <3>1, CreateIn
  <2> QED
    BY <1>0, <1>12, <2>1, FateMoves DEF CreatePipe
<1>13. CASE OwnLink(l)
  <2>1. at[l] = "boot" /\ Step(l, "up") /\ UNCHANGED <<carries, pipe, unread>>
    BY <1>13 DEF OwnLink
  <2>2. KeepsIn
    BY <1>0, <2>1
  <2>3. CASE l \in carries
    <3>1. Deliver(l, l)
      BY <1>13, <2>3 DEF OwnLink
    <3> QED
      BY <1>0, <2>1, <2>2, <3>1, FateDelivers DEF KeepsIn, Msgs
  <2>4. CASE l \notin carries
    <3>1. UNCHANGED links
      BY <1>13, <2>4 DEF OwnLink
    <3>2. fate[l] # "carried"
      BY <2>4 DEF FateInv, Fated
    <3>3. ASSUME NEW k \in Starts PROVE Fated(k)'
      <4>1. at'[k] = at[k] \/ k = l
        BY <2>1, Names DEF IInv, Step
      <4> QED
        BY <2>1, <2>2, <3>1, <3>2, <4>1 DEF FateInv, Fated, KeepsIn, Msgs, links
    <3> QED
      BY <3>1, <3>3 DEF FateInv, links
  <2> QED
    BY <2>3, <2>4
<1>14. CASE GraceElapses(l)
  BY <1>0, <1>14, FateMoves DEF GraceElapses
<1>15. CASE BudgetSpent(l)
  BY <1>0, <1>15, FateMoves DEF BudgetSpent, Unanswered
<1>16. CASE Quit(l)
  <2>1. /\ fate' = IF at[l] = "boot" /\ l \in carries THEN [fate EXCEPT ![l] = "refused"] ELSE fate
        /\ UNCHANGED <<carries, pending, unread, pipe>>
        /\ Step(l, "stop") /\ at[l] \in {"boot", "up"}
    BY <1>16 DEF Quit, Serving
  <2> DEFINE L == IF at[l] = "boot" /\ l \in carries THEN {l} ELSE {}
  <2>2. fate' = [k \in Starts |-> IF k \in L THEN "refused" ELSE fate[k]]
    BY <2>1 DEF FateInv
  <2>3. \A k \in Starts \ L : In(k, "link") => In(k, "link")'
    BY <1>0, <2>1 DEF KeepsIn, Msgs
  <2>4. l \notin L => fate[l] # "carried"
    BY <2>1 DEF FateInv, Fated
  <2>5. L \in SUBSET Starts
    OBVIOUS
  <2> HIDE DEF L
  <2> QED
    BY <1>0, <2>1, <2>2, <2>3, <2>4, <2>5, FateEnds
<1> QED
  BY <1>1, <1>2, <1>3, <1>4, <1>5, <1>6, <1>7, <1>8, <1>9, <1>10, <1>11, <1>12, <1>13, <1>14,
     <1>15, <1>16 DEF LaunchStep

LEMMA HolderFate ==
    ASSUME IInv, PipeInv, HouseInv, FateInv, NEW h \in Procs,
           HolderStep(h) \/ ListenStep(h) \/ Crash(h)
    PROVE  FateInv'
<1>0. pipe' = pipe => KeepsIn
  BY StaysIn
<1> USE DEF Done, Ended, Closer
<1>1. CASE Show(h)
  <2> DEFINE L == {pending[h]}
  <2>1. pending[h] \in Starts /\ pending \in [Procs -> Starts \cup {None}]
    BY <1>1 DEF Show, PipeInv, Shapes
  <2>2. /\ fate' = [k \in Starts |-> IF k \in L THEN "shown" ELSE fate[k]]
        /\ pending' = [pending EXCEPT ![h] = None]
        /\ UNCHANGED <<carries, unread, pipe, at>>
    BY <1>1, <2>1 DEF Show, FateInv
  <2>3. \A k \in Starts \ L : In(k, "link") => In(k, "link")'
    BY <1>0, <2>2 DEF KeepsIn, Msgs
  <2>4. \A k \in Starts \ L : \A g \in Procs : pending[g] = k => pending'[g] = k
    BY <2>1, <2>2
  <2>5. L \in SUBSET Starts
    BY <2>1
  <2> HIDE DEF L
  <2> QED
    BY <2>2, <2>3, <2>4, <2>5, FateEnds
<1>2. CASE CloseFocus(h)
  BY <1>0, <1>2, FateMoves DEF CloseFocus
<1>3. CASE Wake(h)
  <2>1. KeepsIn
    BY <1>0, <1>3, WakeTakes, TakesIn DEF Msgs
  <2> QED
    BY <1>3, <2>1, FateMoves DEF Wake
<1>4. CASE JoinLink(h)
  BY <1>0, <1>4, FateMoves DEF JoinLink
<1>5. CASE Teardown(h)
  <2> DEFINE L == {pending[h]} \ {None}
  <2>1. pending[h] \in Starts \cup {None} /\ pending \in [Procs -> Starts \cup {None}]
    BY DEF PipeInv, Shapes
  <2>2. None \notin Starts
    BY Names
  <2>3. /\ fate' = [k \in Starts |-> IF k \in L THEN "unshown" ELSE fate[k]]
        /\ pending' = [pending EXCEPT ![h] = None]
        /\ UNCHANGED <<carries, unread, pipe>> /\ Step(h, "leaving") /\ at[h] = "teardown"
    BY <1>5, <2>1, <2>2 DEF Teardown, ReportUnshown, FateInv
  <2>4. \A k \in Starts \ L : In(k, "link") => In(k, "link")'
    BY <1>0, <2>3 DEF KeepsIn, Msgs
  <2>5. \A k \in Starts \ L : \A g \in Procs : pending[g] = k => pending'[g] = k
    BY <2>1, <2>2, <2>3
  <2>6. L \in SUBSET Starts
    BY <2>1
  <2> HIDE DEF L
  <2> QED
    BY <2>3, <2>4, <2>5, <2>6, FateEnds
<1>6. CASE Release(h)
  BY <1>0, <1>6, FateMoves DEF Release
<1>7. CASE Met(h)
  BY <1>0, <1>7, FateMoves DEF Met
<1>8. CASE MakeNext(h)
  <2>1. KeepsIn
    BY <1>8, MakeMakes, MakesIn
  <2> QED
    BY <1>8, <2>1, FateMoves DEF MakeNext
<1>9. CASE Serve(h)
  <2>1. /\ Serves(h) /\ UNCHANGED <<at, carries, unread>> /\ Has(h, 1)
        /\ \/ pipe[h][1].msg = "link" /\ Deliver(h, pipe[h][1].by)
           \/ pipe[h][1].msg # "link" /\ UNCHANGED links
    <3>1. Serves(h)
      BY <1>9, ServeServes
    <3>2. Has(h, 1)
      BY <3>1 DEF Serves, Has
    <3> QED
      BY <1>9, <3>1, <3>2 DEF Serve
  <2>2. \A c \in Starts : In(c, "link") =>
            In(c, "link")' \/ (Holds(c, h, 1) /\ pipe[h][1].msg = "link")
    BY <2>1, ServesIn DEF Msgs
  <2>3. CASE pipe[h][1].msg = "link" /\ Deliver(h, pipe[h][1].by)
    <3>1. pipe[h][1].by \in Starts
      BY <2>1, <2>3 DEF PipeInv, LinksHaveClients
    <3>2. \A c \in Starts \ {pipe[h][1].by} : In(c, "link") => In(c, "link")'
      BY <2>2 DEF Holds
    <3> QED
      BY <2>1, <2>3, <3>1, <3>2, FateDelivers
  <2>4. CASE pipe[h][1].msg # "link" /\ UNCHANGED links
    <3>1. ASSUME NEW k \in Starts PROVE Fated(k)'
      BY <2>1, <2>2, <2>4 DEF FateInv, Fated, links
    <3> QED
      BY <2>4, <3>1 DEF FateInv, links
  <2> QED
    BY <2>1, <2>3, <2>4
<1>10. CASE Exit(h) \/ Crash(h)
  <2>1. Ends(h) /\ Step(h, "gone") /\ UNCHANGED <<carries, unread>>
    BY <1>10 DEF Exit, Crash, Ends
  <2>2. /\ pending' = [pending EXCEPT ![h] = None]
        /\ pending \in [Procs -> Starts \cup {None}]
    BY <2>1 DEF Ends, PipeInv, Shapes
  <2>3. \A k \in Starts \ Unheard(h) : pending[h] # k /\ (In(k, "link") => In(k, "link")')
    <3>1. ASSUME NEW k \in Starts, NEW i \in 1..2, Holds(k, h, i), pipe[h][i].msg = "link"
          PROVE  k \in Unheard(h)
      <4>1. i \in DOMAIN pipe[h]
        BY <3>1 DEF Holds, Has, Count, PipeInv, Shapes
      <4> QED
        BY <3>1, <4>1 DEF Holds, Unheard
    <3>2. \A k \in Starts : In(k, "link") =>
             In(k, "link")' \/ \E i \in 1..2 : Holds(k, h, i) /\ pipe[h][i].msg = "link"
      BY <2>1, EndsIn DEF Msgs
    <3> QED
      BY <3>1, <3>2 DEF Unheard
  <2>5. CASE Exit(h)
    <3> DEFINE L == Unheard(h)
    <3>1. fate' = [k \in Starts |-> IF k \in L THEN "lost" ELSE fate[k]] /\ at[h] = "released"
      BY <2>5 DEF Exit
    <3>2. L # {} => h \in unread
      <4>1. SUFFICES ASSUME NEW k \in Unheard(h), h \notin unread PROVE FALSE
        OBVIOUS
      <4>2. Count(h) = 0 /\ pending[h] = None
        BY <3>1, <4>1 DEF HouseInv, House, Late
      <4>3. DOMAIN pipe[h] = {}
        BY <4>2 DEF Count, PipeInv, Shapes
      <4> QED
        BY <4>1, <4>2, <4>3, Names DEF Unheard
    <3>3. L \in SUBSET Starts
      BY DEF Unheard
    <3> HIDE DEF L
    <3>4. \A k \in Starts \ L : pending[h] # k /\ (In(k, "link") => In(k, "link")')
      BY <2>3 DEF L
    <3>5. \A k \in Starts \ L : \A g \in Procs : pending[g] = k => pending'[g] = k
      BY <2>2, <3>4
    <3>6. "gone" \in Done /\ at[h] \in Done
      BY <3>1
    <3> HIDE DEF Done
    <3> QED
      BY <2>1, <3>1, <3>2, <3>3, <3>4, <3>5, <3>6, FateEnds
  <2>6. CASE Crash(h)
    <3> DEFINE L == {l \in Starts : l \in Unheard(h) \/ (l = h /\ fate[l] = "carried")}
    <3>1. fate' = [k \in Starts |-> IF k \in L THEN "crashed" ELSE fate[k]]
      BY <2>6 DEF Crash
    <3>2. h \in Starts \ L => fate[h] # "carried"
      OBVIOUS
    <3>3. L \in SUBSET Starts /\ Unheard(h) \subseteq L
      BY DEF Unheard
    <3> HIDE DEF L
    <3>4. \A k \in Starts \ L : pending[h] # k /\ (In(k, "link") => In(k, "link")')
      BY <2>3, <3>3
    <3>5. \A k \in Starts \ L : \A g \in Procs : pending[g] = k => pending'[g] = k
      BY <2>2, <3>4
    <3> HIDE DEF Done
    <3> QED
      BY <2>1, <3>1, <3>2, <3>3, <3>4, <3>5, FateEnds
  <2> QED
    BY <1>10, <2>5, <2>6
<1> QED
  BY <1>1, <1>2, <1>3, <1>4, <1>5, <1>6, <1>7, <1>8, <1>9, <1>10 DEF HolderStep, ListenStep

LEMMA FateStep == ASSUME IInv, PipeInv, HouseInv, FateInv, [Next]_vars PROVE FateInv'
<1>1. CASE Next
  BY <1>1, LaunchFate, HolderFate DEF Next
<1>2. CASE UNCHANGED vars
  <2>1. UNCHANGED <<fate, pending, carries, unread, at, pipe>>
    BY <1>2 DEF vars, links
  <2>2. KeepsIn
    BY <2>1, StaysIn
  <2>3. ASSUME NEW k \in Starts PROVE Fated(k)'
    BY <2>1, <2>2 DEF FateInv, Fated, KeepsIn, Msgs
  <2> QED
    BY <2>1, <2>3 DEF FateInv
<1> QED
  BY <1>1, <1>2

(***************************************************************************)
(* While nothing fails, every instance was joined and neither of the gaps  *)
(* has opened, a launch that looks for the holder finds it.                *)
(***************************************************************************)
Calm == incidents = {} /\ unread = {} /\ gaps = {}

Focused   == {"channel", "boot", "up", "stop"}
Listened  == {"boot", "up", "stop"}
Starting  == {"legacy", "events", "channel"}
Deferred  == {"defer", "deferPipe", "deferFocus", "dropLock"}
Watchable == Locked \cup {"released", "gone"}

(* No earlier build runs, and the legacy mutex is with the newer one.       *)
OldGone == at[Old] = "gone" /\ (legacy # None => at[legacy] \in Probed)

(* A holder has its event and its pipe until it closes them; a client at    *)
(* the pipe has an instance that nothing was written to; no launch with a   *)
(* link has been left to ask for focus.                                     *)
Tidy(p) == /\ p \in event <=> at[p] \in Focused
           /\ at[p] \in Listened => Count(p) # 0
           /\ listener[p] = "serve" /\ p \notin closing => Count(p) = 2
           /\ at[p] \notin Deferred
           /\ at[p] = "pipe" => In(p, "open")
           /\ at[p] = "focus" => p \notin carries
           /\ fate[p] # "reported"

(* A launch whose grace on the holder is over began it once the holder was  *)
(* past its start; if it finds no pipe, the holder is past its listeners.   *)
Finds(l) == /\ watched[l] # None => at[watched[l]] \in Watchable
            /\ patience[l] = "over" /\ watched[l] = lock /\ lock # None =>
                  /\ at[lock] \notin Starting
                  /\ at[l] = "absent" => at[lock] \notin Listened

CalmInv == /\ OldGone
           /\ watched \in [Starts -> Starts \cup {None}]
           /\ \A p \in Starts : Tidy(p) /\ Finds(p)

(* What may fail in a history, and what was missed, is never forgotten.     *)
LEMMA CalmBack == ASSUME [Next]_vars, Calm' PROVE Calm
<1>1. ASSUME NEW l \in Starts, Start(l) \/ LaunchStep(l) \/ GraceElapses(l) \/ BudgetSpent(l) \/ Quit(l)
      PROVE  incidents' = incidents /\ unread \subseteq unread' /\ gaps \subseteq gaps'
  <2>1. CASE Start(l) \/ GraceElapses(l) \/ BudgetSpent(l) \/ Quit(l)
    BY <2>1 DEF Start, GraceElapses, BudgetSpent, Unanswered, Quit, past
  <2>2. CASE Connect(l) \/ FindNone(l) \/ TakeOver(l) \/ LookAgain(l) \/ NoListener(l) \/ WriteLink(l)
    BY <2>2 DEF Connect, FindNone, TakeOver, LookAgain, NoListener, WriteLink, past
  <2>3. CASE AskFocus(l) \/ ProbeLegacy(l) \/ DropLock(l) \/ CreateFocus(l) \/ CreatePipe(l) \/ OwnLink(l)
    BY <2>3 DEF AskFocus, ProbeLegacy, DropLock, CreateFocus, CreatePipe, OwnLink, past
  <2> QED
    BY <1>1, <2>1, <2>2, <2>3 DEF LaunchStep
<1>2. ASSUME NEW h \in Procs, HolderStep(h) \/ ListenStep(h) \/ Crash(h)
      PROVE  incidents' = incidents /\ unread \subseteq unread' /\ gaps \subseteq gaps'
  <2>1. CASE Show(h) \/ CloseFocus(h) \/ Wake(h) \/ JoinLink(h) \/ Teardown(h) \/ Release(h)
    BY <2>1 DEF Show, CloseFocus, Wake, JoinLink, Teardown, Release, past
  <2>2. CASE Exit(h) \/ Met(h) \/ MakeNext(h) \/ Serve(h) \/ Crash(h)
    BY <2>2 DEF Exit, Met, MakeNext, Serve, Crash, past
  <2> QED
    BY <1>2, <2>1, <2>2 DEF HolderStep, ListenStep
<1>3. CASE UNCHANGED vars
  BY <1>3 DEF vars, past, Calm
<1> QED
  BY <1>1, <1>2, <1>3 DEF Next, Calm

LEMMA CalmInit == ASSUME Init, Calm PROVE CalmInv
<1>1. /\ ~May("earlier") /\ watched = [l \in Starts |-> None] /\ event = {} /\ legacy = None
      /\ at = [p \in Procs |-> IF p # Old THEN "new" ELSE "gone"]
      /\ listener = [p \in Procs |-> "none"]
      /\ patience = [l \in Starts |-> "none"]
      /\ fate = [l \in Starts |-> IF l \in carries THEN "carried" ELSE "none"]
  BY DEF Init, Calm, May
<1>2. OldGone
  BY <1>1, Names DEF OldGone, Procs
<1>3. ASSUME NEW p \in Starts PROVE Tidy(p) /\ Finds(p)
  <2>1. p \in Procs /\ p # Old
    BY Names
  <2>2. at[p] = "new" /\ listener[p] = "none" /\ watched[p] = None /\ patience[p] = "none"
    BY <1>1, <2>1
  <2>3. fate[p] # "reported"
    BY <1>1
  <2> QED
    BY <1>1, <2>2, <2>3 DEF Tidy, Finds, Focused, Listened, Deferred
<1> QED
  BY <1>1, <1>2, <1>3 DEF CalmInv

(* A step that leaves events and pipes as they are.                         *)
LEMMA TidyMoves ==
    ASSUME IInv, \A q \in Starts : Tidy(q),
           NEW p \in Procs, NEW s, at' = at \/ Step(p, s),
           KeepsIn, SameCounts, UNCHANGED <<event, carries>>,
           \A q \in Starts : fate'[q] = "reported" => fate[q] = "reported",
           \A q \in Starts : listener'[q] = "serve" /\ q \notin closing'
                                => listener[q] = "serve" /\ q \notin closing,
           s \in Focused <=> at[p] \in Focused, s \in Listened => at[p] \in Listened,
           s \notin Deferred, s = "pipe" => In(p, "open")', s = "focus" => at[p] = "focus" \/ p \notin carries
    PROVE  \A q \in Starts : Tidy(q)'
<1> SUFFICES ASSUME NEW q \in Starts PROVE Tidy(q)'
  OBVIOUS
<1>1. Tidy(q) /\ q \in Procs
  BY Names
<1>2. at'[q] = at[q] \/ (q = p /\ at'[q] = s)
  BY <1>1 DEF IInv, Step
<1>3. Count(q)' = Count(q) /\ (In(q, "open") => In(q, "open")')
  BY <1>1 DEF SameCounts, KeepsIn, Msgs
<1> QED
  BY <1>1, <1>2, <1>3 DEF Tidy

(* A step of a process that goes on with the newer mutex where it is.       *)
LEMMA FindsMoves ==
    ASSUME IInv, Shapes, CalmInv, NEW p \in Procs, NEW s, at' = at \/ Step(p, s),
           UNCHANGED <<lock, patience, watched>>,
           at[p] \in Watchable => s \in Watchable,
           s \in Starting => at[p] \in Starting,
           s \in Listened => at[p] \in Starting \cup Listened,
           s = "absent" => at[p] = "absent" \/ lock = None \/ at[lock] \notin Starting \cup Listened
                           \/ ~(patience[p] = "over" /\ watched[p] = lock)
    PROVE  watched' \in [Starts -> Starts \cup {None}] /\ \A q \in Starts : Finds(q)'
<1>1. ASSUME NEW q \in Procs PROVE at'[q] = at[q] \/ (q = p /\ at'[q] = s)
  BY DEF IInv, Step
<1>2. ASSUME NEW q \in Starts PROVE Finds(q)'
  <2>1. Finds(q) /\ q \in Procs /\ watched[q] \in Starts \cup {None} /\ lock \in Starts \cup {None}
    BY Names DEF CalmInv, Shapes
  <2>2. watched'[q] # None => at'[watched'[q]] \in Watchable
    <3>1. watched[q] # None => watched[q] \in Procs
      BY <2>1, Names
    <3> QED
      BY <1>1, <2>1, <3>1 DEF Finds
  <2>3. ASSUME patience'[q] = "over", watched'[q] = lock', lock' # None
        PROVE  at'[lock'] \notin Starting /\ (at'[q] = "absent" => at'[lock'] \notin Listened)
    <3>1. lock' = lock /\ lock \in Procs /\ at[lock] \notin Starting
      BY <2>1, <2>3, Names DEF Finds
    <3>2. at'[lock] = at[lock] \/ (lock = p /\ at'[lock] = s)
      BY <1>1, <3>1
    <3>3. at'[lock] \notin Starting
      BY <3>1, <3>2
    <3>4. ASSUME at'[q] = "absent" PROVE at'[lock] \notin Listened
      <4>1. at[q] = "absent" \/ (q = p /\ s = "absent")
        BY <1>1, <2>1, <3>4
      <4>2. CASE at[q] = "absent"
        <5>1. at[lock] \notin Listened
          BY <2>1, <2>3, <3>1, <4>2 DEF Finds
        <5> QED
          BY <3>1, <3>2, <5>1
      <4>3. CASE at[q] # "absent"
        <5>1. q = p /\ s = "absent" /\ at[lock] \notin Starting \cup Listened
          BY <2>3, <3>1, <4>1, <4>3
        <5> QED
          BY <3>2, <5>1 DEF Listened
      <4> QED
        BY <4>2, <4>3
    <3> QED
      BY <3>1, <3>3, <3>4
  <2> QED
    BY <2>2, <2>3 DEF Finds
<1> QED
  BY <1>2 DEF CalmInv

(* A launch that takes the newer mutex was watched by nobody.               *)
LEMMA FindsLocked ==
    ASSUME IInv, Shapes, CalmInv, NEW l \in Starts, NEW s \in Starting, Step(l, s),
           at[l] \notin Watchable, lock' = l, UNCHANGED <<patience, watched>>
    PROVE  watched' \in [Starts -> Starts \cup {None}] /\ \A q \in Starts : Finds(q)'
<1>1. ASSUME NEW q \in Starts PROVE Finds(q)'
  <2>1. watched[q] # None => watched[q] \in Procs /\ watched[q] # l
    BY <1>1, Names DEF CalmInv, Finds
  <2>2. watched[q] # None => at'[watched[q]] \in Watchable
    BY <1>1, <2>1 DEF CalmInv, Finds, IInv, Step
  <2>3. l # None
    BY Names
  <2> QED
    BY <2>1, <2>2, <2>3 DEF Finds
<1> QED
  BY <1>1 DEF CalmInv

(* What holds of every step taken while nothing fails. *)
CalmStep == /\ IInv /\ PipeInv /\ LockInv /\ HouseInv /\ FateInv
            /\ CalmInv /\ Calm /\ Calm'

(* A holder is past its creation, so that its event and pipe are there.     *)
LEMMA HolderOf ==
    ASSUME CalmStep, NEW e \in event
    PROVE  e \in Starts /\ at[e] \in Focused /\ lock = e
<1>1. e \in Starts
  BY DEF CalmStep, PipeInv, Shapes
<1>2. at[e] \in Focused
  BY <1>1 DEF CalmStep, CalmInv, Tidy
<1>3. lock = e
  BY <1>1, <1>2 DEF CalmStep, LockInv, Locked, Probed, Runs, Serving, Closer, Focused
<1> QED
  BY <1>1, <1>2, <1>3

(* Nobody gives up on a holder that listens, and nobody dies.               *)
LEMMA CalmNever ==
    ASSUME CalmStep
    PROVE  /\ \A l \in Starts : ~NoListener(l) /\ ~BudgetSpent(l) /\ ~DropLock(l)
           /\ \A h \in Procs : ~Crash(h) /\ ~Fails(h)
<1>1. \A what \in {"late", "thread", "crash"} : ~May(what)
  BY DEF CalmStep, Calm, May
<1>2. ASSUME NEW l \in Starts, NoListener(l) PROVE FALSE
  <2>1. /\ at[l] = "absent" /\ lock # None /\ event # {} /\ patience[l] = "over"
        /\ gaps' = IF watched[l] = lock THEN gaps ELSE gaps \cup {"grace"}
    BY <1>2 DEF NoListener
  <2>2. watched[l] = lock
    BY <2>1 DEF CalmStep, Calm
  <2>3. at[lock] \notin Starting \cup Listened
    BY <2>1, <2>2 DEF CalmStep, CalmInv, Finds
  <2>4. PICK e \in event : at[e] \in Focused /\ lock = e
    BY <2>1, HolderOf
  <2> QED
    BY <2>3, <2>4 DEF Focused, Starting, Listened
<1>3. ASSUME NEW l \in Starts, BudgetSpent(l) PROVE FALSE
  <2>1. at[l] # "defer"
    BY DEF CalmStep, CalmInv, Tidy, Deferred
  <2>2. event = {} /\ lock # None /\ at[lock] \in Serving
    BY <1>1, <1>3, <2>1 DEF BudgetSpent, Unanswered
  <2>3. lock \in Starts
    BY <2>2 DEF CalmStep, PipeInv, Shapes
  <2>4. lock \in event
    BY <2>2, <2>3 DEF CalmStep, CalmInv, Tidy, Focused, Serving
  <2> QED
    BY <2>2, <2>4
<1>4. ASSUME NEW l \in Starts PROVE ~DropLock(l)
  BY DEF CalmStep, CalmInv, Tidy, DropLock, Deferred
<1>5. ASSUME NEW h \in Procs PROVE ~Crash(h) /\ ~Fails(h)
  BY <1>1 DEF CalmStep, CalmInv, OldGone, Crash, Fails, Serving, Closer
<1> QED
  BY <1>2, <1>3, <1>4, <1>5

(* The holder that has the newer mutex has the legacy one or takes it: no   *)
(* launch defers to another.                                                *)
LEMMA LegacyFree ==
    ASSUME CalmStep, NEW l \in Starts, at[l] = "legacy" PROVE legacy = None
<1> SUFFICES ASSUME legacy # None PROVE FALSE
  OBVIOUS
<1> USE DEF Probed, Runs, Serving, Closer
<1>1. legacy \in Procs /\ at[legacy] \in Probed
  BY DEF CalmStep, PipeInv, Shapes, CalmInv, OldGone
<1>2. legacy \in Starts
  BY <1>1 DEF CalmStep, CalmInv, OldGone, Procs
<1>3. lock = legacy /\ lock = l
  BY <1>1, <1>2 DEF CalmStep, LockInv, Locked
<1> QED
  BY <1>1, <1>3

LEMMA CalmOld ==
    ASSUME CalmStep, [Next]_vars PROVE OldGone'
<1>0. IInv /\ HoldsLegacy /\ OldGone /\ legacy \in Procs \cup {None} /\ Old \notin Starts
  BY Names DEF CalmStep, CalmInv, PipeInv, Shapes, IInv
<1>1. ASSUME NEW p \in Starts, NEW s, at' = at \/ Step(p, s),
             \/ legacy' = legacy /\ (at[p] \in Probed => s \in Probed)
             \/ legacy' = p /\ Step(p, s) /\ s \in Probed
             \/ legacy' = None
      PROVE  OldGone'
  <2>1. p \in Procs /\ p # Old /\ Old \in Procs
    BY Names DEF Procs
  <2>2. \A q \in Procs : at'[q] = IF Step(p, s) /\ q = p THEN s ELSE at[q]
    BY <1>0, <1>1, <2>1 DEF IInv, Step
  <2>3. at'[Old] = "gone"
    BY <1>0, <2>1, <2>2 DEF OldGone
  <2>4. CASE legacy' = legacy /\ (at[p] \in Probed => s \in Probed)
    BY <1>0, <2>2, <2>3, <2>4 DEF OldGone
  <2>5. CASE legacy' = p /\ Step(p, s) /\ s \in Probed
    BY <2>1, <2>2, <2>3, <2>5 DEF OldGone
  <2>6. CASE legacy' = None
    BY <2>3, <2>6 DEF OldGone
  <2> QED
    BY <1>1, <2>4, <2>5, <2>6
<1> USE DEF Probed, Runs, Serving, Closer
<1>2. ASSUME NEW l \in Starts, Start(l) \/ LaunchStep(l) \/ GraceElapses(l) \/ BudgetSpent(l) \/ Quit(l)
      PROVE  OldGone'
  <2>1. CASE Start(l)
    BY <1>1, <2>1 DEF Start
  <2>2. CASE Connect(l)
    BY <1>1, <2>2 DEF Connect, Asking
  <2>3. CASE FindNone(l)
    BY <1>1, <2>3 DEF FindNone
  <2>4. CASE TakeOver(l)
    BY <1>1, <2>4 DEF TakeOver
  <2>5. CASE LookAgain(l)
    BY <1>1, <2>5 DEF LookAgain
  <2>6. CASE WriteLink(l)
    BY <1>1, <2>6 DEF WriteLink
  <2>7. CASE AskFocus(l)
    BY <1>1, <2>7 DEF AskFocus
  <2>8. CASE ProbeLegacy(l)
    <3>1. legacy' = l /\ Step(l, "events")
      BY <2>8, LegacyFree DEF ProbeLegacy, LegacyLock
    <3> QED
      BY <1>1, <3>1
  <2>9. CASE CreateFocus(l)
    BY <1>1, <2>9 DEF CreateFocus
  <2>10. CASE CreatePipe(l)
    BY <1>1, <2>10 DEF CreatePipe
  <2>11. CASE OwnLink(l)
    BY <1>1, <2>11 DEF OwnLink
  <2>12. CASE GraceElapses(l)
    BY <1>1, <2>12 DEF GraceElapses
  <2>13. CASE Quit(l)
    BY <1>1, <2>13 DEF Quit
  <2> QED
    BY <1>2, <2>1, <2>2, <2>3, <2>4, <2>5, <2>6, <2>7, <2>8, <2>9, <2>10, <2>11, <2>12, <2>13,
       CalmNever DEF LaunchStep
<1>3. ASSUME NEW h \in Procs, HolderStep(h) \/ ListenStep(h) \/ Crash(h) PROVE OldGone'
  <2>0. at[h] # "gone" => h \in Starts
    BY <1>0 DEF OldGone, Procs
  <2>1. CASE Show(h) \/ Met(h) \/ MakeNext(h) \/ Serve(h)
    BY <1>0, <2>1 DEF Show, Met, MakeNext, Serve, OldGone
  <2>2. CASE CloseFocus(h)
    BY <1>1, <2>0, <2>2 DEF CloseFocus
  <2>3. CASE Wake(h)
    BY <1>1, <2>0, <2>3 DEF Wake
  <2>4. CASE JoinLink(h)
    BY <1>1, <2>0, <2>4 DEF JoinLink
  <2>5. CASE Teardown(h)
    BY <1>1, <2>0, <2>5 DEF Teardown
  <2>6. CASE Release(h)
    <3>1. legacy = h /\ legacy' = None /\ Step(h, "released") /\ h \in Starts
      BY <1>0, <2>0, <2>6 DEF Release, HoldsLegacy
    <3> QED
      BY <1>1, <3>1
  <2>7. CASE Exit(h)
    BY <1>1, <2>0, <2>7 DEF Exit, Ends
  <2> QED
    BY <1>3, <2>1, <2>2, <2>3, <2>4, <2>5, <2>6, <2>7, CalmNever DEF HolderStep, ListenStep
<1>4. CASE UNCHANGED vars
  BY <1>0, <1>4 DEF vars, OldGone
<1> QED
  BY <1>2, <1>3, <1>4 DEF Next

LEMMA LaunchTidy ==
    ASSUME CalmStep, NEW l \in Starts,
           Start(l) \/ LaunchStep(l) \/ GraceElapses(l) \/ BudgetSpent(l) \/ Quit(l)
    PROVE  \A q \in Starts : Tidy(q)'
<1>0. /\ IInv /\ PipeInv /\ HouseInv /\ l \in Procs /\ \A q \in Starts : Tidy(q)
      /\ pipe' = pipe => KeepsIn /\ SameCounts
      /\ at[l] \notin Deferred
  BY Names, StaysIn DEF CalmStep, CalmInv, Tidy
<1>f. ~Fails(l)
  BY <1>0, CalmNever
<1> USE DEF Focused, Listened, Deferred, links
<1>1. CASE Start(l)
  BY <1>0, <1>1, TidyMoves DEF Start
<1>2. CASE Connect(l)
  <2>1. KeepsIn /\ SameCounts /\ In(l, "open")'
    BY <1>0, <1>2, ConnectTakes, TakesIn DEF Msgs
  <2> QED
    BY <1>0, <1>2, <2>1, TidyMoves DEF Connect, Asking
<1>3. CASE FindNone(l)
  BY <1>0, <1>3, TidyMoves DEF FindNone
<1>4. CASE TakeOver(l)
  BY <1>0, <1>4, TidyMoves DEF TakeOver
<1>5. CASE LookAgain(l)
  BY <1>0, <1>5, TidyMoves DEF LookAgain
<1>6. CASE WriteLink(l)
  <2>1. at[l] = "pipe" /\ In(l, "open")
    BY <1>0, <1>6 DEF WriteLink, Tidy
  <2>2. Taken(l) # {}
    <3>1. PICK g \in Procs, j \in 1..2 : Holds(l, g, j)
      BY <2>1 DEF In
    <3>2. <<g, j>> \in Taken(l)
      BY <3>1 DEF Taken, Holds, Has, Count
    <3> QED
      BY <3>2
  <2>3. PICK msg \in {"link", "closed"} : pipe' = Put(l, msg)
    BY <1>6 DEF WriteLink
  <2>4. SameCounts /\ \A c \in Starts \ {l} : In(c, "open") => In(c, "open")'
    BY <1>0, <2>3, PutWrites, WritesIn DEF Msgs
  <2>5. /\ UNCHANGED <<event, carries, listener, closing>>
        /\ l \in carries => Step(l, "gone") /\ fate' = [fate EXCEPT ![l] = "landed"]
        /\ l \notin carries => Step(l, "focus") /\ fate' = fate
    BY <1>6, <2>1, <2>2 DEF WriteLink
  <2>6. ASSUME NEW q \in Starts PROVE Tidy(q)'
    <3>1. Tidy(q) /\ q \in Procs /\ Count(q)' = Count(q)
      BY <1>0, <2>4, Names DEF SameCounts
    <3>2. fate'[q] = "reported" => fate[q] = "reported"
      BY <2>5 DEF CalmStep, FateInv
    <3>3. CASE q = l
      <4>1. at'[q] = IF q \in carries THEN "gone" ELSE "focus"
        BY <1>0, <2>5, <3>3 DEF IInv, Step
      <4> QED
        BY <2>1, <2>5, <3>1, <3>2, <3>3, <4>1 DEF Tidy
    <3>4. CASE q # l
      <4>1. at'[q] = at[q] /\ (In(q, "open") => In(q, "open")')
        BY <1>0, <2>4, <2>5, <3>1, <3>4 DEF IInv, Step
      <4> QED
        BY <2>5, <3>1, <3>2, <4>1 DEF Tidy
    <3> QED
      BY <3>3, <3>4
  <2> QED
    BY <2>6
<1>7. CASE AskFocus(l)
  <2>1. at[l] = "focus" /\ l \notin carries
    BY <1>0, <1>7 DEF AskFocus, Tidy
  <2> QED
    BY <1>0, <1>7, <2>1, TidyMoves DEF AskFocus
<1>8. CASE ProbeLegacy(l)
  <2>1. Step(l, "events")
    BY <1>8, LegacyFree DEF ProbeLegacy, LegacyLock
  <2> QED
    BY <1>0, <1>8, <2>1, TidyMoves DEF ProbeLegacy
<1>9. CASE CreateFocus(l)
  <2>1. /\ event' = event \cup {l} /\ Step(l, "channel")
        /\ UNCHANGED <<pipe, carries, listener, closing, fate>>
    BY <1>f, <1>9 DEF CreateFocus
  <2>2. ASSUME NEW q \in Starts PROVE Tidy(q)'
    <3>1. Tidy(q) /\ at'[q] = IF q = l THEN "channel" ELSE at[q]
      BY <1>0, <2>1, Names DEF IInv, Step
    <3>2. Count(q)' = Count(q) /\ (In(q, "open") => In(q, "open")')
      BY <1>0, <2>1, Names DEF SameCounts, KeepsIn, Msgs
    <3> QED
      BY <2>1, <3>1, <3>2 DEF Tidy
  <2> QED
    BY <2>2
<1>10. CASE CreatePipe(l)
  <2>1. at[l] = "channel" /\ Count(l) = 0 /\ l \notin closing
    BY <1>0, <1>10 DEF CreatePipe, HouseInv, House, Alive, Serving, Closer, Ended
  <2>2. KeepsIn /\ Count(l)' # 0 /\ \A g \in Procs \ {l} : Count(g)' = Count(g)
    BY <1>0, <1>f, <1>10, <2>1, CreateIn
  <2>3. /\ listener' = [listener EXCEPT ![l] = "wait"] /\ Step(l, "boot")
        /\ UNCHANGED <<event, carries, closing, fate>>
    BY <1>f, <1>10 DEF CreatePipe
  <2>4. ASSUME NEW q \in Starts PROVE Tidy(q)'
    <3>1. Tidy(q) /\ q \in Procs /\ at'[q] = IF q = l THEN "boot" ELSE at[q]
      BY <1>0, <2>3, Names DEF IInv, Step
    <3>2. listener'[q] = IF q = l THEN "wait" ELSE listener[q]
      BY <1>0, <2>3, <3>1 DEF PipeInv, Shapes
    <3>3. In(q, "open") => In(q, "open")'
      BY <2>2 DEF KeepsIn, Msgs
    <3> QED
      BY <2>1, <2>2, <2>3, <3>1, <3>2, <3>3 DEF Tidy
  <2> QED
    BY <2>4
<1>11. CASE OwnLink(l)
  <2>1. \A q \in Starts : fate'[q] = "reported" => fate[q] = "reported"
    BY <1>11 DEF OwnLink, Deliver
  <2> QED
    BY <1>0, <1>11, <2>1, TidyMoves DEF OwnLink
<1>12. CASE GraceElapses(l)
  BY <1>0, <1>12, TidyMoves DEF GraceElapses
<1>13. CASE Quit(l)
  <2>1. \A q \in Starts : fate'[q] = "reported" => fate[q] = "reported"
    BY <1>13 DEF Quit
  <2>2. at[l] \in {"boot", "up"} /\ closing \subseteq closing'
    BY <1>13 DEF Quit, Serving
  <2> QED
    BY <1>0, <1>13, <2>1, <2>2, TidyMoves DEF Quit
<1> QED
  BY <1>1, <1>2, <1>3, <1>4, <1>5, <1>6, <1>7, <1>8, <1>9, <1>10, <1>11, <1>12, <1>13,
     CalmNever DEF LaunchStep

LEMMA HolderTidy ==
    ASSUME CalmStep, NEW h \in Procs, HolderStep(h) \/ ListenStep(h) \/ Crash(h)
    PROVE  \A q \in Starts : Tidy(q)'
<1>0. /\ IInv /\ PipeInv /\ HouseInv /\ \A q \in Starts : Tidy(q)
      /\ pipe' = pipe => KeepsIn /\ SameCounts
  BY StaysIn DEF CalmStep, CalmInv
<1>f. ~Fails(h)
  BY CalmNever
<1> USE DEF Focused, Listened, Deferred, links
<1>1. CASE Show(h)
  <2>1. \A q \in Starts : fate'[q] = "reported" => fate[q] = "reported"
    BY <1>1 DEF Show
  <2>2. UNCHANGED <<at, event, carries, pipe, listener, closing>>
    BY <1>1 DEF Show
  <2>3. ASSUME NEW q \in Starts PROVE Tidy(q)'
    BY <1>0, <2>1, <2>2, Names DEF Tidy, SameCounts, KeepsIn, Msgs
  <2> QED
    BY <2>3
<1>2. CASE CloseFocus(h)
  <2>1. /\ event' = event \ {h} /\ Step(h, "wake") /\ at[h] = "stop"
        /\ UNCHANGED <<pipe, carries, listener, closing, fate>>
    BY <1>f, <1>2 DEF CloseFocus, FocusGone
  <2>2. ASSUME NEW q \in Starts PROVE Tidy(q)'
    <3>1. Tidy(q) /\ at'[q] = IF q = h THEN "wake" ELSE at[q]
      BY <1>0, <2>1, Names DEF IInv, Step
    <3>2. Count(q)' = Count(q) /\ (In(q, "open") => In(q, "open")')
      BY <1>0, <2>1, Names DEF SameCounts, KeepsIn, Msgs
    <3> QED
      BY <2>1, <3>1, <3>2 DEF Tidy
  <2> QED
    BY <2>2
<1>3. CASE Wake(h)
  <2>1. KeepsIn /\ SameCounts
    BY <1>0, <1>3, WakeTakes, TakesIn DEF Msgs
  <2> QED
    BY <1>0, <1>3, <2>1, TidyMoves DEF Wake
<1>4. CASE JoinLink(h)
  BY <1>0, <1>4, TidyMoves DEF JoinLink
<1>5. CASE Teardown(h)
  <2>1. \A q \in Starts : fate'[q] = "reported" => fate[q] = "reported"
    BY <1>5 DEF Teardown, ReportUnshown
  <2> QED
    BY <1>0, <1>5, <2>1, TidyMoves DEF Teardown
<1>6. CASE Release(h)
  BY <1>0, <1>6, TidyMoves DEF Release
<1>7. CASE Exit(h)
  <2>1. Ends(h) /\ at[h] = "released" /\ Step(h, "gone") /\ carries' = carries
    BY <1>7 DEF Exit, Ends
  <2>2. Count(h) = 0
    BY <1>0, <2>1 DEF HouseInv, House, Late, CalmStep, Calm
  <2>3. SameCounts
    BY <1>0, <2>1, <2>2, EndsIn DEF SameCounts
  <2>4. KeepsIn
    BY <1>0, <2>1, <2>2, EndsIn DEF KeepsIn, Holds, Has
  <2>5. \A q \in Starts : fate'[q] = "reported" => fate[q] = "reported"
    BY <1>7 DEF Exit
  <2>6. event' = event
    <3>1. h \notin event
      BY <2>1, HolderOf
    <3> QED
      BY <2>1, <3>1 DEF Ends
  <2>7. \A q \in Starts : listener'[q] = "serve" /\ q \notin closing'
                             => listener[q] = "serve" /\ q \notin closing
    BY <1>0, <2>1, Names DEF Ends, PipeInv, Shapes
  <2> QED
    BY <1>0, <2>1, <2>3, <2>4, <2>5, <2>6, <2>7, TidyMoves
<1>8. CASE Met(h)
  <2>1. listener' = [listener EXCEPT ![h] = IF h \in closing THEN "serve" ELSE "make"]
    BY <1>8 DEF Met
  <2>2. \A q \in Starts : listener'[q] = "serve" /\ q \notin closing'
                             => listener[q] = "serve" /\ q \notin closing
    BY <1>0, <1>8, <2>1, Names DEF Met, PipeInv, Shapes
  <2>3. UNCHANGED <<at, event, carries, pipe, fate>>
    BY <1>8 DEF Met
  <2>4. ASSUME NEW q \in Starts PROVE Tidy(q)'
    BY <1>0, <2>2, <2>3, Names DEF Tidy, SameCounts, KeepsIn, Msgs
  <2> QED
    BY <2>4
<1>9. CASE MakeNext(h)
  <2>1. Makes(h) /\ KeepsIn /\ Count(h)' = 2
    BY <1>0, <1>f, <1>9, MakeMakes, MakesIn DEF Makes
  <2>2. /\ UNCHANGED <<at, event, carries, closing, fate>>
        /\ listener' = [listener EXCEPT ![h] = "serve"]
    BY <1>9 DEF MakeNext
  <2>3. ASSUME NEW q \in Starts PROVE Tidy(q)'
    <3>1. Tidy(q) /\ (In(q, "open") => In(q, "open")')
      BY <1>0, <2>1 DEF KeepsIn, Msgs
    <3>2. CASE q = h
      BY <2>1, <2>2, <3>1, <3>2 DEF Tidy
    <3>3. CASE q # h
      <4>1. listener'[q] = listener[q] /\ Count(q)' = Count(q)
        BY <1>0, <2>1, <2>2, <3>3, Names DEF PipeInv, Shapes, Makes
      <4> QED
        BY <2>2, <3>1, <4>1 DEF Tidy
    <3> QED
      BY <3>2, <3>3
  <2> QED
    BY <2>3
<1>10. CASE Serve(h)
  <2>1. /\ Serves(h) /\ listener[h] = "serve" /\ pipe[h][1].msg # "open"
        /\ \A c \in Starts : In(c, "open") =>
              In(c, "open")' \/ (Holds(c, h, 1) /\ pipe[h][1].msg = "open")
    BY <1>0, <1>10, ServeServes, ServesIn DEF Serve, Msgs
  <2>2. /\ UNCHANGED <<at, event, carries, closing>>
        /\ listener' = [listener EXCEPT ![h] = IF Count(h) > 1 THEN "wait" ELSE "none"]
        /\ gaps' = IF Count(h) = 1 /\ h \in closing \cap event THEN gaps \cup {"pipe"} ELSE gaps
    BY <1>10 DEF Serve, Count
  <2>3. \A q \in Starts : fate'[q] = "reported" => fate[q] = "reported"
    BY <1>10 DEF Serve, Deliver
  <2>4. ASSUME NEW q \in Starts PROVE Tidy(q)'
    <3>1. Tidy(q) /\ (In(q, "open") => In(q, "open")')
      BY <1>0, <2>1
    <3>2. CASE q = h
      <4>1. Count(h)' = Count(h) - 1 /\ Count(h) \in {1, 2} /\ listener'[h] # "serve"
        BY <1>0, <2>1, <2>2 DEF Serves, PipeInv, Shapes
      <4>2. ~(Count(h) = 1 /\ h \in closing \cap event)
        BY <2>2 DEF CalmStep, Calm
      <4>3. at[h] \in Listened => Count(h) = 2
        BY <2>1, <3>1, <3>2, <4>1, <4>2 DEF Tidy
      <4> QED
        BY <2>2, <2>3, <3>1, <3>2, <4>1, <4>3 DEF Tidy
    <3>3. CASE q # h
      <4>1. listener'[q] = listener[q] /\ Count(q)' = Count(q)
        BY <1>0, <2>1, <2>2, <3>3, Names DEF PipeInv, Shapes, Serves
      <4> QED
        BY <2>2, <2>3, <3>1, <4>1 DEF Tidy
    <3> QED
      BY <3>2, <3>3
  <2> QED
    BY <2>4
<1> QED
  BY <1>1, <1>2, <1>3, <1>4, <1>5, <1>6, <1>7, <1>8, <1>9, <1>10, CalmNever
     DEF HolderStep, ListenStep

LEMMA LaunchFinds ==
    ASSUME CalmStep, NEW l \in Starts,
           Start(l) \/ LaunchStep(l) \/ GraceElapses(l) \/ BudgetSpent(l) \/ Quit(l)
    PROVE  watched' \in [Starts -> Starts \cup {None}] /\ \A q \in Starts : Finds(q)'
<1>0. /\ IInv /\ Shapes /\ CalmInv /\ l \in Procs /\ at[l] \notin Deferred
  BY Names DEF CalmStep, CalmInv, PipeInv, Tidy
<1> USE DEF Starting, Listened, Deferred, Watchable, Locked, Probed, Runs, Serving, Closer, past
<1>1. CASE Start(l)
  <2>1. CASE lock = None
    <3>1. lock' = l /\ Step(l, "legacy") /\ at[l] = "new" /\ UNCHANGED <<patience, watched>>
      BY <1>1, <2>1 DEF Start
    <3> QED
      BY <1>0, <3>1, FindsLocked
  <2>2. CASE lock # None
    <3>1. Step(l, "ask") /\ at[l] = "new" /\ UNCHANGED <<lock, patience, watched>>
      BY <1>1, <2>2 DEF Start
    <3> QED
      BY <1>0, <3>1, FindsMoves
  <2> QED
    BY <2>1, <2>2
<1>2. CASE Connect(l)
  BY <1>0, <1>2, FindsMoves DEF Connect, Asking
<1>3. CASE FindNone(l)
  <2>1. PICK s \in {"busy", "absent"} : Step(l, s) /\ (s = "absent" => ~Named)
    BY <1>3 DEF FindNone
  <2>2. /\ at[l] = "ask" /\ UNCHANGED <<lock, patience, watched>>
    BY <1>3 DEF FindNone
  <2>3. s = "absent" => lock = None \/ at[lock] \notin Starting \cup Listened
                        \/ ~(patience[l] = "over" /\ watched[l] = lock)
    <3> SUFFICES ASSUME s = "absent", lock # None, patience[l] = "over", watched[l] = lock
                 PROVE  at[lock] \notin Starting \cup Listened
      OBVIOUS
    <3>1. at[lock] \notin Starting
      BY <1>0 DEF CalmInv, Finds
    <3>2. lock \in Starts /\ lock \in Procs
      BY <1>0, Names DEF Shapes
    <3>3. Count(lock) = 0
      <4>1. pipe[lock] = <<>>
        BY <2>1, <3>2 DEF Named
      <4> QED
        BY <4>1 DEF Count
    <3>4. at[lock] \notin Listened
      BY <1>0, <3>2, <3>3 DEF CalmInv, Tidy
    <3> QED
      BY <3>1, <3>4
  <2> QED
    BY <1>0, <2>1, <2>2, <2>3, FindsMoves
<1>4. CASE TakeOver(l)
  BY <1>0, <1>4, FindsLocked DEF TakeOver
<1>5. CASE LookAgain(l)
  <2>1. Step(l, "ask") /\ at[l] \in {"busy", "absent"} /\ lock' = lock
    BY <1>5 DEF LookAgain
  <2>2. CASE UNCHANGED <<patience, watched>>
    BY <1>0, <2>1, <2>2, FindsMoves
  <2>3. CASE patience' = [patience EXCEPT ![l] = "since"] /\ watched' = [watched EXCEPT ![l] = lock]
    <3>1. lock \in Starts /\ lock \in Procs /\ at[lock] \in Locked
      <4>1. lock \in Starts
        BY <1>0, <1>5 DEF LookAgain, Shapes
      <4> QED
        BY <4>1, Names DEF CalmStep, LockInv
    <3>2. watched' \in [Starts -> Starts \cup {None}]
      BY <1>0, <2>3, <3>1 DEF CalmInv
    <3>3. \A p \in Procs : at'[p] = IF p = l THEN "ask" ELSE at[p]
      BY <1>0, <2>1 DEF IInv, Step
    <3>4. lock # l
      BY <2>1, <3>1
    <3>5. ASSUME NEW q \in Starts PROVE Finds(q)'
      <4>1. CASE q = l
        <5>1. watched'[q] = lock /\ patience'[q] = "since"
          BY <1>0, <2>3, <4>1 DEF CalmInv, Shapes
        <5> QED
          BY <3>1, <3>3, <3>4, <5>1 DEF Finds
      <4>2. CASE q # l
        <5>1. watched'[q] = watched[q] /\ patience'[q] = patience[q] /\ Finds(q) /\ q \in Procs
          BY <1>0, <2>3, <4>2, Names DEF CalmInv, Shapes
        <5>2. watched[q] # None => watched[q] \in Procs /\ watched[q] # l
          BY <1>0, <2>1, <5>1, Names DEF CalmInv, Finds
        <5> QED
          BY <2>1, <3>1, <3>3, <3>4, <4>2, <5>1, <5>2 DEF Finds
      <4> QED
        BY <4>1, <4>2
    <3> QED
      BY <3>2, <3>5
  <2> QED
    BY <1>5, <2>2, <2>3 DEF LookAgain
<1>6. CASE WriteLink(l)
  BY <1>0, <1>6, FindsMoves DEF WriteLink
<1>7. CASE AskFocus(l)
  BY <1>0, <1>7, FindsMoves DEF AskFocus
<1>8. CASE ProbeLegacy(l)
  <2>1. Step(l, "events")
    BY <1>8, LegacyFree DEF ProbeLegacy, LegacyLock
  <2> QED
    BY <1>0, <1>8, <2>1, FindsMoves DEF ProbeLegacy
<1>9. CASE CreateFocus(l)
  BY <1>0, <1>9, FindsMoves DEF CreateFocus
<1>10. CASE CreatePipe(l)
  BY <1>0, <1>10, FindsMoves DEF CreatePipe
<1>11. CASE OwnLink(l)
  BY <1>0, <1>11, FindsMoves DEF OwnLink
<1>12. CASE GraceElapses(l)
  <2>1. /\ at[l] = "ask" /\ lock # None /\ at[lock] \notin Starting
        /\ patience' = [patience EXCEPT ![l] = "over"] /\ UNCHANGED <<at, lock, watched>>
    BY <1>12 DEF GraceElapses
  <2>2. ASSUME NEW q \in Starts PROVE Finds(q)'
    <3>1. Finds(q) /\ patience'[q] = IF q = l THEN "over" ELSE patience[q]
      BY <1>0, <2>1 DEF CalmInv, Shapes
    <3> QED
      BY <2>1, <3>1 DEF Finds
  <2> QED
    BY <1>0, <2>1, <2>2 DEF CalmInv
<1>13. CASE Quit(l)
  BY <1>0, <1>13, FindsMoves DEF Quit
<1> QED
  BY <1>1, <1>2, <1>3, <1>4, <1>5, <1>6, <1>7, <1>8, <1>9, <1>10, <1>11, <1>12, <1>13,
     CalmNever DEF LaunchStep

LEMMA HolderFinds ==
    ASSUME CalmStep, NEW h \in Procs, HolderStep(h) \/ ListenStep(h) \/ Crash(h)
    PROVE  watched' \in [Starts -> Starts \cup {None}] /\ \A q \in Starts : Finds(q)'
<1>0. IInv /\ Shapes /\ CalmInv
  BY DEF CalmStep, PipeInv
<1> USE DEF Starting, Listened, Watchable, Locked, Probed, Runs, Serving, Closer, past
<1>1. CASE Show(h) \/ Met(h) \/ MakeNext(h) \/ Serve(h)
  <2>1. UNCHANGED <<at, lock, patience, watched>>
    BY <1>1 DEF Show, Met, MakeNext, Serve
  <2> QED
    BY <1>0, <2>1 DEF CalmInv, Finds
<1>2. CASE CloseFocus(h)
  BY <1>0, <1>2, FindsMoves DEF CloseFocus
<1>3. CASE Wake(h)
  BY <1>0, <1>3, FindsMoves DEF Wake
<1>4. CASE JoinLink(h)
  BY <1>0, <1>4, FindsMoves DEF JoinLink
<1>5. CASE Teardown(h)
  BY <1>0, <1>5, FindsMoves DEF Teardown
<1>6. CASE Release(h)
  <2>1. lock' = None /\ Step(h, "released") /\ UNCHANGED <<patience, watched>>
    BY <1>6 DEF Release
  <2>2. \A q \in Starts : watched[q] # None => watched[q] \in Procs
    BY <1>0, Names DEF CalmInv
  <2>3. ASSUME NEW q \in Starts PROVE Finds(q)'
    BY <1>0, <2>1, <2>2 DEF CalmInv, Finds, IInv, Step
  <2> QED
    BY <1>0, <2>1, <2>3 DEF CalmInv
<1>7. CASE Exit(h)
  BY <1>0, <1>7, FindsMoves DEF Exit, Ends
<1> QED
  BY <1>1, <1>2, <1>3, <1>4, <1>5, <1>6, <1>7, CalmNever DEF HolderStep, ListenStep

LEMMA CalmNext == ASSUME CalmStep, [Next]_vars PROVE CalmInv'
<1>1. OldGone'
  BY CalmOld
<1>2. CASE Next
  <2>1. \A q \in Starts : Tidy(q)'
    BY <1>2, LaunchTidy, HolderTidy DEF Next
  <2>2. watched' \in [Starts -> Starts \cup {None}] /\ \A q \in Starts : Finds(q)'
    BY <1>2, LaunchFinds, HolderFinds DEF Next
  <2> QED
    BY <1>1, <2>1, <2>2 DEF CalmInv
<1>3. CASE UNCHANGED vars
  <2>1. /\ UNCHANGED <<at, lock, event, listener, closing, carries, patience, watched, pipe, fate>>
    BY <1>3 DEF vars, links, past
  <2>2. \A q \in Starts : Tidy(q) /\ Finds(q)
    BY DEF CalmStep, CalmInv
  <2>3. SameCounts /\ KeepsIn
    BY <2>1, StaysIn
  <2>4. ASSUME NEW q \in Starts PROVE Tidy(q)' /\ Finds(q)'
    BY <2>1, <2>2, <2>3, Names DEF Tidy, Finds, SameCounts, KeepsIn, Msgs
  <2> QED
    BY <1>1, <2>1, <2>4 DEF CalmInv, CalmStep
<1> QED
  BY <1>2, <1>3

(* A click is shown, replaced by a later one, or said by someone, whatever  *)
(* fails short of the death of a process; and shown or replaced, never      *)
(* reported, while nothing fails (app_lock.rs, deep_link.rs).               *)
THEOREM LinksCorrect == Spec => []LinksAreKept
<1> DEFINE I == IInv /\ PipeInv /\ LockInv /\ HouseInv /\ FateInv
<1>1. Init => I /\ (Calm => CalmInv)
  BY InitInv, PipeInit, LockInit, HouseInit, FateInit, CalmInit
<1>2. I /\ (Calm => CalmInv) /\ [Next]_vars => (I /\ (Calm => CalmInv))'
  <2> SUFFICES ASSUME I, Calm => CalmInv, [Next]_vars PROVE (I /\ (Calm => CalmInv))'
    OBVIOUS
  <2>1. IInv' /\ PipeInv' /\ LockInv' /\ HouseInv' /\ FateInv'
    BY StepInv, PipeStep, LockStep, HouseStep, FateStep
  <2>2. ASSUME Calm' PROVE CalmInv'
    <3>1. CalmStep
      BY <2>2, CalmBack DEF CalmStep
    <3> QED
      BY <3>1, CalmNext
  <2> QED
    BY <2>1, <2>2
<1>3. I /\ (Calm => CalmInv) => LinksAreKept
  <2> SUFFICES ASSUME I, Calm => CalmInv PROVE LinkAccounted /\ NothingDropped
    BY DEF LinksAreKept
  <2>1. ASSUME NEW l \in Starts, In(l, "link") PROVE Taken(l) # {}
    <3>1. PICK g \in Procs, j \in 1..2 : Holds(l, g, j)
      BY <2>1 DEF In
    <3>2. <<g, j>> \in Taken(l)
      BY <3>1 DEF Taken, Holds, Has, Count
    <3> QED
      BY <3>2
  <2>2. carries \subseteq Starts
    BY AppLockAssumption DEF PipeInv, Shapes
  <2>3. LinkAccounted
    BY <2>1, <2>2 DEF FateInv, Fated, Done, LinkAccounted
  <2>4. NothingDropped
    BY <2>2 DEF FateInv, Fated, Calm, CalmInv, Tidy, NothingDropped
  <2> QED
    BY <2>3, <2>4
<1> HIDE DEF I
<1> QED
  BY <1>1, <1>2, <1>3, PTL DEF Spec

-----------------------------------------------------------------------------
(***************************************************************************)
(* A launch that hears nothing.  Where no thread fails to start or to end, *)
(* the focus event is there exactly for a holder that is past its creation *)
(* and has not got to its closing.                                         *)
(***************************************************************************)
Served == ~May("thread") => \A p \in event : at[p] \in Focused

(* A step that opens no event, of a process that goes on being focused, or  *)
(* that closes its own.                                                     *)
LEMMA ServedMoves ==
    ASSUME IInv, Shapes, Served, incidents' = incidents, NEW p \in Procs, NEW s,
           at' = at \/ Step(p, s), event' \subseteq event,
           at[p] \in Focused => s \in Focused \/ May("thread") \/ p \notin event'
    PROVE  Served'
<1> SUFFICES ASSUME ~May("thread"), NEW q \in event' PROVE at'[q] \in Focused
  BY DEF Served, May
<1>1. q \in Procs /\ at[q] \in Focused
  BY Names DEF Served, Shapes
<1>2. at'[q] = at[q] \/ (q = p /\ at'[q] = s)
  BY <1>1 DEF IInv, Step
<1> QED
  BY <1>1, <1>2

LEMMA ServedStep == ASSUME IInv, PipeInv, Served, [Next]_vars PROVE Served'
<1> USE DEF Focused
<1>0. Shapes /\ \A l \in Starts : l \in Procs
  BY Names DEF PipeInv
<1>1. ASSUME NEW l \in Starts, Start(l) \/ LaunchStep(l) \/ GraceElapses(l) \/ BudgetSpent(l) \/ Quit(l)
      PROVE  Served'
  <2>1. CASE Start(l)
    BY <1>0, <2>1, ServedMoves DEF Start
  <2>2. CASE Connect(l) \/ FindNone(l)
    BY <1>0, <2>2, ServedMoves DEF Connect, FindNone, Asking
  <2>3. CASE TakeOver(l) \/ LookAgain(l) \/ NoListener(l)
    BY <1>0, <2>3, ServedMoves DEF TakeOver, LookAgain, NoListener
  <2>4. CASE WriteLink(l)
    BY <1>0, <2>4, ServedMoves DEF WriteLink
  <2>5. CASE AskFocus(l) \/ DropLock(l)
    BY <1>0, <2>5, ServedMoves DEF AskFocus, DropLock
  <2>6. CASE ProbeLegacy(l)
    BY <1>0, <2>6, ServedMoves DEF ProbeLegacy, LegacyLock
  <2>7. CASE CreateFocus(l)
    <3>1. at' = [at EXCEPT ![l] = "channel"] /\ event' \subseteq event \cup {l} /\ incidents' = incidents
      BY <2>7 DEF CreateFocus, Step
    <3> QED
      BY <1>0, <3>1, Names DEF IInv, Shapes, Served, May
  <2>8. CASE CreatePipe(l) \/ OwnLink(l)
    BY <1>0, <2>8, ServedMoves DEF CreatePipe, OwnLink
  <2>9. CASE GraceElapses(l)
    BY <1>0, <2>9, ServedMoves DEF GraceElapses
  <2>10. CASE BudgetSpent(l)
    BY <1>0, <2>10, ServedMoves DEF BudgetSpent, Unanswered
  <2>11. CASE Quit(l)
    BY <1>0, <2>11, ServedMoves DEF Quit
  <2> QED
    BY <1>1, <2>1, <2>2, <2>3, <2>4, <2>5, <2>6, <2>7, <2>8, <2>9, <2>10, <2>11 DEF LaunchStep
<1>2. ASSUME NEW h \in Procs, HolderStep(h) \/ ListenStep(h) \/ Crash(h)
      PROVE  Served'
  <2>1. CASE Show(h) \/ Met(h) \/ MakeNext(h) \/ Serve(h)
    BY <1>0, <2>1, ServedMoves DEF Show, Met, MakeNext, Serve
  <2>2. CASE CloseFocus(h)
    BY <1>0, <2>2, ServedMoves DEF CloseFocus, FocusGone, Fails
  <2>3. CASE Wake(h) \/ JoinLink(h) \/ Teardown(h) \/ Release(h)
    BY <1>0, <2>3, ServedMoves DEF Wake, JoinLink, Teardown, Release
  <2>4. CASE Exit(h) \/ Crash(h)
    BY <1>0, <2>4, ServedMoves DEF Exit, Crash, Ends
  <2> QED
    BY <1>2, <2>1, <2>2, <2>3, <2>4 DEF HolderStep, ListenStep
<1>3. CASE UNCHANGED vars
  BY <1>3 DEF vars, Served, May
<1> QED
  BY <1>1, <1>2, <1>3 DEF Next

(* A launch gives up before its budget on a live holder only: one whose     *)
(* closing has got to the focus event is waited for, whoever dies, as long  *)
(* as no thread fails (app_lock.rs, connect_link_pipe and Closer::close).    *)
THEOREM LeavingCorrect == Spec => LeavingIsOutwaited
<1> DEFINE I == IInv /\ PipeInv /\ LockInv /\ HouseInv /\ Served
           Waits == \A l \in Starts :
                      at[l] = "absent" /\ at'[l] = "focus" /\ ~May("late") /\ ~May("thread") /\ gaps' = gaps
                          => lock \notin closing \/ at[lock] = "stop"
<1>1. Init => I
  <2>1. Init => Served
    BY DEF Init, Served
  <2> QED
    BY <2>1, InitInv, PipeInit, LockInit, HouseInit
<1>2. I /\ [Next]_vars => I'
  <2>1. ASSUME I, [Next]_vars PROVE IInv' /\ PipeInv' /\ LockInv' /\ HouseInv' /\ Served'
    BY <2>1, StepInv, PipeStep, LockStep, HouseStep, ServedStep
  <2> QED
    BY <2>1
<1>3. I /\ [Next]_vars => [Waits]_vars
  <2> SUFFICES ASSUME I, Next, NEW l \in Starts, at[l] = "absent", at'[l] = "focus",
                      ~May("late"), ~May("thread")
               PROVE  lock \notin closing \/ at[lock] = "stop"
    OBVIOUS
  <2>0. l \in Procs /\ lock \in Starts \cup {None} /\ Starts \subseteq Procs
    BY Names DEF PipeInv, Shapes
  <2>1. NoListener(l) \/ BudgetSpent(l)
    <3>1. ASSUME NEW k \in Starts, Start(k) \/ LaunchStep(k) \/ GraceElapses(k) \/ BudgetSpent(k) \/ Quit(k)
          PROVE  NoListener(l) \/ BudgetSpent(l)
      <4>1. CASE NoListener(k) \/ BudgetSpent(k)
        BY <2>0, <4>1, Names DEF NoListener, BudgetSpent, Unanswered, Step, IInv
      <4>2. CASE Start(k) \/ Connect(k) \/ FindNone(k) \/ TakeOver(k) \/ LookAgain(k)
        BY <2>0, <4>2, Names DEF Start, Connect, FindNone, TakeOver, LookAgain, Asking, Step, IInv
      <4>3. CASE WriteLink(k)
        BY <2>0, <4>3, Names DEF WriteLink, Step, IInv
      <4>4. CASE AskFocus(k) \/ ProbeLegacy(k) \/ DropLock(k) \/ GraceElapses(k)
        BY <2>0, <4>4, Names DEF AskFocus, ProbeLegacy, LegacyLock, DropLock, GraceElapses, Step, IInv
      <4>5. CASE CreateFocus(k) \/ CreatePipe(k) \/ OwnLink(k) \/ Quit(k)
        BY <2>0, <4>5, Names DEF CreateFocus, CreatePipe, OwnLink, Quit, Step, IInv
      <4> QED
        BY <3>1, <4>1, <4>2, <4>3, <4>4, <4>5 DEF LaunchStep
    <3>2. ASSUME NEW h \in Procs, HolderStep(h) \/ ListenStep(h) \/ Crash(h)
          PROVE  FALSE
      <4>1. CASE Show(h) \/ Met(h) \/ MakeNext(h) \/ Serve(h)
        BY <4>1 DEF Show, Met, MakeNext, Serve
      <4>2. CASE CloseFocus(h) \/ Wake(h) \/ JoinLink(h) \/ Teardown(h) \/ Release(h)
        BY <2>0, <4>2 DEF CloseFocus, Wake, JoinLink, Teardown, Release, Step, IInv
      <4>3. CASE Exit(h) \/ Crash(h)
        BY <2>0, <4>3 DEF Exit, Crash, Ends, Step, IInv
      <4> QED
        BY <3>2, <4>1, <4>2, <4>3 DEF HolderStep, ListenStep
    <3> QED
      BY <3>1, <3>2 DEF Next
  <2>2. lock # None /\ (at[lock] \in Serving \/ event # {})
    BY <2>1 DEF NoListener, BudgetSpent, Unanswered
  <2>3. ASSUME lock \in closing PROVE at[lock] \in Closer \cup Ended
    BY <2>0, <2>2, <2>3 DEF HouseInv, House
  <2>4. CASE at[lock] \in Serving
    BY <2>3, <2>4 DEF Serving, Closer, Ended
  <2>5. CASE event # {}
    <3>1. PICK e \in event : e \in Starts /\ at[e] \in Focused
      BY <2>5 DEF Served, PipeInv, Shapes
    <3>2. lock = e
      BY <3>1 DEF LockInv, Locked, Probed, Runs, Serving, Closer, Focused
    <3> QED
      BY <2>3, <3>1, <3>2 DEF Focused, Closer, Ended
  <2> QED
    BY <2>2, <2>4, <2>5
<1>4. I /\ [Next]_vars => [\A l \in Starts :
          at[l] = "absent" /\ at'[l] = "focus" /\ ~May("late") /\ ~May("thread") /\ gaps' = gaps
              => lock \notin closing \/ at[lock] = "stop"]_vars
  BY <1>3
<1> HIDE DEF I
<1> QED
  BY <1>1, <1>2, <1>4, PTL DEF Spec, LeavingIsOutwaited
=============================================================================
