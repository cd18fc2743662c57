------------------------------- MODULE Level -------------------------------
(***************************************************************************)
(* The output level as a value: `OutputLevel` and its methods              *)
(* (src/src/player/mod.rs).  A level is what the output plays (`volume`),  *)
(* what an unmute gives back (`audible`), a count of its changes (`seq`),  *)
(* the count below which a page's level is refused (`floor`), and whether  *)
(* anyone chose it yet (`chosen`).                                         *)
(*                                                                         *)
(* A percentage is a member of `Levels`; only silence and full scale are   *)
(* told apart from the others.                                             *)
(***************************************************************************)
EXTENDS Naturals

CONSTANTS Levels,    \* the clamped percentages a Volume holds
          Silent,    \* Volume(0.0)
          Full       \* Volume(100.0)

ASSUME LevelAssumption == /\ Silent \in Levels
                          /\ Full \in Levels
                          /\ Silent # Full

Writer == {"Page", "Remote"}

Level == [volume : Levels, audible : Levels, seq : Nat, floor : Nat, chosen : BOOLEAN]

(* What LevelStore writes of a level: the two percentages. *)
Pair == [volume : Levels, audible : Levels]
PairOf(l) == [volume |-> l.volume, audible |-> l.audible]

Start == [volume |-> Full, audible |-> Full, seq |-> 0, floor |-> 0, chosen |-> FALSE]

Stamp(l, by) == [l EXCEPT !.seq = l.seq + 1,
                          !.chosen = TRUE,
                          !.floor = IF by = "Remote" THEN l.seq + 1 ELSE l.floor]

SetLevel(l, v, by) ==
    Stamp([l EXCEPT !.volume = v, !.audible = IF v = Silent THEN l.audible ELSE v], by)

Mute(l)   == Stamp([l EXCEPT !.volume = Silent], "Remote")
Unmute(l) == Stamp([l EXCEPT !.volume = l.audible], "Remote")

(* A page's level the output already plays is nobody's choice. *)
SetFromPage(l, v) == IF v = l.volume THEN l ELSE SetLevel(l, v, "Page")

(* Faulty: a level decided without the newest report applies. *)
AdmitsStale(l, seen) == TRUE

(* `seen` is the newest report the page had taken in when it decided. *)
Admits(l, seen) == seen >= l.floor

CatchUp(l) == [l EXCEPT !.seq = l.seq + 1, !.floor = l.seq + 1]

(* The level of an earlier launch, stamped as a change no page has seen. *)
Restored(p) ==
    SetLevel([Start EXCEPT !.audible = IF p.audible = Silent THEN Full ELSE p.audible],
             p.volume, "Remote")

(* A level, or a saved pair, whose unmute gives back the last audible one. *)
Heard(l) == /\ l.audible # Silent
            /\ l.volume # Silent => l.audible = l.volume
=============================================================================
