---------------------------- MODULE MCTrackCache ----------------------------
(* The track cache for TLC: two tracks, downloads of 4 or 7 bytes under    *)
(* caps of 5 and 10, which make one too large, two over the cap and one    *)
(* over the target; two incidents at a time.                                *)
EXTENDS TrackCache

TwoTracks == {1, 2}
DownloadSizes == {4, 7}
UserCaps == {5, 10}
Histories == {{"kill", "change"}, {"load", "change"}, {"refuse", "change"},
              {"index", "change"}, {"refuse", "index"}, {"vanish", "load"},
              {"kill", "refuse"}, {"refuse", "load"}, {"index", "load"}, {"index", "kill"}}
=============================================================================
