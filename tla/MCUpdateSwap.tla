---------------------------- MODULE MCUpdateSwap ----------------------------
(***************************************************************************)
(* Instances of UpdateSwap for TLC: five files and three releases.         *)
(***************************************************************************)
EXTENDS UpdateSwap

(* The front, a library, a file dropped by the second release, the         *)
(* executable and a file new in the second release, in the order of their  *)
(* names.  The library changes with the second release and stays with the  *)
(* third, which drops the new file again.                                  *)
MCRelease == <<<<1, 1, 1, 1, 0>>, <<2, 2, 0, 2, 2>>, <<3, 2, 0, 3, 0>>>>

(* The same without the file that is dropped.                              *)
MCReleaseKept == <<<<1, 1, 1, 1, 0>>, <<2, 2, 1, 2, 2>>, <<3, 2, 1, 3, 2>>>>
=============================================================================
