--------------------------- MODULE MCUpdateOffer ----------------------------
EXTENDS UpdateOffer

CONSTANTS s1, d1
Both == {s1, d1}
Dev  == {d1}

Asked(many) == [r \in Requests |-> IF r \in DOMAIN many THEN many[r] ELSE 0]

(* A cancelled or dismissed download and the next one; two checks across a   *)
(* switch; two logins and a restart; applies across a switch; two switches;  *)
(* and a folder that will not go under a cancel, a dismissal with a restart, *)
(* and a switch.                                                             *)
Requested == {
    Asked([check |-> 1, download |-> 2, cancel |-> 1, dismiss |-> 1, login |-> 1]),
    Asked([check |-> 2, download |-> 2, dismiss |-> 1, change |-> 1]),
    Asked([check |-> 1, download |-> 1, dismiss |-> 1, login |-> 2, kill |-> 1]),
    Asked([check |-> 1, download |-> 1, login |-> 1, change |-> 1, apply |-> 2]),
    Asked([check |-> 2, download |-> 1, change |-> 2, apply |-> 1]),
    Asked([check |-> 1, download |-> 2, cancel |-> 1, apply |-> 2, change |-> 1]),
    Asked([stuck |-> 1, check |-> 1, download |-> 2, cancel |-> 1, login |-> 1]),
    Asked([stuck |-> 1, check |-> 1, download |-> 1, dismiss |-> 1, login |-> 1, kill |-> 1]),
    Asked([stuck |-> 1, check |-> 1, download |-> 2, change |-> 1, apply |-> 1])}
=============================================================================
