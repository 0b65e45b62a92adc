----------------------------- MODULE MCClocks -----------------------------
(* Instances of Statistic and Cleaning for TLC: two devices, the id of the *)
(* first being part of the id of the second, around the end of February;   *)
(* and a year and a half of daily files.  The two threads share nothing    *)
(* but the clock, so each is checked while the other has not begun.        *)
EXTENDS Statistic, Cleaning

CONSTANTS k1, k2

MCPartOf == [k \in {k1, k2} |-> IF k = k1 THEN {k1, k2} ELSE {k2}]

MCInit == Init /\ CleanInit

MCSpec ==
  /\ MCInit
  /\ [][\/ /\ Next /\ UNCHANGED clean_vars
           /\ date = CleanFirst /\ minute = "before"
           /\ \A n \in SaveDays : m_file_save_days <= n
        \/ /\ CleanNext /\ UNCHANGED vars
           /\ pc = "down" /\ crashes = 0 /\ now = 0]_<<vars, clean_vars>>
=============================================================================
