-------------------------- MODULE RegressionWatch --------------------------
(***************************************************************************)
(* What a monitor of regressions promises: it keeps a baseline, and it     *)
(* never replaces it by a result that is worse without having announced    *)
(* that result.  A monitor that has lost its baseline may take any result  *)
(* for the next one.                                                       *)
(***************************************************************************)
EXTENDS ScanResults

VARIABLES baseline,   \* the result that the next one is compared with
          known,      \* whether the monitor can read it
          announced   \* the regressions announced since it was saved

vars == <<baseline, known, announced>>

Init == /\ baseline \in Result \cup {None}
        /\ known \in BOOLEAN
        /\ announced = {}

Announce(r) == /\ announced' = announced \cup {r}
               /\ UNCHANGED <<baseline, known>>

Save(r) == /\ known /\ baseline # None /\ Regression(baseline, r) => r \in announced
           /\ baseline' = r
           /\ known' = TRUE
           /\ announced' = {}

\* The monitor is restarted, and can or cannot read what it saved.
Restart == /\ known' \in BOOLEAN
           /\ UNCHANGED <<baseline, announced>>

Next == \/ \E r \in Result : Announce(r) \/ Save(r)
        \/ Restart

Spec == Init /\ [][Next]_vars

=============================================================================
