---------------------------- MODULE ScanResults ----------------------------
(***************************************************************************)
(* The results of scans as the comparison of two of them reads them        *)
(* (differ.py): the resilience score, which the export rounds to           *)
(* hundredths, and the names of the critical findings.                     *)
(***************************************************************************)
EXTENDS Integers

CONSTANTS Result,    \* what a scan may find
          Score,     \* the score of a result, in hundredths
          Critical,  \* the names of its critical findings
          None       \* no result

ASSUME ResultAssumption == /\ Score \in [Result -> Int]
                           /\ DOMAIN Critical = Result
                           /\ None \notin Result

\* Mutant: a drop of less than a quarter of a point is not counted.
RegressionBeyondNoise(before, after) ==
  \/ Score[after] < Score[before] - 25
  \/ ~(Critical[after] \subseteq Critical[before])

\* The score dropped, or new critical findings appeared.
Regression(before, after) ==
  \/ Score[after] < Score[before]
  \/ ~(Critical[after] \subseteq Critical[before])

=============================================================================
