--------------------------- MODULE MCRemediation ---------------------------
(***************************************************************************)
(* Remediation with the kinds of files that the generator's rules make:    *)
(* two of phase 1, one of them the manifest of an autoscaler, one of phase *)
(* 2 and two of phase 3.                                                   *)
(***************************************************************************)
EXTENDS Remediation, TLC

CONSTANTS replica, scaler, waf, backup, dns

FilePhase ==
  [f \in File |-> IF f \in {replica, scaler} THEN 1 ELSE IF f = waf THEN 2 ELSE 3]

FoundAt == waf :> 1 @@ backup :> 2 @@ replica :> 3 @@ scaler :> 4 @@ dns :> 5

FilePosition == [f \in File |-> FoundAt[f]]

Kept(S, n) == [issues |-> S, kept |-> n]

\* Plans of high, medium and low risk and one that exceeds the limit of two steps.
MixedModels == {Kept({replica, scaler}, 2), Kept({scaler, waf}, 2), Kept({backup, dns}, 2),
                Kept({waf, backup, dns}, 3)}

\* Plans of low risk, which may have several steps applied, and one of a manifest.
LowModels == {Kept({backup, dns}, 2), Kept({backup}, 1), Kept({scaler}, 1)}

Symmetry == Permutations(Cycle) \cup Permutations(Agent)

=============================================================================
