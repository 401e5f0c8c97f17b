------------------------- MODULE MCLatencyCascade -------------------------
(***************************************************************************)
(* LatencyCascade on families of small graphs.                             *)
(***************************************************************************)
EXTENDS LatencyCascade, TLC

CONSTANTS c1, c2, c3

\* The sequences of distinct members of S, of every length.
Orders(S) == UNION {{q \in [1 .. n -> S] : \A i, j \in 1 .. n : q[i] = q[j] => i = j} :
                      n \in 0 .. Cardinality(S)}

\* Who depends on whom, in which order; cycles included, self-loops not.
AllDependents == {f \in [Component -> Orders(Component)] :
                    \A c \in Component : \A i \in DOMAIN f[c] : f[c][i] # c}

Pairs == Component \X Component

(***************************************************************************)
(* The slow component responds in 10 ms.  Edges take 0 or 4 ms, so that a  *)
(* timeout of 10 ms may be neared or exceeded, one of 20 ms tolerated or   *)
(* neared.                                                                 *)
(***************************************************************************)
MixedGraphs ==
  [dependents : AllDependents,
   latency    : {[p \in Pairs |-> IF p \in S THEN 4 ELSE 0] :
                   S \in {{}, {<<c2, c1>>, <<c3, c2>>}, {<<c3, c1>>, <<c3, c2>>}, Pairs}},
   breakers   : {{}, {<<c3, c1>>}, {<<c3, c2>>}, {<<c1, c3>>, <<c2, c1>>}, Pairs},
   timeout    : {(c1 :> 10 @@ c2 :> 10 @@ c3 :> 10), (c1 :> 10 @@ c2 :> 20 @@ c3 :> 10),
                 (c1 :> 10 @@ c2 :> 10 @@ c3 :> 20), (c1 :> 10 @@ c2 :> 0 @@ c3 :> 10)}]

=============================================================================
