-------------------------- MODULE MCDynamicEngine --------------------------
(***************************************************************************)
(* A database that fails over, scales and warms up, and an application     *)
(* that calls it through a circuit breaker.                                *)
(***************************************************************************)
EXTENDS DynamicEngine, TLC

CONSTANTS app, db, batch

Pairs(x, y) == [c \in Component |-> IF c = db THEN x ELSE y]

\* Everything depends on the database.
Calls == [edge |-> [p \in Edge |-> IF p[2] = db /\ p[1] # db THEN "requires" ELSE "none"],
          redundant |-> {}, busy |-> {}, type |-> [c \in Component |-> "plain"]]

FaultSets == {{}, {[target |-> db, type |-> "disk_full"]},
                  {[target |-> db, type |-> "cpu_saturation"]}}

NoScaling == [enabled |-> FALSE, min |-> 1, max |-> 1, up |-> 70, down |-> 30,
              upDelay |-> 15, downDelay |-> 300, step |-> 2]
Scaling == [enabled |-> TRUE, min |-> 1, max |-> 3, up |-> 70, down |-> 30,
            upDelay |-> 10, downDelay |-> 10, step |-> 1]

Failover(on) == [enabled |-> on, promotion |-> 15, interval |-> 10, threshold |-> 2]

Warming(on) == [enabled |-> on, hit |-> 5, duration |-> 15]

Settings ==
  {[graph |-> Calls, faults |-> f, targeted |-> t,
    health |-> Pairs("healthy", "healthy"), base |-> Pairs(40, 20),
    replicas |-> Pairs(1, 1), coalesce |-> Pairs(0, 8),
    scaling |-> Pairs(s, NoScaling), failover |-> Pairs(Failover(o), Failover(FALSE)),
    warming |-> Pairs(Warming(w), Warming(FALSE)),
    breaker |-> [e \in Edge |-> [enabled |-> e = <<app, db>>, threshold |-> 2, timeout |-> 45]]] :
   f \in FaultSets, s \in {NoScaling, Scaling}, o \in BOOLEAN, w \in BOOLEAN,
   t \in {Component, {app}}}

=============================================================================
