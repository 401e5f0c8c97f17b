# FaultRay: formal models

FaultRay simulates failures of an infrastructure that exists only as a graph: components, the
dependencies between them, and faults injected into them. Around the simulators it has an agent
that turns findings into infrastructure code and applies it, and a telemetry agent with a
collector. This directory holds TLA+ models of the parts whose correctness depends on the *order*
of things: the propagation of a fault, the propagation of latency, the simulation in time steps, a
remediation cycle, the delivery of telemetry, and the monitoring daemon. TLC checks each of them on
small instances; the main safety results of each are also proved, with TLAPS, for every graph and
every value of the constants.

Paths of the form `simulator/cascade.py` are relative to `src/src/faultray/`.

* [1 Inventory](#1-inventory)
* [2 Modules](#2-modules)
* [3 What each module says of the code](#3-what-each-module-says-of-the-code)
* [4 Runs](#4-runs)
* [5 Proofs](#5-proofs)
* [6 Disagreements between code and documentation](#6-disagreements-between-code-and-documentation)
* [7 What is left out](#7-what-is-left-out)
* [8 Plan](#8-plan)

## 1 Inventory

### The dependency graph (`model/graph.py`, `model/components.py`)

*State:* a directed graph of components with typed edges (`requires`, `soft`, `optional`, `async`),
and a cache of critical paths. *Operations:* add components and dependencies, dependents of a
component, the edge between two, everything transitively affected (`get_all_affected`), critical
paths, scores, save and load. *Used by* every simulator, by the remediation agent for its scores and
by the telemetry collector, which adds what it discovers. *Correct if* the transitive closure ends
on cycles and contains exactly what can be reached, if the order in which edges were added never
decides a result, and if the cache never survives a change.

### The cascade engine (`simulator/cascade.py`)

*State of one call of `simulate_fault`:* `worst_health`, a dictionary that rules out paths no worse
than one already followed; `chain.effects`, the list that is reported; and the stack of recursive
calls of `_propagate`, each with a health and an elapsed time passed by value. The two records are
kept in step by hand: an effect is appended the first time and replaced in place later. A second
pass degrades AI agents that depend on a failed store or external API
(`simulator/agent_cascade.py`).
*State of one call of `simulate_latency_cascade`:* a queue of (component, latency, depth),
`worst_latency`, an index into the effects, breakers on edges.
*Hard:* several paths of different severity to one component, in any order; cycles; the depth limit,
which is a bound on paths and not on components; a component expanded again when a worse path
arrives while entries of the old path are still queued.
*Correct if* the result is a function of the graph and the fault and not of the insertion order of
the edges, nothing is reported twice, no report gets milder, every effect has a cause that is
itself in the report, breakers contain what is behind them, and the simulation ends.

### The remediation agent (`remediation/autonomous_agent.py`, `iac_generator.py`, `cli/remediate_cmd.py`)

*State that survives a process:* the cycles saved as JSON, the workspace of terraform files and
manifests, the infrastructure itself, and the model file from which plans are made. *State of a
process:* the cycle at hand, the permissions the ratchet has left, the log of steps. *Operations:*
`run_cycle` (detect, plan, simulate; then suspend or execute), `approve_and_execute` by another
process at a later time, the execution of steps with `terraform plan/apply` or `kubectl apply`,
verification, and rollback step by step.
*Hard:* commands that fail or are killed half-way; crashes between two commands; a model that
changes between simulation and approval; a workspace that is shared by all cycles and applied as a
whole; several processes.
*Correct if* nothing is touched without opt-in, limits and ratchet hold on every path to
execution, records tell what happened, a cycle reported undone has left nothing behind, and what
exists can still be taken down.

### The telemetry agent and its collector (`apm/agent.py`, `collector.py`, `metrics_db.py`, `models.py`)

*State:* the agent's buffer and its two loops; the collector's registry of agents and table of
points. *Operations:* register, collect, flush (merge, post, put back what failed), shut down; the
collector registers, ingests, takes heartbeats and answers queries.
*Hard:* requests that are lost, processed without an answer, or processed after the agent has given
up on them; a flush of several requests that fails half-way while the other loop collects.
*Correct if* no batch is lost or stored twice beyond what the network forces, the latest values
shown never go back, and a stop is noticed in every state.

### Time-stepped engine (`simulator/dynamic_engine.py`, `traffic.py`)

*State:* for each component its health, utilization and replicas, two autoscaling timers, the
counters and timers of a failover, a cache that warms up; for each protected edge a circuit breaker.
*Operations, in this order in every time step:* traffic sets utilization and health, autoscaling,
failover and breakers react, the cascade engine is asked what the faults do behind the open
breakers, and a snapshot is taken.
*Hard:* traffic, failover and recovery all write the health of one component, each handler reads
what the one before it wrote, and every timer has its own unit of progress.
*Correct if* the timers of a component agree with each other and with its health, a breaker opens on
consecutive failures and closes again before a target that is well, a failover that starts ends,
autoscaling comes to rest, and an open breaker shields what it protects and nothing else.

### Daemon (`daemon.py`, `differ.py`)

*State:* the previous result, in memory and in `latest.json`; the flag that a signal clears.
*Operations:* start (reads what was saved), scan, compare, notify, save by a temporary file and
`os.replace`, sleep, stop. *Hard:* a crash or an error between any two of them; a file that cannot be
read; a model file that changes or disappears; a baseline that moves with every scan.
*Correct if* the saved result is whole at every moment, is never replaced by a worse one without a
notice, does not drift into a worse one either, and catches up with the model.

### Scenario runner (`simulator/engine.py`)

*State:* results so far, a checkpoint file. Runs scenarios of several faults, each with
`simulate_fault`, keeps the worst effect for each component and weighs the result. A scenario that
raises becomes a result with an error. The checkpoint is written by every process to one path and
removed at the end, and nothing in the repository reads it.

### The rest

The model loader, some 240 stateless analyzers, the HTTP server, command line and reporters, caches
and histories, discovery and export: pure functions, presentation or I/O. They are listed one by one
in `PROJECT.json` with the reason.

### How they interact

The loader produces a graph. The scenario runner calls `simulate_fault` once per fault, the latency
cascade and the time-stepped engine read the same graph. The remediation agent scores a graph before
and after a plan and writes only files; the model file it reads is written by others, scans among
them. The collector's topology updater turns telemetry into components and edges of a graph. The
engines share no mutable state: each call has its own records. Concurrency is in the remediation
agent (processes over shared files), in the telemetry agent (two coroutines and a network), in the
collector's database, and in the daemon's signals and restarts.

## 2 Modules

| Module | What it is |
|---|---|
| `InfraGraph` | the graph as a value: edges, kinds of components, dependents, `AllAffected` |
| `CascadeRules` | direct effects of faults and the rule of an edge: which health reaches a dependent, and when; the `Outcome` that a graph and a fault determine |
| `CPS` | abstract specification: the Cascade Propagation Semantics, in no particular order |
| `Cascade` | `simulate_fault`: the depth-first engine, implements `CPS` |
| `LatencyCascade` | `simulate_latency_cascade`: the breadth-first engine with breakers |
| `Remediation` | the remediation agent with the workspace, the infrastructure and the saved cycles |
| `ApmDelivery` | the telemetry agent, the network and the collector |
| `DynamicEngine` | the time-stepped engine: traffic, autoscaling, failover, breakers and cascade in every step |
| `ScanResults` | results of scans and what counts as a regression |
| `RegressionWatch` | abstract specification: a monitor that never replaces its baseline by a worse one unannounced |
| `Daemon` | the daemon with its files, over crashes and restarts, implements `RegressionWatch` |
| `MCGraphs`, `MCCascade`, `MCCPS`, `MCLatencyCascade`, `MCRemediation`, `MCApmDelivery`, `MCDynamicEngine`, `MCDaemon` | instances for TLC |
| `CascadeRulesProofs` | lemmas on the rules, `Outcome` among them; induction and recursion on numbers |
| `CPSProofs` | causality and confluence of `CPS` |
| `CascadeProofs` | types, levels, frames; the chain and `worst_health`; causes and agents; the depth limit; finite runs; `Cascade` implements `CPS`, independence of the order |
| `LatencyProofs` | the latency cascade: types, justified and contained reports, the worst path, finite runs |
| `DynamicProofs` | types and timers of the time-stepped engine, and what its breakers count |
| `DaemonProofs` | types, the moving baseline, and the refinement of `RegressionWatch` |
| `ApmDeliveryProofs` | types, no batch discarded, none stored twice, host metrics never older |
| `RemediationProofs` | types, ratchet, limits and records for any number of processes; what is left of a cycle for one |

Definitions whose name says how they differ from the one after them (`WorseLastPath`, commented
"Mutant") are used by no specification. Each is a plausible mistake in the code; put in the place of
the definition it precedes it makes one of the properties fail, which shows that the property speaks
about that code.

## 3 What each module says of the code

### `InfraGraph` and `CascadeRules`

A graph is a record: the label of each ordered pair, and the sets of redundant and of busy
components. Of a component the rules only ask whether it has several replicas, whether its
utilization exceeds 70 %, its timeout, and whether it is a store, an external API or an agent; the
model keeps exactly that. `CascadeHealth` and `CascadeDelay` are `_calculate_cascade_effect`,
`DirectHealth` and `DirectTime` are `_apply_direct_effect`. "healthy" stands for a key missing in
`worst_health`: the code treats the two alike.

`AllAffected` is written as a least set closed under `Dependents` and not as the code's loop; the
loop is the usual worklist. `Outcome(g, o, h)` says what a fault of health `h` at `o` must lead to:
hard failures spread along every edge whose rule lets them, and what the rules degrade beside them
is degraded.

### `CPS`

A fault gives one component a health; from then on any component that fails hard may worsen any
component that depends on it, and the run settles when no rule worsens anything. There is no order,
no depth limit, no time.

### `Cascade`

One action per turn of the loop of `_propagate` over a dependent, by what the turn does:

| Action | Code |
|---|---|
| `Inject`, `InjectUnknown` | head of `simulate_fault`: the direct effect and the first call, or an empty chain |
| `Skip` | the edge does not cascade, or `worst_health` has something as bad |
| `Attenuate` | degraded: recorded, not followed |
| `Spread` | a hard failure: recorded, and `_propagate` called on it (a frame is pushed) |
| `CutOff` | the same at the depth limit, where the call returns at once |
| `Return` | the loop of a call is through |
| `AssessAgents`, `FlagAgent`, `Finish` | the pass over the agents |

The code visits dependents in the insertion order of the edges. The model takes them in any order,
which is the same set of behaviours, because no component is expanded twice: its frame is on the
stack at most once (`DistinctFrames`) and once recorded its health only gets worse (`Monotone`,
`TwoLevels`). Reasons, metrics and the likelihood attached to effects are left out: nothing reads
them during propagation.

### `LatencyCascade`

Here the order matters, so a graph has the *sequence* of the dependents of each component. Taking an
entry from the queue (`Expand`, or dropping it as stale, too deep or tolerable), and one turn of the
loop over its dependents (queue, trip a breaker, or nothing), are the actions. The code writes the
loop out a second time for the slow component; the model expands an entry of depth 0 instead. A pool
that is exhausted and a timeout that is exceeded both make a component `down` and are one case.

### `Remediation`

*Variables:* the model file, the saved cycles, the workspace, what is live, and the processes.
A plan is a set of files, since names are unique in it; its steps are taken in the order `Before`, by
phase and then by the position that the generator's sort gives a file. A log gives each file the
status of its step, or "none". A file stands for the resources it declares. `terraform apply`
converges: what it has yet to do is `Pending`, the difference between what the files of the workspace
say and what exists, and an apply that fails or is killed does any part of it. `kubectl` applies one manifest. `Destroy` names the
resources of one file. Each external command is a step of its own, so a crash or a step of another
process can come between any two; `CrashInCommand` kills the process during a command, which may do
any part of its work.
What detection finds and what the generator has rules for are independent in the code, so a cycle may
find nothing while a plan exists. A timeout is recorded like a failed apply, which all code that
reads the log treats alike. The ceiling on cost, compared wherever the number of steps is, is left
out.

### `ApmDelivery`

A batch is the number of its collection, so that "older" has a meaning that no clock can blur; the
moments at which batches are stamped are counted. The coroutine that talks to the collector is a
program counter (`task`), since at most one request is awaited at a time; the collecting loop runs
beside it. `Fails` is what a network can do: lose the request, lose the answer, or keep the request
and deliver it later (`Arrive`). `env` is the set of adversities of a run. A crash or an exit empties
the buffer; the agent is not restarted. Ingestion is one step: its body awaits nothing, so requests to
one collector do not interleave in it; a collector that crashes within it is not modelled.

### `DynamicEngine`

One action per handler, in the order in which `run_dynamic_scenario` calls them, each over all
components or all breakers at once: within a handler components do not read each other.

* *Time.* The code keeps the times at which a breaker opened and a cache began to warm. The model
  keeps the ages, and lets them grow only as long as a comparison can tell them apart (`Older`,
  `OlderBreaker`); the number of consecutive opens stops at `MaxOpens`, from which on the timeout is
  the configured one. Runs of every length therefore have finitely many states.
* *Numbers.* A utilization is a fraction of integers with `Above` and `Below` instead of a float;
  ratios are in tenths. Comparisons with thresholds are exact, rounding of floats is not modelled.
* *Traffic.* The pattern may return any of `Multipliers` in any step; the shapes of `traffic.py` are
  among these sequences.
* *The cascade.* `simulate_fault` is asked for its result, which `Cascade` shows to be `Outcome`
  when no depth limit bites; components are of plain type, so there is no pass over agents.
* *The snapshot* is `effects`. Severities, the time of recovery and the texts of events are computed
  from it and read by no handler.

The branch for a replica count of zero is left out: counts start at one at least and scaling down
stops at `min`, which is positive.

### `ScanResults`, `RegressionWatch` and `Daemon`

A result is what the comparison reads of it: a score, which the export rounds to hundredths, and
the names of its critical findings. Each line of the loop that reads or writes something is an
action, so a crash can come between any two; a save is three steps (open the temporary file, write
it, replace). `HandleSignal` clears the flag in any state. A scan that raises and a model file that
is missing both end the turn (`ScanFails`); `SaveFails` covers every statement of the save.
`StartBlind` is a start on a file that exists and cannot be read. `known`, `announced` and `settled`
are observers: no action reads them.

`RegressionWatch` says what the class promises its user: `Daemon` implements it with the file as the
baseline. A monitor that could not read its baseline may take any result for the next one, because
the code says so (it logs a warning and goes on without a previous result).

## 4 Runs

Passing runs; `PROJECT.json` has the properties of each.

| Run | Instance | Shows |
|---|---|---|
| `cascade_mixed` | every graph of 3 components without self-loops over {requires, optional} and over {soft, async}, with redundant and busy ones; agents behind three kinds of sources; 6 faults; depth limit 2 | the records agree, nothing improves, every effect has a cause, the result does not depend on the order, agents are flagged, and the engine implements `CPS` |
| `cascade_depth` | every graph of `requires` edges on 4 components, depth limit 1 | nothing beyond the limit is affected; the call returns |
| `cps` | the graphs and faults of the first run | the semantics is confluent |
| `latency_mixed` | every graph of 3 components with every order of the dependents, 4 sets of latencies, 5 of breakers, 4 of timeouts; depth limit 3 | reports are justified, contained and monotone, and without breakers those of the worst path; the call returns |
| `remediation_cycle` | 1 process, 1 cycle id, 4 models (high, medium, low risk, too long) that change at any time, crashes | limits and ratchet hold on every path to execution; a cycle that is executed ends |
| `remediation_cycles` | 1 process, 2 cycles, 3 models of which all steps may be applied, crashes | records are honest, what exists has a file, what is reported undone is undone |
| `delivery` | 4 batches, 2 failures, each pair of adversities | delivery, as far as the adversities allow |
| `dynamic_steps` | a database with and without failover, autoscaling and a warming cache, an application calling it through a breaker; no fault, one that brings the database down, one that does not; traffic of 1, 2 or 3 times the base, on both or on the application only; steps of 5 seconds | timers agree, breakers open on streaks and heal, failovers end, scaling settles |
| `daemon_watch` | 4 results, 2 failures of reads and saves, any edits, signals and crashes | the daemon implements the monitor, its baseline does not drift, it catches up |

**Why the bounds are enough.** The propagation compares two paths to one component; three components
give every shape of two paths, the shortest cycles, and a component reached again after its
dependents were. With depth limit 2 on three components the limit cannot bite (`DeepEnough`: the
stack never holds a component twice, so it is no deeper than the number of components), with limit 1
on four it does. The slow component of the latency runs responds in 10 ms; edges take 0 or 4 ms and
timeouts are 0, 10 or 20 ms, so each of none, tolerated, near and exceeded occurs, and a breaker can
trip before and after another path has arrived. What the proofs cover holds for every graph anyway.
A plan of two steps is the shortest in which a first step can affect a second, and a model with three
fixes is needed to exceed the limit of two; two cycles are needed for one to meet what another left.
The two remediation runs differ because plans that the ratchet interrupts never have two applied
steps. Symmetry over cycle ids is used in `remediation_cycles`, which checks no liveness; no
definition orders cycles. Four batches with two failures are enough for a batch to fail, be put back
behind newer ones, be merged with them, and fail again; without the exemption for `caps` the property
`LatestNeverOlder` is violated within these bounds, so they are not too small to see the effect.

In `dynamic_steps` each timer is a different number of steps (promotion 3, recovery 2 with a period
of 7 seconds that is no multiple of the step, scaling 2, the breaker 3, 6 and 9, warming 3), so that
they end in different orders; at the base the database is calm, at three times the base it is beyond
its capacity with one replica and calm with all three; the breaker can be opened again more often than its
backoff grows. The four results of `daemon_watch` are a fall of the score in two steps, each smaller
than a quarter of a point, and two results of which each is worse than the other.

**Adversities.** Each property of `ApmDelivery` names the adversity under which it cannot hold:
`AtMostOnce` excuses lost answers (a repetition cannot be told from a new batch), `NothingDiscarded`
and `Delivered` excuse refusals (an answer other than 200 counts as sent), `LatestNeverOlder` excuses
merged batches over the collector's caps (a part of a flush is then sent, and the rest merged
under a new stamp). It is checked under the two others at their worst.

**Fairness.** `Cascade` and `LatencyCascade`: a weakly fair next step, because a plain function
call runs until it returns. `Remediation`: weak fairness of `Step(a)` for each process, because every
command is killed after `_STEP_TIMEOUT`; starting, approving, editing and crashing are not fair.
`ApmDelivery`: weak fairness of `Converse`, the coroutine that talks to the collector, because both
sleeps end and a request is answered or times out; collecting, stopping, crashing and the arrival of
requests given up on are not fair. Failures are bounded, so liveness says: once failures end.
`DynamicEngine`: weak fairness of `Next`, a loop in one function. `Daemon`: weak fairness of `Step`,
what a live process does next; that a process is started, told to stop or killed, and what is written
to the model file, is not fair, so `CatchesUp` speaks of a model that stays and a process that runs.

**Deadlock** is checked for the engines, whose end is an explicit step. A remediation agent with no
cycle id left and an agent that has exited may rest, so their runs switch the check off.

## 5 Proofs

Proved for every set of components, graph, fault, depth limit and delay; the assumptions on constants
are those of the modules (types, a depth limit of at least 1, an identifier that no component has).

*Rules* (`CascadeRulesProofs`). A rule does nothing, degrades, or passes the health it was given on
unchanged; the hard failures are the least cut; a rule applied to an explained map of healths gives an
explained one; and one to which no rule applies is the `Outcome`.

*Semantics* (`CPSProofs`). `Accounted` is inductive, together with the types, the health of the origin
and the idleness of a run without one: no rule invents a failure. In a settled state no rule applies,
so an explained map is the outcome: `Confluence`.

*Engine* (`CascadeProofs`). The inductive invariant is `IInv`: the phases are entered in order
(`Phases`), whatever fails hard fails like the target (`TwoLevels`), each call in progress has the
health of the target, by value and in `worst_health` (`Calls`), and no component has two calls in
progress (`Distinct`). `Distinct` is not inductive alone: that a component on the stack is never
entered again follows because it already has the health of the target, and nothing is strictly worse
than that among the outcomes of a rule. This is where `TwoLevels` is needed.

*Chain* (`CascadeProofs`). `CInv` adds to `IInv` that the list of effects and `worst_health` agree
in both directions (`ChainMatchesWorst`) and that the agents still to be looked at are at risk. With
the guard `Worse` it gives the action property `Monotone`.

*Causes* (`CascadeProofs`). `Timely` says of each call in progress that the failure of its component was
felt at the time that the call carries by value; what a call records then has that failure as its
cause. A cause recorded could still be rewritten later, with another health or time. It is not
(`KeepsFelt`): only what is strictly worse replaces an effect, by `TwoLevels` nothing is worse than a
hard failure of the run, so a component that is made worse had caused nothing yet.

*Agents* (`CascadeProofs`). `AgentPass` says that whoever is at risk and not yet in the chain is
among the agents still to be looked at; with `ChainMatchesWorst` it gives `AgentsFlagged` at the end.

*Implementation* (`CascadeProofs`). Every step of the engine is a step of `CPS` or a stutter
under `health <- worst`. The step that ends propagation must find nothing left to worsen, which needs
the invariant `Pending`: whatever a component can still make worse is among the dependents that a call on it
in progress has yet to visit. `CutOff` would break it, so the theorem assumes `DeepEnough` and
shows with `Distinct` (a stack of distinct components) that `CutOff` is then never taken. With
confluence this gives `OrderIndependence`.

*Depth* (`CascadeProofs`). `WithinDepth` counts edges from the target, the code counts the depth of a
call, and the two differ: a component may be reached by a long path first. `Shallow` ties them
together: the k-th call in progress is on a component within k - 1 edges, loops over dependents of it,
and the stack is at most one call longer than the limit (the call that returns at once). A component
that a call affects is then within the limit plus one (`VisitWithin`, `CommitWithin`).

*Latency* (`LatencyProofs`). `LInv` is the conjunction of the types with `Started`, `Late`, `Waiting`,
`QueueOrdered`, `ReportsJustified` and `BreakersContain`. Entries of one component are
queued by rising latency (`QueueOrdered`) and none is below the latency of the slow component
(`Late`), so overwriting an effect never improves it; each entry remembers, through the graph, a failing
component that its own waits for (`Waiting`), which is what `BreakersContain` needs.

*Worst path* (`LatencyProofs`). The invariant `PathInv` relates the queue to the latencies that arrive
along the paths of the graph. `Arrived`: whatever is queued, expanded or recorded is a latency that
arrives along some path, of as many edges as the entry's depth says. In the other direction
(`Seeded`, `Relayed`): a component that suffers at its worst latency has handed that latency on to
each that waits for it, unless its own entry is still queued (`Fresh`) or the dependent is still to be
looked at (`Left`). `Exact`: a component without such an entry is reported as its worst latency
deserves. Discarding an entry keeps these only because a stale entry is never the fresh one and,
when no path is longer than the limit, none is too deep; raising a worst latency keeps them
because the same step queues the fresh entry. A breaker that trips does the first without the second,
which is why the property excuses graphs with breakers. When the queue is empty, every arrival is
accounted for by induction on the number of edges (`AllArrivalsCounted`), and the worst latency is one
of them: it is the greatest.

*Induction.* These properties of depth and of paths are about functions defined by recursion on a number
(`Ball`, `HardBall`, `Arrivals`). Two lemmas of `CascadeRulesProofs` serve them: `SetInduction`, induction stated of a set of
numbers, from the library's theorem that `<` is well founded on the naturals; and `RecursionExists`,
which gives such a function its defining equation.

*Time steps* (`DynamicProofs`). `TypeOK`, `TimersAgree` and `OpensOnStreak` are inductive together:
the types say that no timer runs below zero, which is what lets a recovery be told from its absence.
The arithmetic is done once for a component or a breaker of any setting (`FailedOverTyped`,
`BreakerNextTyped` and their like, with lemmas on products and quotients of naturals); one lemma for
each handler then lifts it to all components.

*Daemon* (`DaemonProofs`). The invariant says what memory may be at each place of the loop: after a
start that could read the file, the previous result is what is on disk, until the replacement; a
regression found at the comparison is announced before the save begins; the temporary file holds the
result when it is about to replace. `NoDrift` then follows from the transitivity of "not a regression"
(scores do not fall, findings do not grow), and the refinement has one case for each step: `Notify`
announces, `Replace` saves, `Start` and `StartBlind` restart, all others stutter.

*Delivery* (`ApmDeliveryProofs`). The ids in the buffer and in the flush in progress are distinct and
disjoint from those that are stored, unless an answer was lost, and together cover what was collected,
unless something was refused (`Held`, `Orderly`, `Fresh`); what a flush has yet to post stands for
what it has in hand (`Flow`). Merging keeps the set of ids: the lemmas on `Ids` and `Merged`.
That the latest host metrics never go back needs `Timed`: whatever the collector shows or may yet be
shown (`Shown`, late requests among it) is ordered alike by stamp and by host metrics; what is posted
has the latest of both, and what is collected meanwhile is later still. A flush that fails puts its
batches *behind* those, so the next merge has the host metrics of the last one under a newer stamp:
they do not advance, but they do not go back.

*Remediation* (`RemediationProofs`). Each process at work is `Sane`: its log follows the order of the
plan (`Orderly`), the permissions it has left are those its log has not revoked (`Narrowed`), the
ratchet holds in its log (`Ratcheted`), its plan is within the limits (`Limited`), and a rollback has
something to undo. The step that matters is `PermittedIsSafe`: a step that has the permissions it
needs follows only steps of low risk, none of them denied. The plan goes from high to low risk, so if
any had revoked a permission, this one, which is no riskier, would lack it; and with nothing revoked
nothing is denied. `Sane` speaks of one process
and its own record, so nothing other processes do disturbs it; `RatchetHolds`, `WithinLimits` and
`HonestRecords` therefore hold for any number of processes, although nothing is locked.
`Targetable` and `UndoneWhenSaidSo` are proved for one process (`Alone`). Their invariant `Rolling`
says that a step undone has left nothing and that between the destruction of resources and the removal
of their file there are none; another process that applies the workspace in that moment would bring
them back, so the assumption is needed.

*Runs are finite* (`CascadeProofs`, `LatencyProofs`). That a simulation returns is a liveness property, but
what it depends on is proved: every step takes a measure of five natural numbers down in the
lexicographic order, which is well founded (`Nearer`). In `Cascade` they count the phases to come, the
worsenings that are left, the calls in progress, the dependents that the innermost one has yet to
visit and the agents to be assessed; a recursive call raises the later ones, but only because a
component got worse, so cycles end without the depth limit. In `LatencyCascade` the latencies rise
with every turn of a cycle; the numbers count the levels of the search left to the depth limit, the
entries queued on the current level, its dependents and the whole queue, so there it is the limit
that ends the run. With the fairness of a plain call (it goes on while it can) this is `Returns`; the
last inference, and that a step can be taken at all, are checked by TLC.

*Only model-checked:* the liveness properties (`Returns`, `Stops`, `Delivered`, `ComesBack`,
`BreakerHeals`, `ScalingSettles`, `CatchesUp`), which need fairness and ENABLED. Every other property
of a passing run is stated by a theorem. `WorstPathWins` of `Cascade` is false (section 6), and it is proved
that only the depth limit makes it so (`WorstPathWinsWhenDeep`): with `DeepEnough` the health map is the
`Outcome`, and by induction a chain of hard failures of any length stays within its hard failures.

## 6 Disagreements between code and documentation

Each has a run in which TLC finds the documented property violated; `PROJECT.json` quotes the lines.

* `cascade_worst_path`: under a depth limit that bites, a component first reached on a long path is
  recorded but not expanded, and the record shuts out a shorter path that would expand it. The
  comment says the worst path wins whichever runs first.
* `dynamic_suppressed`: when a breaker opens, the time-stepped engine drops the effects of a fault on
  its target for every component, also for those that call the target through no breaker. The
  docstring says that effects through the protected edge are suppressed.
* `remediation_plan`: approval generates the plan anew and executes that, not the plan saved.

Others were met while modelling; the modules have the behaviour, no run is spent on them, and the
hazards in `PROJECT.json` name the lines:

* A breaker of the latency cascade that trips raises `worst_latency` without queueing anything, and
  makes an entry already queued for the same component stale, although `cascade.py:320` says that the
  path which triggers a timeout is reported.
* The file of a remediation step whose plan failed stays in the workspace, and the next apply brings
  its resources up although no cycle records them.
* Batches of a failed flush are put back behind newer ones, so the merge, which is to keep the latest
  host metrics, keeps older ones.
* Traffic leaves the utilization of a component that is down as it was, and autoscaling acts on it.
* The docstring of the breakers says that a test of a target that is not healthy opens the breaker
  again; with a target that is degraded it stays half open. That of the failover says that a
  component is degraded while it recovers; the traffic of the next step sets its health anew, and may
  take it down, after which the end of the recovery makes it healthy.
* An open-ended one: `_severity_for_step` keeps the first effect of a component, `engine.py` the worst.

## 7 What is left out

* The graph does not change during a simulation: engines get it and only read it.
* Numbers that no decision of the modelled code reads: severity, likelihood, reasons, metrics.
* Files of the remediation agent torn by a crash during a save; what two processes over one
  workspace do to each other's records and resources (the module allows any number of processes, and ratchet, limits and honest
  records are proved for them; the runs use one: nothing locks the workspace, and nothing says that
  two may run).
* Names of generated files: a file is what it declares. A fix whose name changes with the number of
  issues before it, so that two files declare the same resources, is not modelled.
* The agent of `ApmDelivery` is not restarted, and its alerts, traces and topology are not modelled.
* The scenario runner (`engine.py`): between faults it keeps nothing, and its merge is the worst effect
  of each component over results that do not depend on each other.
* The cache of critical paths of the graph, a memo dropped by both operations that change the graph.
* In `DynamicEngine`, floats (fractions instead), agents, and the report drawn from the snapshots. In
  `Daemon`, what the channels of a notice deliver, and two daemons over one directory.
* Components listed as not modelled in `PROJECT.json`.

## 8 Plan

What the project could grow by, in order of importance:

1. **`Remediation` with two processes**: what survives the lack of a lock beyond ratchet, limits and
   records; an abstract specification of a cycle (suspended, executed at most once, recorded), shown
   to be implemented.
2. **`ScenarioRunner`**, composing `Cascade` once per fault, if its merge ever depends on more than
   single results; **`GraphCache`** with the mutation of the graph by discovery.
3. **A restarted agent** in `ApmDelivery`, and the collector's view of which agents are alive.
