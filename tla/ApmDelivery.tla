---------------------------- MODULE ApmDelivery ----------------------------
(***************************************************************************)
(* The telemetry agent and its collector (apm/agent.py, apm/collector.py). *)
(* The agent's loops are tasks of one thread: one collects batches into a  *)
(* buffer, one takes what is there, merges it and posts it, and whatever   *)
(* could not be sent goes back to the buffer.  While a request is awaited  *)
(* the agent collects on.  A request may be lost, be processed and its     *)
(* answer lost, or be processed after the agent has given up on it.        *)
(*                                                                         *)
(* A batch is the number of its collection: a higher one holds newer host  *)
(* metrics.  The moments at which batches are stamped are counted.         *)
(***************************************************************************)
EXTENDS Naturals, Sequences

CONSTANTS MaxBatches,   \* bound on the batches collected
          MaxFailures,  \* bound on the requests that go wrong
          Environments  \* what the agent may have to live with

(***************************************************************************)
(* caps      a merged batch may exceed the collector's caps                *)
(* answers   a request may be processed though it has failed               *)
(* refusals  the answer may have another status than 200                   *)
(***************************************************************************)
Adversity == {"caps", "answers", "refusals"}

ASSUME BoundsAssumption == MaxBatches \in Nat /\ MaxFailures \in Nat

ASSUME EnvironmentsAssumption == Environments \subseteq SUBSET Adversity

VARIABLES
  env,        \* the adversities of this run
  task,       \* what the coroutine that talks to the collector is at
  running,    \* self._running
  collected,  \* the batches collected so far
  clock,      \* the moments at which a batch was stamped
  buffer,     \* _metrics_buffer
  hand,       \* taken by the flush in progress and not known to be sent
  payloads,   \* what the flush has yet to post
  failures,   \* the requests that went wrong
  flight,     \* requests that the agent has given up on and the network has not
  registry,   \* the agent's row in agent_registry
  accepted,   \* how often the collector has stored each batch
  latest      \* what get_latest_metrics returns: the host metrics stamped last

flushVars == <<buffer, hand, payloads>>
collectorVars == <<registry, accepted, latest>>
vars == <<env, task, running, collected, clock, buffer, hand, payloads,
          failures, flight, registry, accepted, latest>>

Batch == [id : 1 .. MaxBatches, stamp : Nat]

\* A MetricsBatch as posted: the batches in it, the one its host metrics are from.
Payload == [request : {"metrics"},
            of : SUBSET (1 .. MaxBatches), host : 1 .. MaxBatches, stamp : Nat]

\* The other requests: to register, and the heartbeat of an agent that stops.
Hello == [request |-> "register"]
Bye == [request |-> "heartbeat"]

TypeOK == /\ env \in SUBSET Adversity
          /\ task \in {"register", "sleep", "post", "deregister", "exited"}
          /\ running \in BOOLEAN
          /\ collected \in 0 .. MaxBatches
          /\ clock \in Nat
          /\ buffer \in Seq(Batch)
          /\ hand \in Seq(Batch)
          /\ payloads \in Seq(Payload)
          /\ failures \in 0 .. MaxFailures
          /\ flight \subseteq Payload \cup {Hello, Bye}
          /\ registry \in {"none", "running", "stopped"}
          /\ accepted \in [1 .. MaxBatches -> Nat]
          /\ latest \in [host : 0 .. MaxBatches, stamp : Nat]

Init == /\ env \in Environments
        /\ task = "register" /\ running = TRUE
        /\ collected = 0 /\ clock = 0
        /\ buffer = << >> /\ hand = << >> /\ payloads = << >>
        /\ failures = 0 /\ flight = {}
        /\ registry = "none"
        /\ accepted = [n \in 1 .. MaxBatches |-> 0]
        /\ latest = [host |-> 0, stamp |-> 0]

-----------------------------------------------------------------------------
\* The collector, which has processed a request once it has answered.

\* Mutant: the row gets the status that the answer has.
RegisteredByAnswer == registry' = "registered" /\ UNCHANGED <<accepted, latest>>

\* register_agent inserts the agent's row, or resets its status.
Registered == registry' = "running" /\ UNCHANGED <<accepted, latest>>

\* A heartbeat updates the row, if there is one.
Heartbeat(status) == registry' = IF registry = "none" THEN "none" ELSE status

\* Mutant: the point stored last is taken for the latest.
StoredByArrival(p) ==
  /\ accepted' = [n \in 1 .. MaxBatches |-> accepted[n] + IF n \in p.of THEN 1 ELSE 0]
  /\ latest' = [host |-> p.host, stamp |-> p.stamp]
  /\ Heartbeat("running")

\* ingest_metrics stores the batch, and takes it for a sign of life.
Stored(p) ==
  /\ accepted' = [n \in 1 .. MaxBatches |-> accepted[n] + IF n \in p.of THEN 1 ELSE 0]
  /\ latest' = IF p.stamp >= latest.stamp THEN [host |-> p.host, stamp |-> p.stamp] ELSE latest
  /\ Heartbeat("running")

Processed(m) == CASE m.request = "register"  -> Registered
                  [] m.request = "heartbeat" -> Heartbeat("stopped") /\ UNCHANGED <<accepted, latest>>
                  [] m.request = "metrics"   -> Stored(m)

(***************************************************************************)
(* A request that goes wrong: it is lost, or refused by the network, or    *)
(* its answer is, or the agent gives up on it while it is under way.       *)
(***************************************************************************)
Fails(m) == /\ failures < MaxFailures
            /\ failures' = failures + 1
            /\ \/ UNCHANGED <<flight, collectorVars>>
               \/ "answers" \in env /\ Processed(m) /\ UNCHANGED flight
               \/ "answers" \in env /\ flight' = flight \cup {m} /\ UNCHANGED collectorVars

Answered(m) == Processed(m) /\ UNCHANGED <<failures, flight>>

\* The collector processes a request that nobody waits for any more.
Arrive == \E m \in flight : /\ Processed(m)
                            /\ flight' = flight \ {m}
                            /\ UNCHANGED <<env, task, running, collected, clock, flushVars, failures>>

-----------------------------------------------------------------------------
\* The loops end when they find that the agent is to stop; run() then takes leave.
Onward == IF running THEN "sleep" ELSE "deregister"

\* _register, whose failure is only logged.
Register == /\ task = "register"
            /\ Answered(Hello) \/ Fails(Hello)
            /\ task' = Onward
            /\ UNCHANGED <<env, running, collected, clock, flushVars>>

\* _collect_loop, which does not wait for the other loop.
Collect == /\ task \in {"sleep", "post"} /\ running
           /\ collected < MaxBatches
           /\ collected' = collected + 1
           /\ clock' = clock + 1
           /\ buffer' = Append(buffer, [id |-> collected', stamp |-> clock'])
           /\ UNCHANGED <<env, task, running, hand, payloads, failures, flight, collectorVars>>

Ids(batches) == {batches[i].id : i \in DOMAIN batches}

Alone(b) == [request |-> "metrics", of |-> {b.id}, host |-> b.id, stamp |-> b.stamp]

\* _merge_batches: the last batch gives its host metrics, the moment of merging the stamp.
Merged(batches) == [request |-> "metrics",
                    of |-> Ids(batches), host |-> batches[Len(batches)].id, stamp |-> clock']

Take(toSend) == /\ task = "sleep" /\ buffer # << >>
                /\ hand' = buffer /\ buffer' = << >>
                /\ payloads' = toSend
                /\ task' = "post"
                /\ UNCHANGED <<env, running, collected, failures, flight, collectorVars>>

\* _flush_buffer takes everything and merges it, unless it is one batch.
FlushOne == /\ Len(buffer) = 1
            /\ Take(<<Alone(buffer[1])>>)
            /\ UNCHANGED clock

FlushMerged == /\ Len(buffer) > 1
               /\ clock' = clock + 1
               /\ Take(<<Merged(buffer)>>)

\* The merged batch is invalid: the batches are sent one by one.
FlushUnmerged == /\ "caps" \in env /\ Len(buffer) > 1
                 /\ Take([i \in DOMAIN buffer |-> Alone(buffer[i])])
                 /\ UNCHANGED clock

Now == Head(payloads)

\* Mutant: the batches of a flush that fails half-way all count as unsent.
SentKeepsAll ==
  /\ payloads' = Tail(payloads)
  /\ hand' = IF Len(payloads) = 1 THEN << >> ELSE hand
  /\ task' = IF Len(payloads) = 1 THEN Onward ELSE "post"
  /\ UNCHANGED <<env, running, collected, clock, buffer>>

\* A payload is sent: one batch, or the last payload and with it all there is.
Sent == /\ payloads' = Tail(payloads)
        /\ hand' = IF Len(payloads) = 1 THEN << >> ELSE Tail(hand)
        /\ task' = IF Len(payloads) = 1 THEN Onward ELSE "post"
        /\ UNCHANGED <<env, running, collected, clock, buffer>>

Post == task = "post" /\ Answered(Now) /\ Sent

\* The answer has another status than 200, which is logged.
PostRefused == /\ task = "post" /\ "refusals" \in env
               /\ Sent
               /\ UNCHANGED <<failures, flight, collectorVars>>

\* Mutant: the batch that failed counts as sent.
PostFailsSkips ==
  /\ task = "post"
  /\ Fails(Now)
  /\ buffer' = buffer \o Tail(hand)
  /\ hand' = << >> /\ payloads' = << >>
  /\ task' = Onward
  /\ UNCHANGED <<env, running, collected, clock>>

\* The request raises: what is not known to be sent goes back to the buffer.
PostFails == /\ task = "post"
             /\ Fails(Now)
             /\ buffer' = buffer \o hand
             /\ hand' = << >> /\ payloads' = << >>
             /\ task' = Onward
             /\ UNCHANGED <<env, running, collected, clock>>

\* Mutant: a loop that has nothing to send sleeps on.
LeaveNever == task = "sleep" /\ ~running /\ buffer = << >> /\ UNCHANGED vars

\* The last flush has found nothing to send.
Leave == /\ task = "sleep" /\ ~running /\ buffer = << >>
         /\ task' = "deregister"
         /\ UNCHANGED <<env, running, collected, clock, flushVars, failures, flight, collectorVars>>

\* _deregister, after which the process is gone, and the buffer with it.
Exit == task' = "exited" /\ buffer' = << >> /\ hand' = << >> /\ payloads' = << >>

Deregister == /\ task = "deregister"
              /\ Answered(Bye) \/ Fails(Bye)
              /\ Exit
              /\ UNCHANGED <<env, running, collected, clock>>

\* A signal asks the agent to stop.
RequestStop == /\ task # "exited" /\ running
               /\ running' = FALSE
               /\ UNCHANGED <<env, task, collected, clock, flushVars, failures, flight, collectorVars>>

\* The process is killed; a request it was waiting for may still be under way.
Crash == /\ task # "exited"
         /\ Exit
         /\ \/ UNCHANGED flight
            \/ "answers" \in env /\ task = "post" /\ flight' = flight \cup {Now}
         /\ UNCHANGED <<env, running, collected, clock, failures, collectorVars>>

Converse == \/ Register \/ FlushOne \/ FlushMerged \/ FlushUnmerged
            \/ Post \/ PostRefused \/ PostFails \/ Leave \/ Deregister

Next == Converse \/ Collect \/ Arrive \/ RequestStop \/ Crash

Spec == Init /\ [][Next]_vars

\* Both sleeps end and every request is answered or times out; nobody has to stop the agent.
FairSpec == Spec /\ WF_vars(Converse)

-----------------------------------------------------------------------------
(***************************************************************************)
(* No batch is discarded while the agent is up, unless it was refused: it  *)
(* is in the buffer, or in the flush in progress, or the collector has it. *)
(***************************************************************************)
NothingDiscarded ==
  "refusals" \notin env /\ task # "exited" =>
    \A n \in 1 .. collected : n \in Ids(buffer) \cup Ids(hand) \/ accepted[n] > 0

(***************************************************************************)
(* No batch is stored twice when requests are processed or fail, though a  *)
(* flush that fails half-way is repeated.                                  *)
(***************************************************************************)
AtMostOnce == "answers" \notin env => \A n \in 1 .. MaxBatches : accepted[n] <= 1

(***************************************************************************)
(* What the collector takes for the latest host metrics never gives way to *)
(* older ones, in whatever order requests arrive and are repeated, as long *)
(* as every flush sends what it merges.                                    *)
(***************************************************************************)
LatestNeverOlder == [][ "caps" \notin env => latest'.host >= latest.host ]_vars

(***************************************************************************)
(* Every batch is stored in the end, if failures end, nothing is refused   *)
(* and the agent is left to run.                                           *)
(***************************************************************************)
Delivered ==
  \A n \in 1 .. MaxBatches :
    collected >= n /\ "refusals" \notin env ~> accepted[n] > 0 \/ task = "exited"

\* An agent that is asked to stop does, however its last requests end.
Stops == ~running ~> task = "exited"

=============================================================================
