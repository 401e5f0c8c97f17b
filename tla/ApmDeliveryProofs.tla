------------------------- MODULE ApmDeliveryProofs -------------------------
(***************************************************************************)
(* Proofs about the delivery of batches, for any number of them, of        *)
(* failures, and any environments.                                         *)
(***************************************************************************)
EXTENDS ApmDelivery, SequenceTheorems, TLAPS

Number == 1 .. MaxBatches

-----------------------------------------------------------------------------
(* Sequences of batches. *)

LEMMA IdsNumbers ==
  ASSUME NEW s \in Seq(Batch)
  PROVE  Ids(s) \subseteq Number
<1>1. ASSUME NEW i \in DOMAIN s PROVE s[i].id \in Number
  <2>1. s[i] \in Batch
    OBVIOUS
  <2>2. QED
    BY <2>1 DEF Batch, Number
<1>2. QED
  BY <1>1 DEF Ids

LEMMA IdsEmpty == Ids(<< >>) = {}
BY DEF Ids

LEMMA IdsAppend ==
  ASSUME NEW s \in Seq(Batch), NEW b \in Batch
  PROVE  Ids(Append(s, b)) = Ids(s) \cup {b.id}
<1> DEFINE t == Append(s, b)
<1>1. /\ t \in Seq(Batch) /\ Len(t) = Len(s) + 1 /\ Len(s) \in Nat
      /\ \A i \in 1 .. Len(s) : t[i] = s[i]
      /\ t[Len(s) + 1] = b
  OBVIOUS
<1>2. DOMAIN t = 1 .. Len(s) + 1 /\ DOMAIN s = 1 .. Len(s)
  BY <1>1
<1> HIDE DEF t
<1>3. Ids(t) \subseteq Ids(s) \cup {b.id}
  BY <1>1, <1>2 DEF Ids
<1>4. Ids(s) \subseteq Ids(t)
  <2> SUFFICES ASSUME NEW i \in 1 .. Len(s) PROVE s[i].id \in Ids(t)
    BY <1>2 DEF Ids
  <2>1. i \in DOMAIN t /\ t[i].id = s[i].id
    BY <1>1, <1>2
  <2>2. QED
    BY <2>1 DEF Ids
<1>5. b.id \in Ids(t)
  <2>1. Len(s) + 1 \in DOMAIN t
    BY <1>1, <1>2
  <2>2. QED
    BY <1>1, <2>1 DEF Ids
<1>6. QED
  BY <1>3, <1>4, <1>5 DEF t

LEMMA IdsConcat ==
  ASSUME NEW s \in Seq(Batch), NEW t \in Seq(Batch)
  PROVE  Ids(s \o t) = Ids(s) \cup Ids(t)
<1> DEFINE u == s \o t
           n == Len(s)
           k == Len(t)
<1>1. /\ u \in Seq(Batch) /\ Len(u) = n + k /\ n \in Nat /\ k \in Nat
      /\ \A i \in 1 .. n : u[i] = s[i]
      /\ \A i \in 1 .. k : u[n + i] = t[i]
      /\ \A i \in n + 1 .. n + k : u[i] = t[i - n]
  OBVIOUS
<1>2. DOMAIN u = 1 .. n + k /\ DOMAIN s = 1 .. n /\ DOMAIN t = 1 .. k
  BY <1>1
<1> HIDE DEF u, n, k
<1>3. ASSUME NEW i \in 1 .. n + k PROVE u[i].id \in Ids(s) \cup Ids(t)
  <2>1. CASE i \in 1 .. n
    BY <1>1, <1>2, <2>1 DEF Ids
  <2>2. CASE i \in n + 1 .. n + k
    <3>1. i - n \in 1 .. k /\ u[i] = t[i - n]
      BY <1>1, <2>2
    <3>2. QED
      BY <1>2, <3>1 DEF Ids
  <2>3. QED
    BY <1>1, <2>1, <2>2
<1>4. Ids(u) \subseteq Ids(s) \cup Ids(t)
  BY <1>2, <1>3 DEF Ids
<1>5. ASSUME NEW i \in 1 .. n PROVE s[i].id \in Ids(u)
  <2>1. i \in DOMAIN u /\ u[i].id = s[i].id
    BY <1>1, <1>2
  <2>2. QED
    BY <2>1 DEF Ids
<1>6. ASSUME NEW i \in 1 .. k PROVE t[i].id \in Ids(u)
  <2>1. n + i \in DOMAIN u /\ u[n + i].id = t[i].id
    BY <1>1, <1>2
  <2>2. QED
    BY <2>1 DEF Ids
<1>7. Ids(s) \subseteq Ids(u) /\ Ids(t) \subseteq Ids(u)
  BY <1>2, <1>5, <1>6 DEF Ids
<1>8. QED
  BY <1>4, <1>7 DEF u

LEMMA IdsTail ==
  ASSUME NEW s \in Seq(Batch), s # << >>
  PROVE  /\ Tail(s) \in Seq(Batch)
         /\ Ids(s) = {s[1].id} \cup Ids(Tail(s))
<1> DEFINE t == Tail(s)
<1>1. /\ t \in Seq(Batch) /\ Len(s) \in Nat \ {0} /\ Len(t) = Len(s) - 1
      /\ \A i \in 1 .. Len(t) : t[i] = s[i + 1]
  OBVIOUS
<1>2. DOMAIN s = 1 .. Len(s) /\ DOMAIN t = 1 .. Len(s) - 1
  BY <1>1
<1> HIDE DEF t
<1>3. ASSUME NEW i \in DOMAIN s PROVE s[i].id \in {s[1].id} \cup Ids(t)
  <2>1. CASE i = 1
    BY <2>1
  <2>2. CASE i # 1
    <3>1. i - 1 \in DOMAIN t /\ t[i - 1] = s[i]
      BY <1>1, <1>2, <2>2
    <3>2. QED
      BY <3>1 DEF Ids
  <2>3. QED
    BY <2>1, <2>2
<1>4. ASSUME NEW i \in DOMAIN t PROVE t[i].id \in Ids(s)
  <2>1. i + 1 \in DOMAIN s /\ t[i] = s[i + 1]
    BY <1>1, <1>2
  <2>2. QED
    BY <2>1 DEF Ids
<1>5. s[1].id \in Ids(s)
  BY <1>1, <1>2 DEF Ids
<1>6. QED
  BY <1>1, <1>3, <1>4, <1>5 DEF Ids, t

\* No two batches of a sequence are the same.
Distinct(s) == \A i, j \in DOMAIN s : s[i].id = s[j].id => i = j

LEMMA DistinctAppend ==
  ASSUME NEW s \in Seq(Batch), NEW b \in Batch, Distinct(s), b.id \notin Ids(s)
  PROVE  Distinct(Append(s, b))
<1> DEFINE t == Append(s, b)
<1>1. /\ DOMAIN t = 1 .. Len(s) + 1 /\ DOMAIN s = 1 .. Len(s) /\ Len(s) \in Nat
      /\ \A i \in 1 .. Len(s) : t[i] = s[i]
      /\ t[Len(s) + 1] = b
  OBVIOUS
<1> HIDE DEF t
<1>2. \A i \in DOMAIN s : s[i].id # b.id
  BY DEF Ids
<1>3. Distinct(t)
  BY <1>1, <1>2 DEF Distinct
<1>4. QED
  BY <1>3 DEF t

LEMMA DistinctConcat ==
  ASSUME NEW s \in Seq(Batch), NEW t \in Seq(Batch), Distinct(s), Distinct(t),
         Ids(s) \cap Ids(t) = {}
  PROVE  Distinct(s \o t)
<1> DEFINE u == s \o t
           n == Len(s)
           k == Len(t)
<1>1. /\ n \in Nat /\ k \in Nat
      /\ DOMAIN u = 1 .. n + k /\ DOMAIN s = 1 .. n /\ DOMAIN t = 1 .. k
      /\ \A i \in 1 .. n : u[i] = s[i]
      /\ \A i \in n + 1 .. n + k : u[i] = t[i - n]
  OBVIOUS
<1> HIDE DEF u, n, k
<1>2. \A i \in 1 .. n, j \in 1 .. k : s[i].id # t[j].id
  BY <1>1 DEF Ids
<1>3. ASSUME NEW i \in 1 .. n + k, NEW j \in 1 .. n + k, u[i].id = u[j].id
      PROVE  i = j
  <2>1. CASE i \in 1 .. n /\ j \in 1 .. n
    BY <1>1, <1>3, <2>1 DEF Distinct
  <2>2. CASE i \in n + 1 .. n + k /\ j \in n + 1 .. n + k
    <3>1. i - n \in 1 .. k /\ j - n \in 1 .. k
      BY <1>1, <2>2
    <3>2. t[i - n].id = t[j - n].id
      BY <1>1, <1>3, <2>2
    <3>3. i - n = j - n
      BY <1>1, <3>1, <3>2 DEF Distinct
    <3>4. QED
      BY <1>1, <3>3
  <2>3. CASE i \in 1 .. n /\ j \in n + 1 .. n + k
    <3>1. j - n \in 1 .. k
      BY <1>1, <2>3
    <3>2. QED
      BY <1>1, <1>2, <1>3, <2>3, <3>1
  <2>4. CASE i \in n + 1 .. n + k /\ j \in 1 .. n
    <3>1. i - n \in 1 .. k
      BY <1>1, <2>4
    <3>2. QED
      BY <1>1, <1>2, <1>3, <2>4, <3>1
  <2>5. QED
    BY <1>1, <2>1, <2>2, <2>3, <2>4
<1>4. Distinct(u)
  BY <1>1, <1>3 DEF Distinct
<1>5. QED
  BY <1>4 DEF u

LEMMA DistinctTail ==
  ASSUME NEW s \in Seq(Batch), s # << >>, Distinct(s)
  PROVE  Distinct(Tail(s)) /\ s[1].id \notin Ids(Tail(s))
<1> DEFINE t == Tail(s)
<1>1. /\ Len(s) \in Nat \ {0}
      /\ DOMAIN s = 1 .. Len(s) /\ DOMAIN t = 1 .. Len(s) - 1
      /\ \A i \in 1 .. Len(s) - 1 : t[i] = s[i + 1]
  OBVIOUS
<1> HIDE DEF t
<1>2. ASSUME NEW i \in DOMAIN t, NEW j \in DOMAIN t, t[i].id = t[j].id PROVE i = j
  <2>1. i + 1 \in DOMAIN s /\ j + 1 \in DOMAIN s /\ s[i + 1].id = s[j + 1].id
    BY <1>1, <1>2
  <2>2. i + 1 = j + 1
    BY <2>1 DEF Distinct
  <2>3. QED
    BY <1>1, <2>2
<1>3. ASSUME NEW i \in DOMAIN t PROVE t[i].id # s[1].id
  <2>1. i + 1 \in DOMAIN s /\ 1 \in DOMAIN s /\ t[i].id = s[i + 1].id /\ i + 1 # 1
    BY <1>1
  <2>2. QED
    BY <2>1 DEF Distinct
<1>4. Distinct(t) /\ s[1].id \notin Ids(t)
  BY <1>2, <1>3 DEF Distinct, Ids
<1>5. QED
  BY <1>4 DEF t

-----------------------------------------------------------------------------
(* The collector and the network. *)

Request == Payload \cup {Hello, Bye}

ChannelOK == /\ failures \in 0 .. MaxFailures
             /\ flight \subseteq Request
             /\ registry \in {"none", "running", "stopped"}
             /\ accepted \in [Number -> Nat]
             /\ latest \in [host : 0 .. MaxBatches, stamp : Nat]

\* The batches that a request brings.
Brings(m) == IF m.request = "metrics" THEN m.of ELSE {}

LEMMA ProcessedEffect ==
  ASSUME ChannelOK, NEW m \in Request, Processed(m)
  PROVE  /\ registry' \in {"none", "running", "stopped"}
         /\ accepted' \in [Number -> Nat]
         /\ latest' \in [host : 0 .. MaxBatches, stamp : Nat]
         /\ \A n \in Number :
              accepted'[n] = accepted[n] + IF n \in Brings(m) THEN 1 ELSE 0
<1>1. CASE m = Hello
  <2>1. m.request = "register"
    BY <1>1 DEF Hello
  <2>2. Registered
    BY <2>1 DEF Processed
  <2>3. QED
    BY <2>1, <2>2 DEF Registered, ChannelOK, Brings
<1>2. CASE m = Bye
  <2>1. m.request = "heartbeat"
    BY <1>2 DEF Bye
  <2>2. Heartbeat("stopped") /\ UNCHANGED <<accepted, latest>>
    BY <2>1 DEF Processed
  <2>3. QED
    BY <2>1, <2>2 DEF Heartbeat, ChannelOK, Brings
<1>3. CASE m \in Payload
  <2>1. /\ m.request = "metrics" /\ m.of \subseteq Number
        /\ m.host \in 0 .. MaxBatches /\ m.stamp \in Nat
    BY <1>3, BoundsAssumption DEF Payload, Number
  <2>2. Stored(m)
    BY <2>1 DEF Processed
  <2>3. registry' \in {"none", "running", "stopped"}
    BY <2>2 DEF Stored, Heartbeat
  <2>4. latest' \in [host : 0 .. MaxBatches, stamp : Nat]
    BY <2>1, <2>2 DEF Stored, ChannelOK
  <2>5. accepted' = [n \in Number |-> accepted[n] + IF n \in m.of THEN 1 ELSE 0]
    BY <2>2 DEF Stored, Number
  <2>6. \A n \in Number : accepted[n] \in Nat
    BY DEF ChannelOK
  <2>7. accepted' \in [Number -> Nat]
    BY <2>5, <2>6
  <2>8. QED
    BY <2>1, <2>3, <2>4, <2>5, <2>7 DEF Brings
<1>4. QED
  BY <1>1, <1>2, <1>3 DEF Request

\* A request that succeeds is processed exactly once.
LEMMA AnsweredEffect ==
  ASSUME ChannelOK, NEW m \in Request, Answered(m)
  PROVE  /\ ChannelOK' /\ UNCHANGED flight
         /\ \A n \in Number :
              accepted'[n] = accepted[n] + IF n \in Brings(m) THEN 1 ELSE 0
BY ProcessedEffect DEF Answered, ChannelOK

(***************************************************************************)
(* A request that fails takes nothing from the collector, and where        *)
(* answers are not lost it adds nothing either.                            *)
(***************************************************************************)
LEMMA FailsEffect ==
  ASSUME ChannelOK, NEW m \in Request, Fails(m)
  PROVE  /\ ChannelOK'
         /\ \A n \in Number : accepted'[n] >= accepted[n]
         /\ "answers" \notin env => UNCHANGED <<flight, accepted>>
<1>1. failures' \in 0 .. MaxFailures
  BY BoundsAssumption DEF Fails, ChannelOK
<1>2. \A n \in Number : accepted[n] \in Nat
  BY DEF ChannelOK
<1>3. CASE UNCHANGED <<flight, collectorVars>>
  BY <1>1, <1>2, <1>3 DEF ChannelOK, collectorVars
<1>4. CASE "answers" \in env /\ Processed(m) /\ UNCHANGED flight
  <2>1. \A n \in Number : accepted'[n] >= accepted[n]
    BY <1>2, <1>4, ProcessedEffect
  <2>2. ChannelOK'
    BY <1>1, <1>4, ProcessedEffect DEF ChannelOK
  <2>3. QED
    BY <1>4, <2>1, <2>2
<1>5. CASE "answers" \in env /\ flight' = flight \cup {m} /\ UNCHANGED collectorVars
  BY <1>1, <1>2, <1>5 DEF ChannelOK, collectorVars
<1>6. QED
  BY <1>3, <1>4, <1>5 DEF Fails

-----------------------------------------------------------------------------
(* The agent. *)

AgentOK == /\ env \in SUBSET Adversity
           /\ task \in {"register", "sleep", "post", "deregister", "exited"}
           /\ running \in BOOLEAN
           /\ collected \in 0 .. MaxBatches
           /\ clock \in Nat
           /\ buffer \in Seq(Batch)
           /\ hand \in Seq(Batch)
           /\ payloads \in Seq(Payload)

(***************************************************************************)
(* A flush in progress has in hand what it has yet to post: one payload    *)
(* with all of it, or one payload for each batch.                          *)
(***************************************************************************)
Flow ==
  /\ task # "post" => hand = << >> /\ payloads = << >>
  /\ task = "post" =>
       /\ payloads # << >> /\ hand # << >>
       /\ \/ Len(payloads) = 1 /\ payloads[1].of = Ids(hand)
          \/ /\ Len(payloads) = Len(hand)
             /\ \A i \in 1 .. Len(hand) : payloads[i] = Alone(hand[i])

Held == Ids(buffer) \cup Ids(hand)

\* A batch that was collected is in one place, once.
Orderly == /\ Distinct(buffer) /\ Distinct(hand)
           /\ Ids(buffer) \cap Ids(hand) = {}
           /\ Held \subseteq 1 .. collected

(***************************************************************************)
(* Where answers are not lost, no request outlives the wait for it, and    *)
(* what the agent holds, or has yet to collect, was not stored.            *)
(***************************************************************************)
Fresh == "answers" \notin env =>
           /\ flight = {}
           /\ \A n \in Number : accepted[n] <= 1
           /\ \A n \in Number : n \in Held \/ n > collected => accepted[n] = 0

Inv == AgentOK /\ ChannelOK /\ Flow /\ Orderly /\ NothingDiscarded /\ Fresh

\* What a step does not lose, and what it does not store a second time.
NoneLost == "refusals" \notin env /\ task' # "exited" =>
              /\ task # "exited"
              /\ \A n \in Held : n \in Held' \/ accepted'[n] > 0

NoneTwice(B) == "answers" \notin env =>
                  /\ flight' = flight
                  /\ B \subseteq Held /\ Held' \subseteq Held \ B
                  /\ \A n \in Number : accepted'[n] = accepted[n] + IF n \in B THEN 1 ELSE 0

LEMMA Delivery ==
  ASSUME Inv, ChannelOK', UNCHANGED <<env, collected>>,
         \A n \in Number : accepted'[n] >= accepted[n],
         NoneLost, NEW B \in SUBSET Number, NoneTwice(B)
  PROVE  NothingDiscarded' /\ Fresh'
<1>1. /\ \A n \in Number : accepted[n] \in Nat /\ accepted'[n] \in Nat
      /\ collected \in Nat /\ 1 .. collected \subseteq Number
  BY BoundsAssumption DEF Inv, ChannelOK, AgentOK, Number
<1>2. NothingDiscarded'
  <2> SUFFICES ASSUME "refusals" \notin env, task' # "exited", NEW n \in 1 .. collected
               PROVE  n \in Held' \/ accepted'[n] > 0
    BY DEF NothingDiscarded, Held
  <2>1. n \in Held \/ accepted[n] > 0
    BY DEF NoneLost, Inv, NothingDiscarded, Held
  <2>2. CASE n \in Held
    BY <2>2 DEF NoneLost
  <2>3. CASE accepted[n] > 0
    BY <1>1, <2>3
  <2>4. QED
    BY <2>1, <2>2, <2>3
<1>3. Fresh'
  <2> SUFFICES ASSUME "answers" \notin env
               PROVE  /\ flight' = {}
                      /\ \A n \in Number : accepted'[n] <= 1
                      /\ \A n \in Number :
                           n \in Held' \/ n > collected => accepted'[n] = 0
    BY DEF Fresh
  <2>1. /\ flight = {}
        /\ \A n \in Number : accepted[n] <= 1
        /\ \A n \in Number : n \in Held \/ n > collected => accepted[n] = 0
    BY DEF Inv, Fresh
  <2>2. /\ flight' = flight
        /\ B \subseteq Held /\ Held' \subseteq Held \ B
        /\ \A n \in Number : accepted'[n] = accepted[n] + IF n \in B THEN 1 ELSE 0
    BY DEF NoneTwice
  <2>3. \A n \in Held : ~(n > collected)
    BY <1>1 DEF Inv, Orderly
  <2>4. ASSUME NEW n \in Number
        PROVE  /\ accepted'[n] <= 1
               /\ n \in Held' \/ n > collected => accepted'[n] = 0
    <3>1. CASE n \in B
      <4>1. accepted[n] = 0 /\ accepted'[n] = accepted[n] + 1
        BY <2>1, <2>2, <3>1
      <4>2. n \notin Held' /\ ~(n > collected)
        BY <2>2, <2>3, <3>1
      <4>3. QED
        BY <4>1, <4>2
    <3>2. CASE n \notin B
      <4>1. accepted'[n] = accepted[n]
        BY <1>1, <2>2, <3>2
      <4>2. QED
        BY <2>1, <2>2, <4>1
    <3>3. QED
      BY <3>1, <3>2
  <2>5. QED
    BY <2>1, <2>2, <2>4
<1>4. QED
  BY <1>2, <1>3

(***************************************************************************)
(* A request that brings no batch, by an agent that moves none, keeps the  *)
(* invariant whether it succeeds or fails.                                 *)
(***************************************************************************)
LEMMA QuietRequest ==
  ASSUME Inv, NEW m \in {Hello, Bye}, Answered(m) \/ Fails(m),
         UNCHANGED <<env, collected>>, task # "exited",
         Held' = Held \/ (task' = "exited" /\ Held' = {})
  PROVE  ChannelOK' /\ NothingDiscarded' /\ Fresh'
<1>1. m \in Request /\ Brings(m) = {}
  BY DEF Request, Brings, Hello, Bye
<1>2. \A n \in Number : accepted[n] \in Nat
  BY DEF Inv, ChannelOK
<1>3. ChannelOK'
  BY <1>1, AnsweredEffect, FailsEffect DEF Inv
<1>4. \A n \in Number : accepted'[n] >= accepted[n]
  <2>1. CASE Answered(m)
    BY <1>1, <1>2, <2>1, AnsweredEffect DEF Inv
  <2>2. CASE Fails(m)
    BY <1>1, <2>2, FailsEffect DEF Inv
  <2>3. QED
    BY <2>1, <2>2
<1>5. "answers" \notin env => flight' = flight /\ \A n \in Number : accepted'[n] = accepted[n]
  <2>1. CASE Answered(m)
    BY <1>1, <1>2, <2>1, AnsweredEffect DEF Inv
  <2>2. CASE Fails(m)
    BY <1>1, <2>2, FailsEffect DEF Inv
  <2>3. QED
    BY <2>1, <2>2
<1>6. NoneLost
  BY DEF NoneLost
<1>7. NoneTwice({})
  BY <1>2, <1>5 DEF NoneTwice
<1>8. QED
  BY <1>3, <1>4, <1>6, <1>7, Delivery

LEMMA OnwardTask == Onward \in {"sleep", "deregister"}
BY DEF Onward

LEMMA RegisterInv ==
  ASSUME Inv, Register
  PROVE  Inv'
<1>1. Answered(Hello) \/ Fails(Hello)
  BY DEF Register
<1>2. /\ UNCHANGED <<env, running, collected, clock, buffer, hand, payloads>>
      /\ task = "register" /\ task' \in {"sleep", "deregister"}
  BY OnwardTask DEF Register, flushVars
<1>3. Held' = Held
  BY <1>2 DEF Held
<1>4. ChannelOK' /\ NothingDiscarded' /\ Fresh'
  BY <1>1, <1>2, <1>3, QuietRequest
<1>5. AgentOK'
  BY <1>2 DEF Inv, AgentOK
<1>6. Flow'
  BY <1>2 DEF Inv, Flow
<1>7. Orderly'
  BY <1>2, <1>3 DEF Inv, Orderly
<1>8. QED
  BY <1>4, <1>5, <1>6, <1>7 DEF Inv

\* The process is gone, and what it held with it.
LEMMA ExitInv ==
  ASSUME Inv, Exit, UNCHANGED <<env, running, collected, clock>>
  PROVE  AgentOK' /\ Flow' /\ Orderly' /\ Held' = {}
<1>1. task' = "exited" /\ buffer' = << >> /\ hand' = << >> /\ payloads' = << >>
  BY DEF Exit
<1>2. Ids(<< >>) = {} /\ Distinct(<< >>)
  BY IdsEmpty DEF Distinct
<1>3. Held' = {}
  BY <1>1, <1>2 DEF Held
<1>4. AgentOK'
  BY <1>1 DEF Inv, AgentOK
<1>5. Flow'
  BY <1>1 DEF Flow
<1>6. Orderly'
  BY <1>1, <1>2, <1>3 DEF Orderly
<1>7. QED
  BY <1>3, <1>4, <1>5, <1>6

LEMMA DeregisterInv ==
  ASSUME Inv, Deregister
  PROVE  Inv'
<1>1. /\ Answered(Bye) \/ Fails(Bye)
      /\ Exit /\ task = "deregister"
      /\ UNCHANGED <<env, running, collected, clock>>
  BY DEF Deregister
<1>2. AgentOK' /\ Flow' /\ Orderly' /\ Held' = {}
  BY <1>1, ExitInv
<1>3. task' = "exited"
  BY <1>1 DEF Exit
<1>4. ChannelOK' /\ NothingDiscarded' /\ Fresh'
  BY <1>1, <1>2, <1>3, QuietRequest
<1>5. QED
  BY <1>2, <1>4 DEF Inv

LEMMA CollectInv ==
  ASSUME Inv, Collect
  PROVE  Inv'
<1> DEFINE b == [id |-> collected + 1, stamp |-> clock + 1]
<1>1. /\ collected' = collected + 1 /\ clock' = clock + 1
      /\ buffer' = Append(buffer, b)
      /\ UNCHANGED <<env, task, running, hand, payloads, failures, flight,
                     registry, accepted, latest>>
      /\ collected \in Nat /\ collected < MaxBatches /\ clock \in Nat
  BY BoundsAssumption DEF Collect, collectorVars, Inv, AgentOK
<1>2. b \in Batch /\ b.id = collected + 1
  BY <1>1, BoundsAssumption DEF Batch
<1> HIDE DEF b
<1>3. buffer \in Seq(Batch) /\ hand \in Seq(Batch)
  BY DEF Inv, AgentOK
<1>4. Ids(buffer') = Ids(buffer) \cup {collected + 1}
  BY <1>1, <1>2, <1>3, IdsAppend
<1>5. Held' = Held \cup {collected + 1} /\ Held \subseteq 1 .. collected
  BY <1>1, <1>4 DEF Held, Inv, Orderly
<1>6. AgentOK'
  <2>1. buffer' \in Seq(Batch)
    BY <1>1, <1>2, <1>3
  <2>2. QED
    BY <1>1, <2>1, BoundsAssumption DEF Inv, AgentOK
<1>7. ChannelOK'
  BY <1>1 DEF Inv, ChannelOK
<1>8. Flow'
  BY <1>1 DEF Inv, Flow, Ids, Alone
<1>9. Orderly'
  <2>1. collected + 1 \notin Ids(buffer) /\ collected + 1 \notin Ids(hand)
    BY <1>1, <1>5 DEF Held
  <2>2. Distinct(buffer')
    BY <1>1, <1>2, <1>3, <2>1, DistinctAppend DEF Inv, Orderly
  <2>3. Distinct(hand')
    BY <1>1 DEF Inv, Orderly
  <2>4. Ids(buffer') \cap Ids(hand') = {}
    BY <1>1, <1>4, <2>1 DEF Inv, Orderly
  <2>5. Held' \subseteq 1 .. collected'
    BY <1>1, <1>5
  <2>6. QED
    BY <2>2, <2>3, <2>4, <2>5 DEF Orderly
<1>10. NothingDiscarded'
  <2> SUFFICES ASSUME "refusals" \notin env, task # "exited", NEW n \in 1 .. collected + 1
               PROVE  n \in Held' \/ accepted[n] > 0
    BY <1>1 DEF NothingDiscarded, Held
  <2>1. CASE n \in 1 .. collected
    BY <1>5, <2>1 DEF Inv, NothingDiscarded, Held
  <2>2. CASE n = collected + 1
    BY <1>5, <2>2
  <2>3. QED
    BY <1>1, <2>1, <2>2
<1>11. Fresh'
  <2> SUFFICES ASSUME "answers" \notin env
               PROVE  /\ flight = {}
                      /\ \A n \in Number : accepted[n] <= 1
                      /\ \A n \in Number :
                           n \in Held' \/ n > collected + 1 => accepted[n] = 0
    BY <1>1 DEF Fresh
  <2>1. /\ flight = {}
        /\ \A n \in Number : accepted[n] <= 1
        /\ \A n \in Number : n \in Held \/ n > collected => accepted[n] = 0
    BY DEF Inv, Fresh
  <2>2. ASSUME NEW n \in Number, n \in Held' \/ n > collected + 1
        PROVE  n \in Held \/ n > collected
    BY <1>1, <1>5, <2>2 DEF Number
  <2>3. QED
    BY <2>1, <2>2
<1>12. QED
  BY <1>6, <1>7, <1>8, <1>9, <1>10, <1>11 DEF Inv

(***************************************************************************)
(* A flush takes the whole buffer, and what it will post accounts for it.  *)
(***************************************************************************)
LEMMA TakeInv ==
  ASSUME Inv, NEW toSend \in Seq(Payload), Take(toSend), clock' \in Nat,
         toSend # << >>,
         \/ Len(toSend) = 1 /\ toSend[1].of = Ids(buffer)
         \/ /\ Len(toSend) = Len(buffer)
            /\ \A i \in 1 .. Len(buffer) : toSend[i] = Alone(buffer[i])
  PROVE  Inv'
<1>1. /\ task = "sleep" /\ buffer # << >>
      /\ hand' = buffer /\ buffer' = << >> /\ payloads' = toSend /\ task' = "post"
      /\ UNCHANGED <<env, running, collected, failures, flight,
                     registry, accepted, latest>>
  BY DEF Take, collectorVars
<1>2. hand = << >>
  BY <1>1 DEF Inv, Flow
<1>3. Ids(<< >>) = {} /\ Distinct(<< >>)
  BY IdsEmpty DEF Distinct
<1>4. Held' = Held
  BY <1>1, <1>2, <1>3 DEF Held
<1>5. AgentOK'
  BY <1>1 DEF Inv, AgentOK
<1>6. ChannelOK'
  BY <1>1 DEF Inv, ChannelOK
<1>7. Flow'
  BY <1>1 DEF Flow, Ids, Alone
<1>8. Orderly'
  BY <1>1, <1>3, <1>4 DEF Inv, Orderly
<1>9. NothingDiscarded' /\ Fresh'
  <2>1. \A n \in Number : accepted[n] \in Nat
    BY DEF Inv, ChannelOK
  <2>2. NoneLost /\ NoneTwice({})
    BY <1>1, <1>4, <2>1 DEF NoneLost, NoneTwice
  <2>3. \A n \in Number : accepted'[n] >= accepted[n]
    BY <1>1, <2>1
  <2>4. QED
    BY <1>1, <1>6, <2>2, <2>3, Delivery
<1>10. QED
  BY <1>5, <1>6, <1>7, <1>8, <1>9 DEF Inv

LEMMA AlonePayload ==
  ASSUME NEW b \in Batch
  PROVE  Alone(b) \in Payload
BY DEF Alone, Payload, Batch

LEMMA FlushOneInv ==
  ASSUME Inv, FlushOne
  PROVE  Inv'
<1> DEFINE toSend == <<Alone(buffer[1])>>
<1>1. buffer \in Seq(Batch) /\ Len(buffer) = 1 /\ Take(toSend) /\ clock' = clock
  BY DEF FlushOne, Inv, AgentOK
<1>2. buffer[1] \in Batch
  BY <1>1
<1>3. toSend \in Seq(Payload) /\ toSend # << >> /\ Len(toSend) = 1
      /\ toSend[1] = Alone(buffer[1])
  BY <1>2, AlonePayload
<1>4. \A i \in 1 .. Len(buffer) : toSend[i] = Alone(buffer[i])
  BY <1>1, <1>3
<1>5. clock' \in Nat
  BY <1>1 DEF Inv, AgentOK
<1> HIDE DEF toSend
<1>6. QED
  BY <1>1, <1>3, <1>4, <1>5, TakeInv

LEMMA FlushMergedInv ==
  ASSUME Inv, FlushMerged
  PROVE  Inv'
<1> DEFINE toSend == <<Merged(buffer)>>
<1>1. buffer \in Seq(Batch) /\ Len(buffer) > 1 /\ Take(toSend)
  BY DEF FlushMerged, Inv, AgentOK
<1>2. clock' \in Nat
  BY DEF FlushMerged, Inv, AgentOK
<1>3. buffer[Len(buffer)] \in Batch
  BY <1>1
<1>4. Ids(buffer) \subseteq 1 .. MaxBatches
  BY <1>1, IdsNumbers DEF Number
<1>5. Merged(buffer) \in Payload /\ Merged(buffer).of = Ids(buffer)
  BY <1>2, <1>3, <1>4 DEF Merged, Payload, Batch
<1>6. toSend \in Seq(Payload) /\ toSend # << >> /\ Len(toSend) = 1
      /\ toSend[1].of = Ids(buffer)
  BY <1>5
<1> HIDE DEF toSend
<1>7. QED
  BY <1>1, <1>2, <1>6, TakeInv

LEMMA FlushUnmergedInv ==
  ASSUME Inv, FlushUnmerged
  PROVE  Inv'
<1> DEFINE toSend == [i \in DOMAIN buffer |-> Alone(buffer[i])]
<1>1. buffer \in Seq(Batch) /\ Len(buffer) > 1 /\ Take(toSend) /\ clock' = clock
  BY DEF FlushUnmerged, Inv, AgentOK
<1>2. \A i \in 1 .. Len(buffer) : buffer[i] \in Batch
  BY <1>1
<1>3. DOMAIN buffer = 1 .. Len(buffer) /\ Len(buffer) \in Nat
  BY <1>1
<1>4. /\ toSend \in Seq(Payload) /\ Len(toSend) = Len(buffer)
      /\ \A i \in 1 .. Len(buffer) : toSend[i] = Alone(buffer[i])
  BY <1>2, <1>3, AlonePayload
<1>5. clock' \in Nat
  BY <1>1 DEF Inv, AgentOK
<1> HIDE DEF toSend
<1>6. toSend # << >>
  BY <1>1, <1>4
<1>7. QED
  BY <1>1, <1>4, <1>5, <1>6, TakeInv

LEMMA EmptyBatches ==
  ASSUME NEW S, NEW s \in Seq(S)
  PROVE  s = << >> <=> Len(s) = 0
BY EmptySeq

LEMMA AloneOf ==
  ASSUME NEW b
  PROVE  Alone(b).of = {b.id}
BY DEF Alone

(***************************************************************************)
(* What is posted next is in hand, and once it is sent the rest of what is *)
(* in hand, and no more, is still to be posted.                            *)
(***************************************************************************)
LEMMA SentEffect ==
  ASSUME Inv, task = "post", Sent
  PROVE  /\ Now \in Payload /\ Now.of \subseteq Held
         /\ Held' = Held \ Now.of
         /\ AgentOK' /\ Flow' /\ Orderly'
<1>1. /\ payloads \in Seq(Payload) /\ hand \in Seq(Batch) /\ buffer \in Seq(Batch)
      /\ payloads # << >> /\ hand # << >>
      /\ Distinct(hand) /\ Distinct(buffer) /\ Ids(buffer) \cap Ids(hand) = {}
      /\ Held \subseteq 1 .. collected
  BY DEF Inv, AgentOK, Flow, Orderly
<1>2. /\ payloads' = Tail(payloads)
      /\ hand' = IF Len(payloads) = 1 THEN << >> ELSE Tail(hand)
      /\ task' = IF Len(payloads) = 1 THEN Onward ELSE "post"
      /\ UNCHANGED <<env, running, collected, clock, buffer>>
  BY DEF Sent
<1>3. /\ Now = payloads[1] /\ Now \in Payload
      /\ Len(payloads) \in Nat \ {0} /\ Len(hand) \in Nat \ {0}
      /\ payloads' \in Seq(Payload) /\ Len(payloads') = Len(payloads) - 1
      /\ \A i \in 1 .. Len(payloads) - 1 : payloads'[i] = payloads[i + 1]
  BY <1>1, <1>2 DEF Now
<1>4. /\ Tail(hand) \in Seq(Batch) /\ Len(Tail(hand)) = Len(hand) - 1
      /\ \A i \in 1 .. Len(hand) - 1 : Tail(hand)[i] = hand[i + 1]
      /\ Ids(hand) = {hand[1].id} \cup Ids(Tail(hand))
      /\ Distinct(Tail(hand)) /\ hand[1].id \notin Ids(Tail(hand))
  BY <1>1, IdsTail, DistinctTail
<1>5. AgentOK'
  <2>1. hand' \in Seq(Batch)
    BY <1>2, <1>4
  <2>2. task' \in {"register", "sleep", "post", "deregister", "exited"}
    BY <1>2, OnwardTask
  <2>3. QED
    BY <1>2, <1>3, <2>1, <2>2 DEF Inv, AgentOK
<1>6. Ids(<< >>) = {} /\ Distinct(<< >>)
  BY IdsEmpty DEF Distinct
<1>7. CASE Len(payloads) = 1
  <2>1. Now.of = Ids(hand)
    <3>1. CASE payloads[1].of = Ids(hand)
      BY <1>3, <3>1
    <3>2. CASE /\ Len(payloads) = Len(hand)
               /\ \A i \in 1 .. Len(hand) : payloads[i] = Alone(hand[i])
      <4>1. 1 \in 1 .. Len(hand)
        BY <1>3
      <4>2. Now.of = {hand[1].id}
        BY <1>3, <3>2, <4>1, AloneOf
      <4>3. Len(Tail(hand)) = 0
        <5>1. Len(hand) = 1
          BY <1>7, <3>2
        <5>2. Len(Tail(hand)) = Len(hand) - 1
          BY <1>4
        <5>3. QED
          BY <5>1, <5>2
      <4>4. Tail(hand) = << >>
        BY <1>4, <4>3, EmptyBatches
      <4>5. QED
        BY <1>4, <1>6, <4>2, <4>4
    <3>3. QED
      BY <3>1, <3>2 DEF Inv, Flow
  <2>2. /\ hand' = << >> /\ payloads' = << >> /\ task' # "post"
    BY <1>2, <1>3, <1>7, OnwardTask
  <2>3. Now.of \subseteq Held /\ Held' = Held \ Now.of
    BY <1>1, <1>2, <1>6, <2>1, <2>2 DEF Held
  <2>4. Flow'
    BY <2>2 DEF Flow
  <2>5. Orderly'
    BY <1>1, <1>2, <1>6, <2>2, <2>3 DEF Orderly
  <2>6. QED
    BY <1>3, <1>5, <2>3, <2>4, <2>5
<1>8. CASE Len(payloads) # 1
  <2>1. /\ Len(payloads) = Len(hand)
        /\ \A i \in 1 .. Len(hand) : payloads[i] = Alone(hand[i])
    BY <1>8 DEF Inv, Flow
  <2>2. hand' = Tail(hand) /\ task' = "post"
    BY <1>2, <1>8
  <2>3. Now.of = {hand[1].id}
    <3>1. 1 \in 1 .. Len(hand)
      BY <1>3
    <3>2. QED
      BY <1>3, <2>1, <3>1, AloneOf
  <2>4. Ids(hand') = Ids(hand) \ Now.of
    BY <1>4, <2>2, <2>3
  <2>5. Now.of \subseteq Held /\ Held' = Held \ Now.of
    <3>1. Now.of \subseteq Ids(hand)
      BY <1>4, <2>3
    <3>2. QED
      BY <1>1, <1>2, <2>4, <3>1 DEF Held
  <2>6. Flow'
    <3>1. \A i \in 1 .. Len(hand') : payloads'[i] = Alone(hand'[i])
      <4> SUFFICES ASSUME NEW i \in 1 .. Len(hand) - 1
                   PROVE  payloads'[i] = Alone(hand'[i])
        BY <1>4, <2>2
      <4>1. payloads'[i] = payloads[i + 1] /\ hand'[i] = hand[i + 1]
        BY <1>3, <1>4, <2>1, <2>2
      <4>2. i + 1 \in 1 .. Len(hand)
        BY <1>3
      <4>3. QED
        BY <2>1, <4>1, <4>2
    <3>2. Len(payloads') = Len(hand') /\ Len(hand') # 0 /\ Len(payloads') # 0
      BY <1>3, <1>4, <1>8, <2>1, <2>2
    <3>3. payloads' # << >> /\ hand' # << >>
      BY <1>3, <1>4, <2>2, <3>2, EmptyBatches
    <3>4. QED
      BY <2>2, <3>1, <3>2, <3>3 DEF Flow, Alone
  <2>7. Orderly'
    BY <1>1, <1>2, <1>4, <2>2, <2>4, <2>5 DEF Orderly
  <2>8. QED
    BY <1>3, <1>5, <2>5, <2>6, <2>7
<1>9. QED
  BY <1>7, <1>8

LEMMA PostInv ==
  ASSUME Inv, Post
  PROVE  Inv'
<1>1. task = "post" /\ Answered(Now) /\ Sent
  BY DEF Post
<1>2. /\ Now \in Payload /\ Now.of \subseteq Held /\ Held' = Held \ Now.of
      /\ AgentOK' /\ Flow' /\ Orderly'
  BY <1>1, SentEffect
<1>3. Now \in Request /\ Brings(Now) = Now.of /\ Now.of \subseteq Number
  BY <1>2 DEF Request, Brings, Payload, Number
<1>4. /\ ChannelOK' /\ UNCHANGED flight
      /\ \A n \in Number : accepted'[n] = accepted[n] + IF n \in Now.of THEN 1 ELSE 0
  BY <1>1, <1>3, AnsweredEffect DEF Inv
<1>5. \A n \in Number : accepted[n] \in Nat
  BY DEF Inv, ChannelOK
<1>6. UNCHANGED <<env, collected>>
  BY <1>1 DEF Sent
<1>7. NoneLost
  <2>1. \A n \in Now.of : accepted'[n] > 0
    BY <1>3, <1>4, <1>5
  <2>2. QED
    BY <1>1, <1>2, <2>1 DEF NoneLost
<1>8. NoneTwice(Now.of)
  BY <1>2, <1>4 DEF NoneTwice
<1>9. \A n \in Number : accepted'[n] >= accepted[n]
  BY <1>4, <1>5
<1>10. NothingDiscarded' /\ Fresh'
  BY <1>3, <1>4, <1>6, <1>7, <1>8, <1>9, Delivery
<1>11. QED
  BY <1>2, <1>4, <1>10 DEF Inv

LEMMA PostRefusedInv ==
  ASSUME Inv, PostRefused
  PROVE  Inv'
<1>1. /\ task = "post" /\ "refusals" \in env /\ Sent
      /\ UNCHANGED <<failures, flight, registry, accepted, latest>>
  BY DEF PostRefused, collectorVars
<1>2. Held' = Held \ Now.of /\ AgentOK' /\ Flow' /\ Orderly'
  BY <1>1, SentEffect
<1>3. UNCHANGED <<env, collected>>
  BY <1>1 DEF Sent
<1>4. ChannelOK'
  BY <1>1 DEF Inv, ChannelOK
<1>5. \A n \in Number : accepted[n] \in Nat
  BY DEF Inv, ChannelOK
<1>6. NoneLost
  BY <1>1 DEF NoneLost
<1>7. NoneTwice({})
  BY <1>1, <1>2, <1>5 DEF NoneTwice
<1>8. \A n \in Number : accepted'[n] >= accepted[n]
  BY <1>1, <1>5
<1>9. NothingDiscarded' /\ Fresh'
  BY <1>3, <1>4, <1>6, <1>7, <1>8, Delivery
<1>10. QED
  BY <1>2, <1>4, <1>9 DEF Inv

\* What could not be sent is put back, and is there once.
LEMMA PostFailsInv ==
  ASSUME Inv, PostFails
  PROVE  Inv'
<1>1. /\ task = "post" /\ Fails(Now)
      /\ buffer' = buffer \o hand /\ hand' = << >> /\ payloads' = << >>
      /\ task' \in {"sleep", "deregister"}
      /\ UNCHANGED <<env, running, collected, clock>>
  BY OnwardTask DEF PostFails
<1>2. /\ buffer \in Seq(Batch) /\ hand \in Seq(Batch)
      /\ payloads \in Seq(Payload) /\ payloads # << >>
  BY <1>1 DEF Inv, AgentOK, Flow
<1>3. Now \in Request
  BY <1>2 DEF Now, Request
<1>4. /\ ChannelOK' /\ \A n \in Number : accepted'[n] >= accepted[n]
      /\ "answers" \notin env => UNCHANGED <<flight, accepted>>
  BY <1>1, <1>3, FailsEffect DEF Inv
<1>5. Ids(<< >>) = {} /\ Distinct(<< >>)
  BY IdsEmpty DEF Distinct
<1>6. Ids(buffer') = Ids(buffer) \cup Ids(hand)
  BY <1>1, <1>2, IdsConcat
<1>7. Held' = Held
  BY <1>1, <1>5, <1>6 DEF Held
<1>8. AgentOK'
  BY <1>1, <1>2 DEF Inv, AgentOK
<1>9. Flow'
  BY <1>1 DEF Flow
<1>10. Orderly'
  <2>1. Distinct(buffer')
    BY <1>1, <1>2, DistinctConcat DEF Inv, Orderly
  <2>2. QED
    BY <1>1, <1>5, <1>7, <2>1 DEF Inv, Orderly
<1>11. \A n \in Number : accepted[n] \in Nat
  BY DEF Inv, ChannelOK
<1>12. NoneLost /\ NoneTwice({})
  BY <1>1, <1>4, <1>7, <1>11 DEF NoneLost, NoneTwice
<1>13. NothingDiscarded' /\ Fresh'
  BY <1>1, <1>4, <1>12, Delivery
<1>14. QED
  BY <1>4, <1>8, <1>9, <1>10, <1>13 DEF Inv

\* A late request may only bring again what is known to be lost or stored.
LEMMA ArriveInv ==
  ASSUME Inv, Arrive
  PROVE  Inv'
<1>1. PICK m \in flight : Processed(m) /\ flight' = flight \ {m}
  BY DEF Arrive
<1>2. UNCHANGED <<env, task, running, collected, clock, buffer, hand, payloads, failures>>
  BY DEF Arrive, flushVars
<1>3. m \in Request /\ flight' \subseteq Request
  BY <1>1 DEF Inv, ChannelOK
<1>4. /\ registry' \in {"none", "running", "stopped"}
      /\ accepted' \in [Number -> Nat]
      /\ latest' \in [host : 0 .. MaxBatches, stamp : Nat]
      /\ \A n \in Number : accepted'[n] = accepted[n] + IF n \in Brings(m) THEN 1 ELSE 0
  BY <1>1, <1>3, ProcessedEffect DEF Inv
<1>5. ChannelOK'
  BY <1>2, <1>3, <1>4 DEF Inv, ChannelOK
<1>6. \A n \in Number : accepted[n] \in Nat /\ accepted'[n] >= accepted[n]
  BY <1>4 DEF Inv, ChannelOK
<1>7. Held' = Held
  BY <1>2 DEF Held
<1>8. AgentOK' /\ Flow' /\ Orderly'
  BY <1>2, <1>7 DEF Inv, AgentOK, Flow, Orderly
<1>9. NoneLost
  BY <1>2, <1>7 DEF NoneLost
<1>10. NoneTwice({})
  <2>1. "answers" \in env
    BY <1>1 DEF Inv, Fresh
  <2>2. QED
    BY <2>1 DEF NoneTwice
<1>11. NothingDiscarded' /\ Fresh'
  BY <1>2, <1>5, <1>6, <1>9, <1>10, Delivery
<1>12. QED
  BY <1>5, <1>8, <1>11 DEF Inv

LEMMA CrashInv ==
  ASSUME Inv, Crash
  PROVE  Inv'
<1>1. /\ task # "exited" /\ Exit
      /\ UNCHANGED <<env, running, collected, clock, failures, registry, accepted, latest>>
      /\ \/ UNCHANGED flight
         \/ "answers" \in env /\ task = "post" /\ flight' = flight \cup {Now}
  BY DEF Crash, collectorVars
<1>2. AgentOK' /\ Flow' /\ Orderly' /\ Held' = {}
  BY <1>1, ExitInv
<1>3. task = "post" => Now \in Request
  BY DEF Inv, Flow, AgentOK, Now, Request
<1>4. ChannelOK'
  BY <1>1, <1>3 DEF Inv, ChannelOK
<1>5. \A n \in Number : accepted[n] \in Nat
  BY DEF Inv, ChannelOK
<1>6. NoneLost
  BY <1>1 DEF NoneLost, Exit
<1>7. NoneTwice({})
  BY <1>1, <1>2, <1>5 DEF NoneTwice
<1>8. \A n \in Number : accepted'[n] >= accepted[n]
  BY <1>1, <1>5
<1>9. NothingDiscarded' /\ Fresh'
  BY <1>1, <1>4, <1>6, <1>7, <1>8, Delivery
<1>10. QED
  BY <1>2, <1>4, <1>9 DEF Inv

\* A step that only moves the agent on, or nothing at all.
LEMMA IdleInv ==
  ASSUME Inv, UNCHANGED <<env, collected, clock, buffer, hand, payloads, failures,
                          flight, registry, accepted, latest>>,
         running' \in BOOLEAN,
         task' = task \/ (task = "sleep" /\ task' = "deregister")
  PROVE  Inv'
<1>1. Held' = Held
  BY DEF Held
<1>2. AgentOK' /\ ChannelOK'
  BY DEF Inv, AgentOK, ChannelOK
<1>3. Flow'
  BY DEF Inv, Flow, Ids, Alone
<1>4. Orderly'
  BY <1>1 DEF Inv, Orderly
<1>5. NothingDiscarded'
  BY DEF Inv, NothingDiscarded, Ids
<1>6. Fresh'
  BY <1>1 DEF Inv, Fresh
<1>7. QED
  BY <1>2, <1>3, <1>4, <1>5, <1>6 DEF Inv

-----------------------------------------------------------------------------

LEMMA InitInv == Init => Inv
<1> SUFFICES ASSUME Init PROVE Inv
  OBVIOUS
<1>1. Ids(<< >>) = {} /\ Distinct(<< >>)
  BY IdsEmpty DEF Distinct
<1>2. running \in BOOLEAN
  BY DEF Init
<1>3. AgentOK
  BY <1>2, BoundsAssumption, EnvironmentsAssumption DEF Init, AgentOK
<1>4. ChannelOK
  BY BoundsAssumption DEF Init, ChannelOK, Number
<1>5. Flow
  BY DEF Init, Flow
<1>6. Held = {} /\ Orderly
  BY <1>1 DEF Init, Held, Orderly
<1>7. NothingDiscarded
  BY DEF Init, NothingDiscarded
<1>8. Fresh
  BY <1>6 DEF Init, Fresh, Number
<1>9. QED
  BY <1>3, <1>4, <1>5, <1>6, <1>7, <1>8 DEF Inv

LEMMA NextInv == Inv /\ [Next]_vars => Inv'
<1> SUFFICES ASSUME Inv, [Next]_vars PROVE Inv'
  OBVIOUS
<1>1. running \in BOOLEAN
  BY DEF Inv, AgentOK
<1>2. CASE Leave
  BY <1>1, <1>2, IdleInv DEF Leave, flushVars, collectorVars
<1>3. CASE RequestStop
  BY <1>3, IdleInv DEF RequestStop, flushVars, collectorVars
<1>4. CASE UNCHANGED vars
  BY <1>1, <1>4, IdleInv DEF vars
<1>5. CASE Register \/ Deregister \/ Collect \/ Arrive \/ Crash
  BY <1>5, RegisterInv, DeregisterInv, CollectInv, ArriveInv, CrashInv
<1>6. CASE FlushOne \/ FlushMerged \/ FlushUnmerged
  BY <1>6, FlushOneInv, FlushMergedInv, FlushUnmergedInv
<1>7. CASE Post \/ PostRefused \/ PostFails
  BY <1>7, PostInv, PostRefusedInv, PostFailsInv
<1>8. QED
  BY <1>2, <1>3, <1>4, <1>5, <1>6, <1>7 DEF Next, Converse

LEMMA AlwaysInv == Spec => []Inv
<1>1. QED
  BY InitInv, NextInv, PTL DEF Spec

(***************************************************************************)
(* Every variable keeps its type: what is posted is always a batch, or the *)
(* merger of batches, with host metrics of one of them.                    *)
(***************************************************************************)
THEOREM TypeCorrect == Spec => []TypeOK
<1>1. Inv => TypeOK
  BY DEF Inv, AgentOK, ChannelOK, TypeOK, Request, Number
<1>2. QED
  BY <1>1, AlwaysInv, PTL

(***************************************************************************)
(* No batch is discarded while the agent is up and nothing is refused,     *)
(* however many batches and failures there are.                            *)
(***************************************************************************)
THEOREM AlwaysNothingDiscarded == Spec => []NothingDiscarded
<1>1. Inv => NothingDiscarded
  BY DEF Inv
<1>2. QED
  BY <1>1, AlwaysInv, PTL

(***************************************************************************)
(* No batch is stored twice unless a request is processed of which the     *)
(* agent has no answer.                                                    *)
(***************************************************************************)
THEOREM AlwaysAtMostOnce == Spec => []AtMostOnce
<1>1. Inv => AtMostOnce
  BY DEF Inv, Fresh, AtMostOnce, Number
<1>2. QED
  BY <1>1, AlwaysInv, PTL

-----------------------------------------------------------------------------
(***************************************************************************)
(* The order of host metrics.  What the collector shows, or may yet show   *)
(* when a request that was given up on arrives.                            *)
(***************************************************************************)
Shown == {latest} \cup {m \in flight : m.request = "metrics"}

\* No newer in either, and not shown with this stamp and other host metrics.
Before(q, host, stamp) == /\ q.host <= host /\ q.stamp <= stamp
                          /\ q.stamp = stamp => q.host = host

(***************************************************************************)
(* Where every flush sends what it merges, later stamps come with newer    *)
(* host metrics.  What is posted has the latest of both, what is collected *)
(* meanwhile is later still; what is put back goes behind that, so that    *)
(* the next flush has the host metrics of the last.                        *)
(***************************************************************************)
Past == /\ \A i \in DOMAIN buffer : buffer[i].stamp <= clock
        /\ \A i \in DOMAIN hand : hand[i].stamp <= clock
        /\ \A q \in Shown : q.host <= collected /\ q.stamp <= clock

Ordered == \A p, q \in Shown : p.stamp >= q.stamp => p.host >= q.host

Posting ==
  task = "post" =>
    /\ Len(payloads) = 1
    /\ Now.host = hand[Len(hand)].id
    /\ Len(hand) = 1 => Now.stamp = hand[1].stamp
    /\ Now.stamp <= clock
    /\ \A q \in Shown : Before(q, Now.host, Now.stamp)
    /\ \A i \in DOMAIN buffer : Now.stamp < buffer[i].stamp /\ Now.host < buffer[i].id

Buffered ==
  task # "post" /\ buffer # << >> =>
    /\ \A q \in Shown : q.host <= buffer[Len(buffer)].id
    /\ Len(buffer) = 1 => \A q \in Shown : Before(q, buffer[1].id, buffer[1].stamp)

Timed == Past /\ Ordered /\ Posting /\ Buffered

LEMMA ShownNumbers ==
  ASSUME ChannelOK
  PROVE  \A q \in Shown : q.host \in Nat /\ q.stamp \in Nat
<1>1. latest.host \in Nat /\ latest.stamp \in Nat
  BY BoundsAssumption DEF ChannelOK
<1>2. ASSUME NEW m \in flight, m.request = "metrics" PROVE m.host \in Nat /\ m.stamp \in Nat
  <2>1. m \in Payload
    BY <1>2 DEF ChannelOK, Request, Hello, Bye
  <2>2. QED
    BY <2>1, BoundsAssumption DEF Payload
<1>3. QED
  BY <1>1, <1>2 DEF Shown

\* The last of a sequence of batches, and what is known of all of them.
LEMMA BatchNumbers ==
  ASSUME NEW s \in Seq(Batch)
  PROVE  /\ DOMAIN s = 1 .. Len(s) /\ Len(s) \in Nat
         /\ \A i \in DOMAIN s : s[i] \in Batch /\ s[i].id \in Nat /\ s[i].stamp \in Nat
         /\ \A i \in DOMAIN s : s[i].id \in Ids(s)
         /\ s # << >> => Len(s) \in DOMAIN s
<1>1. DOMAIN s = 1 .. Len(s) /\ Len(s) \in Nat
  OBVIOUS
<1>2. \A i \in DOMAIN s : s[i] \in Batch
  OBVIOUS
<1>3. s # << >> => Len(s) # 0
  BY EmptyBatches
<1>4. QED
  BY <1>1, <1>2, <1>3, BoundsAssumption DEF Batch, Ids

(***************************************************************************)
(* What a request shows: its own host metrics at most, and these only if   *)
(* they are stamped no earlier than the latest.                            *)
(***************************************************************************)
ShowsAtMost(m) ==
  \A q \in Shown' : \/ q \in Shown
                    \/ m.request = "metrics" /\ q.host = m.host /\ q.stamp = m.stamp

Renews(m) == \/ latest' = latest
             \/ /\ m.request = "metrics" /\ m.stamp >= latest.stamp
                /\ latest' = [host |-> m.host, stamp |-> m.stamp]

LEMMA ProcessedRenews ==
  ASSUME NEW m \in Request, Processed(m)
  PROVE  Renews(m)
<1>1. CASE m = Hello
  BY <1>1 DEF Hello, Processed, Registered, Renews
<1>2. CASE m = Bye
  BY <1>2 DEF Bye, Processed, Renews
<1>3. CASE m \in Payload
  <2>1. m.request = "metrics"
    BY <1>3 DEF Payload
  <2>2. Stored(m)
    BY <2>1 DEF Processed
  <2>3. QED
    BY <2>1, <2>2 DEF Stored, Renews
<1>4. QED
  BY <1>1, <1>2, <1>3 DEF Request

LEMMA RequestShows ==
  ASSUME NEW m \in Request, Answered(m) \/ Fails(m)
  PROVE  ShowsAtMost(m) /\ Renews(m)
<1>1. Renews(m)
  BY ProcessedRenews DEF Answered, Fails, collectorVars, Renews
<1>2. flight' = flight \/ flight' = flight \cup {m}
  BY DEF Answered, Fails
<1>3. QED
  BY <1>1, <1>2 DEF Renews, ShowsAtMost, Shown

-----------------------------------------------------------------------------
\* A step that shows nothing new and sends nothing.
LEMMA QuietTimed ==
  ASSUME Timed, UNCHANGED <<clock, collected>>,
         \A q \in Shown' : \E p \in Shown : p.host = q.host /\ p.stamp = q.stamp,
         \/ UNCHANGED <<task, buffer, hand, payloads>>
         \/ task' # "post" /\ buffer' = << >> /\ hand' = << >>
         \/ task # "post" /\ task' # "post" /\ UNCHANGED <<buffer, hand>>
  PROVE  Timed'
<1>1. Ordered'
  BY DEF Timed, Ordered
<1>2. \A q \in Shown' : q.host <= collected /\ q.stamp <= clock
  BY DEF Timed, Past
<1>3. \A host, stamp : (\A q \in Shown : Before(q, host, stamp))
                       => \A q \in Shown' : Before(q, host, stamp)
  BY DEF Before
<1>4. CASE UNCHANGED <<task, buffer, hand, payloads>>
  <2>1. Past'
    BY <1>2, <1>4 DEF Timed, Past
  <2>2. Posting'
    <3>1. Now' = Now
      BY <1>4 DEF Now
    <3>2. QED
      BY <1>3, <1>4, <3>1 DEF Timed, Posting
  <2>3. Buffered'
    BY <1>3, <1>4 DEF Timed, Buffered
  <2>4. QED
    BY <1>1, <2>1, <2>2, <2>3 DEF Timed
<1>5. CASE task' # "post" /\ buffer' = << >> /\ hand' = << >>
  <2>1. DOMAIN buffer' = {} /\ DOMAIN hand' = {}
    BY <1>5
  <2>2. Past'
    BY <1>2, <2>1 DEF Past
  <2>3. QED
    BY <1>1, <1>5, <2>2 DEF Timed, Posting, Buffered
<1>6. CASE task # "post" /\ task' # "post" /\ UNCHANGED <<buffer, hand>>
  <2>1. Past'
    BY <1>2, <1>6 DEF Timed, Past
  <2>2. Posting'
    BY <1>6 DEF Posting
  <2>3. Buffered'
    BY <1>3, <1>6 DEF Timed, Buffered
  <2>4. QED
    BY <1>1, <2>1, <2>2, <2>3 DEF Timed
<1>7. QED
  BY <1>4, <1>5, <1>6

\* What is posted was collected, and is stamped, already.
LEMMA PostingNumbers ==
  ASSUME Inv, Timed, task = "post"
  PROVE  /\ Now \in Request /\ Now.request = "metrics"
         /\ Now.host \in Nat /\ Now.stamp \in Nat
         /\ Now.host <= collected /\ Now.stamp <= clock
         /\ collected \in Nat /\ clock \in Nat
<1>1. /\ hand # << >> /\ hand \in Seq(Batch)
      /\ payloads \in Seq(Payload) /\ payloads # << >>
      /\ collected \in Nat /\ clock \in Nat
  BY BoundsAssumption DEF Inv, Flow, AgentOK
<1>2. Now \in Payload
  BY <1>1 DEF Now
<1>3. Now.host \in Nat /\ Now.stamp \in Nat /\ Now.request = "metrics" /\ Now \in Request
  BY <1>2, BoundsAssumption DEF Payload, Request
<1>4. hand[Len(hand)].id \in Held
  BY <1>1, BatchNumbers DEF Held
<1>5. Held \subseteq 1 .. collected
  BY DEF Inv, Orderly
<1>6. Now.host \in 1 .. collected /\ Now.stamp <= clock
  BY <1>4, <1>5 DEF Timed, Posting
<1>7. QED
  BY <1>1, <1>3, <1>6

LEMMA CollectTimed ==
  ASSUME Inv, Timed, Collect
  PROVE  Timed'
<1> DEFINE b == [id |-> collected + 1, stamp |-> clock + 1]
<1>1. /\ collected' = collected + 1 /\ clock' = clock + 1
      /\ buffer' = Append(buffer, b)
      /\ UNCHANGED <<task, hand, payloads, flight, latest>>
      /\ collected \in Nat /\ clock \in Nat /\ buffer \in Seq(Batch) /\ hand \in Seq(Batch)
  BY BoundsAssumption DEF Collect, collectorVars, Inv, AgentOK
<1>2. Shown' = Shown /\ Now' = Now
  BY <1>1 DEF Shown, Now
<1>3. /\ DOMAIN buffer' = 1 .. Len(buffer) + 1 /\ DOMAIN buffer = 1 .. Len(buffer)
      /\ Len(buffer') = Len(buffer) + 1 /\ Len(buffer) \in Nat
      /\ \A i \in 1 .. Len(buffer) : buffer'[i] = buffer[i]
      /\ buffer'[Len(buffer) + 1] = b
  BY <1>1
<1>4. b.id = collected + 1 /\ b.stamp = clock + 1
  OBVIOUS
<1> HIDE DEF b
<1>5. \A q \in Shown : q.host \in Nat /\ q.stamp \in Nat
  BY ShownNumbers DEF Inv
<1>6. \A i \in DOMAIN buffer' : \/ i \in DOMAIN buffer /\ buffer'[i] = buffer[i]
                                \/ buffer'[i] = b
  BY <1>3
<1>7. /\ \A i \in DOMAIN buffer : buffer[i].stamp \in Nat
      /\ \A i \in DOMAIN hand : hand[i].stamp \in Nat
  BY <1>1, BatchNumbers
<1>8. \A q \in Shown : /\ q.host <= collected + 1 /\ q.stamp <= clock + 1
                       /\ q.stamp # clock + 1
  BY <1>1, <1>5 DEF Timed, Past
<1>9. Past'
  <2>1. \A i \in DOMAIN buffer' : buffer'[i].stamp <= clock + 1
    BY <1>1, <1>4, <1>6, <1>7 DEF Timed, Past
  <2>2. \A i \in DOMAIN hand : hand[i].stamp <= clock + 1
    BY <1>1, <1>7 DEF Timed, Past
  <2>3. QED
    BY <1>1, <1>2, <1>8, <2>1, <2>2 DEF Past
<1>10. Ordered'
  BY <1>2 DEF Timed, Ordered
<1>11. Posting'
  <2> SUFFICES ASSUME task = "post" PROVE Posting'
    BY <1>1 DEF Posting
  <2>1. Now.stamp <= clock /\ Now.host <= collected /\ Now.host \in Nat /\ Now.stamp \in Nat
    BY PostingNumbers
  <2>2. \A i \in DOMAIN buffer' : Now.stamp < buffer'[i].stamp /\ Now.host < buffer'[i].id
    BY <1>1, <1>4, <1>6, <2>1 DEF Timed, Posting
  <2>3. Now.stamp <= clock + 1
    BY <1>1, <2>1
  <2>4. QED
    BY <1>1, <1>2, <2>2, <2>3 DEF Timed, Posting
<1>12. Buffered'
  <2>1. buffer'[Len(buffer')] = b /\ (Len(buffer') = 1 => buffer'[1] = b)
    BY <1>3
  <2>2. \A q \in Shown : q.host <= b.id /\ Before(q, b.id, b.stamp)
    BY <1>4, <1>8 DEF Before
  <2>3. QED
    BY <1>1, <1>2, <2>1, <2>2 DEF Buffered
<1>13. QED
  BY <1>9, <1>10, <1>11, <1>12 DEF Timed

\* A flush takes over the last host metrics with a stamp that is not earlier.
LEMMA TakeTimed ==
  ASSUME Inv, Timed, NEW p \in Payload, Take(<<p>>), clock' \in Nat, clock' >= clock,
         p.host = buffer[Len(buffer)].id, p.stamp <= clock',
         Len(buffer) = 1 => p.stamp = buffer[1].stamp,
         \A q \in Shown : q.stamp <= p.stamp /\ (q.stamp = p.stamp => q.host = p.host)
  PROVE  Timed'
<1>1. /\ task = "sleep" /\ buffer # << >> /\ buffer \in Seq(Batch)
      /\ hand' = buffer /\ buffer' = << >> /\ payloads' = <<p>> /\ task' = "post"
      /\ UNCHANGED <<collected, flight, latest>>
      /\ clock \in Nat
  BY DEF Take, collectorVars, Inv, AgentOK
<1>2. Now' = p /\ Len(payloads') = 1 /\ DOMAIN buffer' = {}
  BY <1>1 DEF Now
<1>3. Shown' = Shown
  BY <1>1 DEF Shown
<1>4. \A q \in Shown : q.host \in Nat /\ q.stamp \in Nat
  BY ShownNumbers DEF Inv
<1>5. \A i \in DOMAIN buffer : buffer[i].stamp \in Nat
  BY <1>1, BatchNumbers
<1>6. Past'
  <2>1. \A i \in DOMAIN buffer : buffer[i].stamp <= clock'
    BY <1>1, <1>5 DEF Timed, Past
  <2>2. \A q \in Shown : q.host <= collected /\ q.stamp <= clock'
    BY <1>1, <1>4 DEF Timed, Past
  <2>3. QED
    BY <1>1, <1>2, <1>3, <2>1, <2>2 DEF Past
<1>7. Ordered'
  BY <1>3 DEF Timed, Ordered
<1>8. Posting'
  <2>1. \A q \in Shown : Before(q, p.host, p.stamp)
    BY <1>1 DEF Timed, Buffered, Before
  <2>2. QED
    BY <1>1, <1>2, <1>3, <2>1 DEF Posting
<1>9. Buffered'
  BY <1>1 DEF Buffered
<1>10. QED
  BY <1>6, <1>7, <1>8, <1>9 DEF Timed

LEMMA FlushTimed ==
  ASSUME Inv, Timed, FlushOne \/ FlushMerged
  PROVE  Timed'
<1>1. /\ buffer \in Seq(Batch) /\ clock \in Nat
      /\ \A q \in Shown : q.host \in Nat /\ q.stamp \in Nat
  BY ShownNumbers DEF Inv, AgentOK
<1>2. CASE FlushOne
  <2>1. Len(buffer) = 1 /\ Take(<<Alone(buffer[1])>>) /\ clock' = clock
    BY <1>2 DEF FlushOne
  <2>2. task # "post" /\ buffer # << >>
    BY <2>1 DEF Take
  <2>3. /\ 1 \in DOMAIN buffer /\ buffer[1] \in Batch
        /\ Alone(buffer[1]).host = buffer[1].id /\ Alone(buffer[1]).stamp = buffer[1].stamp
    BY <1>1, <2>1, BatchNumbers DEF Alone
  <2>4. /\ buffer[1].stamp <= clock
        /\ \A q \in Shown : /\ q.stamp <= buffer[1].stamp
                            /\ q.stamp = buffer[1].stamp => q.host = buffer[1].id
    BY <2>1, <2>2, <2>3 DEF Timed, Past, Buffered, Before
  <2> DEFINE p == Alone(buffer[1])
  <2>5. p \in Payload /\ Take(<<p>>)
    BY <2>1, <2>3, AlonePayload
  <2>6. /\ p.host = buffer[Len(buffer)].id /\ p.stamp = buffer[1].stamp
        /\ p.stamp <= clock /\ clock' \in Nat /\ clock' = clock /\ clock' >= clock
        /\ \A q \in Shown : q.stamp <= p.stamp /\ (q.stamp = p.stamp => q.host = p.host)
    <3>1. p.host = buffer[1].id /\ p.stamp = buffer[1].stamp /\ Len(buffer) = 1
      BY <2>1, <2>3
    <3>2. clock' \in Nat /\ clock' = clock /\ clock' >= clock
      <4>1. clock' = clock /\ clock \in Nat
        BY <1>1, <2>1
      <4>2. QED
        BY <4>1
    <3> HIDE DEF p
    <3>3. QED
      BY <2>4, <3>1, <3>2
  <2> HIDE DEF p
  <2>7. QED
    BY <2>5, <2>6, TakeTimed
<1>3. CASE FlushMerged
  <2>0. Len(buffer) > 1 /\ clock' = clock + 1
    BY <1>3 DEF FlushMerged
  <2>1. Take(<<Merged(buffer)>>)
    BY <1>3 DEF FlushMerged
  <2>2. /\ Merged(buffer).host = buffer[Len(buffer)].id /\ Merged(buffer).stamp = clock + 1
        /\ Merged(buffer) \in Payload
    <3>1. buffer[Len(buffer)] \in Batch /\ Ids(buffer) \subseteq 1 .. MaxBatches
      BY <1>1, <2>0, IdsNumbers DEF Number
    <3>2. QED
      BY <1>1, <2>0, <3>1 DEF Merged, Payload, Batch
  <2>3. \A q \in Shown : q.stamp <= clock + 1 /\ q.stamp # clock + 1
    BY <1>1 DEF Timed, Past
  <2>4. Len(buffer) # 1 /\ clock' \in Nat /\ clock' >= clock
    <3>1. Len(buffer) # 1
      <4>1. Len(buffer) \in Nat
        BY <1>1
      <4>2. \A n \in Nat : n > 1 => n # 1
        OBVIOUS
      <4>3. QED
        BY <2>0, <4>1, <4>2
    <3>2. clock' = clock + 1
      BY <2>0
    <3>3. QED
      BY <1>1, <3>1, <3>2
  <2>5. QED
    BY <1>1, <2>0, <2>1, <2>2, <2>3, <2>4, TakeTimed
<1>4. QED
  BY <1>2, <1>3

\* What may be shown once the request under way was processed, or kept on its way.
LEMMA PostingShows ==
  ASSUME Inv, Timed, task = "post", ShowsAtMost(Now)
  PROVE  /\ \A q \in Shown' : /\ q.host \in Nat /\ q.stamp \in Nat
                              /\ Before(q, Now.host, Now.stamp)
                              /\ q.host <= collected /\ q.stamp <= clock
         /\ \A p, q \in Shown' : p.stamp >= q.stamp => p.host >= q.host
<1>1. /\ Now.host \in Nat /\ Now.stamp \in Nat
      /\ Now.host <= collected /\ Now.stamp <= clock
      /\ collected \in Nat /\ clock \in Nat
  BY PostingNumbers
<1>2. \A q \in Shown : q.host \in Nat /\ q.stamp \in Nat
  BY ShownNumbers DEF Inv
<1>3. /\ \A q \in Shown : Before(q, Now.host, Now.stamp)
      /\ \A p, q \in Shown : p.stamp >= q.stamp => p.host >= q.host
  BY DEF Timed, Posting, Ordered
<1>4. \A q \in Shown' : q \in Shown \/ (q.host = Now.host /\ q.stamp = Now.stamp)
  BY Zenon DEF ShowsAtMost
<1>5. \A q \in Shown' : /\ q.host \in Nat /\ q.stamp \in Nat
                        /\ Before(q, Now.host, Now.stamp)
  BY <1>1, <1>2, <1>3, <1>4 DEF Before
<1>6. \A q \in Shown' : q.host <= collected /\ q.stamp <= clock
  BY <1>1, <1>5 DEF Before
<1>7. ASSUME NEW p \in Shown', NEW q \in Shown', p.stamp >= q.stamp
      PROVE  p.host >= q.host
  <2>1. CASE p \in Shown /\ q \in Shown
    BY <1>3, <1>7, <2>1
  <2>2. CASE p.host = Now.host
    BY <1>1, <1>5, <2>2 DEF Before
  <2>3. CASE q.stamp = Now.stamp
    \* Then p has the latest stamp as well, and its host metrics with it.
    <3>1. p.stamp = Now.stamp
      BY <1>1, <1>5, <1>7, <2>3 DEF Before
    <3>2. QED
      BY <1>1, <1>5, <3>1 DEF Before
  <2>4. QED
    BY <1>4, <2>1, <2>2, <2>3
<1>8. QED
  BY <1>5, <1>6, <1>7

\* What was collected while a request was awaited is later than what it showed.
LEMMA SentTimed ==
  ASSUME Inv, Timed, task = "post", Sent, ShowsAtMost(Now)
  PROVE  Timed'
<1>1. /\ buffer' = buffer /\ clock' = clock /\ collected' = collected
      /\ hand' = << >> /\ task' # "post"
  BY OnwardTask DEF Sent, Timed, Posting
<1>2. /\ Now.host \in Nat /\ Now.stamp \in Nat
      /\ \A q \in Shown' : /\ q.host \in Nat /\ q.stamp \in Nat
                           /\ q.host <= Now.host /\ q.stamp <= Now.stamp
                           /\ q.host <= collected /\ q.stamp <= clock
      /\ \A p, q \in Shown' : p.stamp >= q.stamp => p.host >= q.host
  BY PostingNumbers, PostingShows DEF Before
<1>3. buffer \in Seq(Batch)
  BY DEF Inv, AgentOK
<1>4. \A i \in DOMAIN buffer : buffer[i].stamp \in Nat /\ buffer[i].id \in Nat
  BY <1>3, BatchNumbers
<1>5. DOMAIN hand' = {}
  BY <1>1
<1>6. Past'
  BY <1>1, <1>2, <1>5 DEF Timed, Past
<1>7. Ordered'
  BY <1>2 DEF Ordered
<1>8. ASSUME NEW i \in DOMAIN buffer, NEW q \in Shown'
      PROVE  q.host <= buffer[i].id /\ Before(q, buffer[i].id, buffer[i].stamp)
  <2>1. Now.stamp < buffer[i].stamp /\ Now.host < buffer[i].id
    BY DEF Timed, Posting
  <2>2. /\ q.host <= buffer[i].id /\ q.stamp <= buffer[i].stamp
        /\ q.stamp # buffer[i].stamp
    BY <1>2, <1>4, <2>1
  <2>3. QED
    BY <2>2 DEF Before
<1>9. Buffered'
  <2>1. buffer # << >> => Len(buffer) \in DOMAIN buffer
    BY <1>3, BatchNumbers
  <2>2. Len(buffer) = 1 => 1 \in DOMAIN buffer
    BY <1>3, BatchNumbers
  <2>3. QED
    BY <1>1, <1>8, <2>1, <2>2 DEF Buffered
<1>10. Posting'
  BY <1>1 DEF Posting
<1>11. QED
  BY <1>6, <1>7, <1>9, <1>10 DEF Timed

\* What is put back goes behind what is newer, and keeps its host metrics last.
LEMMA PostFailsTimed ==
  ASSUME Inv, Timed, PostFails, ShowsAtMost(Now)
  PROVE  Timed'
<1>1. /\ task = "post" /\ task' # "post"
      /\ buffer' = buffer \o hand /\ hand' = << >>
      /\ clock' = clock /\ collected' = collected
  BY OnwardTask DEF PostFails
<1>2. /\ \A q \in Shown' : /\ Before(q, Now.host, Now.stamp)
                           /\ q.host <= collected /\ q.stamp <= clock
      /\ \A p, q \in Shown' : p.stamp >= q.stamp => p.host >= q.host
  BY <1>1, PostingShows
<1>3. /\ buffer \in Seq(Batch) /\ hand \in Seq(Batch) /\ hand # << >>
  BY <1>1 DEF Inv, AgentOK, Flow
<1>4. /\ Len(buffer) \in Nat /\ Len(hand) \in Nat \ {0}
      /\ Len(buffer') = Len(buffer) + Len(hand)
      /\ DOMAIN buffer' = 1 .. Len(buffer) + Len(hand)
      /\ DOMAIN buffer = 1 .. Len(buffer) /\ DOMAIN hand = 1 .. Len(hand)
      /\ \A i \in 1 .. Len(buffer) : buffer'[i] = buffer[i]
      /\ \A i \in 1 .. Len(hand) : buffer'[Len(buffer) + i] = hand[i]
      /\ \A i \in Len(buffer) + 1 .. Len(buffer) + Len(hand) :
           buffer'[i] = hand[i - Len(buffer)]
  BY <1>1, <1>3
<1>5. Past'
  <2>1. /\ \A i \in DOMAIN buffer : buffer[i].stamp <= clock
        /\ \A i \in DOMAIN hand : hand[i].stamp <= clock
    BY DEF Timed, Past
  <2>2. ASSUME NEW i \in DOMAIN buffer' PROVE buffer'[i].stamp <= clock
    <3>1. CASE i \in 1 .. Len(buffer)
      BY <1>4, <2>1, <3>1
    <3>2. CASE i \in Len(buffer) + 1 .. Len(buffer) + Len(hand)
      <4>1. i - Len(buffer) \in DOMAIN hand /\ buffer'[i] = hand[i - Len(buffer)]
        BY <1>4, <3>2
      <4>2. QED
        BY <2>1, <4>1
    <3>3. QED
      BY <1>4, <3>1, <3>2
  <2>3. DOMAIN hand' = {}
    BY <1>1
  <2>4. QED
    BY <1>1, <1>2, <2>2, <2>3 DEF Past
<1>6. Ordered'
  BY <1>2 DEF Ordered
<1>7. Posting'
  BY <1>1 DEF Posting
<1>8. Buffered'
  <2>1. buffer'[Len(buffer')].id = Now.host
    <3>1. buffer'[Len(buffer')] = hand[Len(hand)]
      BY <1>4
    <3>2. QED
      BY <1>1, <3>1 DEF Timed, Posting
  <2>2. ASSUME Len(buffer') = 1
        PROVE  buffer'[1].id = Now.host /\ buffer'[1].stamp = Now.stamp
    <3>1. Len(hand) = 1 /\ buffer'[1] = hand[1]
      <4>1. Len(buffer) = 0 /\ Len(hand) = 1
        <5>1. /\ Len(buffer) \in Nat /\ Len(hand) \in Nat /\ Len(hand) # 0
              /\ Len(buffer) + Len(hand) = 1
          BY <1>4, <2>2
        <5>2. QED
          BY <5>1
      <4>2. 1 \in 1 .. Len(hand) /\ Len(buffer) + 1 = 1
        BY <4>1
      <4>3. QED
        BY <1>4, <4>1, <4>2
    <3>2. QED
      BY <1>1, <3>1 DEF Timed, Posting
  <2>3. \A q \in Shown' : q.host <= Now.host
    BY <1>2 DEF Before
  <2>4. Len(buffer') = 1 =>
          \A q \in Shown' : Before(q, buffer'[1].id, buffer'[1].stamp)
    BY <1>2, <2>2
  <2>5. QED
    BY <2>1, <2>3, <2>4 DEF Buffered
<1>9. QED
  BY <1>5, <1>6, <1>7, <1>8 DEF Timed

-----------------------------------------------------------------------------
LEMMA TimedStep ==
  ASSUME Inv, "caps" \notin env, Timed, [Next]_vars
  PROVE  Timed' /\ latest'.host >= latest.host
<1>1. /\ latest.host \in Nat /\ latest.stamp \in Nat /\ latest \in Shown
      /\ \A q \in Shown : q.host \in Nat /\ q.stamp \in Nat
  BY BoundsAssumption, ShownNumbers DEF Inv, ChannelOK, Shown
<1>2. ASSUME NEW m \in {Hello, Bye}, Answered(m) \/ Fails(m)
      PROVE  /\ \A q \in Shown' : q \in Shown
             /\ latest' = latest
  <2>1. m \in Request /\ m.request # "metrics"
    BY DEF Request, Hello, Bye
  <2>2. QED
    BY <1>2, <2>1, RequestShows DEF ShowsAtMost, Renews
<1>3. CASE Register
  <2>1. /\ UNCHANGED <<clock, collected, buffer>> /\ hand' = hand /\ task # "post" /\ task' # "post"
        /\ Answered(Hello) \/ Fails(Hello)
    BY <1>3, OnwardTask DEF Register, flushVars
  <2>2. QED
    BY <1>1, <1>2, <2>1, QuietTimed DEF Register
<1>4. CASE Deregister
  <2>1. /\ UNCHANGED <<clock, collected>> /\ buffer' = << >> /\ hand' = << >>
        /\ task' # "post"
        /\ Answered(Bye) \/ Fails(Bye)
    BY <1>4 DEF Deregister, Exit
  <2>2. QED
    BY <1>1, <1>2, <2>1, QuietTimed
<1>5. CASE Leave \/ RequestStop \/ UNCHANGED vars
  <2>1. UNCHANGED <<clock, collected, buffer, flight, latest>>
    BY <1>5 DEF Leave, RequestStop, vars, flushVars, collectorVars
  <2>2. \/ UNCHANGED <<task, buffer, hand, payloads>>
        \/ task # "post" /\ task' # "post" /\ UNCHANGED <<buffer, hand>>
    BY <1>5 DEF Leave, RequestStop, vars, flushVars
  <2>3. Shown' = Shown
    BY <2>1 DEF Shown
  <2>4. QED
    BY <1>1, <2>1, <2>2, <2>3, QuietTimed
<1>6. CASE Arrive
  <2>1. PICK m \in flight : Processed(m) /\ flight' = flight \ {m}
    BY <1>6 DEF Arrive
  <2>2. UNCHANGED <<task, clock, collected, buffer, hand, payloads>>
    BY <1>6 DEF Arrive, flushVars
  <2>3. m \in Request /\ Renews(m)
    BY <2>1, ProcessedRenews DEF Inv, ChannelOK
  <2>4. \A q \in Shown' : \E p \in Shown : p.host = q.host /\ p.stamp = q.stamp
    BY <2>1, <2>3 DEF Renews, Shown
  <2>5. latest'.host >= latest.host
    <3>1. CASE latest' = latest
      BY <1>1, <3>1
    <3>2. CASE m.request = "metrics" /\ m.stamp >= latest.stamp /\ latest'.host = m.host
      <4>1. m \in Shown
        BY <3>2 DEF Shown
      <4>2. QED
        BY <1>1, <3>2, <4>1 DEF Timed, Ordered
    <3>3. QED
      BY <2>3, <3>1, <3>2 DEF Renews
  <2>6. QED
    BY <2>2, <2>4, <2>5, QuietTimed
<1>7. CASE Collect
  BY <1>1, <1>7, CollectTimed DEF Collect, collectorVars
<1>8. CASE FlushOne \/ FlushMerged
  BY <1>1, <1>8, FlushTimed DEF FlushOne, FlushMerged, Take, collectorVars
<1>9. ASSUME task = "post", Answered(Now) \/ Fails(Now)
      PROVE  ShowsAtMost(Now) /\ latest'.host >= latest.host
  <2>1. Now \in Request /\ Now.host \in Nat
    BY <1>9, PostingNumbers
  <2>2. ShowsAtMost(Now) /\ Renews(Now)
    BY <1>9, <2>1, RequestShows
  <2>3. Now.host >= latest.host
    BY <1>1, <1>9, <2>1 DEF Timed, Posting, Before
  <2>4. QED
    BY <1>1, <2>2, <2>3 DEF Renews
<1>10. CASE Post
  BY <1>9, <1>10, SentTimed DEF Post
<1>11. CASE PostFails
  BY <1>9, <1>11, PostFailsTimed DEF PostFails
<1>12. CASE PostRefused
  <2>1. task = "post" /\ Sent /\ flight' = flight /\ latest' = latest
    BY <1>12 DEF PostRefused, collectorVars
  <2>2. ShowsAtMost(Now)
    BY <2>1 DEF ShowsAtMost, Shown
  <2>3. QED
    BY <1>1, <2>1, <2>2, SentTimed
<1>13. CASE Crash
  <2>1. /\ UNCHANGED <<clock, collected, latest>> /\ task' # "post" /\ buffer' = << >>
        /\ hand' = << >>
        /\ flight' = flight \/ (task = "post" /\ flight' = flight \cup {Now})
    BY <1>13 DEF Crash, Exit, collectorVars
  <2>2. CASE flight' = flight
    <3>1. Shown' = Shown
      BY <2>1, <2>2 DEF Shown
    <3>2. QED
      BY <1>1, <2>1, <3>1, QuietTimed
  <2>3. CASE task = "post" /\ flight' = flight \cup {Now}
    <3>1. ShowsAtMost(Now)
      BY <2>1, <2>3 DEF ShowsAtMost, Shown
    <3>2. /\ \A q \in Shown' : q.host <= collected /\ q.stamp <= clock
          /\ Ordered'
      BY <2>3, <3>1, PostingShows DEF Ordered
    <3>3. DOMAIN buffer' = {} /\ DOMAIN hand' = {}
      BY <2>1
    <3>4. Past' /\ Posting' /\ Buffered'
      BY <2>1, <3>2, <3>3 DEF Past, Posting, Buffered
    <3>5. QED
      BY <1>1, <2>1, <3>2, <3>4 DEF Timed
  <2>4. QED
    BY <2>1, <2>2, <2>3
<1>14. CASE FlushUnmerged
  BY <1>14 DEF FlushUnmerged
<1>15. QED
  BY <1>3, <1>4, <1>5, <1>6, <1>7, <1>8, <1>10, <1>11, <1>12, <1>13, <1>14
     DEF Next, Converse

(***************************************************************************)
(* Where every flush sends what it merges, the collector never goes back   *)
(* to older host metrics, whatever is lost, repeated or late.              *)
(***************************************************************************)
THEOREM AlwaysLatestNeverOlder == Spec => LatestNeverOlder
<1> DEFINE TimedInv == Inv /\ ("caps" \notin env => Timed)
           Forward == "caps" \notin env => latest'.host >= latest.host
<1>1. Init => TimedInv
  <2>1. ASSUME Init PROVE Timed
    <3>1. Shown = {latest} /\ latest.host = 0 /\ latest.stamp = 0
      BY <2>1 DEF Init, Shown
    <3>2. QED
      BY <2>1, <3>1 DEF Init, Timed, Past, Ordered, Posting, Buffered
  <2>2. QED
    BY <2>1, InitInv
<1>2. TimedInv /\ [Next]_vars => TimedInv'
  <2> SUFFICES ASSUME TimedInv, [Next]_vars PROVE TimedInv'
    OBVIOUS
  <2>1. env' = env
    BY DEF Next, Converse, Register, Collect, Arrive, FlushOne, FlushMerged, FlushUnmerged,
           Take, Post, PostRefused, PostFails, Sent, Leave, Deregister, RequestStop, Crash, vars
  <2>2. QED
    BY <2>1, NextInv, TimedStep
<1>3. TimedInv /\ [Next]_vars => [Forward]_vars
  BY TimedStep
<1>4. QED
  BY <1>1, <1>2, <1>3, PTL DEF Spec, LatestNeverOlder

=============================================================================
