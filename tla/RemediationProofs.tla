------------------------- MODULE RemediationProofs -------------------------
(***************************************************************************)
(* Proofs about the remediation agent, for every set of files, every       *)
(* limit, any number of cycles and, unless Alone is assumed, of processes. *)
(***************************************************************************)
EXTENDS Remediation, TLAPS

\* Only one process works on the workspace.
Alone == \A a, b \in Agent : a = b

(***************************************************************************)
(* The steps of a plan are totally ordered.                                *)
(***************************************************************************)
LEMMA TotalOrder ==
  ASSUME NEW f \in File, NEW g \in File
  PROVE  /\ f = g \/ Before(f, g) \/ Before(g, f)
         /\ ~Before(f, f)
         /\ Before(f, g) => ~Before(g, f) /\ Phase[f] <= Phase[g]
<1>1. /\ Phase[f] \in 1 .. 3 /\ Phase[g] \in 1 .. 3
      /\ Position[f] \in Nat /\ Position[g] \in Nat
      /\ Position[f] = Position[g] => f = g
  BY FilesAssumption
<1>2. QED
  BY <1>1 DEF Before

LEMMA RiskOf ==
  ASSUME NEW f \in File
  PROVE  /\ Risk(f) \in 0 .. 2
         /\ Risk(f) >= 1 <=> Phase[f] < 3
         /\ Risk(f) = 2 <=> Phase[f] = 1
         /\ f \in Manifest => Phase[f] = 1
         /\ Phase[f] \in 1 .. 3
BY FilesAssumption DEF Risk

LEMMA IdleType ==
  /\ Nothing \in ExecutionLog
  /\ Nothing \in [File -> {"none", "yes", "no"}]
  /\ Idle \in Remediator
<1>1. Nothing \in ExecutionLog /\ Nothing \in [File -> {"none", "yes", "no"}]
  BY DEF Nothing, ExecutionLog
<1>2. QED
  BY <1>1 DEF Idle, Remediator

-----------------------------------------------------------------------------
(***************************************************************************)
(* What the steps of a process make of its record.                         *)
(***************************************************************************)
Begun(c, auto, isLive, promised, plan) ==
  [Idle EXCEPT !.pc       = "execute",
               !.cycle    = c,
               !.auto     = auto,
               !.live     = isLive,
               !.promised = promised,
               !.plan     = plan,
               !.perms    = InitialPermissions]

Logged(r, f, status, pc) ==
  [r EXCEPT !.log   = [@ EXCEPT ![f] = status],
            !.perms = @ \ (IF status = "blocked" THEN {} ELSE Revoked(f)),
            !.pc    = pc]

Undone(r, f, result) == [r EXCEPT !.undone = [@ EXCEPT ![f] = result], !.pc = "undo"]

(***************************************************************************)
(* How the record s that comes of logging a step, of undoing one, or of    *)
(* just moving on, relates to the record r before.                         *)
(***************************************************************************)
AfterLog(r, s, f, status, pc) ==
  /\ s.pc = pc /\ s.auto = r.auto /\ s.plan = r.plan
  /\ s.log = [r.log EXCEPT ![f] = status]
  /\ s.perms = r.perms \ (IF status = "blocked" THEN {} ELSE Revoked(f))
  /\ s.undone = r.undone

AfterUndo(r, s, f, result) ==
  /\ s.pc = "undo" /\ s.auto = r.auto /\ s.plan = r.plan
  /\ s.log = r.log /\ s.perms = r.perms
  /\ s.undone = [r.undone EXCEPT ![f] = result]

AfterMove(r, s, pc) ==
  /\ s.pc = pc /\ s.auto = r.auto /\ s.plan = r.plan
  /\ s.log = r.log /\ s.perms = r.perms /\ s.undone = r.undone

\* a goes on from the record r.
Becomes(a, r) == agent' = [agent EXCEPT ![a] = r]

LEMMA BeginBecomes ==
  ASSUME TypeOK, NEW a \in Agent, NEW c \in Cycle, NEW auto \in BOOLEAN,
         NEW isLive \in BOOLEAN, NEW promised \in SUBSET File,
         Begin(a, c, auto, isLive, promised)
  PROVE  \E r \in Remediator :
           /\ Becomes(a, r)
           /\ r.pc = "execute" /\ r.auto = auto /\ r.plan = Generated
           /\ r.log = Nothing /\ r.perms = InitialPermissions /\ r.undone = Nothing
<1> DEFINE r == Begun(c, auto, isLive, promised, Generated)
<1>1. Generated \in SUBSET File
  BY DEF Generated, TypeOK
<1>2. InitialPermissions \in SUBSET Permission
  BY DEF InitialPermissions, Permission
<1>3. /\ r.pc = "execute" /\ r.auto = auto /\ r.plan = Generated
      /\ r.log = Nothing /\ r.perms = InitialPermissions /\ r.undone = Nothing
  BY DEF Begun, Idle
<1>4. r \in Remediator
  BY <1>1, <1>2, IdleType DEF Begun, Remediator
<1>5. Becomes(a, r)
  BY DEF Begin, Begun, Becomes
<1>6. QED
  BY <1>3, <1>4, <1>5

LEMMA LogBecomes ==
  ASSUME TypeOK, NEW a \in Agent, NEW f \in File, NEW status \in StepStatus,
         NEW pc \in {"execute", "verify"}, Log(a, f, status, pc)
  PROVE  \E r \in Remediator : Becomes(a, r) /\ AfterLog(agent[a], r, f, status, pc)
<1> DEFINE r == Logged(agent[a], f, status, pc)
<1>1. agent \in [Agent -> Remediator] /\ agent[a] \in Remediator
  BY DEF TypeOK
<1>2. agent[a].log \in ExecutionLog
  BY <1>1 DEF Remediator
<1>3. [agent[a].log EXCEPT ![f] = status] \in ExecutionLog
  BY <1>2 DEF ExecutionLog
<1>4. AfterLog(agent[a], r, f, status, pc)
  BY <1>1 DEF AfterLog, Logged, Remediator
<1>5. r \in Remediator
  BY <1>1, <1>3 DEF Logged, Remediator
<1>6. Becomes(a, r)
  BY <1>1 DEF Log, Logged, Becomes
<1>7. QED
  BY <1>4, <1>5, <1>6

LEMMA UndoBecomes ==
  ASSUME TypeOK, NEW a \in Agent, NEW f \in File, NEW result \in {"yes", "no"},
         UndoResult(a, f, result)
  PROVE  \E r \in Remediator : Becomes(a, r) /\ AfterUndo(agent[a], r, f, result)
<1> DEFINE r == Undone(agent[a], f, result)
<1>1. agent \in [Agent -> Remediator] /\ agent[a] \in Remediator
  BY DEF TypeOK
<1>2. AfterUndo(agent[a], r, f, result)
  BY <1>1 DEF AfterUndo, Undone, Remediator
<1>3. [agent[a].undone EXCEPT ![f] = result] \in [File -> {"none", "yes", "no"}]
  BY <1>1 DEF Remediator
<1>4. r \in Remediator
  BY <1>1, <1>3 DEF Undone, Remediator
<1>5. Becomes(a, r)
  BY <1>1 DEF UndoResult, Undone, Becomes
<1>6. QED
  BY <1>2, <1>4, <1>5

\* A step that only moves the process on, and may note how the score went.
Moved(r, pc, regressed) == [r EXCEPT !.pc = pc, !.regressed = regressed]

LEMMA MoveBecomes ==
  ASSUME TypeOK, NEW a \in Agent, NEW regressed \in BOOLEAN,
         NEW pc \in {"apply", "verify", "undo", "unlink"},
         \/ agent' = [agent EXCEPT ![a].pc = pc] /\ regressed = agent[a].regressed
         \/ agent' = [agent EXCEPT ![a].pc = pc, ![a].regressed = regressed]
  PROVE  \E r \in Remediator : Becomes(a, r) /\ AfterMove(agent[a], r, pc)
<1> DEFINE r == Moved(agent[a], pc, regressed)
<1>1. agent \in [Agent -> Remediator] /\ agent[a] \in Remediator
  BY DEF TypeOK
<1>2. AfterMove(agent[a], r, pc) /\ r \in Remediator
  BY <1>1 DEF AfterMove, Moved, Remediator
<1>3. Becomes(a, r)
  <2>1. CASE agent' = [agent EXCEPT ![a].pc = pc] /\ regressed = agent[a].regressed
    <3>1. [agent[a] EXCEPT !.pc = pc] = [agent[a] EXCEPT !.pc = pc, !.regressed = regressed]
      BY <1>1, <2>1 DEF Remediator
    <3>2. QED
      BY <2>1, <3>1 DEF Moved, Becomes
  <2>2. CASE agent' = [agent EXCEPT ![a].pc = pc, ![a].regressed = regressed]
    BY <1>1, <2>2 DEF Moved, Becomes
  <2>3. QED
    BY <2>1, <2>2
<1>4. QED
  BY <1>2, <1>3

-----------------------------------------------------------------------------
LEMMA InfrastructureType ==
  ASSUME TypeOK
  PROVE  /\ Pending \in SUBSET File
         /\ \A S \in SUBSET Pending : Changed(S) \in SUBSET File
BY FilesAssumption DEF TypeOK, Pending, Terraform, Changed

LEMMA SavedType ==
  ASSUME TypeOK, NEW c, NEW status \in Status, NEW plan \in SUBSET File,
         NEW log \in ExecutionLog, Save(c, status, plan, log)
  PROVE  store' \in [Cycle -> [status : Status \cup {"none"}, plan : SUBSET File,
                               log : ExecutionLog]]
BY DEF TypeOK, Save

LEMMA BecomesType ==
  ASSUME TypeOK, NEW a \in Agent, NEW r \in Remediator, Becomes(a, r)
  PROVE  agent' \in [Agent -> Remediator]
BY DEF TypeOK, Becomes

LEMMA ReturnType ==
  ASSUME TypeOK, NEW a \in Agent, NEW status \in Status, Return(a, status)
  PROVE  /\ store' \in [Cycle -> [status : Status \cup {"none"}, plan : SUBSET File,
                                  log : ExecutionLog]]
         /\ agent' \in [Agent -> Remediator]
         /\ Becomes(a, Idle)
<1>1. agent[a].promised \in SUBSET File /\ agent[a].log \in ExecutionLog
  BY DEF TypeOK, Remediator
<1>2. Save(agent[a].cycle, status, agent[a].promised, agent[a].log) /\ Becomes(a, Idle)
  BY DEF Return, Becomes
<1>3. QED
  BY <1>1, <1>2, SavedType, BecomesType, IdleType

\* Type correctness: every variable keeps its type.
THEOREM TypeCorrect == Spec => []TypeOK
<1>1. Init => TypeOK
  BY IdleType, ModelsAssumption DEF Init, TypeOK, NoRecord
<1>2. TypeOK /\ [Next]_vars => TypeOK'
  <2> SUFFICES ASSUME TypeOK, [Next]_vars PROVE TypeOK'
    OBVIOUS
  <2>1. Generated \in SUBSET File /\ \A c \in Cycle : store[c].plan \in SUBSET File
    BY DEF TypeOK, Generated
  <2>2. ASSUME NEW a \in Agent, NEW c \in Cycle, RunCycle(a, c) PROVE TypeOK'
    <3>1. CASE RunHealthy(a, c)
      BY <2>1, <3>1, SavedType, IdleType DEF RunHealthy, TypeOK, Status
    <3>2. CASE RunRejected(a, c)
      BY <2>1, <3>2, SavedType, IdleType DEF RunRejected, TypeOK, Status
    <3>3. CASE RunSuspended(a, c)
      BY <2>1, <3>3, SavedType, IdleType DEF RunSuspended, TypeOK, Status
    <3>4. CASE RunProceeds(a, c)
      <4>1. PICK isLive \in BOOLEAN : Begin(a, c, TRUE, isLive, Generated)
        BY <3>4 DEF RunProceeds
      <4>2. \E r \in Remediator : Becomes(a, r)
        BY <2>1, <4>1, BeginBecomes
      <4>3. QED
        BY <3>4, <4>2, BecomesType DEF RunProceeds, TypeOK
    <3>5. QED
      BY <2>2, <3>1, <3>2, <3>3, <3>4 DEF RunCycle
  <2>3. ASSUME NEW a \in Agent, NEW c \in Cycle, ApproveAndExecute(a, c) PROVE TypeOK'
    <3>1. CASE Approve(a, c)
      <4>1. PICK isLive \in BOOLEAN : Begin(a, c, FALSE, isLive, store[c].plan)
        BY <3>1 DEF Approve
      <4>2. \E r \in Remediator : Becomes(a, r)
        BY <2>1, <4>1, BeginBecomes
      <4>3. QED
        BY <3>1, <4>2, BecomesType DEF Approve, TypeOK
    <3>2. CASE ApproveBlocked(a, c)
      BY <2>1, <3>2, SavedType, IdleType DEF ApproveBlocked, TypeOK, Status
    <3>3. QED
      BY <2>3, <3>1, <3>2 DEF ApproveAndExecute
  <2>4. ASSUME NEW a \in Agent, NEW f \in File,
               \/ Deny(a, f) \/ Preview(a, f) \/ PlanFails(a, f)
               \/ Apply(a, f) \/ ApplyFails(a, f) \/ ApplyManifest(a, f)
        PROVE  TypeOK'
    <3>1. PICK status \in StepStatus, pc \in {"execute", "verify"} : Log(a, f, status, pc)
      BY <2>4 DEF Deny, Preview, PlanFails, Apply, ApplyFails, ApplyManifest, StepStatus
    <3>2. \E r \in Remediator : Becomes(a, r)
      BY <3>1, LogBecomes
    <3>3. workspace' \in SUBSET File
      BY <2>4 DEF Deny, Preview, PlanFails, Apply, ApplyFails, ApplyManifest, TypeOK
    <3>4. live' \in SUBSET File
      BY <2>4, InfrastructureType
      DEF Deny, Preview, PlanFails, Apply, ApplyFails, ApplyManifest, TypeOK
    <3>5. UNCHANGED <<model, store>>
      BY <2>4 DEF Deny, Preview, PlanFails, Apply, ApplyFails, ApplyManifest
    <3>6. QED
      BY <3>2, <3>3, <3>4, <3>5, BecomesType DEF TypeOK
  <2>5. ASSUME NEW a \in Agent, NEW f \in File,
               Unlink(a, f) \/ DeleteManifest(a, f) \/ UndoFails(a, f)
        PROVE  TypeOK'
    <3>1. PICK result \in {"yes", "no"} : UndoResult(a, f, result)
      BY <2>5 DEF Unlink, DeleteManifest, UndoFails
    <3>2. \E r \in Remediator : Becomes(a, r)
      BY <3>1, UndoBecomes
    <3>3. QED
      BY <2>5, <3>2, BecomesType DEF Unlink, DeleteManifest, UndoFails, TypeOK
  <2>6. ASSUME NEW a \in Agent, NEW f \in File, PlanPasses(a, f) \/ Destroy(a, f)
        PROVE  TypeOK'
    <3>1. \E pc \in {"apply", "unlink"} : agent' = [agent EXCEPT ![a].pc = pc]
      BY <2>6 DEF PlanPasses, Destroy
    <3>2. agent[a].regressed \in BOOLEAN
      BY DEF TypeOK, Remediator
    <3>3. \E r \in Remediator : Becomes(a, r)
      BY <3>1, <3>2, MoveBecomes
    <3>4. QED
      BY <2>6, <3>3, BecomesType DEF PlanPasses, Destroy, TypeOK
  <2>7. ASSUME NEW a \in Agent, Executed(a) \/ RollBack(a) PROVE TypeOK'
    <3>1. agent[a].regressed \in BOOLEAN
      BY DEF TypeOK, Remediator
    <3>2. \E regressed \in BOOLEAN, pc \in {"verify", "undo"} :
            \/ agent' = [agent EXCEPT ![a].pc = pc] /\ regressed = agent[a].regressed
            \/ agent' = [agent EXCEPT ![a].pc = pc, ![a].regressed = regressed]
      BY <2>7, <3>1 DEF Executed, RollBack
    <3>3. \E r \in Remediator : Becomes(a, r)
      BY <3>2, MoveBecomes
    <3>4. QED
      BY <2>7, <3>3, BecomesType DEF Executed, RollBack, TypeOK
  <2>8. ASSUME NEW a \in Agent, Conclude(a) \/ RolledBack(a) PROVE TypeOK'
    <3>1. \E status \in Status : Return(a, status)
      BY <2>8 DEF Conclude, RolledBack, Status
    <3>2. QED
      BY <2>8, <3>1, ReturnType DEF Conclude, RolledBack, TypeOK
  <2>9. ASSUME NEW a \in Agent, Crash(a) PROVE TypeOK'
    BY <2>9, IdleType DEF Crash, TypeOK
  <2>10. ASSUME NEW a \in Agent, NEW f \in File, CrashInCommand(a, f) PROVE TypeOK'
    BY <2>10, IdleType, InfrastructureType DEF CrashInCommand, TypeOK
  <2>11. CASE EditModel \/ UNCHANGED vars
    BY <2>11, ModelsAssumption DEF EditModel, vars, TypeOK
  <2>12. QED
    BY <2>2, <2>3, <2>4, <2>5, <2>6, <2>7, <2>8, <2>9, <2>10, <2>11 DEF Next, Step
<1>3. QED
  BY <1>1, <1>2, PTL DEF Spec

-----------------------------------------------------------------------------
(***************************************************************************)
(* What the record of a process at work satisfies.  The steps are logged   *)
(* in the order of the plan; a permission is missing exactly when a step   *)
(* that revokes it was taken, and a step denied lacks one still; the plan  *)
(* is within its limits; and a rollback has something to undo.             *)
(***************************************************************************)
Orderly(r) ==
  \A f \in File : r.log[f] # "none" =>
    f \in r.plan /\ \A g \in r.plan : Before(g, f) => r.log[g] # "none"

Taken(r) == {f \in File : r.log[f] \notin {"none", "blocked"}}

NextIn(r, f) == /\ f \in r.plan
                /\ r.log[f] = "none"
                /\ \A g \in r.plan : Before(g, f) => r.log[g] # "none"

Narrowed(r) ==
  /\ "read:internal" \in r.perms
  /\ "write:internal" \in r.perms <=> \A f \in Taken(r) : Phase[f] # 1
  /\ "execute:tool" \in r.perms <=> \A f \in Taken(r) : Phase[f] = 3
  /\ \A f \in File : r.log[f] = "blocked" => ~(Needed(f) \subseteq r.perms)
  /\ r.pc = "apply" => \A f \in File : NextIn(r, f) => Needed(f) \subseteq r.perms

Ratcheted(log) ==
  \A f, g \in File :
    /\ Before(f, g) /\ log[f] # "none" /\ log[g] # "none"
    /\ Risk(f) >= 1 \/ log[f] = "blocked"
    => log[g] = "blocked"

Limited(r) ==
  r.plan # {} => Within(r.plan) /\ (r.auto => \A f \in r.plan : Risk(f) <= MaxRisk)

Sane(r) ==
  IF r.pc = "idle" THEN r.log = Nothing
  ELSE /\ Orderly(r)
       /\ Narrowed(r)
       /\ Ratcheted(r.log)
       /\ Limited(r)
       /\ r.pc \in {"undo", "unlink"} => Applied(r.log) # {}

\* A process starts with nothing logged and every permission a step needs.
LEMMA BegunSane ==
  ASSUME NEW r \in Remediator, r.pc = "execute", r.log = Nothing,
         r.perms = InitialPermissions, Limited(r)
  PROVE  Sane(r)
<1>1. \A f \in File : r.log[f] = "none"
  BY DEF Nothing
<1>2. {"read:internal", "write:internal", "execute:tool"} \subseteq r.perms
  BY DEF InitialPermissions, Permission
<1>3. QED
  BY <1>1, <1>2 DEF Sane, Orderly, Narrowed, Taken, Ratcheted

(***************************************************************************)
(* The heart of the ratchet: a step that has its permissions comes after   *)
(* none that is risky or was denied.  Such a step before it would have     *)
(* taken away what it needs: its phase is no later, because the plan is    *)
(* sorted, and a step that does without execute:tool is in the first.      *)
(***************************************************************************)
LEMMA PermittedIsSafe ==
  ASSUME NEW r \in Remediator, Orderly(r), Narrowed(r), NEW g \in File, NextIn(r, g),
         Needed(g) \subseteq r.perms,
         NEW f \in File, Before(f, g), r.log[f] # "none"
  PROVE  r.log[f] # "blocked" /\ Phase[f] = 3
<1>1. "write:internal" \in r.perms
  BY DEF Needed
<1>2. \A e \in File : r.log[e] # "none" => Before(e, g)
  <2>1. SUFFICES ASSUME NEW e \in File, r.log[e] # "none" PROVE Before(e, g)
    OBVIOUS
  <2>2. e # g /\ ~Before(g, e)
    BY <2>1 DEF Orderly, NextIn
  <2>3. QED
    BY <2>2, TotalOrder
<1>3. \A e \in Taken(r) : Phase[e] # 1 /\ Phase[e] <= Phase[g]
  <2>1. SUFFICES ASSUME NEW e \in Taken(r) PROVE Phase[e] # 1 /\ Phase[e] <= Phase[g]
    OBVIOUS
  <2>2. e \in File /\ r.log[e] # "none"
    BY DEF Taken
  <2>3. QED
    BY <1>1, <1>2, <2>2, TotalOrder DEF Narrowed
<1>4. "execute:tool" \in r.perms
  <2>1. CASE g \in Manifest
    <3>1. Phase[g] = 1
      BY <2>1, RiskOf
    <3>2. \A e \in Taken(r) : FALSE
      <4>1. SUFFICES ASSUME NEW e \in Taken(r) PROVE FALSE
        OBVIOUS
      <4>2. e \in File
        BY DEF Taken
      <4>3. QED
        BY <1>3, <3>1, <4>2, RiskOf
    <3>3. QED
      BY <3>2 DEF Narrowed
  <2>2. CASE g \notin Manifest
    BY <2>2 DEF Needed
  <2>3. QED
    BY <2>1, <2>2
<1>5. Needed(f) \subseteq r.perms
  BY <1>1, <1>4 DEF Needed, Narrowed
<1>6. r.log[f] # "blocked"
  BY <1>5 DEF Narrowed
<1>7. f \in Taken(r)
  BY <1>6 DEF Taken
<1>8. QED
  BY <1>4, <1>6, <1>7 DEF Narrowed

\* Logging a step, denied or permitted, keeps all that.
LEMMA LoggedSane ==
  ASSUME NEW r \in Remediator, Sane(r), r.pc \in {"execute", "apply"},
         NEW f \in File, NextIn(r, f), NEW status \in StepStatus,
         NEW s \in Remediator, NEW pc \in {"execute", "verify"},
         AfterLog(r, s, f, status, pc),
         IF status = "blocked" THEN ~(Needed(f) \subseteq r.perms)
                               ELSE Needed(f) \subseteq r.perms
  PROVE  Sane(s)
<1>1. Orderly(r) /\ Narrowed(r) /\ Ratcheted(r.log) /\ Limited(r)
  BY DEF Sane
<1> USE DEF AfterLog
<1>2. /\ r.log \in ExecutionLog /\ f \in r.plan /\ r.log[f] = "none" /\ status # "none"
      /\ s.log[f] = status
      /\ \A g \in File : g # f => s.log[g] = r.log[g]
  BY DEF Remediator, ExecutionLog, NextIn, StepStatus
<1>3. Orderly(s)
  <2>1. SUFFICES ASSUME NEW g \in File, s.log[g] # "none", NEW h \in r.plan, Before(h, g)
                 PROVE  s.log[h] # "none"
    BY <1>1, <1>2 DEF Orderly
  <2>2. h \in File
    BY <2>1 DEF Remediator
  <2>3. CASE g = f
    BY <1>2, <2>1, <2>2, <2>3 DEF NextIn
  <2>4. CASE g # f
    BY <1>1, <1>2, <2>1, <2>2, <2>4 DEF Orderly
  <2>5. QED
    BY <2>3, <2>4
<1>4. Taken(s) = IF status = "blocked" THEN Taken(r) ELSE Taken(r) \cup {f}
  BY <1>2 DEF Taken
<1>5. Narrowed(s)
  <2>1. CASE status = "blocked"
    <3>1. s.perms = r.perms /\ Taken(s) = Taken(r)
      BY <1>4, <2>1
    <3>2. QED
      BY <1>1, <1>2, <2>1, <3>1 DEF Narrowed
  <2>2. CASE status # "blocked"
    <3>1. s.perms = r.perms \ Revoked(f) /\ Taken(s) = Taken(r) \cup {f}
      BY <1>4, <2>2
    <3>2. /\ "read:internal" \notin Revoked(f)
          /\ "write:internal" \in Revoked(f) <=> Phase[f] = 1
          /\ "execute:tool" \in Revoked(f) <=> Phase[f] # 3
      BY RiskOf DEF Revoked
    <3>3. \A g \in File : s.log[g] = "blocked" => ~(Needed(g) \subseteq s.perms)
      BY <1>1, <1>2, <2>2, <3>1 DEF Narrowed
    <3>4. /\ "read:internal" \in s.perms
          /\ "write:internal" \in s.perms <=> \A g \in Taken(s) : Phase[g] # 1
      BY <1>1, <3>1, <3>2 DEF Narrowed
    <3>5. "execute:tool" \in s.perms <=> \A g \in Taken(s) : Phase[g] = 3
      BY <1>1, <3>1, <3>2 DEF Narrowed
    <3>6. QED
      BY <3>3, <3>4, <3>5 DEF Narrowed
  <2>3. QED
    BY <2>1, <2>2
<1>6. Ratcheted(s.log)
  <2>1. SUFFICES ASSUME NEW g \in File, NEW h \in File, Before(g, h),
                        s.log[g] # "none", s.log[h] # "none",
                        Risk(g) >= 1 \/ s.log[g] = "blocked"
                 PROVE  s.log[h] = "blocked"
    BY DEF Ratcheted
  <2>2. CASE h = f
    <3>1. g # f /\ s.log[g] = r.log[g]
      BY <1>2, <2>1, <2>2, TotalOrder
    <3>2. CASE Needed(f) \subseteq r.perms
      <4>1. r.log[g] # "blocked" /\ Phase[g] = 3
        BY <1>1, <2>1, <2>2, <3>1, <3>2, PermittedIsSafe
      <4>2. QED
        BY <2>1, <3>1, <4>1, RiskOf
    <3>3. CASE ~(Needed(f) \subseteq r.perms)
      BY <1>2, <2>2, <3>3
    <3>4. QED
      BY <3>2, <3>3
  <2>3. CASE h # f
    <3>1. s.log[h] = r.log[h] /\ f \in r.plan
      BY <1>2, <2>3
    <3>2. g # f
      BY <1>1, <1>2, <2>1, <3>1 DEF Orderly
    <3>3. QED
      BY <1>1, <1>2, <2>1, <3>1, <3>2 DEF Ratcheted
  <2>4. QED
    BY <2>2, <2>3
<1>7. Limited(s)
  BY <1>1 DEF Limited
<1>8. QED
  BY <1>3, <1>5, <1>6, <1>7 DEF Sane

\* Moving on keeps it, as long as there is something to undo when undoing.
LEMMA MovedSane ==
  ASSUME NEW r \in Remediator, Sane(r), r.pc # "idle",
         NEW s \in Remediator, NEW pc \in {"verify", "undo", "unlink"},
         AfterMove(r, s, pc),
         pc \in {"undo", "unlink"} => Applied(r.log) # {}
  PROVE  Sane(s)
BY DEF Sane, AfterMove, Orderly, Narrowed, Taken, Limited

LEMMA ApplySane ==
  ASSUME NEW r \in Remediator, Sane(r), r.pc = "execute",
         NEW f \in File, NextIn(r, f), Needed(f) \subseteq r.perms,
         NEW s \in Remediator, AfterMove(r, s, "apply")
  PROVE  Sane(s)
<1>1. Orderly(r) /\ Narrowed(r) /\ Ratcheted(r.log) /\ Limited(r)
  BY DEF Sane
<1>2. /\ s.pc = "apply" /\ s.auto = r.auto /\ s.plan = r.plan
      /\ s.log = r.log /\ s.perms = r.perms
  BY DEF AfterMove
<1>3. ASSUME NEW g \in File, NextIn(s, g) PROVE g = f
  BY <1>2, <1>3, TotalOrder DEF NextIn
<1>4. Narrowed(s)
  BY <1>1, <1>2, <1>3 DEF Narrowed, Taken
<1>5. Orderly(s) /\ Limited(s)
  BY <1>1, <1>2 DEF Orderly, Limited
<1>6. QED
  BY <1>1, <1>2, <1>4, <1>5 DEF Sane

LEMMA UndoneSane ==
  ASSUME NEW r \in Remediator, Sane(r), r.pc \in {"undo", "unlink"},
         NEW f \in File, NEW result, NEW s \in Remediator, AfterUndo(r, s, f, result)
  PROVE  Sane(s)
BY DEF Sane, AfterUndo, Orderly, Narrowed, Taken, Limited

-----------------------------------------------------------------------------
AllSane == \A a \in Agent : Sane(agent[a])

Honest(record) ==
  /\ Ratcheted(record.log)
  /\ record.status = "completed" => ~StepFailed(record.log)
  /\ record.status = "regressed" => Applied(record.log) = {}
  /\ record.status \in {"rolled_back", "rollback_failed"} => Applied(record.log) # {}

AllHonest == \A c \in Cycle : Honest(store[c])

IInv == TypeOK /\ AllSane /\ AllHonest

LEMMA NothingLogged ==
  Ratcheted(Nothing) /\ ~StepFailed(Nothing) /\ Applied(Nothing) = {} /\ Sane(Idle)
BY DEF Ratcheted, Nothing, StepFailed, Applied, Sane, Idle

LEMMA BecomesSane ==
  ASSUME TypeOK, AllSane, NEW a \in Agent, NEW r \in Remediator, Becomes(a, r), Sane(r)
  PROVE  AllSane'
BY DEF TypeOK, AllSane, Becomes

LEMMA SavedHonest ==
  ASSUME TypeOK, AllHonest, NEW c, NEW status, NEW plan, NEW log,
         Save(c, status, plan, log),
         Honest([status |-> status, plan |-> plan, log |-> log])
  PROVE  AllHonest'
BY DEF TypeOK, AllHonest, Save

\* A step that starts the execution of a plan within its limits.
LEMMA BeginSane ==
  ASSUME TypeOK, AllSane, NEW a \in Agent, NEW c \in Cycle, NEW auto \in BOOLEAN,
         NEW isLive \in BOOLEAN, NEW promised \in SUBSET File,
         Begin(a, c, auto, isLive, promised),
         Generated # {} =>
           Within(Generated) /\ (auto => \A f \in Generated : Risk(f) <= MaxRisk)
  PROVE  AllSane'
<1>1. PICK r \in Remediator :
        /\ Becomes(a, r)
        /\ r.pc = "execute" /\ r.auto = auto /\ r.plan = Generated
        /\ r.log = Nothing /\ r.perms = InitialPermissions /\ r.undone = Nothing
  BY BeginBecomes
<1>2. Limited(r)
  BY <1>1 DEF Limited
<1>3. Sane(r)
  BY <1>1, <1>2, BegunSane
<1>4. QED
  BY <1>1, <1>3, BecomesSane

LEMMA LogSane ==
  ASSUME TypeOK, AllSane, NEW a \in Agent, NEW f \in File,
         NEW status \in StepStatus, NEW pc \in {"execute", "verify"},
         Log(a, f, status, pc),
         \/ agent[a].pc = "execute" /\ Due(a, f) /\ ~Permitted(a, f) /\ status = "blocked"
         \/ Permitted(a, f) /\ status # "blocked"
         \/ Applying(a, f) /\ status # "blocked"
  PROVE  AllSane'
<1>1. PICK s \in Remediator : Becomes(a, s) /\ AfterLog(agent[a], s, f, status, pc)
  BY LogBecomes
<1>2. agent[a] \in Remediator /\ Sane(agent[a])
  BY DEF TypeOK, AllSane
<1>3. NextIn(agent[a], f) /\ agent[a].pc \in {"execute", "apply"}
  BY DEF Due, Permitted, Applying, NextIn
<1>4. IF status = "blocked" THEN ~(Needed(f) \subseteq agent[a].perms)
                            ELSE Needed(f) \subseteq agent[a].perms
  BY <1>2, <1>3 DEF Permitted, Applying, Sane, Narrowed
<1>5. Sane(s)
  BY <1>1, <1>2, <1>3, <1>4, LoggedSane
<1>6. QED
  BY <1>1, <1>5, BecomesSane

LEMMA SaneStep ==
  ASSUME IInv, [Next]_vars
  PROVE  AllSane' /\ AllHonest'
<1> USE DEF IInv
<1>1. ASSUME NEW a \in Agent, NEW c \in Cycle,
             \/ RunHealthy(a, c) \/ RunRejected(a, c) \/ RunSuspended(a, c)
             \/ ApproveBlocked(a, c)
      PROVE  AllSane' /\ AllHonest'
  <2>1. PICK status \in {"completed", "failed", "awaiting_approval", "blocked"},
             plan \in SUBSET File : Save(c, status, plan, Nothing)
    BY <1>1 DEF RunHealthy, RunRejected, RunSuspended, ApproveBlocked, Generated, TypeOK
  <2>2. Honest([status |-> status, plan |-> plan, log |-> Nothing])
    BY NothingLogged DEF Honest
  <2>3. AllHonest'
    BY <2>1, <2>2, SavedHonest
  <2>4. agent' = agent
    BY <1>1 DEF RunHealthy, RunRejected, RunSuspended, ApproveBlocked
  <2>5. QED
    BY <2>3, <2>4 DEF AllSane
<1>2. ASSUME NEW a \in Agent, NEW c \in Cycle, RunProceeds(a, c)
      PROVE  AllSane' /\ AllHonest'
  <2>1. Passes(Generated, TRUE) /\ store' = store
    BY <1>2 DEF RunProceeds
  <2>2. PICK isLive \in BOOLEAN : Begin(a, c, TRUE, isLive, Generated)
    BY <1>2 DEF RunProceeds
  <2>3. Generated \in SUBSET File
    BY DEF Generated, TypeOK
  <2>4. Generated # {} => Within(Generated) /\ \A f \in Generated : Risk(f) <= MaxRisk
    BY <2>1 DEF Passes
  <2>5. AllSane'
    BY <2>2, <2>3, <2>4, BeginSane
  <2>6. QED
    BY <2>1, <2>5 DEF AllHonest
<1>3. ASSUME NEW a \in Agent, NEW c \in Cycle, Approve(a, c)
      PROVE  AllSane' /\ AllHonest'
  <2>1. Within(Generated) /\ store' = store /\ store[c].plan \in SUBSET File
    BY <1>3 DEF Approve, TypeOK
  <2>2. PICK isLive \in BOOLEAN : Begin(a, c, FALSE, isLive, store[c].plan)
    BY <1>3 DEF Approve
  <2>3. AllSane'
    BY <2>1, <2>2, BeginSane
  <2>4. QED
    BY <2>1, <2>3 DEF AllHonest
<1>4. ASSUME NEW a \in Agent, NEW f \in File,
             \/ Deny(a, f) \/ Preview(a, f) \/ PlanFails(a, f)
             \/ Apply(a, f) \/ ApplyFails(a, f) \/ ApplyManifest(a, f)
      PROVE  AllSane' /\ AllHonest'
  <2>1. PICK status \in StepStatus, pc \in {"execute", "verify"} :
          /\ Log(a, f, status, pc)
          /\ \/ agent[a].pc = "execute" /\ Due(a, f) /\ ~Permitted(a, f) /\ status = "blocked"
             \/ Permitted(a, f) /\ status # "blocked"
             \/ Applying(a, f) /\ status # "blocked"
    BY <1>4
    DEF Deny, Preview, PlanFails, TerraformStep, Apply, ApplyFails, ApplyManifest, StepStatus
  <2>2. AllSane'
    BY <2>1, LogSane
  <2>3. store' = store
    BY <1>4 DEF Deny, Preview, PlanFails, Apply, ApplyFails, ApplyManifest
  <2>4. QED
    BY <2>2, <2>3 DEF AllHonest
<1>5. ASSUME NEW a \in Agent, NEW f \in File, PlanPasses(a, f)
      PROVE  AllSane' /\ AllHonest'
  <2>1. /\ agent' = [agent EXCEPT ![a].pc = "apply"] /\ store' = store
        /\ Due(a, f) /\ agent[a].pc = "execute" /\ Needed(f) \subseteq agent[a].perms
    BY <1>5 DEF PlanPasses, TerraformStep, Permitted
  <2>2. agent[a] \in Remediator /\ agent[a].regressed \in BOOLEAN /\ Sane(agent[a])
    BY DEF TypeOK, Remediator, AllSane
  <2>3. PICK s \in Remediator : Becomes(a, s) /\ AfterMove(agent[a], s, "apply")
    BY <2>1, <2>2, MoveBecomes
  <2>4. NextIn(agent[a], f)
    BY <2>1 DEF Due, NextIn
  <2>5. Sane(s)
    BY <2>1, <2>2, <2>3, <2>4, ApplySane
  <2>6. QED
    BY <2>1, <2>3, <2>5, BecomesSane DEF AllHonest
<1>6. ASSUME NEW a \in Agent, NEW f \in File, Destroy(a, f)
      PROVE  AllSane' /\ AllHonest'
  <2>1. /\ agent' = [agent EXCEPT ![a].pc = "unlink"] /\ store' = store
        /\ agent[a].pc = "undo" /\ Applied(agent[a].log) # {}
    BY <1>6 DEF Destroy, Undoing
  <2>2. agent[a] \in Remediator /\ agent[a].regressed \in BOOLEAN /\ Sane(agent[a])
    BY DEF TypeOK, Remediator, AllSane
  <2>3. PICK s \in Remediator : Becomes(a, s) /\ AfterMove(agent[a], s, "unlink")
    BY <2>1, <2>2, MoveBecomes
  <2>4. Sane(s)
    BY <2>1, <2>2, <2>3, MovedSane
  <2>5. QED
    BY <2>1, <2>3, <2>4, BecomesSane DEF AllHonest
<1>7. ASSUME NEW a \in Agent, Executed(a) \/ RollBack(a)
      PROVE  AllSane' /\ AllHonest'
  <2>1. agent[a] \in Remediator /\ agent[a].regressed \in BOOLEAN /\ Sane(agent[a])
    BY DEF TypeOK, Remediator, AllSane
  <2>2. PICK regressed \in BOOLEAN, pc \in {"verify", "undo"} :
          /\ \/ agent' = [agent EXCEPT ![a].pc = pc] /\ regressed = agent[a].regressed
             \/ agent' = [agent EXCEPT ![a].pc = pc, ![a].regressed = regressed]
          /\ pc = "undo" => Applied(agent[a].log) # {}
    BY <1>7, <2>1 DEF Executed, RollBack
  <2>3. PICK s \in Remediator : Becomes(a, s) /\ AfterMove(agent[a], s, pc)
    BY <2>2, MoveBecomes
  <2>4. agent[a].pc # "idle" /\ store' = store
    BY <1>7 DEF Executed, RollBack
  <2>5. Sane(s)
    BY <2>1, <2>2, <2>3, <2>4, MovedSane
  <2>6. QED
    BY <2>3, <2>4, <2>5, BecomesSane DEF AllHonest
<1>8. ASSUME NEW a \in Agent, NEW f \in File,
             Unlink(a, f) \/ DeleteManifest(a, f) \/ UndoFails(a, f)
      PROVE  AllSane' /\ AllHonest'
  <2>1. PICK result \in {"yes", "no"} : UndoResult(a, f, result)
    BY <1>8 DEF Unlink, DeleteManifest, UndoFails
  <2>2. PICK s \in Remediator : Becomes(a, s) /\ AfterUndo(agent[a], s, f, result)
    BY <2>1, UndoBecomes
  <2>3. agent[a].pc \in {"undo", "unlink"} /\ store' = store
    BY <1>8 DEF Unlink, DeleteManifest, UndoFails
  <2>4. agent[a] \in Remediator /\ Sane(agent[a])
    BY DEF TypeOK, AllSane
  <2>5. Sane(s)
    BY <2>2, <2>3, <2>4, UndoneSane
  <2>6. QED
    BY <2>2, <2>3, <2>5, BecomesSane DEF AllHonest
<1>9. ASSUME NEW a \in Agent, Conclude(a) \/ RolledBack(a)
      PROVE  AllSane' /\ AllHonest'
  <2>1. PICK status \in Status :
          /\ Return(a, status)
          /\ status = "completed" => ~StepFailed(agent[a].log)
          /\ status = "regressed" => Applied(agent[a].log) = {}
          /\ status \in {"rolled_back", "rollback_failed"} => agent[a].pc = "undo"
    BY <1>9 DEF Conclude, RolledBack, Status
  <2>2. Sane(agent[a]) /\ agent[a].pc # "idle"
    BY <1>9 DEF AllSane, Conclude, RolledBack
  <2>3. Honest([status |-> status, plan |-> agent[a].promised, log |-> agent[a].log])
    BY <2>1, <2>2 DEF Honest, Sane
  <2>4. AllHonest'
    BY <2>1, <2>3, SavedHonest DEF Return
  <2>5. AllSane'
    BY <2>1, ReturnType, IdleType, NothingLogged, BecomesSane
  <2>6. QED
    BY <2>4, <2>5
<1>10. ASSUME NEW a \in Agent, Crash(a) \/ \E f \in File : CrashInCommand(a, f)
       PROVE  AllSane' /\ AllHonest'
  <2>1. Becomes(a, Idle) /\ store' = store
    BY <1>10 DEF Crash, CrashInCommand, Becomes
  <2>2. QED
    BY <2>1, IdleType, NothingLogged, BecomesSane DEF AllHonest
<1>11. CASE EditModel \/ UNCHANGED vars
  BY <1>11 DEF EditModel, vars, AllSane, AllHonest
<1>12. QED
  BY <1>1, <1>2, <1>3, <1>4, <1>5, <1>6, <1>7, <1>8, <1>9, <1>10, <1>11
  DEF Next, RunCycle, ApproveAndExecute, Step

THEOREM Invariance == Spec => []IInv
<1>1. Init => IInv
  <2>1. Init => TypeOK
    BY IdleType, ModelsAssumption DEF Init, TypeOK, NoRecord
  <2>2. Init => AllSane /\ AllHonest
    BY NothingLogged DEF Init, AllSane, AllHonest, Honest, NoRecord
  <2>3. QED
    BY <2>1, <2>2 DEF IInv
<1>2. IInv /\ TypeOK' /\ [Next]_vars => IInv'
  BY SaneStep DEF IInv
<1>3. QED
  BY <1>1, <1>2, TypeCorrect, PTL DEF Spec

(***************************************************************************)
(* The ratchet holds in every log, of any plan that the generator makes:   *)
(* nothing is executed or previewed after a step of medium or high risk or *)
(* after one that was denied.                                              *)
(***************************************************************************)
THEOREM AlwaysRatchetHolds == Spec => []RatchetHolds
<1>1. IInv => RatchetHolds
  <2>1. ASSUME IInv, NEW log \in Logs PROVE Ratcheted(log)
    <3>1. CASE \E c \in Cycle : log = store[c].log
      BY <2>1, <3>1 DEF IInv, AllHonest, Honest
    <3>2. CASE \E a \in Agent : log = agent[a].log
      <4>1. PICK a \in Agent : log = agent[a].log
        BY <3>2
      <4>2. Sane(agent[a])
        BY <2>1 DEF IInv, AllSane
      <4>3. QED
        BY <4>1, <4>2, NothingLogged DEF Sane
    <3>3. QED
      BY <2>1, <3>1, <3>2 DEF Logs
  <2>2. QED
    BY <2>1 DEF RatchetHolds, Ratcheted
<1>2. QED
  BY <1>1, Invariance, PTL

\* No step of a plan beyond its limits is executed or previewed.
THEOREM AlwaysWithinLimits == Spec => []WithinLimits
<1>1. IInv => WithinLimits
  <2>1. SUFFICES ASSUME IInv, NEW a \in Agent, agent[a].log # Nothing
                 PROVE  /\ Within(agent[a].plan)
                        /\ agent[a].auto => \A f \in agent[a].plan : Risk(f) <= MaxRisk
    BY DEF WithinLimits
  <2>2. Sane(agent[a]) /\ agent[a].log \in ExecutionLog
    BY <2>1 DEF IInv, AllSane, TypeOK, Remediator
  <2>3. Orderly(agent[a]) /\ Limited(agent[a])
    BY <2>1, <2>2 DEF Sane
  <2>4. PICK f \in File : agent[a].log[f] # "none"
    BY <2>1, <2>2 DEF Nothing, ExecutionLog
  <2>5. f \in agent[a].plan
    BY <2>3, <2>4 DEF Orderly
  <2>6. QED
    BY <2>3, <2>5 DEF Limited
<1>2. QED
  BY <1>1, Invariance, PTL

\* The status of a saved cycle agrees with its log.
THEOREM AlwaysHonestRecords == Spec => []HonestRecords
<1>1. IInv => HonestRecords
  BY DEF IInv, AllHonest, Honest, HonestRecords
<1>2. QED
  BY <1>1, Invariance, PTL

-----------------------------------------------------------------------------
(***************************************************************************)
(* What a rollback has achieved so far: of the steps undone nothing is     *)
(* left, and between the destruction of resources and the removal of their *)
(* file there are none.  Another process could bring them back from the    *)
(* file in that moment, which is why the process has to be alone.          *)
(***************************************************************************)
Left(a, f) == f \in live \/ (f \notin Manifest /\ f \in workspace)

Rolling(a) ==
  /\ agent[a].pc \notin {"undo", "unlink"} => agent[a].undone = Nothing
  /\ \A f \in File : agent[a].undone[f] = "yes" => ~Left(a, f)
  /\ agent[a].pc = "unlink" => \A f \in File : Undoing(a, f) => f \notin live

AllRolling == \A a \in Agent : Rolling(a)

RInv == IInv /\ Targetable /\ AllRolling

LEMMA OneUndone ==
  ASSUME NEW a, NEW f \in File, NEW g \in File, Undoing(a, f), Undoing(a, g)
  PROVE  f = g
BY TotalOrder DEF Undoing

\* terraform creates nothing that no file in the workspace declares.
LEMMA CreatedFromFiles ==
  ASSUME Targetable, NEW S \in SUBSET Pending
  PROVE  Changed(S) \subseteq live \cup Terraform
BY DEF Targetable, Pending, Changed, Terraform

\* A step after which the process, being alone, has nothing undone.
LEMMA NothingUndone ==
  ASSUME Alone, TypeOK, NEW a \in Agent, NEW r \in Remediator, Becomes(a, r),
         r.undone = Nothing, r.pc # "unlink"
  PROVE  AllRolling'
<1>1. \A b \in Agent : b = a
  BY DEF Alone
<1>2. agent'[a] = r
  BY DEF TypeOK, Becomes
<1>3. QED
  BY <1>1, <1>2 DEF AllRolling, Rolling, Nothing

LEMMA RollingStep ==
  ASSUME Alone, RInv, [Next]_vars
  PROVE  Targetable' /\ AllRolling' /\ [NothingLeft]_vars
<1> USE DEF RInv, IInv
<1>1. ASSUME NEW a \in Agent, NEW c \in Cycle,
             \/ RunHealthy(a, c) \/ RunRejected(a, c) \/ RunSuspended(a, c)
             \/ ApproveBlocked(a, c)
      PROVE  Targetable' /\ AllRolling' /\ NothingLeft
  <2>1. PICK status, plan : Save(c, status, plan, Nothing)
    BY <1>1 DEF RunHealthy, RunRejected, RunSuspended, ApproveBlocked
  <2>2. UNCHANGED <<agent, live, workspace>>
    BY <1>1 DEF RunHealthy, RunRejected, RunSuspended, ApproveBlocked
  <2>3. \A b \in Cycle : store'[b] # store[b] => store'[b].log = Nothing
    BY <2>1 DEF Save, TypeOK
  <2>4. NothingLeft
    BY <2>3, NothingLogged DEF NothingLeft
  <2>5. QED
    BY <2>2, <2>4 DEF Targetable, AllRolling, Rolling, Left, Undoing
<1>2. ASSUME store' = store PROVE NothingLeft
  BY <1>2 DEF NothingLeft
<1>3. ASSUME NEW a \in Agent, NEW c \in Cycle, RunProceeds(a, c) \/ Approve(a, c)
      PROVE  Targetable' /\ AllRolling' /\ NothingLeft
  <2>1. store' = store /\ live' = live /\ workspace' = workspace
    BY <1>3 DEF RunProceeds, Approve
  <2>2. Generated \in SUBSET File /\ store[c].plan \in SUBSET File
    BY DEF Generated, TypeOK
  <2>3. PICK auto \in BOOLEAN, isLive \in BOOLEAN, promised \in SUBSET File :
          Begin(a, c, auto, isLive, promised)
    BY <1>3, <2>2 DEF RunProceeds, Approve
  <2>4. PICK r \in Remediator :
          Becomes(a, r) /\ r.pc = "execute" /\ r.undone = Nothing
    BY <2>3, BeginBecomes
  <2>5. AllRolling'
    BY <2>4, NothingUndone
  <2>6. QED
    BY <1>2, <2>1, <2>5 DEF Targetable
<1>4. ASSUME NEW a \in Agent, NEW f \in File,
             \/ Deny(a, f) \/ Preview(a, f) \/ PlanFails(a, f)
             \/ Apply(a, f) \/ ApplyFails(a, f) \/ ApplyManifest(a, f)
      PROVE  Targetable' /\ AllRolling' /\ NothingLeft
  <2>1. PICK status \in StepStatus, pc \in {"execute", "verify"} : Log(a, f, status, pc)
    BY <1>4 DEF Deny, Preview, PlanFails, Apply, ApplyFails, ApplyManifest, StepStatus
  <2>2. /\ store' = store /\ workspace \subseteq workspace'
        /\ agent[a].pc \in {"execute", "apply"}
    BY <1>4 DEF Deny, Preview, PlanFails, TerraformStep, Permitted, Apply, ApplyFails,
                Applying, ApplyManifest
  <2>3. PICK s \in Remediator : Becomes(a, s) /\ AfterLog(agent[a], s, f, status, pc)
    BY <2>1, LogBecomes
  <2>4. s.undone = Nothing /\ s.pc # "unlink"
    BY <2>2, <2>3 DEF AfterLog, AllRolling, Rolling
  <2>5. AllRolling'
    BY <2>3, <2>4, NothingUndone
  <2>6. live' \subseteq live \cup workspace \cup Manifest
    <3>1. CASE Apply(a, f) \/ ApplyFails(a, f)
      <4>1. PICK S \in SUBSET Pending : live' = Changed(S)
        BY <3>1 DEF Apply, ApplyFails
      <4>2. QED
        BY <4>1, CreatedFromFiles DEF Terraform
    <3>2. CASE ~(Apply(a, f) \/ ApplyFails(a, f))
      BY <1>4, <3>2 DEF Deny, Preview, PlanFails, ApplyManifest
    <3>3. QED
      BY <3>1, <3>2
  <2>7. Targetable'
    BY <2>2, <2>6 DEF Targetable
  <2>8. QED
    BY <1>2, <2>2, <2>5, <2>7
<1>5. ASSUME NEW a \in Agent,
             (\E f \in File : PlanPasses(a, f)) \/ Executed(a) \/ RollBack(a)
      PROVE  Targetable' /\ AllRolling' /\ NothingLeft
  <2>1. agent[a].regressed \in BOOLEAN
    BY DEF TypeOK, Remediator
  <2>2. PICK regressed \in BOOLEAN, pc \in {"apply", "verify", "undo"} :
          \/ agent' = [agent EXCEPT ![a].pc = pc] /\ regressed = agent[a].regressed
          \/ agent' = [agent EXCEPT ![a].pc = pc, ![a].regressed = regressed]
    BY <1>5, <2>1 DEF PlanPasses, Executed, RollBack
  <2>3. /\ store' = store /\ live' = live /\ workspace \subseteq workspace'
        /\ agent[a].pc \in {"execute", "verify"}
    BY <1>5 DEF PlanPasses, TerraformStep, Permitted, Executed, RollBack
  <2>4. PICK s \in Remediator : Becomes(a, s) /\ AfterMove(agent[a], s, pc)
    BY <2>2, MoveBecomes
  <2>5. s.undone = Nothing /\ s.pc # "unlink"
    BY <2>3, <2>4 DEF AfterMove, AllRolling, Rolling
  <2>6. AllRolling'
    BY <2>4, <2>5, NothingUndone
  <2>7. QED
    BY <1>2, <2>3, <2>6 DEF Targetable
<1>6. ASSUME NEW a \in Agent, NEW f \in File, Destroy(a, f)
      PROVE  Targetable' /\ AllRolling' /\ NothingLeft
  <2>1. /\ agent' = [agent EXCEPT ![a].pc = "unlink"]
        /\ live' = live \ {f} /\ UNCHANGED <<store, workspace>> /\ Undoing(a, f)
    BY <1>6 DEF Destroy
  <2>2. /\ agent'[a].log = agent[a].log /\ agent'[a].undone = agent[a].undone
        /\ agent'[a].pc = "unlink"
    BY <2>1 DEF TypeOK, Remediator
  <2>3. ASSUME NEW g \in File, Undoing(a, g)' PROVE g \notin live'
    <3>1. Undoing(a, g)
      BY <2>2, <2>3 DEF Undoing
    <3>2. QED
      BY <2>1, <3>1, OneUndone
  <2>4. \A g \in File : agent'[a].undone[g] = "yes" => ~Left(a, g)'
    BY <2>1, <2>2 DEF AllRolling, Rolling, Left
  <2>5. Rolling(a)'
    BY <2>2, <2>3, <2>4 DEF Rolling
  <2>6. QED
    BY <1>2, <2>1, <2>5 DEF Alone, AllRolling, Targetable
<1>7. ASSUME NEW a \in Agent, NEW f \in File,
             Unlink(a, f) \/ DeleteManifest(a, f) \/ UndoFails(a, f)
      PROVE  Targetable' /\ AllRolling' /\ NothingLeft
  <2>1. PICK result \in {"yes", "no"} :
          /\ UndoResult(a, f, result)
          /\ result = "yes" => Unlink(a, f) \/ DeleteManifest(a, f)
    BY <1>7 DEF Unlink, DeleteManifest, UndoFails
  <2>2. PICK s \in Remediator : Becomes(a, s) /\ AfterUndo(agent[a], s, f, result)
    BY <2>1, UndoBecomes
  <2>3. /\ live' \subseteq live /\ workspace' \subseteq workspace /\ store' = store
        /\ workspace \ workspace' \subseteq {f}
        /\ agent[a].pc \in {"undo", "unlink"}
    BY <1>7 DEF Unlink, DeleteManifest, UndoFails
  <2>4. Unlink(a, f) => f \notin live
    BY DEF Unlink, AllRolling, Rolling
  <2>5. Targetable'
    BY <1>7, <2>3, <2>4 DEF Targetable, Unlink, DeleteManifest, UndoFails
  <2>6. agent'[a].pc = "undo" /\ agent'[a].undone = [agent[a].undone EXCEPT ![f] = result]
    BY <2>2 DEF TypeOK, Becomes, AfterUndo
  <2>7. agent[a].undone \in [File -> {"none", "yes", "no"}]
    BY DEF TypeOK, Remediator
  <2>8. ASSUME NEW g \in File, agent'[a].undone[g] = "yes" PROVE ~Left(a, g)'
    <3>1. CASE g # f
      BY <2>3, <2>6, <2>7, <2>8, <3>1 DEF AllRolling, Rolling, Left
    <3>2. CASE g = f
      <4>1. Unlink(a, f) \/ DeleteManifest(a, f)
        BY <2>1, <2>6, <2>7, <2>8, <3>2
      <4>2. QED
        BY <2>4, <3>2, <4>1 DEF Unlink, DeleteManifest, Left
    <3>3. QED
      BY <3>1, <3>2
  <2>9. Rolling(a)'
    BY <2>6, <2>8 DEF Rolling
  <2>10. QED
    BY <1>2, <2>3, <2>5, <2>9 DEF Alone, AllRolling
<1>8. ASSUME NEW a \in Agent, Conclude(a) \/ RolledBack(a)
      PROVE  Targetable' /\ AllRolling' /\ NothingLeft
  <2>1. PICK status \in Status :
          /\ Return(a, status)
          /\ status \in {"rolled_back", "failed"} =>
               \/ Applied(agent[a].log) = {}
               \/ AllUndone(a) /\ \A f \in Applied(agent[a].log) : agent[a].undone[f] # "none"
    BY <1>8 DEF Conclude, RolledBack, Status
  <2>2. UNCHANGED <<live, workspace>>
    BY <1>8 DEF Conclude, RolledBack
  <2>3. AllRolling'
    BY <2>1, ReturnType, IdleType, NothingUndone DEF Idle
  <2>4. ASSUME status \in {"rolled_back", "failed"}, NEW f \in Applied(agent[a].log)
        PROVE  f \notin live' /\ (f \in Manifest \/ f \notin workspace')
    <3>1. f \in File /\ agent[a].undone[f] \in {"none", "yes", "no"}
      BY <2>4 DEF Applied, TypeOK, Remediator
    <3>2. agent[a].undone[f] \notin {"none", "no"}
      BY <2>1, <2>4, <3>1 DEF AllUndone
    <3>3. QED
      BY <2>2, <3>1, <3>2 DEF AllRolling, Rolling, Left
  <2>5. \A c \in Cycle : store'[c] # store[c] =>
          store'[c].status = status /\ store'[c].log = agent[a].log
    BY <2>1 DEF Return, Save, TypeOK
  <2>6. NothingLeft
    BY <2>4, <2>5 DEF NothingLeft
  <2>7. QED
    BY <2>2, <2>3, <2>6 DEF Targetable
<1>9. ASSUME NEW a \in Agent, Crash(a) \/ \E f \in File : CrashInCommand(a, f)
      PROVE  Targetable' /\ AllRolling' /\ NothingLeft
  <2>1. Becomes(a, Idle) /\ store' = store /\ workspace \subseteq workspace'
    BY <1>9 DEF Crash, CrashInCommand, Becomes
  <2>2. AllRolling'
    BY <2>1, IdleType, NothingUndone DEF Idle
  <2>3. live' \subseteq live \cup workspace \cup Manifest
    BY <1>9, CreatedFromFiles DEF Crash, CrashInCommand, Terraform
  <2>4. QED
    BY <1>2, <2>1, <2>2, <2>3 DEF Targetable
<1>10. CASE EditModel \/ UNCHANGED vars
  BY <1>2, <1>10 DEF EditModel, vars, Targetable, AllRolling, Rolling, Left, Undoing
<1>11. QED
  BY <1>1, <1>3, <1>4, <1>5, <1>6, <1>7, <1>8, <1>9, <1>10
  DEF Next, RunCycle, ApproveAndExecute, Step

LEMMA RollingInvariance ==
  ASSUME Alone
  PROVE  Spec => [](Targetable /\ AllRolling)
<1>1. Init => Targetable /\ AllRolling
  BY DEF Init, Targetable, AllRolling, Rolling, Idle, Nothing
<1>2. IInv /\ Targetable /\ AllRolling /\ [Next]_vars => Targetable' /\ AllRolling'
  BY RollingStep DEF RInv
<1>3. QED
  BY <1>1, <1>2, Invariance, PTL DEF Spec

(***************************************************************************)
(* Whatever terraform brings up is declared by a file in the workspace, as *)
(* long as one process works on it, crashes included.                      *)
(***************************************************************************)
THEOREM AlwaysTargetable == Alone => (Spec => []Targetable)
<1>1. SUFFICES ASSUME Alone PROVE Spec => []Targetable
  OBVIOUS
<1>2. QED
  BY <1>1, RollingInvariance, PTL

(***************************************************************************)
(* A cycle reported rolled back, or failed, leaves nothing behind of the   *)
(* steps it may have applied, as long as one process works.                *)
(***************************************************************************)
THEOREM AlwaysUndoneWhenSaidSo == Alone => (Spec => UndoneWhenSaidSo)
<1>1. SUFFICES ASSUME Alone PROVE Spec => UndoneWhenSaidSo
  OBVIOUS
<1>2. IInv /\ Targetable /\ AllRolling /\ [Next]_vars => [NothingLeft]_vars
  BY <1>1, RollingStep DEF RInv
<1>3. QED
  BY <1>1, <1>2, Invariance, RollingInvariance, PTL DEF Spec, UndoneWhenSaidSo

=============================================================================
