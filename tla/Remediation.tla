---------------------------- MODULE Remediation ----------------------------
(***************************************************************************)
(* AutonomousRemediationAgent (remediation/autonomous_agent.py): cycles    *)
(* that detect issues in a model file, plan fixes as infrastructure code,  *)
(* apply them step by step under a permission ratchet, verify the effect   *)
(* and roll back.  A cycle is one call of run_cycle, or a run_cycle that   *)
(* waits for approval and a later approve_and_execute, maybe by another    *)
(* process.  What survives a process is on disk: the cycles saved, the     *)
(* workspace of generated files, and the infrastructure itself.            *)
(*                                                                         *)
(* terraform makes the infrastructure what all the files of its workspace  *)
(* say, kubectl applies only the file it is given.  A file stands for the  *)
(* resources it declares, and no plan has two of the same name: a plan is  *)
(* the set of its files, its steps are taken in the order Before, and a    *)
(* log gives each file the status of its step.                             *)
(*                                                                         *)
(* An apply that is killed by its timeout is recorded like one that fails, *)
(* which all the code that reads the log treats alike.  The ceiling on the *)
(* cost of a plan, which is compared wherever the number of steps is, is   *)
(* left out, and so is the one entry that the log of a plan blocked at     *)
(* once gets.                                                              *)
(***************************************************************************)
EXTENDS Naturals, FiniteSets

CONSTANTS Agent,       \* the processes
          Cycle,       \* the ids of cycles
          File,        \* what the generator can produce, one file per issue
          Manifest,    \* the files that are kubernetes manifests
          Phase,       \* the phase of each file: 1 is high risk, 3 is low
          Position,    \* where the generator's sort puts each among those of its phase
          Ratchet,     \* ratchet_enabled
          MaxSteps,    \* max_steps
          MaxRisk,     \* max_risk_level: 0 is low, 2 is high
          ApproveLive  \* may a process that approves have opted in to live apply?

ASSUME FilesAssumption ==
  /\ IsFiniteSet(File)
  /\ Manifest \subseteq File
  /\ Phase \in [File -> 1 .. 3]
  /\ Position \in [File -> Nat]
  /\ \A f, g \in File : Position[f] = Position[g] => f = g
  /\ \A f \in Manifest : Phase[f] = 1  \* as all its rules have it

ASSUME LimitsAssumption == /\ MaxSteps \in Nat /\ MaxRisk \in Nat
                           /\ Ratchet \in BOOLEAN /\ ApproveLive \in BOOLEAN

VARIABLES
  model,      \* the model file: its issues, and how many fixes reach the target score
  store,      \* cycles/*.json
  workspace,  \* the generated files in the terraform workspace and the manifests
  live,       \* the files of which some resource exists
  agent       \* the processes

vars == <<model, store, workspace, live, agent>>

Status == {"awaiting_approval", "completed", "failed", "blocked", "regressed",
           "rolled_back", "rollback_failed"}

StepStatus == {"success", "dry_run", "blocked", "failed", "apply_failed"}

ExecutionLog == [File -> StepStatus \cup {"none"}]

Nothing == [f \in File |-> "none"]

NoRecord == [status |-> "none", plan |-> {}, log |-> Nothing]

Permission == {"read:internal", "read:external", "write:internal", "write:external",
               "execute:tool", "send:external_api"}

Remediator == [pc : {"idle", "execute", "apply", "verify", "undo", "unlink"},
               cycle     : Cycle \cup {"none"},
               auto      : BOOLEAN,             \* this is run_cycle, with auto_approve
               live      : BOOLEAN,             \* _auto_apply_allowed()
               promised  : SUBSET File,         \* cycle.remediation_plan
               plan      : SUBSET File,         \* the plan being executed
               perms     : SUBSET Permission,   \* ratchet.remaining_permissions
               log       : ExecutionLog,        \* cycle.execution_log
               regressed : BOOLEAN,             \* the score went down
               undone    : [File -> {"none", "yes", "no"}]]  \* results of _rollback_step

Idle == [pc |-> "idle", cycle |-> "none", auto |-> FALSE, live |-> FALSE,
         promised |-> {}, plan |-> {}, perms |-> {}, log |-> Nothing,
         regressed |-> FALSE, undone |-> Nothing]

TypeOK == /\ model \in [issues : SUBSET File, kept : Nat]
          /\ store \in [Cycle -> [status : Status \cup {"none"},
                                  plan   : SUBSET File,
                                  log    : ExecutionLog]]
          /\ workspace \subseteq File
          /\ live \subseteq File
          /\ agent \in [Agent -> Remediator]

CONSTANT Models  \* the model files that a scan or an operator may leave

ASSUME ModelsAssumption == Models \subseteq [issues : SUBSET File, kept : Nat]

Init == /\ model \in Models
        /\ store = [c \in Cycle |-> NoRecord]
        /\ workspace = {}
        /\ live = {}
        /\ agent = [a \in Agent |-> Idle]

-----------------------------------------------------------------------------
\* Mutant: the fixes are left as they were found.
BeforeAsFound(f, g) == Position[f] < Position[g]

\* IaCGenerator.generate: the fixes are sorted by phase.
Before(f, g) == \/ Phase[f] < Phase[g]
                \/ Phase[f] = Phase[g] /\ Position[f] < Position[g]

\* The first of the fixes, up to the one that reaches the target score.
Generated ==
  {f \in model.issues : Cardinality({g \in model.issues : Before(g, f)}) < model.kept}

Risk(f) == 3 - Phase[f]

Within(plan) == Cardinality(plan) <= MaxSteps

\* Mutant: the risk of the plan is not looked at.
PassesAnyRisk(plan, sound) == plan # {} => sound /\ Within(plan)

(***************************************************************************)
(* _simulate_with_fix: the measured score of the plan must not go down     *)
(* (sound), and the plan must be within the limits on size and risk.       *)
(***************************************************************************)
Passes(plan, sound) ==
  plan # {} => sound /\ Within(plan) /\ \A f \in plan : Risk(f) <= MaxRisk

InitialPermissions ==
  IF Ratchet THEN {"read:internal", "write:internal", "execute:tool"} ELSE Permission

Save(c, status, plan, log) == store' = [store EXCEPT ![c] = [status |-> status,
                                                             plan   |-> plan,
                                                             log    |-> log]]

Fresh(c) == store[c] = NoRecord /\ \A b \in Agent : agent[b].cycle # c

(***************************************************************************)
(* run_cycle finds no issue.  What it looks for is not what the generator  *)
(* has rules for: either may come up empty.                                *)
(***************************************************************************)
RunHealthy(a, c) ==
  /\ agent[a].pc = "idle" /\ Fresh(c)
  /\ Save(c, "completed", {}, Nothing)
  /\ UNCHANGED <<model, workspace, live, agent>>

\* The simulation of the plan fails.
RunRejected(a, c) ==
  /\ agent[a].pc = "idle" /\ Fresh(c)
  /\ \E sound \in BOOLEAN : ~Passes(Generated, sound)
  /\ Save(c, "failed", Generated, Nothing)
  /\ UNCHANGED <<model, workspace, live, agent>>

\* Mutant: the cycle is saved before its status is set.
RunSuspendedEarly(a, c) ==
  /\ agent[a].pc = "idle" /\ Fresh(c)
  /\ Passes(Generated, TRUE)
  /\ Save(c, "simulating", Generated, Nothing)
  /\ UNCHANGED <<model, workspace, live, agent>>

\* The cycle is saved until someone approves it.
RunSuspended(a, c) ==
  /\ agent[a].pc = "idle" /\ Fresh(c)
  /\ Passes(Generated, TRUE)
  /\ Save(c, "awaiting_approval", Generated, Nothing)
  /\ UNCHANGED <<model, workspace, live, agent>>

Begin(a, c, auto, isLive, promised) ==
  agent' = [agent EXCEPT ![a] = [Idle EXCEPT !.pc       = "execute",
                                             !.cycle    = c,
                                             !.auto     = auto,
                                             !.live     = isLive,
                                             !.promised = promised,
                                             !.plan     = Generated,
                                             !.perms    = InitialPermissions]]

\* With auto_approve the plan is executed at once.
RunProceeds(a, c) ==
  /\ agent[a].pc = "idle" /\ Fresh(c)
  /\ Passes(Generated, TRUE)
  /\ \E isLive \in BOOLEAN : Begin(a, c, TRUE, isLive, Generated)
  /\ UNCHANGED <<model, store, workspace, live>>

\* approve_and_execute: the plan is generated anew, from the model as it now is.
Approve(a, c) ==
  /\ agent[a].pc = "idle"
  /\ store[c].status = "awaiting_approval"
  /\ Within(Generated)
  /\ \E isLive \in BOOLEAN :
       (isLive => ApproveLive) /\ Begin(a, c, FALSE, isLive, store[c].plan)
  /\ UNCHANGED <<model, store, workspace, live>>

\* The plan has grown beyond the limit since it was simulated.
ApproveBlocked(a, c) ==
  /\ agent[a].pc = "idle"
  /\ store[c].status = "awaiting_approval"
  /\ ~Within(Generated)
  /\ Save(c, "blocked", store[c].plan, Nothing)
  /\ UNCHANGED <<model, workspace, live, agent>>

-----------------------------------------------------------------------------
(***************************************************************************)
(* The loop of _execute_with_ratchet over the steps of the plan.  A step   *)
(* needs permissions, and loses some to those after it by its risk.        *)
(***************************************************************************)
Needed(f) == {"write:internal"} \cup (IF f \in Manifest THEN {} ELSE {"execute:tool"})
                                \cup (IF Risk(f) = 2 THEN {"read:internal"} ELSE {})

\* RatchetState.apply_ratchet, at CONFIDENTIAL for medium and RESTRICTED for high risk.
Revoked(f) == (IF Risk(f) >= 1 THEN {"execute:tool", "send:external_api"} ELSE {})
              \cup (IF Risk(f) = 2 THEN {"write:external", "write:internal"} ELSE {})

\* f is the next step of the plan.
Due(a, f) == /\ f \in agent[a].plan
             /\ agent[a].log[f] = "none"
             /\ \A g \in agent[a].plan : Before(g, f) => agent[a].log[g] # "none"

Permitted(a, f) == /\ agent[a].pc = "execute" /\ Due(a, f)
                   /\ Needed(f) \subseteq agent[a].perms

\* The step is logged, and its risk narrows the permissions.
Log(a, f, status, pc) ==
  agent' = [agent EXCEPT ![a].log[f] = status,
                         ![a].perms  = @ \ (IF status = "blocked" THEN {} ELSE Revoked(f)),
                         ![a].pc     = pc]

\* Mutant: a step that is denied is tried again.
DenyRetries(a, f) ==
  /\ agent[a].pc = "execute" /\ Due(a, f) /\ ~Permitted(a, f)
  /\ UNCHANGED vars

\* The step is blocked, and the loop goes on.
Deny(a, f) ==
  /\ agent[a].pc = "execute" /\ Due(a, f) /\ ~Permitted(a, f)
  /\ Log(a, f, "blocked", "execute")
  /\ UNCHANGED <<model, store, workspace, live>>

\* Without full opt-in the step is only previewed.
Preview(a, f) ==
  /\ Permitted(a, f) /\ ~agent[a].live
  /\ Log(a, f, "dry_run", "execute")
  /\ UNCHANGED <<model, store, workspace, live>>

TerraformStep(a, f) == Permitted(a, f) /\ agent[a].live /\ f \notin Manifest

Terraform == workspace \ Manifest

\* _execute_terraform writes the file; terraform plan fails, and the file stays.
PlanFails(a, f) ==
  /\ TerraformStep(a, f)
  /\ workspace' = workspace \cup {f}
  /\ Log(a, f, "failed", "verify")
  /\ UNCHANGED <<model, store, live>>

PlanPasses(a, f) ==
  /\ TerraformStep(a, f)
  /\ workspace' = workspace \cup {f}
  /\ agent' = [agent EXCEPT ![a].pc = "apply"]
  /\ UNCHANGED <<model, store, live>>

\* What terraform apply has yet to create or to take down.
Pending == (Terraform \ live) \cup (live \ (Manifest \cup workspace))

\* What there is once terraform has dealt with S: the two differ in nothing but S.
Changed(S) == (live \ S) \cup (S \ live)

Applying(a, f) == agent[a].pc = "apply" /\ Due(a, f)

\* terraform apply brings up the whole workspace.
Apply(a, f) ==
  /\ Applying(a, f)
  /\ live' = Changed(Pending)
  /\ Log(a, f, "success", "execute")
  /\ UNCHANGED <<model, store, workspace>>

\* It fails or is killed half-way: the plan is abandoned.
ApplyFails(a, f) ==
  /\ Applying(a, f)
  /\ \E S \in SUBSET Pending : live' = Changed(S)
  /\ Log(a, f, "apply_failed", "verify")
  /\ UNCHANGED <<model, store, workspace>>

\* _execute_kubernetes writes the manifest and applies it, maybe in part.
ApplyManifest(a, f) ==
  /\ Permitted(a, f) /\ agent[a].live /\ f \in Manifest
  /\ workspace' = workspace \cup {f}
  /\ \/ live' = live \cup {f} /\ Log(a, f, "success", "execute")
     \/ live' \in {live, live \cup {f}} /\ Log(a, f, "apply_failed", "verify")
     \/ live' = live /\ Log(a, f, "failed", "verify")
  /\ UNCHANGED <<model, store>>

\* Every step has been looked at.
Executed(a) ==
  /\ agent[a].pc = "execute"
  /\ \A f \in agent[a].plan : agent[a].log[f] # "none"
  /\ agent' = [agent EXCEPT ![a].pc = "verify"]
  /\ UNCHANGED <<model, store, workspace, live>>

-----------------------------------------------------------------------------
(***************************************************************************)
(* _verify: the score is taken again, and the steps that may have changed  *)
(* the infrastructure are undone when it went down or a step failed.       *)
(***************************************************************************)
Applied(log) == {f \in File : log[f] \in {"success", "apply_failed"}}

StepFailed(log) == \E f \in File : log[f] \in {"failed", "apply_failed"}

Return(a, status) == /\ Save(agent[a].cycle, status, agent[a].promised, agent[a].log)
                     /\ agent' = [agent EXCEPT ![a] = Idle]

\* Mutant: what happened to the steps is forgotten.
ConcludeByScore(a) ==
  /\ agent[a].pc = "verify"
  /\ \E regressed \in BOOLEAN :
       /\ regressed => Applied(agent[a].log) = {}
       /\ Return(a, IF regressed THEN "regressed" ELSE "completed")
  /\ UNCHANGED <<model, workspace, live>>

\* There is nothing to undo, or no reason to.
Conclude(a) ==
  /\ agent[a].pc = "verify"
  /\ \E regressed \in BOOLEAN :
       /\ regressed \/ StepFailed(agent[a].log) => Applied(agent[a].log) = {}
       /\ Return(a, IF regressed THEN "regressed"
                    ELSE IF StepFailed(agent[a].log) THEN "failed" ELSE "completed")
  /\ UNCHANGED <<model, workspace, live>>

RollBack(a) ==
  /\ agent[a].pc = "verify"
  /\ Applied(agent[a].log) # {}
  /\ \E regressed \in BOOLEAN :
       /\ regressed \/ StepFailed(agent[a].log)
       /\ agent' = [agent EXCEPT ![a].pc = "undo", ![a].regressed = regressed]
  /\ UNCHANGED <<model, store, workspace, live>>

-----------------------------------------------------------------------------
\* _rollback_step on one applied step after the other, in the order of the log.
Undoing(a, f) ==
  /\ f \in Applied(agent[a].log)
  /\ agent[a].undone[f] = "none"
  /\ \A g \in Applied(agent[a].log) : Before(g, f) => agent[a].undone[g] # "none"

UndoResult(a, f, result) ==
  agent' = [agent EXCEPT ![a].undone[f] = result, ![a].pc = "undo"]

\* terraform destroy, of the resources named in the file and no others.
Destroy(a, f) ==
  /\ agent[a].pc = "undo" /\ Undoing(a, f)
  /\ f \in Terraform
  /\ live' = live \ {f}
  /\ agent' = [agent EXCEPT ![a].pc = "unlink"]
  /\ UNCHANGED <<model, store, workspace>>

\* The file goes too, or a later apply would bring the resources back.
Unlink(a, f) ==
  /\ agent[a].pc = "unlink" /\ Undoing(a, f)
  /\ workspace' = workspace \ {f}
  /\ UndoResult(a, f, "yes")
  /\ UNCHANGED <<model, store, live>>

\* kubectl delete; the manifest stays, and nothing else applies it.
DeleteManifest(a, f) ==
  /\ agent[a].pc = "undo" /\ Undoing(a, f)
  /\ f \in Manifest
  /\ live' = live \ {f}
  /\ UndoResult(a, f, "yes")
  /\ UNCHANGED <<model, store, workspace>>

\* Mutant: the file is removed whether or not its resources were destroyed.
UndoFailsUnlinked(a, f) ==
  /\ agent[a].pc = "undo" /\ Undoing(a, f)
  /\ live' \in {live, live \ ({f} \cap workspace)}
  /\ workspace' = workspace \ {f}
  /\ UndoResult(a, f, "no")
  /\ UNCHANGED <<model, store>>

\* The command fails or times out, or there is no file to tell what to destroy.
UndoFails(a, f) ==
  /\ agent[a].pc = "undo" /\ Undoing(a, f)
  /\ live' \in {live, live \ ({f} \cap workspace)}
  /\ UndoResult(a, f, "no")
  /\ UNCHANGED <<model, store, workspace>>

\* Mutant: one step undone is enough.
AllUndoneOrOne(a) == \E f \in File : agent[a].undone[f] = "yes"

AllUndone(a) == \A f \in File : agent[a].undone[f] # "no"

RolledBack(a) ==
  /\ agent[a].pc = "undo"
  /\ \A f \in Applied(agent[a].log) : agent[a].undone[f] # "none"
  /\ Return(a, IF ~AllUndone(a) THEN "rollback_failed"
               ELSE IF agent[a].regressed THEN "rolled_back" ELSE "failed")
  /\ UNCHANGED <<model, workspace, live>>

-----------------------------------------------------------------------------
CONSTANT Crashes  \* may a process be killed?

ASSUME CrashesAssumption == Crashes \in BOOLEAN

\* A process is killed.
Crash(a) ==
  /\ Crashes /\ agent[a].pc # "idle"
  /\ agent' = [agent EXCEPT ![a] = Idle]
  /\ UNCHANGED <<model, store, workspace, live>>

\* The same in the middle of a command, which may get on with what it was doing.
CrashInCommand(a, f) ==
  /\ Crashes
  /\ \/ /\ Applying(a, f)
        /\ \E S \in SUBSET Pending : live' = Changed(S)
        /\ UNCHANGED workspace
     \/ /\ Permitted(a, f) /\ agent[a].live /\ f \in Manifest
        /\ workspace' = workspace \cup {f}
        /\ live' \in {live, live \cup {f}}
     \/ /\ agent[a].pc = "undo" /\ Undoing(a, f)
        /\ live' = live \ ({f} \cap workspace)
        /\ UNCHANGED workspace
  /\ agent' = [agent EXCEPT ![a] = Idle]
  /\ UNCHANGED <<model, store>>

\* The model file is written by a scan or by hand at any time.
EditModel == model' \in Models \ {model} /\ UNCHANGED <<store, workspace, live, agent>>

RunCycle(a, c) == RunHealthy(a, c) \/ RunRejected(a, c) \/ RunSuspended(a, c) \/ RunProceeds(a, c)

ApproveAndExecute(a, c) == Approve(a, c) \/ ApproveBlocked(a, c)

\* What a process does once its cycle is being executed.
Step(a) ==
  \/ \E f \in File :
       \/ Deny(a, f) \/ Preview(a, f)
       \/ PlanFails(a, f) \/ PlanPasses(a, f) \/ Apply(a, f) \/ ApplyFails(a, f)
       \/ ApplyManifest(a, f)
       \/ Destroy(a, f) \/ Unlink(a, f) \/ DeleteManifest(a, f) \/ UndoFails(a, f)
  \/ Executed(a) \/ Conclude(a) \/ RollBack(a) \/ RolledBack(a)

Next == \/ \E a \in Agent, c \in Cycle : RunCycle(a, c) \/ ApproveAndExecute(a, c)
        \/ \E a \in Agent : Step(a) \/ Crash(a) \/ \E f \in File : CrashInCommand(a, f)
        \/ EditModel

Spec == Init /\ [][Next]_vars

(***************************************************************************)
(* A process runs until its call returns: every command it starts is       *)
(* killed after _STEP_TIMEOUT.  No one has to start or approve a cycle.    *)
(***************************************************************************)
FairSpec == Spec /\ \A a \in Agent : WF_vars(Step(a))

-----------------------------------------------------------------------------
\* The logs there are, saved or in the making.
Logs == {store[c].log : c \in Cycle} \cup {agent[a].log : a \in Agent}

(***************************************************************************)
(* The ratchet: after a step of medium or high risk no step is executed or *)
(* even previewed, and neither is one after a step that was denied.  It    *)
(* takes the order of the plan to have it so.                              *)
(***************************************************************************)
RatchetHolds ==
  \A log \in Logs : \A f, g \in File :
    /\ Before(f, g) /\ log[f] # "none" /\ log[g] # "none"
    /\ Risk(f) >= 1 \/ log[f] = "blocked"
    => log[g] = "blocked"

(***************************************************************************)
(* What a record says of its steps: a cycle is completed only if no step   *)
(* failed, even if the score went up; it is regressed only if there was    *)
(* nothing to undo, and rolled back only if there was.                     *)
(***************************************************************************)
HonestRecords ==
  \A c \in Cycle :
    /\ store[c].status = "completed" => ~StepFailed(store[c].log)
    /\ store[c].status = "regressed" => Applied(store[c].log) = {}
    /\ store[c].status \in {"rolled_back", "rollback_failed"} => Applied(store[c].log) # {}

(***************************************************************************)
(* A step is executed, or previewed, only in a plan within max_steps,      *)
(* though a plan approved is not the one that was simulated; and without   *)
(* approval only in a plan within max_risk_level.                          *)
(***************************************************************************)
WithinLimits ==
  \A a \in Agent : agent[a].log # Nothing =>
    /\ Within(agent[a].plan)
    /\ agent[a].auto => \A f \in agent[a].plan : Risk(f) <= MaxRisk

(***************************************************************************)
(* Whatever terraform has brought up can still be taken down by name: its  *)
(* file is in the workspace, after a crash and a failed rollback too.      *)
(***************************************************************************)
Targetable == live \ Manifest \subseteq workspace

(***************************************************************************)
(* A cycle that is reported rolled back, or failed, leaves nothing behind  *)
(* of the steps it may have applied.                                       *)
(***************************************************************************)
NothingLeft ==
  \A c \in Cycle : store'[c] # store[c] /\ store'[c].status \in {"rolled_back", "failed"} =>
    \A f \in Applied(store'[c].log) :
      f \notin live' /\ (f \in Manifest \/ f \notin workspace')

UndoneWhenSaidSo == [][NothingLeft]_vars

\* A cycle that is being executed is brought to an end.
Returns == \A a \in Agent : agent[a].pc # "idle" ~> agent[a].pc = "idle"

-----------------------------------------------------------------------------
\* A claim of the repository that the code does not keep.

(***************************************************************************)
(* approve_and_execute: the plan that is executed is the one saved with    *)
(* the cycle.                                                              *)
(***************************************************************************)
PlanAsSaved == \A a \in Agent : agent[a].pc = "execute" => agent[a].plan = agent[a].promised

=============================================================================
