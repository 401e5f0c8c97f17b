------------------------------- MODULE Daemon -------------------------------
(***************************************************************************)
(* The monitoring daemon (daemon.py): it scans a model at intervals,       *)
(* compares the result with the previous one, notifies of a regression,    *)
(* and saves the result for the next comparison, which may be that of      *)
(* another process: the daemon may crash between any two of its steps and  *)
(* is started again.  Scans, saves and the reading of what was saved may   *)
(* fail; a failure ends the turn of the loop and nothing else.             *)
(***************************************************************************)
EXTENDS ScanResults

CONSTANT MaxFailures   \* bound on saves that fail and files that cannot be read

ASSUME FailuresAssumption == MaxFailures \in Nat

VARIABLES
  model,      \* what a scan of the model file finds: a result, or that there is none
  disk,       \* latest.json
  tmp,        \* latest.json.tmp
  pc,         \* what the process is at; "off" when there is none
  running,    \* self._running
  previous,   \* self._previous_result
  result,     \* the result of the scan in this turn of the loop
  failures,   \* the failures so far
  known,      \* observer: the process could read what is on disk
  announced,  \* observer: the regressions notified since disk was replaced
  settled     \* observer: what disk was when a regression was last accepted

memory == <<running, previous, result>>
observers == <<known, announced, settled>>
vars == <<model, disk, tmp, pc, memory, failures, observers>>

\* A model file may be missing, and a scan of it may raise.
Unscannable == {"missing", "broken"}

Places == {"off", "loop", "compare", "notify", "write", "writing", "replace",
           "remember", "sleep"}

TypeOK == /\ model \in Result \cup Unscannable
          /\ disk \in Result \cup {None}
          /\ tmp \in Result \cup {None, "partial"}
          /\ pc \in Places
          /\ running \in BOOLEAN
          /\ previous \in Result \cup {None}
          /\ result \in Result \cup {None}
          /\ failures \in 0 .. MaxFailures
          /\ known \in BOOLEAN
          /\ announced \in SUBSET Result
          /\ settled \in Result \cup {None}

Init == /\ model \in Result \cup Unscannable
        /\ disk = None
        /\ tmp = None
        /\ pc = "off"
        /\ running = FALSE
        /\ previous = None
        /\ result = None
        /\ failures = 0
        /\ known = TRUE
        /\ announced = {}
        /\ settled = None

-----------------------------------------------------------------------------

\* __init__ and the head of start.
Start == /\ pc = "off"
         /\ previous' = disk
         /\ running' = TRUE
         /\ result' = None
         /\ pc' = "loop"
         /\ known' = TRUE
         /\ UNCHANGED <<model, disk, tmp, failures, announced, settled>>

\* What was saved cannot be read: the daemon starts without a previous result.
StartBlind == /\ pc = "off"
              /\ disk # None
              /\ failures < MaxFailures
              /\ failures' = failures + 1
              /\ previous' = None
              /\ running' = TRUE
              /\ result' = None
              /\ pc' = "loop"
              /\ known' = FALSE
              /\ UNCHANGED <<model, disk, tmp, announced, settled>>

Scan == /\ pc = "loop"
        /\ running
        /\ model \in Result
        /\ result' = model
        /\ pc' = "compare"
        /\ UNCHANGED <<model, disk, tmp, running, previous, failures, observers>>

ScanFails == /\ pc = "loop"
             /\ running
             /\ model \in Unscannable
             /\ pc' = "sleep"
             /\ UNCHANGED <<model, disk, tmp, memory, failures, observers>>

\* Mutant: the result is remembered before it is saved.
CompareRemembers ==
  /\ pc = "compare"
  /\ pc' = IF previous # None /\ Regression(previous, result)
           THEN "notify" ELSE "write"
  /\ previous' = result
  /\ UNCHANGED <<model, disk, tmp, running, result, failures, observers>>

Compare == /\ pc = "compare"
           /\ pc' = IF previous # None /\ Regression(previous, result)
                    THEN "notify" ELSE "write"
           /\ UNCHANGED <<model, disk, tmp, memory, failures, observers>>

\* Mutant: a regression is notified and not saved.
NotifyOnly == /\ pc = "notify"
              /\ pc' = "sleep"
              /\ announced' = announced \cup {result}
              /\ UNCHANGED <<model, disk, tmp, memory, failures, known, settled>>

\* Every channel is tried; those that fail are logged, and the loop goes on.
Notify == /\ pc = "notify"
          /\ pc' = "write"
          /\ announced' = announced \cup {result}
          /\ UNCHANGED <<model, disk, tmp, memory, failures, known, settled>>

\* Mutant: latest.json is written in place.
OpenInPlace == /\ pc = "write"
               /\ pc' = "writing"
               /\ disk' = "partial"
               /\ UNCHANGED <<model, tmp, memory, failures, observers>>

OpenTmp == /\ pc = "write"
           /\ pc' = "writing"
           /\ tmp' = "partial"
           /\ UNCHANGED <<model, disk, memory, failures, observers>>

WriteTmp == /\ pc = "writing"
            /\ pc' = "replace"
            /\ tmp' = result
            /\ UNCHANGED <<model, disk, memory, failures, observers>>

Replace == /\ pc = "replace"
           /\ pc' = "remember"
           /\ disk' = tmp
           /\ tmp' = None
           /\ known' = TRUE
           /\ announced' = {}
           /\ settled' = IF disk = None \/ ~known \/ result \in announced THEN result ELSE settled
           /\ UNCHANGED <<model, memory, failures>>

\* The directory, the temporary file or the replacement raises.
SaveFails == /\ pc \in {"write", "writing", "replace"}
             /\ failures < MaxFailures
             /\ failures' = failures + 1
             /\ pc' = "sleep"
             /\ UNCHANGED <<model, disk, tmp, memory, observers>>

Remember == /\ pc = "remember"
            /\ pc' = "sleep"
            /\ previous' = result
            /\ UNCHANGED <<model, disk, tmp, running, result, failures, observers>>

\* After the interval, or within a second of a stop.
Wake == /\ pc = "sleep"
        /\ pc' = "loop"
        /\ UNCHANGED <<model, disk, tmp, memory, failures, observers>>

\* Of the process nothing is left but its files.
Gone == /\ pc' = "off"
        /\ running' = FALSE
        /\ previous' = None
        /\ result' = None

Exit == /\ pc = "loop"
        /\ ~running
        /\ Gone
        /\ UNCHANGED <<model, disk, tmp, failures, observers>>

\* SIGINT or SIGTERM, in any state of the process.
HandleSignal == /\ pc # "off"
                /\ running
                /\ running' = FALSE
                /\ UNCHANGED <<model, disk, tmp, pc, previous, result, failures, observers>>

Crash == /\ pc # "off"
         /\ Gone
         /\ UNCHANGED <<model, disk, tmp, failures, observers>>

EditModel(m) == /\ model # m
                /\ model' = m
                /\ UNCHANGED <<disk, tmp, pc, memory, failures, observers>>

\* What the process does of its own accord.
Step == \/ Scan \/ ScanFails \/ Compare \/ Notify \/ OpenTmp \/ WriteTmp
        \/ Replace \/ SaveFails \/ Remember \/ Wake \/ Exit

Next == \/ Start \/ StartBlind \/ Step \/ HandleSignal \/ Crash
        \/ \E m \in Result \cup Unscannable : EditModel(m)

Spec == Init /\ [][Next]_vars

\* A process that is not killed goes on; nothing says that one is started.
FairSpec == Spec /\ WF_vars(Step)

-----------------------------------------------------------------------------

\* What a monitor of regressions promises, of the file and what was notified.
Watch == INSTANCE RegressionWatch WITH baseline <- disk

(***************************************************************************)
(* Whatever crashes, fails or is edited, the saved result is replaced by   *)
(* one that is worse only after a notification of that one, unless the     *)
(* process could not read what was saved (daemon.py:68-78).                *)
(***************************************************************************)
ImplementsWatch == Watch!Spec

(***************************************************************************)
(* The baseline moves with every scan (daemon.py:76), and still the        *)
(* results saved one after the other without a notification never add up   *)
(* to a regression from the last one that was first, or notified           *)
(* (differ.py:104).                                                        *)
(***************************************************************************)
NoDrift == disk # None => settled # None /\ ~Regression(settled, disk)

(***************************************************************************)
(* Once the model file stays as it is and the process stays alive, its     *)
(* result is what is saved in the end, through every scan and save that    *)
(* failed before (daemon.py:77).                                           *)
(***************************************************************************)
CatchesUp == \A r \in Result :
               <>[](model = r /\ running) => <>[](disk = r)

=============================================================================
