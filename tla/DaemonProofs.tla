---------------------------- MODULE DaemonProofs ----------------------------
(***************************************************************************)
(* Proofs about the daemon, for every set of results, however they are     *)
(* scored, and any number of failures.                                     *)
(***************************************************************************)
EXTENDS Daemon, TLAPS

-----------------------------------------------------------------------------
(* The comparison of results. *)

(***************************************************************************)
(* Not being a regression is transitive: small steps that pass the         *)
(* comparison of differ.py one by one never add up to one that does not.   *)
(***************************************************************************)
LEMMA NoRegressionTransitive ==
  ASSUME NEW a \in Result, NEW b \in Result, NEW c \in Result,
         ~Regression(a, b), ~Regression(b, c)
  PROVE  ~Regression(a, c)
<1>1. Score[a] \in Int /\ Score[b] \in Int /\ Score[c] \in Int
  BY ResultAssumption
<1>2. ~(Score[b] < Score[a]) /\ ~(Score[c] < Score[b])
  BY DEF Regression
<1>3. Critical[b] \subseteq Critical[a] /\ Critical[c] \subseteq Critical[b]
  BY DEF Regression
<1>4. QED
  BY <1>1, <1>2, <1>3 DEF Regression

\* A result is no regression from itself.
LEMMA NoRegressionReflexive ==
  ASSUME NEW a \in Result
  PROVE  ~Regression(a, a)
<1>1. Score[a] \in Int
  BY ResultAssumption
<1>2. QED
  BY <1>1 DEF Regression

-----------------------------------------------------------------------------
(* The types. *)

(***************************************************************************)
(* Between a scan and the end of its turn there is a result, and what      *)
(* replaces latest.json is that result, written to its end.                *)
(***************************************************************************)
ResultKept == /\ pc \in Places \ {"off", "loop", "sleep"} => result \in Result
              /\ pc = "replace" => tmp = result

LEMMA InitTypes == Init => TypeOK /\ ResultKept
<1> SUFFICES ASSUME Init PROVE TypeOK /\ ResultKept
  OBVIOUS
<1>1. known \in BOOLEAN /\ running \in BOOLEAN
  BY DEF Init
<1>2. failures \in 0 .. MaxFailures
  BY FailuresAssumption DEF Init
<1>3. QED
  BY <1>1, <1>2 DEF Init, TypeOK, ResultKept, Places, Unscannable

LEMMA NextTypes ==
  TypeOK /\ ResultKept /\ [Next]_vars => TypeOK' /\ ResultKept'
<1> SUFFICES ASSUME TypeOK, ResultKept, [Next]_vars
             PROVE  TypeOK' /\ ResultKept'
  OBVIOUS
<1> USE FailuresAssumption, ResultAssumption
    DEF TypeOK, ResultKept, Places, memory, observers
<1>1. CASE Start
  <2>1. known' \in BOOLEAN /\ running' \in BOOLEAN
    BY <1>1 DEF Start
  <2>2. QED
    BY <1>1, <2>1 DEF Start
<1>2. CASE StartBlind
  <2>1. known' \in BOOLEAN /\ running' \in BOOLEAN
    BY <1>2 DEF StartBlind
  <2>2. QED
    BY <1>2, <2>1 DEF StartBlind
<1>3. CASE Scan
  BY <1>3 DEF Scan, Unscannable
<1>4. CASE ScanFails
  BY <1>4 DEF ScanFails
<1>5. CASE Compare
  BY <1>5 DEF Compare
<1>6. CASE Notify
  BY <1>6 DEF Notify
<1>7. CASE OpenTmp
  BY <1>7 DEF OpenTmp
<1>8. CASE WriteTmp
  BY <1>8 DEF WriteTmp
<1>9. CASE Replace
  BY <1>9 DEF Replace
<1>10. CASE SaveFails
  BY <1>10 DEF SaveFails
<1>11. CASE Remember
  BY <1>11 DEF Remember
<1>12. CASE Wake
  BY <1>12 DEF Wake
<1>13. CASE Exit
  BY <1>13 DEF Exit, Gone
<1>14. CASE HandleSignal
  BY <1>14 DEF HandleSignal
<1>15. CASE Crash
  BY <1>15 DEF Crash, Gone
<1>16. ASSUME NEW m \in Result \cup Unscannable, EditModel(m)
       PROVE  TypeOK' /\ ResultKept'
  BY <1>16 DEF EditModel
<1>17. CASE UNCHANGED vars
  BY <1>17 DEF vars
<1>18. QED
  BY <1>1, <1>2, <1>3, <1>4, <1>5, <1>6, <1>7, <1>8, <1>9, <1>10, <1>11, <1>12,
     <1>13, <1>14, <1>15, <1>16, <1>17 DEF Next, Step

-----------------------------------------------------------------------------
(* The comparison is made with what is on disk. *)

(***************************************************************************)
(* The previous result in memory is the one on disk, except between the    *)
(* replacement of the file and the assignment after it; a daemon that      *)
(* could not read the file has none.                                       *)
(***************************************************************************)
MemoryIsDisk ==
  /\ pc \notin {"off", "remember"} /\ known => previous = disk
  /\ pc \notin {"off", "remember"} /\ ~known => previous = None
  /\ pc = "remember" => known /\ disk = result

\* Beyond the comparison, a regression from what is on disk has been notified.
RegressionsAnnounced ==
  (/\ pc \in {"write", "writing", "replace"}
   /\ known /\ disk # None
   /\ Regression(disk, result))
  => result \in announced

Inv == TypeOK /\ ResultKept /\ MemoryIsDisk /\ RegressionsAnnounced /\ NoDrift

LEMMA InitInv == Init => Inv
<1> SUFFICES ASSUME Init PROVE Inv
  OBVIOUS
<1>1. TypeOK /\ ResultKept
  BY InitTypes
<1>2. MemoryIsDisk
  BY DEF Init, MemoryIsDisk
<1>3. RegressionsAnnounced
  BY DEF Init, RegressionsAnnounced
<1>4. NoDrift
  BY DEF Init, NoDrift
<1>5. QED
  BY <1>1, <1>2, <1>3, <1>4 DEF Inv

\* A step keeps the memory and the file in agreement.
LEMMA NextMemoryIsDisk ==
  TypeOK /\ ResultKept /\ MemoryIsDisk /\ [Next]_vars => MemoryIsDisk'
<1> SUFFICES ASSUME TypeOK, ResultKept, MemoryIsDisk, [Next]_vars
             PROVE  MemoryIsDisk'
  OBVIOUS
<1> USE DEF MemoryIsDisk, memory, observers
<1>1. CASE Start
  BY <1>1 DEF Start
<1>2. CASE StartBlind
  BY <1>2 DEF StartBlind
<1>3. CASE Scan
  BY <1>3 DEF Scan
<1>4. CASE ScanFails
  BY <1>4 DEF ScanFails
<1>5. CASE Compare
  BY <1>5 DEF Compare
<1>6. CASE Notify
  BY <1>6 DEF Notify
<1>7. CASE OpenTmp
  BY <1>7 DEF OpenTmp
<1>8. CASE WriteTmp
  BY <1>8 DEF WriteTmp
<1>9. CASE Replace
  BY <1>9 DEF Replace, ResultKept
<1>10. CASE SaveFails
  BY <1>10 DEF SaveFails
<1>11. CASE Remember
  BY <1>11 DEF Remember
<1>12. CASE Wake
  BY <1>12 DEF Wake
<1>13. CASE Exit
  BY <1>13 DEF Exit, Gone
<1>14. CASE HandleSignal
  BY <1>14 DEF HandleSignal
<1>15. CASE Crash
  BY <1>15 DEF Crash, Gone
<1>16. ASSUME NEW m \in Result \cup Unscannable, EditModel(m)
       PROVE  MemoryIsDisk'
  BY <1>16 DEF EditModel
<1>17. CASE UNCHANGED vars
  BY <1>17 DEF vars
<1>18. QED
  BY <1>1, <1>2, <1>3, <1>4, <1>5, <1>6, <1>7, <1>8, <1>9, <1>10, <1>11, <1>12,
     <1>13, <1>14, <1>15, <1>16, <1>17 DEF Next, Step

\* A step carries what was notified as far as the replacement of the file.
LEMMA NextRegressionsAnnounced ==
  Inv /\ [Next]_vars => RegressionsAnnounced'
<1> SUFFICES ASSUME Inv, [Next]_vars PROVE RegressionsAnnounced'
  OBVIOUS
<1> USE DEF RegressionsAnnounced, memory, observers
<1>1. CASE Start
  BY <1>1 DEF Start
<1>2. CASE StartBlind
  BY <1>2 DEF StartBlind
<1>3. CASE Scan
  BY <1>3 DEF Scan
<1>4. CASE ScanFails
  BY <1>4 DEF ScanFails
<1>5. CASE Compare
  BY <1>5 DEF Compare, Inv, MemoryIsDisk, TypeOK
<1>6. CASE Notify
  BY <1>6 DEF Notify
<1>7. CASE OpenTmp
  BY <1>7 DEF OpenTmp, Inv
<1>8. CASE WriteTmp
  BY <1>8 DEF WriteTmp, Inv
<1>9. CASE Replace
  BY <1>9 DEF Replace
<1>10. CASE SaveFails
  BY <1>10 DEF SaveFails
<1>11. CASE Remember
  BY <1>11 DEF Remember
<1>12. CASE Wake
  BY <1>12 DEF Wake
<1>13. CASE Exit
  BY <1>13 DEF Exit, Gone
<1>14. CASE HandleSignal
  BY <1>14 DEF HandleSignal, Inv
<1>15. CASE Crash
  BY <1>15 DEF Crash, Gone
<1>16. ASSUME NEW m \in Result \cup Unscannable, EditModel(m)
       PROVE  RegressionsAnnounced'
  BY <1>16 DEF EditModel, Inv
<1>17. CASE UNCHANGED vars
  BY <1>17 DEF vars, Inv
<1>18. QED
  BY <1>1, <1>2, <1>3, <1>4, <1>5, <1>6, <1>7, <1>8, <1>9, <1>10, <1>11, <1>12,
     <1>13, <1>14, <1>15, <1>16, <1>17 DEF Next, Step

-----------------------------------------------------------------------------
(* The implementation. *)

\* The initial states are those of a monitor that has not saved anything.
LEMMA InitWatch == Init => Watch!Init
BY DEF Init, Watch!Init

(***************************************************************************)
(* Only the replacement of latest.json moves the baseline, and it has the  *)
(* leave of the monitor.                                                   *)
(***************************************************************************)
LEMMA ReplaceSaves == Inv /\ Replace => Watch!Save(result)
<1> SUFFICES ASSUME Inv, Replace PROVE Watch!Save(result)
  OBVIOUS
<1>1. pc = "replace"
  BY DEF Replace
<1>2. tmp = result
  BY <1>1 DEF Inv, ResultKept
<1>3. known /\ disk # None /\ Regression(disk, result) => result \in announced
  BY <1>1 DEF Inv, RegressionsAnnounced
<1>4. QED
  BY <1>2, <1>3 DEF Replace, Watch!Save, Watch!Regression, Regression

LEMMA NextWatch == Inv /\ [Next]_vars => [Watch!Next]_(Watch!vars)
<1> SUFFICES ASSUME Inv, [Next]_vars PROVE [Watch!Next]_(Watch!vars)
  OBVIOUS
<1> USE DEF Watch!vars, memory, observers
<1>1. CASE Start
  <2>1. known' \in BOOLEAN
    BY <1>1 DEF Start
  <2>2. Watch!Restart
    BY <1>1, <2>1 DEF Start, Watch!Restart
  <2>3. QED
    BY <2>2 DEF Watch!Next
<1>2. CASE StartBlind
  <2>1. known' \in BOOLEAN
    BY <1>2 DEF StartBlind
  <2>2. Watch!Restart
    BY <1>2, <2>1 DEF StartBlind, Watch!Restart
  <2>3. QED
    BY <2>2 DEF Watch!Next
<1>3. CASE Scan
  BY <1>3 DEF Scan
<1>4. CASE ScanFails
  BY <1>4 DEF ScanFails
<1>5. CASE Compare
  BY <1>5 DEF Compare
<1>6. CASE Notify
  <2>1. result \in Result
    BY <1>6 DEF Notify, Inv, ResultKept, Places
  <2>2. Watch!Announce(result)
    BY <1>6 DEF Notify, Watch!Announce
  <2>3. QED
    BY <2>1, <2>2 DEF Watch!Next
<1>7. CASE OpenTmp
  BY <1>7 DEF OpenTmp
<1>8. CASE WriteTmp
  BY <1>8 DEF WriteTmp
<1>9. CASE Replace
  <2>1. result \in Result
    BY <1>9 DEF Replace, Inv, ResultKept, Places
  <2>2. QED
    BY <1>9, <2>1, ReplaceSaves DEF Watch!Next
<1>10. CASE SaveFails
  BY <1>10 DEF SaveFails
<1>11. CASE Remember
  BY <1>11 DEF Remember
<1>12. CASE Wake
  BY <1>12 DEF Wake
<1>13. CASE Exit
  BY <1>13 DEF Exit, Gone
<1>14. CASE HandleSignal
  BY <1>14 DEF HandleSignal
<1>15. CASE Crash
  BY <1>15 DEF Crash, Gone
<1>16. ASSUME NEW m \in Result \cup Unscannable, EditModel(m)
       PROVE  [Watch!Next]_(Watch!vars)
  BY <1>16 DEF EditModel
<1>17. CASE UNCHANGED vars
  BY <1>17 DEF vars
<1>18. QED
  BY <1>1, <1>2, <1>3, <1>4, <1>5, <1>6, <1>7, <1>8, <1>9, <1>10, <1>11, <1>12,
     <1>13, <1>14, <1>15, <1>16, <1>17 DEF Next, Step

-----------------------------------------------------------------------------
(* No drift. *)

(***************************************************************************)
(* A result that replaces the file without being notified is no regression *)
(* from the one in it, nor, then, from the last one settled upon.          *)
(***************************************************************************)
LEMMA NextNoDrift == Inv /\ [Next]_vars => NoDrift'
<1> SUFFICES ASSUME Inv, [Next]_vars PROVE NoDrift'
  OBVIOUS
<1>1. CASE Replace
  <2>1. /\ disk' = result /\ result \in Result
        /\ settled' = IF disk = None \/ ~known \/ result \in announced
                      THEN result ELSE settled
    BY <1>1 DEF Replace, Inv, ResultKept, Places
  <2>2. CASE disk = None \/ ~known \/ result \in announced
    BY <2>1, <2>2, NoRegressionReflexive, ResultAssumption DEF NoDrift
  <2>3. CASE disk # None /\ known /\ result \notin announced
    <3>1. disk \in Result /\ settled \in Result /\ settled # None
      BY <2>3 DEF Inv, TypeOK, NoDrift
    <3>2. ~Regression(settled, disk)
      BY <2>3 DEF Inv, NoDrift
    <3>3. ~Regression(disk, result)
      BY <1>1, <2>3 DEF Inv, RegressionsAnnounced, Replace
    <3>4. ~Regression(settled, result)
      BY <2>1, <3>1, <3>2, <3>3, NoRegressionTransitive
    <3>5. settled' = settled
      BY <2>1, <2>3
    <3>6. QED
      BY <2>1, <3>1, <3>4, <3>5 DEF NoDrift
  <2>4. QED
    BY <2>2, <2>3
<1>2. CASE ~Replace
  <2>1. disk' = disk /\ settled' = settled
    BY <1>2 DEF Next, Step, vars, memory, observers, Start, StartBlind, Scan,
       ScanFails, Compare, Notify, OpenTmp, WriteTmp, SaveFails, Remember, Wake,
       Exit, HandleSignal, Crash, EditModel
  <2>2. QED
    BY <2>1 DEF Inv, NoDrift
<1>3. QED
  BY <1>1, <1>2

LEMMA NextInv == Inv /\ [Next]_vars => Inv'
<1> SUFFICES ASSUME Inv, [Next]_vars PROVE Inv'
  OBVIOUS
<1>1. TypeOK' /\ ResultKept'
  BY NextTypes DEF Inv
<1>2. MemoryIsDisk'
  BY NextMemoryIsDisk DEF Inv
<1>3. RegressionsAnnounced'
  BY NextRegressionsAnnounced
<1>4. NoDrift'
  BY NextNoDrift
<1>5. QED
  BY <1>1, <1>2, <1>3, <1>4 DEF Inv

-----------------------------------------------------------------------------

LEMMA AlwaysInv == Spec => []Inv
<1>1. Init => Inv
  BY InitInv
<1>2. Inv /\ [Next]_vars => Inv'
  BY NextInv
<1>3. QED
  BY <1>1, <1>2, PTL DEF Spec

(***************************************************************************)
(* Every variable of the daemon keeps its type: latest.json above all,     *)
(* which is never half-written (_save_result).                             *)
(***************************************************************************)
THEOREM TypeCorrect == Spec => []TypeOK
<1>1. Inv => TypeOK
  BY DEF Inv
<1>2. QED
  BY <1>1, AlwaysInv, PTL

(***************************************************************************)
(* The results saved without a notification never add up to a regression.  *)
(***************************************************************************)
THEOREM AlwaysNoDrift == Spec => []NoDrift
<1>1. Inv => NoDrift
  BY DEF Inv
<1>2. QED
  BY <1>1, AlwaysInv, PTL

(***************************************************************************)
(* The daemon, with its crashes and failures, is a monitor of regressions. *)
(***************************************************************************)
THEOREM Implementation == Spec => ImplementsWatch
<1>1. Init => Watch!Init
  BY InitWatch
<1>2. Inv /\ [Next]_vars => [Watch!Next]_(Watch!vars)
  BY NextWatch
<1>3. QED
  BY <1>1, <1>2, AlwaysInv, PTL DEF Spec, ImplementsWatch, Watch!Spec

=============================================================================
