------------------------------ MODULE MCDaemon ------------------------------
(***************************************************************************)
(* A daemon over four results: three whose scores go down and that have no *)
(* critical findings, and one with the score of the first and a critical   *)
(* finding, which of the second is a regression and the other way round.   *)
(***************************************************************************)
EXTENDS Daemon

CONSTANTS clean, fair, poor, dbDown

MCResult == {clean, fair, poor, dbDown}

MCScore == [r \in MCResult |-> CASE r = poor -> 9150
                                 [] r = fair -> 9175
                                 [] OTHER -> 9200]

MCCritical == [r \in MCResult |-> IF r = dbDown THEN {"database"} ELSE {}]

=============================================================================
