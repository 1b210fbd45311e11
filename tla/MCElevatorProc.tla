--------------------------- MODULE MCElevatorProc ---------------------------
(***************************************************************************)
(* Instances of ElevatorProc for TLC.                                      *)
(***************************************************************************)
EXTENDS ElevatorProc

(* Two passengers may wait on the lobby, one on the floor above.           *)
HumanRequests ==
    {[start_floor |-> 1, destination_floor |-> 2, type |-> HUMAN],
     [start_floor |-> 2, destination_floor |-> 1, type |-> HUMAN]}

(* No reader differs from another.                                         *)
ReadersAlike == Permutations(Reader)

=============================================================================
