-------------------------- MODULE MCElevatorModule --------------------------
(***************************************************************************)
(* Instances of ElevatorModule for TLC.                                    *)
(***************************************************************************)
EXTENDS ElevatorModule

(* One human and one zombie, in opposite directions.                       *)
TwoRequests ==
    {[start_floor |-> 1, destination_floor |-> 2, type |-> HUMAN],
     [start_floor |-> 2, destination_floor |-> 1, type |-> ZOMBIE]}

=============================================================================
