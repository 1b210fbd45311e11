----------------------------- MODULE MCElevator -----------------------------
(***************************************************************************)
(* Instances of Elevator for TLC: the requests the processes issue.        *)
(***************************************************************************)
EXTENDS ElevatorRefinement, TLC

Req(from, to, kind) ==
    [start_floor |-> from, destination_floor |-> to, type |-> kind]

(* Three floors: both kinds of passenger on one floor, both directions, a  *)
(* request to stay on the floor, and arguments issue_request refuses.      *)
MixedRequests ==
    {Req(2, 1, HUMAN), Req(2, 3, ZOMBIE), Req(1, 2, HUMAN), Req(3, 3, ZOMBIE),
     Req(0, 1, HUMAN), Req(1, 4, HUMAN), Req(1, 2, 2)}

(* One human and one zombie on the lobby, for the runs about interleaving. *)
LobbyRequests == {Req(1, 2, HUMAN), Req(1, 2, ZOMBIE)}

LobbyZombie == {Req(1, 2, ZOMBIE)}

CallerSymmetry == Permutations(Caller)

=============================================================================
