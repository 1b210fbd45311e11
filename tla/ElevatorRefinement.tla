------------------------- MODULE ElevatorRefinement -------------------------
(***************************************************************************)
(* Elevator implements ElevatorService.  The code never changes the type   *)
(* of a passenger: elevator.status = 1 stands for everybody aboard being a *)
(* zombie.  A passenger's address and start floor are of no interest to    *)
(* the service.                                                            *)
(***************************************************************************)
EXTENDS Elevator

Person(p, infected) ==
    [type |-> IF infected = 1 THEN ZOMBIE ELSE p.type,
     destination_floor |-> p.destination_floor]

People(list, infected) == [i \in DOMAIN list |-> Person(list[i], infected)]

Queue == [f \in Floor |-> People(waiting_list[f], 0)]
Aboard == People(onboard, status)

Service == INSTANCE ElevatorService WITH
    Human <- HUMAN, Zombie <- ZOMBIE, Stoppable <- "stop" \in Calls,
    floor <- current_floor, queue <- Queue, aboard <- Aboard, served <- serviced

(* The scheduler and the system calls give the service that passengers are *)
(* promised: every step of scheduler(), issue_request, start_elevator and  *)
(* stop_elevator is a step of the service or invisible to it, although     *)
(* status is set and reset at other times than the lists change.           *)
ImplementsService == Service!ServiceSpec

=============================================================================
