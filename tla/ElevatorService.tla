-------------------------- MODULE ElevatorService ---------------------------
(***************************************************************************)
(* What the elevator promises its passengers, without threads, mutex,      *)
(* flags, counters and delete lists.  Passengers come to a floor, board    *)
(* there and get off at their destination.  A zombie turns everybody       *)
(* aboard into zombies, and no human boards where a zombie is; among those *)
(* of a kind who wait on a floor, the first boards first.                  *)
(***************************************************************************)
EXTENDS Integers, Sequences, SequencesExt

CONSTANTS
    FLOORS,         \* the number of floors
    CAPACITY,       \* most passengers aboard at a time
    Human, Zombie,  \* the two kinds of passenger
    Stoppable       \* whether the elevator may be stopped

VARIABLES
    floor,          \* where the elevator is
    queue,          \* who waits on each floor, in order of arrival
    aboard,         \* who is aboard, as what they are by now
    served          \* how many were taken to their destination

serviceVars == <<floor, queue, aboard, served>>

Person == [type : {Human, Zombie}, destination_floor : 1 .. FLOORS]

Turned(people) == [i \in DOMAIN people |-> [people[i] EXCEPT !.type = Zombie]]

ServiceInit ==
    /\ floor = 1
    /\ queue = [f \in 1 .. FLOORS |-> <<>>]
    /\ aboard = <<>>
    /\ served = 0

Arrive(f, p) ==
    /\ queue' = [queue EXCEPT ![f] = Append(@, p)]
    /\ UNCHANGED <<floor, aboard, served>>

Board(i) ==
    LET p == queue[floor][i]
    IN  /\ Len(aboard) < CAPACITY
        /\ \A j \in 1 .. i - 1 : queue[floor][j].type # p.type
        /\ \/ p.type = Zombie /\ aboard' = Append(Turned(aboard), p)
           \/ /\ p.type = Human
              /\ \A j \in DOMAIN aboard : aboard[j].type = Human
              /\ aboard' = Append(aboard, p)
        /\ queue' = [queue EXCEPT ![floor] = RemoveAt(@, i)]
        /\ UNCHANGED <<floor, served>>

GetOff(i) ==
    /\ aboard[i].destination_floor = floor
    /\ aboard' = RemoveAt(aboard, i)
    /\ served' = served + 1
    /\ UNCHANGED <<floor, queue>>

Move ==
    /\ floor' \in {floor - 1, floor + 1} \intersect 1 .. FLOORS
    /\ UNCHANGED <<queue, aboard, served>>

(* Stopping puts everybody off wherever the elevator is.                   *)
PutOff ==
    /\ Stoppable
    /\ aboard' = <<>>
    /\ UNCHANGED <<floor, queue, served>>

(* An arrival always changes the queues: saying so first spares TLC the    *)
(* search for a floor and a person.                                        *)
ServiceNext ==
    \/ queue' # queue /\ \E f \in 1 .. FLOORS, p \in Person : Arrive(f, p)
    \/ \E i \in DOMAIN queue[floor] : Board(i)
    \/ \E i \in DOMAIN aboard : GetOff(i)
    \/ Move
    \/ PutOff

ServiceSpec == ServiceInit /\ [][ServiceNext]_serviceVars

=============================================================================
