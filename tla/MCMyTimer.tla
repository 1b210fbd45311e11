----------------------------- MODULE MCMyTimer -----------------------------
(***************************************************************************)
(* Instances of MyTimer for TLC.                                           *)
(***************************************************************************)
EXTENDS MyTimer, TLC

(* Two seconds of two units, without the first time: a borrow, a whole     *)
(* second, one that is shown after it, and the clock set back.             *)
TwoSeconds == {[sec |-> 1, nsec |-> 1], [sec |-> 2, nsec |-> 0], [sec |-> 2, nsec |-> 1]}

(* Every time of three seconds.                                            *)
ThreeSeconds == [sec : 1 .. 3, nsec : 0 .. NSEC - 1]

(* No process differs from another.                                        *)
ReadersAlike == Permutations(Reader)

============================================================================
