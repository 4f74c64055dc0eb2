---------------------------- MODULE MCSchedules ----------------------------
(* Small instance of Schedules: a rule that fires every minute and one that *)
(* fires in the second minute only.                                         *)
EXTENDS Schedules, TLC

MCFires == [c \in Crons |-> IF c = "minutely" THEN 1..MaxTime ELSE {2}]
Alike == Permutations(Users) \cup Permutations(Workers)
=============================================================================
