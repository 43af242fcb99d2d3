---------------------------- MODULE MCCommitment ----------------------------
(* Small instances of Commitment.  Tasks 1 and 2 are of a registered kind; *)
(* 3 and 4, where an instance has them, are of the serialized fixture kind *)
(* and aim at one target.                                                  *)
EXTENDS Commitment, TLC

CONSTANTS b1, k, pA, pB

OneTask == {1}
TwoTasks == {1, 2}
TargetTasks == {1, 3, 4}

OwnPayloads == [t \in Tasks |-> IF t = 1 THEN pA ELSE pB]
OnePayload == [t \in Tasks |-> IF t <= 2 THEN pA ELSE pB]

FixtureKeys == [t \in Tasks |-> IF t <= 2 THEN None ELSE k]
OneBrand == [t \in Tasks |-> b1]

NoDeadline == [t \in Tasks |-> None]
Deadline == [t \in Tasks |-> 2]
=============================================================================
