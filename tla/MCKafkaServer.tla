--------------------------- MODULE MCKafkaServer ---------------------------
(* Instances of KafkaServer for TLC.                                       *)
EXTENDS KafkaServer, TLC

BothModes == {EACH, BATCH}
EachOnly  == {EACH}
BatchOnly == {BATCH}

Symm == Permutations(Consumers) \cup Permutations(Tasks)
=============================================================================
