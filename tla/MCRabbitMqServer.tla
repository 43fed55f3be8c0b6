-------------------------- MODULE MCRabbitMqServer --------------------------
(* Instances of RabbitMqServer for TLC.                                    *)
EXTENDS RabbitMqServer, TLC

CONSTANTS p1, p2, m1, m2

\* Two messages of one consumer; the other one only has a channel.
OneQueue  == [m \in {m1, m2} |-> p1]
NoLimit == -1
=============================================================================
