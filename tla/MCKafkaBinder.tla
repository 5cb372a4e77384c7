--------------------------- MODULE MCKafkaBinder ----------------------------
(* A producer and a subscriber.                                            *)
EXTENDS KafkaBinder

CONSTANTS p1, s1, topic, subscription

MCKeyOf == [b \in Issued |-> IF b = s1 THEN subscription ELSE topic]
MCKindOf == [b \in Issued |-> IF b = s1 THEN "subscriber" ELSE "producer"]
=============================================================================
