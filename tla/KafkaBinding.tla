---------------------------- MODULE KafkaBinding ----------------------------
(* kafka/producer.go, subscriber.go, consumer.go: what Start and Close do to  *)
(* one binding. A binding's mutex is held for the whole call, so each is one  *)
(* step; its outcomes depend on the brokers.                                  *)

Kinds == {"producer", "subscriber", "group"}

\* client: the sarama client the binding's field refers to, "shut" once closed;
\* leaked: a client is open that no field refers to any more.
Binding == [client : {"none", "open", "shut"}, started : BOOLEAN, closed : BOOLEAN, leaked : BOOLEAN]

NewBinding == [client |-> "none", started |-> FALSE, closed |-> FALSE, leaked |-> FALSE]

Result(r, err) == [binding |-> r, err |-> err]

\* An assignment to the field that holds the client. (A subscriber whose start
\* fails after NewConsumer loses a client each time; this is not recorded.)
SetClient(kind, r, c) == [r EXCEPT !.client = c, !.leaked = @ \/ (kind # "subscriber" /\ r.client = "open")]

\* Mutant: the flag is asked for, which a producer does not set.
StartedFlag(kind, r) == r.started

\* The condition under which Start has nothing to do. A producer has no flag.
Active(kind, r) == IF kind = "producer" THEN r.client # "none" ELSE r.started

\* The first error of Start of a consumer leaves the field alone, one of
\* NewConsumer(Group) clears it; a subscriber may fail once more after that, with
\* an open client.
Failures(kind, r) ==
    {r} \cup (IF kind = "producer" THEN {} ELSE {SetClient(kind, r, "none")})
        \cup (IF kind = "subscriber" THEN {SetClient(kind, r, "open")} ELSE {})

Success(kind, r) == [SetClient(kind, r, "open") EXCEPT !.started = kind # "producer"]

\* What Start may do. A consumer asks the binder's own client for the topic
\* first, which fails once that is closed.
Start(kind, r, connected) ==
    IF r.closed THEN {Result(r, "closed")}
    ELSE IF Active(kind, r) THEN {Result(r, "nil")}
    ELSE IF kind # "producer" /\ ~connected THEN {Result(r, "error")}
    ELSE {Result(f, "error") : f \in Failures(kind, r)} \cup {Result(Success(kind, r), "nil")}

\* What Close may do. A producer that was not started is left as it is, and so is
\* one whose client reports an error; a consumer is closed in any case.
Close(kind, r) ==
    IF kind # "producer"
      THEN {[r EXCEPT !.client = IF @ = "open" THEN "shut" ELSE @, !.started = FALSE, !.closed = TRUE]}
    ELSE IF r.client = "none" THEN {r}
    ELSE {[r EXCEPT !.client = "none", !.closed = TRUE], [r EXCEPT !.client = "shut"]}
=============================================================================
