--------------------------- MODULE KafkaConsumer ----------------------------
(* kafka/consumer.go and dispatcher.go: the members of one consumer group    *)
(* take the messages of one partition. A session hands out the messages in   *)
(* order, each to a goroutine of its own, which dispatches it and then marks *)
(* it or resets the offset. Sarama's side of a session is external.          *)
EXTENDS Naturals, FiniteSets

CONSTANTS Member, NoMember,
          Last,         \* the offsets of the partition are 1 .. Last
          MaxSessions, MaxFaults

VARIABLES owner,        \* member that has the partition's session
          session,      \* number of the latest session
          position,     \* next offset the session hands out
          marked,       \* next offset by the session's offset manager
          committed,    \* next offset by the broker
          flight,       \* goroutines of handleMessage
          ends,         \* history: how the dispatches of an offset ended
          loop,         \* state of handleGroup of each member
          faults        \* errors, panics and crashes so far

vars == <<owner, session, position, marked, committed, flight, ends, loop, faults>>

Offset == 1 .. Last

Goroutine == [offset : Offset, session : 1 .. MaxSessions, member : Member,
              result : {"none", "nil", "error"}]

\* Every state variable has a value of its type.
TypeOK ==
    /\ owner \in Member \cup {NoMember}
    /\ session \in 0 .. MaxSessions
    /\ position \in 1 .. Last + 1 /\ marked \in 1 .. Last + 1 /\ committed \in 1 .. Last + 1
    /\ flight \subseteq Goroutine
    /\ ends \in [Offset -> SUBSET {"nil", "error", "crash"}]
    /\ loop \in [Member -> {"consuming", "closed", "returned"}]
    /\ faults \in 0 .. MaxFaults

Init ==
    /\ owner = NoMember /\ session = 0
    /\ position = 1 /\ marked = 1 /\ committed = 1
    /\ flight = {}
    /\ ends = [m \in Offset |-> {}]
    /\ loop = [c \in Member |-> "consuming"]
    /\ faults = 0

-----------------------------------------------------------------------------
(* Sessions. Consume of a member whose loop goes on joins the group; a       *)
(* session starts at the committed offset.                                   *)

Consume(c) ==
    /\ loop[c] = "consuming" /\ owner = NoMember /\ session < MaxSessions
    /\ owner' = c
    /\ session' = session + 1
    /\ position' = committed /\ marked' = committed
    /\ UNCHANGED <<committed, flight, ends, loop, faults>>

\* ConsumeClaim does not wait for the dispatch.
ConsumeClaim ==
    /\ owner # NoMember /\ position <= Last
    /\ flight' = flight \cup {[offset |-> position, session |-> session, member |-> owner,
                               result |-> "none"]}
    /\ position' = position + 1
    /\ UNCHANGED <<owner, session, marked, committed, ends, loop, faults>>

\* The offset manager commits from time to time, and when a session ends.
Commit ==
    /\ owner # NoMember /\ committed # marked
    /\ committed' = marked
    /\ UNCHANGED <<owner, session, position, marked, flight, ends, loop, faults>>

\* Sarama waits for ConsumeClaim, which waits for nothing.
Rebalance ==
    /\ owner # NoMember
    /\ owner' = NoMember
    /\ committed' = marked
    /\ UNCHANGED <<session, position, marked, flight, ends, loop, faults>>

Close(c) ==
    /\ loop[c] = "consuming"
    /\ loop' = [loop EXCEPT ![c] = "closed"]
    /\ owner' = IF owner = c THEN NoMember ELSE owner
    /\ committed' = IF owner = c THEN marked ELSE committed
    /\ UNCHANGED <<session, position, marked, flight, ends, faults>>

\* Consume of a closed group reports it and handleGroup returns.
HandleGroup(c) ==
    /\ loop[c] = "closed"
    /\ loop' = [loop EXCEPT ![c] = "returned"]
    /\ UNCHANGED <<owner, session, position, marked, committed, flight, ends, faults>>

\* A member's process dies and comes back; its marks are lost.
Crash(c) ==
    /\ loop[c] = "consuming" /\ faults < MaxFaults
    /\ LET mine == {g \in flight : g.member = c} IN
         /\ flight' = flight \ mine
         /\ ends' = [m \in Offset |-> ends[m] \cup {"crash" : g \in {h \in mine : h.offset = m}}]
    /\ owner' = IF owner = c THEN NoMember ELSE owner
    /\ faults' = faults + 1
    /\ UNCHANGED <<session, position, marked, committed, loop>>

-----------------------------------------------------------------------------
(* The goroutine of one message. Dispatch works on nothing shared, so it is  *)
(* the set of what it may return.                                            *)

\* A dispatch is at the interceptors, at the handlers, leaving through
\* finalizeDispatch or over, has an error or not, and may be in a panic, whose value
\* is an error or a string ("told") or something else. A called function may do
\* nothing to it, bring up an error, or panic.
Called(d, then, fails) ==
    {[d EXCEPT !.at = then], [d EXCEPT !.at = fails, !.err = TRUE]}
      \cup {[d EXCEPT !.at = fails, !.panic = p] : p \in {"told", "other"}}

\* An interceptor that fails ends the dispatch before finalizeDispatch is deferred.
Intercept(d) == IF d.at = "intercept" THEN Called(d, "handle", "over") ELSE {d}

\* The next handler: the filter rejects the message, or the handler and the
\* interceptors around it report nil, an error or a panic.
Handle(d) == IF d.at = "handle" THEN Called(d, "handle", "finalize") ELSE {d}

\* A finalizer may drop an error or bring one up; during a panic it sees nil.
Finalize(d) ==
    IF d.at = "over" THEN {d} ELSE {[d EXCEPT !.at = "over"], [d EXCEPT !.at = "over", !.err = ~@]}

\* Only a panic with an error or a string becomes an error of Dispatch.
Recover(d) == IF d.err \/ d.panic = "told" THEN "error" ELSE "nil"

\* Two handlers stand for any number of them.
Dispatches ==
    LET entered == Intercept([at |-> "intercept", err |-> FALSE, panic |-> "none"])
        handled == UNION {Handle(d) : d \in UNION {Handle(c) : c \in entered}}
    IN  UNION {Finalize(d) : d \in handled}

Dispatch(g) ==
    /\ g.result = "none"
    /\ \E d \in Dispatches :
         /\ flight' = (flight \ {g}) \cup {[g EXCEPT !.result = Recover(d)]}
         /\ faults' = IF Recover(d) = "nil" THEN faults ELSE faults + 1
    /\ faults' <= MaxFaults
    /\ UNCHANGED <<owner, session, position, marked, committed, ends, loop>>

\* Mutant: the offset after the next one is marked.
MarkMessagePast(m) == IF m + 2 > marked THEN m + 2 ELSE marked

\* Offset manager: a mark only raises the next offset, a reset only lowers it.
MarkMessage(m) == IF m + 1 > marked THEN m + 1 ELSE marked

\* Mutant: the reset is written like the mark.
ResetOffsetUp(m) == IF m >= marked THEN m ELSE marked

ResetOffset(m) == IF m <= marked THEN m ELSE marked

\* handleMessage after Dispatch. Marks on a session that has ended are lost.
HandleMessage(g) ==
    /\ g.result # "none"
    /\ marked' = IF g.session # session \/ owner = NoMember THEN marked
                 ELSE IF g.result = "error" THEN ResetOffset(g.offset)
                 ELSE MarkMessage(g.offset)
    /\ ends' = [ends EXCEPT ![g.offset] = @ \cup {g.result}]
    /\ flight' = flight \ {g}
    /\ UNCHANGED <<owner, session, position, committed, loop, faults>>

Next ==
    \/ ConsumeClaim \/ Commit \/ Rebalance
    \/ \E c \in Member : Consume(c) \/ Close(c) \/ HandleGroup(c) \/ Crash(c)
    \/ \E g \in flight : Dispatch(g) \/ HandleMessage(g)

Spec == Init /\ [][Next]_vars

-----------------------------------------------------------------------------
\* No message is passed over: every message below the committed offset has been
\* given to a goroutine of handleMessage, whatever sessions, crashes and resets
\* came between.
NothingSkipped ==
    \A m \in Offset : m < committed => ends[m] # {} \/ \E g \in flight : g.offset = m

\* A message that failed, or was cut short by a crash, is kept for the next session:
\* as long as neither it nor a later message was handled, the broker's offset does
\* not move past it. (Once a later message is handled, its mark overtakes the reset
\* and the failed message is not read again.)
FailureHoldsOffset ==
    \A m \in Offset : (\A k \in m .. Last : "nil" \notin ends[k]) => committed <= m
=============================================================================
