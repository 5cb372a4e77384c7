------------------------ MODULE KafkaConsumerProofs -------------------------
(* For every number of members, sessions, messages and faults: no message is *)
(* passed over, and nothing but a success moves the broker's offset.         *)
EXTENDS KafkaConsumer, TLAPS

\* The bounds of the model are numbers.
Bounds == Last \in Nat /\ MaxSessions \in Nat /\ MaxFaults \in Nat

Covered(m) == ends[m] # {} \/ \E g \in flight : g.offset = m

\* What the session has handed out or the broker has behind it is covered, and the
\* marks stay within what the session has handed out.
HandedOut ==
    /\ \A m \in Offset : m < position \/ m < committed => Covered(m)
    /\ marked <= position
    /\ owner # NoMember => session >= 1
    /\ \A g \in flight : g.session <= session /\ (g.session = session => g.offset < position)

\* Without a success at an offset or later neither the marks nor the broker's
\* offset move past it.
OnlySuccess ==
    \A m \in Offset : (\A k \in m .. Last : "nil" \notin ends[k]) => marked <= m /\ committed <= m

ConsumerInv == TypeOK /\ HandedOut /\ OnlySuccess

LEMMA InitInv == Bounds /\ Init => ConsumerInv
BY DEF Bounds, Init, ConsumerInv, TypeOK, HandedOut, OnlySuccess, Offset

-----------------------------------------------------------------------------
\* A dispatch returns nil or an error.
LEMMA RecoverType == ASSUME NEW d PROVE Recover(d) \in {"nil", "error"}
BY DEF Recover

\* Dispatch touches one goroutine, and nothing of it but the result.
LEMMA DispatchStep ==
  ASSUME ConsumerInv, Bounds, NEW g \in flight, Dispatch(g)
  PROVE  ConsumerInv'
<1>1. PICK d \in Dispatches :
        /\ flight' = (flight \ {g}) \cup {[g EXCEPT !.result = Recover(d)]}
        /\ faults' = IF Recover(d) = "nil" THEN faults ELSE faults + 1
  BY DEF Dispatch
<1> DEFINE h == [g EXCEPT !.result = Recover(d)]
<1>2. g \in Goroutine
  BY DEF ConsumerInv, TypeOK
<1>3. h \in Goroutine /\ h.offset = g.offset /\ h.session = g.session
  BY <1>2, RecoverType DEF Goroutine
<1>4. UNCHANGED <<owner, session, position, marked, committed, ends, loop>> /\ faults' <= MaxFaults
  BY DEF Dispatch
<1> HIDE DEF h
<1>5. flight' = (flight \ {g}) \cup {h}
  BY <1>1 DEF h
<1>6. faults' \in 0 .. MaxFaults
  BY <1>1, <1>4 DEF ConsumerInv, TypeOK, Bounds
<1>7. TypeOK'
  BY <1>3, <1>4, <1>5, <1>6 DEF ConsumerInv, TypeOK
<1>8. \A m : Covered(m) => Covered(m)'
  BY <1>3, <1>4, <1>5 DEF Covered
<1>9. HandedOut'
  BY <1>3, <1>4, <1>5, <1>8 DEF ConsumerInv, HandedOut
<1>10. OnlySuccess'
  BY <1>4 DEF ConsumerInv, OnlySuccess
<1> QED BY <1>7, <1>9, <1>10 DEF ConsumerInv

\* A goroutine of the session marks or resets within what was handed out, and only
\* a success raises the mark.
LEMMA HandleMessageStep ==
  ASSUME ConsumerInv, Bounds, NEW g \in flight, HandleMessage(g)
  PROVE  ConsumerInv'
<1>1. g \in Goroutine /\ g.offset \in Offset /\ g.result \in {"nil", "error"}
  BY DEF ConsumerInv, TypeOK, Goroutine, HandleMessage
<1>2. UNCHANGED <<owner, session, position, committed, loop, faults>> /\ flight' = flight \ {g}
  BY DEF HandleMessage
<1>3. ends' = [ends EXCEPT ![g.offset] = @ \cup {g.result}]
  BY DEF HandleMessage
<1>4. ends' \in [Offset -> SUBSET {"nil", "error", "crash"}]
  BY <1>1, <1>3 DEF ConsumerInv, TypeOK
<1>5. \A m \in Offset : ends[m] \subseteq ends'[m]
  BY <1>1, <1>3 DEF ConsumerInv, TypeOK
<1>6. g.result \in ends'[g.offset]
  BY <1>1, <1>3 DEF ConsumerInv, TypeOK
<1>7. /\ marked' \in 1 .. Last + 1
      /\ marked' <= marked \/ (g.result = "nil" /\ marked' = g.offset + 1 /\ g.session = session)
  BY <1>1 DEF ConsumerInv, TypeOK, HandleMessage, ResetOffset, MarkMessage, Bounds, Offset
<1>8. TypeOK'
  BY <1>2, <1>4, <1>7 DEF ConsumerInv, TypeOK
<1>9. \A m \in Offset : Covered(m) => Covered(m)'
  BY <1>2, <1>5, <1>6 DEF Covered
<1>10. marked' <= position
  BY <1>1, <1>7 DEF ConsumerInv, HandedOut, TypeOK, Bounds, Offset
<1>11. HandedOut'
  BY <1>2, <1>9, <1>10 DEF ConsumerInv, HandedOut
<1>12. ASSUME NEW m \in Offset, \A k \in m .. Last : "nil" \notin ends'[k]
       PROVE  marked' <= m /\ committed' <= m
  <2>1. marked <= m /\ committed <= m
    BY <1>5, <1>12 DEF ConsumerInv, OnlySuccess, Offset
  <2>2. g.result = "nil" => g.offset < m
    BY <1>1, <1>6, <1>12 DEF Offset, Bounds
  <2> QED BY <1>1, <1>2, <1>7, <2>1, <2>2 DEF Offset, ConsumerInv, TypeOK, Bounds
<1>13. OnlySuccess'
  BY <1>12 DEF OnlySuccess
<1> QED BY <1>8, <1>11, <1>13 DEF ConsumerInv

\* The messages of a crashed process count as given to a goroutine.
LEMMA CrashStep ==
  ASSUME ConsumerInv, Bounds, NEW c \in Member, Crash(c)
  PROVE  ConsumerInv'
<1> DEFINE mine == {g \in flight : g.member = c}
           lost(m) == {"crash" : g \in {h \in mine : h.offset = m}}
<1>1. UNCHANGED <<session, position, marked, committed, loop>> /\ flight' = flight \ mine
  BY DEF Crash
<1>2. ends' = [m \in Offset |-> ends[m] \cup lost(m)]
  BY DEF Crash
<1>3. owner' \in {owner, NoMember} /\ faults' \in 0 .. MaxFaults
  BY DEF Crash, ConsumerInv, TypeOK, Bounds
<1>4. \A m \in Offset : lost(m) \subseteq {"crash"}
  OBVIOUS
<1>5. \A m \in Offset : (\E g \in mine : g.offset = m) => "crash" \in lost(m)
  OBVIOUS
<1> HIDE DEF lost
<1>6. \A m \in Offset : ends'[m] = ends[m] \cup lost(m)
  BY <1>2
<1>7. TypeOK'
  BY <1>1, <1>2, <1>3, <1>4 DEF ConsumerInv, TypeOK
<1>8. \A m \in Offset : Covered(m) => Covered(m)'
  BY <1>1, <1>5, <1>6 DEF Covered
<1>9. HandedOut'
  BY <1>1, <1>3, <1>8 DEF ConsumerInv, HandedOut
<1>10. \A m \in Offset : "nil" \in ends[m] => "nil" \in ends'[m]
  BY <1>6
<1>11. OnlySuccess'
  BY <1>1, <1>10 DEF ConsumerInv, OnlySuccess, Offset
<1> QED BY <1>7, <1>9, <1>11 DEF ConsumerInv

\* The session hands out the next message.
LEMMA ConsumeClaimStep == ConsumerInv /\ Bounds /\ ConsumeClaim => ConsumerInv'
<1> SUFFICES ASSUME ConsumerInv, Bounds, ConsumeClaim PROVE ConsumerInv'
  OBVIOUS
<1> DEFINE g == [offset |-> position, session |-> session, member |-> owner, result |-> "none"]
<1>1. /\ flight' = flight \cup {g} /\ position' = position + 1 /\ owner # NoMember /\ position <= Last
      /\ UNCHANGED <<owner, session, marked, committed, ends, loop, faults>>
  BY DEF ConsumeClaim
<1>2. g \in Goroutine /\ g.offset = position /\ g.session = session
  BY <1>1 DEF ConsumerInv, TypeOK, HandedOut, Goroutine, Offset, Bounds
<1> HIDE DEF g
<1>3. TypeOK'
  BY <1>1, <1>2 DEF ConsumerInv, TypeOK, Bounds
<1>4. \A m \in Offset : Covered(m) \/ m = position => Covered(m)'
  BY <1>1, <1>2 DEF Covered
<1>5. HandedOut'
  BY <1>1, <1>2, <1>4 DEF ConsumerInv, HandedOut, TypeOK, Goroutine, Offset, Bounds
<1>6. OnlySuccess'
  BY <1>1 DEF ConsumerInv, OnlySuccess
<1> QED BY <1>3, <1>5, <1>6 DEF ConsumerInv

\* A session begins where the broker's offset is.
LEMMA ConsumeStep ==
  ASSUME ConsumerInv, Bounds, NEW c \in Member, Consume(c)
  PROVE  ConsumerInv'
<1>1. TypeOK'
  BY DEF Consume, ConsumerInv, TypeOK, Bounds
<1>2. \A m : Covered(m)' = Covered(m)
  BY DEF Consume, Covered
<1>3. HandedOut'
  BY <1>2 DEF Consume, ConsumerInv, HandedOut, TypeOK, Goroutine, Offset, Bounds
<1>4. OnlySuccess'
  BY DEF Consume, ConsumerInv, OnlySuccess
<1> QED BY <1>1, <1>3, <1>4 DEF ConsumerInv

\* Whatever else happens to a session at most commits what is marked.
LEMMA CommitStep ==
  ASSUME ConsumerInv, Bounds, committed' \in {committed, marked}, owner' \in {owner, NoMember},
         loop' \in [Member -> {"consuming", "closed", "returned"}],
         UNCHANGED <<session, position, marked, flight, ends, faults>>
  PROVE  ConsumerInv'
<1>1. TypeOK'
  BY DEF ConsumerInv, TypeOK
<1>2. \A m : Covered(m)' = Covered(m)
  BY DEF Covered
<1>3. HandedOut'
  BY <1>2 DEF ConsumerInv, HandedOut, TypeOK, Offset, Bounds
<1>4. OnlySuccess'
  BY DEF ConsumerInv, OnlySuccess
<1> QED BY <1>1, <1>3, <1>4 DEF ConsumerInv

LEMMA NextStep == Bounds /\ ConsumerInv /\ [Next]_vars => ConsumerInv'
<1> SUFFICES ASSUME Bounds, ConsumerInv, [Next]_vars PROVE ConsumerInv'
  OBVIOUS
<1>1. CASE ConsumeClaim
  BY <1>1, ConsumeClaimStep
<1>2. CASE Commit \/ Rebalance
  BY <1>2, CommitStep DEF Commit, Rebalance, ConsumerInv, TypeOK
<1>3. ASSUME NEW c \in Member, Consume(c) PROVE ConsumerInv'
  BY <1>3, ConsumeStep
<1>4. ASSUME NEW c \in Member, Close(c) \/ HandleGroup(c) PROVE ConsumerInv'
  BY <1>4, CommitStep DEF Close, HandleGroup, ConsumerInv, TypeOK
<1>5. ASSUME NEW c \in Member, Crash(c) PROVE ConsumerInv'
  BY <1>5, CrashStep
<1>6. ASSUME NEW g \in flight, Dispatch(g) PROVE ConsumerInv'
  BY <1>6, DispatchStep
<1>7. ASSUME NEW g \in flight, HandleMessage(g) PROVE ConsumerInv'
  BY <1>7, HandleMessageStep
<1>8. CASE UNCHANGED vars
  BY <1>8, CommitStep DEF vars, ConsumerInv, TypeOK
<1> QED BY <1>1, <1>2, <1>3, <1>4, <1>5, <1>6, <1>7, <1>8 DEF Next

\* The inductive invariant of consumer.go's group of members.
THEOREM ConsumerInvariant == Bounds => (Spec => []ConsumerInv)
<1> SUFFICES ASSUME Bounds PROVE Spec => []ConsumerInv
  OBVIOUS
<1>1. Init => ConsumerInv
  BY InitInv
<1>2. ConsumerInv /\ [Next]_vars => ConsumerInv'
  BY NextStep
<1> QED BY <1>1, <1>2, PTL DEF Spec

\* ConsumeClaim and handleMessage (kafka/consumer.go): every message below the
\* broker's offset was given to a goroutine, for any number of members, messages,
\* sessions and faults.
THEOREM NothingSkippedAlways == Bounds => (Spec => []NothingSkipped)
<1>1. ConsumerInv => NothingSkipped
  BY DEF ConsumerInv, HandedOut, Covered, NothingSkipped
<1> QED BY <1>1, ConsumerInvariant, PTL

\* handleMessage (kafka/consumer.go): only a success at an offset or later moves the
\* broker's offset past it, however marks and resets of the goroutines interleave.
THEOREM FailureHoldsOffsetAlways == Bounds => (Spec => []FailureHoldsOffset)
<1>1. ConsumerInv => FailureHoldsOffset
  BY DEF ConsumerInv, OnlySuccess, FailureHoldsOffset
<1> QED BY <1>1, ConsumerInvariant, PTL
=============================================================================
