------------------------- MODULE KafkaBinderProofs --------------------------
(* Whatever bindings there are, and however calls, the watchdog, scheduled    *)
(* starts and Shutdown interleave: a closed binding stays closed, and no      *)
(* producer or group consumer opens a second client.                          *)
EXTENDS KafkaBinder, TLAPS

\* What Start and Close keep of one binding: only consumers have the flag, the
\* client of a group consumer is open just while the flag is set, nothing is open
\* once it is closed, and nothing is lost.
Sound(kind, r) ==
    /\ r \in Binding
    /\ kind = "producer" => ~r.started
    /\ kind = "group" => (r.client = "open" => r.started)
    /\ r.closed => ~r.started /\ r.client # "open"
    /\ kind # "subscriber" => ~r.leaked

AllSound == /\ binding \in [Issued -> Binding]
            /\ \A b \in Issued : Sound(KindOf[b], binding[b])

\* A binding is sound when it is created.
LEMMA NewSound == ASSUME NEW kind \in Kinds PROVE Sound(kind, NewBinding)
BY DEF Sound, NewBinding, Binding

\* Every outcome of Start, with and without the binder's clients, is sound.
LEMMA StartSound ==
    ASSUME NEW kind \in Kinds, NEW r, Sound(kind, r), NEW connection \in BOOLEAN,
           NEW res \in Start(kind, r, connection)
    PROVE  Sound(kind, res.binding)
<1>1. CASE r.closed
  BY <1>1 DEF Start, Result
<1>2. CASE ~r.closed /\ Active(kind, r)
  BY <1>2 DEF Start, Result
<1>3. CASE ~r.closed /\ ~Active(kind, r)
  <2>1. \/ res.binding = r
        \/ kind # "producer" /\ res.binding = SetClient(kind, r, "none")
        \/ kind = "subscriber" /\ res.binding = SetClient(kind, r, "open")
        \/ res.binding = Success(kind, r)
    BY <1>3 DEF Start, Result, Failures
  <2>2. ASSUME NEW c \in {"none", "open"} 
        PROVE  /\ SetClient(kind, r, c) \in Binding
               /\ SetClient(kind, r, c).client = c
               /\ SetClient(kind, r, c).started = r.started
               /\ SetClient(kind, r, c).closed = r.closed
               /\ kind # "subscriber" => ~SetClient(kind, r, c).leaked
    BY <1>3 DEF SetClient, Sound, Binding, Active, Kinds
  <2>3. CASE kind # "producer" /\ res.binding = SetClient(kind, r, "none")
    BY <2>2, <2>3, <1>3 DEF Sound, Kinds
  <2>4. CASE kind = "subscriber" /\ res.binding = SetClient(kind, r, "open")
    BY <2>2, <2>4, <1>3 DEF Sound, Kinds
  <2>5. CASE res.binding = Success(kind, r)
    <3>1. /\ Success(kind, r) \in Binding
          /\ Success(kind, r).client = "open"
          /\ Success(kind, r).started = (kind # "producer")
          /\ Success(kind, r).closed = r.closed
          /\ Success(kind, r).leaked = SetClient(kind, r, "open").leaked
      BY <2>2 DEF Success, Binding
    <3> QED BY <3>1, <2>2, <2>5, <1>3 DEF Sound, Kinds
  <2> QED BY <2>1, <2>3, <2>4, <2>5
<1> QED BY <1>1, <1>2, <1>3

\* Every outcome of Close is sound.
LEMMA CloseSound ==
    ASSUME NEW kind \in Kinds, NEW r, Sound(kind, r), NEW q \in Close(kind, r)
    PROVE  Sound(kind, q)
<1>1. CASE kind # "producer"
  <2>1. q = [r EXCEPT !.client = IF @ = "open" THEN "shut" ELSE @, !.started = FALSE, !.closed = TRUE]
    BY <1>1 DEF Close
  <2>2. /\ q \in Binding
        /\ q.client # "open" /\ q.started = FALSE /\ q.leaked = r.leaked
    BY <2>1 DEF Sound, Binding
  <2> QED BY <1>1, <2>2 DEF Sound
<1>2. CASE kind = "producer"
  <2>1. \/ q = r
        \/ q = [r EXCEPT !.client = "none", !.closed = TRUE]
        \/ q = [r EXCEPT !.client = "shut"]
    BY <1>2 DEF Close
  <2>2. CASE q = [r EXCEPT !.client = "none", !.closed = TRUE]
    <3>1. q \in Binding /\ q.client = "none" /\ q.started = r.started /\ q.leaked = r.leaked
      BY <2>2 DEF Sound, Binding
    <3> QED BY <1>2, <3>1 DEF Sound
  <2>3. CASE q = [r EXCEPT !.client = "shut"]
    <3>1. q \in Binding /\ q.client = "shut" /\ q.started = r.started /\ q.leaked = r.leaked
      BY <2>3 DEF Sound, Binding
    <3> QED BY <1>2, <3>1 DEF Sound
  <2> QED BY <2>1, <2>2, <2>3
<1> QED BY <1>1, <1>2

\* A step that changes one binding to a sound one keeps all sound.
LEMMA UpdateSound ==
    ASSUME AllSound, NEW b \in Issued, NEW q, Sound(KindOf[b], q),
           binding' = [binding EXCEPT ![b] = q]
    PROVE  AllSound'
BY DEF AllSound, Sound

\* A step that tries to start a binding keeps all sound.
LEMMA TryStartSound ==
    ASSUME AllSound, connected \in BOOLEAN, NEW b \in Issued, NEW res, TryStart(b, res)
    PROVE  AllSound'
<1>1. KindOf[b] \in Kinds
  BY BinderAssumption
<1>2. Sound(KindOf[b], binding[b])
  BY DEF AllSound
<1>3. Sound(KindOf[b], res.binding)
  BY <1>1, <1>2, StartSound DEF TryStart
<1> QED BY <1>3, UpdateSound DEF TryStart

\* And so does a step that closes one.
LEMMA CloseStepSound ==
    ASSUME AllSound, NEW b \in Issued, NEW q \in Close(KindOf[b], binding[b]),
           binding' = [binding EXCEPT ![b] = q]
    PROVE  AllSound'
<1>1. KindOf[b] \in Kinds
  BY BinderAssumption
<1>2. Sound(KindOf[b], q)
  BY <1>1, CloseSound DEF AllSound
<1> QED BY <1>2, UpdateSound

\* The maps hold bindings, and the watchdog is nowhere or at a binding.
MapInv == /\ connected \in BOOLEAN
          /\ bound \in [Key -> Issued \cup {NoBinding}]
          /\ pick = NoPick \/ pick.who \in Issued

BinderInv == AllSound /\ MapInv

\* The initial bindings are new.
LEMMA InitSound == Init => BinderInv
<1> SUFFICES ASSUME Init PROVE BinderInv
  OBVIOUS
<1>1. AllSound
  <2>1. \A b \in Issued : KindOf[b] \in Kinds
    BY BinderAssumption
  <2>2. \A b \in Issued : Sound(KindOf[b], binding[b])
    BY <2>1, NewSound DEF Init
  <2>3. NewBinding \in Binding
    BY DEF NewBinding, Binding
  <2> QED BY <2>2, <2>3 DEF AllSound, Init
<1>2. MapInv
  <2>1. \A k \in Key : bound[k] \in Issued \cup {NoBinding}
    BY BinderAssumption DEF Init
  <2> QED BY <2>1 DEF Init, MapInv
<1> QED BY <1>1, <1>2 DEF BinderInv

\* Every step keeps the maps and the watchdog's place well-formed.
LEMMA MapStep == BinderInv /\ [Next]_vars => MapInv'
<1> SUFFICES ASSUME BinderInv, [Next]_vars PROVE MapInv'
  OBVIOUS
<1> USE DEF BinderInv, MapInv
<1>1. CASE StartCalled \/ StartBegins \/ StartReturns \/ HookCalled \/ ParentEnded
  BY <1>1 DEF StartCalled, StartBegins, StartReturns, HookCalled, ParentEnded, Lock, binderOnly, binderVars, watchVars
<1>2. CASE Take \/ DoReturns \/ LoopReturns \/ WatchRepeats
  BY <1>2 DEF Take, DoReturns, LoopReturns, WatchRepeats, binderOnly, binderVars, watchVars
<1>3. ASSUME NEW k \in Key, WatchPicks(k) PROVE MapInv'
  BY <1>3 DEF WatchPicks, Turn, binderVars
<1>4. ASSUME NEW res, WatchTries(res) PROVE MapInv'
  <2>1. pick' = NoPick \/ pick' = [pick EXCEPT !.delete = TRUE]
    BY <1>4 DEF WatchTries
  <2>2. pick # NoPick
    BY <1>4 DEF WatchTries
  <2> QED BY <1>4, <2>1, <2>2 DEF WatchTries, binderVars
<1>5. CASE WatchDeletes \/ WatchEnds
  BY <1>5 DEF WatchDeletes, WatchEnds, binderVars
<1>6. ASSUME NEW b \in Issued, Check(b) \/ CallStep(b) \/ OwnerCloses(b) \/ SingleStep(b) PROVE MapInv'
  <2>1. KeyOf[b] \in Key
    BY BinderAssumption
  <2> QED BY <1>6, <2>1 DEF Check, CallStep, Register, Schedule, Scheduled, OwnerCloses, SingleStep, SingleTask, binderVars, watchVars
<1>7. ASSUME NEW k \in Key, CloseProducer(k) \/ DeleteProducer(k) PROVE MapInv'
  BY <1>7 DEF CloseProducer, DeleteProducer, binderVars, watchVars
<1>8. ASSUME NEW c \in Caller, StopStep(c) PROVE MapInv'
  BY <1>8 DEF StopStep, StopBegins, StopEnds, StopCloses, watchVars
<1>9. CASE UNCHANGED vars
  BY <1>9 DEF vars, binderOnly, binderVars, watchVars
<1> QED BY <1>1, <1>2, <1>3, <1>4, <1>5, <1>6, <1>7, <1>8, <1>9 DEF Next, WatchStep
\* Every step keeps the bindings sound: what touches one is a Start or a Close.
LEMMA SoundStep == BinderInv /\ [Next]_vars => AllSound'
<1> SUFFICES ASSUME BinderInv, [Next]_vars PROVE AllSound'
  OBVIOUS
<1>0. AllSound /\ connected \in BOOLEAN
  BY DEF BinderInv, MapInv
<1>a. ASSUME binding' = binding PROVE AllSound'
  BY <1>0, <1>a DEF AllSound, Sound
<1>1. CASE StartCalled \/ StartBegins \/ StartReturns \/ HookCalled \/ ParentEnded
  BY <1>1, <1>a DEF StartCalled, StartBegins, StartReturns, HookCalled, ParentEnded, Lock, binderOnly
<1>2. CASE Take \/ DoReturns \/ LoopReturns \/ WatchRepeats
  BY <1>2, <1>a DEF Take, DoReturns, LoopReturns, WatchRepeats, binderOnly
<1>3. ASSUME NEW k \in Key, WatchPicks(k) PROVE AllSound'
  BY <1>3, <1>a DEF WatchPicks
<1>4. ASSUME NEW res, WatchTries(res) PROVE AllSound'
  <2>1. pick.who \in Issued /\ TryStart(pick.who, res)
    BY <1>4 DEF WatchTries, BinderInv, MapInv
  <2> QED BY <1>0, <2>1, TryStartSound
<1>5. CASE WatchDeletes \/ WatchEnds
  BY <1>5, <1>a DEF WatchDeletes, WatchEnds
<1>6. ASSUME NEW b \in Issued, Check(b) \/ CallStep(b) PROVE AllSound'
  BY <1>6, <1>a DEF Check, CallStep, Register, Schedule, Scheduled
<1>7. ASSUME NEW b \in Issued, OwnerCloses(b) PROVE AllSound'
  BY <1>0, <1>7, CloseStepSound DEF OwnerCloses
<1>8. ASSUME NEW b \in Issued, SingleStep(b) PROVE AllSound'
  BY <1>0, <1>8, TryStartSound DEF SingleStep, SingleTask
<1>9. ASSUME NEW k \in Key, CloseProducer(k) PROVE AllSound'
  <2>1. bound[k] \in Issued /\ KindOf[bound[k]] = "producer"
    BY <1>9, BinderAssumption DEF CloseProducer
  <2>2. PICK q \in Close("producer", binding[bound[k]]) : binding' = [binding EXCEPT ![bound[k]] = q]
    BY <1>9 DEF CloseProducer
  <2> QED BY <1>0, <2>1, <2>2, CloseStepSound
<1>10. ASSUME NEW k \in Key, DeleteProducer(k) PROVE AllSound'
  BY <1>10, <1>a DEF DeleteProducer
<1>11. ASSUME NEW c \in Caller, StopBegins(c) \/ StopEnds(c) PROVE AllSound'
  BY <1>11, <1>a DEF StopBegins, StopEnds
<1>12. ASSUME NEW c \in Caller, NEW k \in Key, StopCloses(c, k) PROVE AllSound'
  <2>1. bound[k] \in Issued
    BY <1>12 DEF StopCloses, Turn, BinderInv, MapInv
  <2>2. PICK q \in Close(KindOf[bound[k]], binding[bound[k]]) : binding' = [binding EXCEPT ![bound[k]] = q]
    BY <1>12 DEF StopCloses
  <2> QED BY <1>0, <2>1, <2>2, CloseStepSound
<1>13. CASE UNCHANGED vars
  BY <1>13, <1>a DEF vars, binderOnly
<1> QED BY <1>1, <1>2, <1>3, <1>4, <1>5, <1>6, <1>7, <1>8, <1>9, <1>10, <1>11, <1>12, <1>13
        DEF Next, WatchStep, StopStep

\* The inductive invariant holds of every reachable state.
THEOREM Soundness == Spec => []BinderInv
<1>1. BinderInv /\ [Next]_vars => BinderInv'
  BY MapStep, SoundStep DEF BinderInv
<1> QED BY <1>1, InitSound, PTL DEF Spec

\* No interleaving of starts and closes leaves a closed binding with a client.
THEOREM ClosedStaysClosedAlways == Spec => []ClosedStaysClosed
<1>1. BinderInv => ClosedStaysClosed
  BY DEF BinderInv, AllSound, Sound, ClosedStaysClosed
<1> QED BY <1>1, Soundness, PTL

\* However often and from wherever it is started, a producer or a group consumer
\* opens no client next to one it has.
THEOREM OneClientAlways == Spec => []OneClient
<1>1. BinderInv => OneClient
  BY DEF BinderInv, AllSound, Sound, OneClient
<1> QED BY <1>1, Soundness, PTL

\* Both together: the clients of every binding are kept, whoever starts and closes it.
THEOREM ClientsKeptAlways == Spec => []ClientsKept
<1>1. ClosedStaysClosed /\ OneClient => ClientsKept
  BY DEF ClientsKept
<1> QED BY <1>1, ClosedStaysClosedAlways, OneClientAlways, PTL
=============================================================================
