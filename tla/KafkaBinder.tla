---------------------------- MODULE KafkaBinder -----------------------------
(* kafka/binder.go: registers producers and consumers, starts them with a    *)
(* task loop (TaskLoop, its field monitor), and closes them when it is shut   *)
(* down. The read-write mutex guards the monitor; the maps of bindings and    *)
(* the bindings themselves are used without it.                               *)
EXTENDS Naturals, Sequences, KafkaBinding

CONSTANTS Issued,       \* the bindings that calls of Produce, Subscribe, Consume create
          Key,          \* the entries of the three maps
          KeyOf, KindOf,
          NoBinding, NoKey, NoTask,
          Early,        \* those registered before anything else happens
          Closable,     \* those whose owners may close them
          LateCalls     \* may bindings be created while the context given to Start
                        \* ends and before Shutdown has noticed?

ASSUME BinderAssumption == /\ KeyOf \in [Issued -> Key] /\ NoBinding \notin Issued
                           /\ KindOf \in [Issued -> Kinds] /\ Early \cup Closable \subseteq Issued
                           /\ NoKey \notin Key /\ LateCalls \in BOOLEAN

VARIABLES ctx, pc, current, queue, status, answer,      \* monitor, of TaskLoop
          binding,      \* the state of each binding
          bound,        \* b.producers, b.subscribers, b.consumerGroups
          call,         \* where the call that creates a binding is: "new", "checked",
                        \* "registered", "sending", "done"
          stage,        \* of Start, of OnStop ("hook") and of the goroutine that waits
                        \* for the context ("auto"): "idle", "locking", "busy", "done",
                        \* and "sent" when the loop has taken the watchdog of Start
          monitored,    \* b.monitorCtx # nil
          shut,         \* b.closed
          connected,    \* the binder's own clients are open
          left,         \* the entries Shutdown has still to close
          todo,         \* the entries the watchdog has not visited in this round
          fresh,        \* the entries registered during this round
          pick,         \* the entry the watchdog is at, and whether it will delete it
          closing       \* the keys CloseProducer has closed and not yet deleted

loopVars == <<ctx, pc, current, queue, status, answer>>
watchVars == <<todo, fresh, pick>>
binderVars == <<monitored, shut, connected, left>>
binderOnly == <<binding, bound, call, stage, binderVars, watchVars, closing>>
vars == <<loopVars, binderOnly>>

Task == Issued \cup {"watchdog"}
TaskKind == [t \in Task |-> IF t = "watchdog" THEN "Repeat" ELSE "Do"]
Loop == INSTANCE TaskLoop WITH Kind <- TaskKind

Caller == {"start", "hook", "auto"}
NoPick == [key |-> NoKey, who |-> NoBinding, delete |-> FALSE]

TypeOK ==
    /\ Loop!TypeOK
    /\ binding \in [Issued -> Binding]
    /\ bound \in [Key -> Issued \cup {NoBinding}]
    /\ call \in [Issued -> {"new", "checked", "registered", "sending", "done"}]
    /\ stage \in [Caller -> {"idle", "locking", "busy", "sent", "done"}]
    /\ monitored \in BOOLEAN /\ shut \in BOOLEAN /\ connected \in BOOLEAN
    /\ left \subseteq Key /\ todo \subseteq Key /\ fresh \subseteq Key /\ closing \subseteq Key
    /\ pick \in [key : Key \cup {NoKey}, who : Issued \cup {NoBinding}, delete : BOOLEAN]

Init ==
    /\ Loop!Init
    /\ binding = [b \in Issued |-> NewBinding]
    /\ bound = [k \in Key |-> IF \E b \in Early : KeyOf[b] = k
                              THEN CHOOSE b \in Early : KeyOf[b] = k ELSE NoBinding]
    /\ call = [b \in Issued |-> IF b \in Early THEN "done" ELSE "new"]
    /\ stage = [c \in Caller |-> "idle"]
    /\ monitored = FALSE /\ shut = FALSE /\ connected = TRUE
    /\ left = {} /\ todo = {} /\ fresh = {} /\ pick = NoPick /\ closing = {}

-----------------------------------------------------------------------------
(* The mutex: Start and Shutdown have the write lock while they are at work,  *)
(* a call that schedules a start the read lock until the loop has its task. A *)
(* writer that waits keeps new readers out.                                   *)

Writing == \E c \in Caller : stage[c] \in {"busy", "sent"}
Reading == \E b \in Issued : call[b] = "sending"
RLockable == ~Writing /\ \A c \in Caller : stage[c] # "locking"

Lock(c) ==
    /\ stage[c] = "idle"
    /\ stage' = [stage EXCEPT ![c] = "locking"]
    /\ UNCHANGED <<loopVars, binding, bound, call, binderVars, watchVars, closing>>

\* Lock returns and the caller goes to its next stage. The goroutine that Start
\* leaves behind comes for the lock when the context has ended; that it keeps new
\* readers out meanwhile is left out, for it may as well come later.
Locked(c, next) ==
    /\ IF c = "auto" THEN stage["auto"] = "idle" /\ stage["start"] = "done" /\ ctx = "cancelled"
                     ELSE stage[c] = "locking"
    /\ ~Writing /\ ~Reading
    /\ stage' = [stage EXCEPT ![c] = next]

-----------------------------------------------------------------------------
(* Start.                                                                    *)

StartCalled == Lock("start")

\* After Shutdown there is nothing to start; otherwise the loop runs, and Repeat
\* sends it the watchdog.
StartBegins ==
    /\ Locked("start", IF shut THEN "done" ELSE "busy")
    /\ IF shut
         THEN UNCHANGED <<loopVars, monitored>>
         ELSE /\ ctx' = "live" /\ pc' = "select"
              /\ Loop!Send("watchdog")
              /\ monitored' = TRUE
              /\ UNCHANGED <<current, answer>>
    /\ UNCHANGED <<binding, bound, call, shut, connected, left, watchVars, closing>>

\* Repeat returns once the loop has taken the watchdog.
StartReturns ==
    /\ stage["start"] = "sent"
    /\ stage' = [stage EXCEPT !["start"] = "done"]
    /\ UNCHANGED <<loopVars, binding, bound, call, binderVars, watchVars, closing>>

\* The context given to Start, the application's, ends after Start has returned.
ParentEnded ==
    /\ stage["start"] = "done"
    /\ LateCalls \/ \A b \in Issued : call[b] \in {"new", "done"}
    /\ Loop!Cancel
    /\ UNCHANGED binderOnly

-----------------------------------------------------------------------------
(* Produce, Subscribe and Consume.                                           *)

\* No binding of the key exists, or it is closed. Produce provisions the topic
\* next, with the binder's clients. (A call that fails has no effect.)
Check(b) ==
    /\ call[b] = "new"
    /\ LateCalls \/ ~(ctx = "cancelled" /\ monitored)
    /\ \A other \in Issued : bound[KeyOf[b]] = other => binding[other].closed
    /\ KindOf[b] = "producer" => connected
    /\ call' = [call EXCEPT ![b] = "checked"]
    /\ UNCHANGED <<loopVars, binding, bound, stage, binderVars, watchVars, closing>>

\* A Shutdown under way may miss a key that is new: its loop over the kind may be past
\* it, or over.
Register(b) ==
    /\ call[b] = "checked"
    /\ bound' = [bound EXCEPT ![KeyOf[b]] = b]
    /\ fresh' = IF status["watchdog"] = "running" THEN fresh \cup {KeyOf[b]} ELSE fresh
    /\ call' = [call EXCEPT ![b] = "registered"]
    /\ \/ left' = left
       \/ bound[KeyOf[b]] = NoBinding /\ left' = left \ {KeyOf[b]}
    /\ UNCHANGED <<loopVars, binding, stage, monitored, shut, connected, todo, pick, closing>>

\* tryScheduleStart keeps the read lock until the loop takes the task.
Schedule(b) ==
    /\ call[b] = "registered" /\ RLockable
    /\ call' = [call EXCEPT ![b] = IF monitored THEN "sending" ELSE "done"]
    /\ IF monitored THEN Loop!Call(b) ELSE UNCHANGED loopVars
    /\ UNCHANGED <<binding, bound, stage, binderVars, watchVars, closing>>

Scheduled(b) ==
    /\ call[b] = "sending" /\ status[b] # "queued"
    /\ call' = [call EXCEPT ![b] = "done"]
    /\ UNCHANGED <<loopVars, binding, bound, stage, binderVars, watchVars, closing>>

\* BindingLifecycle.Close, called by the owner of the binding.
OwnerCloses(b) ==
    /\ b \in Closable /\ call[b] = "done"
    /\ \E r \in Close(KindOf[b], binding[b]) : binding' = [binding EXCEPT ![b] = r]
    /\ UNCHANGED <<loopVars, bound, call, stage, binderVars, watchVars, closing>>

CloseProducer(k) ==
    /\ bound[k] \in Closable /\ KindOf[bound[k]] = "producer" /\ k \notin closing
   
    /\ \E r \in Close("producer", binding[bound[k]]) : binding' = [binding EXCEPT ![bound[k]] = r]
    /\ closing' = closing \cup {k}
    /\ UNCHANGED <<loopVars, bound, call, stage, binderVars, watchVars>>

DeleteProducer(k) ==
    /\ k \in closing
    /\ bound' = [bound EXCEPT ![k] = NoBinding]
    /\ closing' = closing \ {k}
    /\ UNCHANGED <<loopVars, binding, call, stage, binderVars, watchVars>>

-----------------------------------------------------------------------------
(* The tasks of the monitor.                                                 *)

\* Mutant: a task is taken when nobody sends one.
TakeNil ==
    /\ pc = "select" /\ pc' = "do" /\ current' = "nil"
    /\ UNCHANGED <<ctx, queue, status, answer, binderOnly>>

Take ==
    /\ Loop!Take
    /\ IF Head(queue) = "watchdog"
         THEN /\ todo' = Key
              /\ stage' = [stage EXCEPT !["start"] = IF @ = "busy" THEN "sent" ELSE @]
         ELSE UNCHANGED <<todo, stage>>
    /\ UNCHANGED <<binding, bound, call, binderVars, fresh, pick, closing>>

DoReturns == Loop!DoReturns /\ UNCHANGED binderOnly
LoopReturns == Loop!LoopReturns /\ UNCHANGED binderOnly
WatchRepeats == (Loop!Wakes("watchdog") \/ Loop!Stops("watchdog")) /\ UNCHANGED binderOnly

\* lc.Start of one binding, with what it returns.
TryStart(b, res) ==
    /\ res \in Start(KindOf[b], binding[b], connected)
    /\ binding' = [binding EXCEPT ![b] = res.binding]

\* tryStartSingleTaskFunc.
SingleTask(b, res) ==
    /\ TryStart(b, res)
    /\ Loop!Ends(b, IF res.err = "nil" THEN "value" ELSE "error")
    /\ UNCHANGED <<bound, call, stage, binderVars, watchVars, closing>>

\* tryStartTaskFunc goes through the producers, the subscribers and the group
\* consumers in this order, and so does Shutdown.
Order == [producer |-> 1, subscriber |-> 2, group |-> 3]
Turn(k, keys) ==
    /\ k \in keys /\ bound[k] # NoBinding
    /\ \A other \in keys : bound[other] # NoBinding => Order[KindOf[bound[k]]] <= Order[KindOf[bound[other]]]

WatchPicks(k) ==
    /\ status["watchdog"] = "running" /\ pick = NoPick
    /\ Turn(k, todo)
    /\ pick' = [key |-> k, who |-> bound[k], delete |-> FALSE]
    /\ todo' = todo \ {k}
    /\ UNCHANGED <<loopVars, binding, bound, call, stage, binderVars, fresh, closing>>

WatchTries(res) ==
    /\ pick # NoPick /\ ~pick.delete
    /\ TryStart(pick.who, res)
    /\ pick' = IF res.err = "closed" THEN [pick EXCEPT !.delete = TRUE] ELSE NoPick
    /\ UNCHANGED <<loopVars, bound, call, stage, binderVars, todo, fresh, closing>>

WatchDeletes ==
    /\ pick.delete
    /\ bound' = [bound EXCEPT ![pick.key] = NoBinding]
    /\ pick' = NoPick
    /\ UNCHANGED <<loopVars, binding, call, stage, binderVars, todo, fresh, closing>>

\* Mutant: the watchdog is not repeated.
WatchEndsForGood ==
    /\ status["watchdog"] = "running" /\ pick = NoPick
    /\ \A k \in todo \ fresh : bound[k] = NoBinding
    /\ status' = [status EXCEPT !["watchdog"] = "stopped"]
    /\ todo' = {} /\ fresh' = {}
    /\ UNCHANGED <<ctx, pc, current, queue, answer, binding, bound, call, stage, binderVars, pick, closing>>

\* The iteration need not meet what was registered after it began.
WatchEnds ==
    /\ status["watchdog"] = "running" /\ pick = NoPick
    /\ \A k \in todo \ fresh : bound[k] = NoBinding
    /\ Loop!Ends("watchdog", "value")
    /\ todo' = {} /\ fresh' = {}
    /\ UNCHANGED <<binding, bound, call, stage, binderVars, pick, closing>>

-----------------------------------------------------------------------------
(* Shutdown.                                                                 *)

\* Mutant: Shutdown cancels the loop before it takes the lock.
HookCancels ==
    /\ stage["hook"] = "idle" /\ stage' = [stage EXCEPT !["hook"] = "locking"]
    /\ IF ctx = "live" THEN Loop!Cancel ELSE UNCHANGED loopVars
    /\ UNCHANGED <<binding, bound, call, binderVars, watchVars, closing>>

\* OnStop calls Shutdown.
HookCalled == Lock("hook")

StopBegins(c) ==
    /\ c # "start" /\ Locked(c, IF monitored THEN "busy" ELSE "done")
    /\ IF monitored
         THEN /\ monitored' = FALSE /\ left' = Key
              /\ IF ctx = "live" THEN Loop!Cancel ELSE UNCHANGED loopVars
              /\ UNCHANGED shut
         ELSE shut' = TRUE /\ UNCHANGED <<loopVars, monitored, left>>
    /\ UNCHANGED <<binding, bound, call, connected, watchVars, closing>>

StopCloses(c, k) ==
    /\ c # "start" /\ stage[c] = "busy"
    /\ Turn(k, left)
    /\ \E r \in Close(KindOf[bound[k]], binding[bound[k]]) :
           binding' = [binding EXCEPT ![bound[k]] = r]
    /\ left' = left \ {k}
    /\ UNCHANGED <<loopVars, bound, call, stage, monitored, shut, connected, watchVars, closing>>

StopEnds(c) ==
    /\ c # "start" /\ stage[c] = "busy"
    /\ \A k \in left : bound[k] = NoBinding
    /\ stage' = [stage EXCEPT ![c] = "done"]
    /\ connected' = FALSE /\ shut' = TRUE /\ left' = {}
    /\ UNCHANGED <<loopVars, binding, bound, call, monitored, watchVars, closing>>

-----------------------------------------------------------------------------
SingleStep(b) == status[b] = "running" /\ \E res \in Start(KindOf[b], binding[b], connected) : SingleTask(b, res)
WatchStep ==
    \/ \E k \in Key : WatchPicks(k)
    \/ pick # NoPick /\ \E res \in Start(KindOf[pick.who], binding[pick.who], connected) : WatchTries(res)
    \/ WatchDeletes \/ WatchEnds
CallStep(b) == Register(b) \/ Schedule(b) \/ Scheduled(b)
StopStep(c) == StopBegins(c) \/ StopEnds(c) \/ \E k \in Key : StopCloses(c, k)

Next ==
    \/ StartCalled \/ StartBegins \/ StartReturns \/ HookCalled \/ ParentEnded
    \/ Take \/ DoReturns \/ LoopReturns \/ WatchRepeats \/ WatchStep
    \/ \E b \in Issued : Check(b) \/ CallStep(b) \/ OwnerCloses(b) \/ SingleStep(b)
    \/ \E k \in Key : CloseProducer(k) \/ DeleteProducer(k)
    \/ \E c \in Caller : StopStep(c)

Spec == Init /\ [][Next]_vars

\* The start of a binding succeeds.
Succeeds(b) ==
    LET res == Result(Success(KindOf[b], binding[b]), "nil")
    IN  ~Active(KindOf[b], binding[b]) /\ ((pick.who = b /\ WatchTries(res)) \/ SingleTask(b, res))

\* What goes on by itself and comes to an end.
Progress ==
    \/ StartBegins \/ StartReturns
    \/ \E b \in Issued : CallStep(b) \/ SingleStep(b)
    \/ \E k \in Key : DeleteProducer(k)
    \/ \E c \in Caller : StopStep(c)

\* Goroutines are scheduled and calls of Start and Close return; nobody has to
\* call the binder. A start that is tried again and again succeeds some time.
Fairness ==
    /\ WF_vars(Progress)
    /\ WF_vars(Take \/ DoReturns) /\ SF_vars(LoopReturns)
    /\ WF_vars(WatchRepeats) /\ WF_vars(WatchStep)
    /\ \A b \in Issued : SF_vars(Succeeds(b))

FairSpec == Spec /\ Fairness

-----------------------------------------------------------------------------
\* What was closed stays closed: a start that the watchdog or a scheduled task
\* tries after Close, Shutdown or CloseProducer leaves no client behind. (Those that a
\* subscriber leaked on its way, subscriber.go:84-99, are not counted.)
ClosedStaysClosed == \A b \in Issued : binding[b].closed => ~binding[b].started /\ binding[b].client # "open"

\* The watchdog and the scheduled task may both start a binding, the latter even
\* after the end of the loop: a producer or a group consumer never opens a second
\* client.
OneClient == \A b \in Issued : KindOf[b] # "subscriber" => ~binding[b].leaked

\* Starts and closes of a binding, from wherever they come: none leaves a client of
\* a closed binding behind or, but for a subscriber, a second client next to the first.
ClientsKept == ClosedStaysClosed /\ OneClient

\* binder.go: "start all bindings if not started yet". What is in the maps of a
\* running binder is all started some time, whatever fails on the way.
EventuallyStarted ==
    ctx = "live" ~> \/ ctx = "cancelled"
                    \/ \A b \in Issued : bound[KeyOf[b]] = b => Active(KindOf[b], binding[b]) \/ binding[b].closed

\* context.go on Start: "If the provided context is cancellable, the lifecycle is
\* shutdown automatically when it happens". Shutdown, called by OnStop or because
\* the context has ended, gets the lock and completes, although calls that hold
\* the read lock wait for a loop that is being ended.
ShutdownCompletes ==
    stage["hook"] = "locking" \/ (stage["start"] = "done" /\ ctx = "cancelled") ~> shut
=============================================================================
