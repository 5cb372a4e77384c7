------------------------------ MODULE Monitor -------------------------------
(* profiler/monitor: the data collector samples the process and sends each   *)
(* sample to the viewers, which are HTTP handlers (ChartController.DataFeed) *)
(* that come and go. The collector's RWMutex protects the ticker and the     *)
(* viewers' channels, which have no buffer.                                  *)
EXTENDS Naturals, FiniteSets

CONSTANTS Viewer,
          Lifecycle,    \* the goroutine that calls Start and Stop
          Nobody,
          MaxStarts     \* times Start has an effect

VARIABLES started,      \* ticker # nil, set by Start number `epoch'
          epoch,
          channel,      \* of each viewer: "none", "open" (subscribed) or "closed"
          lock,         \* who holds the write lock
          readers,      \* the collector goroutines that hold the read lock
          want,         \* what each goroutine waits for the write lock for
          viewer,       \* "away", "reading" or "leaving"
          collector,    \* of each epoch: "none", "select", "locking", "sending", "stopping", "gone"
          cancelled,    \* the collector goroutines whose context is done
          targets       \* of each collector goroutine: the viewers it has still to send to

vars == <<started, epoch, channel, lock, readers, want, viewer, collector, cancelled, targets>>

Epoch == 1 .. MaxStarts
Goroutine == Viewer \cup Epoch \cup {Lifecycle}

\* Every state variable has a value of its type.
TypeOK ==
    /\ started \in BOOLEAN /\ epoch \in 0 .. MaxStarts
    /\ channel \in [Viewer -> {"none", "open", "closed"}]
    /\ lock \in Goroutine \cup {Nobody} /\ readers \subseteq Epoch
    /\ want \in [Goroutine -> {"nothing", "Start", "Stop", "Subscribe", "Unsubscribe"}]
    /\ viewer \in [Viewer -> {"away", "reading", "leaving"}]
    /\ collector \in [Epoch -> {"none", "select", "locking", "sending", "stopping", "gone"}]
    /\ cancelled \subseteq Epoch
    /\ targets \in [Epoch -> SUBSET Viewer]

Init ==
    /\ started = FALSE /\ epoch = 0
    /\ channel = [v \in Viewer |-> "none"]
    /\ lock = Nobody /\ readers = {}
    /\ want = [g \in Goroutine |-> "nothing"]
    /\ viewer = [v \in Viewer |-> "away"]
    /\ collector = [e \in Epoch |-> "none"]
    /\ cancelled = {} /\ targets = [e \in Epoch |-> {}]

Wants(g, call) == want' = [want EXCEPT ![g] = call]

-----------------------------------------------------------------------------
(* The write lock: a call waits for it, takes it, and has its effect.        *)

Calls(call) ==
    /\ want[Lifecycle] = "nothing" /\ lock # Lifecycle
    /\ call = "Start" => epoch < MaxStarts
    /\ call = "Stop" => epoch > 0
    /\ Wants(Lifecycle, call)
    /\ UNCHANGED <<started, epoch, channel, lock, readers, viewer, collector, cancelled, targets>>

Locks(g) ==
    /\ want[g] # "nothing" /\ lock = Nobody /\ readers = {}
    /\ lock' = g
    /\ UNCHANGED <<started, epoch, channel, readers, want, viewer, collector, cancelled, targets>>

\* Unlock lets in the readers that have come meanwhile.
Unlocks(g) ==
    /\ lock' = Nobody
    /\ want' = [want EXCEPT ![g] = "nothing"]
    /\ readers' = readers \cup {e \in Epoch : collector[e] = "locking"}

Start ==
    /\ lock = Lifecycle /\ want[Lifecycle] = "Start"
    /\ IF started THEN UNCHANGED <<started, epoch, collector>>
       ELSE /\ started' = TRUE /\ epoch' = epoch + 1
            /\ collector' = [collector EXCEPT ![epoch + 1] = "select"]
    /\ Unlocks(Lifecycle)
    /\ UNCHANGED <<channel, viewer, cancelled, targets>>

\* Mutant: the early return of a stopped collector keeps the lock.
StopKeepsLock(g) ==
    /\ lock = g /\ want[g] = "Stop" /\ started
    /\ started' = FALSE
    /\ cancelled' = cancelled \cup {epoch}
    /\ channel' = [v \in Viewer |-> IF channel[v] = "open" THEN "closed" ELSE channel[v]]
    /\ collector' = IF g \in Epoch THEN [collector EXCEPT ![g] = "gone"] ELSE collector
    /\ Unlocks(g)
    /\ UNCHANGED <<epoch, viewer, targets>>

\* Stop, called at shutdown or by a collector goroutine at its end.
Stop(g) ==
    /\ lock = g /\ want[g] = "Stop"
    /\ IF ~started THEN UNCHANGED <<started, channel, cancelled>>
       ELSE /\ started' = FALSE
            /\ cancelled' = cancelled \cup {epoch}
            /\ channel' = [v \in Viewer |-> IF channel[v] = "open" THEN "closed" ELSE channel[v]]
    /\ collector' = IF g \in Epoch THEN [collector EXCEPT ![g] = "gone"] ELSE collector
    /\ Unlocks(g)
    /\ UNCHANGED <<epoch, viewer, targets>>

-----------------------------------------------------------------------------
(* A viewer: DataFeed                                                        *)

Comes(v) ==
    /\ viewer[v] = "away" /\ want[v] = "nothing" /\ Wants(v, "Subscribe")
    /\ UNCHANGED <<started, epoch, channel, lock, readers, viewer, collector, cancelled, targets>>

\* Before the collector has started, the handler ends with an error; its deferred
\* Unsubscribe finds no subscription.
Subscribe(v) ==
    /\ lock = v /\ want[v] = "Subscribe"
    /\ channel' = IF started THEN [channel EXCEPT ![v] = "open"] ELSE channel
    /\ viewer' = IF started THEN [viewer EXCEPT ![v] = "reading"] ELSE viewer
    /\ Unlocks(v)
    /\ UNCHANGED <<started, epoch, collector, cancelled, targets>>

\* The request ends, the connection fails or no pong comes: the handler reads no
\* more and calls Unsubscribe.
Leaves(v) ==
    /\ viewer[v] = "reading"
    /\ viewer' = [viewer EXCEPT ![v] = "leaving"]
    /\ Wants(v, "Unsubscribe")
    /\ UNCHANGED <<started, epoch, channel, lock, readers, collector, cancelled, targets>>

Unsubscribe(v) ==
    /\ lock = v /\ want[v] = "Unsubscribe"
    /\ channel' = [channel EXCEPT ![v] = "none"]
    /\ viewer' = [viewer EXCEPT ![v] = "away"]
    /\ Unlocks(v)
    /\ UNCHANGED <<started, epoch, collector, cancelled, targets>>

-----------------------------------------------------------------------------
(* The collector goroutine                                                   *)

\* A tick, which a stopped ticker may still have in its channel: the sample is
\* taken and stored, and the read lock asked for. A writer that waits for the lock
\* holds back the readers that come after it.
Collects(e) ==
    /\ collector[e] = "select"
    /\ collector' = [collector EXCEPT ![e] = "locking"]
    /\ readers' = IF \A g \in Goroutine : want[g] = "nothing" THEN readers \cup {e} ELSE readers
    /\ UNCHANGED <<started, epoch, channel, lock, want, viewer, cancelled, targets>>

\* Mutant: the viewers are copied under the lock and served without it.
RangesCopy(e) ==
    /\ collector[e] = "locking" /\ e \in readers
    /\ readers' = readers \ {e}
    /\ targets' = [targets EXCEPT ![e] = {v \in Viewer : channel[v] = "open"}]
    /\ collector' = [collector EXCEPT ![e] = "sending"]
    /\ UNCHANGED <<started, epoch, channel, lock, want, viewer, cancelled>>

\* The broadcast begins, under the read lock.
Ranges(e) ==
    /\ collector[e] = "locking" /\ e \in readers
    /\ targets' = [targets EXCEPT ![e] = {v \in Viewer : channel[v] = "open"}]
    /\ collector' = [collector EXCEPT ![e] = "sending"]
    /\ UNCHANGED <<started, epoch, channel, lock, readers, want, viewer, cancelled>>

\* The viewer takes the feed.
Sends(e) ==
    /\ collector[e] = "sending"
    /\ \E v \in targets[e] :
         /\ viewer[v] = "reading"
         /\ targets' = [targets EXCEPT ![e] = @ \ {v}]
    /\ UNCHANGED <<started, epoch, channel, lock, readers, want, viewer, collector, cancelled>>

RUnlocks(e) ==
    /\ collector[e] = "sending" /\ targets[e] = {}
    /\ readers' = readers \ {e}
    /\ collector' = [collector EXCEPT ![e] = "select"]
    /\ UNCHANGED <<started, epoch, channel, lock, want, viewer, cancelled, targets>>

\* The context is done: the loop ends with a call of Stop.
Breaks(e) ==
    /\ collector[e] = "select" /\ e \in cancelled
    /\ collector' = [collector EXCEPT ![e] = "stopping"]
    /\ Wants(e, "Stop")
    /\ UNCHANGED <<started, epoch, channel, lock, readers, viewer, cancelled, targets>>

\* The application's context, which the collectors' contexts come from, is done.
AppDone ==
    /\ cancelled # Epoch /\ cancelled' = Epoch
    /\ UNCHANGED <<started, epoch, channel, lock, readers, want, viewer, collector, targets>>

Next ==
    \/ \E call \in {"Start", "Stop"} : Calls(call)
    \/ Start
    \/ \E g \in Goroutine : Locks(g)
    \/ \E g \in Epoch \cup {Lifecycle} : Stop(g)
    \/ \E v \in Viewer : Comes(v) \/ Subscribe(v) \/ Leaves(v) \/ Unsubscribe(v)
    \/ \E e \in Epoch : Collects(e) \/ Ranges(e) \/ Sends(e) \/ RUnlocks(e) \/ Breaks(e)
    \/ AppDone

\* What holds the lock goes on. A writer gets it in the end: sync.Mutex, by which
\* writers come to the RWMutex, hands itself over to one that has waited for long.
Fairness ==
    /\ WF_vars(Start)
    /\ \A g \in Goroutine : SF_vars(Locks(g))
    /\ \A g \in Epoch \cup {Lifecycle} : WF_vars(Stop(g))
    /\ \A v \in Viewer : WF_vars(Subscribe(v)) /\ WF_vars(Unsubscribe(v))
    /\ \A e \in Epoch : WF_vars(Ranges(e)) /\ WF_vars(Sends(e)) /\ WF_vars(RUnlocks(e))

Spec == Init /\ [][Next]_vars
FairSpec == Spec /\ Fairness

-----------------------------------------------------------------------------
\* No feed is sent to a channel that Stop or Unsubscribe has closed, which would
\* end the process with a panic.
NoSendOnClosed ==
    \A e \in Epoch : collector[e] = "sending" => \A v \in targets[e] : channel[v] = "open"

\* While no viewer has turned its back on its feed, Stop returns at shutdown, however
\* the broadcasts, the other calls and the collectors' own calls of Stop fall. (A
\* viewer that has stopped reading waits for the write lock in Unsubscribe, and the
\* broadcast waits for the viewer under the read lock: then Stop waits for good.)
StopReturns ==
    [](\A v \in Viewer : viewer[v] # "leaving") =>
        (want[Lifecycle] = "Stop" ~> want[Lifecycle] = "nothing")
=============================================================================
