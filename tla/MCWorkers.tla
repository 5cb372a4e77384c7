----------------------------- MODULE MCWorkers ------------------------------
(* The goroutines that work in the background, and what they come to in the  *)
(* end: the task loop, the scheduler, Vault's token refresher and the data   *)
(* collector. `part' says which of them a behaviour is about; the others     *)
(* stay in one of their initial states.                                      *)
EXTENDS Integers, Sequences, FiniteSets, TLC

CONSTANTS NoTask, NoExec, NoRefresher, Nobody, Viewer, Lifecycle

VARIABLES part

\* TaskLoop: a repeated task next to a single one.
VARIABLES ctx, pc, current, queue, status, answer
LoopKind == ("waited" :> "DoAndWait") @@ ("again" :> "Repeat")
Loop == INSTANCE TaskLoop WITH Task <- DOMAIN LoopKind, Kind <- LoopKind
loopVars == <<ctx, pc, current, queue, status, answer>>

VARIABLES mode, cancelOnError, initialTime, started, delay, timer, awaited, ended, err, done, exec
Sched == INSTANCE Scheduler WITH
    Interval <- 3, Exec <- {"e1", "e2"}, MaxTime <- 3, pc <- timer, cancelled <- ended
schedVars == <<mode, cancelOnError, initialTime, started, delay, timer, awaited, ended, err, done, exec>>

VARIABLES auth, renewable, token, up, refresher, stopped, watch, renewer, outages, expiries
Tokens == INSTANCE TokenRefresher WITH
    Refresher <- {"r1", "r2"}, MaxOutages <- 2, MaxExpiries <- 2, cancelled <- stopped, pc <- watch
tokenVars == <<auth, renewable, token, up, refresher, stopped, watch, renewer, outages, expiries>>

VARIABLES collecting, epoch, channel, lock, readers, want, viewer, collector, contexts, targets
Collector == INSTANCE Monitor WITH
    Viewer <- {Viewer}, MaxStarts <- 2, started <- collecting, cancelled <- contexts
collectorVars == <<collecting, epoch, channel, lock, readers, want, viewer, collector, contexts, targets>>

-----------------------------------------------------------------------------
vars == <<part, loopVars, schedVars, tokenVars, collectorVars>>

Init ==
    /\ part \in {"loop", "scheduler", "token", "monitor"}
    /\ Loop!Init /\ Collector!Init
    /\ Sched!Init
    /\ part # "scheduler" => mode = "RunOnce" /\ ~cancelOnError /\ initialTime = -1 /\ started = 0
    /\ Tokens!Init
    /\ part # "token" => auth = "token" /\ ~renewable /\ up

InLoop(A) == part = "loop" /\ A /\ UNCHANGED <<part, schedVars, tokenVars, collectorVars>>
InSched(A) == part = "scheduler" /\ A /\ UNCHANGED <<part, loopVars, tokenVars, collectorVars>>
InTokens(A) == part = "token" /\ A /\ UNCHANGED <<part, loopVars, schedVars, collectorVars>>
InCollector(A) == part = "monitor" /\ A /\ UNCHANGED <<part, loopVars, schedVars, tokenVars>>

Next == InLoop(Loop!Next) \/ InSched(Sched!Next) \/ InTokens(Tokens!Next) \/ InCollector(Collector!Next)

\* The fairness of the component the behaviour is about. As that is always the same
\* one, fairness to an action of one and to an action of another is fairness to
\* either of them.
Fairness ==
    /\ WF_vars(InLoop(Loop!Take) \/ InSched(Sched!Trigger) \/ InTokens(Tokens!ComesUp)
                 \/ InCollector(Collector!Start))
    /\ WF_vars(InLoop(Loop!DoReturns) \/ InSched(Sched!Awaited)
                 \/ InCollector(Collector!Stop(Lifecycle)))
    /\ SF_vars(InLoop(Loop!LoopReturns) \/ InSched(Sched!LoopCancelled)
                 \/ InCollector(Collector!Locks(Lifecycle)))
    /\ WF_vars(InSched(Sched!Close) \/ InCollector(Collector!Subscribe(Viewer)))
    /\ WF_vars(InCollector(Collector!Unsubscribe(Viewer)))
    /\ SF_vars(InCollector(Collector!Locks(Viewer)))
    /\ \A e \in {1, 2} :
         LET r == <<"r1", "r2">>[e]
             x == <<"e1", "e2">>[e]
             t == <<"waited", "again">>[e]
         IN  /\ SF_vars(InTokens(Tokens!OnCancel(r)) \/ InCollector(Collector!Locks(e)))
             /\ WF_vars(\/ InTokens(token = "expired" /\ Tokens!WatcherEnds(r))
                        \/ InCollector(Collector!Ranges(e))
                        \/ InSched(Sched!Succeeds(x) \/ Sched!Fails(x))
                        \/ InLoop(\E outcome \in {"value", "error", "panic"} : Loop!Ends(t, outcome)))
             /\ WF_vars(\/ InTokens(Tokens!monitorRenew(r))
                        \/ InCollector(Collector!Sends(e))
                        \/ InSched(Sched!HandleError(x))
                        \/ InLoop(Loop!Wakes(t) \/ Loop!Stops(t)))
             /\ WF_vars(InCollector(Collector!RUnlocks(e)))
             /\ WF_vars(InCollector(Collector!Stop(e)))

Spec == Init /\ [][Next]_vars /\ Fairness

-----------------------------------------------------------------------------
\* utils/loop: a task sent to a running loop is executed unless it is cancelled, Repeat
\* goes on whether the task succeeds, fails or panics, and DoAndWait returns once the
\* loop has taken its task.
TasksServed == Loop!EveryTaskRuns /\ Loop!RepeatsForever /\ Loop!WaiterAnswered

\* vault: a token that runs out under its watcher is replaced, and a renewable one is
\* watched again once the server answers for it.
TokenKept == Tokens!TokenReplaced /\ Tokens!WatchResumes

\* utils/loop, scheduler, vault, profiler/monitor: what is cancelled or stopped ends. A
\* loop ends for good; a task that is cancelled, or fails and is cancelled on errors,
\* says so on Cancelled(); a stopped refresher ends, with its watcher, if its token can be
\* renewed; Stop of the collector returns while no viewer has turned its back on its feed.
WhatIsStoppedEnds ==
    Loop!EndsForGood /\ Sched!CancelEnds /\ Sched!ErrorCancels /\ Tokens!StopEndsRenewal /\ Collector!StopReturns
=============================================================================
