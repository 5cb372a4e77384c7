------------------------------ MODULE Scheduler ------------------------------
(* scheduler/task.go: one scheduled task, its loop goroutine, and a goroutine *)
(* for each execution. t.err and the end of the loop are guarded by t.mtx.    *)
EXTENDS Integers, FiniteSets

CONSTANTS Interval,     \* option interval
          Exec,         \* executions alive at a time
          NoExec,
          MaxTime       \* bound: initialTime and the time of newTask are in 0..MaxTime

VARIABLES mode, cancelOnError,  \* options
          initialTime,  \* option initialTime, -1 if not set
          started,      \* when newTask was called
          delay,        \* until the first trigger
          pc,           \* where the loop is
          awaited,      \* the execution execTask waits for
          cancelled,    \* the context of the task has ended
          err,          \* t.err
          done,         \* what was sent to t.done, "open" if nothing yet
          exec          \* of an execution: "none", "running", "failed" until
                        \* handleError, and "finished"

vars == <<mode, cancelOnError, initialTime, started, delay, pc, awaited, cancelled, err, done, exec>>

TypeOK ==
    /\ mode \in {"FixedRate", "FixedDelay", "RunOnce", "Dynamic"} /\ cancelOnError \in BOOLEAN
    /\ initialTime \in -1..MaxTime /\ started \in 0..MaxTime
    /\ delay \in Nat
    /\ pc \in {"first", "await", "repeat", "closing", "closed"}
    /\ awaited \in Exec \cup {NoExec}
    /\ cancelled \in BOOLEAN
    /\ err \in {"nil", "Canceled", "failed"}
    /\ done \in {"open", "nil", "Canceled", "failed"}
    /\ exec \in [Exec -> {"none", "running", "failed", "finished"}]

\* Go's % takes the sign of the dividend.
Rem(a, b) == IF a >= 0 THEN a % b ELSE -((-a) % b)

\* Mutant: the sign of Go's remainder is made up for in the wrong way.
FirstDelayUnadjusted(initial, now) ==
    IF initial = -1 \/ mode = "Dynamic" THEN 0
    ELSE IF initial >= now THEN initial - now
    ELSE IF mode = "FixedRate" THEN (-Rem(initial - now, Interval)) % Interval ELSE 0

\* How long loop waits for the first trigger. In mode Dynamic it is up to the
\* cron expression.
FirstDelay(initial, now) ==
    IF initial = -1 \/ mode = "Dynamic" THEN 0
    ELSE IF initial >= now THEN initial - now
    ELSE IF mode = "FixedRate" THEN Rem(Interval + Rem(initial - now, Interval), Interval) ELSE 0

\* newTask, with any options.
Init ==
    /\ mode \in {"FixedRate", "FixedDelay", "RunOnce", "Dynamic"} /\ cancelOnError \in BOOLEAN
    /\ initialTime \in -1..MaxTime /\ started \in 0..MaxTime
    /\ delay = FirstDelay(initialTime, started)
    /\ pc = "first" /\ awaited = NoExec
    /\ cancelled = FALSE /\ err = "nil" /\ done = "open"
    /\ exec = [e \in Exec |-> "none"]

options == <<mode, cancelOnError, initialTime, started, delay>>

\* execTask starts an execution and waits for it if told so.
ExecTask(wait) ==
    \E e \in Exec : /\ exec[e] = "none"
                    /\ exec' = [exec EXCEPT ![e] = "running"]
                    /\ awaited' = IF wait THEN e ELSE NoExec
                    /\ pc' = IF wait THEN "await" ELSE "repeat"

\* The select for the first trigger, and those of fixedIntervalLoop,
\* fixedDelayLoop and dynamicTriggerLoop: the timer fires.
Trigger ==
    /\ pc \in {"first", "repeat"}
    /\ ExecTask(mode \in {"FixedDelay", "RunOnce"})
    /\ UNCHANGED <<options, cancelled, err, done>>

\* The same selects: the context has ended.
LoopCancelled ==
    /\ pc \in {"first", "repeat"} /\ cancelled
    /\ pc' = "closing"
    /\ UNCHANGED <<options, awaited, cancelled, err, done, exec>>

\* errCh delivers the awaited execution.
Awaited ==
    /\ pc = "await" /\ exec[awaited] = "finished"
    /\ exec' = [exec EXCEPT ![awaited] = "none"]
    /\ awaited' = NoExec
    /\ pc' = IF mode = "RunOnce" THEN "closing" ELSE "repeat"
    /\ UNCHANGED <<options, cancelled, err, done>>

\* The deferred end of loop.
Close ==
    /\ pc = "closing"
    /\ done' = err
    /\ pc' = "closed"
    /\ UNCHANGED <<options, awaited, cancelled, err, exec>>

\* Where an execution is over: nobody but execTask looks at errCh.
Over(e) == IF e = awaited THEN "finished" ELSE "none"

\* The task function returns nil, or an error or a panic.
Succeeds(e) ==
    /\ exec[e] = "running"
    /\ exec' = [exec EXCEPT ![e] = Over(e)]
    /\ UNCHANGED <<options, pc, awaited, cancelled, err, done>>

Fails(e) ==
    /\ exec[e] = "running"
    /\ exec' = [exec EXCEPT ![e] = "failed"]
    /\ UNCHANGED <<options, pc, awaited, cancelled, err, done>>

\* handleError, and errCh is served.
HandleError(e) ==
    /\ exec[e] = "failed"
    /\ err' = "failed"
    /\ cancelled' = (cancelled \/ cancelOnError)
    /\ exec' = [exec EXCEPT ![e] = Over(e)]
    /\ UNCHANGED <<options, pc, awaited, done>>

\* TaskCanceller.Cancel, at any time and any number of times.
Cancel ==
    /\ err' = "Canceled"
    /\ cancelled' = TRUE
    /\ UNCHANGED <<options, pc, awaited, done, exec>>

Next == \/ Trigger \/ LoopCancelled \/ Awaited \/ Close \/ Cancel
        \/ \E e \in Exec : Succeeds(e) \/ Fails(e) \/ HandleError(e)

Spec == Init /\ [][Next]_vars

\* Goroutines are scheduled, timers fire and task functions return. A select
\* picks at random among the cases that are ready: the end of the context is
\* seen after finitely many triggers.
Fairness ==
    /\ WF_vars(Trigger) /\ SF_vars(LoopCancelled) /\ WF_vars(Awaited) /\ WF_vars(Close)
    /\ \A e \in Exec : WF_vars(Succeeds(e) \/ Fails(e)) /\ WF_vars(HandleError(e))

FairSpec == Spec /\ Fairness

-----------------------------------------------------------------------------
\* loop: "adjust using interval (first positive trigger time)". At a fixed rate
\* the first trigger is the first one not in the past of the grid of Interval
\* through initialTime; otherwise a past initialTime means at once.
FirstTriggerOnGrid ==
    initialTime # -1 /\ mode # "Dynamic" =>
        /\ started + delay >= initialTime
        /\ mode = "FixedRate" => (started + delay - initialTime) % Interval = 0
        /\ initialTime <= started => delay < (IF mode = "FixedRate" THEN Interval ELSE 1)

\* scheduler.go on WithDelay: "Long-running tasks will never overlap". The same
\* goes for RunOnce.
NeverOverlap ==
    mode \in {"FixedDelay", "RunOnce"} => Cardinality({e \in Exec : exec[e] # "none"}) <= 1

\* Whoever waits on Cancelled() of a repeated task gets the reason: Cancel and
\* handleError set t.err before the loop can see the end of the context, and the
\* loop reads it under t.mtx.
ReasonIsTold == pc = "closed" /\ mode # "RunOnce" => done # "nil"

\* A cancelled task ends and says so on Cancelled().
CancelEnds == cancelled ~> pc = "closed"

\* scheduler.go on CancelOnError: "automatically cancel the scheduled task if any
\* execution returns non-nil error", overlapping executions included.
ErrorCancels == cancelOnError => \A e \in Exec : exec[e] = "failed" ~> done \in {"Canceled", "failed"}
=============================================================================
