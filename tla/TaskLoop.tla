------------------------------ MODULE TaskLoop ------------------------------
(* utils/loop/loop.go: a goroutine that executes the tasks sent to it, one   *)
(* after the other, until its context ends. The task channel is unbuffered,  *)
(* so a sender is blocked until the loop takes its task; blocked senders are *)
(* served in their order.                                                    *)
EXTENDS Naturals, Sequences

CONSTANTS Task,         \* the calls of Do, DoAndWait and Repeat
          Kind,         \* which of the three a task is
          NoTask

VARIABLES ctx,          \* l.ctx: "none" before Run, then "live", then "cancelled"
          pc,           \* where loop() is: "off", "select", "do", "gone"
          current,      \* the task do() waits for
          queue,        \* the goroutines blocked in l.taskCh <- task
          status,       \* of a task: "idle", "queued", "running", "asleep" between
                        \* two executions of Repeat, "stopped"
          answer        \* what DoAndWait returned last

vars == <<ctx, pc, current, queue, status, answer>>

Answers == {"none", "value", "error", "panic", "cancelled"}

TypeOK ==
    /\ ctx \in {"none", "live", "cancelled"}
    /\ pc \in {"off", "select", "do", "gone"}
    /\ current \in Task \cup {NoTask}
    /\ queue \in Seq(Task)
    /\ status \in [Task -> {"idle", "queued", "running", "asleep", "stopped"}]
    /\ answer \in [Task -> Answers]

Init ==
    /\ ctx = "none" /\ pc = "off"
    /\ current = NoTask /\ queue = <<>>
    /\ status = [t \in Task |-> "idle"]
    /\ answer = [t \in Task |-> "none"]

\* The first call of Run; any other returns the context there is.
Run ==
    /\ ctx = "none"
    /\ ctx' = "live" /\ pc' = "select"
    /\ UNCHANGED <<current, queue, status, answer>>

\* The cancel function Run returns, or the end of the context given to it.
Cancel ==
    /\ ctx = "live"
    /\ ctx' = "cancelled"
    /\ UNCHANGED <<pc, current, queue, status, answer>>

Send(t) == queue' = Append(queue, t) /\ status' = [status EXCEPT ![t] = "queued"]

\* Do, DoAndWait and Repeat begin.
Call(t) ==
    /\ status[t] = "idle"
    /\ Send(t)
    /\ answer' = [answer EXCEPT ![t] = "none"]
    /\ UNCHANGED <<ctx, pc, current>>

\* The select of loop() takes a task, whether or not the context has ended, and
\* do() starts its goroutine.
Take ==
    /\ pc = "select" /\ queue # <<>>
    /\ current' = Head(queue)
    /\ queue' = Tail(queue)
    /\ status' = [status EXCEPT ![Head(queue)] = "running"]
    /\ pc' = "do"
    /\ UNCHANGED <<ctx, answer>>

\* do() returns: the task is done, or the context has ended under it.
DoReturns ==
    /\ pc = "do"
    /\ status[current] # "running" \/ ctx = "cancelled"
    /\ pc' = "select" /\ current' = NoTask
    /\ UNCHANGED <<ctx, queue, status, answer>>

\* The select of loop() sees the end of the context.
LoopReturns ==
    /\ pc = "select" /\ ctx = "cancelled"
    /\ pc' = "gone"
    /\ UNCHANGED <<ctx, current, queue, status, answer>>

\* Mutant: a panic is recovered without an answer.
EndsUnanswered(t, outcome) ==
    /\ status[t] = "running"
    /\ status' = [status EXCEPT ![t] = IF Kind[t] = "Repeat" THEN "asleep"
                                       ELSE IF outcome = "panic" THEN "stopped" ELSE "idle"]
    /\ answer' = [answer EXCEPT ![t] = IF Kind[t] # "DoAndWait" \/ outcome = "panic" THEN @
                                       ELSE IF ctx = "cancelled" THEN "cancelled" ELSE outcome]
    /\ UNCHANGED <<ctx, pc, current, queue>>

\* The task function returns or panics. The deferred part of a repeated task
\* starts repeatAfter in any case; DoAndWait gets its result, which is the error
\* of the context if that has ended.
Ends(t, outcome) ==
    /\ status[t] = "running"
    /\ status' = [status EXCEPT ![t] = IF Kind[t] = "Repeat" THEN "asleep" ELSE "idle"]
    /\ answer' = [answer EXCEPT ![t] = IF Kind[t] # "DoAndWait" THEN @
                                       ELSE IF ctx = "cancelled" /\ outcome # "panic"
                                         THEN "cancelled" ELSE outcome]
    /\ UNCHANGED <<ctx, pc, current, queue>>

\* The goroutine of repeatAfter: the timer fires, or the context ends.
Wakes(t) ==
    /\ status[t] = "asleep"
    /\ Send(t)
    /\ UNCHANGED <<ctx, pc, current, answer>>

Stops(t) ==
    /\ status[t] = "asleep" /\ ctx = "cancelled"
    /\ status' = [status EXCEPT ![t] = "stopped"]
    /\ UNCHANGED <<ctx, pc, current, queue, answer>>

Next ==
    \/ Run \/ Cancel \/ Take \/ DoReturns \/ LoopReturns
    \/ \E t \in Task : \/ Call(t) \/ Wakes(t) \/ Stops(t)
                       \/ \E outcome \in {"value", "error", "panic"} : Ends(t, outcome)

Spec == Init /\ [][Next]_vars

\* Goroutines are scheduled, timers fire, and task functions return. A select
\* with several ready cases picks one at random: a case that is ready again and
\* again is picked.
Fairness ==
    /\ WF_vars(Take) /\ WF_vars(DoReturns) /\ SF_vars(LoopReturns)
    /\ \A t \in Task : /\ WF_vars(\E outcome \in {"value", "error", "panic"} : Ends(t, outcome))
                       /\ WF_vars(Wakes(t) \/ Stops(t))

FairSpec == Spec /\ Fairness

-----------------------------------------------------------------------------
\* loop_test.go on SubTestExecOrder: "tasks are executed one after another". As
\* long as the context has not ended the only running task is the one do() waits
\* for. (Afterwards a task that ignores its context may meet another one, as the
\* select may still take a task.)
OneAtATime == ctx # "cancelled" => \A t \in Task : status[t] = "running" => t = current /\ pc = "do"

\* Nobody is kept waiting by the others: a task sent to a running loop is
\* executed, unless the loop is cancelled.
EveryTaskRuns ==
    \A t \in Task : status[t] = "queued" /\ ctx = "live" ~> status[t] = "running" \/ ctx = "cancelled"

\* Repeat goes on, whether the task function succeeds, fails or panics.
RepeatsForever ==
    \A t \in Task : Kind[t] = "Repeat" =>
        (status[t] = "running" ~> status[t] = "asleep" \/ ctx = "cancelled")
          /\ (status[t] = "asleep" ~> status[t] = "running" \/ ctx = "cancelled")

\* loop.go on resultCh: "we guarantee that either resultCh is pushed with value".
\* DoAndWait returns once the loop has taken its task, whether the task succeeds,
\* fails, panics or is cancelled.
WaiterAnswered ==
    \A t \in Task : status[t] = "running" /\ Kind[t] = "DoAndWait" ~> answer[t] # "none"

\* Once cancelled the loop ends, and nothing of it runs any more, although
\* repeated tasks and blocked senders keep offering work.
EndsForGood == ctx = "cancelled" ~> [](pc = "gone" /\ \A t \in Task : status[t] # "running")
=============================================================================
