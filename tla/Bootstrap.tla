----------------------------- MODULE Bootstrap ------------------------------
(* bootstrap: NewApp collects the registered modules and the modules they    *)
(* name, sorts them by precedence and gives their options to fx; Run starts  *)
(* the hooks those options append, waits for a signal and stops them.        *)
(* EnableCliRunnerMode adds a module whose hook executes runners and then    *)
(* shuts the application down. Every module has one hook. fx is external.    *)
EXTENDS Integers, Sequences, FiniteSets, SequencesExt

CONSTANTS Module,
          CliRunner,    \* the module EnableCliRunnerMode registers
          Applications  \* [roots, priority, sub, prec, calls]: the modules registered, those
                        \* with priority options, the modules each one names, precedences,
                        \* and the sets of runners given to EnableCliRunnerMode

VARIABLES app,
          resolved,     \* resolvedModules
          unvisited,    \* what the loop over them will still come to in this round
          before,       \* the number of modules at the start of the round
          pc,           \* "resolving", "starting", "running", "stopping", "exited"
          hooks,        \* the modules by the order of their hooks
          started,      \* hooks started and not stopped
          runners,      \* the runners, sorted
          ran,          \* the runners executed
          err,          \* a runner has failed
          failed,       \* Start, or a hook's OnStop, has returned an error
          signal,       \* the channel of Done() holds a signal
          stopped,      \* the hooks stopped
          timedOut      \* Start or Stop has run out of time

vars == <<app, resolved, unvisited, before, pc, hooks, started, runners, ran, err, failed, signal,
          stopped, timedOut>>

newApp == <<app, resolved, unvisited, before, hooks, runners>>

\* EnableCliRunnerMode finds the module if there is one, and adds to its providers.
Providers(a) == UNION Range(a.calls)
Registered(a) == a.roots \cup (IF a.calls = <<>> THEN {} ELSE {CliRunner})

Init ==
    /\ app \in Applications
    /\ resolved = Registered(app) /\ unvisited = resolved /\ before = Cardinality(resolved)
    /\ pc = "resolving"
    /\ hooks = <<>> /\ started = 0 /\ runners = <<>> /\ ran = <<>>
    /\ err = FALSE /\ failed = FALSE /\ signal = FALSE /\ stopped = <<>> /\ timedOut = FALSE

-----------------------------------------------------------------------------
\* The loop adds to the map it ranges over, and may come to what it adds or not.
Visit(m) ==
    /\ pc = "resolving" /\ m \in unvisited
    /\ resolved' = resolved \cup app.sub[m]
    /\ \E more \in SUBSET (app.sub[m] \ resolved) : unvisited' = (unvisited \ {m}) \cup more
    /\ UNCHANGED <<app, before, pc, hooks, started, runners, ran, err, failed, signal, stopped, timedOut>>

NextRound ==
    /\ pc = "resolving" /\ unvisited = {} /\ before # Cardinality(resolved)
    /\ before' = Cardinality(resolved) /\ unvisited' = resolved
    /\ UNCHANGED <<app, resolved, pc, hooks, started, runners, ran, err, failed, signal, stopped, timedOut>>

\* The values of a map, and of a group of fx, come in any order; sorting keeps the order
\* of those that compare alike.
Sorted(s, key) == \A m, n \in DOMAIN s : m < n => key[s[m]] <= key[s[n]]
Arrangements(S, key) == {s \in SetToSeqs(S) : Sorted(s, key)}

\* Priority options of all modules come before other options.
Options(modules, priority) ==
    SelectSeq(modules, LAMBDA m : m \in priority) \o SelectSeq(modules, LAMBDA m : m \notin priority)

\* cliRunnerExec: a runner without order has order 0, and comes before those with it.
RunnerRank(S) == [r \in S |-> IF r.ordered THEN 2 * r.o + 1 ELSE 0]

\* The modules are sorted and their options given to fx, which collects the runners; by
\* itself, the mutant that takes one round to be enough.
Assemble ==
    /\ pc = "resolving" /\ unvisited = {}
    /\ \E modules \in Arrangements(resolved, app.prec) : hooks' = Options(modules, app.priority)
    /\ runners' \in Arrangements(Providers(app), RunnerRank(Providers(app)))
    /\ pc' = "starting"
    /\ UNCHANGED <<app, resolved, unvisited, before, started, ran, err, failed, signal, stopped, timedOut>>

\* The loop ends with a round that has added nothing.
NewApp == before = Cardinality(resolved) /\ Assemble

-----------------------------------------------------------------------------
\* fx starts the hooks one after the other; when one fails it stops those before it.
Hook == hooks[started + 1]

OnStart ==
    /\ pc = "starting" /\ started < Len(hooks) /\ Hook # CliRunner
    /\ \/ started' = started + 1 /\ UNCHANGED <<pc, failed>>
       \/ failed' = TRUE /\ pc' = "stopping" /\ UNCHANGED started
    /\ UNCHANGED <<newApp, ran, err, signal, stopped, timedOut>>

AtRunners == pc = "starting" /\ started < Len(hooks) /\ Hook = CliRunner

RunRunner ==
    /\ AtRunners /\ ~err /\ Len(ran) < Len(runners)
    /\ ran' = Append(ran, runners[Len(ran) + 1])
    /\ err' \in BOOLEAN
    /\ UNCHANGED <<newApp, pc, started, failed, signal, stopped, timedOut>>

\* Shutdown puts a signal into the channel of Done(), and fails if there is one.
RunnersEnd ==
    /\ AtRunners /\ (err \/ Len(ran) = Len(runners))
    /\ IF signal THEN failed' = TRUE /\ pc' = "stopping" /\ UNCHANGED <<started, signal>>
       ELSE signal' = TRUE /\ started' = started + 1 /\ UNCHANGED <<failed, pc>>
    /\ UNCHANGED <<newApp, ran, err, stopped, timedOut>>

Started ==
    /\ pc = "starting" /\ started = Len(hooks) /\ pc' = "running"
    /\ UNCHANGED <<newApp, started, ran, err, failed, signal, stopped, timedOut>>

\* A signal of the operating system.
Interrupt ==
    /\ pc \in {"starting", "running"} /\ ~signal /\ signal' = TRUE
    /\ UNCHANGED <<newApp, pc, started, ran, err, failed, stopped, timedOut>>

Run ==
    /\ pc = "running" /\ signal /\ pc' = "stopping"
    /\ UNCHANGED <<newApp, started, ran, err, failed, signal, stopped, timedOut>>

\* The hooks are stopped the other way round, all of them; the runners' hook tells the
\* error of a runner.
OnStop ==
    /\ pc = "stopping" /\ started > 0
    /\ started' = started - 1
    /\ stopped' = Append(stopped, hooks[started])
    /\ IF hooks[started] = CliRunner THEN failed' = (failed \/ err)
       ELSE failed' \in {failed, TRUE}
    /\ UNCHANGED <<newApp, pc, ran, err, signal, timedOut>>

\* The process ends, with a code other than 0 if there was an error.
Exit ==
    /\ pc = "stopping" /\ started = 0 /\ pc' = "exited"
    /\ UNCHANGED <<newApp, started, ran, err, failed, signal, stopped, timedOut>>

\* Start or Stop returns while a hook goes on, and Run leaves by exit(1).
TimeOut ==
    /\ pc \in {"starting", "stopping"} /\ pc' = "exited"
    /\ failed' = TRUE /\ timedOut' = TRUE
    /\ UNCHANGED <<newApp, started, ran, err, signal, stopped>>

Next ==
    \/ \E m \in Module : Visit(m)
    \/ NextRound \/ NewApp \/ OnStart \/ RunRunner \/ RunnersEnd \/ Started \/ Interrupt \/ Run
    \/ OnStop \/ Exit \/ TimeOut

Spec == Init /\ [][Next]_vars

-----------------------------------------------------------------------------
\* Every state variable has a value of its type.
TypeOK ==
    /\ app \in Applications
    /\ resolved \subseteq Module /\ unvisited \subseteq resolved /\ before \in 0 .. Cardinality(Module)
    /\ pc \in {"resolving", "starting", "running", "stopping", "exited"}
    /\ Range(hooks) \subseteq Module /\ started \in 0 .. Len(hooks)
    /\ Range(runners) \subseteq Providers(app) /\ Len(ran) <= Len(runners)
    /\ {err, failed, signal, timedOut} \subseteq BOOLEAN
    /\ Range(stopped) \subseteq Range(hooks)

\* Every module that is registered, or named by one that is used, is used, once; those
\* with priority options first, each by precedence, whatever order the maps had.
ModulesComplete ==
    LET Closed(S) == Registered(app) \subseteq S /\ \A m \in S : app.sub[m] \subseteq S
        Needed == {m \in Module : \A S \in SUBSET Module : Closed(S) => m \in S}
        Early(m) == IF m \in app.priority THEN 0 ELSE 1
    IN  pc # "resolving" =>
            /\ Range(hooks) = Needed /\ Len(hooks) = Cardinality(Needed)
            /\ \A k, l \in DOMAIN hooks : k < l =>
                 \/ Early(hooks[k]) < Early(hooks[l])
                 \/ Early(hooks[k]) = Early(hooks[l]) /\ app.prec[hooks[k]] <= app.prec[hooks[l]]

\* Runners are executed by their order, after all other hooks have started, and unless
\* one fails at least those of the last EnableCliRunnerMode before the application stops
\* (LastCallOverrides is about the others); then every hook that was started is stopped,
\* and the process does not end well if a runner has failed, unless it has run out of
\* time.
RunnersServed ==
    /\ ran # <<>> /\ pc = "starting" => Range(hooks) \ {CliRunner} \subseteq {hooks[k] : k \in 1 .. started}
    /\ \A k, l \in DOMAIN ran : k < l =>
         (IF ran[k].ordered THEN ran[k].o ELSE 0) <= (IF ran[l].ordered THEN ran[l].o ELSE 0)
    /\ CliRunner \in Range(stopped) /\ ~err => Last(app.calls) \subseteq Range(ran)
    /\ pc = "exited" /\ ~timedOut =>
         /\ err => failed
         /\ ~failed => Range(stopped) = Range(hooks)
         /\ \A k, l \in DOMAIN hooks : k < l /\ hooks[l] \in Range(stopped) => hooks[k] \in Range(stopped)

\* cmd_runner.go on EnableCliRunnerMode: "calling this function repeatedly would override
\* previous invocation (i.e. only the last invocation takes effect)". The code adds to
\* the providers of the calls before.
LastCallOverrides == ran # <<>> => Range(ran) \subseteq Last(app.calls)
=============================================================================
