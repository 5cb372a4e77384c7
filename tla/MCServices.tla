----------------------------- MODULE MCServices -----------------------------
(* The components that run by themselves, side by side: `part' says which of *)
(* them a behaviour is about. Only one of them has a state in a behaviour,   *)
(* so they keep it in the same variables; Tenancy, which this module         *)
(* extends, has its own.                                                     *)
EXTENDS Tenancy, Integers, Sequences, TLC

CONSTANTS NoCaller, NoKey, NoTask, NoExec, Fallback, NoService, NoCallback, NoRefresher,
          NoMember, Default, Unset, Never, Unread, Nobody, Viewer, Lifecycle, Always,
          Off           \* the value of a variable the component does not use

VARIABLES part, v1, v2, v3, v4, v5, v6, v7, v8, v9, v10, v11, v12, v13, v14, v15, v16, v17, v18

serviceVars == <<part, vars, v1, v2, v3, v4, v5, v6, v7, v8, v9, v10, v11, v12, v13, v14, v15,
                 v16, v17, v18>>

-----------------------------------------------------------------------------
\* Clients are interchangeable wherever a component has them.
ClientSymmetry == Permutations(Client)

\* TaskLoop: repeated tasks next to single ones.
LoopKind == ("once" :> "Do") @@ ("waited" :> "DoAndWait") @@ ("again" :> "Repeat")
            @@ ("again2" :> "Repeat")

\* Tenancy: a chain of three tenants, and a store that has lost its root.
MCTenantStores == {("t1" :> NoTenant) @@ ("t2" :> "t1") @@ ("t3" :> "t2"),
                   ("t2" :> "t1") @@ ("t3" :> "t2")}
TenantOps == [bootstrap |-> 3, serving |-> 4, churn |-> 2]

\* Migration: a release and the next one, which adds a step in the middle.
MigrationReleases == << {<<1>>, <<1, 1>>}, {<<1>>, <<1, 0>>, <<1, 1>>, <<2>>} >>

\* AppConfig: default files that may name profiles, and files of profiles that may
\* add to them or override them.
Says(active, additional) == [active : active, additional : additional]
File(g, k, settings) == [{<<g, k>>} -> settings]
ConfigFiles ==
    {v @@ w @@ x @@ y @@ z :
        v \in File("bootstrap", Default, Says({Unset, <<"a">>}, {<<>>, <<"b">>})),
        w \in File("bootstrap", "a", Says({Unset, <<"b">>}, {<<>>, <<"b">>})) \cup {<<>>},
        x \in File("bootstrap", "b", Says({Unset}, {<<>>})) \cup {<<>>},
        y \in File("application", Default, Says({Unset, <<"b">>}, {<<>>, <<"a">>})),
        z \in File("application", "b", Says({Unset, <<"a">>}, {<<>>}))}

\* Placeholders: each of three properties may be missing, plain, one placeholder with
\* or without a default, text with a placeholder, or two placeholders of two keys.
Properties == {"a", "b", "c"}
Part(k, t) == [key |-> k, text |-> t]
PropertyValues ==
    {<<Part(NoKey, t)>> : t \in {"nil", "x"}}
    \cup {<<Part(k, d)>> : k \in Properties, d \in {"", "d"}}
    \cup {<<Part(NoKey, "x"), Part(k, "")>> : k \in Properties}
    \cup {<<Part(e[1], ""), Part(e[2], "d")>> : e \in {e \in Properties \X Properties : e[1] # e[2]}}
PropertySources == [Properties -> PropertyValues]

\* Order: objects of every kind, with two values each; some implement both interfaces
\* and are ordered differently by them.
OrderObjects ==
    [priority : {TRUE}, ordered : {FALSE}, p : {1, 2}, o : {0}]
    \cup [priority : {FALSE}, ordered : {TRUE}, p : {0}, o : {1, 2}]
    \cup {[priority |-> TRUE, ordered |-> TRUE, p |-> 1, o |-> 2],
          [priority |-> TRUE, ordered |-> TRUE, p |-> 2, o |-> 1],
          [priority |-> FALSE, ordered |-> FALSE, p |-> 0, o |-> 0]}

\* Registrar: the framework's customizers, and applications that have two mappings for a
\* path, middlewares from several places, and two sets of other things: routes that
\* clash, customizers of every kind and ones that fail, matchers that fail, translators
\* of errors.
Customizer(n, priority, ordered, value, globals, items, fails) ==
    [kind |-> "customizer", name |-> n, priority |-> priority, ordered |-> ordered, p |-> value,
     o |-> value, globals |-> [k \in DOMAIN globals |-> [kind |-> "global", name |-> globals[k], cond |-> Always]],
     items |-> items, fails |-> fails]
Unordered(n) == Customizer(n, FALSE, FALSE, 0, <<n>>, <<>>, FALSE)
Mapping(n, method, group, path, cond) ==
    [kind |-> "mapping", name |-> n, method |-> method, group |-> group, path |-> path, cond |-> cond,
     mvc |-> TRUE]
Middleware(n, o, paths, cond) ==
    [kind |-> "middleware", name |-> n, o |-> o, methods |-> {}, paths |-> paths, cond |-> cond,
     fails |-> FALSE]
Controller(items) == [kind |-> "controller", items |-> items]
Translator(kind, n, ordered, o, cond, to) ==
    [kind |-> kind, name |-> n, priority |-> FALSE, ordered |-> ordered, p |-> 0, o |-> o,
     methods |-> {"GET"}, paths |-> {<<"a", ":var">>}, cond |-> cond, to |-> to, fails |-> FALSE]
Unsupported == [kind |-> "unsupported"]
List == [Mapping("list", "GET", <<>>, <<"a">>, Always) EXCEPT !.mvc = FALSE]
Failing(m) == [m EXCEPT !.fails = TRUE]
WebBase ==
    {Controller(<<Mapping("page", "GET", <<>>, <<"a", ":id">>, Always),
                  Mapping("item", "GET", <<>>, <<"a", ":id">>, "json")>>),
     Middleware("session", 2, {}, Always),
     [Middleware("audit", 0, {}, "json") EXCEPT !.methods = {"GET"}],
     Customizer("security", FALSE, TRUE, 1, <<>>,
                <<Middleware("auth", 1, {<<"a", ":var">>}, "form")>>, FALSE)}
WebExtras ==
    {{List, Mapping("any", "ANY", <<"b">>, <<"a">>, Always)},
     {List, Mapping("any", "ANY", <<>>, <<"a">>, "json")},
     {Mapping("other", "GET", <<>>, <<"a", ":key">>, "form")},
     {Mapping("grouped", "GET", <<"a">>, <<":id">>, Always)},
     {Mapping("page2", "GET", <<>>, <<"a", ":id">>, Always)},
     {Mapping("deep", "GET", <<>>, <<"a", ":key", "b">>, Always)},
     {Unordered("cors"), Customizer("early", TRUE, FALSE, -1, <<"early">>, <<>>, FALSE)},
     {Customizer("broken", FALSE, FALSE, 0, <<"broken">>, <<>>, TRUE)},
     {Controller(<<List, Unsupported>>)},
     {Customizer("odd", FALSE, FALSE, 0, <<>>, <<Unsupported>>, FALSE)},
     {Translator("translator", "plain", FALSE, 0, Always, "plain"),
      Translator("errorMapping", "mapped", TRUE, 1, "json", "plain")},
     {Translator("translator", "first", TRUE, 2, Always, "same"),
      Translator("errorMapping", "mapped", TRUE, 1, Always, "plain")},
     {Failing(Middleware("faulty", 3, {}, Always))},
     {Failing(Translator("errorMapping", "faulty", TRUE, 1, Always, "same"))}}
WebApps == {WebBase \cup x \cup y : x, y \in WebExtras}

\* Bootstrap: modules that name one another, in a circle too, of which some have the
\* same precedence, and calls of EnableCliRunnerMode.
Modules == {"init", "config", "web", "cors", "data", "cli"}
Precedence == ("init" :> 0) @@ ("config" :> 1) @@ ("data" :> 1) @@ ("web" :> 2) @@ ("cors" :> 2)
              @@ ("cli" :> 3)
Submodules(x) == ("web" :> {"cors"}) @@ ("cors" :> x) @@ ("data" :> {"config"})
                 @@ [m \in Modules |-> {}]
Runner(n, ordered, o) == [name |-> n, ordered |-> ordered, o |-> o]
CliCalls == {<<>>, <<{Runner("a", FALSE, 0), Runner("b", TRUE, 0)}>>,
             <<{Runner("a", TRUE, 1)}, {Runner("b", FALSE, 0), Runner("c", TRUE, -1)}>>}
CliApps == [roots : {{"init", "web"}, {"init", "web", "data"}}, priority : {{"init", "config"}},
            sub : {Submodules(x) : x \in {{}, {"data"}, {"data", "web"}}}, prec : {Precedence},
            calls : CliCalls]

-----------------------------------------------------------------------------
Loop == INSTANCE TaskLoop WITH
    Task <- {"once", "waited", "again", "again2"}, Kind <- LoopKind,
    ctx <- v1, pc <- v2, current <- v3, queue <- v4, status <- v5, answer <- v6
Sched == INSTANCE Scheduler WITH
    Interval <- 3, Exec <- {"e1", "e2"}, MaxTime <- 7,
    mode <- v1, cancelOnError <- v2, initialTime <- v3, started <- v4, delay <- v5,
    pc <- v6, awaited <- v7, cancelled <- v8, err <- v9, done <- v10, exec <- v11
Cache == INSTANCE MemCache WITH
    Caller <- Client, Key <- {"k"}, LoadRetry <- 1, MaxCalls <- 3,
    store <- v1, writer <- v2, created <- v3, keyOf <- v4, base <- v5, loaded <- v6,
    failed <- v7, expired <- v8, invalid <- v9, dropped <- v10, pc <- v11, key <- v12,
    at <- v13, tries <- v14, fresh <- v15, calls <- v16, floor <- v17, since <- v18
Instances == INSTANCE Instancer WITH
    Reader <- {"r1", "r2"}, Refresh <- "refresh", Insts <- {"i1", "none"}, MaxChanges <- 1,
    MaxFaults <- 1, MaxCalls <- 2, MaxWork <- 3,
    kind <- v1, registry <- v2, ctx <- v3, pc <- v4, current <- v5, queue <- v6,
    status <- v7, answer <- v8, started <- v9, cache <- v10, lastIndex <- v11, at <- v12,
    fetched <- v13, notify <- v14, known <- v15, calls <- v16, faults <- v17
Tokens == INSTANCE TokenRefresher WITH
    Refresher <- {"r1", "r2"}, MaxOutages <- 2, MaxExpiries <- 3,
    auth <- v1, renewable <- v2, token <- v3, up <- v4, refresher <- v5, cancelled <- v6,
    pc <- v7, renewer <- v8, outages <- v9, expiries <- v10
Consumer == INSTANCE KafkaConsumer WITH
    Member <- {"m1", "m2"}, Last <- 2, MaxSessions <- 2, MaxFaults <- 2,
    owner <- v1, session <- v2, position <- v3, marked <- v4, committed <- v5,
    flight <- v6, ends <- v7, loop <- v8, faults <- v9
Migrator == INSTANCE Migration WITH
    Process <- {"p1", "p2"}, Releases <- MigrationReleases,
    Tagged <- {<<1, 0>>, <<1, 1>>}, MaxRuns <- 3, MaxFaults <- 2,
    allowOutOfOrder <- v1, filter <- v2, release <- v3, table <- v4, nils <- v5,
    unrecorded <- v6, run <- v7, overlapped <- v8, runs <- v9, faults <- v10
Config == INSTANCE AppConfig WITH
    Profile <- {"a", "b"}, Files <- ConfigFiles, MaxLoads <- 2, MaxFaults <- 1,
    MaxRounds <- 8,
    file <- v1, cli <- v2, stage <- v3, lookup <- v4, resolved <- v5, cliLoaded <- v6,
    final <- v7, rounds <- v8, pc <- v9, isLoaded <- v10, properties <- v11,
    providers <- v12, forced <- v13, loads <- v14, faults <- v15
Props == INSTANCE Placeholders WITH
    Property <- Properties, Sources <- PropertySources,
    given <- v1, source <- v2, unvisited <- v3, resolution <- v4
Http == INSTANCE HttpClient WITH
    Caller <- Client,
    Lists <- {<<"i1", "i2">>, <<"i1", "i2", "i3">>}, MaxRetries <- 3,
    InvalidateTimeout <- 0, MaxTime <- 1, MaxCalls <- 2, MaxFaults <- 1, MaxChanges <- 1,
    now <- v1, svc <- v2, c <- v3, at <- v4, n <- v5, answer <- v6, expired <- v7,
    lastErr <- v8, outcome <- v9, late <- v10, hits <- v11, processed <- v12,
    calls <- v13, faults <- v14, changes <- v15, seen <- v16, stale <- v17
Collector == INSTANCE Monitor WITH
    MaxStarts <- 2,
    started <- v1, epoch <- v2, channel <- v3, lock <- v4, readers <- v5, want <- v6,
    viewer <- v7, collector <- v8, cancelled <- v9, targets <- v10
Certs == INSTANCE CertSource WITH
    User <- {"u1", "u2"}, TTLs <- {1, 2, 3, 5}, MinRenews <- {1, 2}, MaxTime <- 6,
    MaxFailures <- 3,
    kind <- v1, ttl <- v2, minRenew <- v3, now <- v4, once <- v5, cert <- v6,
    exported <- v7, renewal <- v8, due <- v9, life <- v10, result <- v11, outage <- v12
Sorting == INSTANCE Order WITH
    Objects <- OrderObjects, MaxLen <- 3,
    compare <- v1, input <- v2, place <- v3, i <- v4, j <- v5
Web == INSTANCE Registrar WITH
    Apps <- WebApps, Framework <- <<Unordered("logging"), Unordered("recovery"), Unordered("errors")>>,
    GinContext <- Customizer("context", TRUE, FALSE, 0, <<"context">>, <<>>, FALSE),
    Parameter <- {":id", ":key"}, Conditions <- {"json", "form"},
    app <- v1, left <- v2, pending <- v3, pc <- v4, applied <- v5, customizers <- v6,
    middlewares <- v7, errMappings <- v8, errTranslators <- v9, routedMappings <- v10,
    engine <- v11, router <- v12, routes <- v13, server <- v14, request <- v15
Boot == INSTANCE Bootstrap WITH
    Module <- Modules, CliRunner <- "cli", Applications <- CliApps,
    app <- v1, resolved <- v2, unvisited <- v3, before <- v4, pc <- v5, hooks <- v6,
    started <- v7, runners <- v8, ran <- v9, err <- v10, failed <- v11, signal <- v12,
    stopped <- v13, timedOut <- v14

-----------------------------------------------------------------------------
\* What a component leaves alone: the variables from some number on.
Rest18 == v18
Rest17 == <<v17, Rest18>>
Rest16 == <<v16, Rest17>>
Rest15 == <<v15, Rest16>>
Rest14 == <<v14, Rest15>>
Rest13 == <<v13, Rest14>>
Rest12 == <<v12, Rest13>>
Rest11 == <<v11, Rest12>>
Rest10 == <<v10, Rest11>>
Rest9 == <<v9, Rest10>>
Rest8 == <<v8, Rest9>>
Rest7 == <<v7, Rest8>>
Rest6 == <<v6, Rest7>>
Rest5 == <<v5, Rest6>>
Rest1 == <<v1, v2, v3, v4, Rest5>>

Off18 == v18 = Off
Off17 == v17 = Off /\ Off18
Off16 == v16 = Off /\ Off17
Off15 == v15 = Off /\ Off16
Off14 == v14 = Off /\ Off15
Off13 == v13 = Off /\ Off14
Off12 == v12 = Off /\ Off13
Off11 == v11 = Off /\ Off12
Off10 == v10 = Off /\ Off11
Off9 == v9 = Off /\ Off10
Off8 == v8 = Off /\ Off9
Off7 == v7 = Off /\ Off8
Off6 == v6 = Off /\ Off7
Off5 == v5 = Off /\ Off6
Off1 == v1 = Off /\ v2 = Off /\ v3 = Off /\ v4 = Off /\ Off5

ServicesInit ==
    /\ \/ part = "tenancy" /\ Off1
       \/ part = "loop" /\ Loop!Init /\ Off7
       \/ part = "scheduler" /\ Sched!Init /\ Off12
       \/ part = "cache" /\ Cache!Init
       \/ part = "instancer" /\ Instances!Init /\ Off18
       \/ part = "token" /\ Tokens!Init /\ Off11
       \/ part = "consumer" /\ Consumer!Init /\ Off10
       \/ part = "migration" /\ Migrator!Init /\ Off11
       \/ part = "config" /\ Config!Init /\ Off16
       \/ part = "placeholders" /\ Props!Init /\ Off5
       \/ part = "client" /\ Http!Init /\ Off18
       \/ part = "monitor" /\ Collector!Init /\ Off11
       \/ part = "cert" /\ Certs!Init /\ Off13
       \/ part = "order" /\ Sorting!Init /\ Off6
       \/ part = "web" /\ Web!Init /\ Off16
       \/ part = "bootstrap" /\ Boot!Init /\ Off15
    /\ Init
    /\ part # "tenancy" => mode = "bootstrap" /\ store = CHOOSE s \in TenantStores : TRUE

\* A step of one of the other components.
ServiceStep ==
    \/ part = "loop" /\ Loop!Next /\ UNCHANGED Rest7
    \/ part = "scheduler" /\ Sched!Next /\ UNCHANGED Rest12
    \/ part = "cache" /\ Cache!Next
    \/ part = "instancer" /\ Instances!Next /\ UNCHANGED Rest18
    \/ part = "token" /\ Tokens!Next /\ UNCHANGED Rest11
    \/ part = "consumer" /\ Consumer!Next /\ UNCHANGED Rest10
    \/ part = "migration" /\ Migrator!Next /\ UNCHANGED Rest11
    \/ part = "config" /\ Config!Next /\ UNCHANGED Rest16
    \/ part = "placeholders" /\ Props!Next /\ UNCHANGED Rest5
    \/ part = "client" /\ Http!Next /\ UNCHANGED Rest18
    \/ part = "monitor" /\ Collector!Next /\ UNCHANGED Rest11
    \/ part = "cert" /\ Certs!Next /\ UNCHANGED Rest13
    \/ part = "order" /\ Sorting!Next /\ UNCHANGED Rest6
    \/ part = "web" /\ Web!Next /\ UNCHANGED Rest16
    \/ part = "bootstrap" /\ Boot!Next /\ UNCHANGED Rest15

ServicesNext ==
    /\ UNCHANGED part
    /\ \/ part = "tenancy" /\ Next /\ UNCHANGED Rest1
       \/ ServiceStep /\ UNCHANGED vars

ServicesSpec == ServicesInit /\ [][ServicesNext]_serviceVars

-----------------------------------------------------------------------------
\* Every state variable of the component has a value of its type.
TypesOK ==
    /\ TypeOK
    /\ part = "loop" => Loop!TypeOK
    /\ part = "scheduler" => Sched!TypeOK
    /\ part = "cache" => Cache!TypeOK
    /\ part = "instancer" => Instances!TypeOK
    /\ part = "token" => Tokens!TypeOK
    /\ part = "consumer" => Consumer!TypeOK
    /\ part = "migration" => Migrator!TypeOK
    /\ part = "config" => Config!TypeOK
    /\ part = "placeholders" => Props!TypeOK
    /\ part = "client" => Http!TypeOK
    /\ part = "monitor" => Collector!TypeOK
    /\ part = "cert" => Certs!TypeOK
    /\ part = "order" => Sorting!TypeOK
    /\ part = "web" => Web!TypeOK
    /\ part = "bootstrap" => Boot!TypeOK

\* utils/loop: one task is executed at a time. scheduler: the first trigger of a fixed
\* rate lies on its grid, executions with a fixed delay never overlap, and Cancelled()
\* gives the reason of the end.
WellScheduled ==
    /\ part = "loop" => Loop!OneAtATime
    /\ part = "scheduler" => Sched!FirstTriggerOnGrid /\ Sched!NeverOverlap /\ Sched!ReasonIsTold

\* cacheutils: a key is loaded once at a time, no call returns what was out of date when
\* it began, and no two updates start from the same value.
Coherent == part = "cache" => Cache!Coherent

\* discovery/sd: callbacks are told of every change of what is cached, and a blocking
\* query waits only for what is not cached yet.
ChangesAreSeen == part = "instancer" => Instances!ChangesAreTold /\ Instances!NoMissedChange

\* kafka: no message is committed that has not been dispatched, and one that failed
\* only behind a later one.
OffsetsHold == part = "consumer" => Consumer!NothingSkipped /\ Consumer!FailureHoldsOffset

\* migration: a step on record is not executed again, a step is executed after those
\* that come before it, and nothing is executed after one that failed.
StepsInOrder ==
    part = "migration" => Migrator!OncePerRecord /\ Migrator!Prerequisites /\ Migrator!FailureStops

\* appconfig: a load ends with the files of the profiles it has settled on, after
\* rounds that each brought a new file; placeholders are resolved alike in every
\* order of the visit, and a circular reference makes the load fail.
ConfigurationSettles ==
    /\ part = "config" => Config!Settled /\ Config!RoundsBounded
    /\ part = "placeholders" => Props!Substituted /\ Props!CircularIsTold

\* httpclient: requests go round the instances, however callers interleave; what must
\* not be sent again is not; a call that times out returns the error of its last
\* attempt.
AttemptsAreSound ==
    part = "client" => Http!Balanced /\ Http!NotRepeated /\ Http!LatestErrorTold

\* profiler/monitor: no feed is sent to a closed channel.
NoSendOnClosed == part = "monitor" => Collector!NoSendOnClosed

\* certs: a certificate expires only in an outage of half its life, and a failed first
\* fetch is told to one caller.
CertificateKept == part = "cert" => Certs!RenewedInTime /\ Certs!FailureIsTold

\* utils/order: what is sorted is in the promised order.
SortedStably == part = "order" => Sorting!SortedStably

\* web and bootstrap: whatever order things are registered and maps are walked in, a
\* request passes every middleware that is for it, in order, before it is handled, and is
\* answered if it fails; routes are unambiguous; every module is used, in order; and
\* runners are executed in order and their failure is told.
AssembledAsRegistered ==
    /\ part = "web" => Web!Guarded /\ Web!RunsInOrder /\ Web!Unambiguous /\ Web!FailuresAnswered
    /\ part = "bootstrap" => Boot!ModulesComplete /\ Boot!RunnersServed
=============================================================================
