----------------------------- MODULE Registrar ------------------------------
(* web/registrar.go: an application registers controllers, mappings,         *)
(* middlewares, customizers and error translators in the order in which the  *)
(* dependency injection happens to give them; Run applies the customizers,   *)
(* installs every mapping as a route of gin and serves requests. gin and     *)
(* net/http are external. A path is a sequence of segments.                  *)
EXTENDS Integers, Sequences, FiniteSets, SequencesExt

CONSTANTS Apps,         \* the sets of items an application may register
          Framework,    \* the customizers web/init registers first, a sequence
          GinContext,   \* the customizer Initialize adds
          Parameter,    \* the segments that are path parameters
          Conditions,   \* the request matchers mappings and middlewares have
          Always        \* no request matcher

\* gin.Any stands for all methods of HTTP.
Methods == {"GET", "POST"}
MethodsOf(method) == IF method = "ANY" THEN Methods ELSE {method}

NormalizedPath(path) ==
    [k \in DOMAIN path |-> IF path[k] \in Parameter THEN ":var" ELSE path[k]]

VARIABLES app,            \* what the application registers in this behaviour
          left,           \* what of it is still to be registered
          pending,        \* what the current call of Register has still to go through
          pc,             \* "setup", "customizing", "installing", "initialized", "failed", "panicked"
          applied,        \* number of customizers applied
          customizers, middlewares, errMappings, errTranslators,
          routedMappings, \* mappings by method, group and normalized path
          engine,         \* the global middlewares of the gin engine
          router,         \* the ones of the group the routes are added to
          routes,         \* what gin serves
          server,         \* "none", "bound", "serving" or "closed"
          request         \* the request being served

vars == <<app, left, pending, pc, applied, customizers, middlewares, errMappings,
          errTranslators, routedMappings, engine, router, routes, server, request>>

registered == <<customizers, middlewares, errMappings, errTranslators, routedMappings>>

NoRequest == [at |-> 0, ran |-> <<>>, state |-> "none", failure |-> "none", written |-> FALSE,
              encoded |-> "nothing"]

Init ==
    /\ app \in Apps /\ left = app
    /\ pending = Framework
    /\ pc = "setup" /\ applied = 0
    /\ customizers = <<>> /\ middlewares = <<>> /\ errMappings = <<>> /\ errTranslators = <<>>
    /\ routedMappings = <<>>
    /\ engine = <<>> /\ router = <<>> /\ routes = {}
    /\ server = "none" /\ request = NoRequest

-----------------------------------------------------------------------------
\* Sorting. order.SortStable with OrderedFirstCompare, and sort.SliceStable.
Ordering == INSTANCE Order WITH
    Objects <- {}, MaxLen <- 0, compare <- "OrderedFirst", input <- <<>>, place <- <<>>,
    i <- 0, j <- 0

SortStable(s, Less(_, _)) ==
    LET Before(m, n) == Less(s[m], s[n]) \/ (~Less(s[n], s[m]) /\ m < n)
        Place(n) == Cardinality({m \in DOMAIN s : Before(m, n)}) + 1
    IN  [k \in DOMAIN s |-> s[CHOOSE n \in DOMAIN s : Place(n) = k]]

OrderedFirst(s) == SortStable(s, Ordering!OrderedFirstCompare)
ByOrder(s) == LET Less(l, r) == l.o < r.o IN SortStable(s, Less)
ConditionalFirst(s) ==
    LET Less(l, r) == l.cond # Always /\ r.cond = Always IN SortStable(s, Less)

-----------------------------------------------------------------------------
\* Register: the next thing the application has.
Provide(item) ==
    /\ pc = "setup" /\ pending = <<>> /\ item \in left
    /\ left' = left \ {item}
    /\ pending' = <<item>>
    /\ UNCHANGED <<app, pc, applied, registered, engine, router, routes, server, request>>

\* The item that register() looks at, and what it leaves for later.
Item(kind) == pending # <<>> /\ Head(pending).kind = kind /\ pending' = Tail(pending)

RouteKey(m) == <<m.method, m.group, NormalizedPath(m.path)>>

\* A controller is what it maps; a slice, or a struct of controllers, is gone through alike.
registerController ==
    /\ pending # <<>> /\ Head(pending).kind = "controller"
    /\ pending' = Head(pending).items \o Tail(pending)
    /\ UNCHANGED <<pc, registered>>

registerRoutedMapping ==
    /\ Item("mapping")
    /\ LET k == RouteKey(Head(pending))
       IN  routedMappings' = [x \in DOMAIN routedMappings \cup {k} |->
               (IF x \in DOMAIN routedMappings THEN routedMappings[x] ELSE <<>>)
               \o (IF x = k THEN <<Head(pending)>> ELSE <<>>)]
    /\ UNCHANGED <<pc, customizers, middlewares, errMappings, errTranslators>>

registerMiddlewareMapping ==
    /\ Item("middleware")
    /\ middlewares' = Append(middlewares, Head(pending))
    /\ UNCHANGED <<pc, customizers, errMappings, errTranslators, routedMappings>>

registerErrorMapping ==
    /\ Item("errorMapping")
    /\ errMappings' = Append(errMappings, Head(pending))
    /\ UNCHANGED <<pc, customizers, middlewares, errTranslators, routedMappings>>

registerErrorTranslator ==
    /\ Item("translator")
    /\ errTranslators' = Append(errTranslators, Head(pending))
    /\ UNCHANGED <<pc, customizers, middlewares, errMappings, routedMappings>>

registerWebCustomizer ==
    /\ Item("customizer")
    /\ customizers' = OrderedFirst(Append(customizers, Head(pending)))
    /\ UNCHANGED <<pc, middlewares, errMappings, errTranslators, routedMappings>>

\* An unsupported type: MustRegister panics, and an error of a customizer ends Initialize.
registerUnknownType ==
    /\ pending # <<>> /\ Head(pending).kind = "unsupported"
    /\ pending' = <<>>
    /\ pc' = IF pc = "setup" THEN "panicked" ELSE "failed"
    /\ UNCHANGED registered

register ==
    /\ \/ registerController \/ registerRoutedMapping \/ registerMiddlewareMapping
       \/ registerErrorMapping \/ registerErrorTranslator \/ registerWebCustomizer
       \/ registerUnknownType
    /\ UNCHANGED <<app, left, applied, engine, router, routes, server, request>>

-----------------------------------------------------------------------------
\* Initialize.
Initialize ==
    /\ pc = "setup" /\ pending = <<>> /\ left = {}
    /\ customizers' = OrderedFirst(Append(customizers, GinContext))
    /\ pc' = "customizing"
    /\ UNCHANGED <<app, left, pending, applied, middlewares, errMappings, errTranslators,
                   routedMappings, engine, router, routes, server, request>>

\* A customizer adds global middlewares and registers things, but no customizers; or
\* it fails.
applyCustomizer ==
    /\ pc = "customizing" /\ pending = <<>> /\ applied < Len(customizers)
    /\ LET c == customizers[applied + 1]
       IN  /\ engine' = engine \o c.globals
           /\ pending' = IF c.fails THEN <<>> ELSE c.items
           /\ pc' = IF c.fails THEN "failed" ELSE pc
    /\ applied' = applied + 1
    /\ UNCHANGED <<app, left, registered, router, routes, server, request>>

defaultErrorTranslator ==
    [kind |-> "translator", name |-> "default", priority |-> FALSE, ordered |-> FALSE,
     p |-> 0, o |-> 0, cond |-> Always, to |-> "status"]

Customized ==
    /\ pc = "customizing" /\ pending = <<>> /\ applied = Len(customizers)
    /\ errMappings' = OrderedFirst(errMappings)
    /\ errTranslators' = Append(errTranslators, defaultErrorTranslator)
    /\ pc' = "installing"
    /\ UNCHANGED <<app, left, pending, applied, customizers, middlewares, routedMappings, engine,
                   routes, server, request>>

\* The global middlewares there are by now take effect on the group of the routes.
Installs == Customized /\ router' = engine

-----------------------------------------------------------------------------
\* Matchers are given the method, the group and the normalized path; one that has no
\* matcher applies to every route.
routeMatches(m, key) ==
    /\ m.methods = {} \/ key[1] \in m.methods
    /\ m.paths = {} \/ key[2] \o key[3] \in m.paths

\* There is a matcher that returns an error.
MatcherFails(mappings) == \E m \in Range(mappings) : m.fails

findMiddlewares(key) ==
    IF MatcherFails(middlewares) THEN <<>>
    ELSE SelectSeq(ByOrder(middlewares), LAMBDA m : routeMatches(m, key))

\* Mapped translators are ordered, those of the application may be; all of them are
\* sorted once more.
findErrorTranslators(key) ==
    OrderedFirst(errTranslators \o SelectSeq(errMappings, LAMBDA m : routeMatches(m, key)))

\* gin refuses, by a panic, a second route of the same path and another name for the
\* same parameter.
Clash(p, q) ==
    \/ NormalizedPath(p) = NormalizedPath(q)
    \/ \E k \in DOMAIN p \cap DOMAIN q :
         /\ NormalizedPath(SubSeq(p, 1, k)) = NormalizedPath(SubSeq(q, 1, k))
         /\ p[k] # q[k]

Inconsistent(mappings) ==
    \/ \E k \in DOMAIN mappings : mappings[k].path # mappings[1].path
    \/ \E k, l \in DOMAIN mappings : k # l /\ mappings[k].cond = Always /\ mappings[l].cond = Always

\* installRoutedMappings, for the mappings of a method, group and path; the maps are
\* walked in any order. When the matcher of a middleware fails, so does Initialize, but
\* not before the route is added.
installRoutedMappings(key) ==
    /\ pc = "installing"
    /\ LET mappings == ConditionalFirst(routedMappings[key])
           path == mappings[1].path
           full == key[2] \o path
           route == [key |-> key, methods |-> MethodsOf(key[1]), path |-> full,
                     chain |-> router \o findMiddlewares(key) \o mappings,
                     translators |-> findErrorTranslators(key)]
           refused == MatcherFails(errMappings) \/ Inconsistent(mappings)
           clash == \E r \in routes : r.methods \cap route.methods # {} /\ Clash(r.path, full)
       IN  /\ \A r \in routes : r.key # key
           /\ pc' = IF refused THEN "failed" ELSE IF clash THEN "panicked"
                     ELSE IF MatcherFails(middlewares) THEN "failed" ELSE pc
           /\ routes' = IF refused \/ clash THEN routes ELSE routes \cup {route}
    /\ UNCHANGED <<app, left, pending, applied, registered, engine, router, server, request>>

Initialized ==
    /\ pc = "installing" /\ Cardinality(routes) = Cardinality(DOMAIN routedMappings)
    /\ pc' = "initialized"
    /\ UNCHANGED <<app, left, pending, applied, registered, engine, router, routes, server, request>>

-----------------------------------------------------------------------------
\* Run, after Initialize: the port is bound and served by a goroutine.
listenAndServe ==
    /\ pc = "initialized" /\ server = "none"
    /\ \/ server' = "bound" /\ UNCHANGED pc
       \/ pc' = "failed" /\ UNCHANGED server
    /\ UNCHANGED <<app, left, pending, applied, registered, engine, router, routes, request>>

Serve ==
    /\ server = "bound" /\ server' = "serving"
    /\ UNCHANGED <<app, left, pending, pc, applied, registered, engine, router, routes, request>>

\* The server closes its connections; Serve, if it comes later, returns at once.
Stop ==
    /\ server \in {"bound", "serving"} /\ server' = "closed"
    /\ request' = NoRequest
    /\ UNCHANGED <<app, left, pending, pc, applied, registered, engine, router, routes>>

\* A request comes in; matches says what each request matcher will say of it.
Accept(route, matches) ==
    /\ server = "serving" /\ request = NoRequest
    /\ request' = [at |-> 0, ran |-> <<>>, state |-> "handling", failure |-> "none", written |-> FALSE,
                   encoded |-> "nothing", route |-> route, matches |-> matches]
    /\ UNCHANGED <<app, left, pending, pc, applied, registered, engine, router, routes, server>>

\* The handler that is next, and what a condition says of the request.
Handler == request.route.chain[request.at + 1]
Matches(cond) == IF cond = Always THEN "yes" ELSE request.matches[cond]

\* newErrorEncoder: an error has a status, or is plain; each translator may replace it.
Translate(err, t) ==
    IF Matches(t.cond) # "yes" \/ t.to = "same" \/ (t.name = "default" /\ err = "status") THEN err
    ELSE t.to
Translated(err) == FoldLeft(Translate, err, request.route.translators)

\* What a handler may do: a middleware passes the request on, answers it, adds an error
\* and aborts, or panics; an MvcMapping answers, with what it returns or with an error; a
\* SimpleMapping or SimpleGinMapping does what it likes, without translators. The global
\* ones pass every request on.
Fails(r, failure) == [r EXCEPT !.failure = failure, !.state = "unwinding"]
Passes(r) == {r, [r EXCEPT !.written = TRUE, !.state = "unwinding"], Fails(r, "error"), Fails(r, "panic")}
Answers(r) ==
    {[r EXCEPT !.written = TRUE, !.encoded = e] :
        e \in {r.encoded, Translated("plain"), Translated("status")}} \cup {Fails(r, "panic")}
Handled(r) ==
    CASE Handler.kind = "global" -> {r}
      [] Handler.kind = "middleware" -> Passes(r)
      [] Handler.kind = "mapping" ->
           IF Handler.mvc THEN Answers(r) ELSE Passes(r) \cup {[r EXCEPT !.written = TRUE]}

\* makeGinConditionalHandlerFunc.
Handle ==
    /\ request.state = "handling" /\ request.at < Len(request.route.chain)
    /\ LET r == [request EXCEPT !.at = @ + 1]
       IN  \/ Matches(Handler.cond) = "error" /\ request' = Fails(r, "error")
           \/ Matches(Handler.cond) = "no" /\ request' = r
           \/ Matches(Handler.cond) = "yes" /\ request' \in Handled([r EXCEPT !.ran = Append(@, Handler)])
    /\ UNCHANGED <<app, left, pending, pc, applied, registered, engine, router, routes, server>>

\* The global middlewares that ran get control back: Recovery answers after a panic,
\* DefaultErrorHandling when there are errors and nothing is written.
Ran(name) == \E k \in DOMAIN request.ran : request.ran[k].name = name

Unwind ==
    /\ \/ request.state = "unwinding"
       \/ request.state = "handling" /\ request.at = Len(request.route.chain)
    /\ request' = [request EXCEPT !.state = "done",
                     !.written = \/ @
                                 \/ request.failure = "panic" /\ Ran("recovery")
                                 \/ request.failure = "error" /\ Ran("errors")]
    /\ UNCHANGED <<app, left, pending, pc, applied, registered, engine, router, routes, server>>

Next ==
    \/ \E item \in left : Provide(item)
    \/ register
    \/ Initialize \/ applyCustomizer \/ Installs
    \/ \E key \in DOMAIN routedMappings : installRoutedMappings(key)
    \/ Initialized \/ listenAndServe \/ Serve \/ Stop
    \/ \E route \in routes, matches \in [Conditions -> {"yes", "no", "error"}] : Accept(route, matches)
    \/ Handle \/ Unwind

Spec == Init /\ [][Next]_vars

-----------------------------------------------------------------------------
\* Every state variable has a value of its type.
TypeOK ==
    /\ app \in Apps /\ left \subseteq app
    /\ pc \in {"setup", "customizing", "installing", "initialized", "failed", "panicked"}
    /\ applied \in 0 .. Len(customizers)
    /\ \A k \in DOMAIN routedMappings : k[1] \in Methods \cup {"ANY"}
    /\ server \in {"none", "bound", "serving", "closed"}
    /\ request.state \in {"none", "handling", "unwinding", "done"}
    /\ request.failure \in {"none", "error", "panic"}

\* All there is to register, in controllers and by customizers too.
Elements(item) ==
    {item} \cup (IF item.kind \in {"controller", "customizer"} THEN Range(item.items) ELSE {})
Given(kind) ==
    {x \in UNION {Elements(item) : item \in app \cup Range(Framework) \cup {GinContext}} : x.kind = kind}

\* A mapping handles a request only after every middleware for its route whose condition
\* holds and every global middleware, whichever was registered first and by whom.
Guarded ==
    \A n \in DOMAIN request.ran : request.ran[n].kind = "mapping" =>
        LET before == {request.ran[k] : k \in 1 .. n - 1}
        IN  /\ \A m \in Given("middleware") :
                 routeMatches(m, RouteKey(request.ran[n])) /\ Matches(m.cond) = "yes" => m \in before
            /\ \A c \in Given("customizer") : Range(c.globals) \subseteq before

\* Middlewares run by their order, after all global ones, of which those of customizers
\* without a priority come after the one that merges the contexts; a mapping without
\* condition comes after those with one that apply.
RunsInOrder ==
    \A k, l \in DOMAIN request.ran : k < l =>
        LET a == request.ran[k]
            b == request.ran[l]
        IN  /\ a.kind = "middleware" /\ b.kind = "middleware" => a.o <= b.o
            /\ b.kind = "global" => a.kind = "global"
            /\ b.name = "context" => \E c \in Given("customizer") : c.priority /\ a \in Range(c.globals)
            /\ a.kind = "mapping" => b.kind = "mapping" /\ a.cond # Always

\* A registrar that is initialized has each mapping in exactly one route, and no two
\* without condition, or with other names for a parameter, for the same requests.
Unambiguous ==
    pc = "initialized" =>
        \A m \in Given("mapping") :
            /\ Cardinality({r \in routes : m \in Range(r.chain)}) = 1
            /\ \A n \in Given("mapping") \ {m} :
                 /\ MethodsOf(m.method) \cap MethodsOf(n.method) # {}
                 /\ NormalizedPath(m.group \o m.path) = NormalizedPath(n.group \o n.path)
                 => m.path = n.path /\ (m.cond # Always \/ n.cond # Always)

\* A request that runs into an error or a panic is answered, and an error that an
\* MvcMapping answers with has got a status, whatever the translators made of it.
FailuresAnswered ==
    request.state = "done" =>
        /\ request.failure # "none" => request.written
        /\ request.encoded # "plain"
=============================================================================
