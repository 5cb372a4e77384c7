----------------------------- MODULE CertSource -----------------------------
(* certs/source/vault and certs/source/acm: a certificate source fetches its *)
(* certificate when it is first asked for one and renews it from then on,    *)
(* half way to its expiration (certs/source/common.go). Time is a number of  *)
(* units; a renewal happens in the unit in which it is due.                  *)
EXTENDS Integers, FiniteSets, FiniteSetsExt

CONSTANTS User,         \* the callers of TLSConfig and Files
          TTLs,         \* lifetimes the service may give the certificate
          MinRenews,    \* values of the property MinRenewInterval
          MaxTime, MaxFailures

None == -1              \* no certificate, no time
Empty == -2             \* the zero tls.Certificate

VARIABLES kind,         \* which provider it is: "vault" or "acm"
          ttl, minRenew,
          now,
          once,         \* LazyInit has been run
          cert,         \* when the cached certificate expires
          exported,     \* ACM: when the certificate the service keeps expires
          renewal,      \* the loop: "off", "live", "stuck" after a panic, "cancelled"
          due,          \* when the next renewal is to be tried
          life,         \* what the certificate fetched last had left
          result,       \* of each user's call
          outage        \* the first and the last failure since the last success

vars == <<kind, ttl, minRenew, now, once, cert, exported, renewal, due, life, result, outage>>
service == <<kind, ttl, minRenew>>

Results == {"idle", "TLSConfig", "config", "files", "error", "initError", "panic"}

\* Every state variable has a value of its type.
TypeOK ==
    /\ kind \in {"vault", "acm"} /\ ttl \in TTLs /\ minRenew \in MinRenews
    /\ now \in 0 .. MaxTime /\ once \in BOOLEAN
    /\ cert \in Nat \cup {None, Empty} /\ exported \in Nat
    /\ renewal \in {"off", "live", "stuck", "cancelled"}
    /\ due \in Nat \cup {None} /\ life \in Int
    /\ result \in [User -> Results]
    /\ outage \in [first : Nat \cup {None}, last : Nat \cup {None}, count : 0 .. MaxFailures]

Init ==
    /\ kind \in {"vault", "acm"} /\ ttl \in TTLs /\ minRenew \in MinRenews
    /\ now = 0 /\ once = FALSE
    /\ cert = None /\ exported = ttl
    /\ renewal = "off" /\ due = None /\ life = 0
    /\ result = [u \in User |-> "idle"]
    /\ outage = [first |-> None, last |-> None, count |-> 0]

Succeeds == outage' = [outage EXCEPT !.first = None, !.last = None]
Fails ==
    /\ outage.count < MaxFailures
    /\ outage' = [first |-> IF outage.first = None THEN now ELSE outage.first,
                  last |-> now, count |-> outage.count + 1]

\* Mutant: the interval is all that remains.
IntervalWhole(expires, failed) ==
    IF failed \/ expires < now THEN minRenew ELSE Max({minRenew, expires - now})

\* RenewRepeatIntervalFunc; a zero certificate has no expiration, as Empty < now.
Interval(expires, failed) ==
    IF failed \/ expires < now THEN minRenew ELSE Max({minRenew, (expires - now) \div 2})

\* generateClientCertificate: what is cached, whether it fails, and how the service
\* has done. The file cache may fail after the certificate has been replaced; Vault's
\* provider caches the zero certificate when it cannot parse the one it is given.
Generated(kept) ==
    LET fresh == IF kind = "vault" THEN now + ttl ELSE kept
    IN  {[cert |-> fresh, failed |-> FALSE, well |-> TRUE],
         [cert |-> fresh, failed |-> TRUE, well |-> FALSE],
         [cert |-> cert, failed |-> TRUE, well |-> FALSE]}
        \cup IF kind = "vault" THEN {[cert |-> Empty, failed |-> TRUE, well |-> FALSE]} ELSE {}

-----------------------------------------------------------------------------
(* TLSConfig and Files                                                       *)

\* What a call does after LazyInit.
Proceeds(u, call) == result' = [result EXCEPT ![u] = IF call = "Files" THEN "files" ELSE call]

\* sync.Once runs the function for one caller, whose err it is, and makes the others
\* wait; for them, and ever after, LazyInit returns nil.
LazyInit(u, call) ==
    /\ result[u] = "idle" /\ ~once
    /\ once' = TRUE
    /\ \/ /\ Fails                              \* RootCAs
          /\ result' = [result EXCEPT ![u] = "initError"]
          /\ UNCHANGED <<cert, renewal, due, life>>
       \/ \E g \in Generated(exported) :
            /\ cert' = g.cert /\ life' = g.cert - now
            /\ IF g.well THEN Succeeds ELSE Fails
            /\ IF g.failed THEN /\ result' = [result EXCEPT ![u] = "initError"]
                                /\ UNCHANGED <<renewal, due>>
               ELSE /\ Proceeds(u, call)
                    /\ due' = now + Interval(g.cert, FALSE)
                    /\ renewal' = "live"
       \/ /\ Fails                              \* an answer without a certificate
          /\ result' = [result EXCEPT ![u] = "panic"]
          /\ UNCHANGED <<cert, renewal, due, life>>
    /\ UNCHANGED <<service, now, exported>>

Initialized(u, call) ==
    /\ result[u] = "idle" /\ once
    /\ Proceeds(u, call)
    /\ UNCHANGED <<service, now, once, cert, exported, renewal, due, life, outage>>

\* TLSConfig reads the root CAs once more.
RootCAs(u) ==
    /\ result[u] = "TLSConfig"
    /\ \/ result' = [result EXCEPT ![u] = "config"] /\ UNCHANGED outage
       \/ result' = [result EXCEPT ![u] = "error"]
          /\ outage.count < MaxFailures /\ outage' = [outage EXCEPT !.count = @ + 1]
    /\ UNCHANGED <<service, now, once, cert, exported, renewal, due, life>>

-----------------------------------------------------------------------------
(* The renewal loop                                                          *)

\* tryRenew, and the interval that follows it. ACM is first asked to renew what it
\* keeps; when it does not, what it keeps is exported all the same.
tryRenew ==
    /\ renewal = "live" /\ due <= now
    /\ \E renewed \in IF kind = "acm" THEN BOOLEAN ELSE {TRUE} :
         /\ exported' = IF kind = "acm" /\ renewed THEN now + ttl ELSE exported
         /\ \E g \in Generated(exported') :
              /\ cert' = g.cert
              /\ due' = now + Interval(g.cert, g.failed)
              /\ IF renewed /\ g.well THEN Succeeds /\ life' = ttl ELSE Fails /\ UNCHANGED life
    /\ UNCHANGED <<service, now, once, renewal, result>>

\* An answer without a certificate or a key makes the task panic, and the interval
\* function after it: the task is not repeated.
RenewPanics ==
    /\ renewal = "live" /\ due <= now
    /\ Fails
    /\ renewal' = "stuck" /\ due' = None
    /\ UNCHANGED <<service, now, once, cert, exported, life, result>>

\* DefaultManager.Close, to which ACM's provider does nothing and Vault's nothing
\* before LazyInit has run; and the end of the application's context.
Cancels ==
    /\ renewal \in {"live", "stuck"}
    /\ renewal' = "cancelled" /\ due' = None
    /\ UNCHANGED <<service, now, once, cert, exported, life, result, outage>>

Tick ==
    /\ now < MaxTime /\ (renewal = "live" => due > now)
    /\ now' = now + 1
    /\ UNCHANGED <<service, once, cert, exported, renewal, due, life, result, outage>>

Next ==
    \/ \E u \in User, call \in {"TLSConfig", "Files"} : LazyInit(u, call) \/ Initialized(u, call)
    \/ \E u \in User : RootCAs(u)
    \/ tryRenew \/ RenewPanics \/ Cancels \/ Tick

Spec == Init /\ [][Next]_vars

-----------------------------------------------------------------------------
\* While renewals go on, a certificate that lived longer than MinRenewInterval when it
\* was fetched is expired only when the service has failed at every attempt since the
\* certificate was half way to its expiration, and failed last less than
\* MinRenewInterval ago.
RenewedInTime ==
    renewal = "live" /\ due > now /\ cert # Empty /\ cert < now /\ life >= minRenew =>
        /\ outage.first # None
        /\ now - outage.first >= life - Max({minRenew, life \div 2})
        /\ now - outage.last < minRenew

\* Whoever is given a TLS configuration is served a certificate, unless the first
\* fetch failed; that failure is told to exactly one caller, and renewals never start.
FailureIsTold ==
    once => LET told == {u \in User : result[u] \in {"initError", "panic"}}
            IN  /\ Cardinality(told) <= 1
                /\ told = {} => cert # None /\ renewal # "off"
                /\ told # {} => renewal = "off"
=============================================================================
