--------------------------- MODULE TokenRefresher ---------------------------
(* vault/tokenrefresher.go, and what connection.go does for it: a client's   *)
(* token, and the monitors of its refreshers, which renew it and log in      *)
(* again. The vault server and the lifetime watcher (api.Renewer) are        *)
(* external.                                                                 *)
EXTENDS Naturals

CONSTANTS Refresher, NoRefresher,
          MaxOutages,   \* bound: how often the server may go down
          MaxExpiries   \* bound: how often a token may run out

VARIABLES auth,         \* authentication method: "kubernetes" or "token"
          renewable,    \* whether the server makes renewable tokens
          token,        \* "valid" or "expired" (or there is none yet)
          up,           \* the server answers
          refresher,    \* Client.refresher
          cancelled,    \* refreshers whose Stop was called
          pc,           \* where monitorRenew of a refresher is
          renewer,      \* TokenRefresher.renewer: "nil", "running" or "done"
          outages, expiries

vars == <<auth, renewable, token, up, refresher, cancelled, pc, renewer, outages, expiries>>
server == <<auth, renewable, up, outages, expiries>>

\* Every state variable has a value of its type.
TypeOK ==
    /\ auth \in {"kubernetes", "token"} /\ renewable \in BOOLEAN
    /\ token \in {"valid", "expired"} /\ up \in BOOLEAN
    /\ refresher \in Refresher \cup {NoRefresher} /\ cancelled \subseteq Refresher
    /\ pc \in [Refresher -> {"off", "create", "sleep", "select", "returned"}]
    /\ renewer \in [Refresher -> {"nil", "running", "done"}]
    /\ outages \in 0 .. MaxOutages /\ expiries \in 0 .. MaxExpiries

-----------------------------------------------------------------------------
(* The server. A watcher ends when its token has run out, or earlier.        *)

GoesDown ==
    /\ up /\ outages < MaxOutages
    /\ up' = FALSE /\ outages' = outages + 1
    /\ UNCHANGED <<auth, renewable, token, refresher, cancelled, pc, renewer, expiries>>

ComesUp ==
    /\ ~up
    /\ up' = TRUE
    /\ UNCHANGED <<auth, renewable, token, refresher, cancelled, pc, renewer, outages, expiries>>

Expires ==
    /\ token = "valid" /\ expiries < MaxExpiries
    /\ token' = "expired" /\ expiries' = expiries + 1
    /\ UNCHANGED <<auth, renewable, up, refresher, cancelled, pc, renewer, outages>>

\* Whoever runs the server makes a static token anew.
Recreated ==
    /\ auth = "token" /\ token = "expired"
    /\ token' = "valid"
    /\ UNCHANGED <<server, refresher, cancelled, pc, renewer>>

WatcherEnds(r) ==
    /\ renewer[r] = "running"
    /\ renewer' = [renewer EXCEPT ![r] = "done"]
    /\ UNCHANGED <<server, token, refresher, cancelled, pc>>

-----------------------------------------------------------------------------
\* Authenticate: what the token is afterwards. A static token is set again as it
\* is; a login needs the server, and its error leaves the old token.
Authenticate == IF auth = "kubernetes" /\ up THEN "valid" ELSE token

\* newClient: a failed login is logged.
Init ==
    /\ auth \in {"kubernetes", "token"} /\ renewable \in BOOLEAN
    /\ up \in BOOLEAN /\ outages = 0 /\ expiries = 0
    /\ token = IF auth = "kubernetes" /\ ~up THEN "expired" ELSE "valid"
    /\ refresher = NoRefresher /\ cancelled = {}
    /\ pc = [r \in Refresher |-> "off"]
    /\ renewer = [r \in Refresher |-> "nil"]

\* AutoRenewToken makes a new refresher and starts it.
AutoRenewToken(r) ==
    /\ refresher = NoRefresher /\ pc[r] = "off"
    /\ refresher' = r
    /\ pc' = [pc EXCEPT ![r] = "create"]
    /\ UNCHANGED <<server, token, cancelled, renewer>>

\* Close of the client stops its refresher.
Close ==
    /\ refresher # NoRefresher
    /\ cancelled' = cancelled \cup {refresher}
    /\ refresher' = NoRefresher
    /\ UNCHANGED <<server, token, pc, renewer>>

\* Mutant: an error ends monitorRenew.
CreateRenewerOnce(r) ==
    /\ pc[r] = "create"
    /\ LET created == up /\ token = "valid" /\ renewable IN
         /\ pc' = [pc EXCEPT ![r] = IF created THEN "select" ELSE "returned"]
         /\ renewer' = [renewer EXCEPT ![r] = IF created THEN "running" ELSE "nil"]
    /\ UNCHANGED <<server, token, refresher, cancelled>>

\* The inner loop of monitorRenew: TokenRenewer looks the token up and wants it
\* renewable. The context is not looked at here.
CreateRenewer(r) ==
    /\ pc[r] = "create"
    /\ LET created == up /\ token = "valid" /\ renewable IN
         /\ pc' = [pc EXCEPT ![r] = IF created THEN "select" ELSE "sleep"]
         /\ renewer' = [renewer EXCEPT ![r] = IF created THEN "running" ELSE "nil"]
    /\ UNCHANGED <<server, token, refresher, cancelled>>

WakesUp(r) ==
    /\ pc[r] = "sleep"
    /\ pc' = [pc EXCEPT ![r] = "create"]
    /\ UNCHANGED <<server, token, refresher, cancelled, renewer>>

\* The select sees DoneCh: whatever the reason, the client authenticates again.
OnDone(r) ==
    /\ pc[r] = "select" /\ renewer[r] = "done"
    /\ token' = Authenticate
    /\ renewer' = [renewer EXCEPT ![r] = "nil"]
    /\ pc' = [pc EXCEPT ![r] = "create"]
    /\ UNCHANGED <<server, refresher, cancelled>>

\* The select sees the end of the context.
OnCancel(r) ==
    /\ pc[r] = "select" /\ r \in cancelled
    /\ renewer' = [renewer EXCEPT ![r] = "nil"]
    /\ pc' = [pc EXCEPT ![r] = "returned"]
    /\ UNCHANGED <<server, token, refresher, cancelled>>

monitorRenew(r) == CreateRenewer(r) \/ WakesUp(r) \/ OnDone(r)

Next ==
    \/ GoesDown \/ ComesUp \/ Expires \/ Recreated \/ Close
    \/ \E r \in Refresher : WatcherEnds(r) \/ AutoRenewToken(r) \/ monitorRenew(r) \/ OnCancel(r)

Spec == Init /\ [][Next]_vars

\* Goroutines are scheduled, sleeps end, a watcher ends with its token, outages
\* end. A select picks at random among the cases that are ready.
Fairness ==
    /\ WF_vars(ComesUp)
    /\ \A r \in Refresher : /\ WF_vars(token = "expired" /\ WatcherEnds(r))
                            /\ WF_vars(monitorRenew(r)) /\ SF_vars(OnCancel(r))

FairSpec == Spec /\ Fairness

-----------------------------------------------------------------------------
\* monitorRenew: "it will refresh the token (if refreshable) and restart renewing
\* process". A token that runs out under its watcher is replaced, unless the server
\* is down meanwhile. (After a login that failed, or before the first watcher, it
\* is not: the inner loop looks the old token up for ever.)
TokenReplaced ==
    auth = "kubernetes" => \A r \in Refresher :
        (pc[r] = "select" /\ refresher = r /\ token = "expired"
           ~> token = "valid" \/ refresher # r \/ ~up)

\* monitorRenew: "Do not quit the renewer in the hopes that the token is recreated
\* & we can resume". A renewable token is watched again once the server answers
\* for it, whatever went before.
WatchResumes ==
    renewable => \A r \in Refresher :
        (refresher = r ~> renewer[r] = "running" \/ token = "expired" \/ ~up \/ refresher # r)

\* tokenrefresher.go on Stop: "Stop will stop the token renewal/refreshing
\* processes". monitorRenew returns once a renewer can be created, and keeps no
\* watcher, although the inner loop does not look at the context and may start one
\* after Stop. (For a token that cannot be renewed, or that has run out and is not
\* replaced, the inner loop goes on after Stop for ever.)
StopEndsRenewal ==
    renewable /\ <>[](up /\ token = "valid") =>
        \A r \in Refresher : r \in cancelled ~> [](pc[r] = "returned" /\ renewer[r] = "nil")
=============================================================================
