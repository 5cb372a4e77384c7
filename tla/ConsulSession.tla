---------------------------- MODULE ConsulSession ----------------------------
(* The session side of ConsulSyncManager (dsync/consul/manager.go): the one  *)
(* sessionLoop goroutine of each node, which creates a session, publishes it *)
(* to the locks, keeps renewing it, and replaces it once it is lost.         *)
EXTENDS ConsulKV

VARIABLES shutdown,     \* m.shutdown
          session,      \* m.session
          sessionPC,    \* where the sessionLoop goroutine is, "off" if none runs
          sessionCtx,   \* its context is cancelled
          created       \* its local variable: the session it created last

mgrVars == <<shutdown, session, sessionPC, sessionCtx, created>>

SessionPCs == {"off", "top", "create", "publish", "keep", "notify"}

MgrTypeOK == /\ shutdown \in [Node -> BOOLEAN]
             /\ session \in [Node -> Session \cup {NoSession}]
             /\ sessionPC \in [Node -> SessionPCs]
             /\ sessionCtx \in [Node -> BOOLEAN]
             /\ created \in [Node -> Session \cup {NoSession}]

MgrInit == /\ shutdown = [n \in Node |-> FALSE]
           /\ session = [n \in Node |-> NoSession]
           /\ sessionPC = [n \in Node |-> "off"]
           /\ sessionCtx = [n \in Node |-> FALSE]
           /\ created = [n \in Node |-> NoSession]

\* m.startLoop, under m.mtx: sessionLoop is started once and never again,
\* because only Stop cancels it and Stop also sets m.shutdown.
StartSessionLoop(n) ==
    sessionPC' = [sessionPC EXCEPT ![n] = IF @ = "off" THEN "top" ELSE @]

\* Top of sessionLoop: leave when cancelled, else reset the session.
SessionTop(n) ==
    /\ sessionPC[n] = "top"
    /\ IF sessionCtx[n]
         THEN /\ sessionPC' = [sessionPC EXCEPT ![n] = "off"]
              /\ UNCHANGED session
         ELSE /\ sessionPC' = [sessionPC EXCEPT ![n] = "create"]
              /\ session' = [session EXCEPT ![n] = NoSession]
    /\ UNCHANGED <<shutdown, sessionCtx, created>>
    /\ UNCHANGED kvVars

\* Session().Create succeeds with the ID s.
SessionCreate(n, s) ==
    /\ sessionPC[n] = "create"
    /\ Home[s] = n
    /\ alive' = alive \cup {s}
    /\ created' = [created EXCEPT ![n] = s]
    /\ sessionPC' = [sessionPC EXCEPT ![n] = "publish"]
    /\ UNCHANGED <<shutdown, session, sessionCtx>>
    /\ UNCHANGED <<owner, lockDelay, faults>>

\* Session().Create returns an error, because the context is cancelled or the
\* call failed; after RetryDelay, or at once when cancelled, the loop starts over.
SessionCreateFails(n) ==
    /\ sessionPC[n] = "create"
    /\ \/ sessionCtx[n] /\ UNCHANGED faults
       \/ Fault(n, "rpc")
    /\ sessionPC' = [sessionPC EXCEPT ![n] = "top"]
    /\ UNCHANGED <<shutdown, session, sessionCtx, created>>
    /\ UNCHANGED <<alive, owner, lockDelay>>

\* The same, but the server did create the session s: nobody knows of it.
SessionCreateLost(n, s) ==
    /\ sessionPC[n] = "create"
    /\ Home[s] = n
    /\ \/ sessionCtx[n] /\ UNCHANGED faults
       \/ Fault(n, "rpc")
    /\ alive' = alive \cup {s}
    /\ sessionPC' = [sessionPC EXCEPT ![n] = "top"]
    /\ UNCHANGED <<shutdown, session, sessionCtx, created>>
    /\ UNCHANGED <<owner, lockDelay>>

\* m.updateSession(session): the new session becomes visible to waitForSession.
SessionPublish(n) ==
    /\ sessionPC[n] = "publish"
    /\ session' = [session EXCEPT ![n] = created[n]]
    /\ sessionPC' = [sessionPC EXCEPT ![n] = "keep"]
    /\ UNCHANGED <<shutdown, sessionCtx, created>>
    /\ UNCHANGED kvVars

\* keepSession returns: cancelled, told that the session is gone, or unable to
\* renew it for a whole TTL (the session may then still be valid).
SessionKeepEnds(n) ==
    /\ sessionPC[n] = "keep"
    /\ \/ (sessionCtx[n] \/ created[n] \notin alive) /\ UNCHANGED faults
       \/ Fault(n, "rpc")
    /\ sessionPC' = [sessionPC EXCEPT ![n] = "notify"]
    /\ UNCHANGED <<shutdown, session, sessionCtx, created>>
    /\ UNCHANGED <<alive, owner, lockDelay>>

\* The session is being renewed by its node.
Renewed(s) == sessionPC[Home[s]] \in {"publish", "keep"} /\ created[Home[s]] = s

\* A session nobody renews runs into its TTL.
SessionExpires(s) ==
    /\ ~Renewed(s)
    /\ InvalidateKV(s)
    /\ UNCHANGED faults
    /\ UNCHANGED mgrVars

\* A renewed session is lost: destroyed, or its node was paused for too long.
SessionRevoked(s) ==
    /\ Renewed(s)
    /\ Fault(Home[s], "session")
    /\ InvalidateKV(s)
    /\ UNCHANGED mgrVars
=============================================================================
