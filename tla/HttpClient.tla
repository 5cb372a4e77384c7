----------------------------- MODULE HttpClient -----------------------------
(* integrate/httpclient: Execute runs Retryable.Try (retry.go), each of      *)
(* whose attempts resolves an instance of the service (resolver_sd.go),      *)
(* round robin (balancer.go), from what service discovery knows, and sends   *)
(* the request from a goroutine of its own. Callers share the resolver. The  *)
(* path of a request is relative, so that it is resolved, and the client     *)
(* retries by its own retryCallback.                                         *)
EXTENDS Integers, Sequences, FiniteSets, Bags, SequencesExt

CONSTANTS Caller,
          Lists,                \* lists of instances that discovery may find
          MaxRetries,           \* ClientConfig.MaxRetries
          InvalidateTimeout,    \* SDOption.InvalidateTimeout
          Never,
          Unread,               \* the service of an attempt that has not asked for it
          MaxTime, MaxCalls, MaxFaults, MaxChanges

VARIABLES now,
          svc,          \* the cached service, as onRefresh of the instancer sets it
          c,            \* count of the balancer
          at,           \* "idle", "trying" or "sleeping"
          n,            \* attempts of the call
          answer,       \* of the last attempt; "resolving" and "none" before its channel has one
          seen,         \* svc in Resolve: the service that the attempt picks from
          expired,      \* timoutCtx is done
          lastErr, outcome,
          late,         \* what those given up attempts have seen that have yet to resolve
          hits,         \* history: the picks from the list that svc has, since it has it
          stale,        \* history: the picks from other lists since then
          processed,    \* history: a server has answered the call
          calls, faults, changes

caller == <<at, n, answer, seen, expired, lastErr, outcome, processed>>
picks == <<c, hits, stale>>
vars == <<now, svc, picks, caller, late, calls, faults, changes>>

Inst == UNION {ToSet(l) : l \in Lists}
MaxAttempts == IF MaxRetries > 1 THEN MaxRetries ELSE 1
Error == {"no endpoint", "network", "response", "cancelled"}
Service == [insts : Lists \cup {<<>>}, err : BOOLEAN, firstErrAt : 0 .. MaxTime \cup {Never}]

\* Every state variable has a value of its type.
TypeOK ==
    /\ now \in 0 .. MaxTime
    /\ svc \in Service /\ seen \in [Caller -> Service \cup {Unread}]
    /\ c \in Nat /\ stale \in Nat
    /\ at \in [Caller -> {"idle", "trying", "sleeping"}]
    /\ n \in [Caller -> 0 .. MaxAttempts]
    /\ answer \in [Caller -> Error \cup {"resolving", "none", "ok"}]
    /\ expired \in [Caller -> BOOLEAN]
    /\ lastErr \in [Caller -> Error \cup {"none"}]
    /\ outcome \in [Caller -> Error \cup {"none", "ok", "timeout"}]
    /\ hits \in [Inst -> Nat]
    /\ processed \in [Caller -> BOOLEAN] /\ BagToSet(late) \subseteq Service \cup {Unread}
    /\ calls \in 0 .. MaxCalls /\ faults \in 0 .. MaxFaults /\ changes \in 0 .. MaxChanges

Init ==
    /\ now = 0
    /\ svc = [insts |-> CHOOSE l \in Lists : l # <<>>, err |-> FALSE, firstErrAt |-> Never]
    /\ c = 0 /\ stale = 0
    /\ at = [r \in Caller |-> "idle"] /\ n = [r \in Caller |-> 0]
    /\ answer = [r \in Caller |-> "none"] /\ expired = [r \in Caller |-> FALSE]
    /\ seen = [r \in Caller |-> Unread]
    /\ lastErr = [r \in Caller |-> "none"] /\ outcome = [r \in Caller |-> "none"]
    /\ hits = [i \in Inst |-> 0]
    /\ processed = [r \in Caller |-> FALSE] /\ late = EmptyBag
    /\ calls = 0 /\ faults = 0 /\ changes = 0

-----------------------------------------------------------------------------
(* Time and service discovery                                                *)

Tick ==
    /\ now < MaxTime /\ now' = now + 1
    /\ UNCHANGED <<svc, picks, caller, late, calls, faults, changes>>

\* A refresh of the instancer finds the instances l, or fails. The service stored
\* after an error has no instances.
Refresh(l, err) ==
    /\ changes < MaxChanges /\ changes' = changes + 1
    /\ svc' = [insts |-> IF err THEN <<>> ELSE l, err |-> err,
               firstErrAt |-> IF ~err THEN Never ELSE IF svc.err THEN svc.firstErrAt ELSE now]
    /\ IF svc'.insts = svc.insts THEN UNCHANGED <<hits, stale>>
       ELSE hits' = [i \in Inst |-> 0] /\ stale' = 0
    /\ UNCHANGED <<now, c, caller, late, calls, faults>>

\* handleError: may the last known instances be used?
handleError(s) ==
    CASE InvalidateTimeout < 0 -> TRUE
      [] InvalidateTimeout = 0 -> FALSE
      [] OTHER -> s.firstErrAt # Never /\ s.firstErrAt + InvalidateTimeout < now

Resolves(s) == (~s.err \/ handleError(s)) /\ s.insts # <<>>

-----------------------------------------------------------------------------
(* Resolve, in the goroutine of an attempt                                   *)

Resolving(r) == at[r] = "trying" /\ answer[r] = "resolving"

\* A pick from the list l, by the counter before the addition.
Picked(l) ==
    IF l = svc.insts THEN hits' = [hits EXCEPT ![l[(c % Len(l)) + 1]] = @ + 1] /\ UNCHANGED stale
    ELSE stale' = stale + 1 /\ UNCHANGED hits

\* Mutant: the counter is loaded and stored, so that of two calls that overlap the
\* addition of one may be lost.
BalanceTorn(l) ==
    /\ Picked(l)
    /\ c' = c + 1 \/ (c' = c /\ Cardinality({r \in Caller : Resolving(r) /\ seen[r] # Unread}) > 1)

\* Balance: an atomic addition gives every call a count of its own.
Balance(l) == Picked(l) /\ c' = c + 1

\* What is left of Resolve once the service is there.
Pick(s) == IF Resolves(s) THEN Balance(s.insts) ELSE UNCHANGED picks

\* instancer.Service(): later refreshes do not change what it has returned.
AsksService(r) ==
    /\ Resolving(r) /\ seen[r] = Unread
    /\ seen' = [seen EXCEPT ![r] = svc]
    /\ UNCHANGED <<now, svc, picks, at, n, answer, expired, lastErr, outcome, processed, late, calls, faults, changes>>

Resolve(r) ==
    /\ Resolving(r) /\ seen[r] # Unread
    /\ Pick(seen[r])
    /\ answer' = [answer EXCEPT ![r] = IF Resolves(seen[r]) THEN "none" ELSE "no endpoint"]
    /\ seen' = [seen EXCEPT ![r] = Unread]
    /\ UNCHANGED <<now, svc, at, n, expired, lastErr, outcome, processed, late, calls, faults, changes>>

\* The same in the goroutine of an attempt whose call has returned.
ResolveLate(s) ==
    /\ IF s = Unread
       THEN late' = late (-) SetToBag({s}) (+) SetToBag({svc}) /\ UNCHANGED picks
       ELSE late' = late (-) SetToBag({s}) /\ Pick(s)
    /\ UNCHANGED <<now, svc, caller, calls, faults, changes>>

-----------------------------------------------------------------------------
(* Retryable.Try                                                             *)

\* An attempt starts its goroutine.
Attempt(r, i) ==
    /\ at' = [at EXCEPT ![r] = "trying"]
    /\ n' = [n EXCEPT ![r] = i]
    /\ answer' = [answer EXCEPT ![r] = "resolving"]
    /\ seen' = [seen EXCEPT ![r] = Unread]

Execute(r) ==
    /\ at[r] = "idle" /\ calls < MaxCalls /\ calls' = calls + 1
    /\ Attempt(r, 1)
    /\ expired' = [expired EXCEPT ![r] = FALSE]
    /\ lastErr' = [lastErr EXCEPT ![r] = "none"] /\ outcome' = [outcome EXCEPT ![r] = "none"]
    /\ processed' = [processed EXCEPT ![r] = FALSE]
    /\ UNCHANGED <<now, svc, picks, late, faults, changes>>

\* The server answers the attempt under way, with or without an error; or the request
\* cannot be made or encoded, or the network fails; or the context of the call has
\* ended.
Answers(r, a) ==
    /\ at[r] = "trying" /\ answer[r] = "none"
    /\ \/ a \in {"ok", "response"} /\ faults' = faults
       \/ a = "network" /\ faults < MaxFaults /\ faults' = faults + 1
       \/ a = "cancelled" /\ expired[r] /\ faults' = faults
    /\ answer' = [answer EXCEPT ![r] = a]
    /\ processed' = [processed EXCEPT ![r] = @ \/ a \in {"ok", "response"}]
    /\ UNCHANGED <<now, svc, picks, at, n, seen, expired, lastErr, outcome, late, calls, changes>>

Timeout(r) ==
    /\ at[r] # "idle" /\ ~expired[r]
    /\ expired' = [expired EXCEPT ![r] = TRUE]
    /\ UNCHANGED <<now, svc, picks, at, n, answer, seen, lastErr, outcome, late, processed, calls, faults, changes>>

Return(r, o) == at' = [at EXCEPT ![r] = "idle"] /\ outcome' = [outcome EXCEPT ![r] = o]

\* The case of the select for the end of the context, whether or not an answer is
\* there.
TakesTimeout(r) ==
    /\ at[r] = "trying" /\ expired[r]
    /\ Return(r, IF lastErr[r] = "none" THEN "timeout" ELSE lastErr[r])
    /\ late' = IF Resolving(r) THEN late (+) SetToBag({seen[r]}) ELSE late
    /\ UNCHANGED <<now, svc, picks, n, answer, seen, expired, lastErr, processed, calls, faults, changes>>

retryCallback(r) == n[r] < MaxRetries /\ answer[r] # "response"

\* The case for the answer.
TakesAnswer(r) ==
    /\ at[r] = "trying" /\ answer[r] \notin {"resolving", "none"}
    /\ lastErr' = [lastErr EXCEPT ![r] = IF answer[r] = "ok" THEN @ ELSE answer[r]]
    /\ IF answer[r] # "ok" /\ retryCallback(r)
       THEN at' = [at EXCEPT ![r] = "sleeping"] /\ outcome' = outcome
       ELSE Return(r, answer[r])
    /\ UNCHANGED <<now, svc, picks, n, answer, seen, expired, late, processed, calls, faults, changes>>

\* The backoff is over, also if the context has ended meanwhile.
WakesUp(r) ==
    /\ at[r] = "sleeping"
    /\ Attempt(r, n[r] + 1)
    /\ UNCHANGED <<now, svc, picks, expired, lastErr, outcome, late, processed, calls, faults, changes>>

Next ==
    \/ Tick
    \/ \E s \in BagToSet(late) : ResolveLate(s)
    \/ \E l \in Lists, err \in BOOLEAN : Refresh(l, err)
    \/ \E r \in Caller : \/ Execute(r) \/ AsksService(r) \/ Resolve(r) \/ Timeout(r) \/ TakesTimeout(r) \/ TakesAnswer(r) \/ WakesUp(r)
                         \/ \E a \in Error \cup {"ok"} : Answers(r, a)

Spec == Init /\ [][Next]_vars

-----------------------------------------------------------------------------
\* Between two changes of the list the calls of all callers are spread evenly over
\* its instances, wherever the count stood when the list changed. Only a call that
\* still picks from another list takes a count away, and thereby shifts one pick.
Balanced == \A i, j \in ToSet(svc.insts) : hits[i] <= hits[j] + 1 + stale

\* A request that a server has answered, be it with an error, is not sent again
\* within the same call, whatever the timeout does.
NotRepeated == \A r \in Caller : processed[r] => at[r] # "sleeping"

\* retry.go, on Try: "If the execution finished without any successful result,
\* latest error is returned if available, otherwise context.Err()". No call ends
\* without an attempt, "timeout" means that no attempt was seen to fail, and a
\* success is that of the last attempt.
LatestErrorTold ==
    \A r \in Caller : at[r] = "idle" /\ outcome[r] # "none" =>
        /\ outcome[r] = "timeout" => expired[r] /\ lastErr[r] = "none"
        /\ outcome[r] = "ok" => answer[r] = "ok"
        /\ outcome[r] \in Error => outcome[r] = lastErr[r]
=============================================================================
