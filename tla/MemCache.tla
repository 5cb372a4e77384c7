------------------------------ MODULE MemCache ------------------------------
(* utils/cacheutils/cache.go: an in-memory cache whose entries are filled by *)
(* loader goroutines. The store is guarded by c.mtx, the flag invalid of an  *)
(* entry is atomic, and its content is immutable once its WaitGroup is done. *)
(* Every critical section of c.mtx is one step, except that Update keeps the *)
(* write lock while it waits for a loader. Entries are numbered in the order *)
(* in which they are created; 0 is no entry.                                 *)
EXTENDS Naturals

CONSTANTS Key, NoKey, Caller, NoCaller,
          LoadRetry,    \* option LoadRetry
          MaxCalls      \* bound: calls of GetOrLoad and Update; each creates at most one entry

ASSUME CacheAssumption == /\ NoCaller \notin Caller /\ NoKey \notin Key
                          /\ LoadRetry \in Nat /\ MaxCalls \in Nat

VARIABLES store,        \* c.store
          writer,       \* the caller of Update that holds c.mtx while it waits
          created,      \* how many entries were created
          keyOf, base,  \* of an entry: its key, and the entry whose value the updater got
          loaded, failed, expired, invalid,     \* sets of entries
          dropped,      \* entries taken out by Delete and Reset
          pc, key, at, tries,                   \* of a caller
          fresh,        \* callers that created the entry they look at (isNew)
          calls,        \* calls that may still be made
          floor,        \* per key: results up to this entry are out of date
          since         \* per caller: what was out of date when its call began

entryVars == <<created, keyOf, base>>
flagVars == <<loaded, failed, expired>>
callVars == <<key, calls, since>>
vars == <<store, writer, entryVars, flagVars, invalid, dropped, pc, at, tries, fresh,
          callVars, floor>>

Entry == 1..MaxCalls

PCs == {"idle", "get", "new", "check", "lookup", "lock", "hold", "await"}

TypeOK ==
    /\ store \in [Key -> 0..created]
    /\ writer \in Caller \cup {NoCaller}
    /\ created \in 0..MaxCalls /\ calls \in 0..MaxCalls
    /\ keyOf \in [Entry -> Key \cup {NoKey}] /\ base \in [Entry -> 0..MaxCalls]
    /\ loaded \subseteq 1..created /\ failed \subseteq loaded /\ expired \subseteq loaded
    /\ invalid \subseteq loaded /\ dropped \subseteq 1..created
    /\ pc \in [Caller -> PCs] /\ key \in [Caller -> Key \cup {NoKey}]
    /\ at \in [Caller -> 0..created] /\ tries \in [Caller -> 0..LoadRetry]
    /\ fresh \subseteq Caller
    /\ floor \in [Key -> 0..created] /\ since \in [Caller -> 0..created]

Init ==
    /\ store = [k \in Key |-> 0] /\ writer = NoCaller
    /\ created = 0 /\ calls = MaxCalls
    /\ keyOf = [e \in Entry |-> NoKey] /\ base = [e \in Entry |-> 0]
    /\ loaded = {} /\ failed = {} /\ expired = {} /\ invalid = {} /\ dropped = {}
    /\ pc = [c \in Caller |-> "idle"] /\ key = [c \in Caller |-> NoKey]
    /\ at = [c \in Caller |-> 0] /\ tries = [c \in Caller |-> 0] /\ fresh = {}
    /\ floor = [k \in Key |-> 0] /\ since = [c \in Caller |-> 0]

Goto(c, p) == pc' = [pc EXCEPT ![c] = p]

Larger(a, b) == IF a >= b THEN a ELSE b

\* Results up to entry e are out of date for the calls that begin from now on.
Supersede(k, e) == floor' = [floor EXCEPT ![k] = Larger(@, e)]

\* get and getValue: what a reader finds under key k.
Found(k) == store[k] # 0 /\ store[k] \notin invalid

Look(c, e) == at' = [at EXCEPT ![c] = e] /\ fresh' = fresh \ {c} /\ Goto(c, "check")

\* setValue with deleteInvalidatedValues.
SetValue(k, e) ==
    store' = [j \in Key |-> IF j = k THEN e ELSE IF store[j] \in invalid THEN 0 ELSE store[j]]

\* newEntryFunc, updateEntryFunc: a new entry, its loader is started.
Create(k, b) ==
    /\ created < MaxCalls
    /\ created' = created + 1
    /\ keyOf' = [keyOf EXCEPT ![created + 1] = k]
    /\ base' = [base EXCEPT ![created + 1] = b]
    /\ SetValue(k, created + 1)

-----------------------------------------------------------------------------
(* The loader goroutine, and time.                                           *)

\* load: the content is set and the WaitGroup done, in one step for all others.
Load(e) ==
    /\ e \in 1..created \ loaded
    /\ loaded' = loaded \cup {e}
    /\ failed' = failed \/ failed' = failed \cup {e}
    /\ UNCHANGED <<store, writer, entryVars, expired, invalid, dropped, pc, at, tries, fresh,
                   callVars, floor>>

Expires(e) ==
    /\ e \in loaded \ expired
    /\ expired' = expired \cup {e}
    /\ UNCHANGED <<store, writer, entryVars, loaded, failed, invalid, dropped, pc, at, tries,
                   fresh, callVars, floor>>

-----------------------------------------------------------------------------
(* GetOrLoad and Update.                                                     *)

Begin(c, k, p) ==
    /\ pc[c] = "idle" /\ calls > 0
    /\ Goto(c, p)
    /\ key' = [key EXCEPT ![c] = k]
    /\ tries' = [tries EXCEPT ![c] = 0]
    /\ calls' = calls - 1
    /\ since' = [since EXCEPT ![c] = IF store[k] \in invalid THEN Larger(floor[k], store[k])
                                                             ELSE floor[k]]
    /\ UNCHANGED <<store, writer, entryVars, flagVars, invalid, dropped, at, fresh, floor>>

\* getOrNew looks with the read lock,
Get(c) ==
    /\ pc[c] = "get" /\ writer = NoCaller
    /\ IF Found(key[c]) THEN Look(c, store[key[c]])
       ELSE Goto(c, "new") /\ UNCHANGED <<at, fresh>>
    /\ UNCHANGED <<store, writer, entryVars, flagVars, invalid, dropped, tries, callVars, floor>>

\* and newIfAbsent again with the write lock, before it creates an entry.
New(c) ==
    /\ pc[c] = "new" /\ writer = NoCaller
    /\ IF Found(key[c]) THEN Look(c, store[key[c]]) /\ UNCHANGED <<store, entryVars>>
       ELSE /\ Create(key[c], 0)
            /\ at' = [at EXCEPT ![c] = created + 1]
            /\ fresh' = fresh \cup {c}
            /\ Goto(c, "check")
    /\ UNCHANGED <<writer, flagVars, invalid, dropped, tries, callVars, floor>>

\* wg.Wait is over and the entry is good: a new one always is; any other unless
\* it has expired, or the validator refuses a value that is not an error.
Return(c) ==
    /\ pc[c] = "check" /\ at[c] \in loaded
    /\ c \in fresh \/ at[c] \notin expired
    /\ Goto(c, "idle")
    /\ Supersede(key[c], at[c] - 1)
    /\ UNCHANGED <<store, writer, entryVars, flagVars, invalid, dropped, at, tries, fresh,
                   callVars>>

\* Mutant: the entry is not invalidated before the next attempt, so that every
\* attempt meets it again.
RejectKeeps(c) ==
    /\ pc[c] = "check" /\ at[c] \in loaded
    /\ c \notin fresh /\ (at[c] \in expired \/ at[c] \notin failed)
    /\ Goto(c, "get")
    /\ UNCHANGED <<store, writer, entryVars, flagVars, invalid, dropped, at, tries, fresh, callVars,
                   floor>>

\* It is not: the entry is invalidated, and the call tries again or fails.
Reject(c) ==
    /\ pc[c] = "check" /\ at[c] \in loaded
    /\ c \notin fresh /\ (at[c] \in expired \/ at[c] \notin failed)
    /\ invalid' = invalid \cup {at[c]}
    /\ IF tries[c] < LoadRetry THEN Goto(c, "get") /\ tries' = [tries EXCEPT ![c] = @ + 1]
                               ELSE Goto(c, "idle") /\ UNCHANGED tries
    /\ UNCHANGED <<store, writer, entryVars, flagVars, dropped, at, fresh, callVars, floor>>

\* Update looks with the read lock,
Lookup(c) ==
    /\ pc[c] = "lookup" /\ writer = NoCaller
    /\ Goto(c, IF Found(key[c]) THEN "lock" ELSE "idle")
    /\ UNCHANGED <<store, writer, entryVars, flagVars, invalid, dropped, at, tries, fresh,
                   callVars, floor>>

\* replaceIfPresent again with the write lock, which it keeps,
Lock(c) ==
    /\ pc[c] = "lock" /\ writer = NoCaller
    /\ IF Found(key[c]) THEN /\ writer' = c /\ Goto(c, "hold")
                             /\ at' = [at EXCEPT ![c] = store[key[c]]]
       ELSE Goto(c, "idle") /\ UNCHANGED <<writer, at>>
    /\ UNCHANGED <<store, entryVars, flagVars, invalid, dropped, tries, fresh, callVars, floor>>

\* Mutant: the present value is read before the wait, when it may still be the one
\* that its own updater was given.
ReplaceReadsFirst(c) ==
    /\ pc[c] = "hold" /\ at[c] \in loaded
    /\ Create(key[c], at[c]) \/ Create(key[c], base[at[c]])
    /\ at' = [at EXCEPT ![c] = created + 1]
    /\ writer' = NoCaller
    /\ Goto(c, "await")
    /\ UNCHANGED <<flagVars, invalid, dropped, tries, fresh, callVars, floor>>

\* until the present entry is loaded and replaced by one that the updater computes.
Replace(c) ==
    /\ pc[c] = "hold" /\ at[c] \in loaded
    /\ Create(key[c], at[c])
    /\ at' = [at EXCEPT ![c] = created + 1]
    /\ writer' = NoCaller
    /\ Goto(c, "await")
    /\ UNCHANGED <<flagVars, invalid, dropped, tries, fresh, callVars, floor>>

\* The updater has returned.
Await(c) ==
    /\ pc[c] = "await" /\ at[c] \in loaded
    /\ Goto(c, "idle")
    /\ Supersede(key[c], at[c] - 1)
    /\ UNCHANGED <<store, writer, entryVars, flagVars, invalid, dropped, at, tries, fresh,
                   callVars>>

-----------------------------------------------------------------------------
(* Delete, Reset and evict.                                                  *)

Delete(k) ==
    /\ writer = NoCaller
    /\ dropped' = dropped \cup ({store[k]} \ {0})
    /\ store' = [store EXCEPT ![k] = 0]
    /\ Supersede(k, created)
    /\ UNCHANGED <<writer, entryVars, flagVars, invalid, pc, at, tries, fresh, callVars>>

\* Reset takes the read lock only, and a reader next to it sees the old or the
\* new map: as if it came before or after.
Reset ==
    /\ writer = NoCaller
    /\ dropped' = dropped \cup ({store[k] : k \in Key} \ {0})
    /\ store' = [k \in Key |-> 0]
    /\ floor' = [k \in Key |-> created]
    /\ UNCHANGED <<writer, entryVars, flagVars, invalid, pc, at, tries, fresh, callVars>>

\* evict, which the reaper and calls of Evict run at any time, several at once.
\* Step 1: loaded entries that have expired are invalidated.
EvictMark ==
    /\ writer = NoCaller
    /\ invalid' = invalid \cup ({store[k] : k \in Key} \cap expired)
    /\ UNCHANGED <<store, writer, entryVars, flagVars, dropped, pc, at, tries, fresh, callVars, floor>>

\* Step 2: invalidated entries are removed.
EvictSweep ==
    /\ writer = NoCaller
    /\ store' = [k \in Key |-> IF store[k] \in invalid THEN 0 ELSE store[k]]
    /\ UNCHANGED <<writer, entryVars, flagVars, invalid, dropped, pc, at, tries, fresh, callVars, floor>>

CallStep(c) == \/ Get(c) \/ New(c) \/ Return(c) \/ Reject(c)
               \/ Lookup(c) \/ Lock(c) \/ Replace(c) \/ Await(c)

Next ==
    \/ \E e \in Entry : Load(e) \/ Expires(e)
    \/ \E c \in Caller : CallStep(c) \/ \E k \in Key : Begin(c, k, "get") \/ Begin(c, k, "lookup")
    \/ \E k \in Key : Delete(k)
    \/ Reset \/ EvictMark \/ EvictSweep

Spec == Init /\ [][Next]_vars

\* Goroutines are scheduled, mutexes are granted, and loaders return.
FairSpec == /\ Spec
            /\ \A e \in Entry : WF_vars(Load(e))
            /\ \A c \in Caller : WF_vars(CallStep(c))

-----------------------------------------------------------------------------
\* getOrNew: "only one goroutine create new entry". A key is loaded once at a
\* time: a load in progress is that of the stored entry, or of one that Delete or
\* Reset took out. In particular nothing else removes an entry while it loads.
SingleFlight ==
    \A e \in 1..created \ loaded : store[keyOf[e]] = e \/ e \in dropped

\* No call returns what was out of date when it began: an entry that was deleted
\* or invalidated by then, or older than what another call had returned or
\* Update had written.
NoStaleRead ==
    \A c \in Caller : pc[c] \in {"check", "await"} => at[c] > since[c]

\* No two updaters start from the same value, so that none of them is lost.
NoLostUpdate ==
    \A e, f \in 1..created : base[e] = base[f] /\ base[e] # 0 => e = f

\* getOrNew, replaceIfPresent, evict: whatever calls, loads, expiries and evictions
\* interleave, a key is loaded once at a time, no call returns what was out of date
\* when it began, and no update is lost.
Coherent == SingleFlight /\ NoStaleRead /\ NoLostUpdate

\* Every call returns, as long as loaders and updaters do.
CallsReturn == \A c \in Caller : pc[c] # "idle" ~> pc[c] = "idle"
=============================================================================
