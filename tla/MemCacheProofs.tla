--------------------------- MODULE MemCacheProofs ---------------------------
(* For every number of keys, callers, calls and retries of MemCache: a key   *)
(* is loaded once at a time, no call returns what was out of date when it    *)
(* began, and no update is lost. The argument is that the stored entry of a  *)
(* key is the newest one ever created for it.                                *)
EXTENDS MemCache, TLAPS

\* What is stored under a key is its newest entry, and is not out of date.
Newest ==
    \A k \in Key : store[k] # 0 =>
        /\ keyOf[store[k]] = k
        /\ floor[k] < store[k]
        /\ \A e \in 1..created : keyOf[e] = k => e <= store[k]

\* A caller looks at an entry of its own key. Whoever waits in replaceIfPresent
\* holds the write lock, and what they wait for stays in the store.
CallInv ==
    \A c \in Caller :
        /\ pc[c] # "idle" => key[c] \in Key
        /\ pc[c] \in {"check", "await", "hold"} => at[c] \in 1..created /\ keyOf[at[c]] = key[c]
        /\ pc[c] = "hold" => writer = c /\ at[c] = store[key[c]]

\* What a call may still find is newer than what was out of date when it began.
SinceInv ==
    \A c \in Caller : pc[c] # "idle" /\ Found(key[c]) => since[c] < store[key[c]]

\* Every entry has a key; an updater's value is that of an older entry of its key.
BaseInv ==
    \A e \in 1..created :
        /\ keyOf[e] \in Key
        /\ base[e] # 0 => base[e] \in 1..created /\ base[e] < e /\ keyOf[base[e]] = keyOf[e]

CacheInv ==
    TypeOK /\ Newest /\ CallInv /\ SinceInv /\ BaseInv /\ SingleFlight /\ NoStaleRead /\ NoLostUpdate

LEMMA InitInv == Init => CacheInv
  BY CacheAssumption DEF Init, CacheInv, TypeOK, Newest, CallInv, SinceInv, BaseInv, SingleFlight,
     NoStaleRead, NoLostUpdate, PCs, Entry, Found

StoreType ==
    /\ created \in 0..MaxCalls
    /\ store \in [Key -> 0..created] /\ floor \in [Key -> 0..created]
    /\ keyOf \in [Entry -> Key \cup {NoKey}] /\ base \in [Entry -> 0..MaxCalls]

FlagType ==
    /\ loaded \subseteq 1..created /\ failed \subseteq loaded /\ expired \subseteq loaded
    /\ invalid \subseteq loaded /\ dropped \subseteq 1..created

CallType ==
    /\ writer \in Caller \cup {NoCaller} /\ fresh \subseteq Caller
    /\ calls \in 0..MaxCalls
    /\ at \in [Caller -> 0..created] /\ since \in [Caller -> 0..created]
    /\ tries \in [Caller -> 0..LoadRetry]

PCType == pc \in [Caller -> PCs] /\ key \in [Caller -> Key \cup {NoKey}]

LEMMA TypeParts == TypeOK <=> StoreType /\ FlagType /\ CallType /\ PCType
  BY Zenon DEF TypeOK, StoreType, FlagType, CallType, PCType

LEMMA CreateType ==
  ASSUME StoreType, NEW k \in Key, NEW b \in 0..MaxCalls, Create(k, b), floor' = floor
  PROVE  StoreType'
  <1> USE CacheAssumption DEF StoreType, Create
  <1>1. created' \in 0..MaxCalls /\ created' = created + 1 /\ created + 1 \in Entry
      BY DEF Entry
  <1>2. keyOf' \in [Entry -> Key \cup {NoKey}] /\ base' \in [Entry -> 0..MaxCalls]
      BY <1>1
  <1>3. store' \in [Key -> 0..created']
      BY <1>1 DEF SetValue
  <1>4. floor' \in [Key -> 0..created']
      BY <1>1
  <1> QED
      BY Zenon, <1>1, <1>2, <1>3, <1>4

LEMMA TypeStep == TypeOK /\ CallInv /\ [Next]_vars => TypeOK'
  <1> SUFFICES ASSUME TypeOK, CallInv, [Next]_vars PROVE StoreType' /\ FlagType' /\ CallType' /\ PCType'
      BY Zenon DEF TypeOK, StoreType, FlagType, CallType, PCType
  <1> USE CacheAssumption DEF entryVars, flagVars, callVars
  <1>0. StoreType /\ FlagType /\ CallType /\ PCType
      BY Zenon, TypeParts
  <1>1. ASSUME NEW e \in Entry, Load(e) PROVE StoreType' /\ FlagType' /\ CallType' /\ PCType'
    <2>1. StoreType'
        BY <1>0, <1>1 DEF Load, StoreType
    <2>2a. loaded' = loaded \cup {e} /\ (failed' = failed \/ failed' = failed \cup {e}) /\ e \in 1..created
        BY <1>0, <1>1 DEF Load
    <2>2b. UNCHANGED <<created, expired, invalid, dropped>>
        BY <1>1 DEF Load
    <2>2. FlagType'
        BY Zenon, <1>0, <2>2a, <2>2b DEF FlagType
    <2>3. CallType'
        BY <1>0, <1>1 DEF Load, CallType, StoreType, PCType, CallInv
    <2>4. PCType'
        BY <1>0, <1>1 DEF Load, PCType, PCs
    <2> QED
        BY Zenon, <2>1, <2>2, <2>3, <2>4
  <1>2. ASSUME NEW e \in Entry, Expires(e) PROVE StoreType' /\ FlagType' /\ CallType' /\ PCType'
    <2>1. StoreType'
        BY <1>0, <1>2 DEF Expires, StoreType
    <2>2. FlagType'
        BY <1>0, <1>2 DEF Expires, FlagType, StoreType
    <2>3. CallType'
        BY <1>0, <1>2 DEF Expires, CallType, StoreType, PCType, CallInv
    <2>4. PCType'
        BY <1>0, <1>2 DEF Expires, PCType, PCs
    <2> QED
        BY Zenon, <2>1, <2>2, <2>3, <2>4
  <1>3. ASSUME NEW c \in Caller, NEW k \in Key, NEW p \in {"get", "lookup"}, Begin(c, k, p) PROVE StoreType' /\ FlagType' /\ CallType' /\ PCType'
    <2>1. StoreType'
        BY <1>0, <1>3 DEF Begin, Goto, Larger, StoreType
    <2>2. FlagType'
        BY <1>0, <1>3 DEF Begin, Goto, Larger, FlagType, StoreType
    <2>3. CallType'
        BY <1>0, <1>3 DEF Begin, Goto, Larger, CallType, StoreType, PCType, CallInv
    <2>4. PCType'
        BY <1>0, <1>3 DEF Begin, Goto, Larger, PCType, PCs
    <2> QED
        BY Zenon, <2>1, <2>2, <2>3, <2>4
  <1>4. ASSUME NEW c \in Caller, Get(c) PROVE StoreType' /\ FlagType' /\ CallType' /\ PCType'
    <2>1. StoreType'
        BY <1>0, <1>4 DEF Get, Look, Goto, StoreType
    <2>2. FlagType'
        BY <1>0, <1>4 DEF Get, Look, Goto, FlagType, StoreType
    <2>3. CallType'
        BY <1>0, <1>4 DEF Get, Look, Goto, CallType, StoreType, PCType, CallInv
    <2>4. PCType'
        BY <1>0, <1>4 DEF Get, Look, Goto, PCType, PCs
    <2> QED
        BY Zenon, <2>1, <2>2, <2>3, <2>4
  <1>5. ASSUME NEW c \in Caller, New(c) PROVE StoreType' /\ FlagType' /\ CallType' /\ PCType'
    <2>1. StoreType'
        <3>1. CASE Found(key[c])
            BY <1>0, <1>5, <3>1 DEF New, StoreType
        <3>2. CASE ~Found(key[c])
            <4>1. key[c] \in Key /\ 0 \in 0..MaxCalls
                BY <1>5 DEF New, CallInv
            <4> QED
                BY <1>0, <1>5, <3>2, <4>1, CreateType DEF New
        <3> QED
            BY <3>1, <3>2
    <2>2. FlagType'
        BY <1>0, <1>5 DEF New, Look, Goto, Create, SetValue, FlagType, StoreType
    <2>3. CallType'
        BY <1>0, <1>5 DEF New, Look, Goto, Create, SetValue, CallType, StoreType, PCType, CallInv
    <2>4. PCType'
        BY <1>0, <1>5 DEF New, Look, Goto, Create, SetValue, PCType, PCs
    <2> QED
        BY Zenon, <2>1, <2>2, <2>3, <2>4
  <1>6. ASSUME NEW c \in Caller, Return(c) PROVE StoreType' /\ FlagType' /\ CallType' /\ PCType'
    <2>1. StoreType'
        BY <1>0, <1>6 DEF Return, Goto, Supersede, Larger, StoreType, CallType, CallInv, PCType
    <2>2. FlagType'
        BY <1>0, <1>6 DEF Return, Goto, Supersede, Larger, FlagType, StoreType
    <2>3. CallType'
        BY <1>0, <1>6 DEF Return, Goto, Supersede, Larger, CallType, StoreType, PCType, CallInv
    <2>4. PCType'
        BY <1>0, <1>6 DEF Return, Goto, Supersede, Larger, PCType, PCs
    <2> QED
        BY Zenon, <2>1, <2>2, <2>3, <2>4
  <1>7. ASSUME NEW c \in Caller, Reject(c) PROVE StoreType' /\ FlagType' /\ CallType' /\ PCType'
    <2>1. StoreType'
        BY <1>0, <1>7 DEF Reject, Goto, StoreType
    <2>2. FlagType'
        BY Zenon, <1>0, <1>7 DEF Reject, FlagType
    <2>3. CallType'
        BY <1>0, <1>7 DEF Reject, Goto, CallType, StoreType, PCType, CallInv
    <2>4. PCType'
        BY <1>0, <1>7 DEF Reject, Goto, PCType, PCs
    <2> QED
        BY Zenon, <2>1, <2>2, <2>3, <2>4
  <1>8. ASSUME NEW c \in Caller, Lookup(c) PROVE StoreType' /\ FlagType' /\ CallType' /\ PCType'
    <2>1. StoreType'
        BY <1>0, <1>8 DEF Lookup, Goto, StoreType
    <2>2. FlagType'
        BY <1>0, <1>8 DEF Lookup, Goto, FlagType, StoreType
    <2>3. CallType'
        BY <1>0, <1>8 DEF Lookup, Goto, CallType, StoreType, PCType, CallInv
    <2>4. PCType'
        BY <1>0, <1>8 DEF Lookup, Goto, PCType, PCs
    <2> QED
        BY Zenon, <2>1, <2>2, <2>3, <2>4
  <1>9. ASSUME NEW c \in Caller, Lock(c) PROVE StoreType' /\ FlagType' /\ CallType' /\ PCType'
    <2>1. StoreType'
        BY <1>0, <1>9 DEF Lock, Goto, StoreType
    <2>2. FlagType'
        BY <1>0, <1>9 DEF Lock, Goto, FlagType, StoreType
    <2>3. CallType'
        BY <1>0, <1>9 DEF Lock, Goto, CallType, StoreType, PCType, CallInv
    <2>4. PCType'
        BY <1>0, <1>9 DEF Lock, Goto, PCType, PCs
    <2> QED
        BY Zenon, <2>1, <2>2, <2>3, <2>4
  <1>10. ASSUME NEW c \in Caller, Replace(c) PROVE StoreType' /\ FlagType' /\ CallType' /\ PCType'
    <2>1. StoreType'
        <3>1. key[c] \in Key /\ at[c] \in 0..MaxCalls
            BY <1>0, <1>10 DEF Replace, CallInv, CallType, StoreType
        <3> QED
            BY <1>0, <1>10, <3>1, CreateType DEF Replace
    <2>2. FlagType'
        BY <1>0, <1>10 DEF Replace, Goto, Create, SetValue, FlagType, StoreType
    <2>3. CallType'
        BY <1>0, <1>10 DEF Replace, Goto, Create, SetValue, CallType, StoreType, PCType, CallInv
    <2>4. PCType'
        BY <1>0, <1>10 DEF Replace, Goto, Create, SetValue, PCType, PCs
    <2> QED
        BY Zenon, <2>1, <2>2, <2>3, <2>4
  <1>11. ASSUME NEW c \in Caller, Await(c) PROVE StoreType' /\ FlagType' /\ CallType' /\ PCType'
    <2>1. StoreType'
        BY <1>0, <1>11 DEF Await, Goto, Supersede, Larger, StoreType, CallType, CallInv, PCType
    <2>2. FlagType'
        BY <1>0, <1>11 DEF Await, Goto, Supersede, Larger, FlagType, StoreType
    <2>3. CallType'
        BY <1>0, <1>11 DEF Await, Goto, Supersede, Larger, CallType, StoreType, PCType, CallInv
    <2>4. PCType'
        BY <1>0, <1>11 DEF Await, Goto, Supersede, Larger, PCType, PCs
    <2> QED
        BY Zenon, <2>1, <2>2, <2>3, <2>4
  <1>12. ASSUME NEW k \in Key, Delete(k) PROVE StoreType' /\ FlagType' /\ CallType' /\ PCType'
    <2>1. StoreType'
        BY <1>0, <1>12 DEF Delete, Supersede, Larger, StoreType
    <2>2a. \A j \in Key : store[j] # 0 => store[j] \in 1..created
        BY <1>0 DEF StoreType
    <2>2. FlagType'
        BY Zenon, <1>0, <1>12, <2>2a DEF Delete, FlagType, entryVars
    <2>3. CallType'
        BY <1>0, <1>12 DEF Delete, Supersede, Larger, CallType, StoreType, PCType, CallInv
    <2>4. PCType'
        BY <1>0, <1>12 DEF Delete, Supersede, Larger, PCType, PCs
    <2> QED
        BY Zenon, <2>1, <2>2, <2>3, <2>4
  <1>13. CASE Reset
    <2>1. StoreType'
        BY <1>0, <1>13 DEF Reset, StoreType
    <2>2a. \A j \in Key : store[j] # 0 => store[j] \in 1..created
        BY <1>0 DEF StoreType
    <2>2. FlagType'
        BY Zenon, <1>0, <1>13, <2>2a DEF Reset, FlagType, entryVars
    <2>3. CallType'
        BY <1>0, <1>13 DEF Reset, CallType, StoreType, PCType, CallInv
    <2>4. PCType'
        BY <1>0, <1>13 DEF Reset, PCType, PCs
    <2> QED
        BY Zenon, <2>1, <2>2, <2>3, <2>4
  <1>14. CASE EvictMark
    <2>1. StoreType'
        BY <1>0, <1>14 DEF EvictMark, StoreType
    <2>2. FlagType'
        BY Zenon, <1>0, <1>14 DEF EvictMark, FlagType
    <2>3. CallType'
        BY <1>0, <1>14 DEF EvictMark, CallType, StoreType, PCType, CallInv
    <2>4. PCType'
        BY <1>0, <1>14 DEF EvictMark, PCType, PCs
    <2> QED
        BY Zenon, <2>1, <2>2, <2>3, <2>4
  <1>15. CASE EvictSweep
    <2>1. StoreType'
        BY <1>0, <1>15 DEF EvictSweep, StoreType
    <2>2. FlagType'
        BY <1>0, <1>15 DEF EvictSweep, FlagType, StoreType
    <2>3. CallType'
        BY <1>0, <1>15 DEF EvictSweep, CallType, StoreType, PCType, CallInv
    <2>4. PCType'
        BY <1>0, <1>15 DEF EvictSweep, PCType, PCs
    <2> QED
        BY Zenon, <2>1, <2>2, <2>3, <2>4
  <1>16. CASE UNCHANGED vars
    <2>1. StoreType'
        BY <1>0, <1>16 DEF vars, flagVars, StoreType
    <2>2. FlagType'
        BY <1>0, <1>16 DEF vars, flagVars, FlagType, StoreType
    <2>3. CallType'
        BY <1>0, <1>16 DEF vars, flagVars, CallType, StoreType, PCType, CallInv
    <2>4. PCType'
        BY <1>0, <1>16 DEF vars, flagVars, PCType, PCs
    <2> QED
        BY Zenon, <2>1, <2>2, <2>3, <2>4
  <1> QED
      BY <1>1, <1>2, <1>3, <1>4, <1>5, <1>6, <1>7, <1>8, <1>9, <1>10, <1>11, <1>12, <1>13, <1>14, <1>15, <1>16 DEF Next, CallStep

LEMMA CreateInv ==
  ASSUME TypeOK, Newest, BaseInv, SingleFlight, NoLostUpdate,
         NEW k \in Key, NEW b \in {0, store[k]},
         store[k] # 0 => store[k] \in loaded,
         Create(k, b), UNCHANGED <<loaded, invalid, dropped, floor>>
  PROVE  Newest' /\ BaseInv' /\ SingleFlight' /\ NoLostUpdate'
  <1> DEFINE n == created + 1
  <1>1. /\ created \in Nat /\ n \in Entry /\ created' = n
        /\ keyOf'[n] = k /\ base'[n] = b /\ store'[k] = n
        /\ \A e \in 1..created : e \in Entry /\ e # n /\ keyOf'[e] = keyOf[e] /\ base'[e] = base[e]
        /\ \A j \in Key : j # k => store'[j] = store[j] \/ (store'[j] = 0 /\ store[j] \in loaded)
        /\ \A j \in Key : store[j] \in 0..created /\ floor[j] \in 0..created
      BY CacheAssumption DEF Create, SetValue, TypeOK, Entry
  <1>2. 1..n = 1..created \cup {n}
      BY <1>1
  <1>3. Newest'
      BY <1>1, <1>2 DEF Newest
  <1>4. BaseInv'
      BY <1>1, <1>2 DEF BaseInv, Newest
  <1>5. SingleFlight'
      BY <1>1, <1>2 DEF SingleFlight, BaseInv, TypeOK
  <1>6. \A e \in 1..created : base[e] # 0 => base[e] # b
      BY <1>1 DEF BaseInv, Newest
  <1>7. NoLostUpdate'
      BY <1>1, <1>2, <1>6 DEF NoLostUpdate
  <1> QED
      BY <1>3, <1>4, <1>5, <1>7

LEMMA StoreStep ==
  CacheInv /\ [Next]_vars => Newest' /\ BaseInv' /\ SingleFlight' /\ NoLostUpdate'
  <1> SUFFICES ASSUME CacheInv, [Next]_vars
               PROVE  Newest' /\ BaseInv' /\ SingleFlight' /\ NoLostUpdate'
      OBVIOUS
  <1> USE CacheAssumption DEF CacheInv, entryVars, flagVars, callVars
  <1>1. ASSUME NEW e \in Entry, Load(e) PROVE Newest' /\ BaseInv' /\ SingleFlight' /\ NoLostUpdate'
      BY <1>1 DEF Load, Newest, BaseInv, SingleFlight, NoLostUpdate
  <1>2. ASSUME NEW e \in Entry, Expires(e) PROVE Newest' /\ BaseInv' /\ SingleFlight' /\ NoLostUpdate'
      BY <1>2 DEF Expires, Newest, BaseInv, SingleFlight, NoLostUpdate
  <1>3. ASSUME NEW c \in Caller, NEW k \in Key, NEW p \in {"get", "lookup"}, Begin(c, k, p) PROVE Newest' /\ BaseInv' /\ SingleFlight' /\ NoLostUpdate'
      BY <1>3 DEF Begin, Newest, BaseInv, SingleFlight, NoLostUpdate
  <1>4. ASSUME NEW c \in Caller, Get(c) PROVE Newest' /\ BaseInv' /\ SingleFlight' /\ NoLostUpdate'
      BY <1>4 DEF Get, Newest, BaseInv, SingleFlight, NoLostUpdate
  <1>5. ASSUME NEW c \in Caller, New(c) PROVE Newest' /\ BaseInv' /\ SingleFlight' /\ NoLostUpdate'
    <2>1. CASE Found(key[c])
        BY <1>5, <2>1 DEF New, Newest, BaseInv, SingleFlight, NoLostUpdate
    <2>2. CASE ~Found(key[c])
        <3>1. key[c] \in Key /\ (store[key[c]] # 0 => store[key[c]] \in loaded)
            BY <1>5, <2>2 DEF New, CallInv, Found, TypeOK
        <3> QED
            BY <1>5, <2>2, <3>1, CreateInv DEF New
    <2> QED
        BY <2>1, <2>2
  <1>6. ASSUME NEW c \in Caller, Return(c) PROVE Newest' /\ BaseInv' /\ SingleFlight' /\ NoLostUpdate'
    <2>1. key[c] \in Key /\ at[c] \in 1..created /\ keyOf[at[c]] = key[c]
        BY <1>6 DEF Return, CallInv
    <2>2. Newest'
        BY <1>6, <2>1 DEF Return, Goto, Supersede, Larger, Newest, TypeOK
    <2> QED
        BY <1>6, <2>2 DEF Return, BaseInv, SingleFlight, NoLostUpdate
  <1>7. ASSUME NEW c \in Caller, Reject(c) PROVE Newest' /\ BaseInv' /\ SingleFlight' /\ NoLostUpdate'
      BY <1>7 DEF Reject, Newest, BaseInv, SingleFlight, NoLostUpdate
  <1>8. ASSUME NEW c \in Caller, Lookup(c) PROVE Newest' /\ BaseInv' /\ SingleFlight' /\ NoLostUpdate'
      BY <1>8 DEF Lookup, Newest, BaseInv, SingleFlight, NoLostUpdate
  <1>9. ASSUME NEW c \in Caller, Lock(c) PROVE Newest' /\ BaseInv' /\ SingleFlight' /\ NoLostUpdate'
      BY <1>9 DEF Lock, Newest, BaseInv, SingleFlight, NoLostUpdate
  <1>10. ASSUME NEW c \in Caller, Replace(c) PROVE Newest' /\ BaseInv' /\ SingleFlight' /\ NoLostUpdate'
    <2>1. key[c] \in Key /\ at[c] = store[key[c]] /\ at[c] \in loaded
        BY <1>10 DEF Replace, CallInv
    <2> QED
        BY <1>10, <2>1, CreateInv DEF Replace
  <1>11. ASSUME NEW c \in Caller, Await(c) PROVE Newest' /\ BaseInv' /\ SingleFlight' /\ NoLostUpdate'
    <2>1. key[c] \in Key /\ at[c] \in 1..created /\ keyOf[at[c]] = key[c]
        BY <1>11 DEF Await, CallInv
    <2>2. Newest'
        BY <1>11, <2>1 DEF Await, Goto, Supersede, Larger, Newest, TypeOK
    <2> QED
        BY <1>11, <2>2 DEF Await, BaseInv, SingleFlight, NoLostUpdate
  <1>12. ASSUME NEW k \in Key, Delete(k) PROVE Newest' /\ BaseInv' /\ SingleFlight' /\ NoLostUpdate'
    <2>1. Newest'
        BY <1>12 DEF Delete, Supersede, Larger, Newest, TypeOK
    <2>2. SingleFlight'
        BY <1>12 DEF Delete, SingleFlight, BaseInv, TypeOK, Entry
    <2> QED
        BY <1>12, <2>1, <2>2 DEF Delete, BaseInv, NoLostUpdate
  <1>13. CASE Reset
    <2>1. Newest'
        BY <1>13 DEF Reset, Newest, TypeOK
    <2>2. SingleFlight'
        BY <1>13 DEF Reset, SingleFlight, BaseInv, TypeOK, Entry
    <2> QED
        BY <1>13, <2>1, <2>2 DEF Reset, BaseInv, NoLostUpdate
  <1>14. CASE EvictMark
      BY <1>14 DEF EvictMark, Newest, BaseInv, SingleFlight, NoLostUpdate
  <1>15. CASE EvictSweep
    <2>1. Newest'
        BY <1>15 DEF EvictSweep, Newest, TypeOK
    <2>2. SingleFlight'
        BY <1>15 DEF EvictSweep, SingleFlight, BaseInv, TypeOK, Entry
    <2> QED
        BY <1>15, <2>1, <2>2 DEF EvictSweep, BaseInv, NoLostUpdate
  <1>16. CASE UNCHANGED vars
      BY <1>16 DEF vars, flagVars, Newest, BaseInv, SingleFlight, NoLostUpdate
  <1> QED
      BY <1>1, <1>2, <1>3, <1>4, <1>5, <1>6, <1>7, <1>8, <1>9, <1>10, <1>11, <1>12, <1>13, <1>14, <1>15, <1>16 DEF Next, CallStep

LEMMA CallStepInv == CacheInv /\ [Next]_vars => CallInv' /\ SinceInv' /\ NoStaleRead'
  <1> SUFFICES ASSUME CacheInv, [Next]_vars PROVE CallInv' /\ SinceInv' /\ NoStaleRead'
      OBVIOUS
  <1> USE CacheAssumption DEF CacheInv, entryVars, flagVars, callVars
  <1>1. ASSUME NEW e \in Entry, Load(e) PROVE CallInv' /\ SinceInv' /\ NoStaleRead'
    <2>1. CallInv'
        BY <1>1 DEF Load, CallInv, Newest, Found, TypeOK, PCs
    <2>2. SinceInv'
        BY <1>1 DEF Load, SinceInv, CallInv, Found, Newest, TypeOK, PCs
    <2>3. NoStaleRead'
        BY <1>1 DEF Load, NoStaleRead, SinceInv, Found, TypeOK, PCs
    <2> QED
        BY <2>1, <2>2, <2>3
  <1>2. ASSUME NEW e \in Entry, Expires(e) PROVE CallInv' /\ SinceInv' /\ NoStaleRead'
    <2>1. CallInv'
        BY <1>2 DEF Expires, CallInv, Newest, Found, TypeOK, PCs
    <2>2. SinceInv'
        BY <1>2 DEF Expires, SinceInv, CallInv, Found, Newest, TypeOK, PCs
    <2>3. NoStaleRead'
        BY <1>2 DEF Expires, NoStaleRead, SinceInv, Found, TypeOK, PCs
    <2> QED
        BY <2>1, <2>2, <2>3
  <1>3. ASSUME NEW c \in Caller, NEW k \in Key, NEW p \in {"get", "lookup"}, Begin(c, k, p) PROVE CallInv' /\ SinceInv' /\ NoStaleRead'
    <2>1. CallInv'
        BY <1>3 DEF Begin, Goto, Larger, CallInv, Newest, Found, TypeOK, PCs
    <2>2. SinceInv'
        BY <1>3 DEF Begin, Goto, Larger, SinceInv, CallInv, Found, Newest, TypeOK, PCs
    <2>3. NoStaleRead'
        BY <1>3 DEF Begin, Goto, Larger, NoStaleRead, SinceInv, Found, TypeOK, PCs
    <2> QED
        BY <2>1, <2>2, <2>3
  <1>4. ASSUME NEW c \in Caller, Get(c) PROVE CallInv' /\ SinceInv' /\ NoStaleRead'
    <2>1. CallInv'
        BY <1>4 DEF Get, Look, Goto, CallInv, Newest, Found, TypeOK, PCs
    <2>2. SinceInv'
        BY <1>4 DEF Get, Look, Goto, SinceInv, CallInv, Found, Newest, TypeOK, PCs
    <2>3. NoStaleRead'
        BY <1>4 DEF Get, Look, Goto, NoStaleRead, SinceInv, Found, TypeOK, PCs
    <2> QED
        BY <2>1, <2>2, <2>3
  <1>5. ASSUME NEW c \in Caller, New(c) PROVE CallInv' /\ SinceInv' /\ NoStaleRead'
    <2>0. writer = NoCaller /\ \A d \in Caller : pc[d] # "hold" /\ (d # c => pc'[d] = pc[d])
        BY <1>5 DEF New, Look, Goto, CallInv, TypeOK
    <2>1. CallInv'
        <3>1. CASE Found(key[c])
            BY <1>5, <2>0, <3>1 DEF New, Look, Goto, CallInv, Newest, Found, TypeOK
        <3>2. CASE ~Found(key[c])
            <4>1. /\ created \in Nat /\ created' = created + 1 /\ keyOf'[created + 1] = key[c]
                  /\ \A e \in 1..created : e \in 1..created' /\ keyOf'[e] = keyOf[e]
                BY <1>5, <3>2 DEF New, Create, TypeOK, Entry
            <4>2. /\ at'[c] = created + 1 /\ pc'[c] = "check" /\ key' = key /\ key[c] \in Key
                  /\ \A d \in Caller : d # c => at'[d] = at[d]
                BY <1>5, <3>2 DEF New, Goto, CallInv, TypeOK
            <4>3. at'[c] \in 1..created' /\ keyOf'[at'[c]] = key'[c]
                BY <4>1, <4>2
            <4> SUFFICES ASSUME NEW d \in Caller
                         PROVE  /\ pc'[d] # "idle" => key'[d] \in Key
                                /\ pc'[d] \in {"check", "await", "hold"}
                                     => at'[d] \in 1..created' /\ keyOf'[at'[d]] = key'[d]
                                /\ pc'[d] = "hold" => writer' = d /\ at'[d] = store'[key'[d]]
                BY DEF CallInv
            <4>4. CASE d = c
                BY <4>2, <4>3, <4>4
            <4>5. CASE d # c
                <5>1. pc'[d] = pc[d] /\ pc[d] # "hold" /\ at'[d] = at[d] /\ key'[d] = key[d]
                    BY <2>0, <4>2, <4>5
                <5>2. /\ pc[d] # "idle" => key[d] \in Key
                      /\ pc[d] \in {"check", "await", "hold"}
                           => at[d] \in 1..created /\ keyOf[at[d]] = key[d]
                    BY DEF CallInv
                <5> QED
                    BY <4>1, <5>1, <5>2
            <4> QED
                BY <4>4, <4>5
        <3> QED
            BY <3>1, <3>2
    <2>2. SinceInv'
        BY <1>5 DEF New, Look, Goto, Create, SetValue, SinceInv, CallInv, Found, Newest, TypeOK, PCs
    <2>3. NoStaleRead'
        BY <1>5 DEF New, Look, Goto, Create, SetValue, NoStaleRead, SinceInv, Found, TypeOK, PCs
    <2> QED
        BY <2>1, <2>2, <2>3
  <1>6. ASSUME NEW c \in Caller, Return(c) PROVE CallInv' /\ SinceInv' /\ NoStaleRead'
    <2>1. CallInv'
        BY <1>6 DEF Return, Goto, CallInv, Newest, Found, TypeOK, PCs
    <2>2. SinceInv'
        BY <1>6 DEF Return, Goto, SinceInv, CallInv, Found, Newest, TypeOK, PCs
    <2>3. NoStaleRead'
        BY <1>6 DEF Return, Goto, NoStaleRead, SinceInv, Found, TypeOK, PCs
    <2> QED
        BY <2>1, <2>2, <2>3
  <1>7. ASSUME NEW c \in Caller, Reject(c) PROVE CallInv' /\ SinceInv' /\ NoStaleRead'
    <2>1. CallInv'
        BY <1>7 DEF Reject, Goto, CallInv, Newest, Found, TypeOK, PCs
    <2>2. SinceInv'
        BY <1>7 DEF Reject, Goto, SinceInv, CallInv, Found, Newest, TypeOK, PCs
    <2>3. NoStaleRead'
        BY <1>7 DEF Reject, Goto, NoStaleRead, SinceInv, Found, TypeOK, PCs
    <2> QED
        BY <2>1, <2>2, <2>3
  <1>8. ASSUME NEW c \in Caller, Lookup(c) PROVE CallInv' /\ SinceInv' /\ NoStaleRead'
    <2>1. CallInv'
        BY <1>8 DEF Lookup, Goto, CallInv, Newest, Found, TypeOK, PCs
    <2>2. SinceInv'
        BY <1>8 DEF Lookup, Goto, SinceInv, CallInv, Found, Newest, TypeOK, PCs
    <2>3. NoStaleRead'
        BY <1>8 DEF Lookup, Goto, NoStaleRead, SinceInv, Found, TypeOK, PCs
    <2> QED
        BY <2>1, <2>2, <2>3
  <1>9. ASSUME NEW c \in Caller, Lock(c) PROVE CallInv' /\ SinceInv' /\ NoStaleRead'
    <2>1. CallInv'
        BY <1>9 DEF Lock, Goto, CallInv, Newest, Found, TypeOK, PCs
    <2>2. SinceInv'
        BY <1>9 DEF Lock, Goto, SinceInv, CallInv, Found, Newest, TypeOK, PCs
    <2>3. NoStaleRead'
        BY <1>9 DEF Lock, Goto, NoStaleRead, SinceInv, Found, TypeOK, PCs
    <2> QED
        BY <2>1, <2>2, <2>3
  <1>10. ASSUME NEW c \in Caller, Replace(c) PROVE CallInv' /\ SinceInv' /\ NoStaleRead'
    <2>0. writer = c /\ \A d \in Caller : d # c => pc[d] # "hold" /\ pc'[d] = pc[d]
        BY <1>10 DEF Replace, Goto, CallInv, TypeOK
    <2>1. CallInv'
        <3>1. /\ created \in Nat /\ created' = created + 1 /\ keyOf'[created + 1] = key[c]
              /\ \A e \in 1..created : e \in 1..created' /\ keyOf'[e] = keyOf[e]
            BY <1>10 DEF Replace, Create, TypeOK, Entry
        <3>2. /\ at'[c] = created + 1 /\ pc'[c] = "await" /\ key' = key /\ key[c] \in Key
              /\ \A d \in Caller : d # c => at'[d] = at[d]
            BY <1>10 DEF Replace, Goto, CallInv, TypeOK
        <3> QED
            BY <2>0, <3>1, <3>2 DEF CallInv
    <2>2. SinceInv'
        BY <1>10 DEF Replace, Look, Goto, Create, SetValue, SinceInv, CallInv, Found, Newest, TypeOK, PCs
    <2>3. NoStaleRead'
        BY <1>10 DEF Replace, Look, Goto, Create, SetValue, NoStaleRead, SinceInv, Found, TypeOK, PCs
    <2> QED
        BY <2>1, <2>2, <2>3
  <1>11. ASSUME NEW c \in Caller, Await(c) PROVE CallInv' /\ SinceInv' /\ NoStaleRead'
    <2>1. CallInv'
        BY <1>11 DEF Await, Goto, CallInv, Newest, Found, TypeOK, PCs
    <2>2. SinceInv'
        BY <1>11 DEF Await, Goto, SinceInv, CallInv, Found, Newest, TypeOK, PCs
    <2>3. NoStaleRead'
        BY <1>11 DEF Await, Goto, NoStaleRead, SinceInv, Found, TypeOK, PCs
    <2> QED
        BY <2>1, <2>2, <2>3
  <1>12. ASSUME NEW k \in Key, Delete(k) PROVE CallInv' /\ SinceInv' /\ NoStaleRead'
    <2>1. CallInv'
        BY <1>12 DEF Delete, CallInv, Newest, Found, TypeOK, PCs
    <2>2. SinceInv'
        BY <1>12 DEF Delete, SinceInv, CallInv, Found, Newest, TypeOK, PCs
    <2>3. NoStaleRead'
        BY <1>12 DEF Delete, NoStaleRead, SinceInv, Found, TypeOK, PCs
    <2> QED
        BY <2>1, <2>2, <2>3
  <1>13. CASE Reset
    <2>1. CallInv'
        BY <1>13 DEF Reset, CallInv, Newest, Found, TypeOK, PCs
    <2>2. SinceInv'
        BY <1>13 DEF Reset, SinceInv, CallInv, Found, Newest, TypeOK, PCs
    <2>3. NoStaleRead'
        BY <1>13 DEF Reset, NoStaleRead, SinceInv, Found, TypeOK, PCs
    <2> QED
        BY <2>1, <2>2, <2>3
  <1>14. CASE EvictMark
    <2>1. CallInv'
        BY <1>14 DEF EvictMark, CallInv, Newest, Found, TypeOK, PCs
    <2>2. SinceInv'
        BY <1>14 DEF EvictMark, SinceInv, CallInv, Found, Newest, TypeOK, PCs
    <2>3. NoStaleRead'
        BY <1>14 DEF EvictMark, NoStaleRead, SinceInv, Found, TypeOK, PCs
    <2> QED
        BY <2>1, <2>2, <2>3
  <1>15. CASE EvictSweep
    <2>1. CallInv'
        BY <1>15 DEF EvictSweep, CallInv, Newest, Found, TypeOK, PCs
    <2>2. SinceInv'
        BY <1>15 DEF EvictSweep, SinceInv, CallInv, Found, Newest, TypeOK, PCs
    <2>3. NoStaleRead'
        BY <1>15 DEF EvictSweep, NoStaleRead, SinceInv, Found, TypeOK, PCs
    <2> QED
        BY <2>1, <2>2, <2>3
  <1>16. CASE UNCHANGED vars
    <2>1. CallInv'
        BY <1>16 DEF vars, flagVars, CallInv, Newest, Found, TypeOK, PCs
    <2>2. SinceInv'
        BY <1>16 DEF vars, flagVars, SinceInv, CallInv, Found, Newest, TypeOK, PCs
    <2>3. NoStaleRead'
        BY <1>16 DEF vars, flagVars, NoStaleRead, SinceInv, Found, TypeOK, PCs
    <2> QED
        BY <2>1, <2>2, <2>3
  <1> QED
      BY <1>1, <1>2, <1>3, <1>4, <1>5, <1>6, <1>7, <1>8, <1>9, <1>10, <1>11, <1>12, <1>13, <1>14, <1>15, <1>16 DEF Next, CallStep

-----------------------------------------------------------------------------
LEMMA Inductive == Spec => []CacheInv
  <1>1. CacheInv /\ [Next]_vars => CacheInv'
      BY Zenon, TypeStep, StoreStep, CallStepInv DEF CacheInv
  <1> QED
      BY <1>1, InitInv, PTL DEF Spec

\* The state of the cache, of its entries and of the calls is well-formed.
THEOREM TypeCorrect == Spec => []TypeOK
  <1>1. CacheInv => TypeOK
      BY Zenon DEF CacheInv
  <1> QED
      BY <1>1, Inductive, PTL

\* getOrNew, replaceIfPresent and evict: however many goroutines ask for a key,
\* it is loaded once at a time, unless Delete or Reset drops a load in progress.
THEOREM SingleFlightAlways == Spec => []SingleFlight
  <1>1. CacheInv => SingleFlight
      BY Zenon DEF CacheInv
  <1> QED
      BY <1>1, Inductive, PTL

\* GetOrLoad and Update never return what was deleted, invalidated or superseded
\* by the time they were called.
THEOREM NoStaleReadAlways == Spec => []NoStaleRead
  <1>1. CacheInv => NoStaleRead
      BY Zenon DEF CacheInv
  <1> QED
      BY <1>1, Inductive, PTL

\* Update: no two updaters start from the same value, because replaceIfPresent
\* keeps the write lock while it waits for that value.
THEOREM NoLostUpdateAlways == Spec => []NoLostUpdate
  <1>1. CacheInv => NoLostUpdate
      BY Zenon DEF CacheInv
  <1> QED
      BY <1>1, Inductive, PTL

\* memcache.go: the three together, for any number of goroutines, keys and calls.
THEOREM CoherentAlways == Spec => []Coherent
  <1>1. SingleFlight /\ NoStaleRead /\ NoLostUpdate => Coherent
      BY DEF Coherent
  <1> QED
      BY <1>1, SingleFlightAlways, NoStaleReadAlways, NoLostUpdateAlways, PTL
=============================================================================
