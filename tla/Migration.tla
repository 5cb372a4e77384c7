----------------------------- MODULE Migration ------------------------------
(* migration/migrator.go and version.go: processes that run the registered   *)
(* migration steps against one database and its table of versions.           *)
EXTENDS Naturals, Sequences

CONSTANTS Process,
          Releases,     \* the sets of steps that successive releases register
          Tagged,       \* the steps that have the tag of filterFlag
          MaxRuns, MaxFaults

Versions == UNION {Releases[i] : i \in DOMAIN Releases}

VARIABLES allowOutOfOrder, filter,  \* flags
          release,      \* the release that is deployed
          table,        \* table of versions: "none", "success" or "failed"
          nils,         \* history: how many executions of a step returned nil
          unrecorded,   \* history: how many of those lost their record
          run,          \* runs of Migrate
          overlapped,   \* history: two runs have been under way at a time
          runs, faults

vars == <<allowOutOfOrder, filter, release, table, nils, unrecorded, run, overlapped, runs, faults>>

\* steps: registered in the run's release; applied: rows GetAppliedMigrations
\* returned; left: steps the loop has yet to visit; step: what is executing.
Idle == [at |-> "idle", steps |-> {}, applied |-> {}, left |-> {}, step |-> <<>>]

\* Every state variable has a value of its type.
TypeOK ==
    /\ allowOutOfOrder \in BOOLEAN /\ filter \in BOOLEAN
    /\ release \in DOMAIN Releases
    /\ table \in [Versions -> {"none", "success", "failed"}]
    /\ nils \in [Versions -> Nat] /\ unrecorded \in [Versions -> Nat]
    /\ run \in [Process -> [at : {"idle", "loop", "func", "nil", "error"},
                            steps : SUBSET Versions, applied : SUBSET Versions,
                            left : SUBSET Versions, step : Versions \cup {<<>>}]]
    /\ \A p \in Process : run[p].step = <<>> <=> run[p].at \in {"idle", "loop"}
    /\ overlapped \in BOOLEAN /\ runs \in 0 .. MaxRuns /\ faults \in 0 .. MaxFaults

Init ==
    /\ allowOutOfOrder \in BOOLEAN /\ filter \in BOOLEAN
    /\ release = 1
    /\ table = [v \in Versions |-> "none"]
    /\ nils = [v \in Versions |-> 0] /\ unrecorded = [v \in Versions |-> 0]
    /\ run = [p \in Process |-> Idle]
    /\ overlapped = FALSE /\ runs = 0 /\ faults = 0

\* Version.Lt: the first components that differ decide, then the lengths.
Lt(v, other) ==
    \/ \E n \in DOMAIN v \cap DOMAIN other :
         v[n] < other[n] /\ \A k \in 1 .. n - 1 : v[k] = other[k]
    \/ /\ \A n \in DOMAIN v \cap DOMAIN other : v[n] = other[n]
       /\ Len(v) < Len(other)

\* The order of sort.SliceStable is that of Lt.
First(steps) == CHOOSE v \in steps : \A w \in steps \ {v} : Lt(v, w)
Latest(steps) == CHOOSE v \in steps : \A w \in steps \ {v} : Lt(w, v)

Deploy ==
    /\ release + 1 \in DOMAIN Releases
    /\ release' = release + 1
    /\ UNCHANGED <<allowOutOfOrder, filter, table, nils, unrecorded, run, overlapped, runs, faults>>

\* Migrate up to its loop: the rows are read once; a failed one stops the run.
\* So does an error of the database, which changes nothing.
Migrate(p) ==
    /\ run[p].at = "idle" /\ runs < MaxRuns
    /\ runs' = runs + 1
    /\ overlapped' = (overlapped \/ \E q \in Process : run[q].at # "idle")
    /\ LET rows == {v \in Versions : table[v] # "none"} IN
         run' = IF \E v \in rows : table[v] = "failed" THEN run
                ELSE [run EXCEPT ![p] = [at |-> "loop", steps |-> Releases[release], applied |-> rows,
                                         left |-> Releases[release], step |-> <<>>]]
    /\ UNCHANGED <<allowOutOfOrder, filter, release, table, nils, unrecorded, faults>>

Selected(v) == filter => v \in Tagged

ShouldExecute(r, v) ==
    IF allowOutOfOrder THEN v \notin r.applied ELSE r.applied = {} \/ Lt(Latest(r.applied), v)

\* One round of the loop, up to the call of the step's function.
Visit(p) ==
    /\ run[p].at = "loop" /\ run[p].left # {}
    /\ LET v == First(run[p].left) IN
         run' = [run EXCEPT ![p].left = @ \ {v},
                            ![p].at = IF Selected(v) /\ ShouldExecute(run[p], v) THEN "func" ELSE "loop",
                            ![p].step = IF Selected(v) /\ ShouldExecute(run[p], v) THEN v ELSE <<>>]
    /\ UNCHANGED <<allowOutOfOrder, filter, release, table, nils, unrecorded, overlapped, runs, faults>>

MigrateReturns(p) ==
    /\ run[p].at = "loop" /\ run[p].left = {}
    /\ run' = [run EXCEPT ![p] = Idle]
    /\ UNCHANGED <<allowOutOfOrder, filter, release, table, nils, unrecorded, overlapped, runs, faults>>

\* The function of the step returns.
FuncNil(p) ==
    /\ run[p].at = "func"
    /\ run' = [run EXCEPT ![p].at = "nil"]
    /\ nils' = [nils EXCEPT ![run[p].step] = @ + 1]
    /\ UNCHANGED <<allowOutOfOrder, filter, release, table, unrecorded, overlapped, runs, faults>>

FuncError(p) ==
    /\ run[p].at = "func" /\ faults < MaxFaults
    /\ run' = [run EXCEPT ![p].at = "error"]
    /\ faults' = faults + 1
    /\ UNCHANGED <<allowOutOfOrder, filter, release, table, nils, unrecorded, overlapped, runs>>

\* Mutant: the loop goes on after a failed step.
RecordGoesOn(p) ==
    /\ run[p].at \in {"nil", "error"}
    /\ table' = [table EXCEPT ![run[p].step] = IF run[p].at = "nil" THEN "success" ELSE "failed"]
    /\ run' = [run EXCEPT ![p].at = "loop", ![p].step = <<>>]
    /\ UNCHANGED <<allowOutOfOrder, filter, release, nils, unrecorded, overlapped, runs, faults>>

\* RecordAppliedMigration saves the row; after a failed step the run is over.
Record(p) ==
    /\ run[p].at \in {"nil", "error"}
    /\ table' = [table EXCEPT ![run[p].step] = IF run[p].at = "nil" THEN "success" ELSE "failed"]
    /\ run' = [run EXCEPT ![p] = IF @.at = "nil" THEN [@ EXCEPT !.at = "loop", !.step = <<>>] ELSE Idle]
    /\ UNCHANGED <<allowOutOfOrder, filter, release, nils, unrecorded, overlapped, runs, faults>>

\* The row cannot be saved, or the process dies: the run is over. A step that is
\* cut short counts as not executed.
Breaks(p) ==
    /\ run[p].at # "idle" /\ faults < MaxFaults
    /\ unrecorded' = IF run[p].at = "nil" THEN [unrecorded EXCEPT ![run[p].step] = @ + 1] ELSE unrecorded
    /\ run' = [run EXCEPT ![p] = Idle]
    /\ faults' = faults + 1
    /\ UNCHANGED <<allowOutOfOrder, filter, release, table, nils, overlapped, runs>>

Next ==
    \/ Deploy
    \/ \E p \in Process : \/ Migrate(p) \/ Visit(p) \/ MigrateReturns(p)
                          \/ FuncNil(p) \/ FuncError(p) \/ Record(p) \/ Breaks(p)

Spec == Init /\ [][Next]_vars

-----------------------------------------------------------------------------
\* A step is executed with success once more only for each record that was lost,
\* as long as runs do not overlap ("should the migration func and recording the
\* version be put in one transaction?").
OncePerRecord ==
    ~overlapped => \A v \in Versions : nils[v] <= unrecorded[v] + 1

\* A step is executed only on a database that has the steps before it: every
\* selected step of the release with a lower version has been executed with
\* success, or is out of order, whatever runs overlap, fail or die.
Prerequisites ==
    \A p \in Process : run[p].at = "func" =>
      \A w \in run[p].steps :
        Selected(w) /\ Lt(w, run[p].step) =>
          nils[w] > 0 \/ (~allowOutOfOrder /\ run[p].applied # {} /\ Lt(w, Latest(run[p].applied)))

\* "stopping migration because there is a failed migration step": unless runs
\* overlap nothing is executed once a failed step is on record.
FailureStops ==
    ~overlapped /\ (\E v \in Versions : table[v] = "failed") => \A p \in Process : run[p].at = "idle"
=============================================================================
