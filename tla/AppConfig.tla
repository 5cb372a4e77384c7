----------------------------- MODULE AppConfig ------------------------------
(* appconfig/config.go and provider_group.go: Load asks the provider groups  *)
(* for their providers, loads the new ones, merges the settings of all, and  *)
(* asks again, as the settings name the profiles the providers depend on.    *)
(* The first stage knows the bootstrap files and the command line, the       *)
(* second one the application files too; of each kind of file there is a     *)
(* default one and one for each profile.                                     *)
EXTENDS Naturals, Sequences, FiniteSets, SequencesExt

CONSTANTS Profile,
          Default,      \* key of the default file
          Unset,        \* application.profiles.active is not in a source
          Files,        \* the sets of files to look at
          MaxLoads, MaxFaults,
          MaxRounds     \* rounds are counted up to this

Key == Profile \cup {Default}
Group == {"bootstrap", "application"}
CommandLine == <<"commandline">>

VARIABLES file,         \* settings of the existing files, by group and key
          cli,          \* settings of the command line
          stage,        \* 1 or 2
          lookup,       \* ProviderLookup of a group: "absent", "new" or "loaded"
          resolved,     \* ResolvedProviders of a group, nil if empty
          cliLoaded,    \* the provider of the command line is loaded
          final,        \* the merged settings
          rounds,       \* rounds of the loop of Load; 0: isFirstIter
          pc,           \* "loading" while Load runs
          isLoaded,
          properties, providers,  \* what Load sets at its end
          forced,       \* history: a load was forced
          loads, faults

vars == <<file, cli, stage, lookup, resolved, cliLoaded, final, rounds, pc, isLoaded, properties,
          providers, forced, loads, faults>>

\* application.profiles.active and .additional.
Initial == [active |-> Unset, additional |-> <<>>]
IsSettings(s) == (s.active = Unset \/ s.active \in Seq(Profile)) /\ s.additional \in Seq(Profile)

\* Every state variable has a value of its type.
TypeOK ==
    /\ DOMAIN file \subseteq Group \X Key /\ \A f \in DOMAIN file : IsSettings(file[f])
    /\ IsSettings(cli) /\ IsSettings(final) /\ IsSettings(properties)
    /\ stage \in 1 .. 2
    /\ lookup \in [Group -> [Key -> {"absent", "new", "loaded"}]]
    /\ \A g \in Group : resolved[g] \in Seq({k \in Key : <<g, k>> \in DOMAIN file})
    /\ cliLoaded \in BOOLEAN /\ isLoaded \in BOOLEAN /\ forced \in BOOLEAN
    /\ pc \in {"idle", "loading"}
    /\ providers \in Seq(DOMAIN file \cup {CommandLine})
    /\ rounds \in 0 .. MaxRounds /\ loads \in 0 .. MaxLoads /\ faults \in 0 .. MaxFaults

Init ==
    /\ file \in Files
    /\ cli \in {[Initial EXCEPT !.active = x] : x \in {Unset} \cup {<<p>> : p \in Profile}}
    /\ stage = 1
    /\ lookup = [g \in Group |-> [k \in Key |-> "absent"]]
    /\ resolved = [g \in Group |-> <<>>]
    /\ cliLoaded = FALSE
    /\ final = Initial /\ rounds = 0
    /\ pc = "idle" /\ isLoaded = FALSE
    /\ properties = Initial /\ providers = <<>>
    /\ forced = FALSE /\ loads = 0 /\ faults = 0

-----------------------------------------------------------------------------
\* resolveProfiles; the default comes last.
Keys(s) == (IF s.active = Unset THEN <<>> ELSE s.active) \o s.additional \o <<Default>>

\* Providers of a profile based group: files are created for new profiles. When
\* there is a new one, those of other profiles are dropped and the order is made
\* anew, from the default file up to the first profile.
NewKeys(g, s) == {k \in ToSet(Keys(s)) : <<g, k>> \in DOMAIN file /\ lookup[g][k] = "absent"}

LookupFor(g, s) ==
    [k \in Key |-> IF k \in NewKeys(g, s) THEN "new"
                   ELSE IF NewKeys(g, s) # {} /\ k \notin ToSet(Keys(s)) THEN "absent"
                   ELSE lookup[g][k]]

\* Lowest precedence first; a profile named twice has both at its higher place.
InOrder(ks) ==
    SortSeq(ks, LAMBDA x, y : SelectLastInSeq(ks, LAMBDA k : k = x) < SelectLastInSeq(ks, LAMBDA k : k = y))

Sorted(g, s) == InOrder(SelectSeq(Reverse(Keys(s)), LAMBDA k : LookupFor(g, s)[k] # "absent"))

\* Mutant: the providers are resolved once and for all.
ResolvedOnce(g, s) == IF resolved[g] # <<>> THEN resolved[g] ELSE Sorted(g, s)

ResolvedFor(g, s) == IF resolved[g] # <<>> /\ NewKeys(g, s) = {} THEN resolved[g] ELSE Sorted(g, s)

Groups == IF stage = 1 THEN {"bootstrap"} ELSE Group

FilesOf(g) == [i \in DOMAIN ResolvedFor(g, final) |-> <<g, ResolvedFor(g, final)[i]>>]

\* Lowest precedence first.
Providers ==
    FilesOf("bootstrap") \o (IF stage = 1 THEN <<>> ELSE FilesOf("application")) \o <<CommandLine>>

SettingsOf(p) == IF p = CommandLine THEN cli ELSE file[p]

\* The settings of later providers override those of earlier ones; additional
\* profiles are appended.
Merge(ps) ==
    FoldLeft(LAMBDA s, p : [active |-> IF SettingsOf(p).active = Unset THEN s.active ELSE SettingsOf(p).active,
                            additional |-> s.additional \o SettingsOf(p).additional],
             Initial, ps)

-----------------------------------------------------------------------------
\* Load begins: of the same config, or of that of the second stage. With force
\* all providers are reset.
Load(force, s) ==
    /\ pc = "idle" /\ loads < MaxLoads
    /\ s = stage \/ (s = 2 /\ isLoaded)
    /\ stage' = s /\ loads' = loads + 1
    /\ pc' = "loading" /\ final' = Initial /\ rounds' = 0
    /\ isLoaded' = (isLoaded /\ ~force /\ s = stage) /\ forced' = (forced \/ force)
    /\ lookup' = [g \in Group |-> [k \in Key |->
                    IF force /\ lookup[g][k] = "loaded" THEN "new" ELSE lookup[g][k]]]
    /\ resolved' = IF force THEN [g \in Group |-> <<>>] ELSE resolved
    /\ cliLoaded' = (cliLoaded /\ ~force)
    /\ UNCHANGED <<file, cli, properties, providers, faults>>

IsNew(p) == IF p = CommandLine THEN ~cliLoaded ELSE LookupFor(p[1], final)[p[2]] = "new"
HasNew == \E p \in ToSet(Providers) : IsNew(p)

\* The groups asked answer, and their providers in ps are loaded if they are new.
Ask(asked, ps) ==
    /\ resolved' = [g \in Group |-> IF g \in asked THEN ResolvedFor(g, final) ELSE resolved[g]]
    /\ lookup' = [g \in Group |-> [k \in Key |->
                    IF <<g, k>> \in ps THEN "loaded"
                    ELSE IF g \in asked THEN LookupFor(g, final)[k] ELSE lookup[g][k]]]
    /\ cliLoaded' = (cliLoaded \/ CommandLine \in ps)

\* One round of the loop of Load that finds new providers, or is the first.
Iterate ==
    /\ pc = "loading" /\ (rounds = 0 \/ HasNew)
    /\ Ask(Groups, ToSet(Providers))
    /\ final' = Merge(Providers)
    /\ rounds' = IF rounds < MaxRounds THEN rounds + 1 ELSE rounds
    /\ UNCHANGED <<file, cli, stage, pc, isLoaded, properties, providers, forced, loads, faults>>

\* The round that finds nothing new ends the loop. Placeholders are resolved then.
Finish ==
    /\ pc = "loading" /\ rounds # 0 /\ ~HasNew
    /\ Ask(Groups, ToSet(Providers))
    /\ pc' = "idle" /\ isLoaded' = TRUE
    /\ properties' = final /\ providers' = Providers
    /\ UNCHANGED <<file, cli, stage, final, rounds, forced, loads, faults>>

\* A provider, the merge of all, or at the end the resolution of placeholders fails:
\* Load returns the error. The providers before one that fails are loaded, later groups
\* not asked.
LoadFails ==
    /\ pc = "loading" /\ faults < MaxFaults
    /\ \/ Ask(Groups, ToSet(Providers))
       \/ \E i \in DOMAIN Providers :
            /\ IsNew(Providers[i])
            /\ Ask(IF Providers[i][1] = "bootstrap" THEN {"bootstrap"} ELSE Groups,
                   ToSet(SubSeq(Providers, 1, i - 1)))
    /\ pc' = "idle" /\ isLoaded' = FALSE
    /\ faults' = faults + 1
    /\ UNCHANGED <<file, cli, stage, final, rounds, properties, providers, forced, loads>>

Next == Iterate \/ Finish \/ LoadFails \/ \E force \in BOOLEAN, s \in 1 .. 2 : Load(force, s)

Spec == Init /\ [][Next]_vars

-----------------------------------------------------------------------------
\* No file of a profile says which profiles are active.
ActiveIsFixed == \A f \in DOMAIN file : f[2] # Default => file[f].active = Unset

\* appconfig/README.md: "will continue to refresh the list of property sources
\* until there are no new property sources. i.e. when the value of these two
\* properties stabilizes". Where no file of a profile changes the active profiles,
\* each round of a load but the first finds a file not known before, so the loop
\* ends. (Where two of them name each other it does not.)
RoundsBounded == ActiveIsFixed => rounds <= Cardinality(DOMAIN file) + 1

\* After Load the properties are those of the providers it reports, and these
\* include every file of a profile that the properties name, in whatever round and
\* from whatever source the profile became known, also when an earlier Load failed
\* half way. (A forced load may miss some: Reset keeps the lookup, so the order made
\* before the profiles were known is never made anew.)
Settled ==
    isLoaded /\ pc = "idle" =>
      /\ properties = Merge(providers)
      /\ ~forced => {f \in DOMAIN file : f[1] \in Groups /\ f[2] \in ToSet(Keys(properties))}
                      \subseteq ToSet(providers)
=============================================================================
