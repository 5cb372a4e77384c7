---------------------------- MODULE Placeholders ----------------------------
(* appconfig/config.go, resolve: every property value has its placeholders   *)
(* ${key} and ${key:default} replaced, in the order in which Go ranges over  *)
(* a map, which is any order. A value is the sequence of its parts.          *)
EXTENDS Naturals, Sequences, SequencesExt, Relation

CONSTANTS Property,     \* the property keys
          Sources,      \* the configurations it starts from: functions on Property
          NoKey         \* the key of a part that is text

\* A part is a text, or a placeholder with its default, "" where it has none.
Text(t) == [key |-> NoKey, text |-> t]
IsPlaceholder(part) == part.key # NoKey
HasDefault(part) == part.text # ""
Nil == <<Text("nil")>>  \* the value of a key that is not set

Refers(value) == SelectSeq(value, IsPlaceholder)

VARIABLES given,        \* the configuration before
          source,       \* the configuration, which is resolved in place
          unvisited,    \* keys VisitEach has still to come to
          resolution    \* "running", "failed" or "done"

vars == <<given, source, unvisited, resolution>>

\* Every state variable has a value of its type.
TypeOK ==
    /\ given \in Sources
    /\ \A k \in Property : \A part \in ToSet(source[k]) : part.key \in Property \cup {NoKey}
    /\ unvisited \subseteq Property
    /\ resolution \in {"running", "failed", "done"}

Init ==
    /\ given \in Sources
    /\ source = given
    /\ unvisited = {k \in Property : given[k] # Nil}
    /\ resolution = "running"

-----------------------------------------------------------------------------
\* A value with the placeholders replaced that have something to replace them.
Replaced(value, with) ==
    IF Len(value) = 1 THEN with[value[1]]
    ELSE FlattenSeq([n \in DOMAIN value |->
            IF IsPlaceholder(value[n]) /\ with[value[n]] # Nil THEN with[value[n]]
            ELSE <<value[n]>>])

\* A placeholder has something to replace it: it takes the place, in resolvedKV and
\* resolvedPlaceholder, of another one with the same key.
Resolves(with, part, value) ==
    [p \in DOMAIN with |-> IF p = part THEN value ELSE IF p.key = part.key THEN Nil ELSE with[p]]

\* resolveValue: the value of the key, whether that failed, and the configuration
\* with the values that were resolved on the way.
RECURSIVE resolveValue(_, _, _, _)
resolveValue(key, value, src, visited) ==
    LET found == Refers(value)
        trail == visited \cup {key}
        \* one placeholder after the other
        Next1(so, part) ==
            IF so.failed THEN so
            ELSE LET r == resolveValue(part.key, so.source[part.key], so.source, trail)
                     with == IF ~r.failed /\ r.value # Nil THEN r.value
                             ELSE IF HasDefault(part) THEN <<Text(part.text)>> ELSE Nil
                 IN  [failed |-> r.failed /\ ~HasDefault(part), source |-> r.source,
                      with |-> IF with = Nil THEN so.with ELSE Resolves(so.with, part, with)]
    IN  IF found = <<>> THEN [value |-> value, failed |-> FALSE, source |-> src]
        ELSE IF \E part \in ToSet(found) : part.key \in trail
        THEN [value |-> Nil, failed |-> TRUE, source |-> src]
        ELSE LET all == FoldLeft(Next1, [failed |-> FALSE, source |-> src,
                                         with |-> [p \in ToSet(found) |-> Nil]], found)
                 v == Replaced(value, all.with)
             IN  IF all.failed THEN [value |-> Nil, failed |-> TRUE, source |-> all.source]
                 ELSE [value |-> v, failed |-> FALSE,
                       source |-> IF v = Nil THEN all.source ELSE [all.source EXCEPT ![key] = v]]

\* VisitEach comes to a key, and ends at the first error.
Visit(k) ==
    LET r == resolveValue(k, source[k], source, {})
    IN  /\ resolution = "running" /\ k \in unvisited
        /\ source' = r.source
        /\ unvisited' = unvisited \ {k}
        /\ resolution' = IF r.failed THEN "failed" ELSE IF unvisited' = {} THEN "done" ELSE "running"
        /\ UNCHANGED given

Next == \E k \in Property : Visit(k)

Spec == Init /\ [][Next]_vars

-----------------------------------------------------------------------------
\* What a value means, where no placeholder leads back to itself and none has two
\* defaults in one value.
RECURSIVE Meaning(_)
Meaning(k) ==
    LET with == [part \in ToSet(Refers(given[k])) |->
            IF Meaning(part.key) # Nil THEN Meaning(part.key)
            ELSE IF HasDefault(part) THEN <<Text(part.text)>> ELSE Nil]
    IN  IF Refers(given[k]) = <<>> THEN given[k] ELSE Replaced(given[k], with)

Circular(parts(_)) ==
    LET R == [e \in Property \X Property |-> \E part \in parts(e[1]) : part.key = e[2]]
        T == TransitiveClosure(R, Property)
    IN  \E k \in Property : T[k, k]

Parts(k) == ToSet(given[k])
Required(k) == {part \in Parts(k) : ~HasDefault(part)}

\* Where no placeholder leads back to itself, every value ends up as what it means in
\* the configuration given, in whatever order the map is visited and although values
\* are replaced while others are still being read; and Load does not fail.
Substituted ==
    ~Circular(Parts) =>
        /\ resolution # "failed"
        /\ resolution = "done" => \A k \in Property :
               source[k] = IF Meaning(k) = Nil THEN given[k] ELSE Meaning(k)

\* A circular reference without a default on it makes Load fail in every order of
\* the visit, also when another key's default has hidden it for a while.
CircularIsTold ==
    resolution = "done" => ~Circular(Required)
=============================================================================
