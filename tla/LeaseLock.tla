------------------------------ MODULE LeaseLock ------------------------------
(* What a distributed lock with leases promises. The lock service grants the *)
(* lock to one node at a time and may withdraw it at any moment; a node is a *)
(* holder from the moment it learns of the grant until it gives up or the    *)
(* grant is withdrawn. A holder is always the grantee.                       *)
CONSTANTS Node, NoNode

VARIABLES grantee,      \* the node the service has granted the lock to
          holders       \* the nodes that rely on a grant

Init == grantee = NoNode /\ holders = {}

Grant(n) == grantee = NoNode /\ grantee' = n /\ UNCHANGED holders

Enter(n) == grantee = n /\ holders' = holders \cup {n} /\ UNCHANGED grantee

Leave(n) == n \in holders /\ holders' = holders \ {n} /\ UNCHANGED grantee

Withdraw == grantee # NoNode /\ grantee' = NoNode /\ holders' = holders \ {grantee}

Next == \/ \E n \in Node : Grant(n) \/ Enter(n) \/ Leave(n)
        \/ Withdraw

Spec == Init /\ [][Next]_<<grantee, holders>>

\* At most one node holds the lock: the one it is granted to.
Exclusive == holders \subseteq {grantee} \ {NoNode}
=============================================================================
