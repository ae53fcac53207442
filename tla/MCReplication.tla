---------------------------- MODULE MCReplication ----------------------------
EXTENDS Replication, TLC

CONSTANTS OldSet

\* Peers that the bounds treat alike, and SETs of one key.
Symmetry ==
    {f @@ g : f \in {p \in Permutations(Peer) : \A n \in Peer : n \in Flaky <=> p[n] \in Flaky},
              g \in {q \in Permutations(Set) : \A r \in Set : KeyOf[q[r]] = KeyOf[r]}}

MCPast == {OldSet}
OneKey == CHOOSE k \in Key : TRUE
SameKey == [r \in Set \cup Get \cup MCPast |-> OneKey]

TermLog(t) == [i \in 0..MaxIndex |-> IF i = 0 THEN [term |-> t, req |-> None] ELSE None]
Blank == [k \in Key |-> None]

\* Every server holds the leader's term entry.
HasTerm == [log |-> TermLog(Term), last |-> 0, commit |-> 0, applied |-> 0, sm |-> Blank]
FreshNodes == {[n \in Peer \cup {Leader} |-> HasTerm]}

\* One peer led the term before: it alone has written an entry, and applied it.
Deposed ==
    LET e == [term |-> Term - 1, req |-> OldSet]
    IN  [HasTerm EXCEPT !.log[1] = e, !.last = 1, !.commit = 1, !.applied = 1,
                        !.sm = [k \in Key |-> IF k = KeyOf[OldSet] THEN e ELSE None]]
DeposedNodes ==
    {[n \in Peer \cup {Leader} |-> IF n = x THEN Deposed ELSE HasTerm] : x \in Peer}

AnyNodes == FreshNodes \cup DeposedNodes
=============================================================================
