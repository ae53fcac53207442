----------------------------- MODULE MCElection -----------------------------
EXTENDS Election, TLC

\* Servers that the bounds treat alike.
Symmetry ==
    {p \in Permutations(Server) :
        \A s \in Server : s \in Campaigners <=> p[s] \in Campaigners}

MCIndex == 0..1

\* An empty log, a log that holds a term entry, and one that also holds a
\* client entry.
Empty == [terms |-> [i \in MCIndex |-> Absent], last |-> Absent]
Entry(t) == [terms |-> [i \in MCIndex |-> IF i = 0 THEN t ELSE Absent], last |-> 0]
EntryOne(t, u) == [terms |-> [i \in MCIndex |-> IF i = 0 THEN t ELSE u], last |-> 1]

FreshDisks == {[s \in Server |-> Empty]}

\* What an earlier run may leave: one server alone led a later term, another
\* alone holds a client entry of the term before, the third was never reached.
RebootedDisks ==
    {[s \in Server |-> IF s = x THEN Entry(2) ELSE IF s = y THEN EntryOne(1, 1) ELSE Empty]
        : <<x, y>> \in {p \in Server \X Server : p[1] # p[2]}}
=============================================================================
