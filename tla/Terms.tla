-------------------------------- MODULE Terms --------------------------------
(***************************************************************************)
(* What the cluster promises about terms: every server holds a term that   *)
(* was known when the cluster booted or that some server has won since,    *)
(* and a term is won by the server that holds its predecessor.             *)
(***************************************************************************)
EXTENDS Naturals

CONSTANTS Server, Old

VARIABLES term, known

Init == known = Old /\ term \in [Server -> Old]

Win(s) ==
    /\ term' = [term EXCEPT ![s] = @ + 1]
    /\ known' = known \cup {term[s] + 1}

\* By a vote, an append, a refusal, a heartbeat's reply, or a reboot.
Learn(s) ==
    /\ \E t \in known : term' = [term EXCEPT ![s] = t]
    /\ UNCHANGED known

Next == \E s \in Server : Win(s) \/ Learn(s)

Spec == Init /\ [][Next]_<<term, known>>
=============================================================================
