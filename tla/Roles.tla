-------------------------------- MODULE Roles --------------------------------
(***************************************************************************)
(* What a client can see of an election: which servers run, which one      *)
(* takes itself for the leader, and whom each would redirect a client to.  *)
(* Module Election implements it; module ClientPath is built on it.        *)
(***************************************************************************)
CONSTANTS Server, Nobody

VARIABLES
    up,          \* the process runs
    state,       \* Node.State
    leaderAddr,  \* Node.LeaderAddr
    asked        \* the servers that have ever asked for votes

roles == <<up, state, leaderAddr, asked>>

Fresh ==
    /\ up = [s \in Server |-> TRUE]
    /\ state = [s \in Server |-> "FOLLOWER"]
    /\ leaderAddr = [s \in Server |-> Nobody]
    /\ asked = {}

\* An election that has nothing to ask with is over at once.
Campaign(s) ==
    /\ up[s] /\ state[s] # "LEADER"
    /\ state' = [state EXCEPT ![s] = "CANDIDATE"]
    /\ asked' \in {asked, asked \cup {s}}
    /\ UNCHANGED <<up, leaderAddr>>

Lead(s) ==
    /\ up[s] /\ state[s] # "FOLLOWER" /\ s \in asked
    /\ state' = [state EXCEPT ![s] = "LEADER"]
    /\ leaderAddr' = [leaderAddr EXCEPT ![s] = s]
    /\ UNCHANGED <<up, asked>>

\* A vote or an append: whoever it names has asked for votes, but a vote is no
\* leadership, and a retried append names whom its sender follows by now.
Follow(s, x) ==
    /\ up[s] /\ x \in asked
    /\ state' = [state EXCEPT ![s] = "FOLLOWER"]
    /\ leaderAddr' = [leaderAddr EXCEPT ![s] = x]
    /\ UNCHANGED <<up, asked>>

\* The beginning of an append that is preempted before it touches State.
Name(s, x) ==
    /\ up[s] /\ x \in asked
    /\ leaderAddr' = [leaderAddr EXCEPT ![s] = x]
    /\ UNCHANGED <<up, state, asked>>

\* A higher term, the rest of such an append, or a leadership that nobody
\* follows: LeaderAddr stays.
Retire(s) ==
    /\ up[s]
    /\ state' = [state EXCEPT ![s] = "FOLLOWER"]
    /\ UNCHANGED <<up, leaderAddr, asked>>

Stop(s) ==
    /\ up[s]
    /\ up' = [up EXCEPT ![s] = FALSE]
    /\ state' = [state EXCEPT ![s] = "FOLLOWER"]
    /\ leaderAddr' = [leaderAddr EXCEPT ![s] = Nobody]
    /\ UNCHANGED asked

Start(s) ==
    /\ ~up[s]
    /\ up' = [up EXCEPT ![s] = TRUE]
    /\ UNCHANGED <<state, leaderAddr, asked>>

Turn(s) ==
    \/ Campaign(s) \/ Lead(s) \/ Retire(s)
    \/ \E x \in Server : Follow(s, x) \/ Name(s, x)

RolesNext == \E s \in Server : Turn(s) \/ Stop(s) \/ Start(s)

RolesSpec == Fresh /\ [][RolesNext]_roles
=============================================================================
