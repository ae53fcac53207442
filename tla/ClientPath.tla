----------------------------- MODULE ClientPath -----------------------------
(***************************************************************************)
(* The way of a client's request through go-raftkv: the client tries its   *)
(* addresses, the server it reaches serves the request when it leads, and  *)
(* otherwise its handler calls HandlerClientRequest of LeaderAddr, which   *)
(* may do the same again.  Every handler on the way waits for the next     *)
(* one; a process that ends breaks the calls it was to answer, which ends  *)
(* their callers.  Who leads and who follows whom is module Roles, which   *)
(* Election implements; what a leader does with a request is in            *)
(* Replication: its own state machine takes the request and the answer is  *)
(* success, or it never does and the answer is failure (AtomicStore).      *)
(* Peers apply what they append before the leader decides, and may keep a  *)
(* request that it refuses.                                                *)
(***************************************************************************)
EXTENDS Roles, Integers, Sequences, FiniteSets

CONSTANTS
    Client,    \* requests of clients, one each
    Addrs,     \* the addresses a client tries, in order
    MaxHops,   \* bound: handlers on the way of one request
    MaxTurns,  \* bound: changes of who leads and who follows whom
    MaxStops   \* bound: spontaneous process exits

VARIABLES
    turns, stops,  \* what was used of MaxTurns and MaxStops
    looping,   \* the requests that SendASetRequest sends; the others are kv's
    next,      \* the address that the client is at
    chain,     \* the handlers on the way, the last one called last
    reply,     \* what the last of them, or the client, is handed
    told,      \* what the client makes of its request
    applied,   \* history: how often a leader applied the request
    kept,      \* history: how often peers applied what its leader did not
    passed,    \* history: requests that some handler redirected
    unsent     \* history: requests that no address could be connected for

env == <<roles, turns, stops, looping>>
path == <<next, chain, reply, told, applied, kept, passed, unsent>>
vars == <<env, path>>

\* open: about to read State.  following: about to read LeaderAddr.  waiting:
\* inside Redirect's call.  live: the process that runs the handler has not
\* ended.
Frame == [at : Server, live : BOOLEAN,
          phase : {"open", "following", "waiting", "serving", "applied"}]

\* nil: what Send returns when it cannot connect.
Reply == {"none", "yes", "no", "nil"}
Told == {"asking", "yes", "no", "dead"}

ASSUME ConstantAssumption ==
    /\ Nobody \notin Server
    /\ Addrs \in Seq(Server) /\ Addrs # <<>>
    /\ MaxHops \in Nat /\ MaxTurns \in Nat /\ MaxStops \in Nat

Init ==
    /\ Fresh
    /\ turns = 0 /\ stops = 0 /\ looping \in SUBSET Client
    /\ next = [c \in Client |-> 1]
    /\ chain = [c \in Client |-> <<>>]
    /\ reply = [c \in Client |-> "none"]
    /\ told = [c \in Client |-> "asking"]
    /\ applied = [c \in Client |-> 0] /\ kept = [c \in Client |-> 0]
    /\ passed = {} /\ unsent = {}

-----------------------------------------------------------------------------
(* The client *)

Asking(c) == told[c] = "asking" /\ chain[c] = <<>>

Opened(s) == [at |-> s, phase |-> "open", live |-> TRUE]

\* Send to the address: a handler starts there, or nil comes back.
Ask(c) ==
    LET s == Addrs[next[c]] IN
    /\ Asking(c) /\ reply[c] = "none"
    /\ IF up[s] THEN chain' = [chain EXCEPT ![c] = <<Opened(s)>>] /\ UNCHANGED reply
                ELSE reply' = [reply EXCEPT ![c] = "nil"] /\ UNCHANGED chain
    /\ UNCHANGED <<env, next, told, applied, kept, passed, unsent>>

\* Mutant: a failure is a reason to try the next address.
TriesAgain(c) == c \in looping /\ reply[c] \in {"nil", "no"}

\* SendASetRequest goes on to the next address when it cannot connect.
GoesOn(c) == c \in looping /\ reply[c] = "nil"

\* Mutant: there is always another address.
NeverLast(c) == FALSE

LastAddr(c) == next[c] = Len(Addrs)

NextAddr(c) ==
    /\ Asking(c) /\ GoesOn(c) /\ ~LastAddr(c)
    /\ next' = [next EXCEPT ![c] = @ + 1]
    /\ reply' = [reply EXCEPT ![c] = "none"]
    /\ UNCHANGED <<env, chain, told, applied, kept, passed, unsent>>

\* After the last address SendASetRequest returns true.
GiveUp(c) ==
    /\ Asking(c) /\ GoesOn(c) /\ LastAddr(c)
    /\ told' = [told EXCEPT ![c] = "yes"]
    /\ unsent' = unsent \cup {c}
    /\ UNCHANGED <<env, next, chain, reply, applied, kept, passed>>

\* The answer is read; kv asserts the type of a nil and panics.
Receive(c) ==
    /\ Asking(c) /\ reply[c] # "none" /\ ~GoesOn(c)
    /\ told' = [told EXCEPT ![c] = IF reply[c] = "nil" THEN "dead" ELSE reply[c]]
    /\ UNCHANGED <<env, next, chain, reply, applied, kept, passed, unsent>>

-----------------------------------------------------------------------------
(* HandlerClientRequest and Redirect *)

Depth(c) == Len(chain[c])
Top(c) == chain[c][Depth(c)]
\* The last handler runs and is at ph.
AtTop(c, ph) == chain[c] # <<>> /\ Top(c).live /\ Top(c).phase = ph

InPhase(c, ph) == [chain[c] EXCEPT ![Depth(c)].phase = ph]
Below(c) == SubSeq(chain[c], 1, Depth(c) - 1)

\* The last handler returns: the next one, or the client, gets its reply.
Pop(c, answer) ==
    /\ chain' = [chain EXCEPT ![c] = Below(c)]
    /\ reply' = [reply EXCEPT ![c] = answer]

Serve(c) ==
    /\ AtTop(c, "open") /\ state[Top(c).at] = "LEADER"
    /\ chain' = [chain EXCEPT ![c] = InPhase(c, "serving")]
    /\ UNCHANGED <<env, next, reply, told, applied, kept, passed, unsent>>

\* Once it has found that the server does not lead, it may begin to.
NotLeader(c) ==
    /\ AtTop(c, "open") /\ state[Top(c).at] # "LEADER"
    /\ chain' = [chain EXCEPT ![c] = InPhase(c, "following")]
    /\ UNCHANGED <<env, next, reply, told, applied, kept, passed, unsent>>

Reaches(s) == leaderAddr[s] # Nobody /\ up[leaderAddr[s]]

\* Redirect calls whatever LeaderAddr is by now, the server itself included.
Redirect(c) ==
    LET s == Top(c).at IN
    /\ AtTop(c, "following")
    /\ Reaches(s) /\ Depth(c) < MaxHops
    /\ chain' = [chain EXCEPT ![c] = Append(InPhase(c, "waiting"), Opened(leaderAddr[s]))]
    /\ passed' = passed \cup {c}
    /\ UNCHANGED <<env, next, reply, told, applied, kept, unsent>>

\* Mutant: the handler waits for a leader to be known.
WaitForLeader(c) ==
    chain' = [chain EXCEPT ![c] = InPhase(c, "waiting")] /\ UNCHANGED reply

\* No leader is known, or it is down: Redirect's nil is overwritten.
AnswerForNobody(c) == Pop(c, "no")

RedirectFails(c) ==
    LET s == Top(c).at IN
    /\ AtTop(c, "following") /\ ~Reaches(s)
    /\ AnswerForNobody(c)
    /\ UNCHANGED <<env, next, told, applied, kept, passed, unsent>>

\* The leader applies the request.
Apply(c) ==
    /\ AtTop(c, "serving")
    /\ chain' = [chain EXCEPT ![c] = InPhase(c, "applied")]
    /\ applied' = [applied EXCEPT ![c] = @ + 1]
    /\ UNCHANGED <<env, next, reply, told, kept, passed, unsent>>

\* Mutant: what replyStruct held when the handler began.
LeaderForgets == "no"

LeaderReply == "yes"

Confirm(c) ==
    /\ AtTop(c, "applied")
    /\ Pop(c, LeaderReply)
    /\ UNCHANGED <<env, next, told, applied, kept, passed, unsent>>

\* Mutant: success once the rollback has succeeded, as the handler for
\* benchmarks answers.
RolledBack == "yes"

FailureReply == "no"

\* Peers that appended a SET may have applied it (LeaderCommit counts it from
\* its reservation on), and nothing takes it back from them.
PeersMayKeep(c) == kept' = kept \/ kept' = [kept EXCEPT ![c] = @ + 1]

Refuse(c) ==
    /\ AtTop(c, "serving")
    /\ Pop(c, FailureReply)
    /\ PeersMayKeep(c)
    /\ UNCHANGED <<env, next, told, applied, passed, unsent>>

\* Redirect stores the leader's reply, and the deferred assignment of
\* replyStruct, which is still zero, replaces it.
Overwrite(c) ==
    /\ AtTop(c, "waiting") /\ reply[c] # "none"
    /\ chain' = [chain EXCEPT ![c] = Below(c)]
    /\ reply' = [reply EXCEPT ![c] = "no"]
    /\ UNCHANGED <<env, next, told, applied, kept, passed, unsent>>

\* The caller's process is gone.
AnswerLost(c) ==
    /\ chain[c] # <<>> /\ ~Top(c).live /\ reply[c] # "none"
    /\ reply' = [reply EXCEPT ![c] = "none"]
    /\ UNCHANGED <<env, next, chain, told, applied, kept, passed, unsent>>

-----------------------------------------------------------------------------
(* Processes *)

\* The requests that s is replicating.
ServedBy(s) == {c \in Client : AtTop(c, "serving") /\ Top(c).at = s}

\* Every handler of s ends with its process; what it was replicating may be
\* with its peers.
Kill(s) ==
    /\ Stop(s)
    /\ chain' = [c \in Client |->
                   [i \in DOMAIN chain[c] |->
                      IF chain[c][i].at = s THEN [chain[c][i] EXCEPT !.live = FALSE]
                      ELSE chain[c][i]]]
    /\ \E cs \in SUBSET ServedBy(s) :
          kept' = [c \in Client |-> IF c \in cs THEN kept[c] + 1 ELSE kept[c]]
    /\ UNCHANGED <<turns, looping, next, reply, told, applied, passed, unsent>>

Crash(s) ==
    /\ stops < MaxStops /\ stops' = stops + 1
    /\ Kill(s)

\* SendWithTimeout: the process that waits for the handler after the i-th of c
\* learns that the call broke, and exits.
CallerDies(c, i) ==
    /\ i \in 1..Depth(c) - 1
    /\ chain[c][i].live /\ ~chain[c][i + 1].live
    /\ Kill(chain[c][i].at)
    /\ UNCHANGED stops

\* The client's own Send does the same.
ClientDies(c) ==
    /\ told[c] = "asking" /\ chain[c] # <<>> /\ ~chain[c][1].live
    /\ told' = [told EXCEPT ![c] = "dead"]
    /\ UNCHANGED <<env, next, chain, reply, applied, kept, passed, unsent>>

Boot(s) == Start(s) /\ UNCHANGED <<turns, stops, looping, path>>

TurnRoles(s) ==
    /\ turns < MaxTurns /\ turns' = turns + 1
    /\ Turn(s)
    /\ UNCHANGED <<stops, looping, path>>

-----------------------------------------------------------------------------
AskStep(c) == Ask(c) \/ NextAddr(c) \/ GiveUp(c) \/ Receive(c) \/ ClientDies(c)

HandlerStep(c) ==
    \/ Serve(c) \/ NotLeader(c) \/ Redirect(c) \/ RedirectFails(c)
    \/ Apply(c) \/ Confirm(c) \/ Refuse(c) \/ Overwrite(c) \/ AnswerLost(c)
    \/ \E i \in 1..MaxHops : CallerDies(c, i)

Next ==
    \/ \E c \in Client : AskStep(c) \/ HandlerStep(c)
    \/ \E s \in Server : TurnRoles(s) \/ Crash(s) \/ Boot(s)

Spec == Init /\ [][Next]_vars

\* Clients and handlers go on, and a leader answers what it serves, which is
\* RequestAnswered of Replication.
FairSpec == Spec /\ \A c \in Client : WF_vars(AskStep(c)) /\ WF_vars(HandlerStep(c))

-----------------------------------------------------------------------------
(* Properties *)

TypeOK ==
    /\ up \in [Server -> BOOLEAN]
    /\ state \in [Server -> {"FOLLOWER", "CANDIDATE", "LEADER"}]
    /\ leaderAddr \in [Server -> Server \cup {Nobody}]
    /\ asked \subseteq Server
    /\ turns \in Nat /\ stops \in Nat /\ looping \subseteq Client
    /\ next \in [Client -> 1..Len(Addrs)]
    /\ chain \in [Client -> Seq(Frame)]
    /\ reply \in [Client -> Reply]
    /\ told \in [Client -> Told]
    /\ applied \in [Client -> Nat] /\ kept \in [Client -> Nat]
    /\ passed \subseteq Client /\ unsent \subseteq Client

\* One call of a client takes effect at most once, at a leader or only at the
\* peers of one that refused it or died, however many servers it was passed
\* through or tried at: an address is only left for the next one when nothing
\* was sent to it (raftkvClient.go:14-37, rpcClient.go:44-63).
AppliedOnce == \A c \in Client : applied[c] + kept[c] <= 1

\* Success means that a leader has applied the request, exactly once, whatever
\* became of the servers on the way; or that the client could connect to none
\* of its addresses: SendASetRequest returns true as well then
\* (raftkvClient.go:40).
SuccessIsApplied ==
    \A c \in Client : told[c] = "yes" => c \in unsent \/ applied[c] = 1

\* A request that was refused by the server its client asked itself is in no
\* leader's state machine, whatever that server has become while it served.
\* It may be in those of peers (consensus.go:238-252).
RefusedOnlyAtPeers ==
    \A c \in Client : told[c] = "no" /\ c \notin passed => applied[c] = 0

\* INode.go:46: Redirect returns the result of the leader's handler to the
\* client, so a redirected request that the leader applied is not told of
\* failure.
RedirectReturnsResult ==
    \A c \in Client : told[c] = "no" /\ c \in passed => applied[c] = 0

\* The request is back at a server that is waiting for it.
Revisits(c) ==
    \E i, j \in DOMAIN chain[c] : i # j /\ chain[c][i].at = chain[c][j].at

\* A request comes to an end, at whichever server it starts and whoever dies
\* on the way, unless the LeaderAddrs it follows lead it in a circle: nothing
\* else keeps a client waiting (defaultNode.go:1026).
RedirectsEnd ==
    \A c \in Client : told[c] = "asking" ~> (told[c] # "asking" \/ Revisits(c))
=============================================================================
