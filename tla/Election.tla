------------------------------ MODULE Election ------------------------------
(***************************************************************************)
(* Leader election of go-raftkv: electionTask, becomeLeaderToDo and        *)
(* heartBeatTask of server/node/defaultNode.go, and the two handlers of    *)
(* server/node/consensus.go as an election exercises them (votes,          *)
(* heartbeats, term entries).  Client writes are frozen: the log above     *)
(* index 0 is whatever the disks held when the cluster booted.             *)
(*                                                                         *)
(* An RPC is synchronous and runs in a goroutine of its own, so it is one  *)
(* record that moves from "open" to "ok" or "no"; the goroutine that made  *)
(* it consumes the answer.  Timers are a nondeterministic choice.          *)
(***************************************************************************)
EXTENDS Integers, FiniteSets, Functions

CONSTANTS
    Server,       \* Config.PeerAddrs
    Nobody,       \* the empty address ""
    Index,        \* the log indices a disk may hold, 0 among them
    InitDisks,    \* the disks the cluster may boot from
    Campaigners,  \* bound: servers whose election timer may fire
    MaxTerm,      \* bound: no election is won beyond this term
    MaxElections, \* bound: elections started, over all servers
    MaxBeats,     \* bound: heartbeats sent
    MaxLosses,    \* bound: RPCs that never reach a running peer
    MaxCrashes,   \* bound: spontaneous process exits
    MaxPreempted  \* bound: goroutines preempted between check and assignment

VARIABLES
    up,           \* the process runs
    state,        \* Node.State
    currentTerm,  \* Node.CurrentTerm
    votedFor,     \* Node.VotedFor
    leaderAddr,   \* Node.LeaderAddr
    disk,         \* LogModule: the term stored at each index, LAST_INDEX_KEY
    task,         \* where the ticker goroutine is inside electionTask
    calls,        \* RPCs in flight
    round,        \* history: how many elections the server has started
    won,          \* history: the elections won, as <<server, term>>
    spent         \* what the run has used of the last four bounds

nodeVars == <<state, currentTerm, votedFor, leaderAddr>>
histVars == <<round, won>>
vars == <<up, nodeVars, disk, task, calls, histVars, spent>>

LEADER == "LEADER"
CANDIDATE == "CANDIDATE"
FOLLOWER == "FOLLOWER"

\* A log slot or a LAST_INDEX_KEY that rosedb does not hold.
Absent == -1

Disk == [terms : [Index -> Nat \cup {Absent}], last : Index \cup {Absent}]
Addr == Server \cup {Nobody}

\* kind: HandlerRequestVote, HandlerAppendEntries with the term entry, or a
\* heartbeat.  id: ServiceId or LeaderId.  arg: LastLogIndex, or the Term of
\* the term entry.  status: "held" when the handler, "seen" when the goroutine
\* that made the call, is preempted between comparing CurrentTerm and assigning
\* it.  torn: the callee died while the call was open.
Call == [kind : {"vote", "term", "beat"}, from : Addr, to : Server, id : Addr,
         round : Nat, term : Nat, arg : Nat,
         status : {"open", "held", "ok", "no", "seen"}, rterm : Nat, torn : BOOLEAN]

\* votes, sent: electionTask's votedCount and sentCount.  acks, received: the
\* count and receivedCount of becomeLeaderToDo.  refused (history): a peer
\* answered this election with a refusal.
Task == [phase : {"idle", "voting", "leading"}, refused : BOOLEAN,
         votes : Nat, sent : Nat, acks : Nat, received : Nat]

ASSUME ConstantAssumption ==
    /\ IsFiniteSet(Server)
    /\ Nobody \notin Server
    /\ 0 \in Index /\ Index \subseteq Nat
    /\ InitDisks \subseteq [Server -> Disk]
    /\ Campaigners \subseteq Server
    /\ {MaxTerm, MaxElections, MaxBeats, MaxLosses, MaxCrashes, MaxPreempted} \subseteq Nat

SumOver(f) == FoldFunction(+, 0, f)

Peers(s) == Server \ {s}
NumPeers == Cardinality(Server) - 1
\* len(peers)/2: what electionTask and becomeLeaderToDo compare counts with.
Half == NumPeers \div 2

-----------------------------------------------------------------------------
(* LogModule *)

\* GetLastIndex: 0 when the key is absent.
GetLastIndex(d) == IF d.last = Absent THEN 0 ELSE d.last

\* The Term of GetLastEntry, Absent when it returns nil.
LastEntryTerm(d) == IF d.last = Absent THEN Absent ELSE d.terms[d.last]

\* Set of a term entry: index 0 is overwritten, and LAST_INDEX_KEY is only
\* written when the log holds nothing else.
SetTermEntry(d, t) ==
    [terms |-> [d.terms EXCEPT ![0] = t],
     last |-> IF GetLastIndex(d) = 0 THEN 0 ELSE d.last]

\* Mutant: a log without entries is not looked for.
BootTermOfAnyLog(d) == LastEntryTerm(d)

\* Init: CurrentTerm of a fresh process.
BootTerm(d) == IF LastEntryTerm(d) = Absent THEN 0 ELSE LastEntryTerm(d)

-----------------------------------------------------------------------------
(* Calls *)

\* Mutant: the request names the peer it goes to.
NewCallNamesPeer(kind, s, p, id, r, t, a) ==
    [kind |-> kind, from |-> s, to |-> p, id |-> p, round |-> r, term |-> t,
     arg |-> a, status |-> "open", rterm |-> 0, torn |-> FALSE]

NewCall(kind, s, p, id, r, t, a) ==
    [kind |-> kind, from |-> s, to |-> p, id |-> id, round |-> r, term |-> t,
     arg |-> a, status |-> "open", rterm |-> 0, torn |-> FALSE]

Pending(c) == c.status \in {"open", "held"}

\* The callee's voteLock is taken: a vote handler is between its checks and
\* its assignments.
VoteLocked(v) == \E c \in calls : c.to = v /\ c.kind = "vote" /\ c.status = "held"

IsAppend(c) == c.kind \in {"term", "beat"}

\* Another HandlerAppendEntries holds, or may hold, the callee's appendLock.
AppendHeld(c) == \E d \in calls \ {c} : d.to = c.to /\ IsAppend(d) /\ d.status = "held"
AppendLocked(c) == \E d \in calls \ {c} : d.to = c.to /\ IsAppend(d) /\ Pending(d)

\* The election of s that made call c is still listening on its channel.
Listening(c, phase) ==
    c.from \in Server /\ task[c.from].phase = phase /\ round[c.from] = c.round

\* An answer its goroutine does nothing with: the process is gone, nobody
\* receives from the channel any more, or the term is no news.
Futile(c) ==
    \/ c.from = Nobody
    \/ /\ c.kind = "beat" \/ (c.kind = "vote" /\ c.status = "no")
       /\ c.rterm <= currentTerm[c.from]
    \/ /\ c.kind = "vote" /\ c.status = "ok"
       /\ ~Listening(c, "voting") /\ ~Listening(c, "leading")
    \/ /\ c.kind = "term" /\ c.status = "ok"
       /\ ~Listening(c, "leading")

\* The handler answers; a futile answer is not kept.
Answered(c, st, t) ==
    LET r == [c EXCEPT !.status = st, !.rterm = t, !.torn = FALSE]
    IN  (calls \ {c}) \cup (IF Futile(r) THEN {} ELSE {r})

Idle == [phase |-> "idle", refused |-> FALSE, votes |-> 0, sent |-> 0, acks |-> 0, received |-> 0]

Init ==
    /\ disk \in InitDisks
    /\ up = [s \in Server |-> TRUE]
    /\ state = [s \in Server |-> FOLLOWER]
    /\ currentTerm = [s \in Server |-> BootTerm(disk[s])]
    /\ votedFor = [s \in Server |-> Nobody]
    /\ leaderAddr = [s \in Server |-> Nobody]
    /\ task = [s \in Server |-> Idle]
    /\ calls = {}
    /\ round = [s \in Server |-> 0]
    /\ won = {}
    /\ spent = [beats |-> 0, losses |-> 0, crashes |-> 0, preempted |-> 0]

-----------------------------------------------------------------------------
(* electionTask *)

\* Mutant: the ticker of a leader campaigns as well.
CampaignsAlways(s) == s \in Campaigners /\ up[s] /\ task[s].phase = "idle"

MayCampaign(s) ==
    s \in Campaigners /\ up[s] /\ task[s].phase = "idle" /\ state[s] # LEADER

\* Nothing in the log and no term heard of: the candidate asks for term 0.
Fresh(s) == GetLastIndex(disk[s]) = 0 /\ currentTerm[s] = 0

\* Mutant: the candidate asks for the term it would lead.
VoteTermAhead(s) == currentTerm[s] + 1

\* param.Term: the term of the last entry, never CurrentTerm + 1.
VoteTerm(s) == IF Fresh(s) THEN 0 ELSE disk[s].terms[GetLastIndex(disk[s])]

StartElection(s) ==
    /\ MayCampaign(s)
    /\ SumOver(round) < MaxElections
    /\ VoteTerm(s) # Absent
    /\ state' = [state EXCEPT ![s] = CANDIDATE]
    /\ votedFor' = [votedFor EXCEPT ![s] = s]
    /\ round' = [round EXCEPT ![s] = @ + 1]
    /\ task' = [task EXCEPT ![s] = [Idle EXCEPT !.phase = "voting"]]
    /\ calls' = calls \cup
         {NewCall("vote", s, p, s, round'[s], VoteTerm(s), GetLastIndex(disk[s]))
            : p \in Peers(s)}
    /\ UNCHANGED <<up, currentTerm, leaderAddr, disk, won, spent>>

\* No entry at the last index: electionTask returns, a candidate already.
AbortElection(s) ==
    /\ MayCampaign(s)
    /\ VoteTerm(s) = Absent
    /\ state' = [state EXCEPT ![s] = CANDIDATE]
    /\ votedFor' = [votedFor EXCEPT ![s] = s]
    /\ UNCHANGED <<up, currentTerm, leaderAddr, disk, task, calls, histVars,
                   spent>>

\* One message fewer to wait for; the loop ends after len(peers) messages.
AfterMessage(k) ==
    LET n == [k EXCEPT !.sent = @ + 1]
    IN  IF n.sent = NumPeers THEN Idle ELSE n

\* A granted vote reaches the channel, but a leader was heard meanwhile.
StandDown(c) ==
    /\ c \in calls /\ c.kind = "vote" /\ c.status = "ok"
    /\ Listening(c, "voting")
    /\ state[c.from] = FOLLOWER
    /\ task' = [task EXCEPT ![c.from] = Idle]
    /\ calls' = calls \ {c}
    /\ UNCHANGED <<up, nodeVars, disk, histVars, spent>>

CountVote(c) ==
    LET s == c.from
        k == [task[s] EXCEPT !.votes = @ + 1]
    IN
    /\ c \in calls /\ c.kind = "vote" /\ c.status = "ok"
    /\ Listening(c, "voting")
    /\ state[s] # FOLLOWER
    /\ k.votes < Half
    /\ task' = [task EXCEPT ![s] = AfterMessage(k)]
    /\ calls' = calls \ {c}
    /\ UNCHANGED <<up, nodeVars, disk, histVars, spent>>

\* The vote that makes Half: the term is incremented only now, and
\* becomeLeaderToDo stores the term entry and starts to replicate it.
\* LogModule.Set drops the entry when another Set holds the module's lock.
Win(c) ==
    LET s == c.from
        t == currentTerm[s] + 1
        k == [task[s] EXCEPT !.phase = "leading", !.votes = @ + 1, !.sent = @ + 1]
    IN
    /\ c \in calls /\ c.kind = "vote" /\ c.status = "ok"
    /\ Listening(c, "voting")
    /\ state[s] # FOLLOWER
    /\ k.votes >= Half
    /\ t <= MaxTerm
    /\ state' = [state EXCEPT ![s] = LEADER]
    /\ leaderAddr' = [leaderAddr EXCEPT ![s] = s]
    /\ currentTerm' = [currentTerm EXCEPT ![s] = t]
    /\ votedFor' = [votedFor EXCEPT ![s] = Nobody]
    /\ won' = won \cup {<<s, t>>}
    /\ \/ disk' = [disk EXCEPT ![s] = SetTermEntry(@, t)]
       \/ /\ \E d \in calls : d.kind = "term" /\ d.to = s /\ Pending(d)
          /\ UNCHANGED disk
    /\ task' = [task EXCEPT ![s] = k]
    /\ calls' = (calls \ {c}) \cup
         {NewCall("term", s, p, s, round[s], t, t) : p \in Peers(s)}
    /\ UNCHANGED <<up, round, spent>>

\* An answer whose Term the goroutine that made the call compares with
\* CurrentTerm, and finds higher.
TellsHigherTerm(c) ==
    /\ c.from \in Server
    /\ c.status = "no" \/ (c.kind = "beat" /\ c.status = "ok")
    /\ c.rterm > currentTerm[c.from]

Preempt ==
    /\ spent.preempted < MaxPreempted
    /\ spent' = [spent EXCEPT !.preempted = @ + 1]

\* The goroutine is preempted between the comparison and the assignment: no
\* lock joins them, and handlers and other goroutines may change the node.
SeeHigherTerm(c) ==
    /\ c \in calls /\ TellsHigherTerm(c)
    /\ Preempt
    /\ calls' = (calls \ {c}) \cup {[c EXCEPT !.status = "seen"]}
    /\ UNCHANGED <<up, nodeVars, disk, task, histVars>>

\* What the goroutine does next is to assign CurrentTerm.
Adopts(c) == c.status = "seen" \/ TellsHigherTerm(c)

\* A refusal never reaches the channel; it only raises CurrentTerm, whatever
\* the state has become.
HearRefusal(c) ==
    LET s == c.from IN
    /\ c \in calls /\ c.kind = "vote" /\ Adopts(c)
    /\ currentTerm' = [currentTerm EXCEPT ![s] = c.rterm]
    /\ calls' = calls \ {c}
    /\ UNCHANGED <<up, state, votedFor, leaderAddr, disk, task, histVars, spent>>

\* Mutant: an unreachable peer sends no message.
LostVoteUncounted(k) == k

\* What an unreachable peer contributes to the loop: a "false" message.
LostVote(k) == AfterMessage(k)

\* A peer that is down is never reached, one that is up MaxLosses times.
Lose(p) ==
    IF up[p] THEN /\ spent.losses < MaxLosses
                  /\ spent' = [spent EXCEPT !.losses = @ + 1]
             ELSE UNCHANGED spent

\* Send returned nil: the peer could not be connected.
VoteUnreachable(c) ==
    /\ c \in calls /\ c.kind = "vote" /\ c.status = "open"
    /\ Listening(c, "voting")
    /\ Lose(c.to)
    /\ task' = [task EXCEPT ![c.from] = LostVote(@)]
    /\ calls' = calls \ {c}
    /\ UNCHANGED <<up, nodeVars, disk, histVars>>

\* A peer could not be connected, and nobody waits to hear it.
DropCall(c) ==
    /\ c \in calls /\ c.status = "open"
    /\ \/ c.from = Nobody
       \/ c.kind = "beat"
       \/ c.kind = "vote" /\ ~Listening(c, "voting") /\ ~Listening(c, "leading")
    /\ Lose(c.to)
    /\ calls' = calls \ {c}
    /\ UNCHANGED <<up, nodeVars, disk, task, histVars>>

DropAnswer(c) ==
    /\ c \in calls /\ c.status \in {"ok", "no"} /\ Futile(c)
    /\ calls' = calls \ {c}
    /\ UNCHANGED <<up, nodeVars, disk, task, histVars, spent>>

-----------------------------------------------------------------------------
(* Consensus.HandlerRequestVote *)

\* The vote is free, or was already given to the same candidate.
VoteFree(v, c) == votedFor[v] \in {Nobody, c.id}

\* The last entry of v refuses candidates of a lower term or a shorter log.
LogAccepts(v, c) ==
    LastEntryTerm(disk[v]) # Absent =>
        LastEntryTerm(disk[v]) <= c.term /\ disk[v].last <= c.arg

\* Mutant: the candidate's term is not compared with CurrentTerm.
GrantsAnyTerm(v, c) == VoteFree(v, c) /\ LogAccepts(v, c)

Grants(v, c) == c.term >= currentTerm[v] /\ VoteFree(v, c) /\ LogAccepts(v, c)

\* The checks pass, and the voter is preempted: they read the log from disk,
\* and HandlerAppendEntries, under another lock, may change the node before
\* the vote is cast.
CheckVote(c) ==
    LET v == c.to IN
    /\ c \in calls /\ c.kind = "vote" /\ c.status = "open" /\ up[v]
    /\ ~VoteLocked(v)
    /\ Grants(v, c)
    /\ Preempt
    /\ calls' = (calls \ {c}) \cup {[c EXCEPT !.status = "held", !.torn = FALSE]}
    /\ UNCHANGED <<up, nodeVars, disk, task, histVars>>

GrantVote(c) ==
    LET v == c.to IN
    /\ c \in calls /\ c.kind = "vote" /\ up[v]
    /\ \/ c.status = "held"
       \/ c.status = "open" /\ ~VoteLocked(v) /\ Grants(v, c)
    /\ state' = [state EXCEPT ![v] = FOLLOWER]
    /\ leaderAddr' = [leaderAddr EXCEPT ![v] = c.id]
    /\ currentTerm' = [currentTerm EXCEPT ![v] = c.term]
    /\ votedFor' = [votedFor EXCEPT ![v] = c.id]
    /\ calls' = Answered(c, "ok", c.term)
    /\ UNCHANGED <<up, disk, task, histVars, spent>>

RefuseVote(c) ==
    LET v == c.to IN
    /\ c \in calls /\ c.kind = "vote" /\ c.status = "open" /\ up[v]
    /\ VoteLocked(v) \/ ~Grants(v, c)
    /\ calls' = Answered(c, "no", currentTerm[v])
    /\ task' = IF Listening(c, "voting") \/ Listening(c, "leading")
               THEN [task EXCEPT ![c.from].refused = TRUE] ELSE task
    /\ UNCHANGED <<up, nodeVars, disk, histVars, spent>>

-----------------------------------------------------------------------------
(* Consensus.HandlerAppendEntries, heartbeats and term entries *)

\* The checks pass and the leader is taken down, but the handler is preempted
\* before it assigns State and CurrentTerm.  It holds appendLock, which neither
\* a vote nor the node's own goroutines need.
CheckAppend(c) ==
    LET v == c.to IN
    /\ c \in calls /\ IsAppend(c) /\ c.status = "open" /\ up[v]
    /\ ~AppendHeld(c)
    /\ c.term >= currentTerm[v]
    /\ Preempt
    /\ leaderAddr' = [leaderAddr EXCEPT ![v] = c.id]
    /\ calls' = (calls \ {c}) \cup {[c EXCEPT !.status = "held", !.torn = FALSE]}
    /\ UNCHANGED <<up, state, currentTerm, votedFor, disk, task, histVars>>

\* LogModule.Set drops the term entry when the node's own becomeLeaderToDo may
\* be inside its Set, before any of the replications that follow it is handled.
OwnSetRuns(v) ==
    /\ task[v].phase = "leading"
    /\ \A p \in Peers(v) : \E d \in calls :
          /\ d.kind = "term" /\ d.from = v /\ d.to = p
          /\ d.round = round[v] /\ d.status = "open"

StoreTermEntry(v, c) ==
    \/ disk' = IF c.kind = "term"
               THEN [disk EXCEPT ![v] = SetTermEntry(@, c.arg)] ELSE disk
    \/ OwnSetRuns(v) /\ UNCHANGED disk

AcceptAppend(c) ==
    LET v == c.to IN
    /\ c \in calls /\ IsAppend(c) /\ up[v]
    /\ \/ /\ c.status = "open" /\ ~AppendHeld(c)
          /\ c.term >= currentTerm[v]
          /\ leaderAddr' = [leaderAddr EXCEPT ![v] = c.id]
       \/ c.status = "held" /\ UNCHANGED leaderAddr
    /\ state' = [state EXCEPT ![v] = FOLLOWER]
    /\ currentTerm' = [currentTerm EXCEPT ![v] = c.term]
    /\ StoreTermEntry(v, c)
    /\ calls' = Answered(c, "ok", c.term)
    /\ UNCHANGED <<up, votedFor, task, histVars, spent>>

\* Preempted before the second comparison, which then fails: State and
\* CurrentTerm stay, and the request succeeds all the same.
AcceptOvertaken(c) ==
    LET v == c.to IN
    /\ c \in calls /\ IsAppend(c) /\ c.status = "held" /\ up[v]
    /\ c.term < currentTerm[v]
    /\ StoreTermEntry(v, c)
    /\ calls' = Answered(c, "ok", currentTerm[v])
    /\ UNCHANGED <<up, nodeVars, task, histVars, spent>>

RejectAppend(c) ==
    LET v == c.to IN
    /\ c \in calls /\ IsAppend(c) /\ c.status = "open" /\ up[v]
    /\ c.term < currentTerm[v] \/ AppendLocked(c)
    /\ calls' = Answered(c, "no", currentTerm[v])
    /\ UNCHANGED <<up, nodeVars, disk, task, histVars, spent>>

-----------------------------------------------------------------------------
(* heartBeatTask *)

\* A goroutine per peer; the peers' goroutines are independent, so one tick
\* is one step per peer.
HeartBeat(s, p) ==
    /\ up[s] /\ state[s] = LEADER
    /\ spent.beats < MaxBeats
    /\ spent' = [spent EXCEPT !.beats = @ + 1]
    /\ calls' = calls \cup {NewCall("beat", s, p, s, 0, currentTerm[s], 0)}
    /\ UNCHANGED <<up, nodeVars, disk, task, histVars>>

\* The reply to a heartbeat tells of a higher term.
StepDown(c) ==
    LET s == c.from IN
    /\ c \in calls /\ c.kind = "beat" /\ Adopts(c)
    /\ currentTerm' = [currentTerm EXCEPT ![s] = c.rterm]
    /\ votedFor' = [votedFor EXCEPT ![s] = Nobody]
    /\ state' = [state EXCEPT ![s] = FOLLOWER]
    /\ calls' = calls \ {c}
    /\ UNCHANGED <<up, leaderAddr, disk, task, histVars, spent>>

-----------------------------------------------------------------------------
(* becomeLeaderToDo and replication(peer, termEntry) *)

\* Back in electionTask: it ends for a LEADER, or when every peer has sent
\* its message; otherwise it listens on.
Resume(s, st) ==
    IF st = LEADER \/ task[s].sent = NumPeers THEN Idle
    ELSE [task[s] EXCEPT !.phase = "voting", !.acks = 0, !.received = 0]

\* A process dies.  A request it sent may still be handled, its answer is
\* lost; a request it was handling breaks the caller's connection.
Exit(s) ==
    /\ up' = [up EXCEPT ![s] = FALSE]
    /\ state' = [state EXCEPT ![s] = FOLLOWER]
    /\ currentTerm' = [currentTerm EXCEPT ![s] = BootTerm(disk[s])]
    /\ votedFor' = [votedFor EXCEPT ![s] = Nobody]
    /\ leaderAddr' = [leaderAddr EXCEPT ![s] = Nobody]
    /\ task' = [task EXCEPT ![s] = Idle]
    /\ calls' = {[c EXCEPT !.from = IF c.from = s THEN Nobody ELSE @,
                           !.status = IF c.to = s /\ @ = "held" THEN "open" ELSE @,
                           !.torn = (c.to = s /\ Pending(c)) \/ @]
                   : c \in {d \in calls : d.from = s => Pending(d)}}
    /\ UNCHANGED <<disk, histVars>>

\* Half of the peers hold the term entry, and messages are still awaited.
Established(c) ==
    LET s == c.from IN
    /\ c \in calls /\ c.kind = "term" /\ c.status = "ok"
    /\ Listening(c, "leading")
    /\ task[s].acks + 1 >= Half
    /\ task[s].received + 1 < NumPeers
    /\ task' = [task EXCEPT ![s] = Resume(s, state[s])]
    /\ calls' = calls \ {c}
    /\ UNCHANGED <<up, nodeVars, disk, histVars, spent>>

\* The deciding message closes the channel.  If it is also the last one the
\* channel is closed twice; if not, a goroutine between its check of
\* channelIsClosed and its send may send on a closed channel.  Both panics
\* end the process.
ChannelPanic(c) ==
    LET s == c.from IN
    /\ c \in calls /\ c.kind = "term" /\ c.status = "ok"
    /\ Listening(c, "leading")
    /\ task[s].acks + 1 >= Half
    /\ Exit(s)
    /\ UNCHANGED spent

CountAck(c) ==
    LET s == c.from
        k == [task[s] EXCEPT !.acks = @ + 1, !.received = @ + 1]
    IN
    /\ c \in calls /\ c.kind = "term" /\ c.status = "ok"
    /\ Listening(c, "leading")
    /\ k.acks < Half
    /\ IF k.received = NumPeers
       THEN /\ state' = [state EXCEPT ![s] = FOLLOWER]
            /\ task' = [task EXCEPT ![s] = Resume(s, FOLLOWER)]
       ELSE /\ task' = [task EXCEPT ![s] = k]
            /\ UNCHANGED state
    /\ calls' = calls \ {c}
    /\ UNCHANGED <<up, currentTerm, votedFor, leaderAddr, disk, histVars, spent>>

\* Mutant: a failed replication sends no message.
CountFailureUncounted(s, st) ==
    state' = [state EXCEPT ![s] = st] /\ UNCHANGED task

\* replication returned false: with everybody heard the leadership fails.
CountFailure(s, st) ==
    LET k == [task[s] EXCEPT !.received = @ + 1] IN
    IF k.received = NumPeers
    THEN /\ state' = [state EXCEPT ![s] = FOLLOWER]
         /\ task' = [task EXCEPT ![s] = Resume(s, FOLLOWER)]
    ELSE /\ state' = [state EXCEPT ![s] = st]
         /\ task' = [task EXCEPT ![s] = k]

\* A peer of a higher term ends the leadership and the replication.
TermOvertaken(c) ==
    LET s == c.from IN
    /\ c \in calls /\ c.kind = "term" /\ Adopts(c)
    /\ currentTerm' = [currentTerm EXCEPT ![s] = c.rterm]
    /\ IF Listening(c, "leading") THEN CountFailure(s, FOLLOWER)
       ELSE state' = [state EXCEPT ![s] = FOLLOWER] /\ UNCHANGED task
    /\ calls' = calls \ {c}
    /\ UNCHANGED <<up, votedFor, leaderAddr, disk, histVars, spent>>

\* No answer, or a failed one of no higher term.
TermFailed(c) ==
    /\ c \in calls /\ c.kind = "term" /\ c.from \in Server
    /\ c.status = "open" \/ (c.status = "no" /\ c.rterm <= currentTerm[c.from])

\* The loop sends again, reading CurrentTerm and LeaderAddr afresh.
TermRetry(c) ==
    LET s == c.from IN
    /\ TermFailed(c)
    /\ calls' = (calls \ {c}) \cup
         {NewCall("term", s, c.to, leaderAddr[s], c.round, currentTerm[s], c.arg)}
    /\ UNCHANGED <<up, nodeVars, disk, task, histVars, spent>>

\* Ten seconds have passed.
TermGiveUp(c) ==
    LET s == c.from IN
    /\ TermFailed(c)
    /\ Lose(c.to)
    /\ IF Listening(c, "leading") THEN CountFailure(s, state[s])
       ELSE UNCHANGED <<state, task>>
    /\ calls' = calls \ {c}
    /\ UNCHANGED <<up, currentTerm, votedFor, leaderAddr, disk, histVars>>

-----------------------------------------------------------------------------
(* Process exit and boot *)

Crash(s) ==
    /\ up[s] /\ spent.crashes < MaxCrashes
    /\ Exit(s)
    /\ spent' = [spent EXCEPT !.crashes = @ + 1]

\* SendWithTimeout: a connection that breaks under an open call is fatal.
CallerDies(c) ==
    /\ c \in calls /\ c.torn /\ c.status = "open" /\ c.from \in Server
    /\ Exit(c.from)
    /\ UNCHANGED spent

Boot(s) ==
    /\ ~up[s]
    /\ up' = [up EXCEPT ![s] = TRUE]
    /\ UNCHANGED <<nodeVars, disk, task, calls, histVars, spent>>

-----------------------------------------------------------------------------
Handle(c) ==
    \/ CheckVote(c) \/ GrantVote(c) \/ RefuseVote(c)
    \/ CheckAppend(c) \/ AcceptAppend(c) \/ AcceptOvertaken(c) \/ RejectAppend(c)

Answer(c) ==
    \/ StandDown(c) \/ CountVote(c) \/ Win(c)
    \/ SeeHigherTerm(c) \/ HearRefusal(c) \/ StepDown(c)
    \/ Established(c) \/ ChannelPanic(c) \/ CountAck(c) \/ TermOvertaken(c)

NoAnswer(c) ==
    \/ VoteUnreachable(c) \/ TermRetry(c) \/ TermGiveUp(c)
    \/ DropCall(c) \/ DropAnswer(c)

Next ==
    \/ \E s \in Server : \/ StartElection(s) \/ AbortElection(s)
                         \/ \E p \in Peers(s) : HeartBeat(s, p)
                         \/ Crash(s) \/ Boot(s)
    \/ \E c \in calls : Handle(c) \/ Answer(c) \/ NoAnswer(c) \/ CallerDies(c)

Spec == Init /\ [][Next]_vars

\* Some vote RPC of s proceeds, or finds its peer down.
VoteStep(s) ==
    \E c \in calls : /\ c.kind = "vote" /\ c.from = s
                     /\ Handle(c) \/ Answer(c) \/ VoteUnreachable(c)

\* The goroutines of an election are scheduled as long as one can proceed.
VoteFairSpec == Spec /\ \A s \in Campaigners : WF_vars(VoteStep(s))

-----------------------------------------------------------------------------
(* Properties *)

TypeOK ==
    /\ up \in [Server -> BOOLEAN]
    /\ state \in [Server -> {LEADER, CANDIDATE, FOLLOWER}]
    /\ currentTerm \in [Server -> Nat]
    /\ votedFor \in [Server -> Addr]
    /\ leaderAddr \in [Server -> Addr]
    /\ disk \in [Server -> Disk]
    /\ task \in [Server -> Task]
    /\ calls \subseteq Call
    /\ round \in [Server -> Nat]
    /\ won \subseteq (Server \X Nat)
    /\ spent \in [beats : Nat, losses : Nat, crashes : Nat, preempted : Nat]

\* Terms the disks held before the first election of this run.
BootTerms == ({d[s].terms[i] : d \in InitDisks, s \in Server, i \in Index} \ {Absent}) \cup {0}
\* The Terms of the log entries a call carries.
Entries(c) == IF c.kind = "term" THEN {c.arg} ELSE {}
WonTerms == BootTerms \cup {w[2] : w \in won}

\* A term exists only because some electionTask won it (CurrentTerm += 1 after
\* the vote, defaultNode.go:493): no node, log or RPC ever carries another,
\* whatever is lost, retried with a fresh CurrentTerm, or rebooted from disk.
TermsAreWon ==
    /\ \A s \in Server : currentTerm[s] \in WonTerms
    /\ \A s \in Server, i \in Index : disk[s].terms[i] \in WonTerms \cup {Absent}
    /\ \A c \in calls : {c.term, c.rterm} \cup Entries(c) \subseteq WonTerms

\* A call whose handler at s, or whose goroutine at s, stopped between comparing
\* CurrentTerm and assigning it; and the term it will assign.
Midway(s) == {c \in calls : (c.to = s /\ c.status = "held") \/ (c.from = s /\ c.status = "seen")}
Brings(c) == IF c.status = "held" THEN c.term ELSE c.rterm

\* While a process runs, its CurrentTerm falls only when a handler or a goroutine
\* that was preempted between its comparison and its assignment
\* (consensus.go:55-92 and 127-142, defaultNode.go:378-380, 462-463, 635-637)
\* goes on, and then to the very term that it brings.  Whatever is compared and
\* assigned at one go, however stale, retried or forwarded, never lowers it.
TermFallsOnlyMidway ==
    [][\A s \in Server :
          up[s] /\ up'[s] /\ currentTerm'[s] < currentTerm[s] =>
             \E c \in Midway(s) : c \notin calls' /\ currentTerm'[s] = Brings(c)]_vars

Awaited(s) == {c \in calls : c.kind = "vote" /\ c.from = s /\ c.round = round[s]}

\* An electionTask that still listens although no vote RPC is out was refused
\* by a peer: a refusal sends nothing on the channel (defaultNode.go:460-465),
\* every other outcome of an RPC is counted.  A server without peers listens to
\* a channel that nobody sends on (defaultNode.go:480).
HungOnlyByRefusal ==
    \A s \in Server :
        task[s].phase = "voting" /\ Awaited(s) = {} => task[s].refused \/ NumPeers = 0

\* becomeLeaderToDo never waits for a message that no goroutine will send:
\* each peer it has not heard has its replication of the term entry running.
LeadershipIsAnswered ==
    \A s \in Server : task[s].phase = "leading" =>
        LET out == {c \in calls : c.kind = "term" /\ c.from = s /\ c.round = round[s]}
        IN  /\ Cardinality(out) = NumPeers - task[s].received
            /\ task[s].received < NumPeers

Clock == INSTANCE Terms WITH term <- currentTerm, known <- WonTerms, Old <- BootTerms

\* The cluster's terms change as an abstract clock's: one step up by a win of
\* electionTask, or to a term somebody won before, by any handler or a reboot.
TermsSpec == Clock!Spec

Seen == INSTANCE Roles WITH asked <- {s \in Server : round[s] > 0}

\* What the client path sees of an election (module Roles): a leader never
\* campaigns, nobody leads, or is ever taken for a leader, who has not asked
\* for votes, however late a vote, a retried term entry or an answer arrives
\* (defaultNode.go:408-577, consensus.go:89-182).
RolesSpec == Seen!RolesSpec

\* An election that nobody refuses ends: every RPC of electionTask that is
\* granted, or finds its peer down, brings the loop nearer to its end.
ElectionEnds ==
    \A s \in Campaigners :
        (task[s].phase = "voting" /\ ~task[s].refused)
            ~> (task[s].phase # "voting" \/ task[s].refused)

\* README.md:5 offers the Raft protocol, in which a term has one leader.
ElectionSafety == \A v, w \in won : v[2] = w[2] => v = w
=============================================================================
