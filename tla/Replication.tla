----------------------------- MODULE Replication -----------------------------
(***************************************************************************)
(* Client requests of go-raftkv while one server leads one term:           *)
(* HandlerClientRequest, replication and heartBeatTask of                  *)
(* server/node/defaultNode.go on the leader, HandlerAppendEntries of       *)
(* server/node/consensus.go on its peers, over the LogModule and the       *)
(* StateMachine each of them has on disk.  The module begins when the      *)
(* leader has stored its term entry; elections are in module Election.     *)
(*                                                                         *)
(* Every request runs in a goroutine of its own, and so does its           *)
(* replication to each peer.  The goroutines share the leader's            *)
(* CommitIndex, nextIndexs, log and state machine.                         *)
(***************************************************************************)
EXTENDS Integers, FiniteSets

CONSTANTS
    Leader,      \* the server that leads
    Peer,        \* getPeerAddrsWithOutSelf
    Set, Get,    \* the clients' requests
    Past,        \* SET requests of earlier terms, some entries of which remain
    Key, KeyOf,  \* the key of each request
    Term,        \* the term that Leader won
    None,        \* no entry, no request, no heartbeat
    MaxIndex,    \* bound: the highest index of the log
    Flaky,       \* bound: peers that may be out of reach
    MaxBeats,    \* bound: heartbeats sent
    InitNext,    \* what an earlier leadership may have left in nextIndexs
    InitNodes    \* what the servers may hold when the term begins

VARIABLES
    up,         \* the leader's process runs
    node,       \* per server: LogModule, CommitIndex, LastApplied, StateMachine
    nextIndex,  \* the leader's nextIndexs
    req,        \* the handler of each SET
    job,        \* the replication of each SET to each peer
    answer,     \* what each GET was answered: {}, or the request that wrote it
    beat,       \* the LeaderCommit of the heartbeat on its way to each peer
    beats       \* how many heartbeats were sent, for MaxBeats

vars == <<up, node, nextIndex, req, job, answer, beat, beats>>

Index == 0..MaxIndex
Node == Peer \cup {Leader}
Request == Set \cup Get
NumPeers == Cardinality(Peer)
Half == NumPeers \div 2

\* A LogEntry without its Index, which is the key it is stored under; the
\* entries of index 0 carry no key.
Entry == [term : Nat, req : Set \cup Past \cup {None}]
Slot == Entry \cup {None}
Log == [Index -> Slot]

\* last: LAST_INDEX_KEY.  sm: the StateMachine's entry of each key.
NodeState == [log : Log, last : Index, commit : Index, applied : Nat, sm : [Key -> Slot]]

\* index: of the entry.  count, sent: the collector's.
Req == [phase : {"new", "reserved", "waiting", "ok", "failed"},
        index : Index, count : Nat, sent : Nat]

\* next: the nextIndex the attempt has read.  entries, padded: Entries, by
\* index, and whether entries of the zero value fill it up.  prev, prevTerm,
\* commit: PrevLogIndex, PreLogTerm (read only when prev # 0), LeaderCommit.
Job == [phase : {"off", "ready", "open", "yes", "no", "lost", "true", "false", "late", "over"},
        next : 0..MaxIndex + 1, entries : Log, padded : BOOLEAN,
        prev : Index, prevTerm : Nat, commit : Index]

ASSUME ConstantAssumption ==
    /\ IsFiniteSet(Peer) /\ Peer # {} /\ Leader \notin Peer
    /\ Flaky \subseteq Peer /\ MaxBeats \in Nat
    /\ Set \cap Get = {} /\ Request \cap Past = {}
    /\ None \notin Request \cup Past \cup Nat \cup Entry
    /\ KeyOf \in [Request \cup Past -> Key]
    /\ Term \in Nat /\ MaxIndex \in Nat
    /\ InitNodes \subseteq [Node -> NodeState] /\ InitNext \subseteq 0..MaxIndex + 1

\* What is on the disks is of earlier terms, one entry to an index and a term.
ASSUME DisksAssumption ==
    \A m \in InitNodes : \A n \in Node :
       /\ \A i \in 1..MaxIndex : m[n].log[i] # None =>
             /\ m[n].log[i].term < Term /\ m[n].log[i].req \in Past
             /\ \A o \in Node : m[o].log[i] # None /\ m[o].log[i].term = m[n].log[i].term
                                   => m[o].log[i] = m[n].log[i]
       /\ \A k \in Key : m[n].sm[k] # None =>
             m[n].sm[k].req \in Past /\ KeyOf[m[n].sm[k].req] = k

-----------------------------------------------------------------------------
(* LogModule and StateMachine *)

Smaller(x, y) == IF x < y THEN x ELSE y

\* The entries of index lo to hi that log holds.
Slice(log, lo, hi) == [i \in Index |-> IF lo <= i /\ i <= hi THEN log[i] ELSE None]

Held(log) == {i \in Index : log[i] # None}
\* The index of the entry nearest below i, 0 when there is none (getPreLog).
Before(log, i) ==
    IF \E j \in Held(log) : 0 < j /\ j < i
    THEN CHOOSE j \in Held(log) : /\ 0 < j /\ j < i
                                  /\ \A h \in Held(log) : h < i => h <= j
    ELSE 0
\* The Index of the first entry sent: 0 when all of them are zero values.
First(log) ==
    IF Held(log) = {} THEN 0
    ELSE CHOOSE j \in Held(log) : \A h \in Held(log) : j <= h
Last(log) == CHOOSE j \in Held(log) : \A h \in Held(log) : h <= j

\* The zero LogEntry.
ZeroEntry == [term |-> 0, req |-> None]

\* Set of one entry of index i > 0, which becomes LAST_INDEX_KEY.
Write(n, i, e) == [n EXCEPT !.log[i] = e, !.last = i]

\* Set of each entry sent; the padding goes to index 0.
WriteAll(n, j) ==
    [n EXCEPT !.log = [i \in Index |-> IF j.entries[i] # None THEN j.entries[i]
                                       ELSE IF i = 0 /\ j.padded THEN ZeroEntry
                                       ELSE n.log[i]],
              !.last = Last(j.entries)]

\* DeleteOnStartIndex: LAST_INDEX_KEY stays.
Truncate(n, i) ==
    [n EXCEPT !.log = [h \in Index |-> IF i <= h /\ h <= n.last THEN None ELSE n.log[h]]]

\* StateMachine.Set of the entries at the indices of S, in ascending order.
ApplyAll(n, S) ==
    LET Of(k) == {i \in S : n.log[i] # None /\ KeyOf[n.log[i].req] = k}
    IN  [n EXCEPT !.sm = [k \in Key |-> IF Of(k) = {} THEN n.sm[k]
                             ELSE n.log[CHOOSE i \in Of(k) : \A h \in Of(k) : h <= i]]]

\* CommitIndex and LastApplied follow LeaderCommit as far as LAST_INDEX_KEY.
Advance(n, commit) ==
    IF commit > n.commit
    THEN [n EXCEPT !.commit = Smaller(commit, n.last), !.applied = Smaller(commit, n.last)]
    ELSE n

NoEntries == [i \in Index |-> None]
InPhase(ph) ==
    [phase |-> ph, next |-> 0, entries |-> NoEntries, padded |-> FALSE,
     prev |-> 0, prevTerm |-> 0, commit |-> 0]

EntryOf(r) == [term |-> Term, req |-> r]
Waiting(r) == req[r].phase = "waiting"

Init ==
    /\ up = TRUE
    /\ node \in InitNodes
    /\ nextIndex \in [Peer -> InitNext]
    /\ req = [r \in Set |-> [phase |-> "new", index |-> 0, count |-> 0, sent |-> 0]]
    /\ job = [r \in Set |-> [p \in Peer |-> InPhase("off")]]
    /\ answer = [r \in Get |-> {}]
    /\ beat = [p \in Peer |-> None]
    /\ beats = 0

-----------------------------------------------------------------------------
(* HandlerClientRequest *)

\* The value of an entry is known by the request that wrote it.
Value(e) == IF e = None THEN None ELSE e.req

Read(r) ==
    /\ up /\ answer[r] = {}
    /\ answer' = [answer EXCEPT ![r] = {Value(node[Leader].sm[KeyOf[r]])}]
    /\ UNCHANGED <<up, node, nextIndex, req, job, beat, beats>>

\* Mutant: the index is the one after the last that was written.
NextOfLog(n) == n.last + 1

\* The index that a SET reserves by raising CommitIndex.
NextOf(n) == n.commit + 1

Reserve(r) ==
    LET i == NextOf(node[Leader]) IN
    /\ up /\ req[r].phase = "new"
    /\ i <= MaxIndex
    /\ node' = [node EXCEPT ![Leader].commit = i]
    /\ req' = [req EXCEPT ![r].phase = "reserved", ![r].index = i]
    /\ UNCHANGED <<up, nextIndex, job, answer, beat, beats>>

\* PRE-COMMIT.  LogModule.Set gives up when another request is in it.
PreCommit(r) ==
    /\ up /\ req[r].phase = "reserved"
    /\ \/ node' = [node EXCEPT ![Leader] = Write(@, req[r].index, EntryOf(r))]
       \/ /\ \E q \in Set \ {r} : req[q].phase = "reserved"
          /\ UNCHANGED node
    /\ req' = [req EXCEPT ![r].phase = "waiting"]
    /\ job' = [job EXCEPT ![r] = [p \in Peer |-> InPhase("ready")]]
    /\ UNCHANGED <<up, nextIndex, answer, beat, beats>>

\* A message of the channel is consumed.
Consumed(r, p, msg) ==
    /\ up /\ Waiting(r) /\ job[r][p].phase = msg
    /\ UNCHANGED <<up, nextIndex, answer, beat, beats>>

\* Mutant: the collector listens on after it has applied the entry.
ClosedByFailure(r, ph) ==
    IF ph = "failed" THEN [req EXCEPT ![r].phase = ph] ELSE [req EXCEPT ![r].sent = @ + 1]

Closed(r, ph) == [req EXCEPT ![r].phase = ph, ![r].count = 0, ![r].sent = 0]

\* The leader applies an entry.
Applied(n, r) == [n EXCEPT !.sm[KeyOf[r]] = EntryOf(r), !.applied = @ + 1]

\* Half of the peers have answered: the entry is applied, the client answered
\* and the channel closed, which other goroutines may be about to send to.
Commit(r, p) ==
    /\ Consumed(r, p, "true")
    /\ req[r].count + 1 >= Half
    /\ node' = [node EXCEPT ![Leader] = Applied(@, r)]
    /\ req' = Closed(r, "ok")
    /\ job' = [job EXCEPT ![r] =
         [q \in Peer |-> IF q = p THEN InPhase("over")
                         ELSE IF @[q].phase \in {"true", "false"} THEN InPhase("late")
                         ELSE @[q]]]

Counted(k) == [k EXCEPT !.count = @ + 1, !.sent = @ + 1]

CountTrue(r, p) ==
    /\ Consumed(r, p, "true")
    /\ req[r].count + 1 < Half
    /\ req' = [req EXCEPT ![r] = Counted(@)]
    /\ job' = [job EXCEPT ![r][p] = InPhase("over")]
    /\ UNCHANGED node

CountFalse(r, p) ==
    /\ Consumed(r, p, "false")
    /\ req[r].sent + 1 < NumPeers
    /\ req' = [req EXCEPT ![r].sent = @ + 1]
    /\ job' = [job EXCEPT ![r][p] = InPhase("over")]
    /\ UNCHANGED node

\* Mutant: every later entry goes too, as the comment of the code says.
RemoveFrom(n, i) ==
    [n EXCEPT !.log = [h \in Index |-> IF i <= h THEN None ELSE n.log[h]]]

\* Mutant: the index is given back.
RemoveAndReturn(n, i) == [n EXCEPT !.log[i] = None, !.commit = @ - 1]

\* Delete of one entry; LAST_INDEX_KEY stays.
Remove(n, i) == [n EXCEPT !.log[i] = None]

\* The last message is a failure: the entry, and it alone, is deleted.
Rollback(r, p) ==
    /\ Consumed(r, p, "false")
    /\ req[r].sent + 1 = NumPeers
    /\ node' = [node EXCEPT ![Leader] = Remove(@, req[r].index)]
    /\ req' = Closed(r, "failed")
    /\ job' = [job EXCEPT ![r][p] = InPhase("over")]

\* A goroutine that found isChannelClosed unset sends on the closed channel:
\* the process ends with the panic, and only what it has sent is still handled.
SendOnClosed(r, p) ==
    /\ up /\ job[r][p].phase = "late"
    /\ up' = FALSE
    /\ job' = [q \in Set |-> [s \in Peer |->
                 IF job[q][s].phase = "open" THEN job[q][s] ELSE InPhase("over")]]
    /\ UNCHANGED <<node, nextIndex, req, answer, beat, beats>>

-----------------------------------------------------------------------------
(* replication *)

\* One attempt: everything from nextIndex to the entry, from the log when the
\* entry is not the next one.
Send(r, p) ==
    LET i == req[r].index
        log == node[Leader].log
        batch == i > nextIndex[p]
        es == IF batch THEN Slice(log, nextIndex[p], i)
              ELSE [NoEntries EXCEPT ![i] = EntryOf(r)]
        prev == Before(log, First(es))
    IN
    /\ up /\ job[r][p].phase \in {"ready", "lost"}
    /\ job' = [job EXCEPT ![r][p] =
         [phase |-> "open", next |-> nextIndex[p], entries |-> es,
          padded |-> batch /\ \E h \in nextIndex[p]..i : log[h] = None,
          prev |-> prev, prevTerm |-> IF prev = 0 THEN 0 ELSE log[prev].term,
          commit |-> node[Leader].commit]]
    /\ UNCHANGED <<up, node, nextIndex, req, answer, beat, beats>>

\* Mutant: a failure sends nothing.
FinishSilently(r, p, msg) ==
    job' = [job EXCEPT ![r][p] =
              InPhase(IF Waiting(r) /\ msg = "true" THEN msg ELSE "over")]

\* What the channel is told, if anybody still listens.
Finish(r, p, msg) ==
    job' = [job EXCEPT ![r][p] = InPhase(IF Waiting(r) THEN msg ELSE "over")]

Succeed(r, p) ==
    /\ up /\ job[r][p].phase = "yes"
    /\ nextIndex' = [nextIndex EXCEPT ![p] = req[r].index + 1]
    /\ Finish(r, p, "true")
    /\ UNCHANGED <<up, node, req, answer, beat, beats>>

\* Mutant: there is always an entry before.
OneLess(next) == next - 1

OneBack(next) == IF next = 0 THEN 0 ELSE next - 1

\* The peer refused: the next attempt starts one entry earlier than this did.
Backoff(r, p) ==
    /\ up /\ job[r][p].phase = "no"
    /\ nextIndex' = [nextIndex EXCEPT ![p] = OneBack(job[r][p].next)]
    /\ job' = [job EXCEPT ![r][p] = InPhase("lost")]
    /\ UNCHANGED <<up, node, req, answer, beat, beats>>

Unreachable(r, p) ==
    /\ up /\ p \in Flaky /\ job[r][p].phase = "open"
    /\ job' = [job EXCEPT ![r][p] = InPhase("lost")]
    /\ UNCHANGED <<up, node, nextIndex, req, answer, beat, beats>>

\* Ten seconds have passed since the first attempt.
GiveUp(r, p) ==
    /\ up /\ job[r][p].phase = "lost"
    /\ Finish(r, p, "false")
    /\ UNCHANGED <<up, node, nextIndex, req, answer, beat, beats>>

-----------------------------------------------------------------------------
(* Consensus.HandlerAppendEntries *)

\* Another append to p may hold its appendLock.
Busy(r, p) == \E q \in Set \ {r} : job[q][p].phase = "open"

\* The entry before the first one sent is there and of the same term; it is
\* not looked for when either log is taken to be empty.
Matches(n, j) ==
    n.last # 0 /\ j.prev # 0 =>
        n.log[j.prev] # None /\ n.log[j.prev].term = j.prevTerm

\* The first entry sent is a term entry, or a zero value: it alone is stored.
TermOnly(j) == First(j.entries) = 0
SetFirst(n, j) ==
    [n EXCEPT !.log[0] = IF j.entries[0] = None THEN ZeroEntry ELSE j.entries[0]]

\* The place after prev is taken: nothing is stored, and what is there is
\* deleted with all that follows when its term differs.
Taken(n, j) == n.log[j.prev + 1] # None
KeepOrCut(n, j) ==
    IF n.log[j.prev + 1].term = j.entries[First(j.entries)].term THEN n
    ELSE Truncate(n, j.prev + 1)

\* The loop advances twice in each round.
EveryOther(lo, hi) == {i \in lo + 1..hi : (i - lo) % 2 = 1}

\* The entries are stored, and CommitIndex advances.
Store(n, j) ==
    LET m == Advance(WriteAll(n, j), j.commit)
    IN  ApplyAll(m, EveryOther(n.commit, m.commit))

AppendTo(n, j) ==
    IF TermOnly(j) THEN SetFirst(n, j)
    ELSE IF Taken(n, j) THEN KeepOrCut(n, j)
    ELSE Store(n, j)

Append(r, p) ==
    /\ job[r][p].phase = "open"
    /\ Matches(node[p], job[r][p])
    /\ node' = [node EXCEPT ![p] = AppendTo(@, job[r][p])]
    /\ job' = [job EXCEPT ![r][p] = InPhase("yes")]
    /\ UNCHANGED <<up, nextIndex, req, answer, beat, beats>>

RefuseAppend(r, p) ==
    /\ job[r][p].phase = "open"
    /\ ~Matches(node[p], job[r][p]) \/ Busy(r, p)
    /\ job' = [job EXCEPT ![r][p] = [InPhase("no") EXCEPT !.next = job[r][p].next]]
    /\ UNCHANGED <<up, node, nextIndex, req, answer, beat, beats>>

-----------------------------------------------------------------------------
(* Heartbeats, one at a time on the way to a peer.  One that is lost, or that *)
(* finds the appendLock taken, is one that is not sent.                       *)

HeartBeat(p) ==
    /\ up /\ beat[p] = None
    /\ beats < MaxBeats
    /\ beats' = beats + 1
    /\ beat' = [beat EXCEPT ![p] = node[Leader].commit]
    /\ UNCHANGED <<up, node, nextIndex, req, job, answer>>

\* The peer advances CommitIndex and applies every entry it passes.
Beaten(n, commit) ==
    LET m == Advance(n, commit) IN ApplyAll(m, n.commit + 1..m.commit)

HandleBeat(p) ==
    /\ beat[p] # None
    /\ node' = [node EXCEPT ![p] = Beaten(@, beat[p])]
    /\ beat' = [beat EXCEPT ![p] = None]
    /\ UNCHANGED <<up, nextIndex, req, job, answer, beats>>

-----------------------------------------------------------------------------
Collect(r, p) ==
    Commit(r, p) \/ CountTrue(r, p) \/ CountFalse(r, p) \/ Rollback(r, p)

Attempt(r, p) ==
    \/ Send(r, p) \/ Succeed(r, p) \/ Backoff(r, p)
    \/ Append(r, p) \/ RefuseAppend(r, p)

Next ==
    \/ \E r \in Get : Read(r)
    \/ \E r \in Set : Reserve(r) \/ PreCommit(r)
    \/ \E r \in Set, p \in Peer :
          \/ Attempt(r, p) \/ Unreachable(r, p) \/ GiveUp(r, p)
          \/ Collect(r, p) \/ SendOnClosed(r, p)
    \/ \E p \in Peer : HeartBeat(p) \/ HandleBeat(p)

Spec == Init /\ [][Next]_vars

\* Goroutines are scheduled, and an attempt that keeps failing runs into the
\* ten seconds.
FairSpec ==
    /\ Spec
    /\ \A r \in Set : WF_vars(PreCommit(r))
    /\ \A r \in Set, p \in Peer :
          WF_vars(Attempt(r, p)) /\ WF_vars(Collect(r, p)) /\ SF_vars(GiveUp(r, p))

-----------------------------------------------------------------------------
(* Properties *)

TypeOK ==
    /\ up \in BOOLEAN
    /\ node \in [Node -> NodeState]
    /\ nextIndex \in [Peer -> 0..MaxIndex + 1]
    /\ req \in [Set -> Req]
    /\ job \in [Set -> [Peer -> Job]]
    /\ answer \in [Get -> SUBSET (Set \cup Past \cup {None})]
    /\ beat \in [Peer -> Index \cup {None}]
    /\ beats \in Nat

\* The entries of index i that a log holds, or an append carries.
At(i) ==
    ({node[n].log[i] : n \in Node} \cup {job[r][p].entries[i] : r \in Set, p \in Peer})
        \ {None}

\* Two entries of one index and one term are the same entry, wherever they are:
\* the atomic increment of CommitIndex gives no two requests one place,
\* whatever Set drops, whatever is rolled back, retried, or sent as a batch
\* while other requests are in the middle of theirs.
EntryIdentity ==
    \A i \in 1..MaxIndex : \A e, f \in At(i) : e.term = f.term => e = f

\* A peer's CommitIndex moves only to places the leader has reserved, although
\* it advances on LeaderCommits that are late, and rollbacks come in between.
FollowersBehind ==
    [][\A p \in Peer : node'[p].commit # node[p].commit
                          => node'[p].commit <= node[Leader].commit]_vars

\* Once its client has been told of success, an entry that the leader's log
\* holds stays there: a rollback of another request never removes it.
LeaderKeepsAcked ==
    [][\A r \in Set :
          LET i == req[r].index IN
          req[r].phase = "ok" /\ node[Leader].log[i] = EntryOf(r)
             => node'[Leader].log[i] = EntryOf(r)]_vars

\* The collector has heard every peer, a success last, too late to make half:
\* the end is looked for only after a failure (defaultNode.go:816).
HungByLateSuccess(r) == req[r].sent = NumPeers /\ 0 < req[r].count /\ req[r].count < Half

\* A SET is answered, or its leader's process has ended, whatever the peers
\* refuse, miss or refuse one another at their appendLocks; the only other end
\* is the one above, which takes more than three peers.
RequestAnswered ==
    \A r \in Set : Waiting(r) ~> (~Waiting(r) \/ ~up \/ HungByLateSuccess(r))

\* No message is lost between the goroutines of a request and its collector:
\* once all of them have ended it waits for nothing, but for that one case.
HungOnlyByLateSuccess ==
    \A r \in Set :
        up /\ Waiting(r) /\ (\A p \in Peer : job[r][p].phase = "over")
            => HungByLateSuccess(r)

Status(r) ==
    IF r \in Get THEN (IF answer[r] = {} THEN "new" ELSE "ok")
    ELSE IF req[r].phase \in {"reserved", "waiting"} THEN "pending"
    ELSE req[r].phase
Promise == INSTANCE AtomicStore WITH
    store <- [k \in Key |-> Value(node[Leader].sm[k])],
    status <- [r \in Request |-> Status(r)]

\* The leader serves its clients like one atomic store: a SET that is answered
\* with success took effect once, at one moment of HandlerClientRequest, one
\* that fails never did, and a GET returns what the last SET wrote, in every
\* interleaving of collectors, rollbacks and late messages.
AtomicStoreSpec == Promise!Spec

\* defaultNode.go:777 and 807: half of the peers have the entry when it is
\* applied and the client is told of success.
AckedIsReplicated ==
    [][\A r \in Set :
          Waiting(r) /\ req'[r].phase = "ok" =>
             Cardinality({p \in Peer : node[p].log[req[r].index] = EntryOf(r)}) >= Half]_vars

\* consensus.go:244: the entries up to a new CommitIndex are applied one after
\* the other: the state machine of the peer then holds each, or a later one.
AppliesEach ==
    [][\A p \in Peer :
          LET n == node'[p]
              new == node[p].commit + 1..n.commit
          IN  \A i \in {h \in new : n.log[h] # None} :
                 n.sm[KeyOf[n.log[i].req]] \in {n.log[h] : h \in {g \in new : g >= i}}]_vars
=============================================================================
