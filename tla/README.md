# A verification development of go-raftkv

go-raftkv is a key-value store in Go that replicates a log with a protocol in
the manner of Raft. This directory holds TLA+ models of its election, replication,
storage, client path and membership change, TLC configurations that check them on
small clusters, and TLAPS proofs about all of them for clusters of any size. `PROJECT.json` lists runs,
mutants, findings, hazards, theorems, and the source lines behind every definition.

    tlc -config election.cfg MCElection     # one of the runs below
    tlapm ElectionProofs.tla                # the proofs of one module

Throughout, `DN` is `src/server/node/defaultNode.go`, `CO` is
`src/server/node/consensus.go`, `LM` is `src/server/logmodule/logmodule.go`, `SM` is
`src/server/statemachine/statemachine.go`, `RF` is
`src/client/clientMethod/raftkvClient.go`.

## 1. Inventory

| component | state | operations | talks to |
|---|---|---|---|
| **Node, election** (DN:306-578) | State, CurrentTerm, VotedFor, LeaderAddr, the tickers | `electionTask`, `becomeLeaderToDo`, `heartBeatTask` | peers by RPC, one goroutine per peer; LogModule |
| **Consensus** (CO) | voteLock, appendLock, a pointer to Node | `HandlerRequestVote`, `HandlerAppendEntries` | Node's fields, LogModule, StateMachine |
| **Node, replication** (DN:580-830) | nextIndexs, CommitIndex, LastApplied, a channel per request | `HandlerClientRequest`, `replication`, `getPreLog` | peers, LogModule, StateMachine |
| **LogModule** (LM) | entries by index and LAST_INDEX_KEY in rosedb, a lock | `Set`, `Get`, `Delete`, `DeleteOnStartIndex`, `GetLastIndex`, `GetLastEntry` | disk |
| **StateMachine** (SM) | the last entry of each key in rosedb | `Set`, `Get` | disk |
| **RpcClient** (`src/common/rpc`) | none | `Send`, `SendWithTimeout` | net/rpc |
| **Client path** (DN:720-769, 1023-1034; RF; `src/kv/cmd`) | none of its own | `SendASetRequest`, `kv get`, `kv set`, `HandlerClientRequest` off the leader, `Redirect` | LeaderAddr |
| **Membership** (DN:391-402, 932-1022, 1036-1064) | IsMemberChanging, Config.PeerAddrs | `HandlerMemberAdd`, `HandlerMemberChangeSync`, `NewNodeNeedToDo` | every peer |
| **Persistence** (DN:281-304, 684-718, 1066-1071, `nodeStore.go`) | CommitIndex, LastApplied, nextIndexs on disk | `Persistence`, `initState` | disk, OS signals |
| logging, wiring, benchmark handlers | none | | |

The components share memory inside a process (the RPC handlers, the tickers and
the client goroutines all write `Node`'s fields, most of them without a lock) and
exchange synchronous RPCs between processes.

What is hard here, and which component must get it right:

* *Election.* A vote is checked and cast under voteLock while appends change the
  same fields under appendLock. Answers arrive after the election that asked for
  them is over. A candidate listens on a channel inside its ticker goroutine, so
  a message that never comes silences the server for good. A process dies in the
  middle of a call, and its callers die with it (`log.Fatalf` in `SendWithTimeout`).
  It is correct when terms only grow by elections, when each wait has somebody
  who ends it, and when a term has one leader.
* *Replication.* Requests reserve their index by raising CommitIndex, and then
  write, send, retry, back off and roll back in any order, over one shared
  nextIndex per peer. It is correct when an index and a term name one entry, when
  what a client was told stays true, and when each request is answered.
* *LogModule.* LAST_INDEX_KEY is the index that was written last. `Set` writes twice and
  turns others away; `Delete` and `DeleteOnStartIndex` look at no lock. It is correct when
  the key never names what was not written, and when what a client was told is stored.
* *Persistence.* CommitIndex and nextIndexs reach the disk on a signal only, while handlers
  go on. It is correct when a restart does not reserve an index a second time.
* *Client path.* A redirect follows LeaderAddr, which a vote sets, through handlers that wait
  for one another, and dies with any of them. It is correct when a request takes effect
  at most once, when its client is told what happened, and when it ends.
* *Membership.* Lists are fields of processes, replaced by what the joiner sends, under a
  flag that is tested in one step and set in the next. It is correct when servers agree
  about the members, when the flag is never left behind, and when a joiner gets in.

The "hazards" of `PROJECT.json` name each at its line, with the properties that
would catch it going wrong.

## 2. Modules

| module | what it is |
|---|---|
| `Election` | the election, one action per handler or step of a loop, any number of servers, crash and boot |
| `Terms` | abstract specification: what the cluster promises about terms |
| `Roles` | abstract specification: who runs, who takes itself for the leader, who follows whom |
| `ElectionProofs` | proofs about `Election`, for every value of its constants: types and terms |
| `RolesProofs` | `Election` implements `Roles` |
| `CountProofs` | what the loops of `Election` have counted and what is still out |
| `Replication` | client requests and their replication while one server leads one term |
| `AtomicStore` | abstract specification: what a leader promises its clients |
| `ReplicationProofs` | proofs about `Replication`, for every value of its constants |
| `Storage` | what one server keeps on disk, write by write: LogModule and the stored node state |
| `ClientPath` | requests of clients through redirects, on top of `Roles` |
| `Membership` | servers that join |
| `StorageProofs`, `ClientPathProofs`, `MembershipProofs` | proofs about these three, for every value of their constants |
| `MCElection`, `MCReplication`, `MCStorage`, `MCClientPath`, `MCMembership` | disks, addresses, lists and symmetry sets for TLC |

`Election` implements `Terms` and `Roles`, `Replication` implements `AtomicStore`. `ClientPath` is
composed with the election through `Roles`, of which it takes the actions, and with replication
through what `AtomicStore` promises: a leader applies a request and answers success, or does neither.
`Storage` is `Replication`'s leader and `Election`'s ticker on one server at a finer grain.

### Election

State. `state`, `currentTerm`, `votedFor`, `leaderAddr` are the fields of `Node`.
`disk` is a LogModule: the term stored at each index (payloads are of no
interest to an election) and LAST_INDEX_KEY. `task` says where the ticker goroutine
is: outside `electionTask`, in its loop ("voting"), or in the loop of
`becomeLeaderToDo` that it calls ("leading"), with the counters of both. `calls` are
the RPCs in flight: "open" until a handler takes them, "held" when a handler is preempted
between comparing CurrentTerm and assigning it, then "ok" or "no" until the
goroutine that called consumes the answer, which is "seen" when that goroutine is
preempted between its own comparison and assignment. `round`, `won` and `task.refused` are
history. An unanswered call does not time out in the code: only a peer that
cannot be connected yields nil.

| code | actions |
|---|---|
| `electionTask` (DN:408-513) | `StartElection`, `AbortElection`; its loop: `CountVote`, `StandDown`, `VoteUnreachable`; its goroutines: `SeeHigherTerm`, `HearRefusal`, `DropAnswer`, `DropCall` |
| `electionTask` DN:489-498 with `becomeLeaderToDo` DN:515-555 | `Win` |
| `becomeLeaderToDo`'s loop and the replication of the term entry | `Established`, `ChannelPanic`, `CountAck`, `SeeHigherTerm`, `TermOvertaken`, `TermRetry`, `TermGiveUp` |
| `HandlerRequestVote` (CO:42-103) | `CheckVote`, `GrantVote`, `RefuseVote` |
| `HandlerAppendEntries` for heartbeats and term entries | `CheckAppend`, `AcceptAppend`, `AcceptOvertaken`, `RejectAppend` |
| `heartBeatTask` (DN:343-388) | `HeartBeat`, `SeeHigherTerm`, `StepDown` |
| process exit, `SendWithTimeout`'s Fatalf, `Init` | `Crash`, `CallerDies`, `Boot` |

A loser of the lock of `LogModule.Set` does not write (LM:42), so `Win` may leave the disk as it
is while an append may be in `Set`, and an append (`StoreTermEntry`) while the node's own
`becomeLeaderToDo` may be (`OwnSetRuns`). The deciding message of `becomeLeaderToDo` closes a channel that is closed again,
or that a goroutine between its check and its send still uses; `ChannelPanic`
merges the two, for both end the process.

Abstractions. What one goroutine assigns between two points of I/O is one step, but for
CurrentTerm: it is compared and then assigned in five places, under no common lock, and in each the
handler or the goroutine may be preempted in between while everything else goes on. These are
`CheckVote` (CO:55-92), `CheckAppend` (CO:127-142, which resumes as `AcceptAppend` or, when the second
comparison at CO:137 fails, as `AcceptOvertaken`) and `SeeHigherTerm` (DN:378-380, 462-463, 635-637). `MaxPreempted`
bounds them. `CheckAppend` has LeaderAddr assigned (CO:136); whoever goes on from CO:127 to 136 in that
time does so in one step. `CurrentTerm += 1` is one step. The assignment of `NewNodeNeedToDo`
(DN:1055), which compares nothing, runs in `Node.Init` (DN:132-135) before the ticker starts and before
the handlers are registered (DN:264-275): nobody can have sent that process a heartbeat or a vote that it handled, so
it belongs to start-up and is left out. Timers fire at any time. Client writes are frozen, so logs above index 0 are those the cluster
booted with. The peers' goroutines of one tick are independent, so a tick is a
step per peer.

### Replication

State. `node` holds for each server its log, LAST_INDEX_KEY, CommitIndex, LastApplied
and StateMachine; a value is known by the request that wrote it. `nextIndex` is the
leader's map, which begins with what an earlier leadership left (`InitNext`). `req` is the handler of each SET: whether it has reserved its index, is
waiting on its channel (with `count` and `sent`) or has answered. `job[r][p]` is the goroutine
that replicates r to p: about to send, in the call, back with a success or a
refusal, or about to send to the channel ("true", "false"; "late" when the channel has
been closed between its check and its send).

| code | actions |
|---|---|
| `HandlerClientRequest` on the leader (DN:752-830) | `Read`; `Reserve`, `PreCommit`; its collector: `Commit`, `CountTrue`, `CountFalse`, `Rollback`; `SendOnClosed` |
| `replication` (DN:580-658), `getPreLog` | `Send`, `Succeed`, `Backoff`, `Unreachable`, `GiveUp` |
| `HandlerAppendEntries` with entries (CO:120-271) | `Append`, `RefuseAppend` |
| heartbeats (DN:343-374, CO:144-173) | `HeartBeat`, `HandleBeat` |

The helpers follow the code where it is peculiar: `WriteAll` stores the padding of a
batch at index 0, `EveryOther` is the loop at CO:244-259 that advances twice a
round, `Remove` deletes one entry, `Advance` bounds CommitIndex by LAST_INDEX_KEY, `TermOnly`
is the branch a batch takes whose first entry is of index 0.

Abstractions. The leader and its term are fixed. `Send` reads the leader's log in one
step. The append handler is one step, for it runs under appendLock, and another
that finds it locked is refused (`Busy`). A heartbeat that is lost or refused is one that was
not sent, and one is on its way to a peer at a time. The messages of a channel are
consumed in any order: the goroutines that send them are concurrent. `copiedIndexs`
is never read and left out. PreLogTerm is only read with PrevLogIndex # 0.

### Storage

State. `mem` are the fields of the running process, with one peer's nextIndex; `disk` is LogModule's
database, `lock` its mutex, `file` the nodeStateStore. `req` is the handler of each SET, with its
replication to that peer in `copy`: between two attempts, in an attempt that has loaded a nextIndex, or
returned. `ticker` is the goroutine that stores the term entry of a leader, `app` the one
`HandlerAppendEntries` that has appendLock, and `exit` is exitHandle. `hist` is history.

| code | actions |
|---|---|
| `LogModule.Set` (LM:36-73) | `BeginSet`, `EndSet`, `DropSet`, called by `PreCommit`, `PutTermEntry`, `StoreEntry`, `NameEntry` |
| `Delete`, `DeleteOnStartIndex` (LM:103-139) | `Rollback`; `Cut`, `EndCut` |
| `HandlerClientRequest` (DN:771-826) | `Admit`, `Reserve`, `PreCommit`, `Acknowledge`, `Rollback` |
| `replication` (DN:580-658) | `Attempt`, `Replicated`, `BackOff`, `Overtaken`, `NoAnswer` |
| the joiner's nextIndex (DN:982, 1017) | `StoreJoiner` |
| an election won | `Lead`, `PutTermEntry` |
| `HandlerAppendEntries` (CO:120-271) | `HearBeat`, `HearTermEntry`, `HearEntries`; `StoreEntry`, `NameEntry`, `SkipHole`, `Cut`, `EndCut`, `Measure`, `Advance` |
| `exitHandle`, `Destroy`, `Persistence` (DN:684-718, 1066) | `Signal`, `CreateStore`, `WriteStore`, `Exit` |
| death, `Init`, `initState` | `Crash`, `Boot` |

nextIndex is what concurrent attempts make of it: `BackOff` writes the value that its attempt has loaded, less one, over
whatever was stored since, down to 0, and a membership change writes the CommitIndex of the joiner plus one.

A `Batch` is what a sender with any log may send: its first and last index, PrevLogIndex and PreLogTerm as
`getPreLog` finds them (the last entry that the sender has before the batch), the term of its first entry, which need not be
that of the sender, and the zero entries at its end. A hole that is inside the batch is found as the handler
goes through it (`SkipHole`), and so are the terms of its other entries (`StoreEntry`).

Abstractions. The peers are the environment: an append may carry any batch that ends in `Ends`, any
LeaderCommit of `Commits` and any term of `Terms` that is no lower. What peers answer a SET is a choice between `Acknowledge` and
`Rollback`, which needs every replication to have returned. `Overtaken` and `Follow` compare and assign CurrentTerm in one step, which
`Election` does not; `HearEntries` makes the two reads of the log (CO:187, 208) in the step in which it begins. The state machine and
LastApplied are not needed by the properties and left to `Replication`. A Put or Delete of rosedb is atomic and durable.

### ClientPath

State. That of `Roles`, and for each request the address the client is at (`next`), the
handlers that wait for one another (`chain`), the reply on its way back and what the client makes of
it (`told`; "dead" when its process has ended). `applied`, `kept`, `passed`, `unsent` are history.

| code | actions |
|---|---|
| `SendASetRequest` (RF:13-41), `kv set`, `kv get` | `Ask`, `NextAddr`, `GiveUp`, `Receive` |
| `HandlerClientRequest`, first test (DN:754) and deferred reply (DN:747) | `Serve`, `NotLeader`, `Overwrite` |
| `Redirect` (DN:1023-1034) | `Redirect`, `RedirectFails` |
| the request on a leader (DN:759-830) | `Apply`, `Confirm`, `Refuse` |
| `SendWithTimeout`'s Fatalf (`rpcClient.go:52`) | `CallerDies`, `ClientDies`; `AnswerLost`, `Crash`, `Boot` |
| tickers and consensus handlers | `TurnRoles`, any step of `Roles` |

A GET that finds nothing is answered as a failure, and one that finds something as a success;
"takes effect" means that it was read. A leader that refuses a request (`Refuse`), or dies while it
serves it (`Kill`), has not applied it, but peers may have, and keep it (`PeersMayKeep`, CO:238-259): that is `kept`. Replies carry no entry. State and LeaderAddr are read in two steps, between which
the server may begin to lead (`NotLeader`, `Redirect`). Whether a process that dies does so for its own reasons or for those
of another client's call makes no difference here, so one request at a time is enough.

### Membership

State. `role` says whether a process is down, inside `NewNodeNeedToDo`, or serving; `list` is
Config.PeerAddrs, `flag` is IsMemberChanging; `adds` are the calls of `HandlerMemberAdd` that have passed
the test of the flag, with the peer they are at, the count, and the call to that peer in `sync`; "done" is a success on its way
to the joiner.

| code | actions |
|---|---|
| `NewNodeNeedToDo` (DN:1036-1064) | `Ask`, `Receive`, the joiner's half of `Fail`, `JoinerDies` |
| `HandlerMemberAdd` (DN:932-994) | `Ask` (test), `Enter` (set), the loop: `SyncRefused`, `SyncDone`; `Succeed`, `Fail`, `ContactDies` |
| `HandlerMemberChangeSync` (DN:995-1022) | `SyncCheck` (test), `SyncTake` (set, list), `SyncDone` (reset) |
| `getPeerAddrsWithOutSelf` (DN:391-402) | `Peers`, `Panic` |
| death and `Init` (DN:110-135) | `Crash`, `Boot` |

`ConfiguredAssumption` is how the program is built: every list that is built in has the original servers
(`NodeBootstrap.go:25`), the original servers have one list, for it is a literal that the build flags do not set, and a joiner contacts one of them. So a list that a contact reads
never lacks the contact itself, and the handler, unlike a ticker, cannot panic. A joiner
adds nothing to its own list before it sends it: what it tells its peers is the list it began with. The nextIndex it gets is
`StoreJoiner` of `Storage`. `Succeed` is the contact's half; the joiner hears of it in `Receive`, and until then the contact may die
with the answer sent or unsent (`Broken`), take part in another change, or replace its list.

## 3. What the runs check

| run | instance | properties |
|---|---|---|
| `election` | 3 servers on unequal rebooted disks, 2 candidates, 2 elections, 1 heartbeat, 1 preemption | types, `TermsAreWon`, `HungOnlyByRefusal`, `LeadershipIsAnswered`, `TermFallsOnlyMidway`, `TermsSpec`, `RolesSpec` |
| `election_five` | 5 servers, so that Half is 2, 1 candidate, 2 lost RPCs, 1 crash, fairness | `HungOnlyByRefusal`, `LeadershipIsAnswered`, `RolesSpec`, `ElectionEnds` |
| `replication` | 2 peers, 2 SETs, 1 GET, unreachable peers | types, `EntryIdentity`, `FollowersBehind`, `LeaderKeepsAcked`, `AtomicStoreSpec` |
| `replication_pair` | 1 peer, perhaps deposed, 2 SETs, 1 heartbeat, a fresh or a stale nextIndex, fairness | `EntryIdentity`, `FollowersBehind`, `LeaderKeepsAcked`, `RequestAnswered` |
| `replication_five` | 4 peers, 1 SET, fairness | `HungOnlyByLateSuccess`, `RequestAnswered` |
| `storage` | 1 server, 2 SETs, 2 indices, 2 terms, 2 events: an append, an attempt, a joiner, an exit or a crash | types, `LastIsNewest`, `LastWasWritten`, `IndexReservedOnce`, `AckedIsStored`, `NextWithinCommit`, `CutIsComplete` |
| `client_path` | 3 servers, 2 addresses, a request of either kind of client, 4 turns of roles, 2 exits, fairness | types, `AppliedOnce`, `SuccessIsApplied`, `RefusedOnlyAtPeers`, `RedirectsEnd` |
| `membership` | 3 servers, 2 joiners, 2 starts each, 1 exit, fairness | types, `ChangesAgree`, `FlagIsHeld`, `JoinedIsKnown`, `JoinEnds` |

* `TermsAreWon`: CurrentTerm, term entries and RPCs only ever carry a term that some
  electionTask has won, or that was on a disk. `TermsSpec` says more: the terms of the
  cluster refine the clock of module `Terms`, in which a term is won only by the server that
  holds its predecessor.
* `TermFallsOnlyMidway`: a running node's term falls only when a handler or a goroutine goes on that was preempted
  between its comparison and its assignment, and falls to the term which that one brings. What is compared and assigned at one go never lowers it.
* `HungOnlyByRefusal`, `LeadershipIsAnswered`, `ElectionEnds`: the loops wait for messages that
  will come, and the only ones who can wait for ever are a candidate that somebody refused and a server that has no
  peer at all, whose loop never begins to count (DN:480).
* `RolesSpec`: whatever is lost, retried or rebooted, LeaderAddr is a server that has asked for votes,
  and nobody leads that has not. This is what `ClientPath` knows of an election.
* `EntryIdentity`: one index and one term name one entry, in every log and every append.
* `FollowersBehind`: peers advance CommitIndex only to indices the leader has reserved.
* `LeaderKeepsAcked`: what was acknowledged stays in the leader's log, whatever is rolled back.
* `AtomicStoreSpec`: the leader's requests refine the atomic store of module `AtomicStore`.
* `HungOnlyByLateSuccess`, `RequestAnswered`: a SET is answered unless its leader dies, or its
  last message is a success that comes too late to make half.
* `LastIsNewest`, `LastWasWritten`: LAST_INDEX_KEY names what was put last whenever nobody is in `Set`, and
  never what was not written, wherever the process dies.
* `IndexReservedOnce`: indices are reserved twice only where CommitIndex has fallen, in an append that takes
  LAST_INDEX_KEY for the end of the log or in a restart from a state that is old or gone.
* `NextWithinCommit`: nextIndex points at most one past CommitIndex, or past what a joiner was taken in with, until such an append has lowered
  CommitIndex below a SET; delayed backoffs and restarts from a stored pair of two moments do not break it.
* `AckedIsStored`: the precise list of what can take the entry of an acknowledged SET from the log of the server that
  acknowledged it.
* `CutIsComplete`: a truncation leaves only what was put while it ran.
* `AppliedOnce`, `SuccessIsApplied`, `RefusedOnlyAtPeers`, `RedirectsEnd`: a request takes effect at most once, at a leader or at
  the peers of one that did not; success means that a leader has applied it or that nobody could be reached; what was refused without a redirect is in no
  leader's state machine, though perhaps in those of peers; a client waits for ever only for a circle of LeaderAddrs.
* `JoinedIsKnown`, `ChangesAgree`, `FlagIsHeld`, `JoinEnds`: a joiner serves only when all that its contact knew have its
  list; lists differ only after changes that met, failed or were cut off, or at a server that a change left out; the flag always has a handler that will reset it;
  a joiner waits for ever only for a listed server that is down.

Each property has a mutant of the code's definition (`PROJECT.json`, "mutants") that it catches.

**Bounds.** `MaxTerm`, `MaxElections`, `MaxBeats`, `MaxLosses`, `MaxCrashes`, `MaxPreempted`, `Campaigners`, `MaxIndex`,
`Flaky`, `Terms`, `OwnTerms`, `Ends`, `Commits`, `MaxPads`, `Joins`, `MaxEvents`, `MaxStops`, `MaxHops`, `MaxTurns`, `MaxBoots` and the
sets of requests, clients and joiners
bound the runs; when they are used up the system stops, which is why deadlock is not checked.
Two elections are the fewest that compete; one heartbeat, preemption or crash can come at every moment of
them, and one preemption is enough for a term to fall. Three servers have Half = 1, five have Half = 2, so that a loop counts before it decides; two lost RPCs of
the four and a death leave a loop between deciding and ending. In `election` the third server is no candidate: with two
elections there are at most two, and the rebooted disks put every pair of servers on unequal footing. Two SETs of one key
are the fewest with a hole, a batch, an append out of order and a rollback under another request; one
peer is enough for all of those, two for peers that disagree. `storage` needs two indices for a batch and for a CommitIndex
that falls, two terms, of which appends carry the higher, for a conflict, and two events for each of the hazards it lists: an attempt and what
overtakes it, an append and the exit after it, a joiner and a backoff; a boot is none. One zero entry is the least that
overwrites the term entry. `client_path` needs four turns:
two candidates that follow each other, which is the shortest circle, a server that begins to lead after it was found not
to, and a dead leader take no more; two exits, so that a client finds none of its addresses, which need not be all servers; four hops are one more than there are servers, so the fourth handler on a way is already a revisit. `membership` needs two joiners that meet, and a second start for a joiner
that finds what its first try left. Runs for safety use the symmetry of servers and requests; those for liveness do not.

**Fairness.** `VoteFairSpec`: the RPC goroutines of each candidate's election keep being scheduled and a
call to a peer either reaches a handler or finds the peer down. `FairSpec` of `Replication`: goroutines are scheduled;
`GiveUp` is strongly fair because `replication` measures ten seconds since its first attempt, so an attempt that fails
again and again must meet that test in the end. Peers owe nothing: they may be out of reach at
every attempt. `FairSpec` of `ClientPath`: clients and handlers go on, and a leader answers; the last is `RequestAnswered` of `Replication`, with
its one exception, a collector that misses its end with more than three peers. Elections, crashes and restarts owe nothing.
`FairSpec` of `Membership`: a joiner keeps asking and a handler that runs goes on; no process has to restart.

## 4. Differences between the code and what is said of it

Four are shown by runs (kind "violation"; the findings quote the lines):

* `election_two_leaders`: two leaders of one term. A candidate asks with the term of its last
  entry and raises CurrentTerm only once it has won, when VotedFor is cleared; and whoever campaigns overwrites the VotedFor of its last vote. So a server
  that has voted for the winner of term 1 is still at term 0, votes for itself, and wins term 1 with the third server's vote.
  With three servers the winner has a majority each time.
* `replication_acked`: a peer with a conflicting entry deletes it and answers success without
  storing the new one; the client is told of success and no peer has its entry.
* `replication_skips`: a peer that takes a batch of two entries moves CommitIndex past both and applies the
  first alone, for the loop advances twice a round (CO:248 and 258, against CO:244).
* `client_redirect`: a redirected request that its leader has applied is answered with failure, for the
  deferred assignment of the zero reply replaces what Redirect has stored (DN:747, against `INode.go:46`).

Others were met while modelling. The models step as the code does, so they are part of every run:

* with an even number of servers, half of them is enough to lead (DN:489, against DN:479);
* a vote can be cast for a term that has become the lower one (CO:66-94, against CO:37), and an append or an answer may lower
  CurrentTerm in the same way (CO:127-142, DN:378-380, 462-463, 635-637);
* a retried term entry carries a fresh CurrentTerm and an old entry (DN:585, against DN:527), and the
  padding of a batch overwrites a term entry with term 0 (DN:597-604, CO:227);
* a batch whose first place is taken by the same entry is answered with success and its rest
  dropped (CO:219);
* a rollback deletes one entry and not what follows (DN:820, against DN:777);
* a peer with an empty log, or an append with PrevLogIndex 0, stores an entry with a gap before
  it (CO:186, against CO:197);
* LastApplied falls with LAST_INDEX_KEY (CO:242, LM:69, against DN:82), and so does CommitIndex, after which
  two requests share an index and the rollback of one deletes the acknowledged entry of the other (DN:772, 820);
* nextIndexs are not set anew when an election is won (DN:525-555, against DN:87 and 517): a leader goes on with
  what an earlier leadership or the stored state left;
* candidates that refuse one another listen for ever (DN:460, against CO:89, which has a new term
  begin): `HungOnlyByRefusal` and `ElectionEnds` except a refused candidate for this;
* LeaderCommit carries the index reserved last, so a peer applies an entry that then fails, and keeps it (DN:590, 772, against CO:226);
* `SendASetRequest` returns true when it reached no server (RF:40), and `kv` panics there (`get.go:30`, `set.go:30`);
* two membership changes can run at once (DN:933-936, against DN:68);
* a second joiner's built-in list drops the first, whose ticker panics (DN:133 and 393-397, against `README.md:8`); a joiner that
  restarts is in the list already, is not serving, and never gets in (DN:979, 1036); a synchronisation
  that fails half-way is not undone (DN:989);
* the boot term is that of LAST_INDEX_KEY's entry, which may be older than the term entry at index 0 (DN:129, against DN:519);
* a truncation deletes up to LAST_INDEX_KEY, which may not be the end, and not what is put meanwhile (LM:125, against CO:208);
* `os.Create` empties the node state before it is written anew, the pair that is stored is of no single moment, and what
  is acknowledged between the two reads and the exit is not in it (DN:691-718, 1066).

## 5. What is proved

Every safety invariant, every action property and every refinement that a run checks is also proved, for every
value of the constants: any number of servers, peers, requests, indices, terms, losses, crashes and joiners. The bounds
`MaxTerm`, `MaxElections` and so on are arbitrary naturals here. Each theorem is an invariant, or what follows from one
in a step, and `PTL`. What is assumed of the constants are the named assumptions of the modules, which TLC evaluates in every run.

| module | theorems | assumption |
|---|---|---|
| `ElectionProofs` | `ElectionTypeCorrect`, `ElectionTermsAreWon`, `ElectionImplementsTerms`, `ElectionTermFallsOnlyMidway` | `Election!ConstantAssumption` |
| `RolesProofs` | `ElectionNamesWhoAsked`, `ElectionImplementsRoles` | the same |
| `CountProofs` | `ElectionCountsAddUp`, `ElectionHungOnlyByRefusal`, `ElectionLeadershipIsAnswered` | the same |
| `ReplicationProofs` | `ReplicationTypeCorrect`, `ReplicationEntryIdentity`, `ReplicationFollowersBehind`, `ReplicationLeaderKeepsAcked`, `ReplicationImplementsAtomicStore`, `ReplicationHungOnlyByLateSuccess` | `Replication!ConstantAssumption`, `DisksAssumption` |
| `StorageProofs` | `StorageTypeCorrect`, `StorageLastIsNewest`, `StorageLastWasWritten`, `StorageIndexReservedOnce`, `StorageNextWithinCommit`, `StorageAckedIsStored`, `StorageCutIsComplete` | `Storage!ConstantAssumption` |
| `ClientPathProofs` | `ClientPathTypeCorrect`, `ClientPathTruthful`, `ClientPathAppliedOnce`, `ClientPathSuccessIsApplied`, `ClientPathRefusedOnlyAtPeers` | `ClientPath!ConstantAssumption` |
| `MembershipProofs` | `MembershipTypeCorrect`, `MembershipFlagIsHeld`, `MembershipJoinedIsKnown`, `MembershipChangesAgree` | `ConfiguredAssumption` |

### Election

`ConstantAssumption`: finitely many servers, and the disks are of the right type. `TypeOK` is inductive by itself.
`TermsAreWon` is inductive relative to it, and is the invariant that makes the refinement of `Terms` go through: a server that
takes a term from a call, a log or a boot takes a known one, so its step is `Learn`; `Win` is the only other
step. `TermFallsOnlyMidway` follows from `TypeOK` and one lemma for each group of actions that assign CurrentTerm: each takes a term that its guard has
just compared, or consumes a call that is "held" or "seen", which is a member of `Midway`.
The lemmas of the module say what becomes of a log after `SetTermEntry` and `BootTerm`, of
calls after `Answered`, and treat `Exit` once for its four callers.

`Roles` needs to know who may be named. `NamedInv` says it: a server that is in its election or leads runs and has asked for
votes, every LeaderAddr and every RPC names one that has asked, and an RPC whose caller is a server
has one that runs. The last is what a crash threatens: of the RPCs that a dead process has sent, only those that no
handler has taken are left, and without their caller. With it each action is a step of `Roles` or a stutter.

The two properties of the loops need a count. `CountInv` has the set `Out(s, kind)` of the peers whose RPC for this election is out,
and says that its size and the counter (`sent`, `received`) add up to the peers. It is inductive only with
`CallInv`, that a caller has one RPC of a kind for each peer and election (two answers could otherwise be one member
of the set), and with `LeadsOnce`, that no replication of an earlier leadership of the same election is left when
`becomeLeaderToDo` begins to count. The proof attempt found the exception of a cluster of one, in which `electionTask` has no
message to wait for, and `HungOnlyByRefusal` names it now; the runs have no such cluster.

### Replication

The assumptions are `ConstantAssumption` (types, finite sets, at least one peer) and
`DisksAssumption` (when the term begins, the entries above index 0 are of earlier requests and
earlier terms, and one index and term name one of them; a state machine holds entries of earlier
requests, each under its key). The model starts after the election: that two servers may
lead one term is the business of `Election`, which refutes it, and a second leader of the same
term is excluded here by the constants. `TypeOK` is inductive by itself; the other properties are
not, since a log does not say where its entries came from. `IInv` adds what is missing:

* `ReservedOnce`: an index belongs to the one request that raised CommitIndex to it, and
  CommitIndex never falls below it, not even when the request is rolled back;
* `JobsReserved`: only goroutines of such a request are running;
* `KnownCommits`: no LeaderCommit on its way is above the leader's CommitIndex;
* `Origin`: every entry, stored or sent, was on an initial disk at that index or is that of
  the request which reserved the index.

`Origin` and `ReservedOnce` give `EntryIdentity`; `ReservedOnce` gives `LeaderKeepsAcked`, because a
rollback deletes its own request's index alone; `KnownCommits` gives `FollowersBehind`. The refinement
maps `Reserve` to a call, `Commit` to a SET that takes effect, `Rollback` to one that fails, `Read`
to a read, and all other steps to a stutter. `CountInv` carries `HungOnlyByLateSuccess`: while a
request waits, `sent` is the number of its goroutines that have ended.

### Storage

The lock of `LogModule.Set` is all that keeps writers apart, and a truncation does not take it. The invariant
`StorageInv` has a part for each question:

* `KeyIsBehind`: who is between the two Puts of `Set` holds the lock, and LAST_INDEX_KEY is what was put last, or one
  Put behind while the lock is held. It is `LastIsNewest` when the lock is free.
* `KeyIsWritten`: the key and the index of the Put under way were written; a death between the two Puts leaves
  an entry without the key and never the reverse. It gives `LastWasWritten`.
* `IndexIsBelow`: an index above CommitIndex was reserved before CommitIndex fell, in an append or a restart; otherwise the next SET takes
  a new one. It gives `IndexReservedOnce`.
* `NextFromSet`: nextIndex in the process, in every attempt that has loaded it, in the state that is being read for a file and in the file is at most
  one past an index that was reserved or with which the peer has joined. This is closed downwards (`FromSet`), so a backoff to 0 keeps it.
* `NextIsBelow`: where CommitIndex has not fallen below a SET, each of these is within its CommitIndex, or what a joiner was told (`Fits`), the pair in the
  file included, whose nextIndex was read first. It gives `NextWithinCommit`.
* `PutIsStored`: from its Put on, the entry of a SET is there, but for the causes that `hist.unsaved` lists and a second
  SET of the same index. It gives `AckedIsStored`, which does not speak of the time before the acknowledgement.
* `CutSoFar`: below the index at which a truncation is, there is only what was put since. It gives `CutIsComplete`, the
  action property of its last step.

### ClientPath

`ConstantAssumption` says that a client knows at least one address. The state of a request is the chain of handlers that it has
passed through, so its invariant `PathInv` reads along it: all handlers but the last wait (`OthersWait`); the
request was applied once if the last one has applied it, not at all if it is still looking, nor kept by peers while its leader serves it and lives, and was redirected exactly if there is another
handler or the last one is back from one (`OnItsWay`); with the chain gone, the answer agrees with what was applied
(`AtItsClient`); and the client is told what it was answered, unless nobody could be reached
(`ToldTheReply`). Every handler below the last answers failure whatever it hears (`Overwrite`): that is where `passed`
is needed, and why `RefusedOnlyAtPeers` is about requests that were not redirected; of the others `client_redirect` shows the opposite. `applied` and
`kept` never both count, for a handler that refuses has not applied. A process that dies leaves its handlers in the chain, dead, so the
invariant holds wherever it happens. The
roles are those of `Roles`, whatever it does: `ElectionImplementsRoles` says that an election does nothing else.

### Membership

`ConfiguredAssumption` is justified above. `TypeOK` needs three parts beside it: `Runs`, that a handler's
process runs; `Counted`, that the peers counted have taken the list (all of those passed if none was skipped, and all when a success is on its way); and `ListInv`, that a list
has each server once and no original server is ever missing, so that `HandlerMemberAdd` finds itself in its list
and `Peers` is what `getPeerAddrsWithOutSelf` returns. `FlagIsHeld` is then inductive, although a handler that ends
resets the flag of another: the flag may be down while a handler runs, never up with none. `JoinedIsKnown` is
`Counted` at the step in which the joiner hears of its success.

`ChangesAgree` needs `OneChange`: without an accident there is one change at a time, the servers that it has reached have its
list, and the others had one before; once it has succeeded there are no others. The proof attempt refuted the property as it stood, that all servers
that serve agree: a joiner's list has the original servers and itself, so a change leaves an earlier joiner out, and the
next one passes it by, which leaves it with a list that nobody shares. It is about to panic (section 4),
and `ChangesAgree` leaves it aside now. It takes a third joiner to see this, which the run, with its second starts and its
exit, has no room for; the theorem is for any number.

### Only model-checked

Liveness, under fairness: `ElectionEnds`, `RequestAnswered`, `RedirectsEnd`, `JoinEnds`. They are out of the provers' reach, as is
ENABLED. The four violations are TLC's counterexamples. No module that the proofs use has a RECURSIVE operator, and none
of the proofs rests on an induction over data.

## 6. Plan

1. The modules of section 2, their runs, and the proofs of section 5: done.
2. A composition of `Replication` with a term that changes in the middle of a request on a cluster whose
   peers crash. `Storage` has the server's side of it, `Election` the cluster's.
3. Stronger refinements: `Storage`'s server as an implementation of the leader of `Replication` while its term lasts.

## 7. Not modelled

* The composition of plan item 2: replication on a cluster in which the term changes under a request. Its parts are in
  `Election`, `Replication` and `Storage`; which of their steps meet in one run of a whole cluster is not checked.
* The benchmark handlers: one repeats `HandlerClientRequest`, the other writes without replication; nothing registers
  or calls them outside commented code.
* Output and arguments of the command line, the load generator, wiring and logging: no state of the protocol.
* The codec and transport of net/rpc: a call is answered once, or the connection breaks.
* rosedb: a map whose Put and Delete are atomic. An error it may return is modelled only where the program brings it about, by
  closing the database before the process ends.
