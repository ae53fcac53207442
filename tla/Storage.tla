------------------------------- MODULE Storage -------------------------------
(***************************************************************************)
(* What one server of go-raftkv keeps on disk, at the grain of single      *)
(* reads and writes: LogModule (an entry per index, and LAST_INDEX_KEY),   *)
(* and the nodeStateStore that Persistence writes on a signal and that     *)
(* initState reads.  Three goroutines write at once: client requests of a  *)
(* server that leads, or led when they began; the ticker, which stores the *)
(* term entry; and the one HandlerAppendEntries that has appendLock.  The  *)
(* process may die between any two writes.  The peers are the environment. *)
(***************************************************************************)
EXTENDS Integers, Sequences

CONSTANTS
    Request,     \* SETs of clients
    Other,       \* what wrote the entries of other leaders
    None,        \* no request, no entry, no holder of a lock, no stored state
    MaxIndex,    \* bound: the highest index of the log
    MaxTerm,     \* bound: the highest term
    Terms,       \* bound: the terms of the leaders that append, or refuse
    OwnTerms,    \* bound: the terms of the entries they send
    Ends,        \* bound: the last indices of the batches they send
    MaxPads,     \* bound: holes of the sender's log outside of a batch
    Commits,     \* bound: the LeaderCommits that appends carry
    Joins,       \* bound: the CommitIndexs with which the peer joins
    MaxEvents    \* bound: appends that get the appendLock, attempts of
                 \* replication, changes of members and exits of the process

VARIABLES
    mem,      \* the fields of Node: State, CurrentTerm, CommitIndex, a nextIndex
    disk,     \* LogModule's database
    file,     \* nodeStateStore; None when it is missing or empty
    lock,     \* LogModule.lock
    req,      \* the handler of each SET
    ticker,   \* where becomeLeaderToDo is in storing its term entry
    app,      \* HandlerAppendEntries
    exit,     \* exitHandle, with what Persistence has read
    events,   \* what was used of MaxEvents
    hist      \* history, see Hist

vars == <<mem, disk, file, lock, req, ticker, app, exit, events, hist>>

Index == 0..MaxIndex
Absent == -1
Ticker == "ticker"
Appender == "append"

\* The index an entry is stored under is left out.
Entry == [term : Nat, req : Request \cup {Other, None}]
Disk == [log : [Index -> Entry \cup {None}], last : Index \cup {Absent}]

\* next: the nextIndex of one peer.
NextIndex == 0..MaxIndex + 1
Stored == [commit : Index, next : NextIndex]
Mem == [up : BOOLEAN, leading : BOOLEAN, term : Nat, commit : Index, next : NextIndex]

\* live: the process that runs the handler has not ended.  copy: replication
\* to the peer, which is between two attempts, or has loaded a nextIndex and
\* waits for the answer, or has returned.
Returned == -2
Req == [phase : {"new", "admitted", "reserved", "putting", "sent", "ok", "failed"},
        live : BOOLEAN, index : Index, term : Nat,
        copy : NextIndex \cup {Absent, Returned}]

\* lo, hi: the entries of a batch, or the places to be deleted.  at: the one
\* at hand.  own: the term of the entry that is being put.  pads: the zero
\* entries that follow the batch.  commit: LeaderCommit, and then the index to
\* be stored in CommitIndex.
App == [phase : {"idle", "entry", "naming", "storing", "putting", "cutting", "leaving",
                 "advancing"},
        lo : Index, at : NextIndex, hi : Index, own : Nat, pads : Nat, commit : Nat]

\* prev, prevTerm: PrevLogIndex and PreLogTerm.  first: the term of the entry
\* of lo.
Batch == [term : Terms, prev : Index, prevTerm : OwnTerms, lo : Index, first : OwnTerms,
          hi : Ends, pads : 0..MaxPads, commit : Commits]

Exiting == [phase : {"none", "reading", "created", "closed"}, state : Stored]

\* newest: the index put last.  cleared: indices whose entry was deleted last.
\* sunk, lost: SETs below whose index CommitIndex has fallen, by an advance or
\* by a restart.  unsaved: SETs that Set has dropped, or at whose entry an
\* append has put or deleted.  since: indices put while an append deletes.
\* told: the highest CommitIndex with which the peer has joined.
Hist == [newest : Index \cup {Absent}, cleared : SUBSET Index, sunk : SUBSET Request,
         lost : SUBSET Request, unsaved : SUBSET Request, since : SUBSET Index,
         told : Index \cup {Absent}]

ASSUME ConstantAssumption ==
    /\ MaxIndex \in Nat \ {0} /\ Ends \subseteq Index /\ Joins \subseteq Index
    /\ Commits \subseteq Nat /\ Terms \subseteq Nat \ {0} /\ OwnTerms \subseteq Nat
    /\ {MaxPads, MaxTerm, MaxEvents} \subseteq Nat
    /\ Other \notin Request /\ Other # None
    /\ None \notin Request \cup Entry \cup Stored \cup {Ticker, Appender}
    /\ Request \cap {Ticker, Appender} = {}

\* One more event.
Event == events < MaxEvents /\ events' = events + 1

-----------------------------------------------------------------------------
(* LogModule *)

\* GetLastIndex: 0 when the key is absent.
GetLastIndex(d) == IF d.last = Absent THEN 0 ELSE d.last

\* Mutant: the key first.
KeyFirst == <<"key", "entry">>

\* The two Puts of Set, in their order.
Puts == <<"entry", "key">>

\* A term entry becomes LAST_INDEX_KEY only in a log that holds nothing else.
LastAfter(last, i) == IF i # 0 \/ last \in {Absent, 0} THEN i ELSE last

Put(d, what, i, e) ==
    IF what = "entry" THEN [d EXCEPT !.log[i] = e]
    ELSE [d EXCEPT !.last = LastAfter(@, i)]

\* Mutant: nobody is kept out.
NeverLocked(who) == FALSE

\* TryLock fails.
Locked(who) == lock \notin {None, who}

\* The database is closed just before the process ends: Put fails.
Open == exit.phase # "closed"

\* The SET whose entry is at an index.
SetsAt(i) == {r \in Request : disk.log[i] # None /\ disk.log[i].req = r}

\* Set has the lock and puts the entry.
BeginSet(who, i, e) ==
    /\ mem.up /\ Open /\ ~Locked(who)
    /\ lock' = who
    /\ disk' = Put(disk, Puts[1], i, e)
    /\ hist' = [hist EXCEPT !.newest = LastAfter(@, i), !.cleared = @ \ {i},
                            !.since = IF app.phase = "cutting" THEN @ \cup {i} ELSE @,
                            !.unsaved = IF who = Appender THEN @ \cup SetsAt(i) ELSE @]

\* The second Put; when it fails the entry is there and the key is not.
EndSet(who, i, e) ==
    /\ mem.up /\ lock' = None
    /\ IF Open THEN disk' = Put(disk, Puts[2], i, e) /\ UNCHANGED hist
       ELSE UNCHANGED disk /\ hist' = [hist EXCEPT !.newest = disk.last]

\* Set returns without a write, and says so only to the log file.
DropSet(who) ==
    /\ mem.up /\ (Locked(who) \/ ~Open)
    /\ UNCHANGED <<disk, lock>>

-----------------------------------------------------------------------------
(* A SET, on a server that leads or led when it began *)

EntryOf(r) == [term |-> req[r].term, req |-> r]
At(r, phases) == req[r].live /\ req[r].phase \in phases
To(r, phase) == req' = [req EXCEPT ![r].phase = phase]

\* Mutant: the index is the one after LAST_INDEX_KEY.
NextOfLog(commit) == GetLastIndex(disk) + 1

\* State is read once, as the handler begins.
Admit(r) ==
    /\ mem.up /\ mem.leading /\ req[r].phase = "new"
    /\ req' = [req EXCEPT ![r].phase = "admitted", ![r].live = TRUE]
    /\ UNCHANGED <<mem, disk, file, lock, ticker, app, exit, events, hist>>

\* CommitIndex is raised to reserve an index.
NextOf(commit) == commit + 1

Reserve(r) ==
    LET i == NextOf(mem.commit) IN
    /\ At(r, {"admitted"})
    /\ i <= MaxIndex
    /\ mem' = [mem EXCEPT !.commit = i]
    /\ req' = [req EXCEPT ![r] = [phase |-> "reserved", live |-> TRUE, index |-> i,
                                  term |-> mem.term, copy |-> Absent]]
    /\ UNCHANGED <<disk, file, lock, ticker, app, exit, events, hist>>

PreCommit(r) ==
    /\ \/ /\ At(r, {"reserved"})
          /\ BeginSet(r, req[r].index, EntryOf(r)) /\ To(r, "putting")
       \/ /\ At(r, {"putting"})
          /\ EndSet(r, req[r].index, EntryOf(r)) /\ To(r, "sent")
       \/ /\ At(r, {"reserved"})
          /\ DropSet(r) /\ To(r, "sent")
          /\ hist' = [hist EXCEPT !.unsaved = @ \cup {r}]
    /\ UNCHANGED <<mem, file, ticker, app, exit, events>>

\* Half of the peers have it: the client is told, whatever the server is now.
Acknowledge(r) ==
    /\ At(r, {"sent"})
    /\ To(r, "ok")
    /\ UNCHANGED <<mem, disk, file, lock, ticker, app, exit, events, hist>>

\* replication to the peer that nextIndex is for; it outlives its request.
Copying(r) == At(r, {"sent", "ok"})
CopyTo(r, c) == req' = [req EXCEPT ![r].copy = c]

\* An attempt loads nextIndex, and is sent.
Attempt(r) ==
    /\ Copying(r) /\ req[r].copy = Absent
    /\ Event /\ CopyTo(r, mem.next)
    /\ UNCHANGED <<mem, disk, file, lock, ticker, app, exit, hist>>

\* The peer has it.
Replicated(r) ==
    /\ Copying(r) /\ req[r].copy \in NextIndex
    /\ mem' = [mem EXCEPT !.next = req[r].index + 1]
    /\ CopyTo(r, Returned)
    /\ UNCHANGED <<disk, file, lock, ticker, app, exit, events, hist>>

\* Mutant: 0 is no exception.
BackFromAny(n) == n - 1

BackFrom(n) == IF n = 0 THEN 0 ELSE n - 1

\* The peer refuses it for what precedes it: the nextIndex that the attempt
\* has loaded is reduced, whatever others have made of it since.
BackOff(r) ==
    /\ Copying(r) /\ req[r].copy \in NextIndex
    /\ mem' = [mem EXCEPT !.next = BackFrom(req[r].copy)]
    /\ CopyTo(r, Absent)
    /\ UNCHANGED <<disk, file, lock, ticker, app, exit, events, hist>>

\* The peer is at a higher term.
Overtaken(r, t) ==
    /\ Copying(r) /\ req[r].copy \in NextIndex /\ t > mem.term
    /\ mem' = [mem EXCEPT !.term = t, !.leading = FALSE]
    /\ CopyTo(r, Returned)
    /\ UNCHANGED <<disk, file, lock, ticker, app, exit, events, hist>>

\* There is no answer: another attempt, or ten seconds have passed.
NoAnswer(r) ==
    /\ Copying(r) /\ req[r].copy \in NextIndex
    /\ \E c \in {Absent, Returned} : CopyTo(r, c)
    /\ UNCHANGED <<mem, disk, file, lock, ticker, app, exit, events, hist>>

\* HandlerMemberChangeSync and HandlerMemberAdd: the peer joins at c.
StoreJoiner(c) ==
    /\ mem.up /\ Event
    /\ mem' = [mem EXCEPT !.next = c + 1]
    /\ hist' = [hist EXCEPT !.told = IF c > @ THEN c ELSE @]
    /\ UNCHANGED <<disk, file, lock, req, ticker, app, exit>>

\* Mutant: what follows goes too, as the comment of the code says.
DeleteFrom(d, i) == [d EXCEPT !.log = [h \in Index |-> IF i <= h THEN None ELSE @[h]]]

\* Delete: one entry, without the lock.
Delete(d, i) == [d EXCEPT !.log[i] = None]

\* Every replication has returned.
Rollback(r) ==
    LET i == req[r].index IN
    /\ At(r, {"sent"}) /\ req[r].copy = Returned
    /\ disk' = IF Open THEN Delete(disk, i) ELSE disk
    /\ To(r, "failed")
    /\ hist' = [hist EXCEPT !.cleared = @ \cup {i}]
    /\ UNCHANGED <<mem, file, lock, ticker, app, exit, events>>

-----------------------------------------------------------------------------
(* The ticker: an election is won *)

Lead ==
    /\ mem.up /\ ~mem.leading /\ ticker = "idle"
    /\ mem.term < MaxTerm
    /\ mem' = [mem EXCEPT !.leading = TRUE, !.term = @ + 1]
    /\ ticker' = "entry"
    /\ UNCHANGED <<disk, file, lock, req, app, exit, events, hist>>

\* The term entry carries CurrentTerm, which an append may have raised.
PutTermEntry ==
    LET e == [term |-> mem.term, req |-> None] IN
    /\ \/ ticker = "entry" /\ BeginSet(Ticker, 0, e) /\ ticker' = "putting"
       \/ ticker = "putting" /\ EndSet(Ticker, 0, e) /\ ticker' = "idle"
       \/ ticker = "entry" /\ DropSet(Ticker) /\ ticker' = "idle" /\ UNCHANGED hist
    /\ UNCHANGED <<mem, file, req, app, exit, events>>

-----------------------------------------------------------------------------
(* HandlerAppendEntries of a leader whose term is no lower *)

NoAppend == [phase |-> "idle", lo |-> 0, at |-> 0, hi |-> 0, own |-> 0, pads |-> 0,
             commit |-> 0]

\* The handler follows the sender and goes on with k.
Follow(t, k) ==
    /\ mem.up /\ app.phase = "idle"
    /\ Event
    /\ t >= mem.term
    /\ mem' = [mem EXCEPT !.leading = FALSE, !.term = t]
    /\ app' = k
    /\ UNCHANGED <<disk, file, lock, req, ticker, exit, hist>>

HearBeat(t, commit) ==
    Follow(t, [NoAppend EXCEPT !.phase = "leaving", !.commit = commit])

HearTermEntry(t) == Follow(t, [NoAppend EXCEPT !.phase = "entry"])

\* What replication sends: the entries from nextIndex on that the sender has,
\* and for each that it does not have a zero entry at the end; prev is the
\* index of the last one before them, 0 when there is none.  One entry of index
\* 0 alone is a term entry.
Sendable(b) ==
    /\ b.lo <= b.hi
    /\ b.prev < b.lo \/ b.prev = 0
    /\ b.hi = 0 => b.pads > 0

\* The log does not hold the entry that precedes the batch.
Refuses(b) ==
    /\ GetLastIndex(disk) # 0 /\ b.prev # 0
    /\ disk.log[b.prev] = None \/ disk.log[b.prev].term # b.prevTerm

\* An entry behind prev: the tail goes when its term is another, and it counts
\* as stored when it is not.
HearEntries(b) ==
    LET old == disk.log[b.prev + 1]
        store == [phase |-> "storing", lo |-> b.lo, at |-> b.lo, hi |-> b.hi, own |-> 0,
                  pads |-> b.pads, commit |-> b.commit]
        cut == [NoAppend EXCEPT !.phase = "cutting", !.lo = b.prev + 1, !.at = b.prev + 1,
                                !.hi = GetLastIndex(disk)]
    IN
    /\ Sendable(b)
    /\ Follow(b.term, IF Refuses(b) THEN NoAppend
                      ELSE IF b.lo = 0 \/ old = None THEN store
                      ELSE IF old.term # b.first THEN cut
                      ELSE NoAppend)

\* The entry at hand, and what remains after it.
Padding == app.at > app.hi
Place == IF Padding THEN 0 ELSE app.at
TermsOfEntry == IF Padding THEN {0} ELSE IF app.at = 0 THEN OwnTerms \cup {0} ELSE OwnTerms
EntryAt(i, t) == [term |-> t, req |-> IF i = 0 THEN None ELSE Other]
Rest ==
    IF app.phase \in {"entry", "naming"} THEN NoAppend
    ELSE IF Padding THEN [app EXCEPT !.phase = "storing", !.own = 0, !.pads = @ - 1]
    ELSE [app EXCEPT !.phase = "storing", !.own = 0, !.at = @ + 1]

\* Set of each entry in turn; a Set that is dropped leaves a hole.
StoreEntry ==
    /\ app.phase = "entry" \/ (app.phase = "storing" /\ (~Padding \/ app.pads > 0))
    /\ \/ \E t \in TermsOfEntry :
             /\ BeginSet(Appender, Place, EntryAt(Place, t))
             /\ app' = [app EXCEPT !.own = t,
                                   !.phase = IF @ = "entry" THEN "naming" ELSE "putting"]
       \/ DropSet(Appender) /\ app' = Rest /\ UNCHANGED hist
    /\ UNCHANGED <<mem, file, req, ticker, exit, events>>

NameEntry ==
    /\ app.phase \in {"naming", "putting"}
    /\ EndSet(Appender, Place, EntryAt(Place, app.own))
    /\ app' = Rest
    /\ UNCHANGED <<mem, file, req, ticker, exit, events>>

\* The sender's log has a hole between the first and the last entry.
SkipHole ==
    /\ mem.up /\ app.phase = "storing" /\ app.lo < app.at /\ app.at < app.hi
    /\ app' = [app EXCEPT !.at = @ + 1, !.pads = @ + 1]
    /\ UNCHANGED <<mem, disk, file, lock, req, ticker, exit, events, hist>>

\* Mutant: one place too few.
CutBefore(i) == i < app.hi

\* index <= endIndex, which was read before the first deletion.
CutGoesOn(i) == i <= app.hi

\* DeleteOnStartIndex: one deletion, without LogModule's lock.
Cut ==
    /\ mem.up /\ app.phase = "cutting" /\ CutGoesOn(app.at)
    /\ Open
    /\ disk' = Delete(disk, app.at)
    /\ app' = [app EXCEPT !.at = @ + 1]
    /\ hist' = [hist EXCEPT !.cleared = @ \cup {app.at}, !.since = @ \ {app.at},
                            !.unsaved = @ \cup SetsAt(app.at)]
    /\ UNCHANGED <<mem, file, lock, req, ticker, exit, events>>

\* The end of an append: one that has stored entries follows once more.
Leave(commit) ==
    /\ mem' = [mem EXCEPT !.commit = commit, !.leading = @ /\ app.at = 0]
    /\ app' = NoAppend

\* LeaderCommit is compared with CommitIndex, and LAST_INDEX_KEY is read.
Measure ==
    LET last == GetLastIndex(disk) IN
    /\ mem.up
    /\ app.phase = "leaving" \/ (app.phase = "storing" /\ Padding /\ app.pads = 0)
    /\ IF app.commit > mem.commit
       THEN /\ app' = [app EXCEPT !.phase = "advancing",
                                  !.commit = IF @ < last THEN @ ELSE last]
            /\ UNCHANGED mem
       ELSE Leave(mem.commit)
    /\ UNCHANGED <<disk, file, lock, req, ticker, exit, events, hist>>

\* The SETs whose index is above a CommitIndex of c.
Above(c) == {r \in Request : req[r].index > c}

\* CommitIndex is stored, whatever a request has made of it since.
Advance ==
    /\ mem.up /\ app.phase = "advancing"
    /\ Leave(app.commit)
    /\ hist' = [hist EXCEPT !.sunk = @ \cup Above(app.commit)]
    /\ UNCHANGED <<disk, file, lock, req, ticker, exit, events>>

\* The tail is deleted, or the database is closed.
EndCut ==
    /\ mem.up /\ app.phase = "cutting"
    /\ ~CutGoesOn(app.at) \/ ~Open
    /\ app' = NoAppend
    /\ hist' = [hist EXCEPT !.since = {}]
    /\ UNCHANGED <<mem, disk, file, lock, req, ticker, exit, events>>

-----------------------------------------------------------------------------
(* exitHandle, death and boot *)

\* What a missing or undecodable file leaves; nextIndexs of a peer is 1 then.
Zero == [commit |-> 0, next |-> 1]
Running == [phase |-> "none", state |-> Zero]

\* Mutant: CommitIndex first.
CommitFirst == <<"commit", "next">>

\* What Persistence reads, in its order.
Reads == <<"next", "commit">>

ReadState(s, what) ==
    IF what = "next" THEN [s EXCEPT !.next = mem.next] ELSE [s EXCEPT !.commit = mem.commit]

\* The handlers go on while the state is stored.
Exits(from, to, state, newFile) ==
    /\ mem.up /\ exit.phase = from
    /\ exit' = [phase |-> to, state |-> state]
    /\ file' = newFile
    /\ UNCHANGED <<mem, disk, lock, req, ticker, app, hist>>

Signal == Event /\ Exits("none", "reading", ReadState(Zero, Reads[1]), file)
\* os.Create empties the file, Encode fills it.
CreateStore ==
    Exits("reading", "created", ReadState(exit.state, Reads[2]), None) /\ UNCHANGED events
\* Then LogModule.Destroy closes the database.
WriteStore == Exits("created", "closed", Zero, exit.state) /\ UNCHANGED events

\* The process ends, and with it every goroutine.
Die ==
    /\ mem' = [up |-> FALSE, leading |-> FALSE, term |-> 0, commit |-> 0, next |-> 1]
    /\ lock' = None
    /\ req' = [r \in Request |->
                 [req[r] EXCEPT !.live = FALSE, !.copy = Absent,
                                !.phase = IF @ \in {"new", "ok"} THEN @ ELSE "failed"]]
    /\ ticker' = "idle" /\ app' = NoAppend /\ exit' = Running
    /\ hist' = [hist EXCEPT !.newest = disk.last, !.since = {}]
    /\ UNCHANGED <<disk, file>>

Exit == mem.up /\ exit.phase = "closed" /\ Die /\ UNCHANGED events

\* An exit that a signal has begun is no further event.
Crash ==
    /\ mem.up /\ Die
    /\ IF exit.phase = "none" THEN Event ELSE UNCHANGED events

\* The term of the entry that LAST_INDEX_KEY names, 0 when there is none.
BootTerm(d) ==
    IF d.last # Absent /\ d.log[d.last] # None THEN d.log[d.last].term ELSE 0

Boot ==
    LET s == IF file = None THEN Zero ELSE file IN
    /\ ~mem.up
    /\ mem' = [up |-> TRUE, leading |-> FALSE, term |-> BootTerm(disk),
               commit |-> s.commit, next |-> s.next]
    /\ hist' = [hist EXCEPT !.lost = @ \cup Above(s.commit)]
    /\ UNCHANGED <<disk, file, lock, req, ticker, app, exit, events>>

-----------------------------------------------------------------------------
Init ==
    /\ mem = [up |-> TRUE, leading |-> FALSE, term |-> 0, commit |-> 0, next |-> 1]
    /\ disk = [log |-> [i \in Index |-> None], last |-> Absent]
    /\ file = None
    /\ lock = None
    /\ req = [r \in Request |-> [phase |-> "new", live |-> FALSE, index |-> 0, term |-> 0,
                                copy |-> Absent]]
    /\ ticker = "idle"
    /\ app = NoAppend
    /\ exit = Running
    /\ events = 0
    /\ hist = [newest |-> Absent, cleared |-> {}, sunk |-> {}, lost |-> {},
               unsaved |-> {}, since |-> {}, told |-> Absent]

HandleSet ==
    \E r \in Request : \/ Admit(r) \/ Reserve(r) \/ PreCommit(r) \/ Acknowledge(r)
                       \/ Rollback(r)

Replicate ==
    \E r \in Request : \/ Attempt(r) \/ Replicated(r) \/ BackOff(r) \/ NoAnswer(r)
                       \/ \E t \in Terms : Overtaken(r, t)

HandleAppend ==
    \/ \E t \in Terms : \/ HearTermEntry(t)
                        \/ \E c \in Commits : HearBeat(t, c)
    \/ \E b \in Batch : HearEntries(b)
    \/ SkipHole \/ StoreEntry \/ NameEntry \/ Cut \/ EndCut \/ Measure \/ Advance

Shutdown == Signal \/ CreateStore \/ WriteStore \/ Exit

Next ==
    \/ HandleSet \/ Replicate \/ Lead \/ PutTermEntry \/ HandleAppend
    \/ \E c \in Joins : StoreJoiner(c)
    \/ Shutdown \/ Crash \/ Boot

Spec == Init /\ [][Next]_vars

-----------------------------------------------------------------------------
(* Properties *)

TypeOK ==
    /\ mem \in Mem
    /\ disk \in Disk
    /\ file \in Stored \cup {None}
    /\ lock \in Request \cup {Ticker, Appender, None}
    /\ req \in [Request -> Req]
    /\ ticker \in {"idle", "entry", "putting"}
    /\ app \in App
    /\ exit \in Exiting
    /\ events \in Nat
    /\ hist \in Hist

\* LAST_INDEX_KEY names the entry that was put last, whenever nobody is in Set:
\* the two Puts of a request, of the term entry and of an append never mix,
\* because TryLock (logmodule.go:42) keeps all but one out.
LastIsNewest == lock = None => disk.last = hist.newest

\* The index that LAST_INDEX_KEY names holds an entry, or held one that a
\* rollback or a truncation deleted: wherever the process dies, the key is
\* never ahead of the log, for Set puts it after the entry (logmodule.go:63-69).
LastWasWritten ==
    disk.last # Absent /\ disk.log[disk.last] = None => disk.last \in hist.cleared

\* Two SETs get one index only when CommitIndex has fallen below it between
\* them: by an append that took LAST_INDEX_KEY for the end of the log, or by a
\* restart from a state that is older, or gone (defaultNode.go:691, 772).
IndexReservedOnce ==
    \A r, q \in Request :
        r # q /\ req[r].index # 0 /\ req[r].index = req[q].index
            => {r, q} \cap (hist.sunk \cup hist.lost) # {}

\* A client was told of success: its entry is where it was reserved, over any
\* later rollback, crash and restart, unless Set had dropped it, an append has
\* stored or deleted at its index, or its index was reserved again.
AckedIsStored ==
    \A r \in Request :
        req[r].phase = "ok" /\ r \notin hist.unsaved
        /\ (\A q \in Request \ {r} : req[q].index # req[r].index)
            => disk.log[req[r].index] = EntryOf(r)

\* nextIndex points at most to the place after CommitIndex, or to where a
\* change of the members has put it (defaultNode.go:982, 1017), in a running
\* process or in one that came back from a stored state: Persistence reads
\* nextIndexs before CommitIndex while requests go on (defaultNode.go:691-703).
\* An advance that lowers CommitIndex below a SET breaks it.
NextWithinCommit ==
    mem.up /\ hist.sunk = {} => mem.next <= mem.commit + 1 \/ mem.next <= hist.told + 1

\* When DeleteOnStartIndex returns, every entry left between its start and the
\* end it has read was put meanwhile by a request that was still in Set: the
\* loop shares no lock with Set (logmodule.go:123-134).
CutIsComplete ==
    [][app.phase = "cutting" /\ app'.phase = "idle" /\ Open /\ mem'.up =>
          \A i \in app.lo..app.hi : disk.log[i] = None \/ i \in hist.since]_vars
=============================================================================
