---------------------------- MODULE StorageProofs ----------------------------
(***************************************************************************)
(* Storage: type correctness, and what a server keeps on disk whoever      *)
(* writes, and wherever its process dies: LAST_INDEX_KEY, the indices that *)
(* are reserved, the entries that clients were told of, the stored         *)
(* nextIndex and the tail that an append has cut.                          *)
(***************************************************************************)
EXTENDS Storage, TLAPS

\* An append puts no more zero entries than it has; CommitIndex stays in the log.
AppendWithin ==
    /\ app.phase = "putting" /\ Padding => app.pads > 0
    /\ app.phase = "advancing" => app.commit \in Index

\* A SET has an index once it is reserved; its handler lives and dies with the process.
SetWithin(r) ==
    /\ req[r].phase \in {"new", "admitted"} => req[r].index = 0 /\ req[r].copy = Absent
    /\ req[r].phase \in {"reserved", "putting", "sent", "ok"} => req[r].index # 0
    /\ req[r].phase \in {"admitted", "reserved", "putting", "sent"} => req[r].live
    /\ req[r].live => mem.up

\* An append is between its two Puts.
Between == {"naming", "putting"}

\* The index of the entry that the holder of the lock has put.
Held == IF lock \in Request THEN req[lock].index
        ELSE IF lock = Appender THEN Place ELSE 0

\* The lock is held by who has put an entry and not yet the key, and the key is
\* one Put behind then.
KeyIsBehind ==
    /\ \A r \in Request : req[r].phase = "putting" <=> lock = r
    /\ ticker = "putting" <=> lock = Ticker
    /\ app.phase \in Between <=> lock = Appender
    /\ hist.newest = IF lock = None THEN disk.last ELSE LastAfter(disk.last, Held)

\* The index holds an entry, or held one.
Written(i) == disk.log[i] # None \/ i \in hist.cleared

KeyIsWritten ==
    /\ disk.last # Absent => Written(disk.last)
    /\ lock # None => Written(Held)

\* An index above CommitIndex was reserved before CommitIndex fell.
IndexIsBelow ==
    mem.up => \A r \in Request : req[r].index > mem.commit => r \in hist.sunk \cup hist.lost

\* A nextIndex goes no further than a SET, or a joiner, has taken it: in the
\* process, in an attempt under way, and in the stored state.
FromSet(n) ==
    \/ n <= 1 \/ n <= hist.told + 1
    \/ \E r \in Request : req[r].index # 0 /\ n <= req[r].index + 1

NextFromSet ==
    /\ FromSet(mem.next) /\ FromSet(exit.state.next)
    /\ \A r \in Request : FromSet(req[r].copy)
    /\ file # None => FromSet(file.next)

Fits(n, commit, told) == n <= commit + 1 \/ n <= told + 1

NextIsBelow ==
    hist.sunk = {} =>
        /\ Fits(mem.next, mem.commit, hist.told)
        /\ \A r \in Request :
              req[r].live => /\ req[r].index <= mem.commit
                             /\ Fits(req[r].copy, mem.commit, hist.told)
        /\ exit.phase = "reading" => Fits(exit.state.next, mem.commit, hist.told)
        /\ exit.phase = "created" => Fits(exit.state.next, exit.state.commit, hist.told)
        /\ file # None => Fits(file.next, file.commit, hist.told)

\* The entry of a SET is there from its Put on.
PutIsStored ==
    \A r \in Request :
        req[r].phase \in {"putting", "sent", "ok"} /\ r \notin hist.unsaved
        /\ (\A q \in Request \ {r} : req[q].index # req[r].index)
            => disk.log[req[r].index] = EntryOf(r)

\* What was deleted is gone, or was put since.
CutSoFar ==
    app.phase = "cutting" =>
        \A i \in Index : app.lo <= i /\ i < app.at => disk.log[i] = None \/ i \in hist.since

-----------------------------------------------------------------------------
(* What a Set, or a deletion, does. *)

LEMMA PutFacts ==
    ASSUME NEW d \in Disk, NEW i \in Index, NEW e \in Entry
    PROVE  /\ LastAfter(d.last, i) \in Index \cup {Absent}
           /\ Put(d, Puts[1], i, e) \in Disk
           /\ Put(d, Puts[1], i, e).last = d.last
           /\ Put(d, Puts[1], i, e).log[i] = e
           /\ \A h \in Index \ {i} : Put(d, Puts[1], i, e).log[h] = d.log[h]
           /\ Put(d, Puts[2], i, e) \in Disk
           /\ Put(d, Puts[2], i, e).last = LastAfter(d.last, i)
           /\ Put(d, Puts[2], i, e).log = d.log
<1>1. LastAfter(d.last, i) \in Index \cup {Absent}
  BY DEF LastAfter, Disk
<1>2. Put(d, Puts[1], i, e) = [d EXCEPT !.log[i] = e]
  BY DEF Put, Puts
<1>3. Put(d, Puts[2], i, e) = [d EXCEPT !.last = LastAfter(d.last, i)]
  BY DEF Put, Puts, Disk
<1> HIDE DEF Index
<1> QED BY <1>1, <1>2, <1>3 DEF Disk

LEMMA DeleteFacts ==
    ASSUME NEW d \in Disk, NEW i \in Index
    PROVE  /\ Delete(d, i) \in Disk
           /\ Delete(d, i).last = d.last
           /\ Delete(d, i).log[i] = None
           /\ \A h \in Index \ {i} : Delete(d, i).log[h] = d.log[h]
BY DEF Delete, Disk

LEMMA BeginFacts ==
    ASSUME TypeOK, NEW who, NEW i \in Index, NEW e \in Entry, BeginSet(who, i, e)
    PROVE  /\ lock \in {None, who} /\ lock' = who /\ mem.up
           /\ disk' \in Disk /\ disk'.last = disk.last /\ disk'.log[i] = e
           /\ \A h \in Index \ {i} : disk'.log[h] = disk.log[h]
           /\ hist' \in Hist
           /\ hist'.newest = LastAfter(hist.newest, i)
           /\ hist'.cleared = hist.cleared \ {i}
           /\ hist'.sunk = hist.sunk /\ hist'.lost = hist.lost /\ hist'.told = hist.told
           /\ hist'.since = IF app.phase = "cutting" THEN hist.since \cup {i} ELSE hist.since
           /\ hist'.unsaved = IF who = Appender THEN hist.unsaved \cup SetsAt(i) ELSE hist.unsaved
<1> DEFINE out == IF who = Appender THEN hist.unsaved \cup SetsAt(i) ELSE hist.unsaved
           put == IF app.phase = "cutting" THEN hist.since \cup {i} ELSE hist.since
<1>1. /\ disk' = Put(disk, Puts[1], i, e) /\ lock' = who /\ mem.up /\ ~Locked(who)
      /\ hist' = [hist EXCEPT !.newest = LastAfter(hist.newest, i),
                              !.cleared = hist.cleared \ {i}, !.since = put, !.unsaved = out]
  BY DEF BeginSet, TypeOK, Hist
<1>2. hist \in Hist /\ disk \in Disk
  BY DEF TypeOK
<1>3. LastAfter(hist.newest, i) \in Index \cup {Absent}
  BY <1>2 DEF Hist, LastAfter
<1>4. out \subseteq Request /\ put \subseteq Index
  BY <1>2 DEF SetsAt, Hist
<1>5. lock \in {None, who}
  BY <1>1 DEF Locked
<1> HIDE DEF Index, out, put
<1>6. hist' \in Hist
  BY <1>1, <1>2, <1>3, <1>4 DEF Hist
<1>7. /\ hist'.newest = LastAfter(hist.newest, i) /\ hist'.cleared = hist.cleared \ {i}
      /\ hist'.sunk = hist.sunk /\ hist'.lost = hist.lost /\ hist'.told = hist.told
      /\ hist'.since = put /\ hist'.unsaved = out
  BY <1>1, <1>2 DEF Hist
<1> QED BY <1>1, <1>2, <1>5, <1>6, <1>7, PutFacts DEF out, put

LEMMA EndFacts ==
    ASSUME TypeOK, NEW who, NEW i \in Index, NEW e \in Entry, EndSet(who, i, e)
    PROVE  /\ lock' = None /\ mem.up
           /\ disk' \in Disk /\ disk'.log = disk.log
           /\ hist' \in Hist
           /\ hist'.cleared = hist.cleared /\ hist'.sunk = hist.sunk /\ hist'.lost = hist.lost
           /\ hist'.since = hist.since /\ hist'.unsaved = hist.unsaved
           /\ hist'.told = hist.told
           /\ \/ disk'.last = LastAfter(disk.last, i) /\ hist'.newest = hist.newest
              \/ disk'.last = disk.last /\ hist'.newest = disk.last
<1>1. hist \in Hist /\ disk \in Disk /\ disk.last \in Index \cup {Absent}
  BY DEF TypeOK, Disk
<1>2. CASE Open
  <2>1. disk' = Put(disk, Puts[2], i, e) /\ UNCHANGED hist /\ lock' = None /\ mem.up
    BY <1>2 DEF EndSet
  <2> QED BY <1>1, <2>1, PutFacts
<1>3. CASE ~Open
  <2>1. /\ UNCHANGED disk /\ lock' = None /\ mem.up
        /\ hist' = [hist EXCEPT !.newest = disk.last]
    BY <1>3 DEF EndSet
  <2> HIDE DEF Index
  <2> QED BY <1>1, <2>1 DEF Hist
<1> QED BY <1>2, <1>3

-----------------------------------------------------------------------------
(* Type correctness. *)

\* What replication does for r, and how an append begins.
Copies(r) == \/ Attempt(r) \/ Replicated(r) \/ BackOff(r) \/ NoAnswer(r)
             \/ \E t \in Terms : Overtaken(r, t)

Hears ==
    \/ \E t \in Terms : HearTermEntry(t) \/ \E c \in Commits : HearBeat(t, c)
    \/ \E b \in Batch : HearEntries(b)

TypeInv == TypeOK /\ AppendWithin

LEMMA Constants ==
    /\ MaxIndex \in Nat /\ MaxIndex # 0 /\ Ends \subseteq Index /\ Joins \subseteq Index
    /\ Commits \subseteq Nat /\ Terms \subseteq Nat /\ OwnTerms \subseteq Nat /\ MaxPads \in Nat
    /\ Index \subseteq Nat /\ 0 \in Index /\ NextIndex \subseteq Nat /\ 1 \in NextIndex
    /\ \A i \in Index : i + 1 \in NextIndex /\ i \in NextIndex
    /\ NoAppend \in App /\ Zero \in Stored /\ Running \in Exiting
BY ConstantAssumption DEF Index, NextIndex, NoAppend, App, Zero, Stored, Running, Exiting

LEMMA Integer ==
    /\ \A n \in Index \cup {Absent} : n \in Int
    /\ \A n \in NextIndex \cup {Absent, Returned} : n \in Int
<1>1. Absent \in Int /\ Returned \in Int
  BY DEF Absent, Returned
<1>2. \A n \in Index : n \in Int
  BY DEF Index
<1>3. \A n \in NextIndex : n \in Int
  BY DEF NextIndex
<1> QED BY <1>1, <1>2, <1>3

LEMMA LastIndexType ==
    ASSUME TypeOK
    PROVE  /\ GetLastIndex(disk) \in Index
           /\ BootTerm(disk) \in Nat
<1>1. disk \in Disk
  BY DEF TypeOK
<1> QED BY <1>1, Constants DEF Disk, GetLastIndex, BootTerm, Entry, Absent

\* The entry at hand has an index of the log.
LEMMA EntryTypes ==
    ASSUME TypeOK
    PROVE  /\ \A r \in Request : EntryOf(r) \in Entry
           /\ [term |-> mem.term, req |-> None] \in Entry
           /\ Place \in Index /\ app.own \in Nat /\ TermsOfEntry \subseteq Nat
           /\ \A i, t \in Nat : EntryAt(i, t) \in Entry
<1>1. /\ \A r \in Request : req[r] \in Req
      /\ mem \in Mem /\ app \in App
  BY DEF TypeOK
<1>2. Place \in Index
  <2>1. app.hi \in Index /\ app.at \in NextIndex /\ MaxIndex \in Nat
    BY <1>1, Constants DEF App
  <2> QED BY <2>1 DEF Place, Padding, Index, NextIndex
<1>3. TermsOfEntry \subseteq Nat
  BY Constants DEF TermsOfEntry
<1>4. \A i, t \in Nat : EntryAt(i, t) \in Entry
  BY DEF EntryAt, Entry
<1>5. /\ \A r \in Request : EntryOf(r) \in Entry
      /\ [term |-> mem.term, req |-> None] \in Entry
      /\ app.own \in Nat
  BY <1>1 DEF EntryOf, Entry, Req, Mem, App
<1> QED BY <1>2, <1>3, <1>4, <1>5

LEMMA ReqType ==
    ASSUME TypeOK, NEW r \in Request,
           NEW ph \in {"new", "admitted", "reserved", "putting", "sent", "ok", "failed"}
    PROVE  To(r, ph) => req' \in [Request -> Req] /\ req'[r].phase = ph
                        /\ req'[r].live = req[r].live /\ req'[r].index = req[r].index
                        /\ req'[r].term = req[r].term /\ req'[r].copy = req[r].copy
                        /\ \A q \in Request \ {r} : req'[q] = req[q]
<1>1. req \in [Request -> Req] /\ req[r] \in Req
  BY DEF TypeOK
<1>2. To(r, ph) => req' = [req EXCEPT ![r] = [req[r] EXCEPT !.phase = ph]]
  BY DEF To
<1> HIDE DEF Index, NextIndex
<1>3. [req[r] EXCEPT !.phase = ph] \in Req
  BY <1>1 DEF Req
<1>4. /\ [req[r] EXCEPT !.phase = ph].phase = ph
      /\ [req[r] EXCEPT !.phase = ph].live = req[r].live
      /\ [req[r] EXCEPT !.phase = ph].index = req[r].index
      /\ [req[r] EXCEPT !.phase = ph].term = req[r].term
      /\ [req[r] EXCEPT !.phase = ph].copy = req[r].copy
  BY <1>1 DEF Req
<1> QED BY <1>1, <1>2, <1>3, <1>4

LEMMA CopyType ==
    ASSUME TypeOK, NEW r \in Request, NEW c \in NextIndex \cup {Absent, Returned}
    PROVE  CopyTo(r, c) => req' \in [Request -> Req] /\ req'[r].copy = c
                           /\ req'[r].phase = req[r].phase
                           /\ req'[r].live = req[r].live /\ req'[r].index = req[r].index
                           /\ req'[r].term = req[r].term
                           /\ \A q \in Request \ {r} : req'[q] = req[q]
<1>1. req \in [Request -> Req] /\ req[r] \in Req
  BY DEF TypeOK
<1>2. CopyTo(r, c) => req' = [req EXCEPT ![r] = [req[r] EXCEPT !.copy = c]]
  BY DEF CopyTo
<1> HIDE DEF Index, NextIndex
<1>3. [req[r] EXCEPT !.copy = c] \in Req
  BY <1>1 DEF Req
<1>4. /\ [req[r] EXCEPT !.copy = c].copy = c
      /\ [req[r] EXCEPT !.copy = c].phase = req[r].phase
      /\ [req[r] EXCEPT !.copy = c].live = req[r].live
      /\ [req[r] EXCEPT !.copy = c].index = req[r].index
      /\ [req[r] EXCEPT !.copy = c].term = req[r].term
  BY <1>1 DEF Req
<1> QED BY <1>1, <1>2, <1>3, <1>4

LEMMA InitType == Init => TypeInv
<1> SUFFICES ASSUME Init PROVE TypeInv
  OBVIOUS
<1>1. mem \in Mem
  BY Constants DEF Init, Mem, Index
<1>2. disk \in Disk
  BY Constants DEF Init, Disk
<1>3. req \in [Request -> Req]
  BY Constants DEF Init, Req
<1>4. hist \in Hist
  BY DEF Init, Hist
<1>5. app = NoAppend /\ app \in App /\ exit \in Exiting
  BY Constants DEF Init
<1>6. AppendWithin
  BY <1>5 DEF NoAppend, AppendWithin
<1> QED BY <1>1, <1>2, <1>3, <1>4, <1>5, <1>6 DEF Init, TypeInv, TypeOK

LEMMA SetType ==
    ASSUME TypeInv, NEW r \in Request,
           Admit(r) \/ Reserve(r) \/ PreCommit(r) \/ Acknowledge(r) \/ Rollback(r)
    PROVE  TypeInv'
<1>0. /\ mem \in Mem /\ disk \in Disk /\ hist \in Hist
      /\ req \in [Request -> Req] /\ req[r] \in Req
  BY DEF TypeInv, TypeOK
<1> HIDE DEF Index, NextIndex
<1> USE DEF TypeInv
<1>1. CASE Admit(r)
  <2>1. req' = [req EXCEPT ![r] = [req[r] EXCEPT !.phase = "admitted", !.live = TRUE]]
    BY <1>1 DEF Admit
  <2>2. req' \in [Request -> Req]
    BY <1>0, <2>1 DEF Req
  <2> QED BY <1>1, <2>2 DEF Admit, TypeOK, AppendWithin, Padding
<1>2. CASE Reserve(r)
  <2> DEFINE i == NextOf(mem.commit)
  <2>1. i \in Index
    BY <1>0, <1>2, Constants DEF Reserve, NextOf, Mem, Index
  <2>2. mem' = [mem EXCEPT !.commit = i]
    BY <1>2 DEF Reserve
  <2>3. req' = [req EXCEPT ![r] = [phase |-> "reserved", live |-> TRUE, index |-> i,
                                   term |-> mem.term, copy |-> Absent]]
    BY <1>2 DEF Reserve
  <2> HIDE DEF i
  <2>4. mem' \in Mem
    BY <1>0, <2>1, <2>2 DEF Mem
  <2>5. mem.term \in Nat
    BY <1>0 DEF Mem
  <2>6. req' \in [Request -> Req]
    BY <1>0, <2>1, <2>3, <2>5 DEF Req
  <2> QED BY <1>2, <2>4, <2>6 DEF Reserve, TypeOK, AppendWithin, Padding
<1>3. CASE PreCommit(r)
  <2>1. req[r].index \in Index /\ EntryOf(r) \in Entry
    BY <1>0, EntryTypes DEF Req
  <2>2. req' \in [Request -> Req]
    BY <1>3, ReqType DEF PreCommit
  <2>3. disk' \in Disk /\ hist' \in Hist /\ lock' \in Request \cup {None, lock}
    <3>1. CASE BeginSet(r, req[r].index, EntryOf(r))
      <4>1. disk' \in Disk /\ hist' \in Hist /\ lock' = r
        BY <2>1, <3>1, BeginFacts
      <4> QED BY <4>1
    <3>2. CASE EndSet(r, req[r].index, EntryOf(r))
      BY <2>1, <3>2, EndFacts
    <3>3. CASE DropSet(r) /\ hist' = [hist EXCEPT !.unsaved = @ \cup {r}]
      <4>1. hist' = [hist EXCEPT !.unsaved = hist.unsaved \cup {r}]
        BY <1>0, <3>3 DEF Hist
      <4>2. hist' \in Hist
        BY <1>0, <4>1 DEF Hist
      <4> QED BY <1>0, <3>3, <4>2 DEF DropSet
    <3> QED BY <1>3, <3>1, <3>2, <3>3 DEF PreCommit
  <2> QED BY <1>3, <2>2, <2>3 DEF PreCommit, TypeOK, AppendWithin, Padding
<1>4. CASE Acknowledge(r)
  BY <1>4, ReqType DEF Acknowledge, TypeOK, AppendWithin, Padding
<1>5. CASE Rollback(r)
  <2>1. req[r].index \in Index
    BY <1>0 DEF Req
  <2>2. disk' \in Disk
    BY <1>0, <1>5, <2>1, DeleteFacts DEF Rollback
  <2>3. hist' = [hist EXCEPT !.cleared = hist.cleared \cup {req[r].index}]
    BY <1>5 DEF Rollback
  <2>4. hist' \in Hist
    BY <1>0, <2>1, <2>3 DEF Hist
  <2>5. req' \in [Request -> Req]
    BY <1>5, ReqType DEF Rollback
  <2> QED BY <1>5, <2>2, <2>4, <2>5 DEF Rollback, TypeOK, AppendWithin, Padding
<1> QED BY <1>1, <1>2, <1>3, <1>4, <1>5

LEMMA BackFromType ==
    ASSUME NEW n \in NextIndex
    PROVE  BackFrom(n) \in NextIndex /\ BackFrom(n) <= n
BY Constants DEF BackFrom, NextIndex

LEMMA ReplicateType ==
    ASSUME TypeInv, NEW r \in Request, Copies(r)
    PROVE  TypeInv'
<1>0. /\ mem \in Mem /\ mem.next \in NextIndex /\ req[r].index + 1 \in NextIndex
      /\ TypeOK /\ events \in Nat
  BY Constants DEF TypeInv, TypeOK, Mem, Req
<1>1. mem' \in Mem
  <2>1. \A n \in NextIndex : [mem EXCEPT !.next = n] \in Mem
    BY <1>0 DEF Mem
  <2>2. ASSUME NEW t \in Terms, Overtaken(r, t) PROVE mem' \in Mem
    <3>1. t \in Nat /\ mem' = [mem EXCEPT !.term = t, !.leading = FALSE]
      BY <2>2, Constants DEF Overtaken
    <3> QED BY <1>0, <3>1 DEF Mem
  <2>3. CASE Replicated(r)
    BY <1>0, <2>1, <2>3 DEF Replicated
  <2>4. CASE BackOff(r)
    BY <2>1, <2>4, BackFromType DEF BackOff
  <2> QED BY <1>0, <2>2, <2>3, <2>4 DEF Copies, Attempt, NoAnswer
<1>2. req' \in [Request -> Req]
  <2>1. \E c \in NextIndex \cup {Absent, Returned} : CopyTo(r, c)
    BY <1>0 DEF Copies, Attempt, Replicated, BackOff, NoAnswer, Overtaken
  <2> QED BY <1>0, <2>1, CopyType
<1>3. /\ UNCHANGED <<disk, file, lock, ticker, app, exit, hist>>
      /\ events' \in {events, events + 1}
  BY DEF Copies, Attempt, Replicated, BackOff, NoAnswer, Overtaken, Event
<1>4. AppendWithin'
  BY <1>3 DEF AppendWithin, Padding, TypeInv
<1>5. events' \in Nat
  BY <1>0, <1>3
<1> QED BY <1>1, <1>2, <1>3, <1>4, <1>5 DEF TypeInv, TypeOK

LEMMA JoinerType ==
    ASSUME TypeInv, NEW c \in Joins, StoreJoiner(c)
    PROVE  TypeInv'
<1>0. mem \in Mem /\ hist \in Hist /\ c \in Index /\ c + 1 \in NextIndex /\ events \in Nat
  BY Constants DEF TypeInv, TypeOK
<1> DEFINE told == IF c > hist.told THEN c ELSE hist.told
<1>1. /\ mem' = [mem EXCEPT !.next = c + 1]
      /\ hist' = [hist EXCEPT !.told = told]
      /\ UNCHANGED <<disk, file, lock, req, ticker, app, exit>> /\ events' \in Nat
  BY <1>0 DEF StoreJoiner, Event, Hist
<1>2. told \in Index \cup {Absent}
  BY <1>0 DEF Hist
<1> HIDE DEF Index, NextIndex, told
<1>3. mem' \in Mem /\ hist' \in Hist
  BY <1>0, <1>1, <1>2 DEF Mem, Hist
<1>4. AppendWithin'
  BY <1>1 DEF AppendWithin, Padding, TypeInv
<1> QED BY <1>1, <1>3, <1>4 DEF TypeInv, TypeOK

LEMMA TickerType ==
    ASSUME TypeInv, Lead \/ PutTermEntry
    PROVE  TypeInv'
<1>0. mem \in Mem
  BY DEF TypeInv, TypeOK
<1> USE DEF TypeInv
<1>1. CASE Lead
  <2>1. mem' = [mem EXCEPT !.leading = TRUE, !.term = mem.term + 1]
    BY <1>0, <1>1 DEF Lead, Mem
  <2> HIDE DEF Index
  <2>2. mem.term + 1 \in Nat
    BY <1>0 DEF Mem
  <2>3. mem' \in Mem
    BY <1>0, <2>1, <2>2 DEF Mem
  <2> QED BY <1>1, <2>3 DEF Lead, TypeOK, AppendWithin, Padding
<1>2. CASE PutTermEntry
  <2> DEFINE e == [term |-> mem.term, req |-> None]
  <2>1. e \in Entry /\ 0 \in Index
    BY EntryTypes, Constants
  <2>2. /\ BeginSet(Ticker, 0, e) \/ EndSet(Ticker, 0, e) \/ (DropSet(Ticker) /\ UNCHANGED hist)
        /\ ticker' \in {"putting", "idle"}
        /\ UNCHANGED <<mem, file, req, app, exit, events>>
    BY <1>2 DEF PutTermEntry
  <2> HIDE DEF e
  <2>3. disk' \in Disk /\ hist' \in Hist /\ lock' \in {None, Ticker, lock}
    <3>1. CASE BeginSet(Ticker, 0, e)
      BY <2>1, <3>1, BeginFacts
    <3>2. CASE EndSet(Ticker, 0, e)
      BY <2>1, <3>2, EndFacts
    <3>3. CASE DropSet(Ticker) /\ UNCHANGED hist
      BY <3>3 DEF DropSet, TypeOK
    <3> QED BY <2>2, <3>1, <3>2, <3>3
  <2> QED BY <2>2, <2>3 DEF TypeOK, AppendWithin, Padding
<1> QED BY <1>1, <1>2

\* An append begins by following with one of these.
Begun(k) == /\ k \in App /\ k.phase \in {"idle", "entry", "leaving", "storing", "cutting"}
            /\ k.phase = "cutting" => k.at = k.lo

LEMMA FollowType ==
    ASSUME TypeInv, NEW t \in Nat, NEW k, Begun(k), Follow(t, k)
    PROVE  TypeInv'
<1>1. mem' = [mem EXCEPT !.leading = FALSE, !.term = t]
  BY DEF Follow
<1>2. mem \in Mem /\ events \in Nat
  BY DEF TypeInv, TypeOK
<1> HIDE DEF Index, NextIndex
<1>3. mem' \in Mem
  BY <1>1, <1>2 DEF Mem
<1>4. events' \in Nat /\ app' = k
  BY <1>2 DEF Follow, Event
<1>5. AppendWithin'
  BY <1>4 DEF AppendWithin, Begun
<1> QED BY <1>3, <1>4, <1>5 DEF Follow, TypeInv, TypeOK, Begun

LEMMA HearsFollow ==
    ASSUME TypeInv, Hears
    PROVE  \E t \in Nat, k \in App : Follow(t, k) /\ Begun(k)
<1>0. NoAppend \in App /\ Commits \subseteq Nat /\ Terms \subseteq Nat
  BY Constants
<1>1. ASSUME NEW t \in Terms, HearTermEntry(t)
      PROVE  \E k \in App : Follow(t, k) /\ Begun(k)
  <2> DEFINE k == [NoAppend EXCEPT !.phase = "entry"]
  <2>1. k \in App /\ k.phase = "entry"
    BY <1>0, Constants DEF NoAppend, App
  <2>2. Follow(t, k)
    BY <1>1 DEF HearTermEntry
  <2> HIDE DEF k
  <2> QED BY <2>1, <2>2 DEF Begun
<1>2. ASSUME NEW t \in Terms, NEW c \in Commits, HearBeat(t, c)
      PROVE  \E k \in App : Follow(t, k) /\ Begun(k)
  <2> DEFINE k == [NoAppend EXCEPT !.phase = "leaving", !.commit = c]
  <2>1. k \in App /\ k.phase = "leaving"
    BY <1>0, Constants DEF NoAppend, App
  <2>2. Follow(t, k)
    BY <1>2 DEF HearBeat
  <2> HIDE DEF k
  <2> QED BY <2>1, <2>2 DEF Begun
<1>3. ASSUME NEW b \in Batch, HearEntries(b)
      PROVE  b.term \in Terms /\ \E k \in App : Follow(b.term, k) /\ Begun(k)
  <2> DEFINE last == GetLastIndex(disk)
             store == [phase |-> "storing", lo |-> b.lo, at |-> b.lo, hi |-> b.hi, own |-> 0,
                       pads |-> b.pads, commit |-> b.commit]
             cut == [NoAppend EXCEPT !.phase = "cutting", !.lo = b.prev + 1,
                                     !.at = b.prev + 1, !.hi = last]
  <2>1. /\ b.term \in Terms /\ b.lo \in Index /\ b.hi \in Index /\ b.prev \in Index
        /\ b.pads \in Nat /\ b.commit \in Nat /\ b.lo <= b.hi /\ (b.prev < b.lo \/ b.prev = 0)
    BY <1>3, Constants DEF Batch, HearEntries, Sendable
  <2>2. last \in Index
    BY LastIndexType DEF TypeInv
  <2>3. b.lo # 0 => b.prev + 1 \in Index
    BY <2>1, Constants DEF Index
  <2>4. \/ Follow(b.term, store) \/ Follow(b.term, NoAppend)
        \/ b.lo # 0 /\ Follow(b.term, cut)
    BY <1>3 DEF HearEntries
  <2> HIDE DEF last, Index, NextIndex
  <2>5. store \in App /\ store.phase = "storing"
    BY <2>1, Constants DEF App
  <2>6. b.lo # 0 => cut \in App /\ cut.phase = "cutting" /\ cut.at = cut.lo
    BY <2>1, <2>2, <2>3, Constants DEF App, NoAppend
  <2>7. NoAppend.phase = "idle"
    BY DEF NoAppend
  <2> HIDE DEF store, cut
  <2> QED BY <1>0, <2>1, <2>4, <2>5, <2>6, <2>7 DEF Begun
<1> QED BY <1>0, <1>1, <1>2, <1>3 DEF Hears

LEMMA HeardType ==
    ASSUME TypeInv, Hears
    PROVE  TypeInv'
BY HearsFollow, FollowType

\* What remains of an append after an entry.
LEMMA RestType ==
    ASSUME TypeInv, app.phase \in {"entry", "naming", "storing", "putting"},
           app.phase # "naming" /\ app.phase # "entry" /\ Padding => app.pads > 0
    PROVE  Rest \in App /\ Rest.phase \in {"idle", "storing"}
<1>1. app \in App /\ NoAppend \in App
  BY Constants DEF TypeInv, TypeOK
<1>2. app.pads \in Nat /\ app.at \in NextIndex /\ app.hi \in Index
  BY <1>1 DEF App
<1>3. ~Padding => app.at + 1 \in NextIndex
  BY <1>2, Constants DEF Padding, Index, NextIndex
<1>4. app.pads > 0 => app.pads - 1 \in Nat
  BY <1>2
<1> HIDE DEF Index, NextIndex
<1>5. CASE app.phase \in {"entry", "naming"}
  BY <1>1, <1>5 DEF Rest, NoAppend
<1>6. CASE app.phase \in {"storing", "putting"} /\ Padding
  <2>1. Rest = [app EXCEPT !.phase = "storing", !.own = 0, !.pads = app.pads - 1]
    BY <1>1, <1>6 DEF Rest, App
  <2> QED BY <1>1, <1>4, <1>6, <2>1 DEF App
<1>7. CASE app.phase \in {"storing", "putting"} /\ ~Padding
  <2>1. Rest = [app EXCEPT !.phase = "storing", !.own = 0, !.at = app.at + 1]
    BY <1>1, <1>7 DEF Rest, App
  <2> QED BY <1>1, <1>3, <1>7, <2>1 DEF App
<1> QED BY <1>5, <1>6, <1>7

LEMMA StoreFacts ==
    ASSUME TypeInv, StoreEntry \/ NameEntry
    PROVE  /\ UNCHANGED <<mem, file, req, ticker, exit, events>>
           /\ Place \in Index /\ app' \in App /\ AppendWithin'
           /\ app'.phase # "cutting" /\ app.phase # "cutting"
           /\ \/ {app.phase, app'.phase} \cap Between = {} /\ UNCHANGED <<disk, lock, hist>>
              \/ \E e \in Entry :
                   \/ /\ app.phase \notin Between /\ app'.phase \in Between /\ Place' = Place
                      /\ BeginSet(Appender, Place, e)
                   \/ /\ app.phase \in Between /\ app'.phase \notin Between
                      /\ EndSet(Appender, Place, e)
<1>1. /\ app \in App /\ Place \in Index /\ app.own \in Nat /\ TermsOfEntry \subseteq Nat
      /\ \A t \in Nat : EntryAt(Place, t) \in Entry
  BY EntryTypes, Constants DEF TypeInv, TypeOK
<1>2. CASE StoreEntry
  <2>1. /\ app.phase \in {"entry", "storing"}
        /\ app.phase # "entry" /\ Padding => app.pads > 0
        /\ UNCHANGED <<mem, file, req, ticker, exit, events>>
        /\ \/ \E t \in TermsOfEntry :
                  /\ BeginSet(Appender, Place, EntryAt(Place, t))
                  /\ app' = [app EXCEPT !.own = t,
                                !.phase = IF app.phase = "entry" THEN "naming" ELSE "putting"]
           \/ UNCHANGED <<disk, lock, hist>> /\ app' = Rest
    BY <1>1, <1>2 DEF StoreEntry, DropSet, App
  <2>2. ASSUME NEW t \in TermsOfEntry, BeginSet(Appender, Place, EntryAt(Place, t)),
               app' = [app EXCEPT !.own = t,
                         !.phase = IF app.phase = "entry" THEN "naming" ELSE "putting"]
        PROVE  /\ app' \in App /\ AppendWithin' /\ app'.phase \in Between /\ Place' = Place
               /\ EntryAt(Place, t) \in Entry
    <3>1. t \in Nat
      BY <1>1
    <3> HIDE DEF Index, NextIndex
    <3>2. /\ app' \in App /\ app'.at = app.at /\ app'.hi = app.hi /\ app'.pads = app.pads
          /\ app'.phase \in Between /\ (app'.phase = "putting" => app.phase = "storing")
      BY <1>1, <2>1, <2>2, <3>1 DEF App, Between
    <3>3. Padding' = Padding /\ Place' = Place
      BY <3>2 DEF Padding, Place
    <3>4. AppendWithin'
      BY <2>1, <3>2, <3>3 DEF AppendWithin, Between
    <3> QED BY <1>1, <3>1, <3>2, <3>3, <3>4
  <2>3. CASE UNCHANGED <<disk, lock, hist>> /\ app' = Rest
    <3>1. app' \in App /\ app'.phase \in {"idle", "storing"}
      BY <2>1, <2>3, RestType
    <3>2. AppendWithin'
      BY <3>1 DEF AppendWithin
    <3> QED BY <1>1, <2>1, <2>3, <3>1, <3>2 DEF Between
  <2> QED BY <1>1, <2>1, <2>2, <2>3 DEF Between
<1>3. CASE NameEntry
  <2>1. /\ app.phase \in {"naming", "putting"} /\ app' = Rest
        /\ EndSet(Appender, Place, EntryAt(Place, app.own))
        /\ UNCHANGED <<mem, file, req, ticker, exit, events>>
    BY <1>3 DEF NameEntry
  <2>2. app.phase # "naming" /\ Padding => app.pads > 0
    BY <2>1 DEF TypeInv, AppendWithin
  <2>3. app' \in App /\ app'.phase \in {"idle", "storing"}
    BY <2>1, <2>2, RestType
  <2>4. AppendWithin'
    BY <2>3 DEF AppendWithin
  <2>5. EntryAt(Place, app.own) \in Entry
    BY <1>1
  <2> QED BY <1>1, <2>1, <2>3, <2>4, <2>5 DEF Between
<1> QED BY <1>2, <1>3

LEMMA AppendType ==
    ASSUME TypeInv, SkipHole \/ StoreEntry \/ NameEntry \/ Cut \/ EndCut
    PROVE  TypeInv'
<1>0. /\ app \in App /\ hist \in Hist /\ disk \in Disk /\ NoAppend \in App
      /\ AppendWithin /\ TypeOK
  BY Constants DEF TypeInv, TypeOK
<1>1. app.at \in NextIndex /\ app.hi \in Index /\ MaxIndex \in Nat
  BY <1>0, Constants DEF App
<1>2. SkipHole \/ Cut => app.at \in Index /\ app.at + 1 \in NextIndex
  BY <1>1 DEF SkipHole, Cut, CutGoesOn, Index, NextIndex
<1>3. CASE StoreEntry \/ NameEntry
  <2>1. disk' \in Disk /\ hist' \in Hist /\ lock' \in {None, Appender, lock}
    <3>1. ASSUME NEW e \in Entry, BeginSet(Appender, Place, e)
          PROVE  disk' \in Disk /\ hist' \in Hist /\ lock' = Appender
      BY <1>0, <1>3, <3>1, BeginFacts, StoreFacts
    <3>2. ASSUME NEW e \in Entry, EndSet(Appender, Place, e)
          PROVE  disk' \in Disk /\ hist' \in Hist /\ lock' = None
      BY <1>0, <1>3, <3>2, EndFacts, StoreFacts
    <3>3. CASE UNCHANGED <<disk, lock, hist>>
      BY <1>0, <3>3
    <3> QED BY <1>3, <3>1, <3>2, <3>3, StoreFacts
  <2>2. UNCHANGED <<mem, file, req, ticker, exit, events>> /\ app' \in App /\ AppendWithin'
    BY <1>3, StoreFacts
  <2> QED BY <1>0, <2>1, <2>2 DEF TypeInv, TypeOK
<1> HIDE DEF Index, NextIndex
<1>4. CASE SkipHole
  <2>1. /\ app' = [app EXCEPT !.at = app.at + 1, !.pads = app.pads + 1]
        /\ app.phase = "storing" /\ app.pads + 1 \in Nat
        /\ UNCHANGED <<mem, disk, file, lock, req, ticker, exit, events, hist>>
    BY <1>0, <1>4 DEF SkipHole, App
  <2>2. app' \in App /\ app'.phase = "storing"
    BY <1>0, <1>2, <1>4, <2>1 DEF App
  <2> QED BY <1>0, <2>1, <2>2 DEF TypeInv, TypeOK, AppendWithin
<1>5. CASE Cut
  <2>1. /\ disk' = Delete(disk, app.at)
        /\ app' = [app EXCEPT !.at = app.at + 1] /\ app.phase = "cutting"
        /\ hist' = [hist EXCEPT !.cleared = hist.cleared \cup {app.at},
                                !.since = hist.since \ {app.at},
                                !.unsaved = hist.unsaved \cup SetsAt(app.at)]
        /\ UNCHANGED <<mem, file, lock, req, ticker, exit, events>>
    BY <1>0, <1>5 DEF Cut, App, Hist
  <2>2. disk' \in Disk
    BY <1>0, <1>2, <1>5, <2>1, DeleteFacts
  <2>3. hist' \in Hist
    <3>1. SetsAt(app.at) \subseteq Request
      BY DEF SetsAt
    <3> QED BY <1>0, <1>2, <1>5, <2>1, <3>1 DEF Hist
  <2>4. app' \in App /\ app'.phase = "cutting"
    BY <1>0, <1>2, <1>5, <2>1 DEF App
  <2> QED BY <1>0, <2>1, <2>2, <2>3, <2>4 DEF TypeInv, TypeOK, AppendWithin
<1>6. CASE EndCut
  <2>1. /\ app' = NoAppend /\ hist' = [hist EXCEPT !.since = {}]
        /\ UNCHANGED <<mem, disk, file, lock, req, ticker, exit, events>>
    BY <1>6 DEF EndCut
  <2>2. hist' \in Hist
    BY <1>0, <2>1 DEF Hist
  <2> QED BY <1>0, <2>1, <2>2 DEF TypeInv, TypeOK, AppendWithin, NoAppend
<1> QED BY <1>3, <1>4, <1>5, <1>6

LEMMA LeaveType ==
    ASSUME TypeInv, NEW commit \in Index, Leave(commit)
    PROVE  /\ mem' \in Mem /\ mem'.commit = commit /\ mem'.next = mem.next
           /\ mem'.up = mem.up /\ app' = NoAppend /\ app' \in App /\ AppendWithin'
<1>1. mem \in Mem /\ mem.leading \in BOOLEAN
  BY DEF TypeInv, TypeOK, Mem
<1>2. mem' = [mem EXCEPT !.commit = commit, !.leading = mem.leading /\ app.at = 0]
  BY <1>1 DEF Leave, Mem
<1> DEFINE l == mem.leading /\ app.at = 0
<1>3. l \in BOOLEAN
  BY <1>1
<1>4. mem' = [mem EXCEPT !.commit = commit, !.leading = l]
  BY <1>2
<1> HIDE DEF Index, l
<1>5. /\ mem' \in Mem /\ mem'.commit = commit /\ mem'.next = mem.next /\ mem'.up = mem.up
  BY <1>1, <1>3, <1>4 DEF Mem
<1> QED BY <1>5, Constants DEF Leave, NoAppend, AppendWithin

LEMMA CommitType ==
    ASSUME TypeInv, Measure \/ Advance
    PROVE  TypeInv'
<1>0. app \in App /\ mem \in Mem /\ mem.commit \in Index /\ hist \in Hist
  BY DEF TypeInv, TypeOK, Mem
<1>1. CASE Measure
  <2> DEFINE last == GetLastIndex(disk)
             n == IF app.commit < last THEN app.commit ELSE last
  <2>1. n \in Index
    <3>1. last \in Index /\ app.commit \in Nat
      BY <1>0, LastIndexType DEF App, TypeInv
    <3> HIDE DEF last
    <3> QED BY <3>1, Constants DEF Index
  <2>2. UNCHANGED <<disk, file, lock, req, ticker, exit, events, hist>>
    BY <1>1 DEF Measure
  <2>3. \/ app' = [app EXCEPT !.phase = "advancing", !.commit = n] /\ UNCHANGED mem
        \/ Leave(mem.commit)
    BY <1>0, <1>1 DEF Measure, App
  <2> HIDE DEF n
  <2>4. CASE app' = [app EXCEPT !.phase = "advancing", !.commit = n] /\ UNCHANGED mem
    <3>1. app' \in App /\ app'.phase = "advancing" /\ app'.commit = n
      BY <1>0, <2>1, <2>4, Constants DEF App
    <3> QED BY <2>1, <2>2, <2>4, <3>1 DEF TypeInv, TypeOK, AppendWithin
  <2>5. CASE Leave(mem.commit)
    BY <1>0, <2>2, <2>5, LeaveType DEF TypeInv, TypeOK
  <2> QED BY <2>3, <2>4, <2>5
<1>2. CASE Advance
  <2>1. app.commit \in Index /\ Leave(app.commit)
    BY <1>2 DEF Advance, TypeInv, AppendWithin
  <2>2. hist' = [hist EXCEPT !.sunk = hist.sunk \cup Above(app.commit)]
    BY <1>2 DEF Advance
  <2>3. hist' \in Hist
    BY <1>0, <2>2 DEF Hist, Above
  <2> QED BY <1>2, <2>1, <2>3, LeaveType DEF Advance, TypeInv, TypeOK
<1> QED BY <1>1, <1>2

LEMMA ProcessType ==
    ASSUME TypeInv, Shutdown \/ Crash \/ Boot
    PROVE  TypeInv'
<1>0. /\ mem \in Mem /\ mem.next \in NextIndex /\ mem.commit \in Index
      /\ exit \in Exiting /\ exit.state \in Stored /\ Zero \in Stored /\ hist \in Hist
      /\ disk \in Disk /\ events \in Nat
  BY Constants DEF TypeInv, TypeOK, Mem, Exiting
<1> HIDE DEF Index
<1>1. CASE Signal \/ CreateStore \/ WriteStore
  <2>1. \E ph \in {"reading", "created", "closed"}, st \in Stored :
           exit' = [phase |-> ph, state |-> st]
    <3>1. ReadState(Zero, Reads[1]) \in Stored /\ ReadState(exit.state, Reads[2]) \in Stored
      BY <1>0 DEF ReadState, Reads, Stored
    <3> QED BY <1>0, <1>1, <3>1 DEF Signal, CreateStore, WriteStore, Exits
  <2>2. exit' \in Exiting
    BY <2>1 DEF Exiting
  <2>3. file' \in Stored \cup {None}
    BY <1>0, <1>1 DEF Signal, CreateStore, WriteStore, Exits, TypeInv, TypeOK
  <2>4. UNCHANGED <<mem, disk, lock, req, ticker, app, hist>> /\ events' \in Nat
    BY <1>0, <1>1 DEF Signal, CreateStore, WriteStore, Exits, Event
  <2> QED BY <2>2, <2>3, <2>4 DEF TypeInv, TypeOK, AppendWithin, Padding
<1>2. CASE Exit \/ Crash
  <2>1. /\ mem' = [up |-> FALSE, leading |-> FALSE, term |-> 0, commit |-> 0, next |-> 1]
        /\ req' = [r \in Request |->
                     [req[r] EXCEPT !.live = FALSE, !.copy = Absent,
                                    !.phase = IF req[r].phase \in {"new", "ok"}
                                              THEN req[r].phase ELSE "failed"]]
        /\ hist' = [hist EXCEPT !.newest = disk.last, !.since = {}]
        /\ lock' = None /\ ticker' = "idle" /\ app' = NoAppend /\ exit' = Running
        /\ UNCHANGED <<disk, file>>
    BY <1>2 DEF Exit, Crash, Die, TypeInv, TypeOK, Req
  <2>2. mem' \in Mem
    BY <2>1, Constants DEF Mem
  <2>3. req' \in [Request -> Req]
    <3>1. \A r \in Request : req[r] \in Req
      BY DEF TypeInv, TypeOK
    <3> QED BY <2>1, <3>1 DEF Req
  <2>4. hist' \in Hist
    BY <1>0, <2>1 DEF Hist, Disk
  <2>5. AppendWithin'
    BY <2>1 DEF AppendWithin, NoAppend
  <2>6. events' \in Nat
    BY <1>0, <1>2 DEF Exit, Crash, Event
  <2>7. ticker' \in {"idle", "entry", "putting"} /\ app' \in App /\ exit' \in Exiting
    BY <2>1, Constants
  <2> QED BY <2>1, <2>2, <2>3, <2>4, <2>5, <2>6, <2>7 DEF TypeInv, TypeOK
<1>3. CASE Boot
  <2> DEFINE s == IF file = None THEN Zero ELSE file
  <2>1. s \in Stored /\ BootTerm(disk) \in Nat
    BY <1>0, LastIndexType DEF TypeInv, TypeOK
  <2>2. /\ mem' = [up |-> TRUE, leading |-> FALSE, term |-> BootTerm(disk),
                   commit |-> s.commit, next |-> s.next]
        /\ hist' = [hist EXCEPT !.lost = hist.lost \cup Above(s.commit)]
        /\ UNCHANGED <<disk, file, lock, req, ticker, app, exit, events>>
    BY <1>3 DEF Boot
  <2> HIDE DEF s
  <2>3. mem' \in Mem
    BY <2>1, <2>2 DEF Mem, Stored
  <2>4. hist' \in Hist
    BY <1>0, <2>2 DEF Hist, Above
  <2> QED BY <2>2, <2>3, <2>4 DEF TypeInv, TypeOK, AppendWithin, Padding
<1> QED BY <1>1, <1>2, <1>3 DEF Shutdown

LEMMA StepType == TypeInv /\ [Next]_vars => TypeInv'
<1> SUFFICES ASSUME TypeInv, [Next]_vars PROVE TypeInv'
  OBVIOUS
<1>1. CASE UNCHANGED vars
  BY <1>1 DEF vars, TypeInv, TypeOK, AppendWithin, Padding
<1>2. CASE HandleSet
  BY <1>2, SetType DEF HandleSet
<1>3. CASE Replicate
  BY <1>3, ReplicateType DEF Replicate, Copies
<1>4. CASE HandleAppend
  BY <1>4, HeardType, AppendType, CommitType DEF HandleAppend, Hears
<1>5. CASE \E c \in Joins : StoreJoiner(c)
  BY <1>5, JoinerType
<1> QED BY <1>1, <1>2, <1>3, <1>4, <1>5, TickerType, ProcessType DEF Next

\* A server's files and its handlers are as Storage declares them, for any
\* requests and bounds: no nextIndex is below 0, wherever the backoff has taken
\* it, and no append leaves the indices of the log.
THEOREM StorageTypeCorrect == Spec => [](TypeOK /\ AppendWithin)
<1>1. Init => TypeInv
  BY InitType
<1>2. TypeInv /\ [Next]_vars => TypeInv'
  BY StepType
<1>3. TypeInv => TypeOK /\ AppendWithin
  BY DEF TypeInv
<1> QED BY <1>1, <1>2, <1>3, PTL DEF Spec

-----------------------------------------------------------------------------
(* What the other actions do to the fields they assign. *)

LEMMA AdmitFacts ==
    ASSUME TypeInv, NEW r \in Request, Admit(r)
    PROVE  /\ mem.up /\ req[r].phase = "new"
           /\ req'[r].phase = "admitted" /\ req'[r].live /\ req'[r].index = req[r].index
           /\ req'[r].copy = req[r].copy
           /\ \A q \in Request \ {r} : req'[q] = req[q]
           /\ UNCHANGED <<mem, disk, file, lock, ticker, app, exit, hist>>
<1>1. req \in [Request -> Req] /\ req[r] \in Req
  BY DEF TypeInv, TypeOK
<1>2. req' = [req EXCEPT ![r] = [req[r] EXCEPT !.phase = "admitted", !.live = TRUE]]
  BY DEF Admit
<1> HIDE DEF Index
<1>3. /\ req'[r] = [req[r] EXCEPT !.phase = "admitted", !.live = TRUE]
      /\ \A q \in Request \ {r} : req'[q] = req[q]
  BY <1>1, <1>2
<1> QED BY <1>1, <1>3 DEF Admit, Req

LEMMA ReserveFacts ==
    ASSUME TypeInv, NEW r \in Request, Reserve(r)
    PROVE  /\ req[r].phase = "admitted" /\ req[r].live
           /\ mem'.up = mem.up /\ mem'.next = mem.next /\ mem'.commit = mem.commit + 1
           /\ req'[r].phase = "reserved" /\ req'[r].live
           /\ req'[r].index = mem.commit + 1 /\ req'[r].copy = Absent
           /\ \A q \in Request \ {r} : req'[q] = req[q]
           /\ UNCHANGED <<disk, file, lock, ticker, app, exit, hist>>
<1>1. req \in [Request -> Req] /\ mem \in Mem
  BY DEF TypeInv, TypeOK
<1>2. /\ req' = [req EXCEPT ![r] = [phase |-> "reserved", live |-> TRUE,
                                    index |-> mem.commit + 1, term |-> mem.term,
                                    copy |-> Absent]]
      /\ mem' = [mem EXCEPT !.commit = mem.commit + 1]
      /\ req[r].phase = "admitted" /\ req[r].live
      /\ UNCHANGED <<disk, file, lock, ticker, app, exit, hist>>
  BY DEF Reserve, NextOf, At
<1> HIDE DEF Index
<1> QED BY <1>1, <1>2 DEF Mem

LEMMA PreCommitFacts ==
    ASSUME TypeInv, NEW r \in Request, PreCommit(r)
    PROVE  /\ req'[r].live = req[r].live /\ req'[r].index = req[r].index
           /\ req'[r].term = req[r].term /\ req'[r].copy = req[r].copy
           /\ \A q \in Request \ {r} : req'[q] = req[q]
           /\ UNCHANGED <<mem, file, ticker, app, exit>>
           /\ req[r].index \in Index /\ EntryOf(r) \in Entry /\ req[r].live
           /\ \/ /\ req[r].phase = "reserved" /\ req'[r].phase = "putting"
                 /\ BeginSet(r, req[r].index, EntryOf(r))
              \/ /\ req[r].phase = "putting" /\ req'[r].phase = "sent"
                 /\ EndSet(r, req[r].index, EntryOf(r))
              \/ /\ req[r].phase = "reserved" /\ req'[r].phase = "sent"
                 /\ UNCHANGED <<disk, lock>>
                 /\ hist'.newest = hist.newest /\ hist'.cleared = hist.cleared
                 /\ hist'.sunk = hist.sunk /\ hist'.lost = hist.lost
                 /\ hist'.unsaved = hist.unsaved \cup {r} /\ hist'.since = hist.since
                 /\ hist'.told = hist.told
<1>1. req[r].index \in Index /\ EntryOf(r) \in Entry /\ hist \in Hist
  BY EntryTypes DEF TypeInv, TypeOK, Req
<1>2. /\ UNCHANGED <<mem, file, ticker, app, exit>>
      /\ req[r].live
      /\ \/ /\ req[r].phase = "reserved" /\ To(r, "putting")
            /\ BeginSet(r, req[r].index, EntryOf(r))
         \/ /\ req[r].phase = "putting" /\ To(r, "sent")
            /\ EndSet(r, req[r].index, EntryOf(r))
         \/ /\ req[r].phase = "reserved" /\ To(r, "sent")
            /\ UNCHANGED <<disk, lock>>
            /\ hist' = [hist EXCEPT !.unsaved = hist.unsaved \cup {r}]
  BY <1>1 DEF PreCommit, At, DropSet, Hist
<1>3. To(r, "putting") \/ To(r, "sent") =>
        /\ req'[r].live = req[r].live /\ req'[r].index = req[r].index
        /\ req'[r].term = req[r].term /\ req'[r].copy = req[r].copy
        /\ \A q \in Request \ {r} : req'[q] = req[q]
  BY ReqType DEF TypeInv
<1>4. (To(r, "putting") => req'[r].phase = "putting") /\ (To(r, "sent") => req'[r].phase = "sent")
  BY ReqType DEF TypeInv
<1> HIDE DEF Index
<1>5. hist' = [hist EXCEPT !.unsaved = hist.unsaved \cup {r}] =>
        /\ hist'.newest = hist.newest /\ hist'.cleared = hist.cleared
        /\ hist'.sunk = hist.sunk /\ hist'.lost = hist.lost
        /\ hist'.unsaved = hist.unsaved \cup {r} /\ hist'.since = hist.since
        /\ hist'.told = hist.told
  BY <1>1 DEF Hist
<1> QED BY <1>1, <1>2, <1>3, <1>4, <1>5

LEMMA AckFacts ==
    ASSUME TypeInv, NEW r \in Request, Acknowledge(r)
    PROVE  /\ req[r].phase = "sent" /\ req[r].live
           /\ req'[r].phase = "ok" /\ req'[r].live = req[r].live
           /\ req'[r].index = req[r].index /\ req'[r].term = req[r].term
           /\ req'[r].copy = req[r].copy
           /\ \A q \in Request \ {r} : req'[q] = req[q]
           /\ UNCHANGED <<mem, disk, file, lock, ticker, app, exit, hist>>
BY ReqType DEF Acknowledge, At, TypeInv

LEMMA CopiesFacts ==
    ASSUME TypeInv, NEW r \in Request, Copies(r)
    PROVE  /\ req[r].live /\ req[r].phase \in {"sent", "ok"}
           /\ req'[r].phase = req[r].phase /\ req'[r].live = req[r].live
           /\ req'[r].index = req[r].index /\ req'[r].term = req[r].term
           /\ \A q \in Request \ {r} : req'[q] = req[q]
           /\ mem'.up = mem.up /\ mem'.commit = mem.commit
           /\ \/ mem'.next = mem.next /\ req'[r].copy \in {Absent, Returned, mem.next}
              \/ mem'.next = req[r].index + 1 /\ req'[r].copy = Returned
              \/ /\ req[r].copy \in NextIndex /\ mem'.next = BackFrom(req[r].copy)
                 /\ req'[r].copy = Absent
           /\ UNCHANGED <<disk, file, lock, ticker, app, exit, hist>>
<1>1. mem \in Mem /\ mem.next \in NextIndex /\ TypeOK
  BY DEF TypeInv, TypeOK, Mem
<1>2. ASSUME NEW c \in NextIndex \cup {Absent, Returned}, CopyTo(r, c)
      PROVE  /\ req'[r].phase = req[r].phase /\ req'[r].live = req[r].live
             /\ req'[r].index = req[r].index /\ req'[r].term = req[r].term
             /\ \A q \in Request \ {r} : req'[q] = req[q]
             /\ req'[r].copy = c
  BY <1>1, <1>2, CopyType
<1>3. /\ req[r].live /\ req[r].phase \in {"sent", "ok"}
      /\ UNCHANGED <<disk, file, lock, ticker, app, exit, hist>>
  BY DEF Copies, Attempt, Replicated, BackOff, NoAnswer, Overtaken, Copying, At
<1> HIDE DEF Index, NextIndex
<1>4. ASSUME NEW n, mem' = [mem EXCEPT !.next = n]
      PROVE  mem'.up = mem.up /\ mem'.commit = mem.commit /\ mem'.next = n
  BY <1>1, <1>4 DEF Mem
<1>5. CASE Attempt(r)
  <2>1. CopyTo(r, mem.next) /\ UNCHANGED mem
    BY <1>5 DEF Attempt
  <2> QED BY <1>1, <1>2, <1>3, <2>1
<1>6. CASE Replicated(r)
  <2>1. CopyTo(r, Returned) /\ mem' = [mem EXCEPT !.next = req[r].index + 1]
    BY <1>6 DEF Replicated
  <2> QED BY <1>2, <1>3, <1>4, <2>1
<1>7. CASE BackOff(r)
  <2>1. /\ CopyTo(r, Absent) /\ mem' = [mem EXCEPT !.next = BackFrom(req[r].copy)]
        /\ req[r].copy \in NextIndex
    BY <1>7 DEF BackOff
  <2> QED BY <1>2, <1>3, <1>4, <2>1
<1>8. CASE NoAnswer(r)
  <2>1. (CopyTo(r, Absent) \/ CopyTo(r, Returned)) /\ UNCHANGED mem
    BY <1>8 DEF NoAnswer
  <2> QED BY <1>2, <1>3, <2>1
<1>9. ASSUME NEW t \in Terms, Overtaken(r, t)
      PROVE  /\ mem'.up = mem.up /\ mem'.commit = mem.commit /\ mem'.next = mem.next
             /\ CopyTo(r, Returned)
  <2>1. CopyTo(r, Returned)
    BY <1>9 DEF Overtaken
  <2>2. mem' = [mem EXCEPT !.term = t, !.leading = FALSE]
    BY <1>9 DEF Overtaken
  <2>3. mem'.up = mem.up /\ mem'.commit = mem.commit /\ mem'.next = mem.next
    BY <1>1, <2>2 DEF Mem
  <2> QED BY <2>1, <2>3
<1> QED BY <1>2, <1>3, <1>5, <1>6, <1>7, <1>8, <1>9 DEF Copies

LEMMA JoinerFacts ==
    ASSUME TypeInv, NEW c \in Joins, StoreJoiner(c)
    PROVE  /\ mem'.up = mem.up /\ mem'.commit = mem.commit /\ mem'.next = c + 1
           /\ hist'.newest = hist.newest /\ hist'.cleared = hist.cleared
           /\ hist'.sunk = hist.sunk /\ hist'.lost = hist.lost
           /\ hist'.unsaved = hist.unsaved /\ hist'.since = hist.since
           /\ c \in Nat /\ hist'.told >= hist.told /\ hist'.told >= c
           /\ UNCHANGED <<disk, file, lock, req, ticker, app, exit>>
<1>1. mem \in Mem /\ hist \in Hist /\ c \in Nat
  BY Constants DEF TypeInv, TypeOK
<1>2. /\ mem' = [mem EXCEPT !.next = c + 1]
      /\ hist' = [hist EXCEPT !.told = IF c > hist.told THEN c ELSE hist.told]
  BY <1>1 DEF StoreJoiner, Hist
<1>3. hist.told \in Int
  <2>1. hist.told \in Index \cup {Absent}
    BY <1>1 DEF Hist
  <2> QED BY <2>1, Constants, Integer
<1> HIDE DEF Index, NextIndex
<1>4. hist'.told = IF c > hist.told THEN c ELSE hist.told
  BY <1>1, <1>2 DEF Hist
<1>5. hist'.told >= hist.told /\ hist'.told >= c
  BY <1>1, <1>3, <1>4
<1>6. /\ hist'.newest = hist.newest /\ hist'.cleared = hist.cleared
      /\ hist'.sunk = hist.sunk /\ hist'.lost = hist.lost
      /\ hist'.unsaved = hist.unsaved /\ hist'.since = hist.since
  BY <1>1, <1>2 DEF Hist
<1> QED BY <1>1, <1>2, <1>5, <1>6 DEF StoreJoiner, Mem

LEMMA RollbackFacts ==
    ASSUME TypeInv, NEW r \in Request, Rollback(r)
    PROVE  /\ req[r].phase = "sent" /\ req[r].index \in Index
           /\ req'[r].phase = "failed" /\ req'[r].live = req[r].live
           /\ req'[r].index = req[r].index /\ req'[r].term = req[r].term
           /\ req'[r].copy = req[r].copy
           /\ \A q \in Request \ {r} : req'[q] = req[q]
           /\ disk'.last = disk.last
           /\ disk'.log[req[r].index] \in {None, disk.log[req[r].index]}
           /\ \A i \in Index \ {req[r].index} : disk'.log[i] = disk.log[i]
           /\ hist'.newest = hist.newest /\ hist'.cleared = hist.cleared \cup {req[r].index}
           /\ hist'.sunk = hist.sunk /\ hist'.lost = hist.lost
           /\ hist'.unsaved = hist.unsaved /\ hist'.since = hist.since
           /\ hist'.told = hist.told
           /\ UNCHANGED <<mem, file, lock, ticker, app, exit>>
<1>1. hist \in Hist /\ disk \in Disk /\ req[r].index \in Index
  BY DEF TypeInv, TypeOK, Req
<1>2. /\ req[r].phase = "sent" /\ To(r, "failed")
      /\ disk' = Delete(disk, req[r].index) \/ disk' = disk
      /\ hist' = [hist EXCEPT !.cleared = hist.cleared \cup {req[r].index}]
      /\ UNCHANGED <<mem, file, lock, ticker, app, exit>>
  BY <1>1 DEF Rollback, At, Hist
<1>3. /\ req'[r].phase = "failed" /\ req'[r].live = req[r].live
      /\ req'[r].index = req[r].index /\ req'[r].term = req[r].term
      /\ req'[r].copy = req[r].copy
      /\ \A q \in Request \ {r} : req'[q] = req[q]
  BY <1>2, ReqType DEF TypeInv
<1> HIDE DEF Index
<1>4. /\ disk'.last = disk.last
      /\ disk'.log[req[r].index] \in {None, disk.log[req[r].index]}
      /\ \A i \in Index \ {req[r].index} : disk'.log[i] = disk.log[i]
  BY <1>1, <1>2, DeleteFacts
<1>5. /\ hist'.newest = hist.newest /\ hist'.cleared = hist.cleared \cup {req[r].index}
      /\ hist'.sunk = hist.sunk /\ hist'.lost = hist.lost
      /\ hist'.unsaved = hist.unsaved /\ hist'.since = hist.since /\ hist'.told = hist.told
  BY <1>1, <1>2 DEF Hist
<1> QED BY <1>1, <1>2, <1>3, <1>4, <1>5

LEMMA TickerFacts ==
    ASSUME TypeInv, Lead \/ PutTermEntry
    PROVE  /\ UNCHANGED <<file, req, app, exit>>
           /\ mem'.up = mem.up /\ mem'.commit = mem.commit /\ mem'.next = mem.next
           /\ \/ ticker # "putting" /\ ticker' # "putting" /\ UNCHANGED <<disk, lock, hist>>
              \/ \E e \in Entry :
                   \/ ticker = "entry" /\ ticker' = "putting" /\ BeginSet(Ticker, 0, e)
                   \/ ticker = "putting" /\ ticker' = "idle" /\ EndSet(Ticker, 0, e)
<1>1. mem \in Mem
  BY DEF TypeInv, TypeOK
<1>2. CASE Lead
  <2>1. mem' = [mem EXCEPT !.leading = TRUE, !.term = mem.term + 1]
    BY <1>1, <1>2 DEF Lead, Mem
  <2> HIDE DEF Index
  <2> QED BY <1>1, <1>2, <2>1 DEF Lead, Mem
<1>3. CASE PutTermEntry
  BY <1>3, EntryTypes DEF PutTermEntry, DropSet, TypeInv
<1> QED BY <1>2, <1>3

LEMMA HeardFacts ==
    ASSUME TypeInv, Hears
    PROVE  /\ app.phase = "idle" /\ app'.phase \notin Between
           /\ app'.phase = "cutting" => app'.at = app'.lo
           /\ mem'.up = mem.up /\ mem'.commit = mem.commit /\ mem'.next = mem.next
           /\ UNCHANGED <<disk, file, lock, req, ticker, exit, hist>>
<1>1. PICK t \in Nat, k \in App : Follow(t, k) /\ Begun(k)
  BY HearsFollow
<1>2. mem \in Mem /\ mem' = [mem EXCEPT !.leading = FALSE, !.term = t]
  BY <1>1 DEF Follow, TypeInv, TypeOK
<1> HIDE DEF Index, NextIndex
<1>3. mem'.up = mem.up /\ mem'.commit = mem.commit /\ mem'.next = mem.next
  BY <1>2 DEF Mem
<1> QED BY <1>1, <1>3 DEF Follow, Begun, Between

LEMMA SkipFacts ==
    ASSUME TypeInv, SkipHole
    PROVE  /\ app.phase = "storing" /\ app'.phase = "storing"
           /\ UNCHANGED <<mem, disk, file, lock, req, ticker, exit, hist>>
<1>1. app \in App /\ app' = [app EXCEPT !.at = app.at + 1, !.pads = app.pads + 1]
  BY DEF SkipHole, TypeInv, TypeOK, App
<1> HIDE DEF Index, NextIndex
<1> QED BY <1>1 DEF SkipHole, App

LEMMA CutFacts ==
    ASSUME TypeInv, Cut
    PROVE  /\ app.phase = "cutting" /\ app'.phase = "cutting" /\ app.at \in Index
           /\ app'.at = app.at + 1 /\ app'.lo = app.lo
           /\ disk'.last = disk.last /\ disk'.log[app.at] = None
           /\ \A i \in Index \ {app.at} : disk'.log[i] = disk.log[i]
           /\ hist'.newest = hist.newest /\ hist'.cleared = hist.cleared \cup {app.at}
           /\ hist'.sunk = hist.sunk /\ hist'.lost = hist.lost
           /\ hist'.unsaved = hist.unsaved \cup SetsAt(app.at)
           /\ hist'.since = hist.since \ {app.at} /\ hist'.told = hist.told
           /\ UNCHANGED <<mem, file, lock, req, ticker, exit>>
<1>1. app \in App /\ hist \in Hist /\ disk \in Disk
  BY DEF TypeInv, TypeOK
<1>2. /\ disk' = Delete(disk, app.at) /\ app.phase = "cutting" /\ app.at <= app.hi
      /\ app' = [app EXCEPT !.at = app.at + 1]
      /\ hist' = [hist EXCEPT !.cleared = hist.cleared \cup {app.at},
                              !.since = hist.since \ {app.at},
                              !.unsaved = hist.unsaved \cup SetsAt(app.at)]
      /\ UNCHANGED <<mem, file, lock, req, ticker, exit>>
  BY <1>1 DEF Cut, CutGoesOn, App, Hist
<1>3. app.at \in Index
  BY <1>1, <1>2, Constants DEF App, Index, NextIndex
<1> HIDE DEF Index
<1>4. /\ disk'.last = disk.last /\ disk'.log[app.at] = None
      /\ \A i \in Index \ {app.at} : disk'.log[i] = disk.log[i]
  BY <1>1, <1>2, <1>3, DeleteFacts
<1>5. app'.phase = "cutting" /\ app'.at = app.at + 1 /\ app'.lo = app.lo
  BY <1>1, <1>2 DEF App
<1>6. /\ hist'.newest = hist.newest /\ hist'.cleared = hist.cleared \cup {app.at}
      /\ hist'.sunk = hist.sunk /\ hist'.lost = hist.lost
      /\ hist'.unsaved = hist.unsaved \cup SetsAt(app.at)
      /\ hist'.since = hist.since \ {app.at} /\ hist'.told = hist.told
  BY <1>1, <1>2 DEF Hist
<1> QED BY <1>2, <1>3, <1>4, <1>5, <1>6

LEMMA EndCutFacts ==
    ASSUME TypeInv, EndCut
    PROVE  /\ app.phase = "cutting" /\ app'.phase = "idle"
           /\ hist'.newest = hist.newest /\ hist'.cleared = hist.cleared
           /\ hist'.sunk = hist.sunk /\ hist'.lost = hist.lost /\ hist'.unsaved = hist.unsaved
           /\ hist'.told = hist.told
           /\ UNCHANGED <<mem, disk, file, lock, req, ticker, exit>>
<1>1. hist \in Hist
  BY DEF TypeInv, TypeOK
<1>2. hist' = [hist EXCEPT !.since = {}] /\ app' = NoAppend
  BY DEF EndCut
<1> HIDE DEF Index
<1> QED BY <1>1, <1>2 DEF EndCut, Hist, NoAppend

LEMMA CommitFacts ==
    ASSUME TypeInv, Measure \/ Advance
    PROVE  /\ {app.phase, app'.phase} \cap (Between \cup {"cutting"}) = {}
           /\ mem.up /\ mem'.up /\ mem'.next = mem.next
           /\ UNCHANGED <<disk, file, lock, req, ticker, exit>>
           /\ hist'.newest = hist.newest /\ hist'.cleared = hist.cleared
           /\ hist'.lost = hist.lost /\ hist'.unsaved = hist.unsaved /\ hist'.since = hist.since
           /\ hist'.told = hist.told
           /\ \/ mem'.commit = mem.commit /\ hist'.sunk = hist.sunk
              \/ hist'.sunk = hist.sunk \cup Above(mem'.commit)
<1>1. mem \in Mem /\ hist \in Hist /\ app \in App /\ mem.commit \in Index
  BY DEF TypeInv, TypeOK, Mem
<1>2. CASE Measure
  <2>1. /\ mem.up /\ app.phase \in {"leaving", "storing"}
        /\ UNCHANGED <<disk, file, lock, req, ticker, exit, hist>>
        /\ \/ (\E n : app' = [app EXCEPT !.phase = "advancing", !.commit = n]) /\ UNCHANGED mem
           \/ Leave(mem.commit)
    BY <1>1, <1>2 DEF Measure, App
  <2>2. CASE Leave(mem.commit)
    <3>1. /\ mem'.commit = mem.commit /\ mem'.up = mem.up /\ mem'.next = mem.next
          /\ app' = NoAppend
      BY <1>1, <2>2, LeaveType
    <3> QED BY <2>1, <3>1 DEF NoAppend, Between
  <2>3. CASE (\E n : app' = [app EXCEPT !.phase = "advancing", !.commit = n]) /\ UNCHANGED mem
    <3>1. app'.phase = "advancing"
      BY <1>1, <2>3 DEF App
    <3> QED BY <2>1, <2>3, <3>1 DEF Between
  <2> QED BY <2>1, <2>2, <2>3
<1>3. CASE Advance
  <2>1. /\ mem.up /\ app.phase = "advancing" /\ Leave(app.commit)
        /\ hist' = [hist EXCEPT !.sunk = hist.sunk \cup Above(app.commit)]
        /\ UNCHANGED <<disk, file, lock, req, ticker, exit>>
    BY <1>1, <1>3 DEF Advance, Hist
  <2>2. mem'.commit = app.commit /\ mem'.up = mem.up /\ mem'.next = mem.next /\ app' = NoAppend
    BY <2>1, LeaveType DEF TypeInv, AppendWithin
  <2>3. /\ hist'.newest = hist.newest /\ hist'.cleared = hist.cleared
        /\ hist'.lost = hist.lost /\ hist'.unsaved = hist.unsaved /\ hist'.since = hist.since
        /\ hist'.told = hist.told
        /\ hist'.sunk = hist.sunk \cup Above(app.commit)
    BY <1>1, <2>1 DEF Hist
  <2> QED BY <2>1, <2>2, <2>3 DEF NoAppend, Between
<1> QED BY <1>2, <1>3

LEMMA ExitingFacts ==
    ASSUME TypeInv, Signal \/ CreateStore \/ WriteStore
    PROVE  /\ mem.up /\ UNCHANGED <<mem, disk, lock, req, ticker, app, hist>>
           /\ \/ /\ exit'.phase = "reading" /\ exit'.state.next = mem.next /\ UNCHANGED file
              \/ /\ exit.phase = "reading" /\ exit'.phase = "created" /\ file' = None
                 /\ exit'.state.next = exit.state.next /\ exit'.state.commit = mem.commit
              \/ /\ exit.phase = "created" /\ exit'.phase = "closed" /\ exit'.state.next = 1
                 /\ file' = exit.state
<1>1. exit.state \in Stored /\ Zero \in Stored
  BY Constants DEF TypeInv, TypeOK, Exiting
<1>2. mem.up /\ UNCHANGED <<mem, disk, lock, req, ticker, app, hist>>
  BY DEF Signal, CreateStore, WriteStore, Exits
<1>3. CASE Signal
  <2>1. exit' = [phase |-> "reading", state |-> [Zero EXCEPT !.next = mem.next]] /\ UNCHANGED file
    BY <1>3 DEF Signal, Exits, ReadState, Reads
  <2>2. [Zero EXCEPT !.next = mem.next].next = mem.next
    BY DEF Zero
  <2> QED BY <1>2, <2>1, <2>2
<1>4. CASE CreateStore
  <2> DEFINE s == [exit.state EXCEPT !.commit = mem.commit]
  <2>1. /\ exit' = [phase |-> "created", state |-> s]
        /\ exit.phase = "reading" /\ file' = None
    BY <1>4 DEF CreateStore, Exits, ReadState, Reads
  <2>2. s.next = exit.state.next /\ s.commit = mem.commit
    BY <1>1 DEF Stored
  <2> HIDE DEF s
  <2> QED BY <1>2, <2>1, <2>2
<1>5. CASE WriteStore
  <2>1. /\ exit' = [phase |-> "closed", state |-> Zero]
        /\ exit.phase = "created" /\ file' = exit.state
    BY <1>5 DEF WriteStore, Exits
  <2> QED BY <1>2, <2>1 DEF Zero
<1> QED BY <1>3, <1>4, <1>5

LEMMA DieFacts ==
    ASSUME TypeInv, Die
    PROVE  /\ ~mem'.up /\ mem'.next = 1 /\ mem'.commit = 0
           /\ lock' = None /\ ticker' = "idle" /\ app'.phase = "idle"
           /\ exit'.phase = "none" /\ exit'.state.next = 1
           /\ UNCHANGED <<disk, file>>
           /\ hist'.newest = disk.last /\ hist'.cleared = hist.cleared
           /\ hist'.sunk = hist.sunk /\ hist'.lost = hist.lost /\ hist'.unsaved = hist.unsaved
           /\ hist'.told = hist.told
           /\ \A r \in Request :
                /\ ~req'[r].live /\ req'[r].index = req[r].index /\ req'[r].term = req[r].term
                /\ req'[r].copy = Absent
                /\ req'[r].phase = IF req[r].phase \in {"new", "ok"} THEN req[r].phase ELSE "failed"
<1>1. /\ mem' = [up |-> FALSE, leading |-> FALSE, term |-> 0, commit |-> 0, next |-> 1]
      /\ hist' = [hist EXCEPT !.newest = disk.last, !.since = {}]
      /\ lock' = None /\ ticker' = "idle" /\ app' = NoAppend /\ exit' = Running
      /\ UNCHANGED <<disk, file>>
  BY DEF Die
<1>2. hist \in Hist
  BY DEF TypeInv, TypeOK
<1>3. ASSUME NEW r \in Request
      PROVE  /\ ~req'[r].live /\ req'[r].index = req[r].index /\ req'[r].term = req[r].term
             /\ req'[r].copy = Absent
             /\ req'[r].phase = IF req[r].phase \in {"new", "ok"} THEN req[r].phase ELSE "failed"
  <2>1. req[r] \in Req
    BY DEF TypeInv, TypeOK
  <2>2. req'[r] = [req[r] EXCEPT !.live = FALSE, !.copy = Absent,
                                 !.phase = IF req[r].phase \in {"new", "ok"}
                                           THEN req[r].phase ELSE "failed"]
    BY <2>1 DEF Die, Req
  <2> HIDE DEF Index
  <2> QED BY <2>1, <2>2 DEF Req
<1> HIDE DEF Index
<1>4. /\ hist'.newest = disk.last /\ hist'.cleared = hist.cleared
      /\ hist'.sunk = hist.sunk /\ hist'.lost = hist.lost /\ hist'.unsaved = hist.unsaved
      /\ hist'.told = hist.told
  BY <1>1, <1>2 DEF Hist
<1> QED BY <1>1, <1>3, <1>4 DEF NoAppend, Running, Zero

LEMMA BootFacts ==
    ASSUME TypeInv, Boot
    PROVE  /\ ~mem.up /\ mem'.up
           /\ \/ file = None /\ mem'.commit = 0 /\ mem'.next = 1
              \/ file # None /\ mem'.commit = file.commit /\ mem'.next = file.next
           /\ hist'.newest = hist.newest /\ hist'.cleared = hist.cleared
           /\ hist'.sunk = hist.sunk /\ hist'.lost = hist.lost \cup Above(mem'.commit)
           /\ hist'.unsaved = hist.unsaved /\ hist'.since = hist.since
           /\ hist'.told = hist.told
           /\ UNCHANGED <<disk, file, lock, req, ticker, app, exit>>
<1> DEFINE s == IF file = None THEN Zero ELSE file
<1>1. /\ ~mem.up
      /\ mem' = [up |-> TRUE, leading |-> FALSE, term |-> BootTerm(disk),
                 commit |-> s.commit, next |-> s.next]
      /\ hist' = [hist EXCEPT !.lost = hist.lost \cup Above(s.commit)]
      /\ UNCHANGED <<disk, file, lock, req, ticker, app, exit>>
  BY DEF Boot
<1>2. hist \in Hist
  BY DEF TypeInv, TypeOK
<1> HIDE DEF Index
<1> QED BY <1>1, <1>2 DEF Hist, Zero

\* What a step may be.
Kinds ==
    \/ UNCHANGED vars
    \/ \E r \in Request : \/ Admit(r) \/ Reserve(r) \/ PreCommit(r) \/ Acknowledge(r)
                          \/ Rollback(r) \/ Copies(r)
    \/ \E c \in Joins : StoreJoiner(c)
    \/ Lead \/ PutTermEntry
    \/ Hears \/ SkipHole \/ StoreEntry \/ NameEntry \/ Cut \/ EndCut \/ Measure \/ Advance
    \/ Signal \/ CreateStore \/ WriteStore \/ Die \/ Boot

LEMMA StepKinds == [Next]_vars => Kinds
<1>1. Replicate => \E r \in Request : Copies(r)
  BY DEF Replicate, Copies
<1>2. HandleAppend => \/ Hears \/ SkipHole \/ StoreEntry \/ NameEntry \/ Cut \/ EndCut
                      \/ Measure \/ Advance
  BY DEF HandleAppend, Hears
<1> QED BY <1>1, <1>2 DEF Next, HandleSet, Shutdown, Exit, Crash, Kinds

-----------------------------------------------------------------------------
(* The handlers of SETs, and the index each has. *)

\* Nobody exits in a process that does not run.
SetInv ==
    /\ \A r \in Request : SetWithin(r)
    /\ exit.phase # "none" => mem.up

\* An index, and the term it was reserved in, stay until the next reservation.
LEMMA IndexStays ==
    ASSUME TypeInv, SetInv, Kinds, NEW r \in Request
    PROVE  \/ req'[r].index = req[r].index /\ (req[r].index # 0 => req'[r].term = req[r].term)
           \/ Reserve(r) /\ req[r].index = 0
<1>1. CASE UNCHANGED vars
  BY <1>1 DEF vars
<1>2. ASSUME NEW q \in Request, Admit(q)
      PROVE  req'[r].index = req[r].index /\ (req[r].index # 0 => req'[r].term = req[r].term)
  <2>1. SetWithin(q)
    BY DEF SetInv
  <2> QED BY <1>2, <2>1, AdmitFacts DEF SetWithin
<1>3. ASSUME NEW q \in Request, Reserve(q)
      PROVE  \/ req'[r].index = req[r].index /\ (req[r].index # 0 => req'[r].term = req[r].term)
             \/ Reserve(r) /\ req[r].index = 0
  <2>1. SetWithin(q)
    BY DEF SetInv
  <2> QED BY <1>3, <2>1, ReserveFacts DEF SetWithin
<1>4. ASSUME NEW q \in Request,
             PreCommit(q) \/ Acknowledge(q) \/ Copies(q) \/ Rollback(q)
      PROVE  req'[r].index = req[r].index /\ req'[r].term = req[r].term
  BY <1>4, PreCommitFacts, AckFacts, CopiesFacts, RollbackFacts
<1>5. CASE Die
  BY <1>5, DieFacts
<1>6. CASE Hears
  BY <1>6, HeardFacts
<1> QED BY <1>1, <1>2, <1>3, <1>4, <1>5, <1>6, TickerFacts, SkipFacts, StoreFacts, CutFacts,
           EndCutFacts, JoinerFacts, CommitFacts, ExitingFacts, BootFacts DEF Kinds

LEMMA SetStep ==
    ASSUME TypeInv, SetInv, Kinds
    PROVE  SetInv'
<1> DEFINE Kept == UNCHANGED <<req, exit>> /\ mem'.up = mem.up
<1>1. ASSUME Kept PROVE SetInv'
  BY <1>1 DEF SetInv, SetWithin
<1>2. CASE UNCHANGED vars
  BY <1>1, <1>2 DEF vars
<1>3. ASSUME NEW r \in Request, Admit(r) PROVE SetInv'
  <2>1. mem'.up /\ SetWithin(r)'
    BY <1>3, AdmitFacts DEF SetInv, SetWithin
  <2> QED BY <1>3, <2>1, AdmitFacts DEF SetInv, SetWithin
<1>4. ASSUME NEW r \in Request, Reserve(r) PROVE SetInv'
  <2>1. mem'.up /\ mem.commit \in Nat /\ UNCHANGED exit
    BY <1>4, Constants, ReserveFacts DEF SetInv, SetWithin, TypeInv, TypeOK, Mem
  <2>2. req'[r].phase = "reserved" /\ req'[r].index = mem.commit + 1 /\ req'[r].live
    BY <1>4, ReserveFacts
  <2>3. mem.commit + 1 # 0
    BY <2>1
  <2>4. SetWithin(r)'
    BY <2>1, <2>2, <2>3 DEF SetWithin
  <2>5. ASSUME NEW q \in Request \ {r} PROVE SetWithin(q)'
    <3>1. req'[q] = req[q]
      BY <1>4, ReserveFacts
    <3> QED BY <2>1, <3>1 DEF SetInv, SetWithin
  <2> QED BY <2>1, <2>4, <2>5 DEF SetInv
<1>5. ASSUME NEW r \in Request, PreCommit(r) \/ Acknowledge(r) \/ Rollback(r) PROVE SetInv'
  <2>1. /\ req[r].phase \in {"reserved", "putting", "sent"}
        /\ req'[r].phase \in {"putting", "sent", "ok", "failed"}
        /\ req'[r].index = req[r].index /\ req'[r].live = req[r].live
        /\ \A q \in Request \ {r} : req'[q] = req[q]
        /\ UNCHANGED <<mem, exit>>
    BY <1>5, PreCommitFacts, AckFacts, RollbackFacts
  <2>2. SetWithin(r)'
    BY <2>1 DEF SetInv, SetWithin
  <2>3. ASSUME NEW q \in Request \ {r} PROVE SetWithin(q)'
    BY <2>1 DEF SetInv, SetWithin
  <2> QED BY <2>1, <2>2, <2>3 DEF SetInv
<1>6. ASSUME NEW r \in Request, Copies(r) PROVE SetInv'
  <2>1. /\ req[r].phase \in {"sent", "ok"} /\ req'[r].phase = req[r].phase
        /\ req'[r].index = req[r].index /\ req'[r].live = req[r].live
        /\ \A q \in Request \ {r} : req'[q] = req[q]
        /\ UNCHANGED exit /\ mem'.up = mem.up
    BY <1>6, CopiesFacts
  <2>2. SetWithin(r)'
    BY <2>1 DEF SetInv, SetWithin
  <2>3. ASSUME NEW q \in Request \ {r} PROVE SetWithin(q)'
    BY <2>1 DEF SetInv, SetWithin
  <2> QED BY <2>1, <2>2, <2>3 DEF SetInv
<1>7. CASE Hears
  BY <1>1, <1>7, HeardFacts
<1>8. CASE SkipHole \/ Lead \/ PutTermEntry \/ StoreEntry \/ NameEntry \/ Cut \/ EndCut \/ Measure \/ Advance
  <2>1. CASE Lead \/ PutTermEntry
    BY <1>1, <2>1, TickerFacts
  <2>2. CASE StoreEntry \/ NameEntry
    BY <1>1, <2>2, StoreFacts
  <2>3. CASE Cut \/ EndCut
    BY <1>1, <2>3, CutFacts, EndCutFacts
  <2>4. CASE Measure \/ Advance
    <3>1. UNCHANGED <<req, exit>> /\ mem'.up /\ mem.up
      BY <2>4, CommitFacts
    <3> QED BY <3>1 DEF SetInv, SetWithin
  <2>5. CASE SkipHole
    BY <1>1, <2>5, SkipFacts
  <2> QED BY <1>8, <2>1, <2>2, <2>3, <2>4, <2>5
<1>9. CASE Signal \/ CreateStore \/ WriteStore
  BY <1>9, ExitingFacts DEF SetInv, SetWithin
<1>10. CASE Die
  BY <1>10, DieFacts DEF SetInv, SetWithin
<1>11. CASE Boot
  BY <1>11, BootFacts DEF SetInv, SetWithin
<1>12. ASSUME NEW c \in Joins, StoreJoiner(c) PROVE SetInv'
  BY <1>1, <1>12, JoinerFacts
<1> QED BY <1>2, <1>3, <1>4, <1>5, <1>6, <1>7, <1>8, <1>9, <1>10, <1>11, <1>12 DEF Kinds
-----------------------------------------------------------------------------
(* LAST_INDEX_KEY. *)

\* A put has an entry; what is deleted is remembered as cleared.
LEMMA WrittenStays ==
    ASSUME TypeInv, Kinds, NEW i \in Index, Written(i)
    PROVE  Written(i)'
<1> HIDE DEF Index
<1>1. CASE UNCHANGED <<disk, hist>>
  BY <1>1 DEF Written
<1>2. ASSUME NEW who, NEW j \in Index, NEW e \in Entry, BeginSet(who, j, e)
      PROVE  Written(i)'
  <2>1. e # None
    BY ConstantAssumption
  <2>2. /\ disk'.log[j] = e /\ hist'.cleared = hist.cleared \ {j}
        /\ \A h \in Index \ {j} : disk'.log[h] = disk.log[h]
    BY <1>2, BeginFacts DEF TypeInv
  <2> QED BY <2>1, <2>2 DEF Written
<1>3. ASSUME NEW who, NEW j \in Index, NEW e \in Entry, EndSet(who, j, e)
      PROVE  Written(i)'
  <2>1. disk'.log = disk.log /\ hist'.cleared = hist.cleared
    BY <1>3, EndFacts DEF TypeInv
  <2> QED BY <2>1 DEF Written
<1>4. CASE disk'.log = disk.log /\ hist'.cleared = hist.cleared
  BY <1>4 DEF Written
<1>5. ASSUME NEW r \in Request, PreCommit(r) PROVE Written(i)'
  <2>1. /\ req[r].index \in Index /\ EntryOf(r) \in Entry
        /\ \/ BeginSet(r, req[r].index, EntryOf(r)) \/ EndSet(r, req[r].index, EntryOf(r))
           \/ UNCHANGED disk /\ hist'.cleared = hist.cleared
    BY <1>5, PreCommitFacts
  <2> QED BY <1>2, <1>3, <1>4, <2>1
<1>6. ASSUME NEW r \in Request, Rollback(r) PROVE Written(i)'
  BY <1>6, RollbackFacts DEF Written
<1>7. CASE Lead \/ PutTermEntry
  <2>1. \/ UNCHANGED <<disk, hist>>
        \/ \E e \in Entry : BeginSet(Ticker, 0, e) \/ EndSet(Ticker, 0, e)
    BY <1>7, TickerFacts
  <2> QED BY <1>1, <1>2, <1>3, <2>1, Constants
<1>8. CASE StoreEntry \/ NameEntry
  <2>1. \/ UNCHANGED <<disk, hist>>
        \/ \E e \in Entry : BeginSet(Appender, Place, e) \/ EndSet(Appender, Place, e)
    BY <1>8, StoreFacts
  <2>2. Place \in Index
    BY <1>8, StoreFacts
  <2> QED BY <1>1, <1>2, <1>3, <2>1, <2>2
<1>9. CASE Cut
  BY <1>9, CutFacts DEF Written
<1>10. ASSUME NEW r \in Request, Admit(r) \/ Reserve(r) \/ Acknowledge(r) \/ Copies(r)
       PROVE  Written(i)'
  BY <1>1, <1>10, AdmitFacts, ReserveFacts, AckFacts, CopiesFacts
<1>11. CASE EndCut \/ Measure \/ Advance
  <2>1. UNCHANGED disk /\ hist'.cleared = hist.cleared
    BY <1>11, EndCutFacts, CommitFacts
  <2> QED BY <1>4, <2>1
<1>12. CASE Die \/ Boot
  <2>1. UNCHANGED disk /\ hist'.cleared = hist.cleared
    BY <1>12, DieFacts, BootFacts
  <2> QED BY <1>4, <2>1
<1>13. CASE Signal \/ CreateStore \/ WriteStore
  BY <1>1, <1>13, ExitingFacts
<1>14. CASE Hears
  BY <1>1, <1>14, HeardFacts
<1>15. CASE UNCHANGED vars
  BY <1>1, <1>15 DEF vars
<1>16. CASE SkipHole
  BY <1>1, <1>16, SkipFacts
<1>17. ASSUME NEW c \in Joins, StoreJoiner(c) PROVE Written(i)'
  <2>1. UNCHANGED disk /\ hist'.cleared = hist.cleared
    BY <1>17, JoinerFacts
  <2> QED BY <1>4, <2>1
<1> QED BY <1>5, <1>6, <1>7, <1>8, <1>9, <1>10, <1>11, <1>12, <1>13, <1>14, <1>15,
           <1>16, <1>17 DEF Kinds

LEMMA Holders ==
    /\ None \notin Request /\ Ticker \notin Request /\ Appender \notin Request
    /\ None # Ticker /\ None # Appender /\ Ticker # Appender
BY ConstantAssumption DEF Ticker, Appender

\* LAST_INDEX_KEY stays, or is put from the lock that is held; who takes the
\* lock has put its entry.
KeyMoves ==
    /\ disk'.last = disk.last \/ (lock # None /\ disk'.last = LastAfter(disk.last, Held))
    /\ lock' # None => \/ lock' = lock /\ Held' = Held
                       \/ Held' \in Index /\ Written(Held)'

\* Nobody takes or releases the lock.
LEMMA KeyKept ==
    ASSUME KeyIsBehind, UNCHANGED lock, disk'.last = disk.last, hist'.newest = hist.newest,
           \A r \in Request : /\ req'[r].phase = "putting" <=> req[r].phase = "putting"
                              /\ req[r].phase = "putting" => req'[r].index = req[r].index,
           ticker' = "putting" <=> ticker = "putting",
           app' = app \/ {app.phase, app'.phase} \cap Between = {}
    PROVE  KeyIsBehind' /\ KeyMoves
<1>0. lock = Appender => app' = app
  BY DEF KeyIsBehind
<1>1. lock # None => Held' = Held
  BY <1>0 DEF Held, KeyIsBehind, Place, Padding
<1>2. /\ \A r \in Request : req'[r].phase = "putting" <=> lock' = r
      /\ ticker' = "putting" <=> lock' = Ticker
      /\ app'.phase \in Between <=> lock' = Appender
  BY DEF KeyIsBehind
<1>3. hist'.newest = IF lock' = None THEN disk'.last ELSE LastAfter(disk'.last, Held')
  BY <1>1 DEF KeyIsBehind
<1> QED BY <1>1, <1>2, <1>3 DEF KeyIsBehind, KeyMoves

\* A Set begins.
LEMMA KeyBegun ==
    ASSUME TypeInv, KeyIsBehind, NEW who \in Request \cup {Ticker, Appender},
           NEW i \in Index, NEW e \in Entry, BeginSet(who, i, e), lock # who, Held' = i,
           \A r \in Request : req'[r].phase = "putting" <=> (who = r \/ req[r].phase = "putting"),
           ticker' = "putting" <=> (who = Ticker \/ ticker = "putting"),
           app'.phase \in Between <=> (who = Appender \/ app.phase \in Between)
    PROVE  KeyIsBehind' /\ KeyMoves
<1>1. /\ lock = None /\ lock' = who /\ disk'.last = disk.last /\ disk'.log[i] = e
      /\ hist'.newest = LastAfter(hist.newest, i)
  BY BeginFacts DEF TypeInv
<1>2. e # None /\ who # None
  BY Holders, ConstantAssumption
<1>3. hist'.newest = IF lock' = None THEN disk'.last ELSE LastAfter(disk'.last, Held')
  BY <1>1, <1>2 DEF KeyIsBehind
<1>4. \A r \in Request : req'[r].phase = "putting" <=> lock' = r
  BY <1>1, Holders DEF KeyIsBehind
<1>5. (ticker' = "putting" <=> lock' = Ticker) /\ (app'.phase \in Between <=> lock' = Appender)
  BY <1>1, Holders DEF KeyIsBehind
<1> HIDE DEF Index
<1>6. KeyMoves
  BY <1>1, <1>2 DEF KeyMoves, Written
<1> QED BY <1>3, <1>4, <1>5, <1>6 DEF KeyIsBehind

\* A Set ends.
LEMMA KeyEnded ==
    ASSUME TypeInv, KeyIsBehind, NEW who \in Request \cup {Ticker, Appender},
           NEW i \in Index, NEW e \in Entry, EndSet(who, i, e), lock = who, Held = i,
           \A r \in Request : req'[r].phase = "putting" <=> (who # r /\ req[r].phase = "putting"),
           ticker' = "putting" <=> (who # Ticker /\ ticker = "putting"),
           app'.phase \in Between <=> (who # Appender /\ app.phase \in Between)
    PROVE  KeyIsBehind' /\ KeyMoves
<1>1. /\ lock' = None
      /\ \/ disk'.last = LastAfter(disk.last, i) /\ hist'.newest = hist.newest
         \/ disk'.last = disk.last /\ hist'.newest = disk.last
  BY EndFacts DEF TypeInv
<1>2. who # None
  BY Holders
<1>3. hist'.newest = disk'.last
  BY <1>1, <1>2 DEF KeyIsBehind
<1>4. \A r \in Request : req'[r].phase = "putting" <=> lock' = r
  BY <1>1, Holders DEF KeyIsBehind
<1>5. (ticker' = "putting" <=> lock' = Ticker) /\ (app'.phase \in Between <=> lock' = Appender)
  BY <1>1, Holders DEF KeyIsBehind
<1>6. KeyMoves
  BY <1>1, <1>2 DEF KeyMoves
<1> QED BY <1>1, <1>3, <1>4, <1>5, <1>6 DEF KeyIsBehind
LEMMA KeyStep ==
    ASSUME TypeInv, SetInv, KeyIsBehind, Kinds
    PROVE  KeyIsBehind' /\ KeyMoves
<1>1. CASE UNCHANGED vars
  BY <1>1, KeyKept DEF vars
<1>2. ASSUME NEW r \in Request, Admit(r) PROVE KeyIsBehind' /\ KeyMoves
  <2>1. /\ UNCHANGED <<disk, lock, ticker, app, hist>>
        /\ req[r].phase = "new" /\ req'[r].phase = "admitted"
        /\ \A q \in Request \ {r} : req'[q] = req[q]
    BY <1>2, AdmitFacts
  <2>2. \A q \in Request : /\ req'[q].phase = "putting" <=> req[q].phase = "putting"
                           /\ req[q].phase = "putting" => req'[q].index = req[q].index
    BY <2>1
  <2> QED BY <2>1, <2>2, KeyKept
<1>3. ASSUME NEW r \in Request, Reserve(r) PROVE KeyIsBehind' /\ KeyMoves
  <2>1. /\ UNCHANGED <<disk, lock, ticker, app, hist>>
        /\ req[r].phase = "admitted" /\ req'[r].phase = "reserved"
        /\ \A q \in Request \ {r} : req'[q] = req[q]
    BY <1>3, ReserveFacts
  <2>2. \A q \in Request : /\ req'[q].phase = "putting" <=> req[q].phase = "putting"
                           /\ req[q].phase = "putting" => req'[q].index = req[q].index
    BY <2>1
  <2> QED BY <2>1, <2>2, KeyKept
<1>4. ASSUME NEW r \in Request, PreCommit(r) PROVE KeyIsBehind' /\ KeyMoves
  <2>1. /\ UNCHANGED <<ticker, app>>
        /\ req'[r].index = req[r].index
        /\ \A q \in Request \ {r} : req'[q] = req[q]
        /\ req[r].index \in Index /\ EntryOf(r) \in Entry
    BY <1>4, PreCommitFacts
  <2>2. CASE /\ req[r].phase = "reserved" /\ req'[r].phase = "putting"
             /\ BeginSet(r, req[r].index, EntryOf(r))
    <3>1. lock # r
      BY <2>2 DEF KeyIsBehind
    <3>2. Held' = req[r].index
      <4>1. lock' = r
        BY <2>1, <2>2, BeginFacts DEF TypeInv
      <4> QED BY <2>1, <4>1 DEF Held
    <3>3. \A q \in Request : req'[q].phase = "putting" <=> (r = q \/ req[q].phase = "putting")
      BY <2>1, <2>2
    <3>4. r # Ticker /\ r # Appender
      BY Holders
    <3> QED BY <2>1, <2>2, <3>1, <3>2, <3>3, <3>4, KeyBegun
  <2>3. CASE /\ req[r].phase = "putting" /\ req'[r].phase = "sent"
             /\ EndSet(r, req[r].index, EntryOf(r))
    <3>1. lock = r /\ Held = req[r].index
      BY <2>3 DEF KeyIsBehind, Held
    <3>2. \A q \in Request : req'[q].phase = "putting" <=> (r # q /\ req[q].phase = "putting")
      BY <2>1, <2>3
    <3>3. r # Ticker /\ r # Appender
      BY Holders
    <3> QED BY <2>1, <2>3, <3>1, <3>2, <3>3, KeyEnded
  <2>4. CASE /\ req[r].phase = "reserved" /\ req'[r].phase = "sent"
             /\ UNCHANGED <<disk, lock>> /\ hist'.newest = hist.newest
    <3>1. \A q \in Request : /\ req'[q].phase = "putting" <=> req[q].phase = "putting"
                             /\ req[q].phase = "putting" => req'[q].index = req[q].index
      BY <2>1, <2>4
    <3> QED BY <2>1, <2>4, <3>1, KeyKept
  <2> QED BY <1>4, <2>2, <2>3, <2>4, PreCommitFacts
<1>5. ASSUME NEW r \in Request, Acknowledge(r) \/ Rollback(r) PROVE KeyIsBehind' /\ KeyMoves
  <2>1. /\ UNCHANGED <<lock, ticker, app>> /\ disk'.last = disk.last /\ hist'.newest = hist.newest
        /\ req[r].phase = "sent" /\ req'[r].phase \in {"ok", "failed"}
        /\ \A q \in Request \ {r} : req'[q] = req[q]
    BY <1>5, AckFacts, RollbackFacts
  <2>2. \A q \in Request : /\ req'[q].phase = "putting" <=> req[q].phase = "putting"
                           /\ req[q].phase = "putting" => req'[q].index = req[q].index
    BY <2>1
  <2> QED BY <2>1, <2>2, KeyKept
<1>6. ASSUME NEW r \in Request, Copies(r) PROVE KeyIsBehind' /\ KeyMoves
  <2>1. /\ UNCHANGED <<disk, lock, ticker, app, hist>>
        /\ req'[r].phase = req[r].phase /\ req'[r].index = req[r].index
        /\ \A q \in Request \ {r} : req'[q] = req[q]
    BY <1>6, CopiesFacts
  <2>2. \A q \in Request : /\ req'[q].phase = "putting" <=> req[q].phase = "putting"
                           /\ req[q].phase = "putting" => req'[q].index = req[q].index
    BY <2>1
  <2> QED BY <2>1, <2>2, KeyKept
<1>7. CASE Lead \/ PutTermEntry
  <2>1. UNCHANGED <<req, app>>
    BY <1>7, TickerFacts
  <2>2. CASE ticker # "putting" /\ ticker' # "putting" /\ UNCHANGED <<disk, lock, hist>>
    BY <2>1, <2>2, KeyKept
  <2>3. ASSUME NEW e \in Entry, ticker # "putting", ticker' = "putting", BeginSet(Ticker, 0, e)
        PROVE  KeyIsBehind' /\ KeyMoves
    <3>1. lock # Ticker /\ lock' = Ticker
      BY <2>3, BeginFacts, Constants DEF KeyIsBehind, TypeInv
    <3>2. Held' = 0
      BY <3>1, Holders DEF Held
    <3> QED BY <2>1, <2>3, <3>1, <3>2, Holders, KeyBegun, Constants
  <2>4. ASSUME NEW e \in Entry, ticker = "putting", ticker' = "idle", EndSet(Ticker, 0, e)
        PROVE  KeyIsBehind' /\ KeyMoves
    <3>1. lock = Ticker /\ Held = 0
      BY <2>4, Holders DEF KeyIsBehind, Held
    <3> QED BY <2>1, <2>4, <3>1, Holders, KeyEnded, Constants
  <2> QED BY <1>7, <2>2, <2>3, <2>4, TickerFacts
<1>8. CASE StoreEntry \/ NameEntry
  <2>1. UNCHANGED <<req, ticker>> /\ Place \in Index
    BY <1>8, StoreFacts
  <2>2. CASE {app.phase, app'.phase} \cap Between = {} /\ UNCHANGED <<disk, lock, hist>>
    BY <2>1, <2>2, KeyKept
  <2>3. ASSUME NEW e \in Entry, app.phase \notin Between, app'.phase \in Between,
               Place' = Place, BeginSet(Appender, Place, e)
        PROVE  KeyIsBehind' /\ KeyMoves
    <3>1. lock # Appender /\ lock' = Appender
      BY <2>1, <2>3, BeginFacts DEF KeyIsBehind, TypeInv
    <3>2. Held' = Place
      BY <2>3, <3>1, Holders DEF Held
    <3> QED BY <2>1, <2>3, <3>1, <3>2, Holders, KeyBegun
  <2>4. ASSUME NEW e \in Entry, app.phase \in Between, app'.phase \notin Between,
               EndSet(Appender, Place, e)
        PROVE  KeyIsBehind' /\ KeyMoves
    <3>1. lock = Appender /\ Held = Place
      BY <2>4, Holders DEF KeyIsBehind, Held
    <3> QED BY <2>1, <2>4, <3>1, Holders, KeyEnded
  <2> QED BY <1>8, <2>2, <2>3, <2>4, StoreFacts
<1>9. CASE Cut \/ EndCut
  BY <1>9, CutFacts, EndCutFacts, KeyKept DEF Between
<1>10. CASE Measure \/ Advance
  BY <1>10, CommitFacts, KeyKept
<1>11. CASE Signal \/ CreateStore \/ WriteStore
  BY <1>11, ExitingFacts, KeyKept
<1>12. CASE Die
  <2>1. /\ lock' = None /\ ticker' = "idle" /\ app'.phase = "idle" /\ UNCHANGED disk
        /\ hist'.newest = disk.last
        /\ \A r \in Request : req'[r].phase # "putting"
    BY <1>12, DieFacts
  <2> QED BY <2>1, Holders DEF KeyIsBehind, KeyMoves, Between
<1>13. CASE Boot
  BY <1>13, BootFacts, KeyKept
<1>14. CASE Hears
  BY <1>14, HeardFacts, KeyKept DEF Between
<1>15. CASE SkipHole
  BY <1>15, SkipFacts, KeyKept DEF Between
<1>16. ASSUME NEW c \in Joins, StoreJoiner(c) PROVE KeyIsBehind' /\ KeyMoves
  BY <1>16, JoinerFacts, KeyKept
<1> QED BY <1>1, <1>2, <1>3, <1>4, <1>5, <1>6, <1>7, <1>8, <1>9, <1>10, <1>11, <1>12, <1>13, <1>14,
           <1>15, <1>16 DEF Kinds

LEMMA WrittenStep ==
    ASSUME TypeInv, SetInv, KeyIsBehind, KeyIsWritten, Kinds
    PROVE  KeyIsWritten'
<1>1. KeyMoves
  BY KeyStep
<1>2. disk.last \in Index \cup {Absent} /\ (lock # None => Held \in Index)
  <2>1. lock \in Request => req[lock].index \in Index
    BY DEF TypeInv, TypeOK, Req
  <2>2. lock = Appender => Place \in Index
    BY EntryTypes DEF TypeInv
  <2> QED BY <2>1, <2>2, Constants DEF Held, TypeInv, TypeOK, Disk
<1>3. disk'.last \in {disk.last} \cup (IF lock = None THEN {} ELSE {Held})
  BY <1>1 DEF KeyMoves, LastAfter
<1> HIDE DEF Index
<1>4. ASSUME disk'.last # Absent PROVE Written(disk.last)'
  BY <1>2, <1>3, <1>4, WrittenStays DEF KeyIsWritten
<1>5. ASSUME lock' # None PROVE Written(Held)'
  BY <1>1, <1>2, <1>5, WrittenStays DEF KeyIsWritten, KeyMoves
<1> QED BY <1>4, <1>5 DEF KeyIsWritten

-----------------------------------------------------------------------------
(* The indices that SETs reserve. *)

\* What was sunk, lost or never saved stays so.
LEMMA HistGrows ==
    ASSUME TypeInv, Kinds
    PROVE  /\ hist.sunk \subseteq hist'.sunk /\ hist.lost \subseteq hist'.lost
           /\ hist.unsaved \subseteq hist'.unsaved
           /\ hist.told \in Int /\ hist'.told >= hist.told
<1> DEFINE Sets == /\ hist.sunk \subseteq hist'.sunk /\ hist.lost \subseteq hist'.lost
                   /\ hist.unsaved \subseteq hist'.unsaved
           Grows == Sets /\ hist'.told >= hist.told
<1>0. hist.told \in Int
  <2>1. hist.told \in Index \cup {Absent}
    BY DEF TypeInv, TypeOK, Hist
  <2> QED BY <2>1, Constants, Integer
<1> SUFFICES Grows
  BY <1>0
<1>1. Sets /\ hist'.told = hist.told => Grows
  BY <1>0
<1>2. CASE UNCHANGED hist
  BY <1>1, <1>2
<1>3. ASSUME NEW who, NEW j \in Index, NEW e \in Entry,
             BeginSet(who, j, e) \/ EndSet(who, j, e)
      PROVE  Grows
  <2>1. Sets /\ hist'.told = hist.told
    BY <1>3, BeginFacts, EndFacts DEF TypeInv
  <2> QED BY <1>1, <2>1
<1>4. ASSUME NEW r \in Request, PreCommit(r) PROVE Grows
  <2>1. /\ req[r].index \in Index /\ EntryOf(r) \in Entry
        /\ \/ BeginSet(r, req[r].index, EntryOf(r)) \/ EndSet(r, req[r].index, EntryOf(r))
           \/ /\ hist'.sunk = hist.sunk /\ hist'.lost = hist.lost
              /\ hist'.unsaved = hist.unsaved \cup {r} /\ hist'.told = hist.told
    BY <1>4, PreCommitFacts
  <2> QED BY <1>1, <1>3, <2>1
<1>5. ASSUME NEW r \in Request, Admit(r) \/ Reserve(r) \/ Acknowledge(r) \/ Copies(r)
      PROVE  Grows
  BY <1>2, <1>5, AdmitFacts, ReserveFacts, AckFacts, CopiesFacts
<1>6. ASSUME NEW r \in Request, Rollback(r) PROVE Grows
  <2>1. Sets /\ hist'.told = hist.told
    BY <1>6, RollbackFacts
  <2> QED BY <1>1, <2>1
<1>7. CASE Lead \/ PutTermEntry
  <2>1. \/ UNCHANGED hist
        \/ \E e \in Entry : BeginSet(Ticker, 0, e) \/ EndSet(Ticker, 0, e)
    BY <1>7, TickerFacts
  <2> QED BY <1>2, <1>3, <2>1, Constants
<1>8. CASE StoreEntry \/ NameEntry
  <2>1. /\ Place \in Index
        /\ \/ UNCHANGED hist
           \/ \E e \in Entry : BeginSet(Appender, Place, e) \/ EndSet(Appender, Place, e)
    BY <1>8, StoreFacts
  <2> QED BY <1>2, <1>3, <2>1
<1>9. CASE Cut \/ EndCut \/ Measure \/ Advance
  <2>1. Sets /\ hist'.told = hist.told
    <3>1. CASE Measure \/ Advance
      <4>1. /\ hist'.sunk = hist.sunk \/ hist'.sunk = hist.sunk \cup Above(mem'.commit)
            /\ hist'.lost = hist.lost /\ hist'.unsaved = hist.unsaved
            /\ hist'.told = hist.told
        BY <3>1, CommitFacts
      <4> QED BY <4>1
    <3>2. CASE Cut
      BY <3>2, CutFacts
    <3>3. CASE EndCut
      BY <3>3, EndCutFacts
    <3> QED BY <1>9, <3>1, <3>2, <3>3
  <2> QED BY <1>1, <2>1
<1>10. CASE Die \/ Boot
  <2>1. Sets /\ hist'.told = hist.told
    BY <1>10, DieFacts, BootFacts
  <2> QED BY <1>1, <2>1
<1>11. CASE UNCHANGED vars \/ Hears \/ SkipHole \/ Signal \/ CreateStore \/ WriteStore
  BY <1>2, <1>11, HeardFacts, SkipFacts, ExitingFacts DEF vars
<1>12. ASSUME NEW c \in Joins, StoreJoiner(c) PROVE Grows
  BY <1>12, JoinerFacts
<1> QED BY <1>0, <1>4, <1>5, <1>6, <1>7, <1>8, <1>9, <1>10, <1>11, <1>12 DEF Kinds

\* CommitIndex, whether the process runs, and nextIndex move only so.
LEMMA CommitMoves ==
    ASSUME TypeInv, Kinds
    PROVE  \/ mem'.commit = mem.commit /\ mem'.up = mem.up
           \/ \E r \in Request : Reserve(r)
           \/ Measure \/ Advance \/ Die \/ Boot
<1>1. ASSUME NEW r \in Request, \/ Admit(r) \/ PreCommit(r) \/ Acknowledge(r)
                                \/ Copies(r) \/ Rollback(r)
      PROVE  mem'.commit = mem.commit /\ mem'.up = mem.up
  BY <1>1, AdmitFacts, PreCommitFacts, AckFacts, CopiesFacts, RollbackFacts
<1>2. CASE Lead \/ PutTermEntry
  BY <1>2, TickerFacts
<1>3. CASE StoreEntry \/ NameEntry
  BY <1>3, StoreFacts
<1>4. CASE Cut \/ EndCut \/ Signal \/ CreateStore \/ WriteStore
  BY <1>4, CutFacts, EndCutFacts, ExitingFacts
<1>5. CASE Hears \/ SkipHole
  BY <1>5, HeardFacts, SkipFacts
<1>6. CASE UNCHANGED vars
  BY <1>6 DEF vars
<1>7. ASSUME NEW c \in Joins, StoreJoiner(c)
      PROVE  mem'.commit = mem.commit /\ mem'.up = mem.up
  BY <1>7, JoinerFacts
<1> QED BY <1>1, <1>2, <1>3, <1>4, <1>5, <1>6, <1>7 DEF Kinds

LEMMA Numbers ==
    ASSUME TypeInv
    PROVE  /\ mem.commit \in Nat /\ mem.next \in Nat /\ hist.told \in Int
           /\ \A r \in Request : req[r].index \in Nat /\ req[r].copy \in Int
           /\ exit.state.next \in Nat /\ exit.state.commit \in Nat
           /\ file # None => file.next \in Nat /\ file.commit \in Nat
<1>1. Index \subseteq Nat /\ NextIndex \subseteq Nat
  BY Constants
<1>2. /\ mem \in Mem /\ exit.state \in Stored /\ (file # None => file \in Stored)
      /\ hist \in Hist /\ \A r \in Request : req[r] \in Req
  BY DEF TypeInv, TypeOK, Exiting
<1> HIDE DEF Index, NextIndex, Absent, Returned
<1>3. /\ mem.commit \in Index /\ mem.next \in NextIndex
      /\ exit.state.next \in NextIndex /\ exit.state.commit \in Index
      /\ file # None => file.next \in NextIndex /\ file.commit \in Index
  BY <1>2 DEF Mem, Stored
<1>4. /\ hist.told \in Index \cup {Absent}
      /\ \A r \in Request : req[r].index \in Index
      /\ \A r \in Request : req[r].copy \in NextIndex \cup {Absent, Returned}
  BY <1>2 DEF Hist, Req
<1> QED BY <1>1, <1>3, <1>4, Integer

LEMMA BelowStep ==
    ASSUME TypeInv, TypeInv', SetInv, IndexIsBelow, Kinds
    PROVE  IndexIsBelow'
<1> SUFFICES ASSUME mem'.up, NEW q \in Request, req'[q].index > mem'.commit
             PROVE  q \in hist'.sunk \cup hist'.lost
  BY DEF IndexIsBelow
<1>1. hist.sunk \subseteq hist'.sunk /\ hist.lost \subseteq hist'.lost
  BY HistGrows
<1>2. /\ mem.commit \in Nat /\ mem'.commit \in Nat
      /\ req[q].index \in Nat /\ req'[q].index \in Nat
  <2>1. mem'.commit \in Nat /\ req'[q].index \in Nat
    BY Constants DEF TypeInv, TypeOK, Mem, Req
  <2> QED BY <2>1, Numbers
<1>3. CASE mem'.commit = mem.commit /\ mem'.up = mem.up
  <2>1. CASE Reserve(q)
    <3>1. mem'.commit = mem.commit + 1
      BY <2>1, ReserveFacts
    <3> QED BY <1>2, <1>3, <3>1
  <2>2. CASE req'[q].index = req[q].index
    BY <1>1, <1>3, <2>2 DEF IndexIsBelow
  <2> QED BY <2>1, <2>2, IndexStays
<1>4. ASSUME NEW r \in Request, Reserve(r)
      PROVE  q \in hist'.sunk \cup hist'.lost
  <2>1. mem.up /\ mem'.commit = mem.commit + 1 /\ UNCHANGED hist
    BY <1>4, ReserveFacts DEF SetInv, SetWithin
  <2>2. req'[r].index = mem.commit + 1
    BY <1>4, ReserveFacts
  <2>3. q # r /\ req'[q] = req[q]
    BY <1>2, <1>4, <2>1, <2>2, ReserveFacts
  <2>4. req[q].index > mem.commit
    BY <1>2, <2>1, <2>3
  <2> QED BY <2>1, <2>4 DEF IndexIsBelow
<1>5. CASE Measure \/ Advance
  <2>1. UNCHANGED req /\ mem.up
    BY <1>5, CommitFacts
  <2>2. CASE mem'.commit = mem.commit
    BY <1>1, <2>1, <2>2 DEF IndexIsBelow
  <2>3. CASE hist'.sunk = hist.sunk \cup Above(mem'.commit)
    BY <2>1, <2>3 DEF Above
  <2> QED BY <1>5, <2>2, <2>3, CommitFacts
<1>6. CASE Die
  BY <1>6, DieFacts
<1>7. CASE Boot
  <2>1. UNCHANGED req /\ hist'.lost = hist.lost \cup Above(mem'.commit)
    BY <1>7, BootFacts
  <2> QED BY <2>1 DEF Above
<1> QED BY <1>3, <1>4, <1>5, <1>6, <1>7, CommitMoves

LEMMA OnceStep ==
    ASSUME TypeInv, SetInv, IndexIsBelow, IndexReservedOnce, Kinds
    PROVE  IndexReservedOnce'
<1> SUFFICES ASSUME NEW r \in Request, NEW q \in Request, r # q,
                    req'[r].index # 0, req'[r].index = req'[q].index
             PROVE  {r, q} \cap (hist'.sunk \cup hist'.lost) # {}
  BY DEF IndexReservedOnce
<1>1. hist.sunk \subseteq hist'.sunk /\ hist.lost \subseteq hist'.lost
  BY HistGrows
<1>2. ASSUME NEW a \in Request, NEW b \in Request, a # b, Reserve(a),
             req'[a].index = req'[b].index
      PROVE  b \in hist.sunk \cup hist.lost
  <2>1. mem.up
    BY <1>2, ReserveFacts DEF SetInv, SetWithin
  <2>2. req'[a].index = mem.commit + 1
    BY <1>2, ReserveFacts
  <2>3. req'[b] = req[b]
    BY <1>2, ReserveFacts
  <2>4. mem.commit \in Nat /\ req[b].index = mem.commit + 1
    BY <1>2, <2>2, <2>3, Numbers
  <2>5. req[b].index > mem.commit
    BY <2>4
  <2> QED BY <2>1, <2>5 DEF IndexIsBelow
<1>3. CASE Reserve(r)
  BY <1>1, <1>2, <1>3
<1>4. CASE Reserve(q)
  BY <1>1, <1>2, <1>4
<1>5. CASE req'[r].index = req[r].index /\ req'[q].index = req[q].index
  BY <1>1, <1>5 DEF IndexReservedOnce
<1> QED BY <1>3, <1>4, <1>5, IndexStays

-----------------------------------------------------------------------------
(* nextIndex, in the process and in the stored state. *)

\* What came from a SET, or a joiner, came from it after any step.
LEMMA FromStays ==
    ASSUME TypeInv, TypeInv', SetInv, Kinds, NEW n \in Int, FromSet(n)
    PROVE  \A m \in Int : m <= n => FromSet(m)'
<1> SUFFICES ASSUME NEW m \in Int, m <= n PROVE FromSet(m)'
  OBVIOUS
<1>1. ASSUME NEW r \in Request, req[r].index # 0, n <= req[r].index + 1
      PROVE  FromSet(m)'
  <2>1. req'[r].index = req[r].index /\ req[r].index \in Nat
    BY <1>1, IndexStays, Numbers
  <2>2. m <= req'[r].index + 1
    BY <1>1, <2>1
  <2> QED BY <1>1, <2>1, <2>2 DEF FromSet
<1>2. CASE n <= 1
  <2>1. m <= 1
    BY <1>2
  <2> QED BY <2>1 DEF FromSet
<1>3. CASE n <= hist.told + 1
  <2>1. hist.told \in Int /\ hist'.told \in Int /\ hist'.told >= hist.told
    <3>1. hist'.told \in Int
      <4>1. hist'.told \in Index \cup {Absent}
        BY DEF TypeInv, TypeOK, Hist
      <4> QED BY <4>1, Integer
    <3> QED BY <3>1, HistGrows
  <2>2. m <= hist'.told + 1
    BY <1>3, <2>1
  <2> QED BY <2>2 DEF FromSet
<1> QED BY <1>1, <1>2, <1>3 DEF FromSet

LEMMA FromStep ==
    ASSUME TypeInv, TypeInv', SetInv, NextFromSet, Kinds
    PROVE  NextFromSet'
<1> DEFINE Old == {1, mem.next, exit.state.next} \cup {req[r].copy : r \in Request}
                     \cup IF file # None THEN {file.next} ELSE {}
<1>1. \A n \in Old, m \in Int : m <= n => FromSet(m)'
  <2>1. \A n \in Old : n \in Int /\ FromSet(n)
    BY Numbers DEF NextFromSet, FromSet
  <2> QED BY <2>1, FromStays
<1>2. \A n \in Old : FromSet(n)'
  <2>1. \A n \in Old : n \in Int /\ n <= n
    BY Numbers
  <2> QED BY <1>1, <2>1
<1> HIDE DEF Old
<1>3. FromSet(Absent)' /\ FromSet(Returned)'
  BY DEF FromSet, Absent, Returned
<1>4. mem.next \in Old /\ exit.state.next \in Old /\ 1 \in Old /\ \A r \in Request : req[r].copy \in Old
  BY DEF Old
<1>5. file # None => file.next \in Old
  BY DEF Old
<1> DEFINE Kept == /\ UNCHANGED <<file, exit>> /\ mem'.next = mem.next
                   /\ \A r \in Request : req'[r].copy = req[r].copy \/ req'[r].copy = Absent
<1>6. Kept => NextFromSet'
  BY <1>2, <1>3, <1>4, <1>5 DEF NextFromSet
<1>7. CASE UNCHANGED vars
  BY <1>6, <1>7 DEF vars
<1>8. ASSUME NEW r \in Request,
             Admit(r) \/ Reserve(r) \/ PreCommit(r) \/ Acknowledge(r) \/ Rollback(r)
      PROVE  NextFromSet'
  <2>1. /\ UNCHANGED <<file, exit>> /\ mem'.next = mem.next
        /\ req'[r].copy = req[r].copy \/ req'[r].copy = Absent
        /\ \A q \in Request \ {r} : req'[q] = req[q]
    BY <1>8, AdmitFacts, ReserveFacts, PreCommitFacts, AckFacts, RollbackFacts
  <2>2. \A q \in Request : req'[q].copy = req[q].copy \/ req'[q].copy = Absent
    BY <2>1
  <2> QED BY <1>6, <2>1, <2>2
<1>9. ASSUME NEW r \in Request, Copies(r) PROVE NextFromSet'
  <2>1. /\ req[r].index # 0 /\ req'[r].index = req[r].index
        /\ UNCHANGED <<file, exit, hist>> /\ req[r].index \in Nat
        /\ \A q \in Request \ {r} : req'[q] = req[q]
    BY <1>9, CopiesFacts, Numbers DEF SetInv, SetWithin
  <2>2. FromSet(mem.next)'
    <3>1. CASE mem'.next = mem.next
      BY <1>2, <1>4, <3>1 DEF FromSet
    <3>2. CASE mem'.next = req[r].index + 1
      <4>1. mem'.next <= req'[r].index + 1
        BY <2>1, <3>2
      <4> QED BY <2>1, <4>1 DEF FromSet
    <3>3. CASE req[r].copy \in NextIndex /\ mem'.next = BackFrom(req[r].copy)
      <4>1. mem'.next \in Int /\ mem'.next <= req[r].copy
        BY <3>3, BackFromType, Integer
      <4>2. \A m \in Int : m <= req[r].copy => FromSet(m)'
        BY <1>1, <1>4
      <4>3. PICK m \in Int : m = mem'.next
        BY <4>1
      <4>4. FromSet(m)'
        BY <4>1, <4>2, <4>3
      <4> QED BY <4>3, <4>4 DEF FromSet
    <3> QED BY <1>9, <3>1, <3>2, <3>3, CopiesFacts
  <2>3. ASSUME NEW q \in Request PROVE FromSet(req[q].copy)'
    <3>1. CASE q = r
      <4>1. req'[q].copy \in {Absent, Returned, mem.next}
        BY <1>9, <3>1, CopiesFacts
      <4> QED BY <1>2, <1>3, <1>4, <4>1 DEF FromSet
    <3>2. CASE q # r
      BY <1>2, <1>4, <2>1, <3>2 DEF FromSet
    <3> QED BY <3>1, <3>2
  <2>4. file' # None => FromSet(file.next)'
    BY <1>2, <1>5, <2>1 DEF FromSet
  <2>5. FromSet(exit.state.next)'
    BY <1>2, <1>4, <2>1 DEF FromSet
  <2> QED BY <2>2, <2>3, <2>4, <2>5 DEF NextFromSet
<1>10. CASE Lead \/ PutTermEntry
  BY <1>6, <1>10, TickerFacts
<1>11. CASE SkipHole \/ StoreEntry \/ NameEntry \/ Hears
  BY <1>6, <1>11, SkipFacts, StoreFacts, HeardFacts
<1>12. CASE Cut \/ EndCut \/ Measure \/ Advance
  BY <1>6, <1>12, CutFacts, EndCutFacts, CommitFacts
<1>13. CASE Signal \/ CreateStore \/ WriteStore
  <2>1. /\ mem'.next = mem.next /\ exit'.state.next \in {1, mem.next, exit.state.next}
        /\ file' \in {None, file, exit.state} /\ UNCHANGED req
    BY <1>13, ExitingFacts
  <2> QED BY <1>2, <1>4, <1>5, <2>1 DEF NextFromSet
<1>14. CASE Die
  BY <1>2, <1>3, <1>4, <1>5, <1>14, DieFacts DEF NextFromSet
<1>15. CASE Boot
  <2>1. /\ UNCHANGED <<file, exit, req>>
        /\ mem'.next = 1 \/ (file # None /\ mem'.next = file.next)
    BY <1>15, BootFacts
  <2> QED BY <1>2, <1>4, <1>5, <2>1 DEF NextFromSet
<1>16. ASSUME NEW c \in Joins, StoreJoiner(c) PROVE NextFromSet'
  <2>1. /\ c \in Nat /\ mem'.next = c + 1 /\ hist'.told >= c /\ hist'.told \in Int
        /\ UNCHANGED <<file, exit, req>>
    <3>1. hist'.told \in Index \cup {Absent}
      BY DEF TypeInv, TypeOK, Hist
    <3> QED BY <1>16, <3>1, JoinerFacts, Integer
  <2>2. mem'.next <= hist'.told + 1
    BY <2>1
  <2>3. FromSet(mem.next)'
    BY <2>2 DEF FromSet
  <2> QED BY <1>2, <1>4, <1>5, <2>1, <2>3 DEF NextFromSet
<1> QED BY <1>7, <1>8, <1>9, <1>10, <1>11, <1>12, <1>13, <1>14, <1>15, <1>16 DEF Kinds

\* Every index that was reserved is below c, and nextIndex comes from one.
LEMMA FromBelow ==
    ASSUME TypeInv, NEW c \in Nat, NEW n \in Int, FromSet(n),
           \A r \in Request : req[r].index <= c
    PROVE  Fits(n, c, hist.told)
BY Numbers DEF FromSet, Fits

LEMMA NextStep ==
    ASSUME TypeInv, TypeInv', SetInv, NextFromSet, NextIsBelow, Kinds
    PROVE  NextIsBelow'
<1> DEFINE Live == \A r \in Request :
                     req'[r].live => /\ req'[r].index <= mem'.commit
                                     /\ Fits(req'[r].copy, mem'.commit, hist'.told)
           Exits3 == /\ exit'.phase = "reading" => Fits(exit'.state.next, mem'.commit, hist'.told)
                     /\ exit'.phase = "created"
                          => Fits(exit'.state.next, exit'.state.commit, hist'.told)
                     /\ file' # None => Fits(file'.next, file'.commit, hist'.told)
           Goal == Fits(mem'.next, mem'.commit, hist'.told) /\ Live /\ Exits3
<1> SUFFICES ASSUME hist'.sunk = {} PROVE Goal
  BY DEF NextIsBelow
<1>1. hist.sunk = {} /\ hist.told \in Int /\ hist'.told >= hist.told
  BY HistGrows
<1>2. /\ Fits(mem.next, mem.commit, hist.told)
      /\ \A r \in Request :
            req[r].live => /\ req[r].index <= mem.commit
                           /\ Fits(req[r].copy, mem.commit, hist.told)
      /\ exit.phase = "reading" => Fits(exit.state.next, mem.commit, hist.told)
      /\ exit.phase = "created" => Fits(exit.state.next, exit.state.commit, hist.told)
      /\ file # None => Fits(file.next, file.commit, hist.told)
  BY <1>1 DEF NextIsBelow
<1>3. /\ mem.commit \in Nat /\ mem.next \in Nat /\ hist.told \in Int
      /\ \A r \in Request : req[r].index \in Nat /\ req[r].copy \in Int
      /\ exit.state.next \in Nat /\ exit.state.commit \in Nat
      /\ file # None => file.next \in Nat /\ file.commit \in Nat
  BY Numbers
<1>4. mem'.commit \in Nat /\ hist'.told \in Int
  <2>1. hist'.told \in Index \cup {Absent} /\ mem'.commit \in Index
    BY DEF TypeInv, TypeOK, Hist, Mem
  <2> QED BY <2>1, Constants, Integer
<1>5. \A c \in Int : Fits(Absent, mem'.commit, c) /\ Fits(Returned, mem'.commit, c)
  BY <1>4 DEF Fits, Absent, Returned
<1> DEFINE Same == /\ UNCHANGED <<file, exit>> /\ hist'.told = hist.told
                   /\ mem'.next = mem.next /\ mem'.commit = mem.commit
<1>6. Same /\ UNCHANGED req => Goal
  BY <1>2
<1>7. CASE UNCHANGED vars
  BY <1>6, <1>7 DEF vars
<1>8. ASSUME NEW r \in Request, Admit(r) PROVE Goal
  <2>1. /\ Same /\ req'[r].index = 0 /\ req'[r].copy = Absent
        /\ \A q \in Request \ {r} : req'[q] = req[q]
    BY <1>8, AdmitFacts DEF SetInv, SetWithin
  <2>2. Live
    BY <1>2, <1>3, <1>5, <2>1
  <2> QED BY <1>2, <2>1, <2>2
<1>9. ASSUME NEW r \in Request, Reserve(r) PROVE Goal
  <2>1. /\ UNCHANGED <<file, exit, hist>>
        /\ mem'.next = mem.next /\ mem'.commit = mem.commit + 1
        /\ req'[r].index = mem.commit + 1 /\ req'[r].copy = Absent
        /\ \A q \in Request \ {r} : req'[q] = req[q]
    BY <1>9, ReserveFacts
  <2>2. \A n \in Int : Fits(n, mem.commit, hist.told) => Fits(n, mem'.commit, hist'.told)
    <3>1. mem.commit <= mem'.commit /\ hist'.told = hist.told
      BY <1>3, <2>1
    <3> QED BY <1>3, <1>4, <3>1 DEF Fits
  <2>3. ASSUME NEW q \in Request, req'[q].live
        PROVE  req'[q].index <= mem'.commit /\ Fits(req'[q].copy, mem'.commit, hist'.told)
    <3>1. CASE q = r
      BY <1>3, <1>4, <1>5, <2>1, <3>1
    <3>2. CASE q # r
      <4>1. /\ req[q].index <= mem.commit /\ Fits(req[q].copy, mem.commit, hist.told)
            /\ req'[q] = req[q] /\ req[q].index \in Nat /\ req[q].copy \in Int
        BY <1>2, <1>3, <2>1, <2>3, <3>2
      <4>2. req'[q].index <= mem'.commit
        BY <1>3, <2>1, <4>1
      <4> QED BY <2>2, <4>1, <4>2
    <3> QED BY <3>1, <3>2
  <2>4. Fits(mem'.next, mem'.commit, hist'.told)
    BY <1>2, <1>3, <2>1, <2>2
  <2>5. Exits3
    BY <1>2, <1>3, <2>1, <2>2
  <2> QED BY <2>3, <2>4, <2>5
<1>10. ASSUME NEW r \in Request, PreCommit(r) \/ Acknowledge(r) \/ Rollback(r) PROVE Goal
  <2>1. /\ Same /\ req'[r].live = req[r].live /\ req'[r].index = req[r].index
        /\ req'[r].copy = req[r].copy
        /\ \A q \in Request \ {r} : req'[q] = req[q]
    <3>1. ASSUME PreCommit(r) PROVE hist'.told = hist.told
      <4>1. /\ req[r].index \in Index /\ EntryOf(r) \in Entry
            /\ \/ BeginSet(r, req[r].index, EntryOf(r)) \/ EndSet(r, req[r].index, EntryOf(r))
               \/ hist'.told = hist.told
        BY <3>1, PreCommitFacts
      <4> QED BY <4>1, BeginFacts, EndFacts DEF TypeInv
    <3> QED BY <1>10, <3>1, PreCommitFacts, AckFacts, RollbackFacts
  <2>2. Live
    BY <1>2, <2>1
  <2> QED BY <1>2, <2>1, <2>2
<1>11. ASSUME NEW r \in Request, Copies(r) PROVE Goal
  <2>1. /\ req[r].live /\ req'[r].live /\ req'[r].index = req[r].index
        /\ UNCHANGED <<file, exit, hist>> /\ mem'.commit = mem.commit
        /\ \A q \in Request \ {r} : req'[q] = req[q]
    BY <1>11, CopiesFacts
  <2>2. req[r].index <= mem.commit /\ Fits(req[r].copy, mem.commit, hist.told)
    BY <1>2, <2>1
  <2>3. Fits(mem'.next, mem'.commit, hist'.told)
    <3>1. CASE mem'.next = mem.next
      BY <1>2, <2>1, <3>1
    <3>2. CASE mem'.next = req[r].index + 1
      <4>1. mem'.next <= mem'.commit + 1
        BY <1>3, <2>1, <2>2, <3>2
      <4> QED BY <4>1 DEF Fits
    <3>3. CASE req[r].copy \in NextIndex /\ mem'.next = BackFrom(req[r].copy)
      <4>1. mem'.next \in Int /\ mem'.next <= req[r].copy
        BY <3>3, BackFromType, Integer
      <4>2. \A n \in Int : n <= req[r].copy => Fits(n, mem.commit, hist.told)
        BY <1>3, <2>2 DEF Fits
      <4>3. Fits(mem'.next, mem.commit, hist.told)
        BY <4>1, <4>2
      <4> QED BY <2>1, <4>3
    <3> QED BY <1>11, <3>1, <3>2, <3>3, CopiesFacts
  <2>4. req'[r].copy \in {Absent, Returned, mem.next}
    BY <1>11, CopiesFacts
  <2>5. Fits(req'[r].copy, mem'.commit, hist'.told)
    BY <1>2, <1>3, <1>4, <1>5, <2>1, <2>4
  <2>6. Live
    BY <1>2, <2>1, <2>2, <2>5
  <2>7. Exits3
    BY <1>2, <2>1
  <2> QED BY <2>3, <2>6, <2>7
<1>12. CASE Lead \/ PutTermEntry
  <2>1. /\ UNCHANGED <<file, exit, req>> /\ mem'.next = mem.next /\ mem'.commit = mem.commit
        /\ \/ UNCHANGED hist
           \/ \E e \in Entry : BeginSet(Ticker, 0, e) \/ EndSet(Ticker, 0, e)
    BY <1>12, TickerFacts
  <2>2. hist'.told = hist.told
    BY <2>1, BeginFacts, EndFacts, Constants DEF TypeInv
  <2> QED BY <1>6, <2>1, <2>2
<1>13. CASE StoreEntry \/ NameEntry
  <2>1. /\ UNCHANGED <<file, exit, req, mem>> /\ Place \in Index
        /\ \/ UNCHANGED hist
           \/ \E e \in Entry : BeginSet(Appender, Place, e) \/ EndSet(Appender, Place, e)
    BY <1>13, StoreFacts
  <2>2. hist'.told = hist.told
    BY <2>1, BeginFacts, EndFacts DEF TypeInv
  <2> QED BY <1>6, <2>1, <2>2
<1>14. CASE Hears \/ SkipHole \/ Cut \/ EndCut
  BY <1>6, <1>14, HeardFacts, SkipFacts, CutFacts, EndCutFacts
<1>15. CASE Measure \/ Advance
  <2>1. UNCHANGED <<file, exit, req>> /\ mem'.next = mem.next /\ hist'.told = hist.told
    BY <1>15, CommitFacts
  <2>2. CASE mem'.commit = mem.commit
    BY <1>6, <2>1, <2>2
  <2>3. CASE hist'.sunk = hist.sunk \cup Above(mem'.commit)
    <3>1. \A r \in Request : req[r].index <= mem'.commit
      BY <1>3, <1>4, <2>3 DEF Above
    <3>2. \A n \in Int : FromSet(n) => Fits(n, mem'.commit, hist.told)
      BY <1>4, <3>1, FromBelow
    <3>3. /\ Fits(mem.next, mem'.commit, hist.told)
          /\ Fits(exit.state.next, mem'.commit, hist.told)
          /\ \A r \in Request : Fits(req[r].copy, mem'.commit, hist.told)
      BY <1>3, <3>2 DEF NextFromSet
    <3> QED BY <1>2, <2>1, <3>1, <3>3
  <2> QED BY <1>15, <2>2, <2>3, CommitFacts
<1>16. CASE Signal \/ CreateStore \/ WriteStore
  BY <1>2, <1>16, ExitingFacts
<1>17. CASE Die
  <2>1. /\ mem'.next = 1 /\ mem'.commit = 0 /\ exit'.phase = "none" /\ UNCHANGED file
        /\ hist'.told = hist.told /\ \A r \in Request : ~req'[r].live
    BY <1>17, DieFacts
  <2>2. Fits(1, 0, hist'.told)
    BY DEF Fits
  <2> QED BY <1>2, <2>1, <2>2
<1>18. CASE Boot
  <2>1. /\ UNCHANGED <<file, exit, req>> /\ exit.phase = "none" /\ hist'.told = hist.told
        /\ \A r \in Request : ~req[r].live
    BY <1>18, BootFacts DEF SetInv, SetWithin
  <2>2. Fits(1, 0, hist'.told)
    BY DEF Fits
  <2>3. Fits(mem'.next, mem'.commit, hist'.told)
    BY <1>2, <1>18, <2>1, <2>2, BootFacts
  <2> QED BY <1>2, <2>1, <2>3
<1>19. ASSUME NEW c \in Joins, StoreJoiner(c) PROVE Goal
  <2>1. /\ UNCHANGED <<file, exit, req>> /\ mem'.commit = mem.commit
        /\ mem'.next = c + 1 /\ c \in Nat /\ hist'.told >= c
    BY <1>19, JoinerFacts
  <2>2. Fits(mem'.next, mem'.commit, hist'.told)
    <3>1. mem'.next <= hist'.told + 1
      BY <1>4, <2>1
    <3> QED BY <3>1 DEF Fits
  <2>3. \A n \in Int, d \in Nat : Fits(n, d, hist.told) => Fits(n, d, hist'.told)
    BY <1>1, <1>4 DEF Fits
  <2> QED BY <1>2, <1>3, <2>1, <2>2, <2>3
<1> QED BY <1>7, <1>8, <1>9, <1>10, <1>11, <1>12, <1>13, <1>14, <1>15, <1>16, <1>17, <1>18, <1>19
        DEF Kinds

-----------------------------------------------------------------------------
(* The entries of SETs. *)

\* r is past its first Put.
Past(r) == req[r].phase \in {"putting", "sent", "ok"}

Alone(r) == \A q \in Request \ {r} : req[q].index # req[r].index

Stands(r) == disk.log[req[r].index] = EntryOf(r)

\* The entry of r, if it stood, stands or is seen to be gone.
LEMMA Ousts ==
    ASSUME NEW r \in Request, NEW i \in Index, req[r].index \in Index,
           EntryOf(r) \in Entry, Stands(r),
           \A h \in Index \ {i} : disk'.log[h] = disk.log[h],
           hist'.unsaved = hist.unsaved \cup SetsAt(i), r \notin hist'.unsaved
    PROVE  disk'.log[req[r].index] = disk.log[req[r].index]
<1>1. r \notin SetsAt(i)
  OBVIOUS
<1>2. disk.log[req[r].index] = EntryOf(r) /\ EntryOf(r).req = r
  BY DEF Stands, EntryOf
<1>3. EntryOf(r) # None
  BY ConstantAssumption
<1> HIDE DEF Index
<1> QED BY <1>1, <1>2, <1>3 DEF SetsAt

\* Of a SET that is alone with its index after a step, and was past its Put.
LEMMA AloneBefore ==
    ASSUME TypeInv, SetInv, Kinds, NEW r \in Request, Past(r), Alone(r)'
    PROVE  /\ Alone(r) /\ req[r].index # 0 /\ req[r].index \in Index /\ EntryOf(r) \in Entry
           /\ req'[r].index = req[r].index /\ EntryOf(r)' = EntryOf(r)
<1>1. /\ req[r].index # 0 /\ req[r].phase \notin {"new", "admitted"}
  BY DEF SetInv, SetWithin, Past
<1>2. req'[r].index = req[r].index /\ req'[r].term = req[r].term
  BY <1>1, IndexStays
<1>3. ASSUME NEW q \in Request \ {r} PROVE req[q].index # req[r].index
  <2>1. req'[q].index = req[q].index \/ req[q].index = 0
    BY IndexStays
  <2> QED BY <1>1, <1>2, <2>1 DEF Alone
<1>4. req[r].index \in Index /\ EntryOf(r) \in Entry
  BY EntryTypes DEF TypeInv, TypeOK, Req
<1> QED BY <1>1, <1>2, <1>3, <1>4 DEF Alone, EntryOf

\* A Set for an index that is not r's, or for any index when it is not a SET's.
LEMMA PutStep ==
    ASSUME TypeInv, SetInv, PutIsStored, Kinds
    PROVE  PutIsStored'
<1> SUFFICES ASSUME NEW r \in Request, Past(r)', r \notin hist'.unsaved, Alone(r)'
             PROVE  Stands(r)'
  BY DEF PutIsStored, Past, Alone, Stands
<1>1. r \notin hist.unsaved
  BY HistGrows
<1>2. ASSUME Past(r)
      PROVE  /\ Stands(r) /\ req[r].index # 0 /\ req[r].index \in Index /\ EntryOf(r) \in Entry
             /\ req'[r].index = req[r].index /\ EntryOf(r)' = EntryOf(r)
  BY <1>1, <1>2, AloneBefore DEF PutIsStored, Past, Alone, Stands
<1>3. ASSUME Past(r), disk'.log[req[r].index] = disk.log[req[r].index]
      PROVE  Stands(r)'
  BY <1>2, <1>3 DEF Stands
<1>4. ASSUME Past(r), NEW i \in Index, hist'.unsaved = hist.unsaved \cup SetsAt(i),
             \A h \in Index \ {i} : disk'.log[h] = disk.log[h]
      PROVE  Stands(r)'
  <2>1. disk'.log[req[r].index] = disk.log[req[r].index]
    BY <1>2, <1>4, Ousts
  <2> QED BY <1>3, <1>4, <2>1
<1> HIDE DEF Index
<1>5. CASE UNCHANGED vars
  BY <1>3, <1>5 DEF vars, Past
<1>6. ASSUME NEW q \in Request, Admit(q) \/ Reserve(q) PROVE Stands(r)'
  <2>1. UNCHANGED disk /\ req'[q].phase \in {"admitted", "reserved"}
        /\ \A h \in Request \ {q} : req'[h] = req[h]
    BY <1>6, AdmitFacts, ReserveFacts
  <2>2. q # r
    BY <2>1 DEF Past
  <2>3. req'[r] = req[r]
    BY <2>1, <2>2
  <2> QED BY <1>3, <2>1, <2>3 DEF Past
<1>7. ASSUME NEW q \in Request, PreCommit(q) PROVE Stands(r)'
  <2>1. /\ req'[q].index = req[q].index /\ req'[q].term = req[q].term
        /\ \A h \in Request \ {q} : req'[h] = req[h]
        /\ req[q].index \in Index /\ EntryOf(q) \in Entry
    BY <1>7, PreCommitFacts
  <2>2. CASE /\ req[q].phase = "reserved" /\ req'[q].phase = "putting"
             /\ BeginSet(q, req[q].index, EntryOf(q))
    <3>1. /\ disk'.log[req[q].index] = EntryOf(q)
          /\ \A h \in Index \ {req[q].index} : disk'.log[h] = disk.log[h]
      <4>1. ASSUME NEW i \in Index, NEW e \in Entry, BeginSet(q, i, e)
            PROVE  disk'.log[i] = e /\ \A h \in Index \ {i} : disk'.log[h] = disk.log[h]
        BY <4>1, BeginFacts DEF TypeInv
      <4> QED BY <2>1, <2>2, <4>1
    <3>2. CASE q = r
      BY <2>1, <3>1, <3>2 DEF Stands, EntryOf
    <3>3. CASE q # r
      <4>1. Past(r)
        BY <2>1, <3>3 DEF Past
      <4>2. req'[q].index # req'[r].index
        BY <3>3 DEF Alone
      <4> QED BY <1>2, <1>3, <2>1, <3>1, <4>1, <4>2
    <3> QED BY <3>2, <3>3
  <2>3. CASE /\ req[q].phase = "putting" /\ req'[q].phase = "sent"
             /\ EndSet(q, req[q].index, EntryOf(q))
    <3>1. disk'.log = disk.log
      BY <2>1, <2>3, EndFacts DEF TypeInv
    <3>2. Past(r)
      BY <2>1, <2>3 DEF Past
    <3> QED BY <1>3, <3>1, <3>2
  <2>4. CASE UNCHANGED <<disk, lock>> /\ hist'.unsaved = hist.unsaved \cup {q}
    <3>1. q # r
      BY <2>4
    <3>2. Past(r)
      BY <2>1, <3>1 DEF Past
    <3> QED BY <1>3, <2>4, <3>2
  <2> QED BY <1>7, <2>2, <2>3, <2>4, PreCommitFacts
<1>8. ASSUME NEW q \in Request, Acknowledge(q) PROVE Stands(r)'
  BY <1>3, <1>8, AckFacts DEF Past
<1>9. ASSUME NEW q \in Request, Copies(q) PROVE Stands(r)'
  <2>1. UNCHANGED disk /\ req'[r].phase = req[r].phase
    BY <1>9, CopiesFacts
  <2> QED BY <1>3, <2>1 DEF Past
<1>10. ASSUME NEW q \in Request, Rollback(q) PROVE Stands(r)'
  <2>1. /\ req'[q].index = req[q].index /\ req'[q].phase = "failed"
        /\ \A h \in Request \ {q} : req'[h] = req[h]
        /\ \A i \in Index \ {req[q].index} : disk'.log[i] = disk.log[i]
    BY <1>10, RollbackFacts
  <2>2. q # r
    BY <2>1 DEF Past
  <2>3. Past(r)
    BY <2>1, <2>2 DEF Past
  <2>4. req'[q].index # req'[r].index
    BY <2>2 DEF Alone
  <2> QED BY <1>2, <1>3, <2>1, <2>3, <2>4
<1>11. CASE Lead \/ PutTermEntry
  <2>1. Past(r)
    BY <1>11, TickerFacts DEF Past
  <2>2. ASSUME NEW e \in Entry, BeginSet(Ticker, 0, e)
        PROVE  \A h \in Index \ {0} : disk'.log[h] = disk.log[h]
    BY <2>2, BeginFacts, Constants DEF TypeInv
  <2>3. ASSUME NEW e \in Entry, EndSet(Ticker, 0, e)
        PROVE  \A h \in Index \ {0} : disk'.log[h] = disk.log[h]
    BY <2>3, EndFacts, Constants DEF TypeInv
  <2>4. \A h \in Index \ {0} : disk'.log[h] = disk.log[h]
    BY <1>11, <2>2, <2>3, TickerFacts
  <2> QED BY <1>2, <1>3, <2>1, <2>4
<1>12. CASE StoreEntry \/ NameEntry
  <2>1. Past(r) /\ Place \in Index
    BY <1>12, StoreFacts DEF Past
  <2>2. ASSUME NEW e \in Entry, BeginSet(Appender, Place, e) PROVE Stands(r)'
    <3>1. /\ \A h \in Index \ {Place} : disk'.log[h] = disk.log[h]
          /\ hist'.unsaved = hist.unsaved \cup SetsAt(Place)
      BY <2>1, <2>2, BeginFacts DEF TypeInv
    <3> QED BY <1>4, <2>1, <3>1
  <2>3. ASSUME NEW e \in Entry, EndSet(Appender, Place, e) PROVE Stands(r)'
    BY <1>3, <2>1, <2>3, EndFacts DEF TypeInv
  <2>4. CASE UNCHANGED disk
    BY <1>3, <2>1, <2>4
  <2> QED BY <1>12, <2>2, <2>3, <2>4, StoreFacts
<1>13. CASE Cut
  <2>1. /\ Past(r) /\ hist'.unsaved = hist.unsaved \cup SetsAt(app.at) /\ app.at \in Index
        /\ \A h \in Index \ {app.at} : disk'.log[h] = disk.log[h]
    BY <1>13, CutFacts DEF Past
  <2> QED BY <1>4, <2>1
<1>14. CASE EndCut \/ Measure \/ Advance
  <2>1. UNCHANGED <<req, disk>>
    BY <1>14, EndCutFacts, CommitFacts
  <2> QED BY <1>3, <2>1 DEF Past
<1>15. CASE Signal \/ CreateStore \/ WriteStore \/ Boot
  <2>1. UNCHANGED <<req, disk>>
    BY <1>15, ExitingFacts, BootFacts
  <2> QED BY <1>3, <2>1 DEF Past
<1>16. CASE Die
  <2>1. Past(r) /\ UNCHANGED disk
    BY <1>16, DieFacts DEF Past
  <2> QED BY <1>3, <2>1
<1>17. CASE Hears \/ SkipHole
  <2>1. UNCHANGED <<req, disk>>
    BY <1>17, HeardFacts, SkipFacts
  <2> QED BY <1>3, <2>1 DEF Past
<1>18. ASSUME NEW c \in Joins, StoreJoiner(c) PROVE Stands(r)'
  <2>1. UNCHANGED <<req, disk>>
    BY <1>18, JoinerFacts
  <2> QED BY <1>3, <2>1 DEF Past
<1> QED BY <1>5, <1>6, <1>7, <1>8, <1>9, <1>10, <1>11, <1>12, <1>13, <1>14, <1>15, <1>16, <1>17,
           <1>18 DEF Kinds

-----------------------------------------------------------------------------
(* The tail that an append deletes. *)

LEMMA CutStep ==
    ASSUME TypeInv, CutSoFar, Kinds
    PROVE  CutSoFar'
<1> SUFFICES ASSUME app'.phase = "cutting", NEW i \in Index, app'.lo <= i, i < app'.at
             PROVE  disk'.log[i] = None \/ i \in hist'.since
  BY DEF CutSoFar
<1> HIDE DEF Index
<1>1. ASSUME UNCHANGED app PROVE disk.log[i] = None \/ i \in hist.since
  BY <1>1 DEF CutSoFar
<1>2. ASSUME UNCHANGED app, disk'.log = disk.log \/ disk'.log[i] = None, hist'.since = hist.since
      PROVE  disk'.log[i] = None \/ i \in hist'.since
  BY <1>1, <1>2
<1>3. ASSUME NEW who, NEW j \in Index, NEW e \in Entry, UNCHANGED app,
             BeginSet(who, j, e) \/ EndSet(who, j, e)
      PROVE  disk'.log[i] = None \/ i \in hist'.since
  <2>1. CASE BeginSet(who, j, e)
    <3>1. /\ \A h \in Index \ {j} : disk'.log[h] = disk.log[h]
          /\ hist'.since = hist.since \cup {j}
      BY <1>3, <2>1, BeginFacts DEF TypeInv
    <3> QED BY <1>1, <1>3, <3>1
  <2>2. CASE EndSet(who, j, e)
    BY <1>2, <1>3, <2>2, EndFacts DEF TypeInv
  <2> QED BY <1>3, <2>1, <2>2
<1>4. CASE UNCHANGED vars
  BY <1>2, <1>4 DEF vars
<1>5. ASSUME NEW r \in Request, PreCommit(r)
      PROVE  disk'.log[i] = None \/ i \in hist'.since
  <2>1. /\ UNCHANGED app /\ req[r].index \in Index /\ EntryOf(r) \in Entry
        /\ \/ BeginSet(r, req[r].index, EntryOf(r)) \/ EndSet(r, req[r].index, EntryOf(r))
           \/ UNCHANGED disk /\ hist'.since = hist.since
    BY <1>5, PreCommitFacts
  <2> QED BY <1>2, <1>3, <2>1
<1>6. ASSUME NEW r \in Request, Admit(r) \/ Reserve(r) \/ Acknowledge(r) \/ Copies(r)
      PROVE  disk'.log[i] = None \/ i \in hist'.since
  BY <1>2, <1>6, AdmitFacts, ReserveFacts, AckFacts, CopiesFacts
<1>7. ASSUME NEW r \in Request, Rollback(r)
      PROVE  disk'.log[i] = None \/ i \in hist'.since
  BY <1>1, <1>7, RollbackFacts
<1>8. CASE Lead \/ PutTermEntry
  <2>1. /\ UNCHANGED app
        /\ \/ UNCHANGED <<disk, hist>>
           \/ \E e \in Entry : BeginSet(Ticker, 0, e) \/ EndSet(Ticker, 0, e)
    BY <1>8, TickerFacts
  <2> QED BY <1>2, <1>3, <2>1, Constants
<1>9. CASE Cut
  <2>1. /\ app'.at = app.at + 1 /\ app'.lo = app.lo /\ app.phase = "cutting"
        /\ disk'.log[app.at] = None
        /\ \A h \in Index \ {app.at} : disk'.log[h] = disk.log[h]
        /\ hist'.since = hist.since \ {app.at} /\ app.at \in Index
    BY <1>9, CutFacts
  <2>2. i = app.at \/ i < app.at
    <3>1. i \in Nat /\ app.at \in Nat
      BY <2>1, Constants
    <3> QED BY <2>1, <3>1
  <2> QED BY <2>1, <2>2 DEF CutSoFar
<1>10. CASE SkipHole \/ StoreEntry \/ NameEntry \/ EndCut \/ Measure \/ Advance \/ Die
  BY <1>10, SkipFacts, StoreFacts, EndCutFacts, CommitFacts, DieFacts DEF Between
<1>11. CASE Signal \/ CreateStore \/ WriteStore \/ Boot
  BY <1>2, <1>11, ExitingFacts, BootFacts
<1>12. CASE Hears
  <2>1. app'.at = app'.lo
    BY <1>12, HeardFacts
  <2>2. TypeInv'
    BY <1>12, HeardType
  <2>3. app'.at \in NextIndex
    BY <2>2 DEF TypeInv, TypeOK, App
  <2>4. app'.at \in Nat /\ i \in Nat
    BY <2>3, Constants
  <2> QED BY <2>1, <2>4
<1>13. ASSUME NEW c \in Joins, StoreJoiner(c)
       PROVE  disk'.log[i] = None \/ i \in hist'.since
  BY <1>2, <1>13, JoinerFacts
<1> QED BY <1>4, <1>5, <1>6, <1>7, <1>8, <1>9, <1>10, <1>11, <1>12,
           <1>13 DEF Kinds

\* Only a deletion that has come to its end leaves a running process idle.
LEMMA CutEnds ==
    ASSUME TypeInv, CutSoFar, Kinds,
           app.phase = "cutting", app'.phase = "idle", Open, mem'.up
    PROVE  \A i \in app.lo..app.hi : disk.log[i] = None \/ i \in hist.since
<1>1. EndCut
  <2>1. CASE UNCHANGED vars
    BY <2>1 DEF vars
  <2>2. ASSUME NEW r \in Request, \/ Admit(r) \/ Reserve(r) \/ PreCommit(r) \/ Acknowledge(r)
                                  \/ Copies(r) \/ Rollback(r)
        PROVE  UNCHANGED app
    BY <2>2, AdmitFacts, ReserveFacts, PreCommitFacts, AckFacts, CopiesFacts, RollbackFacts
  <2> QED BY <2>1, <2>2, TickerFacts, HeardFacts, SkipFacts, StoreFacts, JoinerFacts, CutFacts, CommitFacts,
             ExitingFacts, DieFacts, BootFacts DEF Kinds, Between
<1>2. ~(app.at <= app.hi)
  BY <1>1 DEF EndCut, CutGoesOn
<1>3. app.lo \in Index /\ app.hi \in Index /\ app.at \in NextIndex
  BY DEF TypeInv, TypeOK, App
<1>4. \A i \in app.lo..app.hi : i \in Index /\ app.lo <= i /\ i < app.at
  BY <1>2, <1>3, Constants DEF Index, NextIndex
<1> HIDE DEF Index
<1> QED BY <1>4 DEF CutSoFar

-----------------------------------------------------------------------------
(* The inductive invariant, and what follows. *)

StorageInv ==
    /\ TypeInv /\ SetInv
    /\ KeyIsBehind /\ KeyIsWritten
    /\ IndexIsBelow /\ IndexReservedOnce
    /\ NextFromSet /\ NextIsBelow
    /\ PutIsStored
    /\ CutSoFar

LEMMA StorageInit == Init => StorageInv
<1> SUFFICES ASSUME Init PROVE StorageInv
  OBVIOUS
<1>1. /\ lock = None /\ file = None /\ ticker = "idle" /\ app = NoAppend /\ exit = Running
      /\ mem = [up |-> TRUE, leading |-> FALSE, term |-> 0, commit |-> 0, next |-> 1]
      /\ disk = [log |-> [i \in Index |-> None], last |-> Absent]
      /\ hist.newest = Absent /\ hist.told = Absent
      /\ \A r \in Request : /\ req[r].phase = "new" /\ req[r].index = 0 /\ ~req[r].live
                           /\ req[r].copy = Absent
  BY DEF Init
<1>2. TypeInv
  BY InitType
<1>3. SetInv
  BY <1>1 DEF SetInv, SetWithin, Running
<1>4. KeyIsBehind
  BY <1>1, Holders DEF KeyIsBehind, NoAppend, Between
<1>5. KeyIsWritten
  BY <1>1 DEF KeyIsWritten
<1>6. IndexIsBelow /\ IndexReservedOnce /\ PutIsStored
  BY <1>1 DEF IndexIsBelow, IndexReservedOnce, PutIsStored
<1>7. NextFromSet /\ NextIsBelow
  BY <1>1 DEF NextFromSet, FromSet, NextIsBelow, Fits, Running, Zero, Absent
<1>8. CutSoFar
  BY <1>1 DEF CutSoFar, NoAppend
<1> QED BY <1>2, <1>3, <1>4, <1>5, <1>6, <1>7, <1>8 DEF StorageInv

LEMMA StorageStep == StorageInv /\ [Next]_vars => StorageInv'
<1> SUFFICES ASSUME StorageInv, [Next]_vars PROVE StorageInv'
  OBVIOUS
<1>1. /\ TypeInv /\ SetInv /\ KeyIsBehind /\ KeyIsWritten /\ IndexIsBelow /\ IndexReservedOnce
      /\ NextFromSet /\ NextIsBelow /\ PutIsStored /\ CutSoFar
  BY DEF StorageInv
<1>2. TypeInv' /\ Kinds
  BY <1>1, StepType, StepKinds
<1> QED BY <1>1, <1>2, SetStep, KeyStep, WrittenStep, BelowStep, OnceStep, FromStep, NextStep,
           PutStep, CutStep DEF StorageInv

LEMMA StorageAlways == Spec => []StorageInv
BY StorageInit, StorageStep, PTL DEF Spec

\* Whenever nobody is in Set, LAST_INDEX_KEY names the entry that was put last:
\* no two of the requests, the ticker and an append mix the two Puts of Set,
\* for any number of requests, of restarts and of appends.
THEOREM StorageLastIsNewest == Spec => []LastIsNewest
<1>1. StorageInv => LastIsNewest
  BY DEF StorageInv, KeyIsBehind, LastIsNewest
<1> QED BY <1>1, StorageAlways, PTL

\* Wherever the process dies between the two Puts, LAST_INDEX_KEY names an
\* index that holds an entry, or that held one which was deleted.
THEOREM StorageLastWasWritten == Spec => []LastWasWritten
<1>1. StorageInv => LastWasWritten
  BY DEF StorageInv, KeyIsWritten, Written, LastWasWritten
<1> QED BY <1>1, StorageAlways, PTL

\* Two SETs get one index only when CommitIndex has fallen between them, by an
\* advance or by a restart.
THEOREM StorageIndexReservedOnce == Spec => []IndexReservedOnce
<1>1. StorageInv => IndexReservedOnce
  BY DEF StorageInv
<1> QED BY <1>1, StorageAlways, PTL

\* As long as no advance has lowered CommitIndex, a nextIndex is at most the
\* place after it or after the CommitIndex of a joiner, over successes and
\* refusals that answer attempts of long ago, in a process and in the one that
\* restarts from the state that Persistence has read, one field after the
\* other, while SETs went on.
THEOREM StorageNextWithinCommit == Spec => []NextWithinCommit
<1>1. StorageInv => NextWithinCommit
  BY DEF StorageInv, NextIsBelow, Fits, NextWithinCommit
<1> QED BY <1>1, StorageAlways, PTL

\* A SET whose client was told of success has its entry on disk, unless Set
\* dropped it, an append stored or deleted at its index, or its index was
\* given again.
THEOREM StorageAckedIsStored == Spec => []AckedIsStored
<1>1. StorageInv => AckedIsStored
  BY DEF StorageInv, PutIsStored, AckedIsStored
<1> QED BY <1>1, StorageAlways, PTL

\* When DeleteOnStartIndex has come to its end in a running process, what it
\* left was put while it ran, by a Set that it shares no lock with.
THEOREM StorageCutIsComplete == Spec => CutIsComplete
<1> DEFINE Done == app.phase = "cutting" /\ app'.phase = "idle" /\ Open /\ mem'.up =>
                       \A i \in app.lo..app.hi : disk.log[i] = None \/ i \in hist.since
<1>1. StorageInv /\ [Next]_vars => [Done]_vars
  BY StepKinds, CutEnds DEF StorageInv
<1> QED BY <1>1, StorageAlways, PTL DEF Spec, CutIsComplete
=============================================================================
