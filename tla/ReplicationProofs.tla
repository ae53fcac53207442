-------------------------- MODULE ReplicationProofs --------------------------
(***************************************************************************)
(* Replication: type correctness, an index and a term name one entry,      *)
(* nothing that was acknowledged leaves the leader's log, peers commit     *)
(* behind the leader, and the leader implements the store of AtomicStore.  *)
(***************************************************************************)
EXTENDS Replication, WellFoundedInduction, FiniteSetTheorems, TLAPS

(* Every nonempty set of indices has a least and a greatest member.        *)

LEMMA LeastOf ==
    ASSUME NEW T \in SUBSET Nat, T # {}
    PROVE  \E x \in T : \A y \in T : x <= y
<1> DEFINE R == OpToRel(<, Nat)
<1>1. IsWellFoundedOn(R, Nat)
  BY NatLessThanWellFounded
<1>2. \A y, z \in Nat : <<y, z>> \in R <=> y < z
  BY DEF OpToRel
<1> HIDE DEF R
<1>3. PICK x \in T : \A y \in T : ~ (<<y, x>> \in R)
  BY <1>1, WFMin
<1>4. ASSUME NEW y \in T PROVE x <= y
  <2>1. x \in Nat /\ y \in Nat
    OBVIOUS
  <2>2. ~ (<<y, x>> \in R)
    BY <1>3
  <2>3. ~ (y < x)
    BY <2>1, <2>2, <1>2, Zenon
  <2> QED BY <2>1, <2>3
<1> QED BY <1>4

LEMMA GreatestOf ==
    ASSUME NEW S \in SUBSET Index, S # {}
    PROVE  \E x \in S : \A y \in S : y <= x
<1> DEFINE T == {MaxIndex - x : x \in S}
<1>1. MaxIndex \in Nat /\ \A x \in S : x \in Nat /\ MaxIndex - x \in Nat
  BY ConstantAssumption DEF Index
<1>2. T \in SUBSET Nat /\ T # {}
  BY <1>1
<1>3. PICK k \in T : \A y \in T : k <= y
  BY <1>2, LeastOf
<1>4. PICK x \in S : k = MaxIndex - x
  BY <1>3
<1>5. ASSUME NEW y \in S PROVE y <= x
  <2>1. MaxIndex - y \in T
    OBVIOUS
  <2>2. MaxIndex - x <= MaxIndex - y
    BY <1>3, <1>4, <2>1
  <2> QED BY <1>1, <2>2
<1> QED BY <1>5

-----------------------------------------------------------------------------
(* What the helpers on logs and nodes return. *)

LEMMA IndexFacts ==
    /\ MaxIndex \in Nat /\ 0 \in Index /\ Index \subseteq Nat
    /\ \A i \in Index : i + 1 \in 0..MaxIndex + 1
    /\ \A x, y \in Index : Smaller(x, y) \in Index /\ Smaller(x, y) <= x
BY ConstantAssumption DEF Index, Smaller

LEMMA RangeFacts ==
    ASSUME NEW x \in Index, NEW y \in Index
    PROVE  x + 1..y \in SUBSET Index /\ EveryOther(x, y) \in SUBSET Index
<1>1. x \in 0..MaxIndex /\ y \in 0..MaxIndex /\ MaxIndex \in Nat
  BY ConstantAssumption DEF Index
<1>2. ASSUME NEW i \in x + 1..y PROVE i \in 0..MaxIndex
  BY <1>1
<1>3. x + 1..y \subseteq Index
  BY <1>2 DEF Index
<1> QED BY <1>3 DEF EveryOther

LEMMA EntryFacts ==
    /\ None \in Slot /\ None \notin Entry /\ ZeroEntry \in Entry
    /\ NoEntries \in Log
    /\ \A r \in Set : EntryOf(r) \in Entry
BY ConstantAssumption DEF Slot, Entry, ZeroEntry, NoEntries, Log, EntryOf

\* getPreLog returns an index that the log holds below i, or 0.
LEMMA BeforeFacts ==
    ASSUME NEW log \in Log, NEW i \in Index
    PROVE  /\ Before(log, i) \in Index
           /\ Before(log, i) # 0 => Before(log, i) \in Held(log) /\ Before(log, i) < i
<1> DEFINE S == {j \in Held(log) : 0 < j /\ j < i}
<1>1. CASE S = {}
  BY <1>1, IndexFacts DEF Before
<1>2. CASE S # {}
  <2>1. S \in SUBSET Index /\ Held(log) \subseteq Index
    BY DEF Held
  <2>2. PICK x \in S : \A y \in S : y <= x
    BY <1>2, <2>1, GreatestOf
  <2>3. \A h \in Held(log) : h < i => h <= x
    <3>1. SUFFICES ASSUME NEW h \in Held(log), h < i PROVE h <= x
      OBVIOUS
    <3>2. h \in Nat /\ x \in Nat
      BY <2>1, IndexFacts
    <3>3. h = 0 \/ h \in S
      BY <3>1, <3>2
    <3> QED BY <2>2, <3>2, <3>3
  <2>4. \E j \in Held(log) : 0 < j /\ j < i
    BY <2>2
  <2>5. \E j \in Held(log) : (0 < j /\ j < i) /\ \A h \in Held(log) : h < i => h <= j
    BY <2>2, <2>3
  <2>6. Before(log, i) \in Held(log) /\ Before(log, i) < i
    BY <2>4, <2>5 DEF Before
  <2> QED BY <2>1, <2>6
<1> QED BY <1>1, <1>2

\* The first entry of a batch is held, or the batch has none.
LEMMA FirstFacts ==
    ASSUME NEW es \in Log
    PROVE  First(es) \in Index /\ (First(es) # 0 => Held(es) # {})
<1>1. CASE Held(es) = {}
  BY <1>1, IndexFacts DEF First
<1>2. CASE Held(es) # {}
  <2>1. Held(es) \in SUBSET Nat /\ Held(es) \subseteq Index
    BY IndexFacts DEF Held
  <2>2. \E j \in Held(es) : \A h \in Held(es) : j <= h
    BY <1>2, <2>1, LeastOf
  <2>3. First(es) \in Held(es)
    BY <1>2, <2>2 DEF First
  <2> QED BY <1>2, <2>1, <2>3
<1> QED BY <1>1, <1>2

LEMMA LastFacts ==
    ASSUME NEW es \in Log, Held(es) # {}
    PROVE  Last(es) \in Held(es) /\ Last(es) \in Index
<1>1. Held(es) \in SUBSET Index
  BY DEF Held
<1>2. \E j \in Held(es) : \A h \in Held(es) : h <= j
  BY <1>1, GreatestOf
<1> QED BY <1>1, <1>2 DEF Last

\* StateMachine.Set changes the state machine alone, to entries of the log.
LEMMA ApplyFacts ==
    ASSUME NEW n \in NodeState, NEW S \in SUBSET Index
    PROVE  /\ ApplyAll(n, S) \in NodeState
           /\ ApplyAll(n, S).log = n.log /\ ApplyAll(n, S).commit = n.commit
<1> DEFINE Of(k) == {i \in S : n.log[i] # None /\ KeyOf[n.log[i].req] = k}
           top(k) == CHOOSE i \in Of(k) : \A h \in Of(k) : h <= i
           sm == [k \in Key |-> IF Of(k) = {} THEN n.sm[k] ELSE n.log[top(k)]]
<1>1. ASSUME NEW k \in Key, Of(k) # {} PROVE n.log[top(k)] \in Slot
  <2>1. Of(k) \in SUBSET Index
    OBVIOUS
  <2>2. \E i \in Of(k) : \A h \in Of(k) : h <= i
    BY <1>1, <2>1, GreatestOf
  <2>3. top(k) \in Index
    BY <2>1, <2>2
  <2> QED BY <2>3 DEF NodeState, Log
<1>2. sm \in [Key -> Slot]
  BY <1>1 DEF NodeState
<1>3. ApplyAll(n, S) = [n EXCEPT !.sm = sm]
  BY DEF ApplyAll
<1> HIDE DEF sm
<1> QED BY <1>2, <1>3 DEF NodeState

LEMMA AdvanceFacts ==
    ASSUME NEW n \in NodeState, NEW c \in Index
    PROVE  /\ Advance(n, c) \in NodeState
           /\ Advance(n, c).log = n.log /\ Advance(n, c).last = n.last
           /\ Advance(n, c).commit # n.commit => Advance(n, c).commit <= c
<1>1. n.last \in Index /\ n.commit \in Index
  BY DEF NodeState
<1>2. Smaller(c, n.last) \in Index /\ Smaller(c, n.last) \in Nat /\ Smaller(c, n.last) <= c
  BY <1>1, IndexFacts
<1> QED BY <1>2 DEF Advance, NodeState

\* LogModule's operations, and what a log holds after them.
LEMMA LogModuleFacts ==
    ASSUME NEW n \in NodeState, NEW i \in Index, NEW e \in Entry
    PROVE  /\ Write(n, i, e) \in NodeState
           /\ Write(n, i, e).log = [n.log EXCEPT ![i] = e]
           /\ Remove(n, i) \in NodeState
           /\ Remove(n, i).log = [n.log EXCEPT ![i] = None]
           /\ Truncate(n, i) \in NodeState
           /\ \A h \in Index : Truncate(n, i).log[h] \in {n.log[h], None}
           /\ \A m \in {Write(n, i, e), Remove(n, i), Truncate(n, i)} :
                 m.commit = n.commit /\ m.sm = n.sm
<1>1. e \in Slot /\ None \in Slot
  BY EntryFacts DEF Slot
<1>2. [n.log EXCEPT ![i] = e] \in Log /\ [n.log EXCEPT ![i] = None] \in Log
  BY <1>1 DEF Log, NodeState
<1>3. [h \in Index |-> IF i <= h /\ h <= n.last THEN None ELSE n.log[h]] \in Log
  BY <1>1 DEF Log, NodeState
<1>4. /\ Write(n, i, e) \in NodeState /\ Write(n, i, e).log = [n.log EXCEPT ![i] = e]
      /\ Write(n, i, e).commit = n.commit /\ Write(n, i, e).sm = n.sm
  BY <1>2 DEF Write, NodeState
<1>5. /\ Remove(n, i) \in NodeState /\ Remove(n, i).log = [n.log EXCEPT ![i] = None]
      /\ Remove(n, i).commit = n.commit /\ Remove(n, i).sm = n.sm
  BY <1>2 DEF Remove, NodeState
<1>6. /\ Truncate(n, i) \in NodeState
      /\ \A h \in Index : Truncate(n, i).log[h] \in {n.log[h], None}
      /\ Truncate(n, i).commit = n.commit /\ Truncate(n, i).sm = n.sm
  BY <1>3 DEF Truncate, NodeState
<1> QED BY <1>4, <1>5, <1>6

\* What a log holds after an append comes from the log or from the append.
LEMMA AppendFacts ==
    ASSUME NEW n \in NodeState, NEW j \in Job
    PROVE  /\ AppendTo(n, j) \in NodeState
           /\ \A i \in Index \ {0} : AppendTo(n, j).log[i] \in {n.log[i], j.entries[i], None}
           /\ AppendTo(n, j).commit # n.commit => AppendTo(n, j).commit <= j.commit
<1>1. j.entries \in Log /\ j.commit \in Index /\ j.padded \in BOOLEAN
  BY DEF Job
<1>2. CASE TermOnly(j)
  <2>1. SetFirst(n, j) = [n EXCEPT !.log = [n.log EXCEPT ![0] =
                            IF j.entries[0] = None THEN ZeroEntry ELSE j.entries[0]]]
    BY DEF SetFirst
  <2>2. [n.log EXCEPT ![0] = IF j.entries[0] = None THEN ZeroEntry ELSE j.entries[0]] \in Log
    BY <1>1, EntryFacts, IndexFacts DEF Log, Slot, NodeState
  <2> QED BY <1>2, <2>1, <2>2, IndexFacts DEF AppendTo, NodeState, Log
<1>3. CASE ~TermOnly(j) /\ Taken(n, j)
  <2>1. AppendTo(n, j) \in {n, Truncate(n, j.prev + 1)}
    BY <1>3 DEF AppendTo, KeepOrCut
  <2>2. [h \in Index |-> IF j.prev + 1 <= h /\ h <= n.last THEN None ELSE n.log[h]] \in Log
    BY EntryFacts DEF Log, NodeState
  <2>3. /\ Truncate(n, j.prev + 1) \in NodeState
        /\ \A h \in Index : Truncate(n, j.prev + 1).log[h] \in {n.log[h], None}
        /\ Truncate(n, j.prev + 1).commit = n.commit
    BY <2>2 DEF Truncate, NodeState
  <2> QED BY <2>1, <2>3
<1>4. CASE ~TermOnly(j) /\ ~Taken(n, j)
  <2> DEFINE log == [i \in Index |-> IF j.entries[i] # None THEN j.entries[i]
                                     ELSE IF i = 0 /\ j.padded THEN ZeroEntry
                                     ELSE n.log[i]]
             w == WriteAll(n, j)
             m == Advance(w, j.commit)
             S == EveryOther(n.commit, m.commit)
  <2>1. log \in Log
    BY <1>1, EntryFacts DEF Log, Slot, NodeState
  <2>2. Last(j.entries) \in Index
    BY <1>1, <1>4, FirstFacts, LastFacts DEF TermOnly
  <2>3. w = [n EXCEPT !.log = log, !.last = Last(j.entries)]
    BY DEF WriteAll
  <2>4. w \in NodeState /\ w.log = log /\ w.commit = n.commit
    <3> HIDE DEF log, w
    <3> QED BY <2>1, <2>2, <2>3 DEF NodeState
  <2>5. m \in NodeState /\ m.log = log /\ (m.commit # n.commit => m.commit <= j.commit)
    <3> HIDE DEF log, w
    <3> QED BY <1>1, <2>4, AdvanceFacts
  <2>6. S \in SUBSET Index
    <3>1. n.commit \in Index /\ m.commit \in Index
      BY <2>5 DEF NodeState
    <3> HIDE DEF m, w, log
    <3> QED BY <3>1, RangeFacts
  <2>7. AppendTo(n, j) = ApplyAll(m, S)
    BY <1>4 DEF AppendTo, Store
  <2>8. /\ ApplyAll(m, S) \in NodeState
        /\ ApplyAll(m, S).log = log /\ ApplyAll(m, S).commit = m.commit
    <3> HIDE DEF m, S, w, log
    <3> QED BY <2>5, <2>6, ApplyFacts
  <2>9. \A i \in Index \ {0} : log[i] \in {n.log[i], j.entries[i], None}
    OBVIOUS
  <2> HIDE DEF m, S, w, log
  <2> QED BY <2>5, <2>7, <2>8, <2>9
<1> QED BY <1>2, <1>3, <1>4

LEMMA BeatenFacts ==
    ASSUME NEW n \in NodeState, NEW c \in Index
    PROVE  /\ Beaten(n, c) \in NodeState
           /\ Beaten(n, c).log = n.log
           /\ Beaten(n, c).commit # n.commit => Beaten(n, c).commit <= c
<1> DEFINE m == Advance(n, c)
           S == n.commit + 1..m.commit
<1>1. m \in NodeState /\ m.log = n.log /\ (m.commit # n.commit => m.commit <= c)
  BY AdvanceFacts
<1>2. n.commit \in Index /\ m.commit \in Index
  BY <1>1 DEF NodeState
<1>3. S \in SUBSET Index
  <2> HIDE DEF m
  <2> QED BY <1>2, RangeFacts
<1>4. Beaten(n, c) = ApplyAll(m, S)
  BY DEF Beaten
<1> HIDE DEF m, S
<1> QED BY <1>1, <1>3, <1>4, ApplyFacts

\* What an attempt sends: entries of the leader's log, or the request's own.
LEMMA SendFacts ==
    ASSUME TypeOK, NEW r \in Set, NEW p \in Peer, Send(r, p)
    PROVE  /\ job'[r][p] \in Job
           /\ job' = [job EXCEPT ![r][p] = job'[r][p]]
           /\ job'[r][p].commit = node[Leader].commit
           /\ \A i \in Index : job'[r][p].entries[i] \in
                 {node[Leader].log[i], None} \cup (IF i = req[r].index THEN {EntryOf(r)} ELSE {})
<1> DEFINE i == req[r].index
           log == node[Leader].log
           batch == i > nextIndex[p]
           es == IF batch THEN Slice(log, nextIndex[p], i)
                 ELSE [NoEntries EXCEPT ![i] = EntryOf(r)]
           prev == Before(log, First(es))
           pad == batch /\ \E h \in nextIndex[p]..i : log[h] = None
           pt == IF prev = 0 THEN 0 ELSE log[prev].term
           new == [phase |-> "open", next |-> nextIndex[p], entries |-> es, padded |-> pad,
                   prev |-> prev, prevTerm |-> pt, commit |-> node[Leader].commit]
<1>1. node[Leader] \in NodeState /\ log \in Log /\ node[Leader].commit \in Index
  BY DEF TypeOK, NodeState, Node
<1>2. i \in Index /\ nextIndex[p] \in 0..MaxIndex + 1
  BY DEF TypeOK, Req
<1>3. Slice(log, nextIndex[p], i) \in Log
  BY <1>1, EntryFacts DEF Slice, Log
<1>4. [NoEntries EXCEPT ![i] = EntryOf(r)] \in Log
  BY EntryFacts DEF Log, Slot
<1>5. es \in Log
  BY <1>3, <1>4
<1>6. \A h \in Index : es[h] \in
         {log[h], None} \cup (IF h = i THEN {EntryOf(r)} ELSE {})
  BY <1>1, <1>2 DEF Slice, NoEntries
<1>7. prev \in Index /\ (prev # 0 => log[prev] # None)
  <2> HIDE DEF es, log
  <2> QED BY <1>1, <1>5, FirstFacts, BeforeFacts DEF Held
<1>8. pt \in Nat
  <2> HIDE DEF prev
  <2>1. prev # 0 => log[prev] \in Entry
    BY <1>1, <1>7 DEF Log, Slot
  <2> QED BY <2>1 DEF Entry
<1>9. pad \in BOOLEAN
  OBVIOUS
<1>10. job' = [job EXCEPT ![r][p] = new] /\ job'[r][p] = new
  BY DEF Send, TypeOK
<1> HIDE DEF es, prev, pad, pt
<1>11. new \in Job
  BY <1>1, <1>2, <1>5, <1>7, <1>8, <1>9 DEF Job
<1>12. new.commit = node[Leader].commit /\ new.entries = es
  OBVIOUS
<1> HIDE DEF new
<1> QED BY <1>6, <1>10, <1>11, <1>12

-----------------------------------------------------------------------------
(* Type correctness. *)

LEMMA UpdateFacts ==
    ASSUME TypeOK
    PROVE  /\ \A ph \in {"off", "ready", "open", "yes", "no", "lost", "true", "false", "late", "over"} :
                 InPhase(ph) \in Job
           /\ \A r \in Set, p \in Peer, j \in Job :
                 [job EXCEPT ![r][p] = j] \in [Set -> [Peer -> Job]]
           /\ \A r \in Set, f \in [Peer -> Job] :
                 [job EXCEPT ![r] = f] \in [Set -> [Peer -> Job]]
           /\ \A n \in Node, m \in NodeState :
                 [node EXCEPT ![n] = m] \in [Node -> NodeState]
           /\ Leader \in Node /\ Peer \subseteq Node
           /\ \A r \in Set : Counted(req[r]) \in Req
           /\ \A r \in Set, ph \in {"ok", "failed"} : Closed(r, ph) \in [Set -> Req]
<1>1. \A ph \in {"off", "ready", "open", "yes", "no", "lost", "true", "false", "late", "over"} :
         InPhase(ph) \in Job
  BY EntryFacts, IndexFacts DEF InPhase, Job
<1>2. \A r \in Set, p \in Peer, j \in Job : [job EXCEPT ![r][p] = j] \in [Set -> [Peer -> Job]]
  BY DEF TypeOK
<1>3. ASSUME NEW r \in Set PROVE Counted(req[r]) \in Req
  <2>1. req[r] \in Req
    BY DEF TypeOK
  <2>2. req[r].count + 1 \in Nat /\ req[r].sent + 1 \in Nat
    BY <2>1 DEF Req
  <2> QED BY <2>1, <2>2 DEF Counted, Req
<1>4. ASSUME NEW r \in Set, NEW ph \in {"ok", "failed"} PROVE Closed(r, ph) \in [Set -> Req]
  BY DEF Closed, TypeOK, Req
<1> QED BY <1>1, <1>2, <1>3, <1>4 DEF TypeOK, Node

LEMMA RequestType ==
    ASSUME TypeOK
    PROVE  /\ \A r \in Get : Read(r) => TypeOK'
           /\ \A r \in Set : Reserve(r) \/ PreCommit(r) => TypeOK'
           /\ \A r \in Set, p \in Peer : Collect(r, p) \/ SendOnClosed(r, p) => TypeOK'
<1>1. ASSUME NEW r \in Get, Read(r) PROVE TypeOK'
  <2>1. KeyOf[r] \in Key /\ node[Leader] \in NodeState
    BY ConstantAssumption DEF TypeOK, Request, Node
  <2>2. node[Leader].sm[KeyOf[r]] \in Slot
    BY <2>1 DEF NodeState
  <2>3. Value(node[Leader].sm[KeyOf[r]]) \in Set \cup Past \cup {None}
    BY <2>2 DEF Slot, Entry, Value
  <2> QED BY <1>1, <2>3 DEF Read, TypeOK
<1>2. ASSUME NEW r \in Set, Reserve(r) PROVE TypeOK'
  <2> DEFINE i == NextOf(node[Leader])
  <2>1. i \in Index
    BY <1>2, IndexFacts, UpdateFacts DEF Reserve, NextOf, TypeOK, NodeState, Index
  <2>2. node' \in [Node -> NodeState]
    <3>1. [node[Leader] EXCEPT !.commit = i] \in NodeState
      <4>1. node[Leader] \in NodeState
        BY UpdateFacts DEF TypeOK
      <4> HIDE DEF i
      <4> QED BY <2>1, <4>1 DEF NodeState
    <3>2. node' = [node EXCEPT ![Leader] = [node[Leader] EXCEPT !.commit = i]]
      BY <1>2 DEF Reserve
    <3> QED BY <3>1, <3>2, UpdateFacts
  <2>3. req' = [req EXCEPT ![r].phase = "reserved", ![r].index = i]
    BY <1>2 DEF Reserve
  <2> HIDE DEF i
  <2>4. req' \in [Set -> Req]
    BY <2>1, <2>3 DEF TypeOK, Req
  <2> QED BY <1>2, <2>2, <2>4 DEF Reserve, TypeOK
<1>3. ASSUME NEW r \in Set, PreCommit(r) PROVE TypeOK'
  <2>1. req[r].index \in Index /\ EntryOf(r) \in Entry /\ node[Leader] \in NodeState
    BY EntryFacts, UpdateFacts DEF TypeOK, Req
  <2>2. Write(node[Leader], req[r].index, EntryOf(r)) \in NodeState
    BY <2>1, LogModuleFacts
  <2>3. node' \in [Node -> NodeState]
    BY <1>3, <2>2, UpdateFacts DEF PreCommit, TypeOK
  <2>4. job' \in [Set -> [Peer -> Job]]
    BY <1>3, UpdateFacts DEF PreCommit
  <2>5. req' \in [Set -> Req]
    BY <1>3 DEF PreCommit, TypeOK, Req
  <2> QED BY <1>3, <2>3, <2>4, <2>5 DEF PreCommit, TypeOK
<1>4. ASSUME NEW r \in Set, NEW p \in Peer, Commit(r, p) PROVE TypeOK'
  <2>1. node[Leader] \in NodeState /\ KeyOf[r] \in Key /\ EntryOf(r) \in Slot
    BY ConstantAssumption, EntryFacts, UpdateFacts DEF TypeOK, Request, Slot
  <2>2. Applied(node[Leader], r) \in NodeState
    <3>1. /\ [node[Leader].sm EXCEPT ![KeyOf[r]] = EntryOf(r)] \in [Key -> Slot]
          /\ node[Leader].applied + 1 \in Nat
      BY <2>1 DEF NodeState
    <3> QED BY <2>1, <3>1 DEF Applied, NodeState
  <2>3. node' \in [Node -> NodeState]
    BY <1>4, <2>2, UpdateFacts DEF Commit
  <2> DEFINE f == [q \in Peer |-> IF q = p THEN InPhase("over")
                         ELSE IF job[r][q].phase \in {"true", "false"} THEN InPhase("late")
                         ELSE job[r][q]]
  <2>4. f \in [Peer -> Job]
    BY UpdateFacts DEF TypeOK
  <2>5. job' = [job EXCEPT ![r] = f]
    BY <1>4 DEF Commit, TypeOK
  <2>6. job' \in [Set -> [Peer -> Job]]
    <3> HIDE DEF f
    <3> QED BY <2>4, <2>5, UpdateFacts
  <2>7. req' \in [Set -> Req]
    BY <1>4, UpdateFacts DEF Commit
  <2> QED BY <1>4, <2>3, <2>6, <2>7 DEF Commit, Consumed, TypeOK
<1>5. ASSUME NEW r \in Set, NEW p \in Peer, CountTrue(r, p) PROVE TypeOK'
  BY <1>5, UpdateFacts DEF CountTrue, Consumed, TypeOK
<1>6. ASSUME NEW r \in Set, NEW p \in Peer, CountFalse(r, p) PROVE TypeOK'
  <2>1. req' \in [Set -> Req]
    <3>1. req[r].sent + 1 \in Nat
      BY DEF TypeOK, Req
    <3> QED BY <1>6, <3>1 DEF CountFalse, TypeOK, Req
  <2> QED BY <1>6, <2>1, UpdateFacts DEF CountFalse, Consumed, TypeOK
<1>7. ASSUME NEW r \in Set, NEW p \in Peer, Rollback(r, p) PROVE TypeOK'
  <2>1. req[r].index \in Index /\ node[Leader] \in NodeState /\ ZeroEntry \in Entry
    BY EntryFacts, UpdateFacts DEF TypeOK, Req
  <2>2. Remove(node[Leader], req[r].index) \in NodeState
    BY <2>1, LogModuleFacts
  <2> QED BY <1>7, <2>2, UpdateFacts DEF Rollback, Consumed, TypeOK
<1>8. ASSUME NEW r \in Set, NEW p \in Peer, SendOnClosed(r, p) PROVE TypeOK'
  <2>1. InPhase("over") \in Job /\ \A q \in Set, t \in Peer : job[q][t] \in Job
    BY UpdateFacts DEF TypeOK
  <2>2. job' \in [Set -> [Peer -> Job]]
    BY <1>8, <2>1 DEF SendOnClosed
  <2>3. /\ up' \in BOOLEAN /\ node' = node /\ nextIndex' = nextIndex /\ req' = req
        /\ answer' = answer /\ beat' = beat /\ beats' = beats
    BY <1>8 DEF SendOnClosed
  <2> QED BY <2>2, <2>3 DEF TypeOK
<1> QED BY <1>1, <1>2, <1>3, <1>4, <1>5, <1>6, <1>7, <1>8 DEF Collect

LEMMA AttemptType ==
    ASSUME TypeOK, NEW r \in Set, NEW p \in Peer,
           Attempt(r, p) \/ Unreachable(r, p) \/ GiveUp(r, p)
    PROVE  TypeOK'
<1>1. CASE Send(r, p)
  <2> DEFINE j == job'[r][p]
  <2>1. j \in Job /\ job' = [job EXCEPT ![r][p] = j]
    BY <1>1, SendFacts
  <2> HIDE DEF j
  <2>2. job' \in [Set -> [Peer -> Job]]
    BY <2>1, UpdateFacts
  <2> QED BY <1>1, <2>2 DEF Send, TypeOK
<1>2. CASE Succeed(r, p)
  <2>1. req[r].index + 1 \in 0..MaxIndex + 1
    BY IndexFacts DEF TypeOK, Req
  <2> QED BY <1>2, <2>1, UpdateFacts DEF Succeed, Finish, TypeOK
<1>3. CASE Backoff(r, p)
  <2>1. job[r][p].next \in 0..MaxIndex + 1
    BY DEF TypeOK, Job
  <2>2. OneBack(job[r][p].next) \in 0..MaxIndex + 1
    BY <2>1, IndexFacts DEF OneBack
  <2> QED BY <1>3, <2>2, UpdateFacts DEF Backoff, TypeOK
<1>4. CASE Append(r, p)
  <2>1. AppendTo(node[p], job[r][p]) \in NodeState
    BY AppendFacts, UpdateFacts DEF TypeOK
  <2> QED BY <1>4, <2>1, UpdateFacts DEF Append, TypeOK
<1>5. CASE RefuseAppend(r, p)
  <2>1. [InPhase("no") EXCEPT !.next = job[r][p].next] \in Job
    <3>1. InPhase("no") \in Job /\ job[r][p].next \in 0..MaxIndex + 1
      BY UpdateFacts DEF TypeOK, Job
    <3> QED BY <3>1 DEF Job
  <2> QED BY <1>5, <2>1, UpdateFacts DEF RefuseAppend, TypeOK
<1>6. CASE Unreachable(r, p)
  BY <1>6, UpdateFacts DEF Unreachable, TypeOK
<1>7. CASE GiveUp(r, p)
  BY <1>7, UpdateFacts DEF GiveUp, Finish, TypeOK
<1> QED BY <1>1, <1>2, <1>3, <1>4, <1>5, <1>6, <1>7 DEF Attempt

LEMMA BeatType ==
    ASSUME TypeOK, NEW p \in Peer, HeartBeat(p) \/ HandleBeat(p)
    PROVE  TypeOK'
<1>1. CASE HeartBeat(p)
  BY <1>1, UpdateFacts DEF HeartBeat, TypeOK, NodeState
<1>2. CASE HandleBeat(p)
  <2>1. beat[p] \in Index /\ node[p] \in NodeState
    BY <1>2, UpdateFacts DEF HandleBeat, TypeOK
  <2>2. Beaten(node[p], beat[p]) \in NodeState
    BY <2>1, BeatenFacts
  <2> QED BY <1>2, <2>2, UpdateFacts DEF HandleBeat, TypeOK
<1> QED BY <1>1, <1>2

LEMMA InitType == Init => TypeOK
<1> SUFFICES ASSUME Init PROVE TypeOK
  OBVIOUS
<1>1. InPhase("off") \in Job
  BY EntryFacts, IndexFacts DEF InPhase, Job
<1>2. node \in [Node -> NodeState] /\ nextIndex \in [Peer -> 0..MaxIndex + 1]
  BY ConstantAssumption DEF Init
<1> QED BY <1>1, <1>2, IndexFacts DEF Init, TypeOK, Req

LEMMA NextType == TypeOK /\ [Next]_vars => TypeOK'
<1> SUFFICES ASSUME TypeOK, [Next]_vars PROVE TypeOK'
  OBVIOUS
<1>1. CASE UNCHANGED vars
  BY <1>1 DEF vars, TypeOK
<1>2. CASE Next
  BY <1>2, RequestType, AttemptType, BeatType DEF Next
<1> QED BY <1>1, <1>2

\* Whatever the goroutines of the requests and the peers' handlers do, every
\* field keeps its type: nextIndex stays between 0 and the end of the log.
THEOREM ReplicationTypeCorrect == Spec => []TypeOK
BY InitType, NextType, PTL DEF Spec

-----------------------------------------------------------------------------
(* The inductive invariant: a reserved index belongs to one request and is  *)
(* within the leader's CommitIndex; only requests with an index are         *)
(* replicated; no LeaderCommit on its way passes the leader's CommitIndex;  *)
(* and every entry was on some disk at first, or is that of the request     *)
(* which reserved its index.                                                *)

Reserved(r) == req[r].phase # "new"

ReservedOnce ==
    \A r \in Set : Reserved(r) =>
        /\ 1 <= req[r].index /\ req[r].index <= node[Leader].commit
        /\ \A q \in Set \ {r} : Reserved(q) => req[q].index # req[r].index

JobsReserved ==
    \A r \in Set, p \in Peer : job[r][p].phase \notin {"off", "over"} => Reserved(r)

KnownCommits ==
    /\ \A r \in Set, p \in Peer : job[r][p].commit <= node[Leader].commit
    /\ \A p \in Peer : beat[p] # None => beat[p] <= node[Leader].commit

Origin(m) ==
    \A i \in 1..MaxIndex : \A e \in At(i) :
        \/ \E n \in Node : e = m[n].log[i]
        \/ \E r \in Set : Reserved(r) /\ req[r].index = i /\ e = EntryOf(r)

IInv ==
    /\ TypeOK /\ ReservedOnce /\ JobsReserved /\ KnownCommits
    /\ \E m \in InitNodes : Origin(m)

(* What a step does to each variable. *)

LEMMA NodeSteps ==
    ASSUME Next
    PROVE  \/ node' = node
           \/ \E r \in Set : Reserve(r) \/ PreCommit(r)
           \/ \E r \in Set, p \in Peer : Commit(r, p) \/ Rollback(r, p) \/ Append(r, p)
           \/ \E p \in Peer : HandleBeat(p)
<1>1. ASSUME NEW r \in Set, NEW p \in Peer,
             \/ CountTrue(r, p) \/ CountFalse(r, p) \/ SendOnClosed(r, p)
             \/ Unreachable(r, p) \/ GiveUp(r, p)
      PROVE  node' = node
  BY <1>1 DEF CountTrue, CountFalse, SendOnClosed, Unreachable, GiveUp
<1>2. ASSUME NEW r \in Set, NEW p \in Peer,
             Send(r, p) \/ Succeed(r, p) \/ Backoff(r, p) \/ RefuseAppend(r, p)
      PROVE  node' = node
  BY <1>2 DEF Send, Succeed, Backoff, RefuseAppend
<1>3. \A p \in Peer : HeartBeat(p) => node' = node
  BY DEF HeartBeat
<1>4. \A r \in Get : Read(r) => node' = node
  BY DEF Read
<1> QED BY <1>1, <1>2, <1>3, <1>4 DEF Next, Attempt, Collect

\* A request gets its index once, by Reserve, and keeps it.
LEMMA RequestSteps ==
    ASSUME TypeOK, Next, \A r \in Set : ~Reserve(r)
    PROVE  \A r \in Set : /\ Reserved(r)' <=> Reserved(r)
                          /\ req'[r].index = req[r].index
<1> SUFFICES ASSUME req' # req
    PROVE  \A r \in Set : /\ Reserved(r)' <=> Reserved(r)
                          /\ req'[r].index = req[r].index
  BY DEF Reserved
<1>1. req \in [Set -> Req]
  BY DEF TypeOK
<1>2. ASSUME NEW q \in Set, PreCommit(q)
      PROVE  \A r \in Set : /\ Reserved(r)' <=> Reserved(r)
                            /\ req'[r].index = req[r].index
  BY <1>1, <1>2 DEF PreCommit, Reserved, Req
<1>3. ASSUME NEW q \in Set, NEW p \in Peer, Collect(q, p)
      PROVE  \A r \in Set : /\ Reserved(r)' <=> Reserved(r)
                            /\ req'[r].index = req[r].index
  <2>1. CASE Commit(q, p)
    BY <1>1, <2>1 DEF Commit, Consumed, Waiting, Closed, Reserved, Req
  <2>2. CASE CountTrue(q, p)
    BY <1>1, <2>2 DEF CountTrue, Consumed, Waiting, Counted, Reserved, Req
  <2>3. CASE CountFalse(q, p)
    BY <1>1, <2>3 DEF CountFalse, Consumed, Waiting, Reserved, Req
  <2>4. CASE Rollback(q, p)
    BY <1>1, <2>4 DEF Rollback, Consumed, Waiting, Closed, Reserved, Req
  <2> QED BY <1>3, <2>1, <2>2, <2>3, <2>4 DEF Collect
<1>4. ASSUME NEW r \in Set, NEW p \in Peer,
             \/ SendOnClosed(r, p) \/ Unreachable(r, p) \/ GiveUp(r, p)
             \/ Attempt(r, p)
      PROVE  FALSE
  BY <1>4 DEF SendOnClosed, Unreachable, GiveUp, Attempt, Send, Succeed, Backoff,
              Append, RefuseAppend
<1>5. \A p \in Peer : ~HeartBeat(p) /\ ~HandleBeat(p)
  BY DEF HeartBeat, HandleBeat
<1>6. \A r \in Get : ~Read(r)
  BY DEF Read
<1> QED BY <1>2, <1>3, <1>4, <1>5, <1>6 DEF Next

\* The leader's CommitIndex moves by Reserve alone.
LEMMA CommitSteps ==
    ASSUME TypeOK, Next
    PROVE  /\ \/ node'[Leader].commit = node[Leader].commit
              \/ \E r \in Set : Reserve(r) /\ node'[Leader].commit = node[Leader].commit + 1
           /\ \A p \in Peer : node'[p].commit # node[p].commit =>
                 \/ \E r \in Set : node'[p].commit <= job[r][p].commit
                 \/ beat[p] # None /\ node'[p].commit <= beat[p]
<1>1. /\ node \in [Node -> NodeState] /\ Leader \in Node /\ Leader \notin Peer
      /\ Peer \subseteq Node
  BY ConstantAssumption DEF TypeOK, Node
<1>2. CASE node' = node
  BY <1>2
<1>3. ASSUME NEW r \in Set, Reserve(r)
      PROVE  /\ node'[Leader].commit = node[Leader].commit + 1
             /\ \A p \in Peer : node'[p] = node[p]
  BY <1>1, <1>3 DEF Reserve, NextOf, NodeState
<1>4. ASSUME NEW r \in Set, PreCommit(r)
      PROVE  /\ node'[Leader].commit = node[Leader].commit
             /\ \A p \in Peer : node'[p] = node[p]
  <2>1. req[r].index \in Index /\ EntryOf(r) \in Entry /\ node[Leader] \in NodeState
    BY EntryFacts, <1>1 DEF TypeOK, Req
  <2>2. Write(node[Leader], req[r].index, EntryOf(r)).commit = node[Leader].commit
    BY <2>1, LogModuleFacts
  <2> QED BY <1>1, <1>4, <2>2 DEF PreCommit
<1>5. ASSUME NEW r \in Set, NEW p \in Peer, Commit(r, p)
      PROVE  /\ node'[Leader].commit = node[Leader].commit
             /\ \A q \in Peer : node'[q] = node[q]
  BY <1>1, <1>5 DEF Commit, Applied, NodeState
<1>6. ASSUME NEW r \in Set, NEW p \in Peer, Rollback(r, p)
      PROVE  /\ node'[Leader].commit = node[Leader].commit
             /\ \A q \in Peer : node'[q] = node[q]
  BY <1>1, <1>6 DEF Rollback, Remove, NodeState
<1>7. ASSUME NEW r \in Set, NEW p \in Peer, Append(r, p)
      PROVE  /\ node'[Leader].commit = node[Leader].commit
             /\ \A q \in Peer : node'[q].commit # node[q].commit =>
                   node'[q].commit <= job[r][q].commit
  <2>1. job[r][p] \in Job /\ node[p] \in NodeState
    BY <1>1 DEF TypeOK
  <2>2. AppendTo(node[p], job[r][p]).commit # node[p].commit =>
           AppendTo(node[p], job[r][p]).commit <= job[r][p].commit
    BY <2>1, AppendFacts
  <2> QED BY <1>1, <1>7, <2>2 DEF Append
<1>8. ASSUME NEW p \in Peer, HandleBeat(p)
      PROVE  /\ node'[Leader].commit = node[Leader].commit
             /\ \A q \in Peer : node'[q].commit # node[q].commit =>
                   beat[q] # None /\ node'[q].commit <= beat[q]
  <2>1. beat[p] # None /\ beat[p] \in Index /\ node[p] \in NodeState
    BY <1>1, <1>8 DEF TypeOK, HandleBeat
  <2>2. Beaten(node[p], beat[p]).commit # node[p].commit =>
           Beaten(node[p], beat[p]).commit <= beat[p]
    BY <2>1, BeatenFacts
  <2> QED BY <1>1, <1>8, <2>1, <2>2 DEF HandleBeat
<1> QED BY NodeSteps, <1>2, <1>3, <1>4, <1>5, <1>6, <1>7, <1>8


\* A job that does not send keeps what it carries, or drops it.
JobKept(r, p) ==
    /\ \A i \in Index : job'[r][p].entries[i] \in {job[r][p].entries[i], None}
    /\ job'[r][p].commit \in {job[r][p].commit, 0}
    /\ job'[r][p].phase \notin {"off", "over"} =>
          job[r][p].phase \notin {"off", "over"} \/ PreCommit(r)

LEMMA DroppedJob ==
    ASSUME NEW r \in Set, NEW p \in Peer, NEW ph, job'[r][p] = InPhase(ph),
           ph = "over" \/ job[r][p].phase \notin {"off", "over"} \/ PreCommit(r)
    PROVE  JobKept(r, p)
BY DEF JobKept, InPhase, NoEntries

LEMMA JobSteps ==
    ASSUME TypeOK, Next, NEW r \in Set, NEW p \in Peer, ~Send(r, p)
    PROVE  JobKept(r, p)
<1>1. job \in [Set -> [Peer -> Job]]
  BY DEF TypeOK
<1>2. CASE job'[r][p] = job[r][p]
  BY <1>2 DEF JobKept
<1>3. ASSUME NEW q \in Set, Reserve(q) \/ PreCommit(q) PROVE JobKept(r, p)
  <2>1. CASE Reserve(q)
    BY <1>2, <2>1 DEF Reserve
  <2>2. CASE PreCommit(q) /\ q = r
    <3>1. job'[r][p] = InPhase("ready")
      BY <1>1, <2>2 DEF PreCommit
    <3> QED BY <2>2, <3>1, DroppedJob
  <2>3. CASE PreCommit(q) /\ q # r
    <3>1. job'[r][p] = job[r][p]
      BY <1>1, <2>3 DEF PreCommit
    <3> QED BY <3>1, <1>2
  <2> QED BY <1>3, <2>1, <2>2, <2>3
<1>4. ASSUME NEW q \in Set, NEW s \in Peer, Commit(q, s) PROVE JobKept(r, p)
  <2>1. CASE q # r
    <3>1. job'[r][p] = job[r][p]
      BY <1>1, <1>4, <2>1 DEF Commit
    <3> QED BY <3>1, <1>2
  <2>2. CASE q = r
    <3>1. job'[r][p] = IF p = s THEN InPhase("over")
                       ELSE IF job[r][p].phase \in {"true", "false"} THEN InPhase("late")
                       ELSE job[r][p]
      BY <1>1, <1>4, <2>2 DEF Commit
    <3>2. CASE p = s
      BY <3>1, <3>2, DroppedJob
    <3>3. CASE p # s /\ job[r][p].phase \in {"true", "false"}
      BY <3>1, <3>3, DroppedJob
    <3>4. CASE p # s /\ job[r][p].phase \notin {"true", "false"}
      BY <3>1, <3>4, <1>2
    <3> QED BY <3>2, <3>3, <3>4
  <2> QED BY <2>1, <2>2
<1>5. ASSUME NEW q \in Set, NEW s \in Peer,
             \/ CountTrue(q, s) \/ CountFalse(q, s) \/ Rollback(q, s)
      PROVE  JobKept(r, p)
  <2>1. job' = [job EXCEPT ![q][s] = InPhase("over")]
    BY <1>5 DEF CountTrue, CountFalse, Rollback
  <2>2. job'[r][p] = job[r][p] \/ job'[r][p] = InPhase("over")
    BY <1>1, <2>1
  <2> QED BY <2>2, <1>2, DroppedJob
<1>6. ASSUME NEW q \in Set, NEW s \in Peer, SendOnClosed(q, s) PROVE JobKept(r, p)
  <2>1. job'[r][p] = job[r][p] \/ job'[r][p] = InPhase("over")
    BY <1>1, <1>6 DEF SendOnClosed
  <2> QED BY <2>1, <1>2, DroppedJob
<1>7. ASSUME NEW q \in Set, NEW s \in Peer, Succeed(q, s) \/ GiveUp(q, s)
      PROVE  JobKept(r, p)
  <2>1. PICK ph : job' = [job EXCEPT ![q][s] = InPhase(ph)]
    BY <1>7 DEF Succeed, GiveUp, Finish
  <2>2. job[q][s].phase \notin {"off", "over"}
    BY <1>7 DEF Succeed, GiveUp
  <2>3. CASE q = r /\ s = p
    <3>1. job'[r][p] = InPhase(ph)
      BY <1>1, <2>1, <2>3
    <3> QED BY <2>2, <2>3, <3>1, DroppedJob
  <2>4. CASE ~(q = r /\ s = p)
    <3>1. job'[r][p] = job[r][p]
      BY <1>1, <2>1, <2>4
    <3> QED BY <3>1, <1>2
  <2> QED BY <2>3, <2>4
<1>8. ASSUME NEW q \in Set, NEW s \in Peer,
             Backoff(q, s) \/ Unreachable(q, s) \/ Append(q, s)
      PROVE  JobKept(r, p)
  <2>1. PICK ph : job' = [job EXCEPT ![q][s] = InPhase(ph)]
    BY <1>8 DEF Backoff, Unreachable, Append
  <2>2. job[q][s].phase \notin {"off", "over"}
    BY <1>8 DEF Backoff, Unreachable, Append
  <2>3. CASE q = r /\ s = p
    <3>1. job'[r][p] = InPhase(ph)
      BY <1>1, <2>1, <2>3
    <3> QED BY <2>2, <2>3, <3>1, DroppedJob
  <2>4. CASE ~(q = r /\ s = p)
    <3>1. job'[r][p] = job[r][p]
      BY <1>1, <2>1, <2>4
    <3> QED BY <3>1, <1>2
  <2> QED BY <2>3, <2>4
<1>9. ASSUME NEW q \in Set, NEW s \in Peer, RefuseAppend(q, s) PROVE JobKept(r, p)
  <2>1. CASE q = r /\ s = p
    <3>1. job'[r][p] = [InPhase("no") EXCEPT !.next = job[r][p].next]
      BY <1>1, <1>9, <2>1 DEF RefuseAppend
    <3>2. job'[r][p].entries = NoEntries /\ job'[r][p].commit = 0
      BY <3>1 DEF InPhase
    <3>3. job[r][p].phase \notin {"off", "over"}
      BY <1>9, <2>1 DEF RefuseAppend
    <3> QED BY <3>2, <3>3 DEF JobKept, NoEntries
  <2>2. CASE ~(q = r /\ s = p)
    <3>1. job'[r][p] = job[r][p]
      BY <1>1, <1>9, <2>2 DEF RefuseAppend
    <3> QED BY <3>1, <1>2
  <2> QED BY <2>1, <2>2
<1>10. ASSUME NEW q \in Set, NEW s \in Peer, Send(q, s) PROVE JobKept(r, p)
  <2>1. ~(q = r /\ s = p)
    BY <1>10
  <2>2. job' = [job EXCEPT ![q][s] = job'[q][s]]
    BY <1>10, SendFacts
  <2>3. job'[r][p] = job[r][p]
    BY <1>1, <2>1, <2>2
  <2> QED BY <2>3, <1>2
<1>11. ASSUME NEW s \in Peer, HeartBeat(s) \/ HandleBeat(s) PROVE JobKept(r, p)
  BY <1>2, <1>11 DEF HeartBeat, HandleBeat
<1>12. ASSUME NEW q \in Get, Read(q) PROVE JobKept(r, p)
  BY <1>2, <1>12 DEF Read
<1> QED BY <1>3, <1>4, <1>5, <1>6, <1>7, <1>8, <1>9, <1>10, <1>11, <1>12
           DEF Next, Attempt, Collect


\* What a slot holds after a step: what it held, nothing, what an append
\* brings, or the entry of the request that has reserved the slot.
LEMMA LogSteps ==
    ASSUME TypeOK, Next, NEW n \in Node, NEW i \in Index \ {0},
           node'[n].log[i] # node[n].log[i], node'[n].log[i] # None
    PROVE  \/ \E r \in Set, p \in Peer : node'[n].log[i] = job[r][p].entries[i]
           \/ \E r \in Set : /\ req[r].phase = "reserved" /\ req[r].index = i
                             /\ node'[n].log[i] = EntryOf(r)
<1>1. /\ node \in [Node -> NodeState] /\ Leader \in Node /\ Leader \notin Peer
      /\ Peer \subseteq Node
  BY ConstantAssumption DEF TypeOK, Node
<1>2. node' # node
  OBVIOUS
<1>3. ASSUME NEW r \in Set, Reserve(r) PROVE FALSE
  <2>1. node'[n].log = node[n].log
    BY <1>1, <1>3 DEF Reserve, NodeState
  <2> QED BY <2>1
<1>4. ASSUME NEW r \in Set, PreCommit(r)
      PROVE  /\ req[r].phase = "reserved" /\ req[r].index = i
             /\ node'[n].log[i] = EntryOf(r)
  <2>1. req[r].index \in Index /\ EntryOf(r) \in Entry /\ node[Leader] \in NodeState
    BY EntryFacts, <1>1 DEF TypeOK, Req
  <2>2. Write(node[Leader], req[r].index, EntryOf(r)).log
           = [node[Leader].log EXCEPT ![req[r].index] = EntryOf(r)]
    BY <2>1 DEF Write, NodeState
  <2>3. n = Leader /\ node'[n].log = [node[Leader].log EXCEPT ![req[r].index] = EntryOf(r)]
    BY <1>1, <1>4, <2>2 DEF PreCommit
  <2>4. node[Leader].log \in Log
    BY <2>1 DEF NodeState
  <2>5. req[r].index = i /\ node'[n].log[i] = EntryOf(r)
    BY <2>3, <2>4 DEF Log
  <2> QED BY <1>4, <2>5 DEF PreCommit
<1>5. ASSUME NEW r \in Set, NEW p \in Peer, Commit(r, p) PROVE FALSE
  <2>1. node'[n].log = node[n].log
    BY <1>1, <1>5 DEF Commit, Applied, NodeState
  <2> QED BY <2>1
<1>6. ASSUME NEW r \in Set, NEW p \in Peer, Rollback(r, p) PROVE FALSE
  <2>1. req[r].index \in Index /\ ZeroEntry \in Entry /\ node[Leader] \in NodeState
    BY EntryFacts, <1>1 DEF TypeOK, Req
  <2>2. Remove(node[Leader], req[r].index).log = [node[Leader].log EXCEPT ![req[r].index] = None]
    BY <2>1, LogModuleFacts
  <2>3. n = Leader /\ node'[n].log = [node[Leader].log EXCEPT ![req[r].index] = None]
    BY <1>1, <1>6, <2>2 DEF Rollback
  <2>4. node[Leader].log \in Log
    BY <2>1 DEF NodeState
  <2> QED BY <2>3, <2>4 DEF Log
<1>7. ASSUME NEW r \in Set, NEW p \in Peer, Append(r, p)
      PROVE  node'[n].log[i] = job[r][p].entries[i]
  <2>1. job[r][p] \in Job /\ node[p] \in NodeState
    BY <1>1 DEF TypeOK
  <2>2. AppendTo(node[p], job[r][p]).log[i] \in {node[p].log[i], job[r][p].entries[i], None}
    BY <2>1, AppendFacts
  <2>3. n = p /\ node'[p] = AppendTo(node[p], job[r][p])
    BY <1>1, <1>7 DEF Append
  <2> QED BY <2>2, <2>3
<1>8. ASSUME NEW p \in Peer, HandleBeat(p) PROVE FALSE
  <2>1. beat[p] \in Index /\ node[p] \in NodeState
    BY <1>1, <1>8 DEF TypeOK, HandleBeat
  <2>2. Beaten(node[p], beat[p]).log = node[p].log
    BY <2>1, BeatenFacts
  <2>3. node'[n].log = node[n].log
    BY <1>1, <1>8, <2>2 DEF HandleBeat
  <2> QED BY <2>3
<1> QED BY NodeSteps, <1>2, <1>3, <1>4, <1>5, <1>6, <1>7, <1>8

-----------------------------------------------------------------------------
(* The invariant is inductive. *)

LEMMA ReservedOnceStep ==
    ASSUME TypeOK, ReservedOnce, Next
    PROVE  ReservedOnce' /\ \A r \in Set : Reserved(r) => /\ Reserved(r)'
                                                          /\ req'[r].index = req[r].index
<1>1. /\ req \in [Set -> Req] /\ node[Leader].commit \in Nat
      /\ \A r \in Set : req[r].index \in Nat
  BY IndexFacts, UpdateFacts DEF TypeOK, NodeState, Req
<1>2. CASE \A r \in Set : ~Reserve(r)
  <2>1. \A r \in Set : /\ Reserved(r)' <=> Reserved(r)
                       /\ req'[r].index = req[r].index
    BY <1>2, RequestSteps
  <2>2. node'[Leader].commit = node[Leader].commit
    BY <1>2, CommitSteps
  <2> QED BY <2>1, <2>2 DEF ReservedOnce
<1>3. ASSUME NEW q \in Set, Reserve(q)
      PROVE  ReservedOnce' /\ \A r \in Set : Reserved(r) => /\ Reserved(r)'
                                                            /\ req'[r].index = req[r].index
  <2> DEFINE i == node[Leader].commit + 1
  <2>1. ~Reserved(q)
    BY <1>3 DEF Reserve, Reserved
  <2>2. node'[Leader].commit = i
    BY <1>3, UpdateFacts DEF Reserve, NextOf, TypeOK, NodeState
  <2>3. req'[q].index = i /\ Reserved(q)'
    BY <1>1, <1>3 DEF Reserve, NextOf, Reserved, Req
  <2>4. \A r \in Set \ {q} : req'[r] = req[r]
    BY <1>1, <1>3 DEF Reserve
  <2>5. \A r \in Set \ {q} : (Reserved(r)' <=> Reserved(r)) /\ req'[r].index = req[r].index
    BY <2>4 DEF Reserved
  <2>6. \A r \in Set \ {q} : Reserved(r) =>
           /\ 1 <= req[r].index /\ req[r].index < i
           /\ \A o \in Set \ {r} : Reserved(o) => req[o].index # req[r].index
    BY <1>1 DEF ReservedOnce
  <2>7. 1 <= i
    BY <1>1
  <2> HIDE DEF i
  <2>8. ASSUME NEW r \in Set, Reserved(r)'
        PROVE  /\ 1 <= req'[r].index /\ req'[r].index <= node'[Leader].commit
               /\ \A o \in Set \ {r} : Reserved(o)' => req'[o].index # req'[r].index
    <3>1. i \in Nat
      BY <1>1 DEF i
    <3>2. CASE r = q
      BY <3>1, <3>2, <1>1, <2>2, <2>3, <2>5, <2>6, <2>7
    <3>3. CASE r # q
      BY <3>1, <3>3, <1>1, <2>8, <2>2, <2>3, <2>5, <2>6
    <3> QED BY <3>2, <3>3
  <2>9. ReservedOnce'
    BY <2>8 DEF ReservedOnce
  <2> QED BY <2>1, <2>5, <2>9
<1> QED BY <1>2, <1>3

LEMMA JobsStep ==
    ASSUME TypeOK, ReservedOnce, JobsReserved, KnownCommits, Next
    PROVE  JobsReserved' /\ KnownCommits'
<1>1. \A r \in Set : Reserved(r) => Reserved(r)'
  BY ReservedOnceStep
<1>2. ASSUME NEW r \in Set, NEW p \in Peer, job'[r][p].phase \notin {"off", "over"}
      PROVE  Reserved(r)'
  <2>1. CASE Send(r, p)
    BY <1>1, <2>1 DEF Send, JobsReserved
  <2>2. CASE PreCommit(r)
    BY <1>1, <2>2 DEF PreCommit, Reserved
  <2>3. CASE ~Send(r, p) /\ ~PreCommit(r)
    BY <1>1, <1>2, <2>3, JobSteps DEF JobKept, JobsReserved
  <2> QED BY <2>1, <2>2, <2>3
<1>3. /\ node[Leader].commit \in Nat /\ node'[Leader].commit \in Nat
      /\ node[Leader].commit <= node'[Leader].commit
  <2>1. node[Leader].commit \in Nat
    BY IndexFacts, UpdateFacts DEF TypeOK, NodeState
  <2> QED BY <2>1, CommitSteps
<1>4. ASSUME NEW r \in Set, NEW p \in Peer
      PROVE  job'[r][p].commit <= node'[Leader].commit
  <2>1. CASE Send(r, p)
    BY <1>3, <2>1, SendFacts
  <2>2. CASE ~Send(r, p)
    <3>1. job'[r][p].commit \in {job[r][p].commit, 0}
      BY <2>2, JobSteps DEF JobKept
    <3>2. job[r][p].commit \in Nat /\ job[r][p].commit <= node[Leader].commit
      BY IndexFacts DEF TypeOK, Job, KnownCommits
    <3> QED BY <1>3, <3>1, <3>2
  <2> QED BY <2>1, <2>2
<1>5. ASSUME NEW p \in Peer, beat'[p] # None
      PROVE  beat'[p] <= node'[Leader].commit
  <2>1. ASSUME NEW q \in Peer, HeartBeat(q)
        PROVE  beat'[p] \in {beat[p], node[Leader].commit}
    BY <2>1 DEF HeartBeat, TypeOK
  <2>2. ASSUME NEW q \in Peer, HandleBeat(q)
        PROVE  beat'[p] = beat[p]
    BY <1>5, <2>2 DEF HandleBeat, TypeOK
  <2>3. \A r \in Get : Read(r) => beat' = beat
    BY DEF Read
  <2>4. \A r \in Set : Reserve(r) \/ PreCommit(r) => beat' = beat
    BY DEF Reserve, PreCommit
  <2>5. \A r \in Set, q \in Peer : Collect(r, q) \/ SendOnClosed(r, q) => beat' = beat
    BY DEF Collect, Commit, CountTrue, CountFalse, Rollback, Consumed, SendOnClosed
  <2>6. \A r \in Set, q \in Peer : Attempt(r, q) \/ Unreachable(r, q) \/ GiveUp(r, q)
                                      => beat' = beat
    BY DEF Attempt, Send, Succeed, Backoff, Append, RefuseAppend, Unreachable, GiveUp
  <2>7. beat'[p] \in {beat[p], node[Leader].commit}
    BY <2>1, <2>2, <2>3, <2>4, <2>5, <2>6 DEF Next
  <2>8. beat[p] # None => beat[p] \in Nat /\ beat[p] <= node[Leader].commit
    BY IndexFacts DEF TypeOK, KnownCommits
  <2> QED BY <1>3, <1>5, <2>7, <2>8
<1> QED BY <1>2, <1>4, <1>5 DEF JobsReserved, KnownCommits


LEMMA OriginStep ==
    ASSUME TypeOK, ReservedOnce, JobsReserved, Next, NEW m, Origin(m)
    PROVE  Origin(m)'
<1>1. \A r \in Set : Reserved(r) => Reserved(r)' /\ req'[r].index = req[r].index
  BY ReservedOnceStep
<1>2. \A i \in 1..MaxIndex : i \in Index \ {0}
  BY ConstantAssumption DEF Index
<1>3. ASSUME NEW i \in 1..MaxIndex, NEW e \in At(i)'
      PROVE  e \in At(i) \/ \E r \in Set : Reserved(r) /\ req[r].index = i /\ e = EntryOf(r)
  <2>1. /\ e # None
        /\ \/ \E n \in Node : e = node'[n].log[i]
           \/ \E r \in Set, p \in Peer : e = job'[r][p].entries[i]
    BY <1>3 DEF At
  <2>2. ASSUME NEW n \in Node, e = node'[n].log[i]
        PROVE  e \in At(i) \/ \E r \in Set : Reserved(r) /\ req[r].index = i /\ e = EntryOf(r)
    <3>1. CASE e = node[n].log[i]
      BY <2>1, <3>1 DEF At
    <3>2. CASE e # node[n].log[i]
      <4>1. \/ \E r \in Set, p \in Peer : e = job[r][p].entries[i]
            \/ \E r \in Set : req[r].phase = "reserved" /\ req[r].index = i /\ e = EntryOf(r)
        BY <1>2, <2>1, <2>2, <3>2, LogSteps
      <4> QED BY <2>1, <4>1 DEF At, Reserved
    <3> QED BY <3>1, <3>2
  <2>3. ASSUME NEW r \in Set, NEW p \in Peer, e = job'[r][p].entries[i]
        PROVE  e \in At(i) \/ \E q \in Set : Reserved(q) /\ req[q].index = i /\ e = EntryOf(q)
    <3>1. CASE Send(r, p)
      <4>1. e \in {node[Leader].log[i], None} \cup (IF i = req[r].index THEN {EntryOf(r)} ELSE {})
        BY <1>2, <2>3, <3>1, SendFacts
      <4>2. Reserved(r) /\ Leader \in Node
        BY <3>1 DEF Send, JobsReserved, Node
      <4> QED BY <2>1, <4>1, <4>2 DEF At
    <3>2. CASE ~Send(r, p)
      <4>1. e \in {job[r][p].entries[i], None}
        BY <1>2, <2>3, <3>2, JobSteps DEF JobKept
      <4> QED BY <2>1, <4>1 DEF At
    <3> QED BY <3>1, <3>2
  <2> QED BY <2>1, <2>2, <2>3
<1>4. ASSUME NEW i \in 1..MaxIndex, NEW e \in At(i)'
      PROVE  \/ \E n \in Node : e = m[n].log[i]
             \/ \E r \in Set : Reserved(r)' /\ req'[r].index = i /\ e = EntryOf(r)
  <2>1. \/ \E n \in Node : e = m[n].log[i]
        \/ \E r \in Set : Reserved(r) /\ req[r].index = i /\ e = EntryOf(r)
    BY <1>3, <1>4 DEF Origin
  <2> QED BY <1>1, <2>1
<1>5. \A r : EntryOf(r)' = EntryOf(r)
  BY DEF EntryOf
<1> QED BY <1>4, <1>5 DEF Origin

LEMMA InitInv == Init => IInv
<1> SUFFICES ASSUME Init PROVE IInv
  OBVIOUS
<1>1. TypeOK
  BY InitType
<1>2. ReservedOnce
  BY DEF Init, ReservedOnce, Reserved
<1>3. JobsReserved
  BY DEF Init, JobsReserved, InPhase
<1>4. KnownCommits
  <2>1. node[Leader].commit \in Nat
    BY <1>1, IndexFacts, UpdateFacts DEF TypeOK, NodeState
  <2>2. \A r \in Set, p \in Peer : job[r][p].commit = 0
    BY DEF Init, InPhase
  <2> QED BY <2>1, <2>2 DEF Init, KnownCommits
<1>5. node \in InitNodes
  BY DEF Init
<1>6. \A i \in 1..MaxIndex, r \in Set, p \in Peer : job[r][p].entries[i] = None
  BY ConstantAssumption DEF Init, InPhase, NoEntries, Index
<1>7. Origin(node)
  BY <1>6 DEF Origin, At
<1> QED BY <1>1, <1>2, <1>3, <1>4, <1>5, <1>7 DEF IInv

LEMMA NextInv == IInv /\ [Next]_vars => IInv'
<1> SUFFICES ASSUME IInv, [Next]_vars PROVE IInv'
  OBVIOUS
<1>1. CASE UNCHANGED vars
  <2>1. node' = node /\ req' = req /\ job' = job /\ beat' = beat
    BY <1>1 DEF vars
  <2>2. TypeOK'
    BY NextType DEF IInv
  <2>3. ReservedOnce' /\ JobsReserved' /\ KnownCommits'
    BY <2>1 DEF IInv, ReservedOnce, Reserved, JobsReserved, KnownCommits
  <2>4. PICK m \in InitNodes : Origin(m)
    BY DEF IInv
  <2>5. Origin(m)'
    BY <2>1, <2>4 DEF Origin, At, Reserved, EntryOf
  <2> QED BY <2>2, <2>3, <2>5 DEF IInv
<1>2. CASE Next
  <2>1. TypeOK'
    BY NextType DEF IInv
  <2>2. ReservedOnce'
    BY <1>2, ReservedOnceStep DEF IInv
  <2>3. JobsReserved' /\ KnownCommits'
    BY <1>2, JobsStep DEF IInv
  <2>4. PICK m \in InitNodes : Origin(m)
    BY DEF IInv
  <2>5. Origin(m)'
    BY <1>2, <2>4, OriginStep DEF IInv
  <2> QED BY <2>1, <2>2, <2>3, <2>5 DEF IInv
<1> QED BY <1>1, <1>2

LEMMA IdentityFromInv == IInv => EntryIdentity
<1> SUFFICES ASSUME IInv, NEW i \in 1..MaxIndex, NEW e \in At(i), NEW f \in At(i),
                    e.term = f.term
             PROVE  e = f
  BY DEF EntryIdentity
<1>1. PICK m \in InitNodes : Origin(m)
  BY DEF IInv
<1>2. e # None /\ f # None
  BY DEF At
<1> DEFINE Old(x) == \E n \in Node : x = m[n].log[i]
           New(x) == \E r \in Set : Reserved(r) /\ req[r].index = i /\ x = EntryOf(r)
<1>3. (Old(e) \/ New(e)) /\ (Old(f) \/ New(f))
  BY <1>1 DEF Origin
<1>4. ASSUME NEW x, Old(x), x # None PROVE x.term < Term
  BY <1>4, DisksAssumption
<1>5. \A x : New(x) => x.term = Term
  BY DEF EntryOf
<1>6. CASE Old(e) /\ Old(f)
  BY <1>2, <1>6, DisksAssumption
<1>7. CASE New(e) /\ New(f)
  <2>1. PICK r \in Set : Reserved(r) /\ req[r].index = i /\ e = EntryOf(r)
    BY <1>7
  <2>2. PICK q \in Set : Reserved(q) /\ req[q].index = i /\ f = EntryOf(q)
    BY <1>7
  <2>3. r = q
    BY <2>1, <2>2 DEF IInv, ReservedOnce
  <2> QED BY <2>1, <2>2, <2>3
<1>8. CASE (Old(e) /\ New(f)) \/ (New(e) /\ Old(f))
  <2>1. Term < Term
    BY <1>2, <1>4, <1>5, <1>8
  <2> QED BY <2>1, ConstantAssumption
<1> HIDE DEF Old, New
<1> QED BY <1>3, <1>6, <1>7, <1>8

\* The index and the term of an entry name its request, in every log and every
\* append of every reachable state: whatever LogModule.Set drops, a rollback
\* leaves, or a batch fetches from a log with holes.
THEOREM ReplicationEntryIdentity == Spec => []EntryIdentity
BY InitInv, NextInv, IdentityFromInv, PTL DEF Spec

\* A peer's CommitIndex moves only to indices the leader has reserved.
THEOREM ReplicationFollowersBehind == Spec => FollowersBehind
<1>1. IInv /\ [Next]_vars =>
        [\A p \in Peer : node'[p].commit # node[p].commit
                            => node'[p].commit <= node[Leader].commit]_vars
  <2> SUFFICES ASSUME IInv, Next, NEW p \in Peer, node'[p].commit # node[p].commit
               PROVE  node'[p].commit <= node[Leader].commit
    OBVIOUS
  <2>1. /\ node[Leader].commit \in Nat /\ node'[p].commit \in Nat
        /\ \A r \in Set : job[r][p].commit \in Nat /\ job[r][p].commit <= node[Leader].commit
        /\ beat[p] # None => beat[p] \in Nat /\ beat[p] <= node[Leader].commit
    <3>1. TypeOK /\ TypeOK'
      BY NextType DEF IInv
    <3>2. node[Leader].commit \in Index /\ node'[p].commit \in Index
      BY <3>1, UpdateFacts DEF TypeOK, NodeState
    <3>3. \A r \in Set : job[r][p].commit \in Index
      BY <3>1 DEF TypeOK, Job
    <3>4. beat[p] # None => beat[p] \in Index
      BY <3>1 DEF TypeOK
    <3> QED BY <3>2, <3>3, <3>4, IndexFacts DEF IInv, KnownCommits
  <2>2. \/ \E r \in Set : node'[p].commit <= job[r][p].commit
        \/ beat[p] # None /\ node'[p].commit <= beat[p]
    BY CommitSteps DEF IInv
  <2> QED BY <2>1, <2>2
<1> QED BY <1>1, InitInv, NextInv, PTL DEF Spec, FollowersBehind


\* An entry whose client was told of success stays in the leader's log: only
\* its own request's rollback could delete it, or a request of the same index
\* overwrite it.
THEOREM ReplicationLeaderKeepsAcked == Spec => LeaderKeepsAcked
<1>1. IInv /\ [Next]_vars =>
        [\A r \in Set :
            LET i == req[r].index IN
            req[r].phase = "ok" /\ node[Leader].log[i] = EntryOf(r)
               => node'[Leader].log[i] = EntryOf(r)]_vars
  <2> SUFFICES ASSUME IInv, Next, NEW r \in Set, req[r].phase = "ok",
                      node[Leader].log[req[r].index] = EntryOf(r)
               PROVE  node'[Leader].log[req[r].index] = EntryOf(r)
    OBVIOUS
  <2> DEFINE i == req[r].index
  <2>1. /\ TypeOK /\ ReservedOnce /\ Reserved(r)
        /\ node \in [Node -> NodeState] /\ Leader \in Node /\ Leader \notin Peer
        /\ node[Leader] \in NodeState /\ node[Leader].log \in Log /\ i \in Index
    BY ConstantAssumption, UpdateFacts DEF IInv, Reserved, TypeOK, NodeState, Req
  <2>2. \A q \in Set \ {r} : Reserved(q) => req[q].index # i
    BY <2>1 DEF ReservedOnce
  <2>3. ASSUME NEW q \in Set, Reserve(q) PROVE node'[Leader].log = node[Leader].log
    BY <2>1, <2>3 DEF Reserve, NodeState
  <2>4. ASSUME NEW q \in Set, PreCommit(q) PROVE node'[Leader].log[i] = node[Leader].log[i]
    <3>1. q # r /\ Reserved(q)
      BY <2>4 DEF PreCommit, Reserved
    <3>2. req[q].index # i /\ req[q].index \in Index /\ EntryOf(q) \in Entry
      BY <3>1, <2>1, <2>2, EntryFacts DEF TypeOK, Req
    <3>3. Write(node[Leader], req[q].index, EntryOf(q)).log
             = [node[Leader].log EXCEPT ![req[q].index] = EntryOf(q)]
      BY <2>1, <3>2 DEF Write, NodeState
    <3>4. \/ node'[Leader].log = node[Leader].log
          \/ node'[Leader].log = [node[Leader].log EXCEPT ![req[q].index] = EntryOf(q)]
      BY <2>1, <2>4, <3>3 DEF PreCommit
    <3> HIDE DEF i
    <3> QED BY <2>1, <3>2, <3>4 DEF Log
  <2>5. ASSUME NEW q \in Set, NEW p \in Peer, Commit(q, p)
        PROVE  node'[Leader].log = node[Leader].log
    BY <2>1, <2>5 DEF Commit, Applied, NodeState
  <2>6. ASSUME NEW q \in Set, NEW p \in Peer, Rollback(q, p)
        PROVE  node'[Leader].log[i] = node[Leader].log[i]
    <3>1. q # r /\ Reserved(q)
      BY <2>6 DEF Rollback, Consumed, Waiting, Reserved
    <3>2. req[q].index # i /\ req[q].index \in Index
      BY <3>1, <2>1, <2>2 DEF TypeOK, Req
    <3>3. node'[Leader].log = [node[Leader].log EXCEPT ![req[q].index] = None]
      BY <2>1, <2>6 DEF Rollback, Remove, NodeState
    <3> HIDE DEF i
    <3> QED BY <2>1, <3>2, <3>3 DEF Log
  <2>7. ASSUME NEW q \in Set, NEW p \in Peer, Append(q, p)
        PROVE  node'[Leader] = node[Leader]
    BY <2>1, <2>7 DEF Append
  <2>8. ASSUME NEW p \in Peer, HandleBeat(p)
        PROVE  node'[Leader] = node[Leader]
    BY <2>1, <2>8 DEF HandleBeat
  <2> QED BY NodeSteps, <2>3, <2>4, <2>5, <2>6, <2>7, <2>8
<1> QED BY <1>1, InitInv, NextInv, PTL DEF Spec, LeaderKeepsAcked

-----------------------------------------------------------------------------
(* The leader implements AtomicStore. *)

LEMMA PromiseInit == Init => Promise!Init
<1> SUFFICES ASSUME Init PROVE Promise!Init
  OBVIOUS
<1>1. node \in InitNodes /\ Leader \in Node
  BY DEF Init, Node
<1>2. \A k \in Key : Value(node[Leader].sm[k]) \in Past \cup {None}
  BY <1>1, DisksAssumption DEF Value
<1>3. \A k \in Key : Value(node[Leader].sm[k]) \notin Set
  BY <1>2, ConstantAssumption DEF Request
<1>4. \A r \in Request : Status(r) = "new"
  BY DEF Init, Status, Request
<1> QED BY <1>3, <1>4 DEF Init, Promise!Init, Request

\* A step that changes neither the state machine of the leader nor what a
\* client knows is a stutter.
LEMMA PromiseStutter ==
    ASSUME node'[Leader].sm = node[Leader].sm, answer' = answer,
           \A r \in Set : Status(r)' = Status(r)
    PROVE  UNCHANGED <<[k \in Key |-> Value(node[Leader].sm[k])],
                       [r \in Request |-> Status(r)], answer>>
<1>1. \A r \in Get : Status(r)' = Status(r)
  BY DEF Status
<1>2. \A r \in Request : Status(r)' = Status(r)
  BY <1>1 DEF Request
<1> QED BY <1>2 DEF Value


LEMMA PromiseStep ==
    ASSUME TypeOK, Next
    PROVE  [Promise!Next]_<<[k \in Key |-> Value(node[Leader].sm[k])],
                            [r \in Request |-> Status(r)], answer>>
<1> DEFINE Stutter == UNCHANGED <<[k \in Key |-> Value(node[Leader].sm[k])],
                                  [r \in Request |-> Status(r)], answer>>
<1>1. /\ node \in [Node -> NodeState] /\ req \in [Set -> Req]
      /\ Leader \in Node /\ Leader \notin Peer /\ Peer \subseteq Node
      /\ Set \cap Get = {} /\ \A r \in Request : KeyOf[r] \in Key
  BY ConstantAssumption DEF TypeOK, Node, Request
<1>2. ASSUME NEW r \in Get, Read(r) PROVE Promise!Read(r)
  <2>1. Status(r) = "new" /\ Status(r)' = "ok"
    BY <1>2 DEF Read, Status, TypeOK
  <2>2. \A q \in Request \ {r} : Status(q)' = Status(q)
    BY <1>2 DEF Read, Status, TypeOK
  <2>3. [q \in Request |-> Status(q)]' = [[q \in Request |-> Status(q)] EXCEPT ![r] = "ok"]
    BY <2>1, <2>2
  <2>4. r \in Request /\ KeyOf[r] \in Key
    BY <1>1 DEF Request
  <2> QED BY <1>2, <2>1, <2>3, <2>4 DEF Read, Promise!Read, Request, Value
<1>3. ASSUME NEW r \in Set, Reserve(r) PROVE Promise!Call(r)
  <2>1. Status(r) = "new" /\ Status(r)' = "pending"
    BY <1>1, <1>3 DEF Reserve, Status, Req
  <2>2. \A q \in Request \ {r} : Status(q)' = Status(q)
    BY <1>1, <1>3 DEF Reserve, Status, Request
  <2>3. [q \in Request |-> Status(q)]' = [[q \in Request |-> Status(q)] EXCEPT ![r] = "pending"]
    BY <2>1, <2>2
  <2>4. node'[Leader].sm = node[Leader].sm
    BY <1>1, <1>3 DEF Reserve, NodeState
  <2>5. r \in Request
    BY DEF Request
  <2> QED BY <1>3, <2>1, <2>3, <2>4, <2>5 DEF Reserve, Promise!Call, Request, Value
<1>4. ASSUME NEW r \in Set, PreCommit(r) PROVE Stutter
  <2>1. node'[Leader].sm = node[Leader].sm
    BY <1>1, <1>4 DEF PreCommit, Write, NodeState
  <2>2. \A q \in Set : Status(q)' = Status(q)
    BY <1>1, <1>4 DEF PreCommit, Status, Req
  <2> QED BY <1>4, <2>1, <2>2, PromiseStutter DEF PreCommit
<1>5. ASSUME NEW r \in Set, NEW p \in Peer, Commit(r, p) PROVE Promise!Apply(r)
  <2>1. Status(r) = "pending" /\ Status(r)' = "ok"
    BY <1>1, <1>5 DEF Commit, Consumed, Waiting, Closed, Status, Req
  <2>2. \A q \in Request \ {r} : Status(q)' = Status(q)
    BY <1>1, <1>5 DEF Commit, Consumed, Closed, Status, Request
  <2>3. [q \in Request |-> Status(q)]' = [[q \in Request |-> Status(q)] EXCEPT ![r] = "ok"]
    BY <2>1, <2>2
  <2>4. node'[Leader].sm = [node[Leader].sm EXCEPT ![KeyOf[r]] = EntryOf(r)]
    BY <1>1, <1>5 DEF Commit, Applied, NodeState
  <2>5. Value(EntryOf(r)) = r /\ node[Leader].sm \in [Key -> Slot]
    BY <1>1, EntryFacts DEF Value, EntryOf, NodeState
  <2>6. r \in Request /\ KeyOf[r] \in Key
    BY <1>1 DEF Request
  <2>7. \A k \in Key : Value(node'[Leader].sm[k]) =
           IF k = KeyOf[r] THEN r ELSE Value(node[Leader].sm[k])
    BY <2>4, <2>5, <2>6
  <2>8. [k \in Key |-> Value(node[Leader].sm[k])]' =
           [[k \in Key |-> Value(node[Leader].sm[k])] EXCEPT ![KeyOf[r]] = r]
    BY <2>6, <2>7 DEF Value
  <2>9. answer' = answer
    BY <1>5 DEF Commit, Consumed
  <2> QED BY <2>1, <2>3, <2>6, <2>8, <2>9 DEF Promise!Apply, Request
<1>6. ASSUME NEW r \in Set, NEW p \in Peer, Rollback(r, p) PROVE Promise!Fail(r)
  <2>1. Status(r) = "pending" /\ Status(r)' = "failed"
    BY <1>1, <1>6 DEF Rollback, Consumed, Waiting, Closed, Status, Req
  <2>2. \A q \in Request \ {r} : Status(q)' = Status(q)
    BY <1>1, <1>6 DEF Rollback, Consumed, Closed, Status, Request
  <2>3. [q \in Request |-> Status(q)]' = [[q \in Request |-> Status(q)] EXCEPT ![r] = "failed"]
    BY <2>1, <2>2
  <2>4. node'[Leader].sm = node[Leader].sm
    BY <1>1, <1>6 DEF Rollback, Remove, NodeState
  <2>5. r \in Request /\ answer' = answer
    BY <1>6 DEF Request, Rollback, Consumed
  <2> QED BY <2>1, <2>3, <2>4, <2>5 DEF Promise!Fail, Request, Value
<1>7. ASSUME NEW r \in Set, NEW p \in Peer, CountTrue(r, p) \/ CountFalse(r, p)
      PROVE  Stutter
  <2>1. \A q \in Set : Status(q)' = Status(q)
    <3>1. CASE CountTrue(r, p)
      <4>1. \A q \in Set : req'[q].phase = req[q].phase
        BY <1>1, <3>1 DEF CountTrue, Counted, Req
      <4> QED BY <1>1, <4>1 DEF Status
    <3>2. CASE CountFalse(r, p)
      <4>1. \A q \in Set : req'[q].phase = req[q].phase
        BY <1>1, <3>2 DEF CountFalse, Req
      <4> QED BY <1>1, <4>1 DEF Status
    <3> QED BY <1>7, <3>1, <3>2
  <2> QED BY <1>7, <2>1, PromiseStutter DEF CountTrue, CountFalse, Consumed
<1>8. ASSUME NEW r \in Set, NEW p \in Peer,
             \/ SendOnClosed(r, p) \/ Send(r, p) \/ Succeed(r, p) \/ Backoff(r, p)
             \/ RefuseAppend(r, p) \/ Unreachable(r, p) \/ GiveUp(r, p)
      PROVE  Stutter
  <2>1. node' = node /\ req' = req /\ answer' = answer
    BY <1>8 DEF SendOnClosed, Send, Succeed, Backoff, RefuseAppend, Unreachable, GiveUp
  <2> QED BY <2>1, PromiseStutter DEF Status
<1>9. ASSUME NEW r \in Set, NEW p \in Peer, Append(r, p) PROVE Stutter
  <2>1. node'[Leader] = node[Leader] /\ req' = req /\ answer' = answer
    BY <1>1, <1>9 DEF Append
  <2> QED BY <2>1, PromiseStutter DEF Status
<1>10. ASSUME NEW p \in Peer, HeartBeat(p) \/ HandleBeat(p) PROVE Stutter
  <2>1. node'[Leader] = node[Leader] /\ req' = req /\ answer' = answer
    BY <1>1, <1>10 DEF HeartBeat, HandleBeat
  <2> QED BY <2>1, PromiseStutter DEF Status
<1>11. \A r \in Get : Promise!Read(r) => Promise!Next
  BY DEF Promise!Next
<1>12. \A r \in Set : Promise!Call(r) \/ Promise!Apply(r) \/ Promise!Fail(r) => Promise!Next
  BY DEF Promise!Next
<1> HIDE DEF Stutter
<1>13. Promise!Next \/ Stutter
  BY <1>2, <1>3, <1>4, <1>5, <1>6, <1>7, <1>8, <1>9, <1>10, <1>11, <1>12
     DEF Next, Attempt, Collect
<1> QED BY <1>13 DEF Stutter

\* The leader's clients see one atomic store, for any number of peers, requests
\* and keys: an entry is applied and its client answered in one step of the
\* collector, a request that fails was never applied, and a GET reads what was.
THEOREM ReplicationImplementsAtomicStore == Spec => AtomicStoreSpec
<1>1. TypeOK /\ [Next]_vars =>
        [Promise!Next]_<<[k \in Key |-> Value(node[Leader].sm[k])],
                         [r \in Request |-> Status(r)], answer>>
  <2> SUFFICES ASSUME TypeOK, UNCHANGED vars
               PROVE  UNCHANGED <<[k \in Key |-> Value(node[Leader].sm[k])],
                                  [r \in Request |-> Status(r)], answer>>
    BY PromiseStep
  <2> QED BY PromiseStutter DEF vars, Status
<1> QED BY <1>1, PromiseInit, ReplicationTypeCorrect, PTL DEF Spec, AtomicStoreSpec, Promise!Spec


-----------------------------------------------------------------------------
(* The collector counts each goroutine of its request once.                 *)

Heard(r) == {p \in Peer : job[r][p].phase = "over"}

CountOK(r) ==
    /\ req[r].phase \in {"new", "reserved"} => req[r].count = 0 /\ req[r].sent = 0
    /\ Waiting(r) =>
          /\ Cardinality(Heard(r)) = req[r].sent
          /\ req[r].sent = NumPeers => 0 < req[r].count
          /\ req[r].count = 0 \/ req[r].count < Half

CountInv == up => \A r \in Set : CountOK(r)

LEMMA HeardFacts ==
    /\ NumPeers \in Nat /\ NumPeers # 0 /\ Half \in Nat
    /\ \A r : Heard(r) \in SUBSET Peer /\ IsFiniteSet(Heard(r)) /\ Cardinality(Heard(r)) \in Nat
<1>1. IsFiniteSet(Peer) /\ Peer # {}
  BY ConstantAssumption
<1>2. NumPeers \in Nat /\ NumPeers # 0
  BY <1>1, FS_CardinalityType, FS_EmptySet DEF NumPeers
<1>3. \A r : Heard(r) \in SUBSET Peer
  BY DEF Heard
<1>4. \A r : IsFiniteSet(Heard(r))
  BY <1>1, <1>3, FS_Subset
<1>5. \A r : Cardinality(Heard(r)) \in Nat
  BY <1>4, FS_CardinalityType
<1> QED BY <1>2, <1>3, <1>4, <1>5 DEF Half

LEMMA SameCount ==
    ASSUME NEW r \in Set, CountOK(r), req'[r] = req[r], Waiting(r) => Heard(r)' = Heard(r)
    PROVE  CountOK(r)'
BY DEF CountOK, Waiting

LEMMA OneMoreHeard ==
    ASSUME TypeOK, NEW r \in Set, NEW p \in Peer, job[r][p].phase # "over",
           job' = [job EXCEPT ![r][p] = InPhase("over")]
    PROVE  Cardinality(Heard(r)') = Cardinality(Heard(r)) + 1
<1>1. Heard(r)' = Heard(r) \cup {p}
  BY DEF Heard, InPhase, TypeOK
<1>2. p \notin Heard(r)
  BY DEF Heard
<1> QED BY <1>1, <1>2, HeardFacts, FS_AddElement

\* An attempt goes from one phase to another, and neither is the end.
LEMMA StillUnheard ==
    ASSUME TypeOK, NEW r \in Set, NEW p \in Peer,
           job[r][p].phase # "over", job'[r][p].phase # "over",
           \A s \in Peer \ {p} : job'[r][s] = job[r][s]
    PROVE  Heard(r)' = Heard(r)
BY DEF Heard

LEMMA CollectCounts ==
    ASSUME TypeOK, NEW r \in Set, NEW p \in Peer, CountOK(r), Collect(r, p)
    PROVE  CountOK(r)'
<1>1. req \in [Set -> Req] /\ req[r].count \in Nat /\ req[r].sent \in Nat
  BY DEF TypeOK, Req
<1>2. CASE Commit(r, p)
  <2>1. req'[r].phase = "ok"
    BY <1>1, <1>2 DEF Commit, Closed, Req
  <2> QED BY <2>1 DEF CountOK, Waiting
<1>3. CASE Rollback(r, p)
  <2>1. req'[r].phase = "failed"
    BY <1>1, <1>3 DEF Rollback, Closed, Req
  <2> QED BY <2>1 DEF CountOK, Waiting
<1>4. CASE CountTrue(r, p)
  <2>1. /\ Waiting(r) /\ job[r][p].phase = "true" /\ req[r].count + 1 < Half
        /\ req' = [req EXCEPT ![r] = Counted(@)]
        /\ job' = [job EXCEPT ![r][p] = InPhase("over")]
    BY <1>4 DEF CountTrue, Consumed
  <2>2. Cardinality(Heard(r)') = Cardinality(Heard(r)) + 1
    BY <2>1, OneMoreHeard
  <2>3. /\ req'[r].phase = "waiting" /\ req'[r].count = req[r].count + 1
        /\ req'[r].sent = req[r].sent + 1
    BY <1>1, <2>1 DEF Counted, Waiting, Req
  <2> QED BY <1>1, <2>1, <2>2, <2>3 DEF CountOK, Waiting
<1>5. CASE CountFalse(r, p)
  <2>1. /\ Waiting(r) /\ job[r][p].phase = "false" /\ req[r].sent + 1 < NumPeers
        /\ req' = [req EXCEPT ![r].sent = @ + 1]
        /\ job' = [job EXCEPT ![r][p] = InPhase("over")]
    BY <1>5 DEF CountFalse, Consumed
  <2>2. Cardinality(Heard(r)') = Cardinality(Heard(r)) + 1
    BY <2>1, OneMoreHeard
  <2>3. /\ req'[r].phase = "waiting" /\ req'[r].count = req[r].count
        /\ req'[r].sent = req[r].sent + 1
    BY <1>1, <2>1 DEF Waiting, Req
  <2> QED BY <1>1, <2>1, <2>2, <2>3, HeardFacts DEF CountOK, Waiting
<1> QED BY <1>2, <1>3, <1>4, <1>5 DEF Collect

LEMMA AttemptCounts ==
    ASSUME TypeOK, NEW r \in Set, NEW p \in Peer, CountOK(r),
           Attempt(r, p) \/ Unreachable(r, p) \/ GiveUp(r, p)
    PROVE  CountOK(r)'
<1>1. job \in [Set -> [Peer -> Job]]
  BY DEF TypeOK
<1>2. CASE Send(r, p)
  <2>1. job' = [job EXCEPT ![r][p] = job'[r][p]]
    BY <1>2, SendFacts
  <2>2. \A s \in Peer \ {p} : job'[r][s] = job[r][s]
    BY <1>1, <2>1
  <2>3. job[r][p].phase # "over" /\ job'[r][p].phase = "open" /\ req' = req
    BY <1>1, <1>2 DEF Send
  <2> QED BY <2>2, <2>3, StillUnheard, SameCount
<1>3. CASE Succeed(r, p) \/ GiveUp(r, p)
  <2>1. PICK msg \in {"true", "false"} : Finish(r, p, msg)
    BY <1>3 DEF Succeed, GiveUp
  <2>2. req' = req /\ job[r][p].phase # "over"
    BY <1>3 DEF Succeed, GiveUp
  <2>3. CASE Waiting(r)
    <3>1. job' = [job EXCEPT ![r][p] = InPhase(msg)]
      BY <2>1, <2>3 DEF Finish
    <3>2. job'[r][p].phase = msg /\ \A s \in Peer \ {p} : job'[r][s] = job[r][s]
      BY <1>1, <3>1 DEF InPhase
    <3> QED BY <2>2, <3>2, StillUnheard, SameCount
  <2>4. CASE ~Waiting(r)
    BY <2>2, <2>4, SameCount
  <2> QED BY <2>3, <2>4
<1>4. CASE Backoff(r, p) \/ Unreachable(r, p) \/ Append(r, p)
  <2>1. PICK ph \in {"lost", "yes"} : job' = [job EXCEPT ![r][p] = InPhase(ph)]
    BY <1>4 DEF Backoff, Unreachable, Append
  <2>2. req' = req /\ job[r][p].phase # "over"
    BY <1>4 DEF Backoff, Unreachable, Append
  <2>3. job'[r][p].phase = ph /\ \A s \in Peer \ {p} : job'[r][s] = job[r][s]
    BY <1>1, <2>1 DEF InPhase
  <2> QED BY <2>2, <2>3, StillUnheard, SameCount
<1>5. CASE RefuseAppend(r, p)
  <2>1. req' = req /\ job[r][p].phase # "over"
    BY <1>5 DEF RefuseAppend
  <2>2. job'[r][p] = [InPhase("no") EXCEPT !.next = job[r][p].next]
    BY <1>1, <1>5 DEF RefuseAppend
  <2>3. job'[r][p].phase = "no"
    BY <2>2 DEF InPhase
  <2>4. \A s \in Peer \ {p} : job'[r][s] = job[r][s]
    BY <1>1, <1>5 DEF RefuseAppend
  <2> QED BY <2>1, <2>3, <2>4, StillUnheard, SameCount
<1> QED BY <1>2, <1>3, <1>4, <1>5 DEF Attempt

LEMMA CountStep ==
    ASSUME TypeOK, CountInv, [Next]_vars
    PROVE  CountInv'
<1> SUFFICES ASSUME up', NEW r \in Set PROVE CountOK(r)'
  BY DEF CountInv
<1>1. job \in [Set -> [Peer -> Job]] /\ req \in [Set -> Req]
  BY DEF TypeOK
<1>2. ASSUME req'[r] = req[r], job'[r] = job[r], up PROVE CountOK(r)'
  <2>1. Heard(r)' = Heard(r)
    BY <1>2 DEF Heard
  <2> QED BY <1>2, <2>1, SameCount DEF CountInv
<1>3. CASE UNCHANGED vars
  BY <1>2, <1>3 DEF vars
<1>4. ASSUME NEW q \in Set, Reserve(q) PROVE CountOK(r)'
  <2>1. CASE q # r
    BY <1>1, <1>2, <1>4, <2>1 DEF Reserve
  <2>2. CASE q = r
    <3>1. /\ req[r].phase = "new" /\ req'[r].phase = "reserved"
          /\ req'[r].count = req[r].count /\ req'[r].sent = req[r].sent
      BY <1>1, <1>4, <2>2 DEF Reserve, Req
    <3>2. CountOK(r)
      BY <1>4 DEF Reserve, CountInv
    <3> QED BY <3>1, <3>2 DEF CountOK, Waiting
  <2> QED BY <2>1, <2>2
<1>5. ASSUME NEW q \in Set, PreCommit(q) PROVE CountOK(r)'
  <2>1. CASE q # r
    BY <1>1, <1>2, <1>5, <2>1 DEF PreCommit
  <2>2. CASE q = r
    <3>1. CountOK(r) /\ req[r].phase = "reserved"
      BY <1>5, <2>2 DEF PreCommit, CountInv
    <3>2. /\ req'[r].phase = "waiting" /\ req'[r].count = 0 /\ req'[r].sent = 0
      BY <1>1, <1>5, <2>2, <3>1 DEF PreCommit, CountOK, Req
    <3>3. \A p \in Peer : job'[r][p] = InPhase("ready")
      BY <1>1, <1>5, <2>2 DEF PreCommit
    <3>4. Heard(r)' = {}
      BY <3>3 DEF Heard, InPhase
    <3>5. Cardinality(Heard(r)') = 0
      BY <3>4, FS_EmptySet
    <3> QED BY <3>2, <3>5, HeardFacts DEF CountOK, Waiting
  <2> QED BY <2>1, <2>2
<1>6. ASSUME NEW q \in Set, NEW p \in Peer, Collect(q, p) PROVE CountOK(r)'
  <2>1. up
    BY <1>6 DEF Collect, Commit, CountTrue, CountFalse, Rollback, Consumed
  <2>2. CASE q # r
    <3>1. req'[r] = req[r] /\ job'[r] = job[r]
      BY <1>1, <1>6, <2>2 DEF Collect, Commit, CountTrue, CountFalse, Rollback, Closed
    <3> QED BY <1>2, <2>1, <3>1
  <2>3. CASE q = r
    BY <1>6, <2>1, <2>3, CollectCounts DEF CountInv
  <2> QED BY <2>2, <2>3
<1>7. ASSUME NEW q \in Set, NEW p \in Peer,
             Attempt(q, p) \/ Unreachable(q, p) \/ GiveUp(q, p)
      PROVE  CountOK(r)'
  <2>1. up /\ req' = req
    BY <1>7 DEF Attempt, Send, Succeed, Backoff, Append, RefuseAppend, Unreachable, GiveUp
  <2>2. CASE q # r
    <3>1. job'[r] = job[r]
      BY <1>1, <1>7, <2>2 DEF Attempt, Send, Succeed, Backoff, Append, RefuseAppend,
                              Unreachable, GiveUp, Finish
    <3> QED BY <1>2, <2>1, <3>1
  <2>3. CASE q = r
    BY <1>7, <2>1, <2>3, AttemptCounts DEF CountInv
  <2> QED BY <2>2, <2>3
<1>8. \A q \in Set, p \in Peer : ~SendOnClosed(q, p)
  BY DEF SendOnClosed
<1>9. ASSUME NEW p \in Peer, HeartBeat(p) \/ HandleBeat(p) PROVE CountOK(r)'
  BY <1>2, <1>9 DEF HeartBeat, HandleBeat
<1>10. ASSUME NEW q \in Get, Read(q) PROVE CountOK(r)'
  BY <1>2, <1>10 DEF Read
<1> QED BY <1>3, <1>4, <1>5, <1>6, <1>7, <1>8, <1>9, <1>10 DEF Next

\* A collector that no goroutine will send to any more has heard every peer,
\* and a success last: the loop looks for its end only after a failure.
THEOREM ReplicationHungOnlyByLateSuccess == Spec => []HungOnlyByLateSuccess
<1>1. Init => CountInv
  BY DEF Init, CountInv, CountOK, Waiting
<1>2. CountInv /\ TypeOK => HungOnlyByLateSuccess
  <2> SUFFICES ASSUME CountInv, TypeOK, up, NEW r \in Set, Waiting(r),
                      \A p \in Peer : job[r][p].phase = "over"
               PROVE  HungByLateSuccess(r)
    BY DEF HungOnlyByLateSuccess
  <2>1. Heard(r) = Peer
    BY DEF Heard
  <2>2. req[r].sent = NumPeers
    BY <2>1 DEF CountInv, CountOK, NumPeers
  <2>3. 0 < req[r].count /\ (req[r].count = 0 \/ req[r].count < Half)
    BY <2>2 DEF CountInv, CountOK
  <2> QED BY <2>2, <2>3 DEF HungByLateSuccess
<1>3. TypeOK /\ CountInv /\ [Next]_vars => CountInv'
  BY CountStep
<1> QED BY <1>1, <1>2, <1>3, ReplicationTypeCorrect, PTL DEF Spec
=============================================================================
