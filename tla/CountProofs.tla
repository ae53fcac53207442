----------------------------- MODULE CountProofs -----------------------------
(***************************************************************************)
(* Election: the messages that electionTask and becomeLeaderToDo have      *)
(* counted and the RPCs that are still out add up to the peers, so neither *)
(* loop waits for a message that cannot come.                              *)
(***************************************************************************)
EXTENDS ElectionProofs, FiniteSetTheorems, FunctionTheorems

\* The peers whose call of this kind, of the election that s is in, is out.
Out(s, kind) ==
    {c.to : c \in {d \in calls : d.kind = kind /\ d.from = s /\ d.round = round[s]}}

\* A caller has one call of a kind to each peer in each of its elections.
Twins(c, d) ==
    /\ c.from \in Server /\ c.kind # "beat"
    /\ c.kind = d.kind /\ c.from = d.from /\ c.to = d.to /\ c.round = d.round

CallInv ==
    /\ \A c, d \in calls : Twins(c, d) => c = d
    /\ \A c \in calls :
         /\ c.from \in Server => c.to # c.from /\ c.round <= round[c.from]
         /\ c.kind = "vote" /\ c.status \in {"no", "seen"} /\ c.from \in Server
            /\ task[c.from].phase # "idle" /\ round[c.from] = c.round
              => task[c.from].refused

\* Only once in an election are the replications of the term entry started.
LeadsOnce(s) ==
    /\ task[s].phase = "leading" => state[s] # CANDIDATE
    /\ task[s].phase = "voting" /\ state[s] # FOLLOWER => Out(s, "term") = {}
    /\ task[s].phase = "voting" => task[s].received = 0

AcksAddUp(s) ==
    task[s].phase = "leading" =>
        /\ Cardinality(Out(s, "term")) + task[s].received = NumPeers
        /\ task[s].received < NumPeers

VotesAddUp(s) ==
    task[s].phase # "idle" /\ ~task[s].refused =>
        /\ Cardinality(Out(s, "vote")) + task[s].sent = NumPeers
        /\ task[s].phase = "voting" => task[s].sent # NumPeers \/ NumPeers = 0

TaskInv(s) == LeadsOnce(s) /\ AcksAddUp(s) /\ VotesAddUp(s)

CountInv == CallInv /\ \A s \in Server : TaskInv(s)

-----------------------------------------------------------------------------
(* The sets that are counted. *)

LEMMA OutFacts ==
    ASSUME TypeOK, NEW s \in Server, NEW kind
    PROVE  /\ Out(s, kind) \subseteq Server
           /\ IsFiniteSet(Out(s, kind))
           /\ Cardinality(Out(s, kind)) \in Nat
<1>1. Out(s, kind) \subseteq Server
  BY DEF Out, TypeOK, Call
<1>2. IsFiniteSet(Server)
  BY ConstantAssumption
<1> QED BY <1>1, <1>2, FS_Subset, FS_CardinalityType

LEMMA PeersFacts ==
    ASSUME NEW s \in Server
    PROVE  /\ Cardinality(Peers(s)) = NumPeers
           /\ NumPeers \in Nat
           /\ Peers(s) # {} => NumPeers > 0
<1>1. IsFiniteSet(Server)
  BY ConstantAssumption
<1>2. IsFiniteSet(Peers(s)) /\ Cardinality(Peers(s)) = NumPeers
  BY <1>1, FS_RemoveElement DEF Peers, NumPeers
<1>3. NumPeers \in Nat
  BY <1>2, FS_CardinalityType
<1>4. Peers(s) # {} => NumPeers # 0
  BY <1>2, FS_EmptySet
<1>5. NumPeers # 0 => NumPeers > 0
  BY <1>3
<1> QED BY <1>2, <1>3, <1>4, <1>5

\* One call less.
LEMMA RemovedOut ==
    ASSUME TypeOK, CallInv, NEW c \in calls, calls' = calls \ {c}, UNCHANGED round,
           NEW s \in Server, NEW kind \in {"vote", "term"}
    PROVE  /\ ~(c.kind = kind /\ c.from = s /\ c.round = round[s])
                => Out(s, kind)' = Out(s, kind)
           /\ c.kind = kind /\ c.from = s /\ c.round = round[s]
                => Cardinality(Out(s, kind)') = Cardinality(Out(s, kind)) - 1
<1>1. CASE ~(c.kind = kind /\ c.from = s /\ c.round = round[s])
  BY <1>1 DEF Out
<1>2. CASE c.kind = kind /\ c.from = s /\ c.round = round[s]
  <2>1. \A d \in calls : /\ d.kind = kind /\ d.from = s /\ d.round = round[s]
                          /\ d.to = c.to
                          => d = c
    BY <1>2 DEF CallInv, Twins
  <2>2. Out(s, kind)' = Out(s, kind) \ {c.to}
    BY <1>2, <2>1 DEF Out
  <2>3. c.to \in Out(s, kind)
    BY <1>2 DEF Out
  <2> QED BY <1>2, <2>2, <2>3, OutFacts, FS_RemoveElement
<1> QED BY <1>1, <1>2

\* The same RPC, further on or sent again.
SameCall(c, d) == c.kind = d.kind /\ c.from = d.from /\ c.to = d.to /\ c.round = d.round

LEMMA ReplacedOut ==
    ASSUME NEW c \in calls, NEW d, SameCall(c, d), calls' = (calls \ {c}) \cup {d},
           UNCHANGED round, NEW s \in Server, NEW kind
    PROVE  Out(s, kind)' = Out(s, kind)
<1>1. ASSUME NEW p \in Out(s, kind) PROVE p \in Out(s, kind)'
  <2>1. PICK e \in calls : e.kind = kind /\ e.from = s /\ e.round = round[s] /\ p = e.to
    BY DEF Out
  <2>2. \E f \in calls' : f.kind = kind /\ f.from = s /\ f.round = round'[s] /\ p = f.to
    <3>1. CASE e = c
      BY <2>1, <3>1 DEF SameCall
    <3>2. CASE e # c
      BY <2>1, <3>2
    <3> QED BY <3>1, <3>2
  <2> QED BY <2>2 DEF Out
<1>2. ASSUME NEW p \in Out(s, kind)' PROVE p \in Out(s, kind)
  <2>1. PICK e \in calls' : e.kind = kind /\ e.from = s /\ e.round = round'[s] /\ p = e.to
    BY DEF Out
  <2>2. \E f \in calls : f.kind = kind /\ f.from = s /\ f.round = round[s] /\ p = f.to
    BY <2>1 DEF SameCall
  <2> QED BY <2>2 DEF Out
<1> QED BY <1>1, <1>2

-----------------------------------------------------------------------------
(* What an action leaves of the invariant. *)

\* Elections go on or end, and a call is dropped, answered or sent again.
LEMMA KeepCalls ==
    ASSUME TypeOK, CallInv, UNCHANGED round,
           \A s \in Server : task'[s].phase # "idle" =>
               task[s].phase # "idle" /\ (task[s].refused => task'[s].refused),
           NEW c \in calls, NEW d, SameCall(c, d), calls' \subseteq (calls \ {c}) \cup {d},
           \/ d.kind # "vote" \/ d.status \notin {"no", "seen"} \/ d = c
           \/ d.from \in Server => task'[d.from].phase = "idle" \/ round[d.from] # d.round
                                     \/ task'[d.from].refused
    PROVE  CallInv'
<1>1. ASSUME NEW e \in calls', NEW f \in calls', Twins(e, f) PROVE e = f
  BY <1>1 DEF CallInv, Twins, SameCall
<1>2. ASSUME NEW e \in calls', e.from \in Server
      PROVE  e.to # e.from /\ e.round <= round'[e.from]
  BY <1>2 DEF CallInv, SameCall
<1>3. ASSUME NEW e \in calls', e.kind = "vote", e.status \in {"no", "seen"}, e.from \in Server,
             task'[e.from].phase # "idle", round'[e.from] = e.round
      PROVE  task'[e.from].refused
  BY <1>3 DEF CallInv, SameCall
<1> QED BY <1>1, <1>2, <1>3 DEF CallInv, Twins

\* Calls are dropped.
LEMMA FewerCalls ==
    ASSUME TypeOK, CallInv, UNCHANGED round, calls' \subseteq calls,
           \A s \in Server : task'[s].phase # "idle" =>
               task[s].phase # "idle" /\ (task[s].refused => task'[s].refused)
    PROVE  CallInv'
BY DEF CallInv, Twins

\* A server that counts nothing.
LEMMA KeepTask ==
    ASSUME TypeOK, NEW s \in Server, TaskInv(s),
           state'[s] \in {state[s], FOLLOWER},
           task'[s] = task[s] \/ task'[s] = [task[s] EXCEPT !.refused = TRUE],
           \/ task[s].phase = "idle"
           \/ /\ Out(s, "term")' \subseteq Out(s, "term")
              /\ task[s].phase = "leading" => Out(s, "term")' = Out(s, "term")
              /\ task'[s].refused \/ Out(s, "vote")' = Out(s, "vote")
    PROVE  TaskInv(s)'
<1>1. task[s] \in Task
  BY DEF TypeOK
<1>2. /\ task'[s].phase = task[s].phase /\ task'[s].received = task[s].received
      /\ task'[s].sent = task[s].sent /\ (task[s].refused => task'[s].refused)
  BY <1>1 DEF Task
<1>3. CASE task[s].phase = "idle"
  BY <1>2, <1>3 DEF TaskInv, LeadsOnce, AcksAddUp, VotesAddUp
<1>4. CASE task[s].phase # "idle"
  BY <1>2, <1>4 DEF TaskInv, LeadsOnce, AcksAddUp, VotesAddUp, CANDIDATE, FOLLOWER
<1> QED BY <1>3, <1>4

LEMMA IdleTask ==
    ASSUME NEW s \in Server, task'[s].phase = "idle"
    PROVE  TaskInv(s)'
BY DEF TaskInv, LeadsOnce, AcksAddUp, VotesAddUp

\* The call c is answered or dropped, and only who made it counts that.
LEMMA RemovedCounts ==
    ASSUME TypeOK, CountInv, NEW c \in calls, calls' = calls \ {c}, UNCHANGED round,
           \A r \in Server \ {c.from} : task'[r] = task[r] /\ state'[r] \in {state[r], FOLLOWER},
           c.from \in Server =>
              /\ TaskInv(c.from)'
              /\ task'[c.from].phase # "idle" =>
                    task[c.from].phase # "idle"
                    /\ (task[c.from].refused => task'[c.from].refused)
    PROVE  CountInv'
<1>1. CallInv'
  BY FewerCalls DEF CountInv
<1>2. ASSUME NEW r \in Server PROVE TaskInv(r)'
  <2>1. CASE r = c.from
    BY <2>1
  <2>2. CASE r # c.from
    BY <2>2, RemovedOut, KeepTask DEF CountInv
  <2> QED BY <2>1, <2>2
<1> QED BY <1>1, <1>2 DEF CountInv

\* Nobody counts the call c: no loop listens for it, or it is a refusal.
LEMMA UncountedRemoved ==
    ASSUME TypeOK, CountInv, NEW c \in calls, calls' = calls \ {c}, UNCHANGED <<round, task>>,
           \A r \in Server : state'[r] \in {state[r], FOLLOWER},
           c.kind = "vote" /\ c.status \notin {"no", "seen"} =>
              ~Listening(c, "voting") /\ ~Listening(c, "leading"),
           c.kind = "term" => ~Listening(c, "leading")
    PROVE  CountInv'
<1>1. ASSUME c.from \in Server PROVE TaskInv(c.from)'
  <2> DEFINE s == c.from
  <2>1. task[s] \in Task /\ TaskInv(s) /\ state'[s] \in {state[s], FOLLOWER}
    BY <1>1 DEF TypeOK, CountInv
  <2>2. /\ Out(s, "term")' \subseteq Out(s, "term")
        /\ ~(c.kind = "term" /\ c.round = round[s]) => Out(s, "term")' = Out(s, "term")
        /\ ~(c.kind = "vote" /\ c.round = round[s]) => Out(s, "vote")' = Out(s, "vote")
    BY <1>1, RemovedOut DEF Out, CountInv
  <2>3. c.kind = "term" /\ c.round = round[s] => task[s].phase # "leading"
    BY <1>1 DEF Listening
  <2>4. c.kind = "vote" /\ c.round = round[s] => task[s].phase = "idle" \/ task[s].refused
    BY <1>1, <2>1 DEF Listening, Task, CountInv, CallInv
  <2> QED BY <1>1, <2>1, <2>2, <2>3, <2>4, KeepTask
<1>2. \A r \in Server : task'[r] = task[r]
  OBVIOUS
<1> QED BY <1>1, <1>2, RemovedCounts

\* The handler answers the call c; only a refusal is noted by who made it.
LEMMA AnsweredCounts ==
    ASSUME TypeOK, CountInv, NEW c \in calls, NEW st \in {"ok", "no"}, NEW t,
           calls' = Answered(c, st, t), UNCHANGED round,
           \A r \in Server : state'[r] \in {state[r], FOLLOWER},
           \/ UNCHANGED task /\ (st = "ok" \/ c.kind # "vote")
           \/ /\ c.kind = "vote"
              /\ task' = IF Listening(c, "voting") \/ Listening(c, "leading")
                         THEN [task EXCEPT ![c.from].refused = TRUE] ELSE task
    PROVE  CountInv'
<1> DEFINE d == [c EXCEPT !.status = st, !.rterm = t, !.torn = FALSE]
<1>1. c \in Call
  BY DEF TypeOK
<1>2. SameCall(c, d) /\ d.status = st
  BY <1>1 DEF SameCall, Call
<1>3. calls' = (calls \ {c}) \cup {d} \/ (calls' = calls \ {c} /\ Futile(d))
  BY DEF Answered
<1>4. ASSUME NEW r \in Server
      PROVE  /\ task'[r] = task[r] \/ task'[r] = [task[r] EXCEPT !.refused = TRUE]
             /\ task[r].phase # "idle" /\ st = "no" /\ c.kind = "vote" /\ c.from = r
                /\ round[r] = c.round => task'[r].refused
  <2>1. task[r] \in Task /\ task \in [Server -> Task]
    BY DEF TypeOK
  <2>2. [task[r] EXCEPT !.refused = TRUE].refused
    BY <2>1 DEF Task
  <2>3. task[r].phase \in {"idle", "voting", "leading"}
    BY <2>1 DEF Task
  <2>4. CASE Listening(c, "voting") \/ Listening(c, "leading")
    <3>1. c.from \in Server
      BY <2>4 DEF Listening
    <3>2. CASE UNCHANGED task /\ (st = "ok" \/ c.kind # "vote")
      BY <3>2
    <3>3. CASE task' = [task EXCEPT ![c.from].refused = TRUE]
      BY <2>1, <2>2, <3>1, <3>3
    <3> QED BY <2>4, <3>2, <3>3
  <2>5. CASE ~Listening(c, "voting") /\ ~Listening(c, "leading")
    BY <2>3, <2>5 DEF Listening
  <2> QED BY <2>4, <2>5
<1>5. ASSUME NEW r \in Server
      PROVE  task'[r].phase = task[r].phase /\ (task[r].refused => task'[r].refused)
  <2>1. task[r] \in Task
    BY DEF TypeOK
  <2>2. [task[r] EXCEPT !.refused = TRUE].phase = task[r].phase
    BY <2>1 DEF Task
  <2>3. [task[r] EXCEPT !.refused = TRUE].refused
    BY <2>1 DEF Task
  <2> QED BY <1>4, <2>2, <2>3
<1>6. CallInv'
  <2>1. \/ d.kind # "vote" \/ d.status \notin {"no", "seen"} \/ d = c
        \/ d.from \in Server => task'[d.from].phase = "idle" \/ round[d.from] # d.round
                                  \/ task'[d.from].refused
    BY <1>2, <1>4, <1>5 DEF SameCall
  <2>2. calls' \subseteq (calls \ {c}) \cup {d}
    BY <1>3
  <2>3. CallInv /\ SameCall(c, d)
    BY <1>2 DEF CountInv
  <2>4. \A r \in Server : task'[r].phase # "idle" =>
               task[r].phase # "idle" /\ (task[r].refused => task'[r].refused)
    BY <1>5
  <2> HIDE DEF d
  <2> QED BY <2>1, <2>2, <2>3, <2>4, KeepCalls
<1>7. ASSUME NEW r \in Server PROVE TaskInv(r)'
  <2>1. TaskInv(r) /\ task[r] \in Task
    BY DEF CountInv, TypeOK
  <2>2. /\ Out(r, "term")' \subseteq Out(r, "term")
        /\ Out(r, "vote")' = Out(r, "vote") \/ c.kind = "vote"
        /\ Out(r, "term")' = Out(r, "term") \/ c.kind = "term"
        /\ ~Futile(d) \/ c.from # r \/ c.round # round[r] =>
              Out(r, "term")' = Out(r, "term") /\ Out(r, "vote")' = Out(r, "vote")
    <3>1. CASE calls' = (calls \ {c}) \cup {d}
      BY <1>2, <3>1, ReplacedOut
    <3>2. CASE calls' = calls \ {c} /\ Futile(d)
      BY <3>2, RemovedOut DEF Out, CountInv
    <3> QED BY <1>3, <3>1, <3>2
  <2>3. CASE Futile(d) /\ c.from = r /\ c.round = round[r] /\ st = "ok"
    <3>1. Nobody \notin Server
      BY ConstantAssumption
    <3>2. d.from = r /\ d.kind = c.kind /\ d.round = round[r]
      BY <1>2, <2>3 DEF SameCall
    <3>3. c.kind = "vote" => task[r].phase = "idle"
      BY <1>2, <2>1, <2>3, <3>1, <3>2 DEF Futile, Listening, Task
    <3>4. c.kind = "term" => task[r].phase # "leading"
      BY <1>2, <2>1, <2>3, <3>1, <3>2 DEF Futile, Listening, Task
    <3> QED BY <1>4, <2>1, <2>2, <3>3, <3>4, KeepTask
  <2>4. CASE Futile(d) /\ c.from = r /\ c.round = round[r] /\ st = "no"
    <3>1. Nobody \notin Server
      BY ConstantAssumption
    <3>2. c.kind # "term"
      BY <1>2, <2>4, <3>1 DEF Futile, SameCall
    <3> QED BY <1>4, <2>1, <2>2, <2>4, <3>2, KeepTask
  <2>5. CASE ~Futile(d) \/ c.from # r \/ c.round # round[r]
    BY <1>4, <2>1, <2>2, <2>5, KeepTask
  <2> QED BY <2>3, <2>4, <2>5
<1> QED BY <1>6, <1>7 DEF CountInv

-----------------------------------------------------------------------------
(* The loop of electionTask counts what it hears of a vote. *)

\* A message is counted: one call less is out, one more is counted.
LEMMA CountedVote ==
    ASSUME TypeOK, CountInv, NEW c \in calls, c.kind = "vote", Listening(c, "voting"),
           calls' = calls \ {c}, UNCHANGED <<state, round>>,
           NEW k, k \in {task[c.from], [task[c.from] EXCEPT !.votes = @ + 1]},
           task' = [task EXCEPT ![c.from] = AfterMessage(k)]
    PROVE  CountInv'
<1> DEFINE s == c.from
           n == [k EXCEPT !.sent = @ + 1]
<1>1. s \in Server /\ task[s].phase = "voting" /\ round[s] = c.round
  BY DEF Listening
<1>2. task[s] \in Task /\ task \in [Server -> Task] /\ TaskInv(s) /\ CallInv
  BY <1>1 DEF TypeOK, CountInv
<1>3. /\ k \in Task /\ k.phase = "voting" /\ k.sent = task[s].sent
      /\ k.received = task[s].received /\ k.refused = task[s].refused
  BY <1>1, <1>2 DEF Task
<1>4. /\ n.phase = "voting" /\ n.sent = task[s].sent + 1 /\ n.sent \in Nat
      /\ n.received = task[s].received /\ n.refused = task[s].refused
  BY <1>3 DEF Task
<1>5. task'[s] = AfterMessage(k)
  BY <1>1, <1>2
<1>6. /\ Out(s, "term")' = Out(s, "term")
      /\ Cardinality(Out(s, "vote")') = Cardinality(Out(s, "vote")) - 1
      /\ Cardinality(Out(s, "vote")) \in Nat
  BY <1>1, <1>2, RemovedOut, OutFacts
<1>7. TaskInv(s)'
  <2>1. CASE n.sent = NumPeers
    BY <1>1, <1>5, <2>1, IdleTask DEF AfterMessage, Idle
  <2>2. CASE n.sent # NumPeers
    <3>1. task'[s] = n
      BY <1>5, <2>2 DEF AfterMessage
    <3> HIDE DEF n
    <3>2. LeadsOnce(s)'
      BY <1>1, <1>2, <1>4, <1>6, <3>1 DEF TaskInv, LeadsOnce
    <3>3. AcksAddUp(s)'
      BY <1>4, <3>1 DEF AcksAddUp
    <3>4. NumPeers \in Nat /\ task[s].sent \in Nat
      BY <1>1, <1>2, PeersFacts DEF Task
    <3>5. ~task[s].refused => Cardinality(Out(s, "vote")) + task[s].sent = NumPeers
      BY <1>1, <1>2 DEF TaskInv, VotesAddUp
    <3>6. VotesAddUp(s)'
      BY <1>4, <1>6, <2>2, <3>1, <3>4, <3>5 DEF VotesAddUp
    <3> QED BY <3>2, <3>3, <3>6 DEF TaskInv
  <2> QED BY <2>1, <2>2
<1>8. task'[s].refused \/ ~task[s].refused \/ task'[s].phase = "idle"
  BY <1>4, <1>5 DEF AfterMessage, Idle
<1>9. \A r \in Server \ {s} : task'[r] = task[r]
  BY <1>2
<1> QED BY <1>1, <1>7, <1>8, <1>9, RemovedCounts

\* The election starts with a call to every peer.
LEMMA StartCounts ==
    ASSUME TypeOK, CountInv, NEW s \in Server, StartElection(s)
    PROVE  CountInv'
<1> DEFINE New(p) == NewCall("vote", s, p, s, round'[s], VoteTerm(s), GetLastIndex(disk[s]))
<1>1. /\ round' = [round EXCEPT ![s] = @ + 1]
      /\ task' = [task EXCEPT ![s] = [Idle EXCEPT !.phase = "voting"]]
      /\ calls' = calls \cup {New(p) : p \in Peers(s)}
      /\ state' = [state EXCEPT ![s] = CANDIDATE]
  BY DEF StartElection
<1>2. round'[s] = round[s] + 1 /\ round[s] \in Nat
  BY <1>1 DEF TypeOK
<1>3. \A r \in Server \ {s} : round'[r] = round[r] /\ task'[r] = task[r] /\ state'[r] = state[r]
  BY <1>1 DEF TypeOK
<1>4. ASSUME NEW p \in Peers(s)
      PROVE  /\ New(p).kind = "vote" /\ New(p).from = s /\ New(p).to = p
             /\ New(p).round = round'[s] /\ New(p).status = "open"
  BY DEF NewCall
<1>5. \A c \in calls : c.from = s => c.round # round'[s] /\ c.round <= round'[s]
  BY <1>2 DEF CountInv, CallInv, TypeOK, Call
<1>6. \A c \in calls : c.from \in Server => c.round <= round'[c.from]
  BY <1>3, <1>5 DEF CountInv, CallInv
<1> HIDE DEF New
<1>7. CallInv'
  <2>1. ASSUME NEW e \in calls', NEW f \in calls', Twins(e, f) PROVE e = f
    <3>1. CASE e \in calls /\ f \in calls
      BY <2>1, <3>1 DEF CountInv, CallInv
    <3>2. CASE \E p \in Peers(s) : e = New(p)
      BY <1>1, <1>4, <1>5, <2>1, <3>2 DEF Twins
    <3>3. CASE \E p \in Peers(s) : f = New(p)
      BY <1>1, <1>4, <1>5, <2>1, <3>3 DEF Twins
    <3> QED BY <1>1, <3>1, <3>2, <3>3
  <2>2. ASSUME NEW e \in calls', e.from \in Server
        PROVE  /\ e.to # e.from /\ e.round <= round'[e.from]
               /\ e.kind = "vote" /\ e.status \in {"no", "seen"} /\ task'[e.from].phase # "idle"
                  /\ round'[e.from] = e.round => task'[e.from].refused
    <3>1. CASE e \in calls
      BY <1>3, <1>5, <1>6, <2>2, <3>1 DEF CountInv, CallInv
    <3>2. CASE \E p \in Peers(s) : e = New(p)
      BY <1>2, <1>4, <3>2 DEF Peers
    <3> QED BY <1>1, <3>1, <3>2
  <2> QED BY <2>1, <2>2 DEF CallInv, Twins
<1>8. ASSUME NEW r \in Server PROVE TaskInv(r)'
  <2>1. CASE r # s
    <3>1. Out(r, "term")' = Out(r, "term") /\ Out(r, "vote")' = Out(r, "vote")
      BY <1>1, <1>3, <1>4, <2>1 DEF Out
    <3> QED BY <1>3, <2>1, <3>1, KeepTask DEF CountInv
  <2>2. CASE r = s
    <3>1. Out(s, "term")' = {}
      BY <1>1, <1>4, <1>5 DEF Out
    <3>2. Out(s, "vote")' = Peers(s)
      BY <1>1, <1>4, <1>5 DEF Out
    <3>3. /\ task'[s].phase = "voting" /\ task'[s].received = 0 /\ task'[s].sent = 0
      BY <1>1 DEF TypeOK, Idle
    <3> QED BY <2>2, <3>1, <3>2, <3>3, PeersFacts DEF TaskInv, LeadsOnce, AcksAddUp, VotesAddUp
  <2> QED BY <2>1, <2>2
<1> QED BY <1>7, <1>8 DEF CountInv

\* The vote that wins is counted, and the term entry goes to every peer.
LEMMA WinCounts ==
    ASSUME TypeOK, CountInv, NEW c \in calls, Win(c)
    PROVE  CountInv'
<1> DEFINE s == c.from
           t == currentTerm[s] + 1
           New(p) == NewCall("term", s, p, s, round[s], t, t)
           k == [task[s] EXCEPT !.phase = "leading", !.votes = @ + 1, !.sent = @ + 1]
<1>1. /\ c.kind = "vote" /\ c.status = "ok"
      /\ s \in Server /\ task[s].phase = "voting" /\ round[s] = c.round
      /\ state[s] # FOLLOWER
  BY DEF Win, Listening
<1>2. /\ calls' = (calls \ {c}) \cup {New(p) : p \in Peers(s)}
      /\ task' = [task EXCEPT ![s] = k]
      /\ state' = [state EXCEPT ![s] = LEADER]
      /\ UNCHANGED round
  BY DEF Win
<1>3. task[s] \in Task /\ task \in [Server -> Task] /\ TaskInv(s) /\ CallInv
  BY <1>1 DEF TypeOK, CountInv
<1>4. /\ k.phase = "leading" /\ k.received = 0 /\ k.refused = task[s].refused
      /\ k.sent = task[s].sent + 1
  BY <1>1, <1>3 DEF Task, TaskInv, LeadsOnce
<1>5. task'[s] = k /\ state'[s] = LEADER
  BY <1>1, <1>2, <1>3 DEF TypeOK
<1>6. \A r \in Server \ {s} : task'[r] = task[r] /\ state'[r] = state[r]
  BY <1>2, <1>3 DEF TypeOK
<1>7. ASSUME NEW p \in Peers(s)
      PROVE  /\ New(p).kind = "term" /\ New(p).from = s /\ New(p).to = p
             /\ New(p).round = round[s] /\ New(p).status = "open"
  BY DEF NewCall
<1>8. \A d \in calls : d.from = s /\ d.round = round[s] => d.kind # "term"
  BY <1>1, <1>3 DEF TaskInv, LeadsOnce, Out
<1>9. c.to \in Peers(s)
  BY <1>1, <1>3 DEF CallInv, Peers, TypeOK, Call
<1>10. round[s] \in Nat
  BY <1>1 DEF TypeOK
<1> HIDE DEF New, k
<1>11. CallInv'
  <2>1. ASSUME NEW e \in calls', NEW f \in calls', Twins(e, f) PROVE e = f
    <3>1. CASE e \in calls /\ f \in calls
      BY <1>3, <2>1, <3>1 DEF CallInv
    <3>2. CASE \E p \in Peers(s) : e = New(p)
      BY <1>2, <1>7, <1>8, <2>1, <3>2 DEF Twins
    <3>3. CASE \E p \in Peers(s) : f = New(p)
      BY <1>2, <1>7, <1>8, <2>1, <3>3 DEF Twins
    <3> QED BY <1>2, <3>1, <3>2, <3>3
  <2>2. ASSUME NEW e \in calls', e.from \in Server
        PROVE  /\ e.to # e.from /\ e.round <= round'[e.from]
               /\ e.kind = "vote" /\ e.status \in {"no", "seen"} /\ task'[e.from].phase # "idle"
                  /\ round'[e.from] = e.round => task'[e.from].refused
    <3>1. CASE e \in calls
      BY <1>1, <1>2, <1>3, <1>4, <1>5, <1>6, <2>2, <3>1 DEF CallInv
    <3>2. CASE \E p \in Peers(s) : e = New(p)
      BY <1>2, <1>7, <1>10, <3>2 DEF Peers
    <3> QED BY <1>2, <3>1, <3>2
  <2> QED BY <2>1, <2>2 DEF CallInv, Twins
<1>12. Out(s, "vote") = Out(s, "vote")' \cup {c.to} /\ c.to \notin Out(s, "vote")'
  <2>1. \A d \in calls : d.kind = "vote" /\ d.from = s /\ d.round = round[s] /\ d.to = c.to
                          => d = c
    BY <1>1, <1>3 DEF CallInv, Twins
  <2> QED BY <1>1, <1>2, <1>7, <2>1 DEF Out
<1>13. /\ Cardinality(Out(s, "vote")') = Cardinality(Out(s, "vote")) - 1
       /\ Cardinality(Out(s, "vote")) \in Nat
  <2>1. Out(s, "vote")' = Out(s, "vote") \ {c.to} /\ c.to \in Out(s, "vote")
    BY <1>12
  <2> QED BY <1>1, <2>1, OutFacts, FS_RemoveElement
<1>14. Out(s, "term")' = Peers(s)
  BY <1>2, <1>7, <1>8 DEF Out
<1>15. TaskInv(s)'
  <2>1. Cardinality(Peers(s)) = NumPeers /\ NumPeers \in Nat /\ 0 < NumPeers
    BY <1>1, <1>9, PeersFacts
  <2>2. LeadsOnce(s)'
    BY <1>4, <1>5 DEF LeadsOnce, LEADER, CANDIDATE
  <2>3. AcksAddUp(s)'
    BY <1>4, <1>5, <1>14, <2>1 DEF AcksAddUp
  <2>4. task[s].sent \in Nat /\
        (~task[s].refused => Cardinality(Out(s, "vote")) + task[s].sent = NumPeers)
    BY <1>1, <1>3 DEF TaskInv, VotesAddUp, Task
  <2>5. VotesAddUp(s)'
    BY <1>4, <1>5, <1>13, <2>1, <2>4 DEF VotesAddUp
  <2> QED BY <2>2, <2>3, <2>5 DEF TaskInv
<1>16. ASSUME NEW r \in Server \ {s} PROVE TaskInv(r)'
  <2>1. Out(r, "term")' = Out(r, "term") /\ Out(r, "vote")' = Out(r, "vote")
    BY <1>2, <1>7 DEF Out
  <2> QED BY <1>6, <2>1, KeepTask DEF CountInv
<1> QED BY <1>11, <1>15, <1>16 DEF CountInv

-----------------------------------------------------------------------------
(* The loop of becomeLeaderToDo counts what it hears of the term entry. *)

\* Back in electionTask: nothing of becomeLeaderToDo is waited for any more.
LEMMA ResumedTask ==
    ASSUME TypeOK, NEW s \in Server, TaskInv(s), task[s].phase = "leading",
           NEW st \in {LEADER, FOLLOWER}, state'[s] = st, task'[s] = Resume(s, st),
           Out(s, "vote")' = Out(s, "vote")
    PROVE  TaskInv(s)' /\ (task[s].refused => task'[s].phase = "idle" \/ task'[s].refused)
<1> DEFINE n == [task[s] EXCEPT !.phase = "voting", !.acks = 0, !.received = 0]
<1>1. task[s] \in Task
  BY DEF TypeOK
<1>2. /\ n.phase = "voting" /\ n.received = 0 /\ n.refused = task[s].refused
      /\ n.sent = task[s].sent
  BY <1>1 DEF Task
<1>3. CASE st = LEADER \/ task[s].sent = NumPeers
  BY <1>3, IdleTask DEF Resume, Idle
<1>4. CASE ~(st = LEADER \/ task[s].sent = NumPeers)
  <2>1. task'[s] = n /\ state'[s] = FOLLOWER
    BY <1>4 DEF Resume
  <2> HIDE DEF n
  <2>2. LeadsOnce(s)' /\ AcksAddUp(s)'
    BY <1>2, <2>1 DEF LeadsOnce, AcksAddUp
  <2>3. VotesAddUp(s)'
    BY <1>2, <1>4, <2>1 DEF TaskInv, VotesAddUp
  <2> QED BY <1>2, <2>1, <2>2, <2>3 DEF TaskInv
<1> QED BY <1>3, <1>4

\* One replication less runs, one more message is counted.
LEMMA CountedAck ==
    ASSUME TypeOK, CountInv, NEW c \in calls, c.kind = "term", Listening(c, "leading"),
           calls' = calls \ {c}, UNCHANGED round,
           \A r \in Server \ {c.from} : task'[r] = task[r] /\ state'[r] \in {state[r], FOLLOWER},
           NEW a \in Nat,
           \/ /\ task[c.from].received + 1 = NumPeers
              /\ state'[c.from] = FOLLOWER /\ task'[c.from] = Resume(c.from, FOLLOWER)
           \/ /\ task[c.from].received + 1 # NumPeers
              /\ state'[c.from] \in {state[c.from], FOLLOWER}
              /\ task'[c.from] = [task[c.from] EXCEPT !.acks = a, !.received = @ + 1]
    PROVE  CountInv'
<1> DEFINE s == c.from
           n == [task[s] EXCEPT !.acks = a, !.received = @ + 1]
<1>1. s \in Server /\ task[s].phase = "leading" /\ round[s] = c.round
  BY DEF Listening
<1>2. task[s] \in Task /\ TaskInv(s) /\ CallInv
  BY <1>1 DEF TypeOK, CountInv
<1>3. /\ Out(s, "vote")' = Out(s, "vote")
      /\ Cardinality(Out(s, "term")') = Cardinality(Out(s, "term")) - 1
      /\ Cardinality(Out(s, "term")) \in Nat
  BY <1>1, <1>2, RemovedOut, OutFacts
<1>4. TaskInv(s)' /\ (task[s].refused => task'[s].phase = "idle" \/ task'[s].refused)
  <2>1. CASE state'[s] = FOLLOWER /\ task'[s] = Resume(s, FOLLOWER)
    BY <1>1, <1>2, <1>3, <2>1, ResumedTask
  <2>2. CASE /\ task[s].received + 1 # NumPeers /\ state'[s] \in {state[s], FOLLOWER}
             /\ task'[s] = n
    <3>1. /\ n.phase = "leading" /\ n.received = task[s].received + 1
          /\ n.refused = task[s].refused /\ n.sent = task[s].sent
      BY <1>1, <1>2 DEF Task
    <3> HIDE DEF n
    <3>2. NumPeers \in Nat /\ task[s].received \in Nat
      BY <1>1, <1>2, PeersFacts DEF Task
    <3>3. LeadsOnce(s)'
      BY <1>1, <1>2, <2>2, <3>1 DEF TaskInv, LeadsOnce, FOLLOWER, CANDIDATE
    <3>4. AcksAddUp(s)'
      BY <1>1, <1>2, <1>3, <2>2, <3>1, <3>2 DEF TaskInv, AcksAddUp
    <3>5. VotesAddUp(s)'
      BY <1>1, <1>2, <1>3, <2>2, <3>1 DEF TaskInv, VotesAddUp
    <3> QED BY <2>2, <3>1, <3>3, <3>4, <3>5 DEF TaskInv
  <2> QED BY <2>1, <2>2
<1> QED BY <1>1, <1>4, RemovedCounts

\* Half of the peers hold the term entry: the loop ends before its last message.
LEMMA EstablishedCounts ==
    ASSUME TypeOK, CountInv, NEW c \in calls, Established(c)
    PROVE  CountInv'
<1> DEFINE s == c.from
<1>1. /\ s \in Server /\ task[s].phase = "leading" /\ round[s] = c.round
      /\ c.kind = "term" /\ calls' = calls \ {c} /\ UNCHANGED <<state, round>>
      /\ task' = [task EXCEPT ![s] = Resume(s, state[s])]
  BY DEF Established, Listening, nodeVars, histVars
<1>2. task \in [Server -> Task] /\ TaskInv(s) /\ CallInv /\ state[s] \in {LEADER, FOLLOWER}
  BY <1>1 DEF TypeOK, CountInv, TaskInv, LeadsOnce
<1>3. task'[s] = Resume(s, state[s]) /\ state'[s] = state[s]
  BY <1>1, <1>2
<1>4. Out(s, "vote")' = Out(s, "vote")
  BY <1>1, <1>2, RemovedOut
<1>5. TaskInv(s)' /\ (task[s].refused => task'[s].phase = "idle" \/ task'[s].refused)
  BY <1>1, <1>2, <1>3, <1>4, ResumedTask
<1>6. \A r \in Server \ {s} : task'[r] = task[r] /\ state'[r] = state[r]
  BY <1>1, <1>2
<1> QED BY <1>1, <1>5, <1>6, RemovedCounts

LEMMA CountAckCounts ==
    ASSUME TypeOK, CountInv, NEW c \in calls, CountAck(c)
    PROVE  CountInv'
<1> DEFINE s == c.from
           k == [task[s] EXCEPT !.acks = @ + 1, !.received = @ + 1]
<1>1. /\ c.kind = "term" /\ Listening(c, "leading") /\ s \in Server
      /\ calls' = calls \ {c} /\ UNCHANGED round
      /\ IF k.received = NumPeers
         THEN /\ state' = [state EXCEPT ![s] = FOLLOWER]
              /\ task' = [task EXCEPT ![s] = Resume(s, FOLLOWER)]
         ELSE task' = [task EXCEPT ![s] = k] /\ UNCHANGED state
  BY DEF CountAck, Listening, histVars
<1>2. /\ task[s] \in Task /\ task \in [Server -> Task]
      /\ state \in [Server -> {LEADER, CANDIDATE, FOLLOWER}]
  BY <1>1 DEF TypeOK
<1>3. /\ k.received = task[s].received + 1 /\ task[s].acks + 1 \in Nat
      /\ k = [task[s] EXCEPT !.acks = task[s].acks + 1, !.received = @ + 1]
  BY <1>2 DEF Task
<1> HIDE DEF k
<1>4. \A r \in Server \ {s} : task'[r] = task[r] /\ state'[r] \in {state[r], FOLLOWER}
  BY <1>1, <1>2
<1>5. \/ /\ task[s].received + 1 = NumPeers
         /\ state'[s] = FOLLOWER /\ task'[s] = Resume(s, FOLLOWER)
      \/ /\ task[s].received + 1 # NumPeers
         /\ state'[s] = state[s] /\ task'[s] = k
  BY <1>1, <1>2, <1>3
<1> QED BY <1>1, <1>3, <1>4, <1>5, CountedAck

\* replication returns false to the loop, which counts it.
LEMMA FailureCounts ==
    ASSUME TypeOK, CountInv, NEW c \in calls, c.kind = "term", Listening(c, "leading"),
           calls' = calls \ {c}, UNCHANGED round,
           NEW st \in {state[c.from], FOLLOWER}, CountFailure(c.from, st)
    PROVE  CountInv'
<1> DEFINE s == c.from
           k == [task[s] EXCEPT !.received = @ + 1]
<1>1. s \in Server
  BY DEF Listening
<1>2. /\ task[s] \in Task /\ task \in [Server -> Task]
      /\ state \in [Server -> {LEADER, CANDIDATE, FOLLOWER}]
  BY <1>1 DEF TypeOK
<1>3. /\ k.received = task[s].received + 1 /\ task[s].acks \in Nat
      /\ k = [task[s] EXCEPT !.acks = task[s].acks, !.received = @ + 1]
  BY <1>2 DEF Task
<1>4. IF k.received = NumPeers
      THEN /\ state' = [state EXCEPT ![s] = FOLLOWER]
           /\ task' = [task EXCEPT ![s] = Resume(s, FOLLOWER)]
      ELSE /\ state' = [state EXCEPT ![s] = st]
           /\ task' = [task EXCEPT ![s] = k]
  BY DEF CountFailure
<1> HIDE DEF k
<1>5. \A r \in Server \ {s} : task'[r] = task[r] /\ state'[r] = state[r]
  BY <1>2, <1>4
<1>6. \/ /\ task[s].received + 1 = NumPeers
         /\ state'[s] = FOLLOWER /\ task'[s] = Resume(s, FOLLOWER)
      \/ /\ task[s].received + 1 # NumPeers
         /\ state'[s] = st /\ task'[s] = k
  BY <1>1, <1>2, <1>3, <1>4
<1> QED BY <1>1, <1>3, <1>5, <1>6, CountedAck

LEMMA TermEndCounts ==
    ASSUME TypeOK, CountInv, NEW c \in calls, TermOvertaken(c) \/ TermGiveUp(c)
    PROVE  CountInv'
<1> DEFINE s == c.from
<1>1. c.kind = "term" /\ calls' = calls \ {c} /\ UNCHANGED round
  BY DEF TermOvertaken, TermGiveUp, TermFailed, histVars
<1>2. CASE Listening(c, "leading")
  <2>1. \E st \in {state[s], FOLLOWER} : CountFailure(s, st)
    BY <1>2 DEF TermOvertaken, TermGiveUp
  <2> QED BY <1>1, <1>2, <2>1, FailureCounts
<1>3. CASE ~Listening(c, "leading")
  <2>1. UNCHANGED task /\ (UNCHANGED state \/ state' = [state EXCEPT ![s] = FOLLOWER])
    BY <1>3 DEF TermOvertaken, TermGiveUp
  <2>2. \A r \in Server : state'[r] \in {state[r], FOLLOWER}
    BY <2>1 DEF TypeOK
  <2> QED BY <1>1, <1>3, <2>1, <2>2, UncountedRemoved
<1> QED BY <1>2, <1>3

LEMMA RetryCounts ==
    ASSUME TypeOK, CountInv, NEW c \in calls, TermRetry(c)
    PROVE  CountInv'
<1> DEFINE d == NewCall("term", c.from, c.to, leaderAddr[c.from], c.round,
                        currentTerm[c.from], c.arg)
<1>1. /\ c.kind = "term" /\ calls' = (calls \ {c}) \cup {d}
      /\ UNCHANGED <<round, task, state>>
  BY DEF TermRetry, TermFailed, nodeVars, histVars
<1>2. SameCall(c, d) /\ d.kind # "vote"
  BY <1>1 DEF SameCall, NewCall
<1> HIDE DEF d
<1>3. CallInv'
  BY <1>1, <1>2, KeepCalls DEF CountInv
<1>4. ASSUME NEW r \in Server PROVE TaskInv(r)'
  BY <1>1, <1>2, ReplacedOut, KeepTask DEF CountInv
<1> QED BY <1>3, <1>4 DEF CountInv

-----------------------------------------------------------------------------
(* The actions that count nothing. *)

\* The process of s dies: nobody waits any more for the calls it made.
LEMMA ExitCounts ==
    ASSUME TypeOK, CountInv, NEW s \in Server, Exit(s)
    PROVE  CountInv'
<1> DEFINE Cut(c) == [c EXCEPT !.from = IF c.from = s THEN Nobody ELSE @,
                               !.status = IF c.to = s /\ @ = "held" THEN "open" ELSE @,
                               !.torn = (c.to = s /\ Pending(c)) \/ @]
<1>1. /\ calls' = {Cut(c) : c \in {d \in calls : d.from = s => Pending(d)}}
      /\ task' = [task EXCEPT ![s] = Idle] /\ state' = [state EXCEPT ![s] = FOLLOWER]
      /\ UNCHANGED round
  BY DEF Exit, histVars
<1>2. task'[s].phase = "idle"
  BY <1>1 DEF TypeOK, Idle
<1>3. \A r \in Server \ {s} : task'[r] = task[r] /\ state'[r] = state[r]
  BY <1>1 DEF TypeOK
<1>4. Nobody \notin Server
  BY ConstantAssumption
<1>5. ASSUME NEW c \in calls
      PROVE  /\ Cut(c).kind = c.kind /\ Cut(c).to = c.to /\ Cut(c).round = c.round
             /\ Cut(c).from = IF c.from = s THEN Nobody ELSE c.from
             /\ Cut(c).status \in {"no", "seen"} => c.status \in {"no", "seen"}
  BY DEF TypeOK, Call
<1> HIDE DEF Cut
<1>6. ASSUME NEW e \in calls', e.from \in Server
      PROVE  \E c \in calls : e = Cut(c) /\ c.from = e.from /\ e.from # s
  <2>1. PICK c \in calls : e = Cut(c)
    BY <1>1
  <2> QED BY <1>4, <1>5, <1>6, <2>1
<1>7. CallInv'
  <2>1. ASSUME NEW e \in calls', NEW f \in calls', Twins(e, f) PROVE e = f
    <3>1. e.from \in Server /\ f.from \in Server
      BY <2>1 DEF Twins
    <3>2. PICK c \in calls : e = Cut(c) /\ c.from = e.from
      BY <1>6, <3>1
    <3>3. PICK d \in calls : f = Cut(d) /\ d.from = f.from
      BY <1>6, <3>1
    <3> QED BY <1>5, <2>1, <3>2, <3>3 DEF CountInv, CallInv, Twins
  <2>2. ASSUME NEW e \in calls', e.from \in Server
        PROVE  /\ e.to # e.from /\ e.round <= round'[e.from]
               /\ e.kind = "vote" /\ e.status \in {"no", "seen"} /\ task'[e.from].phase # "idle"
                  /\ round'[e.from] = e.round => task'[e.from].refused
    <3>1. PICK c \in calls : e = Cut(c) /\ c.from = e.from /\ e.from # s
      BY <1>6, <2>2
    <3>2. task'[e.from] = task[e.from] /\ round' = round
      BY <1>1, <1>3, <2>2, <3>1
    <3> QED BY <1>5, <2>2, <3>1, <3>2 DEF CountInv, CallInv
  <2> QED BY <2>1, <2>2 DEF CallInv, Twins
<1>8. ASSUME NEW r \in Server \ {s}, NEW kind PROVE Out(r, kind)' = Out(r, kind)
  <2>1. ASSUME NEW c \in calls, c.from = r
        PROVE  /\ Cut(c) \in calls' /\ Cut(c).kind = c.kind /\ Cut(c).from = r
               /\ Cut(c).round = c.round /\ Cut(c).to = c.to
    BY <1>1, <1>5, <2>1
  <2>2. Out(r, kind) \subseteq Out(r, kind)'
    BY <1>1, <2>1 DEF Out
  <2>3. Out(r, kind)' \subseteq Out(r, kind)
    BY <1>1, <1>5, <1>6 DEF Out
  <2> QED BY <2>2, <2>3
<1>9. ASSUME NEW r \in Server PROVE TaskInv(r)'
  <2>1. CASE r = s
    BY <1>2, <2>1, IdleTask
  <2>2. CASE r # s
    BY <1>3, <1>8, <2>2, KeepTask DEF CountInv
  <2> QED BY <2>1, <2>2
<1> QED BY <1>7, <1>9 DEF CountInv

LEMMA ElectionCounts ==
    ASSUME TypeOK, CountInv, NEW c \in calls,
           \/ StandDown(c) \/ CountVote(c) \/ VoteUnreachable(c) \/ HearRefusal(c)
           \/ DropCall(c) \/ DropAnswer(c) \/ StepDown(c)
    PROVE  CountInv'
<1>1. calls' = calls \ {c} /\ UNCHANGED round
  BY DEF StandDown, CountVote, VoteUnreachable, HearRefusal, DropCall, DropAnswer, StepDown,
         histVars
<1>2. CASE StandDown(c)
  <2>1. /\ c.from \in Server /\ task' = [task EXCEPT ![c.from] = Idle] /\ UNCHANGED state
    BY <1>2 DEF StandDown, Listening, nodeVars
  <2>2. task \in [Server -> Task]
    BY DEF TypeOK
  <2>3. task'[c.from].phase = "idle"
    BY <2>1, <2>2 DEF Idle
  <2>4. \A r \in Server \ {c.from} : task'[r] = task[r]
    BY <2>1, <2>2
  <2> QED BY <1>1, <2>1, <2>3, <2>4, IdleTask, RemovedCounts
<1>3. CASE CountVote(c)
  BY <1>1, <1>3, CountedVote DEF CountVote, nodeVars
<1>4. CASE VoteUnreachable(c)
  <2>1. c.from \in Server /\ task' = [task EXCEPT ![c.from] = LostVote(task[c.from])]
    BY <1>4 DEF VoteUnreachable, Listening, TypeOK
  <2> QED BY <1>1, <1>4, <2>1, CountedVote DEF VoteUnreachable, LostVote, nodeVars
<1>5. CASE HearRefusal(c) \/ DropCall(c) \/ DropAnswer(c) \/ StepDown(c)
  <2>1. UNCHANGED task
    BY <1>5 DEF HearRefusal, DropCall, DropAnswer, StepDown
  <2>2. \A r \in Server : state'[r] \in {state[r], FOLLOWER}
    <3>1. UNCHANGED state \/ state' = [state EXCEPT ![c.from] = FOLLOWER]
      BY <1>5 DEF HearRefusal, DropCall, DropAnswer, StepDown, nodeVars
    <3> QED BY <3>1 DEF TypeOK
  <2>3. /\ c.kind = "vote" /\ c.status \notin {"no", "seen"} =>
             ~Listening(c, "voting") /\ ~Listening(c, "leading")
        /\ c.kind = "term" => ~Listening(c, "leading")
    <3>1. c.kind \in {"vote", "term", "beat"}
      BY DEF TypeOK, Call
    <3>2. Nobody \notin Server
      BY ConstantAssumption
    <3>3. CASE HearRefusal(c) \/ StepDown(c)
      BY <3>3 DEF HearRefusal, StepDown, Adopts, TellsHigherTerm
    <3>4. CASE DropCall(c)
      BY <3>2, <3>4 DEF DropCall, Listening
    <3>5. CASE DropAnswer(c)
      <4>1. Futile(c) /\ c.status \in {"ok", "no"}
        BY <3>5 DEF DropAnswer
      <4>2. CASE c.from = Nobody
        BY <3>2, <4>2 DEF Listening
      <4>3. CASE c.from # Nobody
        BY <4>1, <4>3 DEF Futile
      <4> QED BY <3>1, <4>1, <4>2, <4>3
    <3> QED BY <1>5, <3>3, <3>4, <3>5
  <2> QED BY <1>1, <2>1, <2>2, <2>3, UncountedRemoved
<1> QED BY <1>2, <1>3, <1>4, <1>5

\* The handler, or the goroutine that made the call, is preempted.
LEMMA PreemptedCounts ==
    ASSUME TypeOK, CountInv, NEW c \in calls, NEW st \in {"held", "seen"}, NEW b,
           st = "seen" => c.kind # "vote" \/ c.status = "no",
           calls' = (calls \ {c}) \cup {[c EXCEPT !.status = st, !.torn = b]},
           UNCHANGED <<round, task, state>>
    PROVE  CountInv'
<1> DEFINE d == [c EXCEPT !.status = st, !.torn = b]
<1>1. c \in Call
  BY DEF TypeOK
<1>2. SameCall(c, d) /\ d.status = st
  BY <1>1 DEF SameCall, Call
<1>3. calls' = (calls \ {c}) \cup {d}
  OBVIOUS
<1>4. \/ d.kind # "vote" \/ d.status \notin {"no", "seen"} \/ d = c
      \/ d.from \in Server => task'[d.from].phase = "idle" \/ round[d.from] # d.round
                                \/ task'[d.from].refused
  <2>1. CASE st = "held" \/ c.kind # "vote"
    BY <1>2, <2>1 DEF SameCall
  <2>2. CASE c.kind = "vote" /\ c.status = "no"
    BY <1>2, <2>2 DEF SameCall, CountInv, CallInv
  <2> QED BY <2>1, <2>2
<1> HIDE DEF d
<1>5. CallInv'
  BY <1>2, <1>3, <1>4, KeepCalls DEF CountInv
<1>6. ASSUME NEW r \in Server PROVE TaskInv(r)'
  BY <1>2, <1>3, ReplacedOut, KeepTask DEF CountInv
<1> QED BY <1>5, <1>6 DEF CountInv

LEMMA SeenCounts ==
    ASSUME TypeOK, CountInv, NEW c \in calls, SeeHigherTerm(c)
    PROVE  CountInv'
<1>1. [c EXCEPT !.status = "seen"] = [c EXCEPT !.status = "seen", !.torn = c.torn]
  BY DEF TypeOK, Call
<1>2. c.kind # "vote" \/ c.status = "no"
  BY DEF SeeHigherTerm, TellsHigherTerm
<1> QED BY <1>1, <1>2, PreemptedCounts DEF SeeHigherTerm, nodeVars, histVars

LEMMA HandlerCounts ==
    ASSUME TypeOK, CountInv, NEW c \in calls, Handle(c)
    PROVE  CountInv'
<1>1. c \in Call
  BY DEF TypeOK
<1>2. CASE CheckVote(c) \/ CheckAppend(c)
  <2>1. CASE CheckVote(c)
    BY <1>2, <2>1, PreemptedCounts DEF CheckVote, nodeVars, histVars
  <2>2. CASE CheckAppend(c)
    BY <1>2, <2>2, PreemptedCounts DEF CheckAppend, histVars
  <2> QED BY <1>2, <2>1, <2>2
<1>6. CASE AcceptOvertaken(c)
  <2>1. /\ calls' = Answered(c, "ok", currentTerm[c.to]) /\ UNCHANGED <<round, task, state>>
    BY <1>6 DEF AcceptOvertaken, nodeVars, histVars
  <2>2. \A r \in Server : state'[r] \in {state[r], FOLLOWER}
    BY <2>1
  <2> QED BY <2>1, <2>2, AnsweredCounts
<1>3. CASE GrantVote(c) \/ AcceptAppend(c)
  <2>1. /\ calls' = Answered(c, "ok", c.term) /\ UNCHANGED <<round, task>>
        /\ state' = [state EXCEPT ![c.to] = FOLLOWER]
    BY <1>3 DEF GrantVote, AcceptAppend, histVars
  <2>2. \A r \in Server : state'[r] \in {state[r], FOLLOWER}
    BY <2>1 DEF TypeOK
  <2> QED BY <2>1, <2>2, AnsweredCounts
<1>4. CASE RefuseVote(c)
  <2>1. /\ calls' = Answered(c, "no", currentTerm[c.to]) /\ UNCHANGED <<round, state>>
        /\ c.kind = "vote"
        /\ task' = IF Listening(c, "voting") \/ Listening(c, "leading")
                   THEN [task EXCEPT ![c.from].refused = TRUE] ELSE task
    BY <1>4 DEF RefuseVote, nodeVars, histVars
  <2>2. \A r \in Server : state'[r] \in {state[r], FOLLOWER}
    BY <2>1
  <2> QED BY <2>1, <2>2, AnsweredCounts
<1>5. CASE RejectAppend(c)
  <2>1. /\ calls' = Answered(c, "no", currentTerm[c.to]) /\ UNCHANGED <<round, task, state>>
        /\ c.kind # "vote"
    BY <1>5 DEF RejectAppend, IsAppend, nodeVars, histVars
  <2>2. \A r \in Server : state'[r] \in {state[r], FOLLOWER}
    BY <2>1
  <2> QED BY <2>1, <2>2, AnsweredCounts
<1> QED BY <1>2, <1>3, <1>4, <1>5, <1>6 DEF Handle

LEMMA ServerCounts ==
    ASSUME TypeOK, CountInv, NEW s \in Server,
           \/ AbortElection(s) \/ Boot(s) \/ \E p \in Peers(s) : HeartBeat(s, p)
    PROVE  CountInv'
<1>1. UNCHANGED <<round, task>>
  BY DEF AbortElection, Boot, HeartBeat, histVars
<1>2. CASE AbortElection(s)
  <2>1. /\ UNCHANGED <<calls, round, task>> /\ task[s].phase = "idle"
        /\ state' = [state EXCEPT ![s] = CANDIDATE]
    BY <1>2 DEF AbortElection, MayCampaign, histVars
  <2>2. CallInv'
    BY <2>1, FewerCalls DEF CountInv
  <2>3. ASSUME NEW r \in Server PROVE TaskInv(r)'
    <3>1. CASE r = s
      BY <2>1, <3>1, IdleTask
    <3>2. CASE r # s
      <4>1. state'[r] = state[r] /\ Out(r, "term")' = Out(r, "term")
            /\ Out(r, "vote")' = Out(r, "vote")
        BY <2>1, <3>2 DEF TypeOK, Out
      <4> QED BY <2>1, <4>1, KeepTask DEF CountInv
    <3> QED BY <3>1, <3>2
  <2> QED BY <2>2, <2>3 DEF CountInv
<1>3. CASE Boot(s)
  <2>1. UNCHANGED <<calls, round, task, state>>
    BY <1>3 DEF Boot, nodeVars, histVars
  <2> QED BY <2>1 DEF CountInv, CallInv, TaskInv, LeadsOnce, AcksAddUp, VotesAddUp, Out, Twins
<1>4. ASSUME NEW p \in Peers(s), HeartBeat(s, p) PROVE CountInv'
  <2> DEFINE d == NewCall("beat", s, p, s, 0, currentTerm[s], 0)
  <2>1. calls' = calls \cup {d} /\ UNCHANGED <<round, task, state>>
    BY <1>4 DEF HeartBeat, nodeVars, histVars
  <2>2. d.kind = "beat" /\ d.from = s /\ d.to = p /\ d.round = 0
    BY DEF NewCall
  <2>3. p # s /\ 0 <= round[s]
    BY DEF Peers, TypeOK
  <2> HIDE DEF d
  <2>4. CallInv'
    BY <2>1, <2>2, <2>3 DEF CountInv, CallInv, Twins
  <2>5. ASSUME NEW r \in Server PROVE TaskInv(r)'
    <3>1. Out(r, "term")' = Out(r, "term") /\ Out(r, "vote")' = Out(r, "vote")
      BY <2>1, <2>2 DEF Out
    <3> QED BY <2>1, <3>1, KeepTask DEF CountInv
  <2> QED BY <2>4, <2>5 DEF CountInv
<1> QED BY <1>2, <1>3, <1>4

LEMMA InitCounts == Init => CountInv
<1> SUFFICES ASSUME Init PROVE CountInv
  OBVIOUS
<1>1. CallInv
  BY DEF Init, CallInv, Twins
<1>2. ASSUME NEW s \in Server PROVE TaskInv(s)
  BY DEF Init, Idle, TaskInv, LeadsOnce, AcksAddUp, VotesAddUp
<1> QED BY <1>1, <1>2 DEF CountInv

LEMMA StepCounts == TypeOK /\ CountInv /\ [Next]_vars => CountInv'
<1> SUFFICES ASSUME TypeOK, CountInv, [Next]_vars PROVE CountInv'
  OBVIOUS
<1>1. CASE UNCHANGED vars
  BY <1>1 DEF vars, nodeVars, histVars, CountInv, CallInv, TaskInv, LeadsOnce, AcksAddUp,
              VotesAddUp, Out, Twins
<1>2. CASE \E s \in Server : Crash(s)
  BY <1>2, ExitCounts DEF Crash
<1>3. CASE \E s \in Server : \/ StartElection(s) \/ AbortElection(s) \/ Boot(s)
                             \/ \E p \in Peers(s) : HeartBeat(s, p)
  BY <1>3, StartCounts, ServerCounts
<1>4. CASE \E c \in calls : CallerDies(c) \/ ChannelPanic(c)
  BY <1>4, ExitCounts DEF CallerDies, ChannelPanic, Listening
<1>5. CASE \E c \in calls : Answer(c) /\ ~ChannelPanic(c)
  BY <1>5, WinCounts, EstablishedCounts, CountAckCounts, TermEndCounts, ElectionCounts, SeenCounts
     DEF Answer
<1>6. CASE \E c \in calls : Handle(c) \/ NoAnswer(c)
  BY <1>6, HandlerCounts, RetryCounts, TermEndCounts, ElectionCounts DEF NoAnswer
<1> QED BY <1>1, <1>2, <1>3, <1>4, <1>5, <1>6 DEF Next

\* What both loops of an election have counted and what is still out add up to
\* the peers, in every state.
THEOREM ElectionCountsAddUp == Spec => []CountInv
<1>1. Init => CountInv
  BY InitCounts
<1>2. TypeOK /\ CountInv /\ [Next]_vars => CountInv'
  BY StepCounts
<1> QED BY <1>1, <1>2, ElectionTypeCorrect, PTL DEF Spec

\* An election listens in vain only where a peer refused its vote, or where the
\* cluster is one server.
THEOREM ElectionHungOnlyByRefusal == Spec => []HungOnlyByRefusal
<1>1. TypeOK /\ CountInv => HungOnlyByRefusal
  <2> SUFFICES ASSUME TypeOK, CountInv, NEW s \in Server, task[s].phase = "voting",
                      Awaited(s) = {}, ~task[s].refused
               PROVE  NumPeers = 0
    BY DEF HungOnlyByRefusal
  <2>1. Out(s, "vote") = {}
    BY DEF Out, Awaited
  <2>2. Cardinality(Out(s, "vote")) = 0
    BY <2>1, FS_EmptySet
  <2> QED BY <2>2 DEF CountInv, TaskInv, VotesAddUp, TypeOK, Task
<1> QED BY <1>1, ElectionTypeCorrect, ElectionCountsAddUp, PTL

\* Every message that becomeLeaderToDo still waits for is that of a replication
\* that runs.
THEOREM ElectionLeadershipIsAnswered == Spec => []LeadershipIsAnswered
<1>1. TypeOK /\ CountInv => LeadershipIsAnswered
  <2> SUFFICES ASSUME TypeOK, CountInv, NEW s \in Server, task[s].phase = "leading"
               PROVE  LET out == {c \in calls : c.kind = "term" /\ c.from = s
                                                 /\ c.round = round[s]}
                      IN  /\ Cardinality(out) = NumPeers - task[s].received
                          /\ task[s].received < NumPeers
    BY DEF LeadershipIsAnswered
  <2> DEFINE out == {c \in calls : c.kind = "term" /\ c.from = s /\ c.round = round[s]}
             f == [c \in out |-> c.to]
  <2>1. IsFiniteSet(Out(s, "term")) /\ Cardinality(Out(s, "term")) \in Nat
    BY OutFacts
  <2>2. f \in Bijection(out, Out(s, "term"))
    <3>1. f \in [out -> Out(s, "term")]
      BY DEF Out
    <3>2. \A c, d \in out : f[c] = f[d] => c = d
      BY DEF CountInv, CallInv, Twins
    <3>3. \A p \in Out(s, "term") : \E c \in out : f[c] = p
      BY DEF Out
    <3> HIDE DEF f, out
    <3> QED BY <3>1, <3>2, <3>3, Fun_IsBij
  <2>3. ExistsBijection(Out(s, "term"), out)
    BY <2>2, Fun_ExistsBijSymmetric DEF ExistsBijection
  <2>4. Cardinality(out) = Cardinality(Out(s, "term"))
    BY <2>1, <2>3, FS_Bijection
  <2>5. /\ Cardinality(Out(s, "term")) + task[s].received = NumPeers
        /\ task[s].received < NumPeers
    BY DEF CountInv, TaskInv, AcksAddUp
  <2>6. task[s].received \in Nat /\ NumPeers \in Nat
    BY PeersFacts DEF TypeOK, Task
  <2> QED BY <2>1, <2>4, <2>5, <2>6
<1> QED BY <1>1, ElectionTypeCorrect, ElectionCountsAddUp, PTL
=============================================================================
