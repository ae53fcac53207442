--------------------------- MODULE ElectionProofs ---------------------------
(***************************************************************************)
(* Election: type correctness, the terms of the cluster are won terms, and *)
(* the election implements the term clock of Terms.                        *)
(***************************************************************************)
EXTENDS Election, TLAPS

(* What the helpers return. *)

\* What a run has used of its bounds.
Spent == [beats : Nat, losses : Nat, crashes : Nat, preempted : Nat]

LEMMA SpentFacts ==
    ASSUME TypeOK
    PROVE  /\ spent \in Spent
           /\ \A p \in Server : Lose(p) => spent' \in Spent
           /\ Preempt => spent' \in Spent
BY DEF TypeOK, Lose, Preempt, Spent

LEMMA DiskFacts ==
    ASSUME NEW d \in Disk, NEW t \in Nat
    PROVE  /\ GetLastIndex(d) \in Index
           /\ LastEntryTerm(d) \in Nat \cup {Absent}
           /\ BootTerm(d) \in Nat
           /\ SetTermEntry(d, t) \in Disk
BY ConstantAssumption DEF Disk, GetLastIndex, LastEntryTerm, BootTerm, SetTermEntry, Absent

LEMMA NewCallType ==
    ASSUME NEW k \in {"vote", "term", "beat"}, NEW s \in Server, NEW p \in Server,
           NEW i \in Addr, NEW r \in Nat, NEW t \in Nat, NEW a \in Nat
    PROVE  NewCall(k, s, p, i, r, t, a) \in Call
BY DEF NewCall, Call, Addr

LEMMA TaskFacts ==
    ASSUME NEW k \in Task
    PROVE  /\ Idle \in Task
           /\ AfterMessage(k) \in Task
           /\ [k EXCEPT !.votes = @ + 1] \in Task
           /\ LostVote(k) \in Task
           /\ [k EXCEPT !.phase = "leading", !.votes = @ + 1, !.sent = @ + 1] \in Task
           /\ [k EXCEPT !.acks = @ + 1, !.received = @ + 1] \in Task
           /\ [k EXCEPT !.received = @ + 1] \in Task
           /\ [k EXCEPT !.refused = TRUE] \in Task
           /\ \A s \in Server : TypeOK => \A st : Resume(s, st) \in Task
<1>1. Idle \in Task
  BY DEF Idle, Task
<1>2. ASSUME NEW j \in Task PROVE [j EXCEPT !.sent = @ + 1] \in Task
  BY DEF Task
<1>3. ASSUME NEW j \in Task PROVE AfterMessage(j) \in Task
  BY <1>1, <1>2 DEF AfterMessage
<1>4. [k EXCEPT !.votes = @ + 1] \in Task
  BY DEF Task
<1>5. [k EXCEPT !.phase = "leading", !.votes = @ + 1, !.sent = @ + 1] \in Task
  <2>1. k.votes + 1 \in Nat /\ k.sent + 1 \in Nat
    BY DEF Task
  <2> QED BY <2>1 DEF Task
<1>6. [k EXCEPT !.acks = @ + 1, !.received = @ + 1] \in Task
  <2>1. k.acks + 1 \in Nat /\ k.received + 1 \in Nat
    BY DEF Task
  <2> QED BY <2>1 DEF Task
<1>7. [k EXCEPT !.received = @ + 1] \in Task
  BY DEF Task
<1>8. [k EXCEPT !.refused = TRUE] \in Task
  BY DEF Task
<1>9. ASSUME NEW s \in Server, TypeOK, NEW st PROVE Resume(s, st) \in Task
  <2>1. task[s] \in Task
    BY <1>9 DEF TypeOK
  <2>2. [task[s] EXCEPT !.phase = "voting", !.acks = 0, !.received = 0] \in Task
    BY <2>1 DEF Task
  <2> QED BY <1>1, <2>2 DEF Resume
<1> QED BY <1>1, <1>3, <1>4, <1>5, <1>6, <1>7, <1>8, <1>9 DEF LostVote

LEMMA AnsweredType ==
    ASSUME calls \subseteq Call, NEW c \in calls, NEW t \in Nat,
           NEW st \in {"ok", "no"}
    PROVE  Answered(c, st, t) \subseteq Call
BY DEF Answered, Call

LEMMA ExitType ==
    ASSUME TypeOK, NEW s \in Server, Exit(s), spent' \in Spent
    PROVE  TypeOK'
<1>1. calls' \subseteq Call
  <2> DEFINE Cut(c) == [c EXCEPT !.from = IF c.from = s THEN Nobody ELSE @,
                                 !.status = IF c.to = s /\ @ = "held" THEN "open" ELSE @,
                                 !.torn = (c.to = s /\ Pending(c)) \/ @]
  <2>1. ASSUME NEW c \in calls PROVE Cut(c) \in Call
    <3>1. c \in Call
      BY DEF TypeOK
    <3>2. ((c.to = s /\ Pending(c)) \/ c.torn) \in BOOLEAN
      OBVIOUS
    <3> QED BY <3>1, <3>2 DEF Call, Addr
  <2>2. calls' = {Cut(c) : c \in {d \in calls : d.from = s => Pending(d)}}
    BY DEF Exit
  <2> QED BY <2>1, <2>2
<1>2. currentTerm' \in [Server -> Nat]
  BY DiskFacts DEF TypeOK, Exit
<1>3. task' \in [Server -> Task]
  BY DEF TypeOK, Exit, Idle, Task
<1> QED BY <1>1, <1>2, <1>3 DEF TypeOK, Exit, histVars, Addr, FOLLOWER, Spent

-----------------------------------------------------------------------------
(* Type correctness. *)

LEMMA InitType == Init => TypeOK
<1> SUFFICES ASSUME Init PROVE TypeOK
  OBVIOUS
<1>1. \A s \in Server : disk[s] \in Disk
  BY ConstantAssumption DEF Init
<1>2. disk \in [Server -> Disk]
  BY ConstantAssumption DEF Init
<1>3. currentTerm \in [Server -> Nat]
  BY <1>1, DiskFacts DEF Init
<1>4. task \in [Server -> Task]
  BY DEF Init, Idle, Task
<1> QED BY <1>2, <1>3, <1>4 DEF Init, TypeOK, Addr, FOLLOWER

\* The actions of electionTask.
LEMMA ElectionTaskType ==
    ASSUME TypeOK
    PROVE  /\ \A s \in Server : StartElection(s) \/ AbortElection(s) => TypeOK'
           /\ \A c \in calls : StandDown(c) \/ CountVote(c) \/ Win(c) \/ HearRefusal(c)
                               \/ VoteUnreachable(c) \/ DropCall(c) \/ DropAnswer(c)
                               => TypeOK'
<1>1. ASSUME NEW s \in Server, StartElection(s) PROVE TypeOK'
  <2>1. VoteTerm(s) \in Nat /\ GetLastIndex(disk[s]) \in Nat
    <3>1. disk[s] \in Disk /\ GetLastIndex(disk[s]) \in Index
      BY DiskFacts DEF TypeOK
    <3>2. disk[s].terms[GetLastIndex(disk[s])] \in Nat \cup {Absent}
      BY <3>1 DEF Disk
    <3>3. VoteTerm(s) # Absent
      BY <1>1 DEF StartElection
    <3> QED BY <3>1, <3>2, <3>3, ConstantAssumption DEF VoteTerm
  <2>2. round' \in [Server -> Nat] /\ task' \in [Server -> Task]
    <3>1. [Idle EXCEPT !.phase = "voting"] \in Task
      BY DEF Idle, Task
    <3> QED BY <1>1, <3>1 DEF StartElection, TypeOK
  <2>3. \A p \in Peers(s) :
           NewCall("vote", s, p, s, round'[s], VoteTerm(s), GetLastIndex(disk[s])) \in Call
    BY <2>1, <2>2, NewCallType DEF Peers, Addr
  <2>4. calls' \subseteq Call
    BY <1>1, <2>3 DEF StartElection, TypeOK
  <2> QED BY <1>1, <2>2, <2>4 DEF StartElection, TypeOK, Addr, CANDIDATE
<1>2. ASSUME NEW s \in Server, AbortElection(s) PROVE TypeOK'
  BY <1>2 DEF AbortElection, TypeOK, Addr, CANDIDATE, histVars
<1>3. ASSUME NEW c \in calls, StandDown(c) PROVE TypeOK'
  BY <1>3, TaskFacts DEF StandDown, Listening, TypeOK, nodeVars, histVars, Idle, Task
<1>4. ASSUME NEW c \in calls, CountVote(c) PROVE TypeOK'
  <2> DEFINE k == [task[c.from] EXCEPT !.votes = @ + 1]
  <2>1. c.from \in Server /\ task[c.from] \in Task
    BY <1>4 DEF CountVote, Listening, TypeOK
  <2>2. k \in Task
    BY <2>1, TaskFacts
  <2>3. AfterMessage(k) \in Task
    BY <2>2, TaskFacts
  <2>4. task' \in [Server -> Task]
    BY <1>4, <2>3 DEF CountVote, TypeOK
  <2> QED BY <1>4, <2>4 DEF CountVote, TypeOK, nodeVars, histVars
<1>5. ASSUME NEW c \in calls, Win(c) PROVE TypeOK'
  <2> DEFINE s == c.from
             t == currentTerm[s] + 1
  <2>1. s \in Server /\ t \in Nat /\ round[s] \in Nat
    BY <1>5 DEF Win, Listening, TypeOK
  <2>2. disk' \in [Server -> Disk]
    <3>1. SetTermEntry(disk[s], t) \in Disk
      BY <2>1, DiskFacts DEF TypeOK
    <3> QED BY <1>5, <2>1, <3>1 DEF Win, TypeOK
  <2>3. \A p \in Peers(s) : NewCall("term", s, p, s, round[s], t, t) \in Call
    BY <2>1, NewCallType DEF Peers, Addr
  <2>4. calls' \subseteq Call
    BY <1>5, <2>3 DEF Win, TypeOK
  <2>5. task' \in [Server -> Task]
    <3>1. [task[s] EXCEPT !.phase = "leading", !.votes = @ + 1, !.sent = @ + 1] \in Task
      BY <2>1, TaskFacts DEF TypeOK
    <3> QED BY <1>5, <3>1 DEF Win, TypeOK
  <2>6. won' \subseteq (Server \X Nat)
    BY <1>5, <2>1 DEF Win, TypeOK
  <2>7. currentTerm' \in [Server -> Nat]
    BY <1>5, <2>1 DEF Win, TypeOK
  <2> QED BY <1>5, <2>1, <2>2, <2>4, <2>5, <2>6, <2>7 DEF Win, TypeOK, Addr, LEADER
<1>6. ASSUME NEW c \in calls, HearRefusal(c) PROVE TypeOK'
  BY <1>6 DEF HearRefusal, TypeOK, Call, histVars
<1>7. ASSUME NEW c \in calls, VoteUnreachable(c) PROVE TypeOK'
  <2>1. task' \in [Server -> Task]
    BY <1>7, TaskFacts DEF VoteUnreachable, Listening, TypeOK
  <2>2. spent' \in Spent
    BY <1>7, SpentFacts DEF VoteUnreachable, TypeOK, Call
  <2> QED BY <1>7, <2>1, <2>2 DEF VoteUnreachable, TypeOK, nodeVars, histVars, Spent
<1>8. ASSUME NEW c \in calls, DropCall(c) PROVE TypeOK'
  <2>1. spent' \in Spent
    BY <1>8, SpentFacts DEF DropCall, TypeOK, Call
  <2> QED BY <1>8, <2>1 DEF DropCall, TypeOK, nodeVars, histVars, Spent
<1>9. ASSUME NEW c \in calls, DropAnswer(c) PROVE TypeOK'
  BY <1>9 DEF DropAnswer, TypeOK, nodeVars, histVars
<1> QED BY <1>1, <1>2, <1>3, <1>4, <1>5, <1>6, <1>7, <1>8, <1>9

\* The two handlers.
LEMMA HandlerType ==
    ASSUME TypeOK, NEW c \in calls, Handle(c)
    PROVE  TypeOK'
<1>1. c \in Call /\ calls \subseteq Call
  BY DEF TypeOK
<1>2. CASE CheckVote(c)
  <2>1. [c EXCEPT !.status = "held", !.torn = FALSE] \in Call
    BY <1>1 DEF Call
  <2> QED BY <1>1, <1>2, <2>1, SpentFacts DEF CheckVote, TypeOK, nodeVars, histVars, Spent
<1>3. CASE GrantVote(c)
  <2>1. calls' \subseteq Call
    BY <1>1, <1>3, AnsweredType DEF GrantVote, Call
  <2> QED BY <1>1, <1>3, <2>1 DEF GrantVote, TypeOK, histVars, Call, FOLLOWER
<1>4. CASE RefuseVote(c)
  <2>1. calls' \subseteq Call
    BY <1>1, <1>4, AnsweredType DEF RefuseVote, Call, TypeOK
  <2>2. task' \in [Server -> Task]
    BY <1>4, TaskFacts DEF RefuseVote, Listening, TypeOK
  <2> QED BY <1>4, <2>1, <2>2 DEF RefuseVote, TypeOK, nodeVars, histVars
<1>7. StoreTermEntry(c.to, c) => disk' \in [Server -> Disk]
  <2>1. SetTermEntry(disk[c.to], c.arg) \in Disk
    BY <1>1, DiskFacts DEF TypeOK, Call
  <2> QED BY <2>1 DEF StoreTermEntry, TypeOK
<1>5. CASE AcceptAppend(c)
  <2>1. calls' \subseteq Call
    BY <1>1, <1>5, AnsweredType DEF AcceptAppend, Call
  <2>2. disk' \in [Server -> Disk]
    BY <1>5, <1>7 DEF AcceptAppend
  <2>3. leaderAddr' \in [Server -> Addr]
    BY <1>1, <1>5 DEF AcceptAppend, TypeOK, Call
  <2> QED BY <1>1, <1>5, <2>1, <2>2, <2>3 DEF AcceptAppend, TypeOK, histVars, Call, FOLLOWER
<1>8. CASE CheckAppend(c)
  <2>1. [c EXCEPT !.status = "held", !.torn = FALSE] \in Call
    BY <1>1 DEF Call
  <2>2. leaderAddr' \in [Server -> Addr]
    BY <1>1, <1>8 DEF CheckAppend, TypeOK, Call
  <2> QED BY <1>1, <1>8, <2>1, <2>2, SpentFacts DEF CheckAppend, TypeOK, histVars, Spent
<1>9. CASE AcceptOvertaken(c)
  <2>1. calls' \subseteq Call
    BY <1>1, <1>9, AnsweredType DEF AcceptOvertaken, Call, TypeOK
  <2>2. disk' \in [Server -> Disk]
    BY <1>9, <1>7 DEF AcceptOvertaken
  <2> QED BY <1>9, <2>1, <2>2 DEF AcceptOvertaken, TypeOK, nodeVars, histVars
<1>6. CASE RejectAppend(c)
  <2>1. calls' \subseteq Call
    BY <1>1, <1>6, AnsweredType DEF RejectAppend, Call, TypeOK
  <2> QED BY <1>6, <2>1 DEF RejectAppend, TypeOK, nodeVars, histVars
<1> QED BY <1>2, <1>3, <1>4, <1>5, <1>6, <1>8, <1>9 DEF Handle

\* Heartbeats and the replication of the term entry.
LEMMA LeaderType ==
    ASSUME TypeOK
    PROVE  /\ \A s \in Server : \A p \in Peers(s) : HeartBeat(s, p) => TypeOK'
           /\ \A c \in calls : StepDown(c) \/ Established(c) \/ ChannelPanic(c) \/ CountAck(c)
                               \/ TermOvertaken(c) \/ TermRetry(c) \/ TermGiveUp(c)
                               \/ SeeHigherTerm(c)
                               => TypeOK'
<1>1. ASSUME NEW s \in Server, NEW p \in Peers(s), HeartBeat(s, p) PROVE TypeOK'
  <2>1. NewCall("beat", s, p, s, 0, currentTerm[s], 0) \in Call
    BY NewCallType DEF TypeOK, Peers, Addr
  <2> QED BY <1>1, <2>1 DEF HeartBeat, TypeOK, nodeVars, histVars
<1>2. ASSUME NEW c \in calls, StepDown(c) PROVE TypeOK'
  BY <1>2 DEF StepDown, TypeOK, histVars, Call, Addr, FOLLOWER
<1>3. ASSUME NEW c \in calls, Established(c) PROVE TypeOK'
  <2>1. task' \in [Server -> Task]
    BY <1>3, TaskFacts DEF Established, Listening, TypeOK
  <2> QED BY <1>3, <2>1 DEF Established, TypeOK, nodeVars, histVars
<1>4. ASSUME NEW c \in calls, ChannelPanic(c) PROVE TypeOK'
  BY <1>4, ExitType, SpentFacts DEF ChannelPanic, Listening
<1>5. ASSUME NEW c \in calls, CountAck(c) PROVE TypeOK'
  <2> DEFINE k == [task[c.from] EXCEPT !.acks = @ + 1, !.received = @ + 1]
  <2>1. c.from \in Server /\ task[c.from] \in Task
    BY <1>5 DEF CountAck, Listening, TypeOK
  <2>2. k \in Task /\ Resume(c.from, FOLLOWER) \in Task
    BY <2>1, TaskFacts
  <2>3. task' \in [Server -> Task]
    BY <1>5, <2>1, <2>2 DEF CountAck, TypeOK
  <2>4. state' \in [Server -> {LEADER, CANDIDATE, FOLLOWER}]
    BY <1>5, <2>1 DEF CountAck, TypeOK
  <2> QED BY <1>5, <2>3, <2>4 DEF CountAck, TypeOK, histVars
<1>6. ASSUME NEW s \in Server, NEW st \in {LEADER, CANDIDATE, FOLLOWER}, CountFailure(s, st)
      PROVE  /\ task' \in [Server -> Task]
             /\ state' \in [Server -> {LEADER, CANDIDATE, FOLLOWER}]
  <2>1. task[s] \in Task
    BY DEF TypeOK
  <2>2. [task[s] EXCEPT !.received = @ + 1] \in Task /\ Resume(s, FOLLOWER) \in Task
    BY <2>1, TaskFacts
  <2> QED BY <1>6, <2>2 DEF CountFailure, TypeOK
<1>7. ASSUME NEW c \in calls, TermOvertaken(c) PROVE TypeOK'
  <2>1. CASE Listening(c, "leading")
    BY <1>7, <1>6, <2>1 DEF TermOvertaken, TypeOK, histVars, Call, Listening
  <2>2. CASE ~Listening(c, "leading")
    BY <1>7, <2>2 DEF TermOvertaken, TypeOK, histVars, Call, FOLLOWER
  <2> QED BY <2>1, <2>2
<1>8. ASSUME NEW c \in calls, TermRetry(c) PROVE TypeOK'
  <2>1. NewCall("term", c.from, c.to, leaderAddr[c.from], c.round, currentTerm[c.from], c.arg) \in Call
    BY <1>8, NewCallType DEF TermRetry, TermFailed, TypeOK, Call
  <2> QED BY <1>8, <2>1 DEF TermRetry, TypeOK, nodeVars, histVars
<1>9. ASSUME NEW c \in calls, TermGiveUp(c) PROVE TypeOK'
  <2>1. spent' \in Spent
    BY <1>9, SpentFacts DEF TermGiveUp, TypeOK, Call
  <2>2. c.from \in Server /\ state[c.from] \in {LEADER, CANDIDATE, FOLLOWER}
    BY <1>9 DEF TermGiveUp, TermFailed, TypeOK
  <2>3. /\ task' \in [Server -> Task]
        /\ state' \in [Server -> {LEADER, CANDIDATE, FOLLOWER}]
    BY <1>9, <1>6, <2>2 DEF TermGiveUp, TypeOK
  <2> QED BY <1>9, <2>1, <2>3 DEF TermGiveUp, TypeOK, histVars, Spent
<1>10. ASSUME NEW c \in calls, SeeHigherTerm(c) PROVE TypeOK'
  <2>1. [c EXCEPT !.status = "seen"] \in Call
    BY DEF TypeOK, Call
  <2> QED BY <1>10, <2>1, SpentFacts DEF SeeHigherTerm, TypeOK, nodeVars, histVars, Spent
<1> QED BY <1>1, <1>2, <1>3, <1>4, <1>5, <1>7, <1>8, <1>9, <1>10

\* Exits and boots.
LEMMA ProcessType ==
    ASSUME TypeOK
    PROVE  /\ \A s \in Server : Crash(s) \/ Boot(s) => TypeOK'
           /\ \A c \in calls : CallerDies(c) => TypeOK'
<1>1. ASSUME NEW s \in Server, Crash(s) PROVE TypeOK'
  <2>1. spent' \in Spent
    BY <1>1 DEF Crash, TypeOK, Spent
  <2> QED BY <1>1, <2>1, ExitType DEF Crash
<1>2. ASSUME NEW s \in Server, Boot(s) PROVE TypeOK'
  BY <1>2 DEF Boot, TypeOK, nodeVars, histVars
<1>3. ASSUME NEW c \in calls, CallerDies(c) PROVE TypeOK'
  BY <1>3, ExitType, SpentFacts DEF CallerDies
<1> QED BY <1>1, <1>2, <1>3

LEMMA StepType == TypeOK /\ [Next]_vars => TypeOK'
<1> SUFFICES ASSUME TypeOK, [Next]_vars PROVE TypeOK'
  OBVIOUS
<1>1. CASE UNCHANGED vars
  BY <1>1 DEF vars, nodeVars, histVars, TypeOK
<1>2. CASE Next
  BY <1>2, ElectionTaskType, HandlerType, LeaderType, ProcessType
     DEF Next, Answer, NoAnswer
<1> QED BY <1>1, <1>2

\* Every variable of the election keeps its type.
THEOREM ElectionTypeCorrect == Spec => []TypeOK
<1>1. Init => TypeOK
  BY InitType
<1>2. TypeOK /\ [Next]_vars => TypeOK'
  BY StepType
<1> QED BY <1>1, <1>2, PTL DEF Spec

-----------------------------------------------------------------------------
(* The terms of the cluster are won terms. *)

LEMMA BootTermWon ==
    ASSUME TypeOK, TermsAreWon, NEW s \in Server
    PROVE  /\ BootTerm(disk[s]) \in WonTerms
           /\ VoteTerm(s) # Absent => VoteTerm(s) \in WonTerms
<1>1. disk[s] \in Disk /\ GetLastIndex(disk[s]) \in Index
  BY DiskFacts DEF TypeOK
<1>2. \A i \in Index : disk[s].terms[i] \in WonTerms \cup {Absent}
  BY DEF TermsAreWon
<1>3. 0 \in WonTerms
  BY DEF WonTerms, BootTerms
<1>4. CASE disk[s].last = Absent
  BY <1>1, <1>2, <1>3, <1>4 DEF BootTerm, LastEntryTerm, VoteTerm
<1>5. CASE disk[s].last \in Index
  BY <1>1, <1>2, <1>3, <1>5 DEF BootTerm, LastEntryTerm, VoteTerm
<1> QED BY <1>1, <1>4, <1>5 DEF Disk

\* What is left to show when no term is won: the node's terms, the entries on
\* disk and the RPCs carry known ones.
LEMMA KeepWon ==
    ASSUME TypeOK, TermsAreWon, UNCHANGED won,
           \A s \in Server : currentTerm'[s] \in WonTerms,
           \A s \in Server, i \in Index : disk'[s].terms[i] \in WonTerms \cup {Absent},
           \A c \in calls' : {c.term, c.rterm} \cup Entries(c) \subseteq WonTerms
    PROVE  TermsAreWon'
BY DEF TermsAreWon, WonTerms, BootTerms

\* A term entry of a known term leaves the disk with known terms.
LEMMA DiskWon ==
    ASSUME TypeOK, TermsAreWon, NEW s \in Server, NEW t \in Nat, NEW i \in Index
    PROVE  SetTermEntry(disk[s], t).terms[i] \in WonTerms \cup {t, Absent}
<1>1. disk[s] \in Disk
  BY DEF TypeOK
<1> QED BY <1>1, ConstantAssumption DEF TermsAreWon, SetTermEntry, Disk

\* An answered call carries the term of the answer.
LEMMA AnsweredWon ==
    ASSUME TypeOK, TermsAreWon, NEW c \in calls, NEW st, NEW t \in WonTerms,
           NEW d \in Answered(c, st, t)
    PROVE  {d.term, d.rterm} \cup Entries(d) \subseteq WonTerms
<1> DEFINE r == [c EXCEPT !.status = st, !.rterm = t, !.torn = FALSE]
<1>1. CASE d \in calls
  BY <1>1 DEF TermsAreWon
<1>2. CASE d = r
  <2>1. c \in Call
    BY DEF TypeOK
  <2>2. r.term = c.term /\ r.rterm = t /\ r.kind = c.kind /\ r.arg = c.arg
    BY <2>1 DEF Call
  <2>3. Entries(r) = Entries(c)
    BY <2>2 DEF Entries
  <2>4. {c.term} \cup Entries(c) \subseteq WonTerms
    BY DEF TermsAreWon
  <2> QED BY <1>2, <2>2, <2>3, <2>4
<1> QED BY <1>1, <1>2 DEF Answered

\* A process that exits would boot with a known term.
LEMMA ExitWon ==
    ASSUME TypeOK, TermsAreWon, NEW s \in Server, Exit(s)
    PROVE  TermsAreWon'
<1>1. \A r \in Server : currentTerm'[r] \in WonTerms
  BY BootTermWon DEF Exit, TypeOK, TermsAreWon
<1>2. ASSUME NEW d \in calls'
      PROVE  {d.term, d.rterm} \cup Entries(d) \subseteq WonTerms
  <2>1. PICK c \in calls : /\ d.term = c.term /\ d.rterm = c.rterm
                           /\ d.kind = c.kind /\ d.arg = c.arg
    BY DEF Exit, TypeOK, Call
  <2>2. Entries(d) = Entries(c)
    BY <2>1 DEF Entries
  <2>3. {c.term, c.rterm} \cup Entries(c) \subseteq WonTerms
    BY DEF TermsAreWon
  <2> QED BY <2>1, <2>2, <2>3
<1> QED BY <1>1, <1>2, KeepWon DEF Exit, TermsAreWon, histVars

\* Winning makes the one term the winner moves to.
LEMMA WinAddsTerm ==
    ASSUME NEW c \in calls, Win(c)
    PROVE  WonTerms' = WonTerms \cup {currentTerm[c.from] + 1}
<1> DEFINE s == c.from
           t == currentTerm[s] + 1
<1>1. won' = won \cup {<<s, t>>}
  BY DEF Win
<1>2. {w[2] : w \in won'} = {w[2] : w \in won} \cup {t}
  <2>1. <<s, t>>[2] = t
    OBVIOUS
  <2> HIDE DEF s, t
  <2> QED BY <1>1, <2>1
<1>3. BootTerms' = BootTerms
  BY DEF BootTerms
<1> QED BY <1>2, <1>3 DEF WonTerms

\* The step of electionTask that makes a term.
LEMMA WinWon ==
    ASSUME TypeOK, TermsAreWon, NEW c \in calls, Win(c)
    PROVE  TermsAreWon'
<1> DEFINE s == c.from
           t == currentTerm[s] + 1
<1>1. s \in Server /\ t \in Nat
  BY DEF Win, Listening, TypeOK
<1>2. WonTerms' = WonTerms \cup {t}
  BY WinAddsTerm
<1>3. \A r \in Server : currentTerm'[r] \in WonTerms \cup {t}
  BY DEF Win, TypeOK, TermsAreWon
<1>4. \A r \in Server, i \in Index : disk'[r].terms[i] \in WonTerms \cup {t, Absent}
  <2>1. \A i \in Index : SetTermEntry(disk[s], t).terms[i] \in WonTerms \cup {t, Absent}
    BY <1>1, DiskWon
  <2>2. CASE disk' = [disk EXCEPT ![s] = SetTermEntry(@, t)]
    BY <2>1, <2>2 DEF TypeOK, TermsAreWon
  <2>3. CASE UNCHANGED disk
    BY <2>3 DEF TermsAreWon
  <2> QED BY <2>2, <2>3 DEF Win
<1>5. ASSUME NEW d \in calls'
      PROVE  {d.term, d.rterm} \cup Entries(d) \subseteq WonTerms \cup {t}
  <2>1. CASE d \in calls
    BY <2>1 DEF TermsAreWon
  <2>2. CASE d \notin calls
    <3>1. PICK p \in Peers(s) : d = NewCall("term", s, p, s, round[s], t, t)
      BY <2>2 DEF Win
    <3>2. d.term = t /\ d.rterm = 0 /\ d.arg = t
      BY <3>1 DEF NewCall
    <3> QED BY <3>2 DEF WonTerms, BootTerms, Entries
  <2> QED BY <2>1, <2>2
<1> QED BY <1>2, <1>3, <1>4, <1>5 DEF TermsAreWon

\* Every action but Win.
Others ==
    \/ \E s \in Server : \/ StartElection(s) \/ AbortElection(s)
                         \/ \E p \in Peers(s) : HeartBeat(s, p)
                         \/ Crash(s) \/ Boot(s)
    \/ \E c \in calls : \/ Handle(c) \/ NoAnswer(c) \/ CallerDies(c)
                        \/ StandDown(c) \/ CountVote(c)
                        \/ SeeHigherTerm(c) \/ HearRefusal(c) \/ StepDown(c)
                        \/ Established(c) \/ ChannelPanic(c) \/ CountAck(c) \/ TermOvertaken(c)

\* A call made with known terms.
LEMMA NewCallWon ==
    ASSUME NEW k, NEW s, NEW p, NEW i, NEW r, NEW t \in WonTerms, NEW a,
           k = "term" => a \in WonTerms, NEW d, d = NewCall(k, s, p, i, r, t, a)
    PROVE  {d.term, d.rterm} \cup Entries(d) \subseteq WonTerms
BY DEF NewCall, Entries, WonTerms, BootTerms

LEMMA OthersWon ==
    ASSUME TypeOK, TermsAreWon, Others
    PROVE  TermsAreWon'
<1> DEFINE Known(c) == {c.term, c.rterm} \cup Entries(c) \subseteq WonTerms
<1>0. /\ \A c \in calls : Known(c) /\ c \in Call /\ c.to \in Server
      /\ \A c \in calls : c.term \in WonTerms /\ c.rterm \in WonTerms
      /\ \A s \in Server : currentTerm[s] \in WonTerms
  BY DEF TermsAreWon, TypeOK, Call
<1>1. ASSUME NEW s \in Server, StartElection(s) PROVE TermsAreWon'
  <2>1. VoteTerm(s) \in WonTerms
    BY <1>1, BootTermWon DEF StartElection
  <2>2. \A d \in calls' : Known(d)
    BY <1>0, <1>1, <2>1, NewCallWon DEF StartElection
  <2> QED BY <1>1, <2>2, KeepWon DEF StartElection, TermsAreWon
<1>2. ASSUME NEW s \in Server, AbortElection(s) \/ Boot(s) PROVE TermsAreWon'
  BY <1>0, <1>2, KeepWon DEF AbortElection, Boot, nodeVars, histVars, TermsAreWon
<1>3. ASSUME NEW s \in Server, NEW p \in Peers(s), HeartBeat(s, p) PROVE TermsAreWon'
  <2>1. \A d \in calls' : Known(d)
    BY <1>0, <1>3, NewCallWon DEF HeartBeat
  <2> QED BY <1>0, <1>3, <2>1, KeepWon DEF HeartBeat, nodeVars, histVars, TermsAreWon
<1>4. ASSUME NEW s \in Server, Crash(s) PROVE TermsAreWon'
  BY <1>4, ExitWon DEF Crash
<1>5. ASSUME NEW c \in calls, CallerDies(c) \/ ChannelPanic(c) PROVE TermsAreWon'
  BY <1>5, ExitWon DEF CallerDies, ChannelPanic, Listening
<1>6. ASSUME NEW c \in calls, CheckVote(c) \/ CheckAppend(c) \/ SeeHigherTerm(c)
      PROVE  TermsAreWon'
  <2>1. PICK r : /\ r.term = c.term /\ r.rterm = c.rterm /\ r.kind = c.kind /\ r.arg = c.arg
                 /\ calls' = (calls \ {c}) \cup {r}
    <3>1. CASE CheckVote(c) \/ CheckAppend(c)
      <4>1. WITNESS [c EXCEPT !.status = "held", !.torn = FALSE]
      <4> QED BY <1>0, <3>1 DEF Call, CheckVote, CheckAppend
    <3>2. CASE SeeHigherTerm(c)
      <4>1. WITNESS [c EXCEPT !.status = "seen"]
      <4> QED BY <1>0, <3>2 DEF Call, SeeHigherTerm
    <3> QED BY <1>6, <3>1, <3>2
  <2>2. Known(r)
    BY <1>0, <2>1 DEF Entries
  <2>3. \A d \in calls' : Known(d)
    BY <1>0, <2>1, <2>2
  <2>4. UNCHANGED <<currentTerm, disk, won>>
    BY <1>6 DEF CheckVote, CheckAppend, SeeHigherTerm, nodeVars, histVars
  <2> QED BY <1>0, <2>3, <2>4, KeepWon DEF TermsAreWon
<1>7. ASSUME NEW c \in calls, GrantVote(c) PROVE TermsAreWon'
  <2>1. \A d \in calls' : Known(d)
    BY <1>0, <1>7, AnsweredWon DEF GrantVote
  <2>2. \A s \in Server : currentTerm'[s] \in WonTerms
    BY <1>0, <1>7 DEF GrantVote, TypeOK
  <2> QED BY <1>7, <2>1, <2>2, KeepWon DEF GrantVote, histVars, TermsAreWon
<1>8. ASSUME NEW c \in calls, RefuseVote(c) \/ RejectAppend(c) PROVE TermsAreWon'
  <2>1. \A d \in calls' : Known(d)
    BY <1>0, <1>8, AnsweredWon DEF RefuseVote, RejectAppend
  <2> QED BY <1>0, <1>8, <2>1, KeepWon DEF RefuseVote, RejectAppend, nodeVars, histVars, TermsAreWon
<1>9. ASSUME NEW c \in calls, AcceptAppend(c) \/ AcceptOvertaken(c) PROVE TermsAreWon'
  <2>1. \A d \in calls' : Known(d)
    BY <1>0, <1>9, AnsweredWon DEF AcceptAppend, AcceptOvertaken
  <2>2. \A s \in Server : currentTerm'[s] \in WonTerms
    BY <1>0, <1>9 DEF AcceptAppend, AcceptOvertaken, nodeVars, TypeOK
  <2>3. ASSUME c.kind = "term", NEW i \in Index
        PROVE  SetTermEntry(disk[c.to], c.arg).terms[i] \in WonTerms \cup {Absent}
    <3>1. c.arg \in WonTerms /\ c.arg \in Nat
      BY <1>0, <2>3 DEF Entries, Call
    <3> QED BY <1>0, <3>1, DiskWon
  <2>4. \A s \in Server, i \in Index : disk'[s].terms[i] \in WonTerms \cup {Absent}
    <3>1. StoreTermEntry(c.to, c)
      BY <1>9 DEF AcceptAppend, AcceptOvertaken
    <3> QED BY <2>3, <3>1 DEF StoreTermEntry, TypeOK, TermsAreWon
  <2>5. UNCHANGED won
    BY <1>9 DEF AcceptAppend, AcceptOvertaken, histVars
  <2> QED BY <2>1, <2>2, <2>4, <2>5, KeepWon
<1>10. ASSUME NEW c \in calls,
              \/ StandDown(c) \/ CountVote(c) \/ Established(c) \/ CountAck(c)
              \/ VoteUnreachable(c) \/ DropCall(c) \/ DropAnswer(c) \/ TermGiveUp(c)
       PROVE  TermsAreWon'
  <2>1. UNCHANGED <<currentTerm, disk, won>> /\ calls' \subseteq calls
    BY <1>10 DEF StandDown, CountVote, Established, CountAck, VoteUnreachable, DropCall,
                 DropAnswer, TermGiveUp, nodeVars, histVars
  <2> QED BY <1>0, <2>1, KeepWon DEF TermsAreWon
<1>11. ASSUME NEW c \in calls, HearRefusal(c) \/ StepDown(c) \/ TermOvertaken(c)
       PROVE  TermsAreWon'
  <2>1. /\ currentTerm' = [currentTerm EXCEPT ![c.from] = c.rterm]
        /\ UNCHANGED <<disk, won>> /\ calls' \subseteq calls
    BY <1>11 DEF HearRefusal, StepDown, TermOvertaken, histVars
  <2>2. \A s \in Server : currentTerm'[s] \in WonTerms
    BY <1>0, <2>1 DEF TypeOK
  <2> QED BY <1>0, <2>1, <2>2, KeepWon DEF TermsAreWon
<1>12. ASSUME NEW c \in calls, TermRetry(c) PROVE TermsAreWon'
  <2>1. c.from \in Server /\ c.kind = "term"
    BY <1>12 DEF TermRetry, TermFailed
  <2>2. c.arg \in WonTerms
    BY <1>0, <2>1 DEF Entries
  <2>3. \A d \in calls' : Known(d)
    BY <1>0, <1>12, <2>1, <2>2, NewCallWon DEF TermRetry
  <2> QED BY <1>0, <1>12, <2>3, KeepWon DEF TermRetry, nodeVars, histVars, TermsAreWon
<1> QED
  BY <1>1, <1>2, <1>3, <1>4, <1>5, <1>6, <1>7, <1>8, <1>9, <1>10, <1>11, <1>12
     DEF Others, Handle, NoAnswer

LEMMA StepSplit ==
    ASSUME [Next]_vars
    PROVE  \/ UNCHANGED vars \/ Others \/ \E c \in calls : Win(c)
BY DEF Next, Others, Answer

LEMMA InitWon == Init => TermsAreWon
<1> SUFFICES ASSUME Init PROVE TermsAreWon
  OBVIOUS
<1>1. disk \in InitDisks /\ disk \in [Server -> Disk]
  BY ConstantAssumption DEF Init
<1>2. \A s \in Server, i \in Index : disk[s].terms[i] \in WonTerms \cup {Absent}
  BY <1>1 DEF WonTerms, BootTerms
<1>3. ASSUME NEW s \in Server PROVE BootTerm(disk[s]) \in WonTerms
  <2>1. disk[s] \in Disk /\ 0 \in WonTerms
    BY <1>1 DEF WonTerms, BootTerms
  <2> QED BY <1>2, <2>1 DEF BootTerm, LastEntryTerm, Disk
<1> QED BY <1>2, <1>3 DEF Init, TermsAreWon

LEMMA StepWon == TypeOK /\ TermsAreWon /\ [Next]_vars => TermsAreWon'
<1> SUFFICES ASSUME TypeOK, TermsAreWon, [Next]_vars PROVE TermsAreWon'
  OBVIOUS
<1>1. CASE UNCHANGED vars
  BY <1>1 DEF vars, nodeVars, histVars, TermsAreWon, WonTerms, BootTerms
<1> QED BY <1>1, StepSplit, OthersWon, WinWon

\* No node, log or RPC ever carries a term that nobody won.
THEOREM ElectionTermsAreWon == Spec => []TermsAreWon
<1>1. Init => TermsAreWon
  BY InitWon
<1>2. TypeOK /\ TermsAreWon /\ [Next]_vars => TermsAreWon'
  BY StepWon
<1> QED BY <1>1, <1>2, ElectionTypeCorrect, PTL DEF Spec

-----------------------------------------------------------------------------
(* The election implements the term clock. *)

LEMMA OneNode ==
    ASSUME TypeOK, Others
    PROVE  /\ UNCHANGED won
           /\ \E s \in Server : \E t : currentTerm' = [currentTerm EXCEPT ![s] = t]
<1>1. ASSUME NEW s \in Server, UNCHANGED currentTerm
      PROVE  \E t : currentTerm' = [currentTerm EXCEPT ![s] = t]
  <2>1. currentTerm' = [currentTerm EXCEPT ![s] = currentTerm[s]]
    BY <1>1 DEF TypeOK
  <2> QED BY <2>1
<1>2. ASSUME NEW s \in Server,
             \/ StartElection(s) \/ AbortElection(s) \/ Crash(s) \/ Boot(s)
             \/ \E p \in Peers(s) : HeartBeat(s, p)
      PROVE  /\ UNCHANGED won
             /\ \E t : currentTerm' = [currentTerm EXCEPT ![s] = t]
  <2>1. CASE Crash(s)
    BY <2>1 DEF Crash, Exit, histVars
  <2>2. CASE ~Crash(s)
    BY <1>1, <1>2, <2>2 DEF StartElection, AbortElection, Boot, HeartBeat, nodeVars, histVars
  <2> QED BY <2>1, <2>2
<1>3. ASSUME NEW c \in calls,
             \/ CallerDies(c) \/ ChannelPanic(c) \/ GrantVote(c) \/ AcceptAppend(c)
             \/ HearRefusal(c) \/ StepDown(c) \/ TermOvertaken(c)
      PROVE  /\ UNCHANGED won
             /\ \E s \in Server : \E t : currentTerm' = [currentTerm EXCEPT ![s] = t]
  <2>1. c.to \in Server
    BY DEF TypeOK, Call
  <2>2. CASE CallerDies(c) \/ ChannelPanic(c)
    BY <2>2 DEF CallerDies, ChannelPanic, Listening, Exit, histVars
  <2>3. CASE GrantVote(c) \/ AcceptAppend(c)
    BY <2>1, <2>3 DEF GrantVote, AcceptAppend, histVars
  <2>4. CASE HearRefusal(c) \/ StepDown(c) \/ TermOvertaken(c)
    <3>1. /\ currentTerm' = [currentTerm EXCEPT ![c.from] = c.rterm]
          /\ UNCHANGED won
      BY <2>4 DEF HearRefusal, StepDown, TermOvertaken, histVars
    <3>2. CASE c.from \in Server
      BY <3>1, <3>2
    <3>3. CASE c.from \notin Server
      <4>1. UNCHANGED currentTerm
        BY <3>1, <3>3 DEF TypeOK
      <4> QED BY <1>1, <2>1, <3>1, <4>1
    <3> QED BY <3>2, <3>3
  <2> QED BY <1>3, <2>2, <2>3, <2>4
<1>4. ASSUME NEW c \in calls,
             \/ CheckVote(c) \/ RefuseVote(c) \/ RejectAppend(c) \/ NoAnswer(c)
             \/ CheckAppend(c) \/ AcceptOvertaken(c) \/ SeeHigherTerm(c)
             \/ StandDown(c) \/ CountVote(c) \/ Established(c) \/ CountAck(c)
      PROVE  /\ UNCHANGED won
             /\ \E s \in Server : \E t : currentTerm' = [currentTerm EXCEPT ![s] = t]
  <2>1. c.to \in Server
    BY DEF TypeOK, Call
  <2>2. UNCHANGED <<currentTerm, won>>
    BY <1>4 DEF CheckVote, RefuseVote, RejectAppend, NoAnswer, StandDown, CountVote, Established,
       CheckAppend, AcceptOvertaken, SeeHigherTerm, CountAck, VoteUnreachable, TermRetry, TermGiveUp, DropCall, DropAnswer, nodeVars, histVars
  <2> QED BY <1>1, <2>1, <2>2
<1> QED BY <1>2, <1>3, <1>4 DEF Others, Handle

\* The terms of Election change as the clock of Terms.
THEOREM ElectionImplementsTerms == Spec => TermsSpec
<1>1. Init => Clock!Init
  <2> SUFFICES ASSUME Init PROVE Clock!Init
    OBVIOUS
  <2>1. WonTerms = BootTerms
    BY DEF Init, WonTerms
  <2>2. currentTerm \in [Server -> BootTerms]
    BY InitWon, <2>1 DEF Init, TermsAreWon
  <2> QED BY <2>1, <2>2 DEF Clock!Init
<1>2. TypeOK /\ TermsAreWon /\ TermsAreWon' /\ [Next]_vars
         => [Clock!Next]_<<currentTerm, WonTerms>>
  <2> SUFFICES ASSUME TypeOK, TermsAreWon, TermsAreWon', [Next]_vars
               PROVE  [Clock!Next]_<<currentTerm, WonTerms>>
    OBVIOUS
  <2>1. CASE UNCHANGED vars
    BY <2>1 DEF vars, nodeVars, histVars, WonTerms, BootTerms
  <2>2. CASE Others
    <3>1. PICK s \in Server : \E t : currentTerm' = [currentTerm EXCEPT ![s] = t]
      BY <2>2, OneNode
    <3>2. PICK t : currentTerm' = [currentTerm EXCEPT ![s] = t]
      BY <3>1
    <3>3. UNCHANGED WonTerms
      BY <2>2, OneNode DEF WonTerms, BootTerms
    <3>4. currentTerm'[s] = t /\ currentTerm'[s] \in WonTerms'
      BY <3>2 DEF TypeOK, TermsAreWon
    <3> QED BY <3>2, <3>3, <3>4 DEF Clock!Next, Clock!Learn
  <2>3. ASSUME NEW c \in calls, Win(c) PROVE Clock!Next
    <3> DEFINE s == c.from
               t == currentTerm[s] + 1
    <3>1. s \in Server
      BY <2>3 DEF Win, Listening
    <3>2. currentTerm' = [currentTerm EXCEPT ![s] = t]
      BY <2>3 DEF Win
    <3>3. WonTerms' = WonTerms \cup {t}
      BY <2>3, WinAddsTerm
    <3>4. Clock!Win(s)
      BY <3>2, <3>3 DEF Clock!Win
    <3> QED BY <3>1, <3>4 DEF Clock!Next
  <2> QED BY <2>1, <2>2, <2>3, StepSplit
<1> QED BY <1>1, <1>2, ElectionTypeCorrect, ElectionTermsAreWon, PTL DEF Spec, TermsSpec, Clock!Spec


-----------------------------------------------------------------------------
(* Where a term may fall. *)

Falls(s) == up[s] /\ up'[s] /\ currentTerm'[s] < currentTerm[s]

LEMMA HandlersKeepTerm ==
    ASSUME TypeOK, NEW s \in Server, NEW c \in calls, Falls(s),
           GrantVote(c) \/ AcceptAppend(c)
    PROVE  c \in Midway(s) /\ c \notin calls' /\ currentTerm'[s] = Brings(c)
<1>1. /\ currentTerm \in [Server -> Nat] /\ currentTerm[s] \in Nat
      /\ c \in Call /\ c.to \in Server /\ c.term \in Nat
  BY DEF TypeOK, Call
<1>2. /\ currentTerm' = [currentTerm EXCEPT ![c.to] = c.term]
      /\ calls' = Answered(c, "ok", c.term)
      /\ c.status = "held" \/ c.term >= currentTerm[c.to]
  BY DEF GrantVote, Grants, AcceptAppend
<1>3. c.to = s /\ currentTerm'[s] = c.term /\ c.status = "held"
  BY <1>1, <1>2 DEF Falls
<1>4. c \notin calls'
  <2>1. [c EXCEPT !.status = "ok", !.rterm = c.term, !.torn = FALSE].status = "ok"
    BY <1>1 DEF Call
  <2> QED BY <1>2, <1>3, <2>1 DEF Answered
<1> QED BY <1>3, <1>4 DEF Midway, Brings

LEMMA AnswersKeepTerm ==
    ASSUME TypeOK, NEW s \in Server, NEW c \in calls, Falls(s),
           HearRefusal(c) \/ StepDown(c) \/ TermOvertaken(c)
    PROVE  c \in Midway(s) /\ c \notin calls' /\ currentTerm'[s] = Brings(c)
<1>1. /\ currentTerm \in [Server -> Nat] /\ currentTerm[s] \in Nat
      /\ c.rterm \in Nat
  BY DEF TypeOK, Call
<1>2. /\ currentTerm' = [currentTerm EXCEPT ![c.from] = c.rterm]
      /\ calls' = calls \ {c}
      /\ Adopts(c)
  BY DEF HearRefusal, StepDown, TermOvertaken
<1>3. c.from = s /\ currentTerm'[s] = c.rterm
  BY <1>1, <1>2 DEF Falls
<1>4. c.status = "seen"
  BY <1>1, <1>2, <1>3 DEF Falls, Adopts, TellsHigherTerm
<1> QED BY <1>2, <1>3, <1>4 DEF Midway, Brings

LEMMA OthersKeepTerm ==
    ASSUME TypeOK, NEW s \in Server, NEW c \in calls,
           Win(c) \/ CallerDies(c) \/ ChannelPanic(c)
    PROVE  ~Falls(s)
<1>1. /\ currentTerm \in [Server -> Nat] /\ currentTerm[s] \in Nat
      /\ up \in [Server -> BOOLEAN]
  BY DEF TypeOK
<1>2. CASE Win(c)
  <2>1. c.from \in Server /\ currentTerm' = [currentTerm EXCEPT ![c.from] = currentTerm[c.from] + 1]
    BY <1>2 DEF Win, Listening
  <2> QED BY <1>1, <2>1 DEF Falls
<1>4. CASE CallerDies(c) \/ ChannelPanic(c)
  <2>1. Exit(c.from)
    BY <1>4 DEF CallerDies, ChannelPanic
  <2>2. CASE c.from = s
    BY <1>1, <2>1, <2>2 DEF Exit, Falls
  <2>3. CASE c.from # s
    <3>1. currentTerm'[s] = currentTerm[s]
      BY <1>1, <2>1, <2>3 DEF Exit
    <3> QED BY <1>1, <3>1 DEF Falls
  <2> QED BY <2>2, <2>3
<1> QED BY <1>2, <1>4

\* The term of a process that runs on falls only where a handler or a goroutine
\* was preempted between comparing it and assigning it, to the term that it
\* brings.
THEOREM ElectionTermFallsOnlyMidway == Spec => TermFallsOnlyMidway
<1>1. TypeOK /\ [Next]_vars =>
        [\A s \in Server :
            up[s] /\ up'[s] /\ currentTerm'[s] < currentTerm[s] =>
               \E c \in Midway(s) : c \notin calls' /\ currentTerm'[s] = Brings(c)]_vars
  <2> SUFFICES ASSUME TypeOK, Next, NEW s \in Server, Falls(s)
               PROVE  \E c \in Midway(s) : c \notin calls' /\ currentTerm'[s] = Brings(c)
    BY DEF Falls
  <2>1. currentTerm \in [Server -> Nat] /\ currentTerm[s] \in Nat /\ up \in [Server -> BOOLEAN]
    BY DEF TypeOK
  <2>2. ~ UNCHANGED currentTerm
    BY <2>1 DEF Falls
  <2>3. ASSUME NEW x \in Server, Crash(x) PROVE FALSE
    <3>1. Exit(x)
      BY <2>3 DEF Crash
    <3>2. CASE x = s
      <4>1. up' = [up EXCEPT ![s] = FALSE]
        BY <3>1, <3>2 DEF Exit
      <4>2. up'[s] = FALSE
        BY <2>1, <4>1
      <4> QED BY <4>2 DEF Falls
    <3>3. CASE x # s
      <4>1. currentTerm'[s] = currentTerm[s]
        BY <2>1, <3>1, <3>3 DEF Exit
      <4> QED BY <2>1, <4>1 DEF Falls
    <3> QED BY <3>2, <3>3
  <2>4. ASSUME NEW x \in Server,
               \/ StartElection(x) \/ AbortElection(x) \/ Boot(x)
               \/ \E p \in Peers(x) : HeartBeat(x, p)
        PROVE  FALSE
    BY <2>2, <2>4 DEF StartElection, AbortElection, Boot, HeartBeat, nodeVars
  <2>5. ASSUME NEW c \in calls,
               \/ CheckVote(c) \/ RefuseVote(c) \/ RejectAppend(c) \/ NoAnswer(c)
               \/ CheckAppend(c) \/ AcceptOvertaken(c) \/ SeeHigherTerm(c)
               \/ StandDown(c) \/ CountVote(c) \/ Established(c) \/ CountAck(c)
        PROVE  FALSE
    BY <2>2, <2>5 DEF CheckVote, RefuseVote, RejectAppend, NoAnswer, StandDown, CountVote,
       CheckAppend, AcceptOvertaken, SeeHigherTerm, Established, CountAck, VoteUnreachable, TermRetry, TermGiveUp, DropCall, DropAnswer,
       nodeVars
  <2>6. \/ \E c \in calls : \/ GrantVote(c) \/ AcceptAppend(c) \/ HearRefusal(c)
                            \/ StepDown(c) \/ TermOvertaken(c)
        \/ \E c \in calls : Win(c) \/ CallerDies(c) \/ ChannelPanic(c)
    BY <2>3, <2>4, <2>5 DEF Next, Handle, Answer
  <2> QED BY <2>6, HandlersKeepTerm, AnswersKeepTerm, OthersKeepTerm
<1> QED BY <1>1, ElectionTypeCorrect, PTL DEF Spec, TermFallsOnlyMidway
=============================================================================
