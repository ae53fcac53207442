----------------------------- MODULE RolesProofs -----------------------------
(***************************************************************************)
(* Election implements Roles: whoever an RPC or a LeaderAddr names has     *)
(* asked for votes, and only a server inside its election comes to lead.   *)
(***************************************************************************)
EXTENDS ElectionProofs

Asked == {s \in Server : round[s] > 0}

\* Only a process that runs is in an election, or has state to lose.
RunsOrIdle ==
    \A s \in Server :
        /\ task[s].phase # "idle" => up[s] /\ s \in Asked
        /\ state[s] = LEADER => up[s] /\ s \in Asked
        /\ leaderAddr[s] \in Asked \cup {Nobody}

\* Who made a call still runs, unless it is on its way from a process that is
\* gone; who retries a term entry has a leader to name.
CallsAreOwned ==
    \A c \in calls :
        /\ c.id \in Asked
        /\ c.from \in Server => up[c.from]
        /\ ~Pending(c) => c.from \in Server
        /\ c.kind = "term" /\ c.from \in Server => leaderAddr[c.from] # Nobody

NamedInv == RunsOrIdle /\ CallsAreOwned

-----------------------------------------------------------------------------
(* What an action leaves of the invariant. *)

\* Rounds grow, and calls keep who they name and who made them.
LEMMA KeepNamed ==
    ASSUME TypeOK, NamedInv, Asked \subseteq Asked',
           \A s \in Server :
              /\ task'[s].phase # "idle" => up'[s] /\ s \in Asked'
              /\ state'[s] = LEADER => up'[s] /\ s \in Asked'
              /\ leaderAddr'[s] = leaderAddr[s] \/ leaderAddr'[s] \in Asked'
              /\ up[s] => up'[s],
           \A d \in calls' \ calls :
              /\ d.id \in Asked'
              /\ d.from \in Server => up'[d.from]
              /\ ~Pending(d) => d.from \in Server
              /\ d.kind = "term" /\ d.from \in Server => leaderAddr'[d.from] # Nobody
    PROVE  NamedInv'
<1>1. Nobody \notin Server
  BY ConstantAssumption
<1>2. RunsOrIdle'
  BY DEF NamedInv, RunsOrIdle
<1>3. CallsAreOwned'
  <2> SUFFICES ASSUME NEW d \in calls'
               PROVE  /\ d.id \in Asked'
                      /\ d.from \in Server => up'[d.from]
                      /\ ~Pending(d) => d.from \in Server
                      /\ d.kind = "term" /\ d.from \in Server => leaderAddr'[d.from] # Nobody
    BY DEF CallsAreOwned, Pending
  <2>1. CASE d \in calls
    BY <1>1, <2>1 DEF NamedInv, CallsAreOwned, Asked
  <2> QED BY <2>1
<1> QED BY <1>2, <1>3 DEF NamedInv

\* An answered call is one of a process that waits for it.
LEMMA AnsweredOwned ==
    ASSUME TypeOK, NamedInv, NEW c \in calls, NEW st \in {"ok", "no"}, NEW t \in Nat,
           NEW d \in Answered(c, st, t) \ calls
    PROVE  /\ d.id = c.id /\ d.from = c.from /\ d.kind = c.kind
           /\ d.from \in Server /\ d.status = st
<1> DEFINE r == [c EXCEPT !.status = st, !.rterm = t, !.torn = FALSE]
<1>1. c \in Call
  BY DEF TypeOK
<1>2. d = r /\ ~Futile(r)
  BY DEF Answered
<1>3. r.id = c.id /\ r.from = c.from /\ r.kind = c.kind /\ r.status = st
  BY <1>1 DEF Call
<1>4. r.from # Nobody
  BY <1>2 DEF Futile
<1>5. r.from \in Server
  BY <1>1, <1>3, <1>4 DEF Call, Addr
<1> QED BY <1>2, <1>3, <1>5

\* A process that ends leaves no call of its own behind that is answered.
LEMMA ExitNamed ==
    ASSUME TypeOK, NamedInv, NEW s \in Server, Exit(s)
    PROVE  NamedInv'
<1>1. Asked' = Asked /\ Nobody \notin Server
  BY ConstantAssumption DEF Exit, histVars, Asked
<1>2. RunsOrIdle'
  <2> SUFFICES ASSUME NEW r \in Server
               PROVE  /\ task'[r].phase # "idle" => up'[r] /\ r \in Asked'
                      /\ state'[r] = LEADER => up'[r] /\ r \in Asked'
                      /\ leaderAddr'[r] \in Asked' \cup {Nobody}
    BY DEF RunsOrIdle
  <2>1. CASE r = s
    BY <2>1 DEF Exit, TypeOK, Idle, LEADER, FOLLOWER
  <2>2. CASE r # s
    <3>1. /\ up' = [up EXCEPT ![s] = FALSE] /\ state' = [state EXCEPT ![s] = FOLLOWER]
          /\ leaderAddr' = [leaderAddr EXCEPT ![s] = Nobody]
          /\ task' = [task EXCEPT ![s] = Idle]
      BY DEF Exit
    <3>2. /\ task'[r] = task[r] /\ state'[r] = state[r] /\ leaderAddr'[r] = leaderAddr[r]
          /\ up'[r] = up[r]
      BY <2>2, <3>1 DEF TypeOK
    <3> QED BY <1>1, <3>2 DEF NamedInv, RunsOrIdle
  <2> QED BY <2>1, <2>2
<1>3. ASSUME NEW d \in calls'
      PROVE  /\ d.id \in Asked'
             /\ d.from \in Server => up'[d.from]
             /\ ~Pending(d) => d.from \in Server
             /\ d.kind = "term" /\ d.from \in Server => leaderAddr'[d.from] # Nobody
  <2>1. PICK c \in calls :
           /\ c.from = s => Pending(c)
           /\ d = [c EXCEPT !.from = IF c.from = s THEN Nobody ELSE @,
                            !.status = IF c.to = s /\ @ = "held" THEN "open" ELSE @,
                            !.torn = (c.to = s /\ Pending(c)) \/ @]
    BY DEF Exit
  <2>2. c \in Call
    BY DEF TypeOK
  <2>3. /\ d.from = IF c.from = s THEN Nobody ELSE c.from
        /\ d.id = c.id /\ d.kind = c.kind
        /\ d.status = IF c.to = s /\ c.status = "held" THEN "open" ELSE c.status
    BY <2>1, <2>2 DEF Call
  <2>4. Pending(c) => Pending(d)
    BY <2>3 DEF Pending
  <2>5. /\ c.id \in Asked
        /\ c.from \in Server => up[c.from]
        /\ ~Pending(c) => c.from \in Server
        /\ c.kind = "term" /\ c.from \in Server => leaderAddr[c.from] # Nobody
    BY DEF NamedInv, CallsAreOwned
  <2>6. d.from # s
    BY <1>1, <2>3
  <2>7. d.from \in Server => d.from = c.from /\ up'[d.from] = up[d.from]
                              /\ leaderAddr'[d.from] = leaderAddr[d.from]
    BY <1>1, <2>3, <2>6 DEF Exit, TypeOK
  <2>8. ~Pending(d) => ~Pending(c) /\ c.from # s
    BY <2>1, <2>4
  <2> QED BY <1>1, <2>3, <2>5, <2>7, <2>8
<1> QED BY <1>2, <1>3 DEF NamedInv, CallsAreOwned, Pending

-----------------------------------------------------------------------------
(* Every step keeps it. *)

LEMMA ElectionTaskNamed ==
    ASSUME TypeOK, NamedInv
    PROVE  /\ \A s \in Server : StartElection(s) \/ AbortElection(s) => NamedInv'
           /\ \A c \in calls : StandDown(c) \/ CountVote(c) \/ Win(c) \/ HearRefusal(c)
                               \/ VoteUnreachable(c) \/ DropCall(c) \/ DropAnswer(c)
                               => NamedInv'
<1>0. /\ \A s \in Server :
            /\ task[s].phase # "idle" => up[s] /\ s \in Asked
            /\ state[s] = LEADER => up[s] /\ s \in Asked
            /\ leaderAddr[s] \in Asked \cup {Nobody}
      /\ Nobody \notin Server
  BY ConstantAssumption DEF NamedInv, RunsOrIdle
<1>1. ASSUME NEW s \in Server, StartElection(s) PROVE NamedInv'
  <2>1. /\ up[s] /\ UNCHANGED <<up, leaderAddr>>
        /\ round' = [round EXCEPT ![s] = @ + 1]
        /\ state' = [state EXCEPT ![s] = CANDIDATE]
        /\ task' = [task EXCEPT ![s] = [Idle EXCEPT !.phase = "voting"]]
    BY <1>1 DEF StartElection, MayCampaign
  <2>2. Asked' = Asked \cup {s}
    BY <2>1 DEF Asked, TypeOK
  <2>3. ASSUME NEW d \in calls' \ calls
        PROVE  d.id = s /\ d.from = s /\ d.status = "open" /\ d.kind = "vote"
    BY <1>1, <2>3 DEF StartElection, NewCall
  <2> QED BY <1>0, <2>1, <2>2, <2>3, KeepNamed DEF TypeOK, CANDIDATE, LEADER
<1>2. ASSUME NEW s \in Server, AbortElection(s) PROVE NamedInv'
  <2>1. /\ UNCHANGED <<up, leaderAddr, task, calls, round>>
        /\ state' = [state EXCEPT ![s] = CANDIDATE]
    BY <1>2 DEF AbortElection, histVars
  <2>2. Asked' = Asked
    BY <2>1 DEF Asked
  <2> QED BY <1>0, <2>1, <2>2, KeepNamed DEF TypeOK, CANDIDATE, LEADER
<1>3. ASSUME NEW c \in calls, StandDown(c) \/ CountVote(c) PROVE NamedInv'
  <2>1. /\ UNCHANGED <<up, leaderAddr, state, round>> /\ calls' \subseteq calls
        /\ c.from \in Server /\ task[c.from].phase = "voting"
        /\ \A s \in Server : s # c.from => task'[s] = task[s]
    BY <1>3 DEF StandDown, CountVote, Listening, nodeVars, histVars, TypeOK
  <2>2. Asked' = Asked
    BY <2>1 DEF Asked
  <2> QED BY <1>0, <2>1, <2>2, KeepNamed
<1>4. ASSUME NEW c \in calls, Win(c) PROVE NamedInv'
  <2> DEFINE s == c.from
  <2>1. /\ UNCHANGED <<up, round>>
        /\ s \in Server /\ task[s].phase = "voting"
        /\ state' = [state EXCEPT ![s] = LEADER] /\ leaderAddr' = [leaderAddr EXCEPT ![s] = s]
        /\ \A r \in Server : r # s => task'[r] = task[r]
    BY <1>4 DEF Win, Listening, TypeOK
  <2>2. Asked' = Asked /\ s \in Asked /\ up[s]
    BY <1>0, <2>1 DEF Asked
  <2>3. ASSUME NEW d \in calls' \ calls
        PROVE  d.id = s /\ d.from = s /\ d.status = "open"
    BY <1>4, <2>3 DEF Win, NewCall
  <2>4. leaderAddr'[s] = s
    BY <2>1 DEF TypeOK
  <2> HIDE DEF s
  <2> QED BY <1>0, <2>1, <2>2, <2>3, <2>4, KeepNamed DEF TypeOK
<1>5. ASSUME NEW c \in calls, HearRefusal(c) \/ DropCall(c) \/ DropAnswer(c) PROVE NamedInv'
  <2>1. UNCHANGED <<up, leaderAddr, state, task, round>> /\ calls' \subseteq calls
    BY <1>5 DEF HearRefusal, DropCall, DropAnswer, nodeVars, histVars
  <2>2. Asked' = Asked
    BY <2>1 DEF Asked
  <2> QED BY <1>0, <2>1, <2>2, KeepNamed
<1>6. ASSUME NEW c \in calls, VoteUnreachable(c) PROVE NamedInv'
  <2>1. /\ UNCHANGED <<up, leaderAddr, state, round>> /\ calls' \subseteq calls
        /\ c.from \in Server /\ task[c.from].phase = "voting"
        /\ \A s \in Server : s # c.from => task'[s] = task[s]
    BY <1>6 DEF VoteUnreachable, Listening, nodeVars, histVars, TypeOK
  <2>2. Asked' = Asked
    BY <2>1 DEF Asked
  <2> QED BY <1>0, <2>1, <2>2, KeepNamed
<1> QED BY <1>1, <1>2, <1>3, <1>4, <1>5, <1>6

LEMMA HandlerNamed ==
    ASSUME TypeOK, NamedInv, NEW c \in calls, Handle(c)
    PROVE  NamedInv'
<1>0. /\ \A s \in Server :
            /\ task[s].phase # "idle" => up[s] /\ s \in Asked
            /\ state[s] = LEADER => up[s] /\ s \in Asked
            /\ leaderAddr[s] \in Asked \cup {Nobody}
      /\ \A d \in calls : /\ d.id \in Asked
                          /\ d.from \in Server => up[d.from]
                          /\ d.kind = "term" /\ d.from \in Server => leaderAddr[d.from] # Nobody
      /\ Nobody \notin Server /\ c \in Call /\ c.to \in Server
  BY ConstantAssumption DEF NamedInv, RunsOrIdle, CallsAreOwned, TypeOK, Call
<1>1. UNCHANGED <<up, round>> /\ Asked' = Asked
  BY DEF Handle, CheckVote, GrantVote, RefuseVote, CheckAppend, AcceptAppend, AcceptOvertaken,
         RejectAppend, histVars, Asked
<1>2. ASSUME NEW s \in Server
      PROVE  /\ task'[s].phase = task[s].phase
             /\ state'[s] = LEADER => state[s] = LEADER
             /\ leaderAddr'[s] = leaderAddr[s] \/ leaderAddr'[s] = c.id
  <2>1. CASE CheckVote(c) \/ AcceptOvertaken(c) \/ RejectAppend(c)
    BY <2>1 DEF CheckVote, AcceptOvertaken, RejectAppend, nodeVars
  <2>2. CASE GrantVote(c) \/ AcceptAppend(c)
    <3>1. /\ UNCHANGED task /\ state' = [state EXCEPT ![c.to] = FOLLOWER]
          /\ UNCHANGED leaderAddr \/ leaderAddr' = [leaderAddr EXCEPT ![c.to] = c.id]
      BY <2>2 DEF GrantVote, AcceptAppend
    <3> QED BY <1>0, <3>1 DEF TypeOK, LEADER, FOLLOWER
  <2>4. CASE CheckAppend(c)
    BY <1>0, <2>4 DEF CheckAppend, TypeOK
  <2>3. CASE RefuseVote(c)
    <3>1. task[s] \in Task
      BY DEF TypeOK
    <3>2. UNCHANGED <<state, leaderAddr>>
      BY <2>3 DEF RefuseVote, nodeVars
    <3>3. task' = task \/ task' = [task EXCEPT ![c.from].refused = TRUE]
      BY <2>3 DEF RefuseVote
    <3>4. [task[s] EXCEPT !.refused = TRUE].phase = task[s].phase
      BY <3>1 DEF Task
    <3>5. task'[s] = task[s] \/ task'[s] = [task[s] EXCEPT !.refused = TRUE]
      BY <3>3 DEF TypeOK
    <3>6. task'[s].phase = task[s].phase
      BY <3>4, <3>5
    <3> QED BY <3>2, <3>6
  <2> QED BY <2>1, <2>2, <2>3, <2>4 DEF Handle
<1>3. ASSUME NEW d \in calls' \ calls
      PROVE  d.id = c.id /\ d.from = c.from /\ d.kind = c.kind
             /\ (~Pending(d) => d.from \in Server)
  <2>1. CASE CheckVote(c) \/ CheckAppend(c)
    <3>1. d = [c EXCEPT !.status = "held", !.torn = FALSE]
      BY <1>3, <2>1 DEF CheckVote, CheckAppend
    <3>2. d.id = c.id /\ d.from = c.from /\ d.kind = c.kind /\ d.status = "held"
      BY <1>0, <3>1 DEF Call
    <3> QED BY <3>2 DEF Pending
  <2>2. CASE ~CheckVote(c) /\ ~CheckAppend(c)
    <3>1. PICK st \in {"ok", "no"}, t \in Nat : d \in Answered(c, st, t)
      BY <1>0, <2>2, <1>3 DEF Handle, GrantVote, RefuseVote, AcceptAppend, AcceptOvertaken,
         RejectAppend, TypeOK, Call
    <3> QED BY <1>3, <3>1, AnsweredOwned
  <2> QED BY <2>1, <2>2
<1>4. \A s \in Server : leaderAddr[s] # Nobody => leaderAddr'[s] # Nobody
  BY <1>0, <1>2 DEF Asked
<1> QED BY <1>0, <1>1, <1>2, <1>3, <1>4, KeepNamed

\* The ticker, back in electionTask, is in the same election or out of it.
LEMMA ResumeRuns ==
    ASSUME TypeOK, NEW s \in Server, NEW st
    PROVE  Resume(s, st).phase \in {"idle", "voting"}
BY DEF Resume, Idle, TypeOK, Task

LEMMA LeaderNamed ==
    ASSUME TypeOK, NamedInv
    PROVE  /\ \A s \in Server : \A p \in Peers(s) : HeartBeat(s, p) => NamedInv'
           /\ \A c \in calls : StepDown(c) \/ Established(c) \/ ChannelPanic(c) \/ CountAck(c)
                               \/ TermOvertaken(c) \/ TermRetry(c) \/ TermGiveUp(c)
                               \/ SeeHigherTerm(c)
                               => NamedInv'
<1>0. /\ \A s \in Server :
            /\ task[s].phase # "idle" => up[s] /\ s \in Asked
            /\ state[s] = LEADER => up[s] /\ s \in Asked
            /\ leaderAddr[s] \in Asked \cup {Nobody}
      /\ \A d \in calls : /\ d.id \in Asked
                          /\ d.from \in Server => up[d.from]
                          /\ d.kind = "term" /\ d.from \in Server => leaderAddr[d.from] # Nobody
                          /\ ~Pending(d) => d.from \in Server
      /\ Nobody \notin Server
  BY ConstantAssumption DEF NamedInv, RunsOrIdle, CallsAreOwned, TypeOK, Call
<1>1. ASSUME NEW s \in Server, NEW p \in Peers(s), HeartBeat(s, p) PROVE NamedInv'
  <2>1. UNCHANGED <<up, leaderAddr, state, task, round>> /\ state[s] = LEADER
    BY <1>1 DEF HeartBeat, nodeVars, histVars
  <2>2. Asked' = Asked
    BY <2>1 DEF Asked
  <2>3. ASSUME NEW d \in calls' \ calls
        PROVE  d.id = s /\ d.from = s /\ d.status = "open" /\ d.kind = "beat"
    BY <1>1, <2>3 DEF HeartBeat, NewCall
  <2> QED BY <1>0, <2>1, <2>2, <2>3, KeepNamed
\* All that is left of a leader's other steps: the state falls, the ticker
\* goes on or ends.
<1>2. ASSUME NEW s \in Server, UNCHANGED <<up, leaderAddr, round>>, calls' \subseteq calls,
             \A r \in Server : state'[r] = LEADER => state[r] = LEADER,
             \A r \in Server : task'[r].phase # "idle" => task[r].phase # "idle"
      PROVE  NamedInv'
  <2>1. Asked' = Asked
    BY <1>2 DEF Asked
  <2> QED BY <1>0, <1>2, <2>1, KeepNamed
<1>3. ASSUME NEW c \in calls, StepDown(c) PROVE NamedInv'
  <2>1. c.from \in Server
    BY <1>0, <1>3 DEF StepDown, Adopts, TellsHigherTerm, Pending
  <2> QED BY <1>2, <1>3, <2>1 DEF StepDown, histVars, TypeOK, LEADER, FOLLOWER
<1>4. ASSUME NEW c \in calls, Established(c) PROVE NamedInv'
  <2>1. c.from \in Server /\ task[c.from].phase = "leading"
    BY <1>4 DEF Established, Listening
  <2> QED BY <1>2, <1>4, <2>1 DEF Established, nodeVars, histVars, TypeOK
<1>5. ASSUME NEW c \in calls, ChannelPanic(c) PROVE NamedInv'
  BY <1>5, ExitNamed DEF ChannelPanic, Listening
<1>6. ASSUME NEW c \in calls, CountAck(c) PROVE NamedInv'
  <2>1. c.from \in Server /\ task[c.from].phase = "leading"
    BY <1>6 DEF CountAck, Listening
  <2>2. \A r \in Server : task'[r].phase # "idle" => task[r].phase # "idle"
    BY <1>6, <2>1 DEF CountAck, TypeOK
  <2>3. \A r \in Server : state'[r] = LEADER => state[r] = LEADER
    BY <1>6, <2>1 DEF CountAck, TypeOK, LEADER, FOLLOWER
  <2> QED BY <1>2, <1>6, <2>1, <2>2, <2>3 DEF CountAck, histVars
<1>7. ASSUME NEW s \in Server, NEW st, st = state[s] \/ st = FOLLOWER,
             CountFailure(s, st), task[s].phase = "leading"
      PROVE  /\ \A r \in Server : task'[r].phase # "idle" => task[r].phase # "idle"
             /\ \A r \in Server : state'[r] = LEADER => state[r] = LEADER
  BY <1>7 DEF CountFailure, TypeOK, LEADER, FOLLOWER
<1>8. ASSUME NEW c \in calls, TermOvertaken(c) PROVE NamedInv'
  <2>1. c.from \in Server
    BY <1>0, <1>8 DEF TermOvertaken, Adopts, TellsHigherTerm, Pending
  <2>2. /\ \A r \in Server : task'[r].phase # "idle" => task[r].phase # "idle"
        /\ \A r \in Server : state'[r] = LEADER => state[r] = LEADER
    <3>1. CASE Listening(c, "leading")
      BY <1>7, <1>8, <2>1, <3>1 DEF TermOvertaken, Listening
    <3>2. CASE ~Listening(c, "leading")
      BY <1>8, <2>1, <3>2 DEF TermOvertaken, TypeOK, LEADER, FOLLOWER
    <3> QED BY <3>1, <3>2
  <2> QED BY <1>2, <1>8, <2>1, <2>2 DEF TermOvertaken, histVars
<1>9. ASSUME NEW c \in calls, TermGiveUp(c) PROVE NamedInv'
  <2>1. c.from \in Server
    BY <1>9 DEF TermGiveUp, TermFailed
  <2>2. /\ \A r \in Server : task'[r].phase # "idle" => task[r].phase # "idle"
        /\ \A r \in Server : state'[r] = LEADER => state[r] = LEADER
    BY <1>7, <1>9, <2>1 DEF TermGiveUp, Listening
  <2> QED BY <1>2, <1>9, <2>1, <2>2 DEF TermGiveUp, histVars
<1>10. ASSUME NEW c \in calls, TermRetry(c) PROVE NamedInv'
  <2>1. /\ UNCHANGED <<up, leaderAddr, state, task, round>>
        /\ c.from \in Server /\ c.kind = "term"
    BY <1>10 DEF TermRetry, TermFailed, nodeVars, histVars
  <2>2. Asked' = Asked
    BY <2>1 DEF Asked
  <2>3. ASSUME NEW d \in calls' \ calls
        PROVE  d.id = leaderAddr[c.from] /\ d.from = c.from /\ d.status = "open"
    BY <1>10, <2>3 DEF TermRetry, NewCall
  <2>4. leaderAddr[c.from] \in Asked
    BY <1>0, <2>1
  <2> QED BY <1>0, <2>1, <2>2, <2>3, <2>4, KeepNamed
<1>11. ASSUME NEW c \in calls, SeeHigherTerm(c) PROVE NamedInv'
  <2>1. UNCHANGED <<up, leaderAddr, state, task, round>> /\ c.from \in Server
    BY <1>11 DEF SeeHigherTerm, TellsHigherTerm, nodeVars, histVars
  <2>2. Asked' = Asked
    BY <2>1 DEF Asked
  <2>3. ASSUME NEW d \in calls' \ calls
        PROVE  d.id = c.id /\ d.from = c.from /\ d.kind = c.kind
    <3>1. d = [c EXCEPT !.status = "seen"]
      BY <1>11, <2>3 DEF SeeHigherTerm
    <3> QED BY <3>1 DEF TypeOK, Call
  <2>4. c.id \in Asked
    BY <1>0
  <2> QED BY <1>0, <2>1, <2>2, <2>3, <2>4, KeepNamed
<1> QED BY <1>1, <1>3, <1>4, <1>5, <1>6, <1>8, <1>9, <1>10, <1>11

LEMMA ProcessNamed ==
    ASSUME TypeOK, NamedInv
    PROVE  /\ \A s \in Server : Crash(s) \/ Boot(s) => NamedInv'
           /\ \A c \in calls : CallerDies(c) => NamedInv'
<1>1. ASSUME NEW s \in Server, Crash(s) PROVE NamedInv'
  BY <1>1, ExitNamed DEF Crash
<1>2. ASSUME NEW s \in Server, Boot(s) PROVE NamedInv'
  <2>1. UNCHANGED <<nodeVars, task, calls, round>> /\ up' = [up EXCEPT ![s] = TRUE]
    BY <1>2 DEF Boot, histVars
  <2>2. Asked' = Asked
    BY <2>1 DEF Asked
  <2> QED BY <2>1, <2>2, KeepNamed DEF nodeVars, TypeOK, NamedInv, RunsOrIdle
<1>3. ASSUME NEW c \in calls, CallerDies(c) PROVE NamedInv'
  BY <1>3, ExitNamed DEF CallerDies
<1> QED BY <1>1, <1>2, <1>3

LEMMA StepNamed == TypeOK /\ NamedInv /\ [Next]_vars => NamedInv'
<1> SUFFICES ASSUME TypeOK, NamedInv, [Next]_vars PROVE NamedInv'
  OBVIOUS
<1>1. CASE UNCHANGED vars
  BY <1>1 DEF vars, nodeVars, histVars, NamedInv, RunsOrIdle, CallsAreOwned, Asked, Pending
<1>2. CASE Next
  BY <1>2, ElectionTaskNamed, HandlerNamed, LeaderNamed, ProcessNamed DEF Next, Answer, NoAnswer
<1> QED BY <1>1, <1>2

THEOREM ElectionNamesWhoAsked == Spec => []NamedInv
<1>1. Init => NamedInv
  BY DEF Init, NamedInv, RunsOrIdle, CallsAreOwned, Asked, Idle, LEADER, FOLLOWER
<1> QED BY <1>1, StepNamed, ElectionTypeCorrect, PTL DEF Spec

-----------------------------------------------------------------------------
(* The refinement. *)

LEMMA InitRoles == Init => Seen!Fresh
BY DEF Init, Seen!Fresh, FOLLOWER

\* The states and addresses of all servers but one stay, and it makes a step of
\* Roles, or none.
Turns(s) == Seen!Turn(s) \/ Seen!Stop(s) \/ Seen!Start(s) \/ UNCHANGED Seen!roles

LEMMA ElectionTaskRoles ==
    ASSUME TypeOK, NamedInv
    PROVE  /\ \A s \in Server : StartElection(s) \/ AbortElection(s) => Turns(s)
           /\ \A c \in calls : StandDown(c) \/ CountVote(c) \/ Win(c) \/ HearRefusal(c)
                               \/ VoteUnreachable(c) \/ DropCall(c) \/ DropAnswer(c)
                               => \E s \in Server : Turns(s)
<1>1. ASSUME NEW s \in Server, StartElection(s) PROVE Seen!Campaign(s)
  <2>1. /\ up[s] /\ state[s] # LEADER /\ UNCHANGED <<up, leaderAddr>>
        /\ round' = [round EXCEPT ![s] = @ + 1]
        /\ state' = [state EXCEPT ![s] = CANDIDATE]
    BY <1>1 DEF StartElection, MayCampaign
  <2>2. Asked' = Asked \cup {s}
    BY <2>1 DEF Asked, TypeOK
  <2> QED BY <2>1, <2>2 DEF Seen!Campaign, Asked, LEADER, CANDIDATE
<1>2. ASSUME NEW s \in Server, AbortElection(s) PROVE Seen!Campaign(s)
  BY <1>2 DEF AbortElection, MayCampaign, Seen!Campaign, histVars, LEADER, CANDIDATE
<1>3. ASSUME NEW c \in calls, Win(c) PROVE c.from \in Server /\ Seen!Lead(c.from)
  <2>1. c.from \in Server /\ up[c.from] /\ c.from \in Asked
    BY <1>3 DEF Win, Listening, NamedInv, RunsOrIdle
  <2> QED BY <1>3, <2>1 DEF Win, Seen!Lead, Asked, LEADER, FOLLOWER
<1>4. ASSUME NEW c \in calls,
             \/ StandDown(c) \/ CountVote(c) \/ HearRefusal(c)
             \/ VoteUnreachable(c) \/ DropCall(c) \/ DropAnswer(c)
      PROVE  UNCHANGED Seen!roles /\ \E s \in Server : TRUE
  <2>1. UNCHANGED <<up, state, leaderAddr, round>>
    BY <1>4 DEF StandDown, CountVote, HearRefusal, VoteUnreachable, DropCall, DropAnswer,
                nodeVars, histVars
  <2> QED BY <2>1 DEF Seen!roles, TypeOK, Call
<1> QED BY <1>1, <1>2, <1>3, <1>4 DEF Turns, Seen!Turn

LEMMA HandlerRoles ==
    ASSUME TypeOK, NamedInv, NEW c \in calls, Handle(c)
    PROVE  \E s \in Server : Turns(s)
<1>1. c.to \in Server /\ c.id \in Asked
  BY DEF TypeOK, Call, NamedInv, CallsAreOwned
<1>2. CASE CheckVote(c) \/ RefuseVote(c) \/ AcceptOvertaken(c) \/ RejectAppend(c)
  <2>1. UNCHANGED <<up, state, leaderAddr, round>>
    BY <1>2 DEF CheckVote, RefuseVote, AcceptOvertaken, RejectAppend, nodeVars, histVars
  <2> QED BY <1>1, <2>1 DEF Turns, Seen!roles
<1>3. CASE GrantVote(c) \/ AcceptAppend(c)
  <2>1. /\ up[c.to] /\ UNCHANGED <<up, round>>
        /\ state' = [state EXCEPT ![c.to] = FOLLOWER]
        /\ UNCHANGED leaderAddr \/ leaderAddr' = [leaderAddr EXCEPT ![c.to] = c.id]
    BY <1>3 DEF GrantVote, AcceptAppend, histVars
  <2>2. Seen!Follow(c.to, c.id) \/ Seen!Retire(c.to)
    BY <1>1, <2>1 DEF Seen!Follow, Seen!Retire, Asked, FOLLOWER
  <2> QED BY <1>1, <2>2 DEF Turns, Seen!Turn, Asked
<1>4. CASE CheckAppend(c)
  <2>1. Seen!Name(c.to, c.id)
    BY <1>1, <1>4 DEF CheckAppend, histVars, Seen!Name, Asked
  <2> QED BY <1>1, <2>1 DEF Turns, Seen!Turn, Asked
<1> QED BY <1>2, <1>3, <1>4 DEF Handle

LEMMA LeaderRoles ==
    ASSUME TypeOK, NamedInv
    PROVE  /\ \A s \in Server : \A p \in Peers(s) : HeartBeat(s, p) => Turns(s)
           /\ \A c \in calls : StepDown(c) \/ Established(c) \/ CountAck(c)
                               \/ TermOvertaken(c) \/ TermRetry(c) \/ TermGiveUp(c)
                               \/ SeeHigherTerm(c)
                               => \E s \in Server : Turns(s)
<1>1. ASSUME NEW s \in Server, NEW p \in Peers(s), HeartBeat(s, p) PROVE Turns(s)
  BY <1>1 DEF HeartBeat, nodeVars, histVars, Turns, Seen!roles
<1>2. ASSUME NEW s \in Server, up[s], UNCHANGED <<up, leaderAddr, round>>,
             state' = state \/ state' = [state EXCEPT ![s] = FOLLOWER]
      PROVE  Turns(s)
  BY <1>2 DEF Turns, Seen!Turn, Seen!Retire, Seen!roles, FOLLOWER
<1>3. \A c \in calls : c.from \in Server => up[c.from]
  BY DEF NamedInv, CallsAreOwned
<1>4. ASSUME NEW c \in calls, StepDown(c) \/ Established(c) \/ CountAck(c)
      PROVE  \E s \in Server : Turns(s)
  <2>1. c.from \in Server
    BY <1>4 DEF StepDown, Adopts, TellsHigherTerm, Established, CountAck, Listening,
                NamedInv, CallsAreOwned, Pending
  <2>2. /\ UNCHANGED <<up, leaderAddr, round>>
        /\ state' = state \/ state' = [state EXCEPT ![c.from] = FOLLOWER]
    BY <1>4 DEF StepDown, Established, CountAck, nodeVars, histVars
  <2> QED BY <1>2, <1>3, <2>1, <2>2
<1>5. ASSUME NEW s \in Server, NEW st, st = state[s] \/ st = FOLLOWER, CountFailure(s, st)
      PROVE  state' = state \/ state' = [state EXCEPT ![s] = FOLLOWER]
  BY <1>5 DEF CountFailure, TypeOK
<1>6. ASSUME NEW c \in calls, TermOvertaken(c) PROVE \E s \in Server : Turns(s)
  <2>1. c.from \in Server
    BY <1>6 DEF TermOvertaken, Adopts, TellsHigherTerm, NamedInv, CallsAreOwned, Pending
  <2>2. state' = state \/ state' = [state EXCEPT ![c.from] = FOLLOWER]
    BY <1>5, <1>6, <2>1 DEF TermOvertaken
  <2> QED BY <1>2, <1>3, <1>6, <2>1, <2>2 DEF TermOvertaken, histVars
<1>7. ASSUME NEW c \in calls, TermRetry(c) \/ TermGiveUp(c) PROVE \E s \in Server : Turns(s)
  <2>1. c.from \in Server
    BY <1>7 DEF TermRetry, TermGiveUp, TermFailed
  <2>2. state' = state \/ state' = [state EXCEPT ![c.from] = FOLLOWER]
    BY <1>5, <1>7, <2>1 DEF TermRetry, TermGiveUp, nodeVars
  <2> QED BY <1>2, <1>3, <1>7, <2>1, <2>2 DEF TermRetry, TermGiveUp, nodeVars, histVars
<1>8. ASSUME NEW c \in calls, SeeHigherTerm(c) PROVE \E s \in Server : Turns(s)
  BY <1>8 DEF SeeHigherTerm, TellsHigherTerm, nodeVars, histVars, Turns, Seen!roles
<1> QED BY <1>1, <1>4, <1>6, <1>7, <1>8

LEMMA ProcessRoles ==
    ASSUME TypeOK, NamedInv
    PROVE  /\ \A s \in Server : Crash(s) \/ Boot(s) => Turns(s)
           /\ \A c \in calls : ChannelPanic(c) \/ CallerDies(c) => \E s \in Server : Turns(s)
<1>1. ASSUME NEW s \in Server, up[s], Exit(s) PROVE Turns(s)
  BY <1>1 DEF Exit, histVars, Turns, Seen!Stop, FOLLOWER
<1>2. ASSUME NEW s \in Server, Boot(s) PROVE Turns(s)
  BY <1>2 DEF Boot, nodeVars, histVars, Turns, Seen!Start
<1>3. ASSUME NEW c \in calls, ChannelPanic(c) \/ CallerDies(c)
      PROVE  c.from \in Server /\ up[c.from] /\ Exit(c.from)
  BY <1>3 DEF ChannelPanic, CallerDies, Listening, NamedInv, CallsAreOwned
<1> QED BY <1>1, <1>2, <1>3 DEF Crash

\* The roles of Election change as those of module Roles, on which ClientPath
\* is built.
THEOREM ElectionImplementsRoles == Spec => RolesSpec
<1>1. TypeOK /\ NamedInv /\ [Next]_vars => [Seen!RolesNext]_(Seen!roles)
  <2> SUFFICES ASSUME TypeOK, NamedInv, [Next]_vars
               PROVE  UNCHANGED Seen!roles \/ \E s \in Server : Turns(s)
    BY DEF Turns, Seen!RolesNext
  <2>1. CASE UNCHANGED vars
    BY <2>1 DEF vars, nodeVars, histVars, Seen!roles
  <2>2. CASE Next
    BY <2>2, ElectionTaskRoles, HandlerRoles, LeaderRoles, ProcessRoles DEF Next, Answer, NoAnswer
  <2> QED BY <2>1, <2>2
<1> QED
  BY <1>1, InitRoles, ElectionTypeCorrect, ElectionNamesWhoAsked, PTL
     DEF Spec, RolesSpec, Seen!RolesSpec
=============================================================================
