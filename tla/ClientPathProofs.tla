--------------------------- MODULE ClientPathProofs ---------------------------
(***************************************************************************)
(* ClientPath: type correctness, a call of a client takes effect at most   *)
(* once, success is told of what a leader applied, and what a client was   *)
(* refused directly is in no leader's state machine.                       *)
(***************************************************************************)
EXTENDS ClientPath, SequenceTheorems, TLAPS

\* Every handler but the last waits for the next one.
OthersWait(c) == \A i \in 1..Depth(c) - 1 : chain[c][i].phase = "waiting"

\* On the way, a request was redirected when more than one handler has it, or
\* the only one is back from its redirection.
OnItsWay(c) ==
    chain[c] # <<>> =>
        /\ c \in passed <=> Depth(c) > 1 \/ Top(c).phase = "waiting"
        /\ Top(c).phase \in {"open", "following"} => applied[c] = 0 /\ kept[c] = 0
        /\ Top(c).phase = "serving" => applied[c] = 0 /\ (Top(c).live => kept[c] = 0)
        /\ Top(c).phase = "applied" => applied[c] = 1

\* At its client, it did not begin, or what it is answered is what happened.
AtItsClient(c) ==
    chain[c] = <<>> =>
        /\ reply[c] \in {"none", "nil"} =>
              applied[c] = 0 /\ kept[c] = 0 /\ c \notin passed
        /\ reply[c] = "yes" => applied[c] = 1
        /\ reply[c] = "no" /\ applied[c] > 0 => c \in passed

\* What the client makes of its request is the answer it was handed.
ToldTheReply(c) ==
    /\ told[c] \in {"yes", "no"} =>
          chain[c] = <<>> /\ (c \in unsent \/ told[c] = reply[c])
    /\ c \in unsent => told[c] = "yes"

Truthful(c) ==
    /\ OthersWait(c) /\ OnItsWay(c) /\ AtItsClient(c) /\ ToldTheReply(c)
    /\ applied[c] + kept[c] <= 1

PathInv == \A c \in Client : Truthful(c)

-----------------------------------------------------------------------------
(* The handlers on the way of a request. *)

Phase == {"open", "following", "waiting", "serving", "applied"}

LEMMA ChainFacts ==
    ASSUME TypeOK, NEW c \in Client
    PROVE  /\ chain[c] \in Seq(Frame) /\ Depth(c) \in Nat
           /\ \A i \in 1..Depth(c) : chain[c][i] \in Frame
           /\ chain[c] # <<>> => Depth(c) > 0 /\ Top(c) \in Frame
           /\ chain[c] = <<>> => Depth(c) = 0
<1>1. chain[c] \in Seq(Frame)
  BY DEF TypeOK
<1>2. /\ Depth(c) \in Nat /\ (chain[c] # <<>> => Depth(c) > 0)
      /\ (chain[c] = <<>> => Depth(c) = 0)
  BY <1>1, EmptySeq, LenProperties DEF Depth
<1>3. \A i \in 1..Depth(c) : chain[c][i] \in Frame
  BY <1>1, ElementOfSeq DEF Depth
<1> QED BY <1>1, <1>2, <1>3 DEF Top

LEMMA InPhaseFacts ==
    ASSUME TypeOK, NEW c \in Client, chain[c] # <<>>, NEW ph \in Phase
    PROVE  /\ InPhase(c, ph) \in Seq(Frame)
           /\ Len(InPhase(c, ph)) = Depth(c)
           /\ InPhase(c, ph) # <<>>
           /\ \A i \in 1..Depth(c) - 1 : InPhase(c, ph)[i] = chain[c][i]
           /\ InPhase(c, ph)[Depth(c)].phase = ph
<1> DEFINE e == [chain[c][Depth(c)] EXCEPT !.phase = ph]
<1>1. chain[c] \in Seq(Frame) /\ Depth(c) \in 1..Len(chain[c]) /\ Depth(c) \in Nat
  BY ChainFacts DEF Depth
<1>2. e \in Frame /\ e.phase = ph
  BY <1>1, ChainFacts DEF Frame, Phase, Depth
<1>3. InPhase(c, ph) = [chain[c] EXCEPT ![Depth(c)] = e]
  BY DEF InPhase
<1> HIDE DEF e
<1>4. /\ InPhase(c, ph) \in Seq(Frame) /\ Len(InPhase(c, ph)) = Len(chain[c])
      /\ \A j \in 1..Len(chain[c]) : InPhase(c, ph)[j] = IF j = Depth(c) THEN e ELSE chain[c][j]
  BY <1>1, <1>2, <1>3, ExceptSeq
<1>5. InPhase(c, ph) # <<>>
  BY <1>1, <1>4, EmptySeq DEF Depth
<1> QED BY <1>1, <1>2, <1>4, <1>5 DEF Depth

LEMMA BelowFacts ==
    ASSUME TypeOK, NEW c \in Client, chain[c] # <<>>
    PROVE  /\ Below(c) \in Seq(Frame)
           /\ Len(Below(c)) = Depth(c) - 1
           /\ Below(c) = <<>> <=> Depth(c) = 1
           /\ \A i \in 1..Depth(c) - 1 : Below(c)[i] = chain[c][i]
<1>1. Depth(c) \in Nat /\ Depth(c) > 0 /\ \A i \in 1..Depth(c) - 1 : chain[c][i] \in Frame
  BY ChainFacts
<1>2. /\ Below(c) \in Seq(Frame)
      /\ Len(Below(c)) = IF 1 <= Depth(c) - 1 THEN Depth(c) - 1 - 1 + 1 ELSE 0
      /\ \A i \in 1..Depth(c) - 1 - 1 + 1 : Below(c)[i] = chain[c][1 + i - 1]
  BY <1>1, SubSeqProperties DEF Below
<1>3. Len(Below(c)) = Depth(c) - 1
  BY <1>1, <1>2
<1>4. Below(c) = <<>> <=> Len(Below(c)) = 0
  BY <1>2, EmptySeq
<1>5. \A i \in 1..Depth(c) - 1 : Below(c)[i] = chain[c][i]
  BY <1>1, <1>2
<1> QED BY <1>1, <1>2, <1>3, <1>4, <1>5

LEMMA RedirectFacts ==
    ASSUME TypeOK, NEW c \in Client, chain[c] # <<>>, NEW s \in Server
    PROVE  LET f == Append(InPhase(c, "waiting"), Opened(s))
           IN  /\ f \in Seq(Frame)
               /\ f # <<>>
               /\ Len(f) = Depth(c) + 1
               /\ \A i \in 1..Depth(c) - 1 : f[i] = chain[c][i]
               /\ f[Depth(c)].phase = "waiting"
               /\ f[Depth(c) + 1].phase = "open"
<1> DEFINE g == InPhase(c, "waiting")
           e == Opened(s)
           f == Append(g, e)
<1>1. /\ g \in Seq(Frame) /\ Len(g) = Depth(c) /\ g[Depth(c)].phase = "waiting"
      /\ \A i \in 1..Depth(c) - 1 : g[i] = chain[c][i]
  BY InPhaseFacts DEF Phase
<1>2. e \in Frame /\ e.phase = "open"
  BY DEF Opened, Frame
<1>3. Depth(c) \in Nat /\ Depth(c) > 0
  BY ChainFacts
<1> HIDE DEF g, e
<1>4. /\ f \in Seq(Frame) /\ f # <<>> /\ Len(f) = Len(g) + 1
      /\ \A i \in 1..Len(g) : f[i] = g[i]
      /\ f[Len(g) + 1] = e
  BY <1>1, <1>2, AppendProperties
<1> HIDE DEF f
<1>5. f[Depth(c)] = g[Depth(c)] /\ f[Depth(c) + 1] = e
  BY <1>1, <1>3, <1>4
<1>6. \A i \in 1..Depth(c) - 1 : f[i] = chain[c][i]
  BY <1>1, <1>3, <1>4
<1> QED BY <1>1, <1>2, <1>4, <1>5, <1>6 DEF f, g, e

\* A process that ends leaves the handlers where they are.
LEMMA KillFacts ==
    ASSUME TypeOK, NEW s \in Server, Kill(s), NEW c \in Client
    PROVE  /\ chain'[c] \in Seq(Frame)
           /\ Len(chain'[c]) = Len(chain[c])
           /\ chain'[c] = <<>> <=> chain[c] = <<>>
           /\ \A i \in 1..Depth(c) :
                 /\ chain'[c][i].phase = chain[c][i].phase
                 /\ chain'[c][i].live = (chain[c][i].live /\ chain[c][i].at # s)
<1> DEFINE e(i) == IF chain[c][i].at = s THEN [chain[c][i] EXCEPT !.live = FALSE]
                   ELSE chain[c][i]
<1>1. /\ chain[c] \in Seq(Frame) /\ Depth(c) \in Nat /\ DOMAIN chain[c] = 1..Depth(c)
      /\ \A i \in 1..Depth(c) : chain[c][i] \in Frame
  BY ChainFacts, LenProperties DEF Depth
<1>2. chain'[c] = [i \in 1..Depth(c) |-> e(i)]
  BY <1>1 DEF Kill
<1>3. \A i \in 1..Depth(c) :
        /\ e(i) \in Frame /\ e(i).phase = chain[c][i].phase
        /\ e(i).live = (chain[c][i].live /\ chain[c][i].at # s)
  BY <1>1 DEF Frame
<1> HIDE DEF e
<1>4. chain'[c] \in [1..Depth(c) -> Frame]
  BY <1>2, <1>3
<1>5. chain'[c] \in Seq(Frame)
  BY <1>1, <1>4, SeqDef
<1>6. Len(chain'[c]) = Depth(c)
  BY <1>1, <1>4, <1>5, LenProperties
<1>7. chain'[c] = <<>> <=> chain[c] = <<>>
  BY <1>1, <1>5, <1>6, EmptySeq DEF Depth
<1> QED BY <1>2, <1>3, <1>5, <1>6, <1>7 DEF Depth

-----------------------------------------------------------------------------
(* Type correctness. *)

RolesType ==
    /\ up \in [Server -> BOOLEAN]
    /\ state \in [Server -> {"FOLLOWER", "CANDIDATE", "LEADER"}]
    /\ leaderAddr \in [Server -> Server \cup {Nobody}]
    /\ asked \subseteq Server

LEMMA RolesTypeStep ==
    ASSUME RolesType, NEW s \in Server, Turn(s) \/ Stop(s) \/ Start(s)
    PROVE  RolesType'
BY DEF RolesType, Turn, Stop, Start, Campaign, Lead, Follow, Name, Retire

LEMMA InitType == Init => TypeOK
<1> SUFFICES ASSUME Init PROVE TypeOK
  OBVIOUS
<1>1. 1 \in 1..Len(Addrs)
  BY ConstantAssumption, EmptySeq
<1>2. <<>> \in Seq(Frame)
  BY EmptySeq
<1> QED BY <1>1, <1>2 DEF Init, Fresh, TypeOK, Reply, Told

\* The client moves, or a handler gives its reply; the roles are as they were.
LEMMA ClientType ==
    ASSUME TypeOK, NEW c \in Client, AskStep(c)
    PROVE  TypeOK'
<1> USE DEF env, roles
<1>1. CASE Ask(c)
  <2>1. Addrs[next[c]] \in Server
    BY ConstantAssumption, ElementOfSeq DEF TypeOK
  <2>2. <<Opened(Addrs[next[c]])>> \in Seq(Frame)
    BY <2>1 DEF Opened, Frame
  <2>3. "nil" \in Reply
    BY DEF Reply
  <2> QED BY <1>1, <2>2, <2>3 DEF Ask, TypeOK
<1>2. CASE NextAddr(c)
  <2>1. next[c] \in 1..Len(Addrs) /\ next[c] # Len(Addrs) /\ Len(Addrs) \in Nat
    BY <1>2, ConstantAssumption, LenProperties DEF NextAddr, LastAddr, TypeOK
  <2>2. next[c] + 1 \in 1..Len(Addrs)
    BY <2>1
  <2> QED BY <1>2, <2>2 DEF NextAddr, TypeOK, Reply
<1>3. CASE GiveUp(c)
  BY <1>3 DEF GiveUp, TypeOK, Told
<1>4. CASE Receive(c)
  BY <1>4 DEF Receive, TypeOK, Told, Reply
<1>5. CASE ClientDies(c)
  BY <1>5 DEF ClientDies, TypeOK, Told
<1> QED BY <1>1, <1>2, <1>3, <1>4, <1>5 DEF AskStep

\* What a handler does to the way of its request.
HandlerMoves(c) ==
    \/ Serve(c) \/ NotLeader(c) \/ Redirect(c) \/ RedirectFails(c)
    \/ Apply(c) \/ Confirm(c) \/ Refuse(c) \/ Overwrite(c) \/ AnswerLost(c)

LEMMA HandlerType ==
    ASSUME TypeOK, NEW c \in Client, HandlerMoves(c)
    PROVE  TypeOK'
<1> USE DEF env, roles
<1>1. chain[c] # <<>>
  BY DEF HandlerMoves, Serve, NotLeader, Redirect, RedirectFails, Apply, Confirm, Refuse,
         Overwrite, AnswerLost, AtTop
<1>2. \A ph \in Phase : InPhase(c, ph) \in Seq(Frame)
  BY <1>1, InPhaseFacts
<1>3. Below(c) \in Seq(Frame) /\ Top(c) \in Frame
  BY <1>1, BelowFacts, ChainFacts
<1>4. {"yes", "no", "none"} \subseteq Reply
  BY DEF Reply
<1>5. CASE Serve(c) \/ NotLeader(c) \/ Apply(c)
  <2>1. \E ph \in Phase : chain' = [chain EXCEPT ![c] = InPhase(c, ph)]
    BY <1>5 DEF Serve, NotLeader, Apply, Phase
  <2>2. chain' \in [Client -> Seq(Frame)]
    BY <1>2, <2>1 DEF TypeOK
  <2>3. applied' \in [Client -> Nat] /\ kept' \in [Client -> Nat]
    <3>1. /\ UNCHANGED applied \/ applied' = [applied EXCEPT ![c] = @ + 1]
          /\ UNCHANGED kept
      BY <1>5 DEF Serve, NotLeader, Apply
    <3>2. applied \in [Client -> Nat] /\ kept \in [Client -> Nat]
      BY DEF TypeOK
    <3> QED BY <3>1, <3>2
  <2> QED BY <1>5, <2>2, <2>3 DEF Serve, NotLeader, Apply, TypeOK
<1>6. CASE Redirect(c)
  <2>1. leaderAddr[Top(c).at] \in Server
    BY <1>3, <1>6 DEF Redirect, Reaches, TypeOK, Frame
  <2>2. Append(InPhase(c, "waiting"), Opened(leaderAddr[Top(c).at])) \in Seq(Frame)
    BY <1>1, <2>1, RedirectFacts
  <2> QED BY <1>6, <2>2 DEF Redirect, TypeOK
<1>7. CASE RedirectFails(c) \/ Confirm(c) \/ Refuse(c) \/ Overwrite(c)
  <2>1. kept' \in [Client -> Nat]
    <3>1. UNCHANGED kept \/ kept' = [kept EXCEPT ![c] = @ + 1]
      BY <1>7 DEF RedirectFails, Confirm, Refuse, Overwrite, PeersMayKeep
    <3>2. kept \in [Client -> Nat]
      BY DEF TypeOK
    <3> QED BY <3>1, <3>2
  <2>2. /\ chain' = [chain EXCEPT ![c] = Below(c)]
        /\ \E answer \in Reply : reply' = [reply EXCEPT ![c] = answer]
        /\ UNCHANGED <<env, next, told, applied, passed, unsent>>
    BY <1>4, <1>7
       DEF RedirectFails, Confirm, Refuse, Overwrite, AnswerForNobody, LeaderReply,
           FailureReply, Pop
  <2> QED BY <1>3, <2>1, <2>2 DEF TypeOK
<1>8. CASE AnswerLost(c)
  BY <1>4, <1>8 DEF AnswerLost, TypeOK
<1> QED BY <1>5, <1>6, <1>7, <1>8 DEF HandlerMoves

\* A process that ends: a crash, or the end of a caller whose call broke.
Ends(s) == Kill(s) /\ stops' \in Nat

LEMMA EndsWhere ==
    ASSUME TypeOK,
           \/ \E s \in Server : Crash(s)
           \/ \E c \in Client : \E i \in 1..MaxHops : CallerDies(c, i)
    PROVE  \E s \in Server : Ends(s)
<1>1. CASE \E s \in Server : Crash(s)
  BY <1>1 DEF Crash, Ends, TypeOK
<1>2. ASSUME NEW c \in Client, NEW i \in 1..MaxHops, CallerDies(c, i)
      PROVE  \E s \in Server : Ends(s)
  <2>1. i \in 1..Depth(c)
    BY <1>2, ChainFacts DEF CallerDies
  <2>2. chain[c][i].at \in Server
    BY <2>1, ChainFacts DEF Frame
  <2> QED BY <1>2, <2>2 DEF CallerDies, Ends, TypeOK
<1> QED BY <1>1, <1>2

LEMMA EndsType ==
    ASSUME TypeOK, NEW s \in Server, Ends(s)
    PROVE  TypeOK'
<1>1. RolesType'
  BY RolesTypeStep DEF Ends, Kill, TypeOK, RolesType
<1>2. chain' \in [Client -> Seq(Frame)]
  <2>1. \A c \in Client : chain'[c] \in Seq(Frame)
    BY KillFacts DEF Ends
  <2>2. chain' = [c \in Client |-> chain'[c]]
    BY DEF Ends, Kill
  <2> QED BY <2>1, <2>2
<1>3. kept' \in [Client -> Nat]
  BY DEF Ends, Kill, TypeOK
<1> QED BY <1>1, <1>2, <1>3 DEF Ends, Kill, TypeOK, RolesType

LEMMA StepSplit ==
    ASSUME TypeOK, [Next]_vars
    PROVE  \/ UNCHANGED vars
           \/ \E c \in Client : AskStep(c)
           \/ \E c \in Client : HandlerMoves(c)
           \/ \E s \in Server : Ends(s)
           \/ \E s \in Server : TurnRoles(s) \/ Boot(s)
<1>1. CASE UNCHANGED vars
  BY <1>1
<1>2. CASE \E c \in Client : AskStep(c) \/ HandlerStep(c)
  BY <1>2, EndsWhere DEF HandlerStep, HandlerMoves
<1>3. CASE \E s \in Server : TurnRoles(s) \/ Crash(s) \/ Boot(s)
  BY <1>3, EndsWhere
<1> QED BY <1>1, <1>2, <1>3 DEF Next

LEMMA StepType == TypeOK /\ [Next]_vars => TypeOK'
<1> SUFFICES ASSUME TypeOK, [Next]_vars PROVE TypeOK'
  OBVIOUS
<1>1. CASE UNCHANGED vars
  BY <1>1 DEF vars, env, path, roles, TypeOK
<1>2. CASE \E c \in Client : AskStep(c) \/ HandlerMoves(c)
  BY <1>2, ClientType, HandlerType
<1>3. CASE \E s \in Server : Ends(s)
  BY <1>3, EndsType
<1>4. CASE \E s \in Server : TurnRoles(s) \/ Boot(s)
  <2>1. RolesType'
    BY <1>4, RolesTypeStep DEF TurnRoles, Boot, TypeOK, RolesType
  <2>2. turns' \in Nat /\ UNCHANGED <<stops, looping, path>>
    BY <1>4 DEF TurnRoles, Boot, TypeOK
  <2> QED BY <2>1, <2>2 DEF path, TypeOK, RolesType
<1> QED BY <1>1, <1>2, <1>3, <1>4, StepSplit

\* The way of a request through the servers is as ClientPath declares it, for
\* any servers, clients, lists of addresses and bounds.
THEOREM ClientPathTypeCorrect == Spec => []TypeOK
<1>1. Init => TypeOK
  BY InitType
<1>2. TypeOK /\ [Next]_vars => TypeOK'
  BY StepType
<1> QED BY <1>1, <1>2, PTL DEF Spec

-----------------------------------------------------------------------------
(* What is told is what happened. *)

\* Nothing of a request changes but who of its handlers still runs, and what
\* the peers of the one that served it and ends may keep of it.
LEMMA StaysTruthful ==
    ASSUME TypeOK, NEW c \in Client, Truthful(c),
           Len(chain'[c]) = Len(chain[c]), chain'[c] = <<>> <=> chain[c] = <<>>,
           \A i \in 1..Depth(c) :
              /\ chain'[c][i].phase = chain[c][i].phase
              /\ chain'[c][i].live => chain[c][i].live,
           reply'[c] = reply[c], told'[c] = told[c], applied'[c] = applied[c],
           \/ kept'[c] = kept[c]
           \/ AtTop(c, "serving") /\ ~chain'[c][Depth(c)].live /\ kept'[c] = kept[c] + 1,
           (c \in passed') <=> (c \in passed), (c \in unsent') <=> (c \in unsent)
    PROVE  Truthful(c)'
<1>1. Depth(c) \in Nat /\ (chain[c] # <<>> => Depth(c) > 0) /\ Depth(c)' = Depth(c)
  BY ChainFacts DEF Depth
<1>2. chain[c] # <<>> =>
        Top(c)'.phase = Top(c).phase /\ (Top(c)'.live => Top(c).live)
  BY <1>1 DEF Top
<1>3. OthersWait(c)'
  <2>1. \A i \in 1..Depth(c) - 1 : chain[c][i].phase = "waiting"
    BY DEF Truthful, OthersWait
  <2>2. \A i \in 1..Depth(c) - 1 : chain'[c][i].phase = "waiting"
    BY <1>1, <2>1
  <2> QED BY <1>1, <2>2 DEF OthersWait
<1>4. CASE kept'[c] = kept[c]
  BY <1>1, <1>2, <1>3, <1>4 DEF Truthful, OnItsWay, AtItsClient, ToldTheReply
<1>5. CASE AtTop(c, "serving") /\ ~chain'[c][Depth(c)].live /\ kept'[c] = kept[c] + 1
  <2>1. /\ chain[c] # <<>> /\ Top(c).phase = "serving" /\ ~Top(c)'.live
        /\ kept[c] = 0 /\ applied[c] = 0
    BY <1>1, <1>5 DEF AtTop, Top, Truthful, OnItsWay
  <2> QED BY <1>1, <1>2, <1>3, <1>5, <2>1
          DEF Truthful, OnItsWay, AtItsClient, ToldTheReply
<1> QED BY <1>4, <1>5

\* The request of another client.
LEMMA OtherTruthful ==
    ASSUME TypeOK, PathInv, NEW c \in Client, AskStep(c) \/ HandlerMoves(c),
           NEW b \in Client \ {c}
    PROVE  Truthful(b)'
<1>1. /\ chain \in [Client -> Seq(Frame)] /\ reply \in [Client -> Reply]
      /\ told \in [Client -> Told] /\ applied \in [Client -> Nat]
      /\ kept \in [Client -> Nat]
  BY DEF TypeOK
<1>2. CASE AskStep(c)
  <2>1. chain'[b] = chain[b] /\ reply'[b] = reply[b]
    BY <1>1, <1>2 DEF AskStep, Ask, NextAddr, GiveUp, Receive, ClientDies
  <2>2. told'[b] = told[b] /\ UNCHANGED <<applied, kept, passed>>
    BY <1>1, <1>2 DEF AskStep, Ask, NextAddr, GiveUp, Receive, ClientDies
  <2>3. b \in unsent' <=> b \in unsent
    BY <1>2 DEF AskStep, Ask, NextAddr, GiveUp, Receive, ClientDies
  <2> QED BY <2>1, <2>2, <2>3, StaysTruthful DEF PathInv
<1>3. CASE HandlerMoves(c)
  <2>1. CASE Serve(c) \/ NotLeader(c) \/ Redirect(c) \/ Apply(c)
    <3>1. chain'[b] = chain[b] /\ UNCHANGED <<reply, told, kept, unsent>>
      BY <1>1, <2>1 DEF Serve, NotLeader, Redirect, Apply
    <3>2. applied'[b] = applied[b] /\ (b \in passed' <=> b \in passed)
      BY <1>1, <2>1 DEF Serve, NotLeader, Redirect, Apply
    <3> QED BY <3>1, <3>2, StaysTruthful DEF PathInv
  <2>2. CASE RedirectFails(c) \/ Confirm(c) \/ Refuse(c) \/ Overwrite(c) \/ AnswerLost(c)
    <3>1. chain'[b] = chain[b] /\ reply'[b] = reply[b]
      BY <1>1, <2>2 DEF RedirectFails, Confirm, Refuse, Overwrite, AnswerLost,
                        AnswerForNobody, Pop
    <3>2. UNCHANGED <<told, applied, passed, unsent>> /\ kept'[b] = kept[b]
      BY <1>1, <2>2 DEF RedirectFails, Confirm, Refuse, Overwrite, AnswerLost, PeersMayKeep
    <3> QED BY <3>1, <3>2, StaysTruthful DEF PathInv
  <2> QED BY <1>3, <2>1, <2>2 DEF HandlerMoves
<1> QED BY <1>2, <1>3

LEMMA ClientTruthful ==
    ASSUME TypeOK, PathInv, NEW c \in Client, AskStep(c)
    PROVE  Truthful(c)'
<1>1. Truthful(c)
  BY DEF PathInv
<1>2. CASE Ask(c)
  <2> DEFINE o == <<Opened(Addrs[next[c]])>>
  <2>1. /\ told[c] = "asking" /\ chain[c] = <<>> /\ reply[c] = "none"
        /\ UNCHANGED <<told, applied, kept, passed, unsent>>
        /\ \/ chain'[c] = o
           \/ chain'[c] = <<>> /\ reply'[c] = "nil"
    BY <1>2 DEF Ask, Asking, TypeOK
  <2>2. applied[c] = 0 /\ kept[c] = 0 /\ c \notin passed
    BY <1>1, <2>1 DEF Truthful, AtItsClient
  <2>3. Len(o) = 1 /\ o # <<>> /\ o[1].phase = "open"
    BY DEF Opened
  <2> HIDE DEF o
  <2>4. CASE chain'[c] = o
    <3>1. Depth(c)' = 1 /\ Top(c)'.phase = "open" /\ chain'[c] # <<>>
      BY <2>3, <2>4 DEF Depth, Top
    <3>2. OthersWait(c)'
      BY <3>1 DEF OthersWait
    <3> QED BY <1>1, <2>1, <2>2, <3>1, <3>2 DEF Truthful, OnItsWay, AtItsClient, ToldTheReply
  <2>5. CASE chain'[c] = <<>> /\ reply'[c] = "nil"
    <3>1. OthersWait(c)'
      BY <2>5, EmptySeq DEF OthersWait, Depth
    <3> QED BY <1>1, <2>1, <2>2, <2>5, <3>1
            DEF Truthful, OnItsWay, AtItsClient, ToldTheReply
  <2> QED BY <2>1, <2>4, <2>5
<1>3. CASE NextAddr(c) \/ GiveUp(c) \/ Receive(c)
  <2>1. /\ told[c] = "asking" /\ chain[c] = <<>> /\ chain'[c] = <<>>
        /\ applied'[c] = applied[c] /\ UNCHANGED <<kept, passed>>
        /\ \/ /\ reply[c] = "nil" /\ reply'[c] = "none" /\ UNCHANGED <<told, unsent>>
           \/ /\ told'[c] = "yes" /\ c \in unsent' /\ UNCHANGED reply
           \/ /\ told'[c] \in {"dead", reply[c]} /\ UNCHANGED <<reply, unsent>>
    BY <1>3 DEF NextAddr, GiveUp, Receive, Asking, GoesOn, TypeOK
  <2>2. OthersWait(c)'
    BY <2>1, EmptySeq DEF OthersWait, Depth
  <2> QED BY <1>1, <2>1, <2>2 DEF Truthful, OnItsWay, AtItsClient, ToldTheReply
<1>4. CASE ClientDies(c)
  <2>1. /\ told[c] = "asking" /\ told'[c] = "dead"
        /\ UNCHANGED <<chain, reply, applied, kept, passed, unsent>>
    BY <1>4 DEF ClientDies, TypeOK
  <2> QED BY <1>1, <2>1
          DEF Truthful, OthersWait, OnItsWay, AtItsClient, ToldTheReply, Depth, Top
<1> QED BY <1>2, <1>3, <1>4 DEF AskStep

\* The last handler goes on, and keeps the request.
LEMMA PhaseTruthful ==
    ASSUME TypeOK, PathInv, NEW c \in Client, Serve(c) \/ NotLeader(c) \/ Apply(c)
    PROVE  Truthful(c)'
<1>1. Truthful(c) /\ chain[c] # <<>>
  BY DEF PathInv, Serve, NotLeader, Apply, AtTop
<1>2. PICK ph \in Phase :
        /\ chain'[c] = InPhase(c, ph) /\ UNCHANGED <<reply, told, kept, passed, unsent>>
        /\ \/ Top(c).phase = "open" /\ ph \in {"serving", "following"} /\ applied'[c] = applied[c]
           \/ /\ Top(c).phase = "serving" /\ Top(c).live
              /\ ph = "applied" /\ applied'[c] = applied[c] + 1
  BY DEF Serve, NotLeader, Apply, AtTop, Phase, TypeOK
<1>3. Depth(c)' = Depth(c) /\ Depth(c) \in Nat /\ Depth(c) > 0 /\ chain'[c] # <<>>
  BY <1>1, <1>2, InPhaseFacts, ChainFacts DEF Depth
<1>4. Top(c)'.phase = ph
  BY <1>1, <1>2, <1>3, InPhaseFacts DEF Top
<1>5. OthersWait(c)'
  BY <1>1, <1>2, <1>3, InPhaseFacts DEF Truthful, OthersWait
<1>6. c \in passed' <=> Depth(c)' > 1
  BY <1>1, <1>2, <1>3 DEF Truthful, OnItsWay
<1>7. applied[c] = 0 /\ kept[c] = 0
  BY <1>1, <1>2 DEF Truthful, OnItsWay
<1>8. OnItsWay(c)'
  BY <1>2, <1>4, <1>6, <1>7 DEF OnItsWay
<1>9. ToldTheReply(c)'
  BY <1>1, <1>2 DEF Truthful, ToldTheReply
<1> QED BY <1>2, <1>3, <1>5, <1>7, <1>8, <1>9 DEF Truthful, AtItsClient

LEMMA RedirectTruthful ==
    ASSUME TypeOK, PathInv, NEW c \in Client, Redirect(c)
    PROVE  Truthful(c)'
<1>1. Truthful(c) /\ chain[c] # <<>> /\ Top(c).phase = "following"
  BY DEF PathInv, Redirect, AtTop
<1>2. leaderAddr[Top(c).at] \in Server
  BY <1>1, ChainFacts DEF Redirect, Reaches, TypeOK, Frame
<1> DEFINE f == Append(InPhase(c, "waiting"), Opened(leaderAddr[Top(c).at]))
<1>3. /\ chain'[c] = f
      /\ c \in passed' /\ UNCHANGED <<reply, told, applied, kept, unsent>>
  BY DEF Redirect, TypeOK
<1>4. /\ Len(chain'[c]) = Depth(c) + 1 /\ chain'[c] # <<>>
      /\ \A i \in 1..Depth(c) - 1 : chain'[c][i] = chain[c][i]
      /\ chain'[c][Depth(c)].phase = "waiting" /\ chain'[c][Depth(c) + 1].phase = "open"
  <2>1. /\ Len(f) = Depth(c) + 1 /\ f # <<>>
        /\ \A i \in 1..Depth(c) - 1 : f[i] = chain[c][i]
        /\ f[Depth(c)].phase = "waiting" /\ f[Depth(c) + 1].phase = "open"
    BY <1>1, <1>2, RedirectFacts
  <2> HIDE DEF f
  <2> QED BY <1>3, <2>1
<1>5. Depth(c) \in Nat /\ Depth(c) > 0 /\ Depth(c)' = Depth(c) + 1
  BY <1>1, <1>4, ChainFacts DEF Depth
<1>6. Top(c)'.phase = "open"
  BY <1>4, <1>5 DEF Top
<1>7. OthersWait(c)'
  <2> SUFFICES ASSUME NEW i \in 1..Depth(c) PROVE chain'[c][i].phase = "waiting"
    BY <1>5 DEF OthersWait
  <2>1. CASE i = Depth(c)
    BY <1>4, <2>1
  <2>2. CASE i \in 1..Depth(c) - 1
    BY <1>1, <1>4, <2>2 DEF Truthful, OthersWait
  <2> QED BY <1>5, <2>1, <2>2
<1>8. applied[c] = 0 /\ kept[c] = 0
  BY <1>1 DEF Truthful, OnItsWay
<1>9. ToldTheReply(c)'
  BY <1>1, <1>3 DEF Truthful, ToldTheReply
<1> QED BY <1>3, <1>4, <1>5, <1>6, <1>7, <1>8, <1>9 DEF Truthful, OnItsWay, AtItsClient

\* The last handler returns.
LEMMA ReturnTruthful ==
    ASSUME TypeOK, PathInv, NEW c \in Client,
           RedirectFails(c) \/ Confirm(c) \/ Refuse(c) \/ Overwrite(c)
    PROVE  Truthful(c)'
<1>1. Truthful(c) /\ chain[c] # <<>>
  BY DEF PathInv, RedirectFails, Confirm, Refuse, Overwrite, AtTop
<1>2. /\ chain'[c] = Below(c) /\ UNCHANGED <<told, applied, passed, unsent>>
      /\ \/ Top(c).phase \in {"following", "waiting"} /\ reply'[c] = "no" /\ UNCHANGED kept
         \/ /\ Top(c).phase = "serving" /\ Top(c).live /\ reply'[c] = "no"
            /\ kept'[c] \in {kept[c], kept[c] + 1}
         \/ Top(c).phase = "applied" /\ reply'[c] = "yes" /\ UNCHANGED kept
  BY DEF PeersMayKeep, RedirectFails, Confirm, Refuse, Overwrite, AtTop, AnswerForNobody, LeaderReply,
         FailureReply, Pop, TypeOK
<1>3. /\ Depth(c) \in Nat /\ Depth(c) > 0 /\ Depth(c)' = Depth(c) - 1
      /\ chain'[c] = <<>> <=> Depth(c) = 1
      /\ \A i \in 1..Depth(c) - 1 : chain'[c][i] = chain[c][i]
  BY <1>1, <1>2, BelowFacts, ChainFacts DEF Depth
<1>4. OthersWait(c)'
  BY <1>1, <1>3 DEF Truthful, OthersWait
<1>5. OnItsWay(c)'
  <2>1. CASE Depth(c) > 1
    <3>1. Top(c)'.phase = "waiting"
      BY <1>1, <1>3, <2>1 DEF Top, Truthful, OthersWait
    <3> QED BY <1>1, <1>2, <2>1, <3>1 DEF Truthful, OnItsWay
  <2>2. CASE Depth(c) = 1
    BY <1>3, <2>2 DEF OnItsWay
  <2> QED BY <1>3, <2>1, <2>2
<1>6. AtItsClient(c)'
  BY <1>1, <1>2, <1>3 DEF Truthful, OnItsWay, AtItsClient, TypeOK
<1>7. ToldTheReply(c)'
  BY <1>1, <1>2 DEF Truthful, ToldTheReply
<1>8. applied'[c] + kept'[c] <= 1
  <2>1. CASE Top(c).phase = "serving" /\ Top(c).live
    <3>1. applied[c] = 0 /\ kept[c] = 0
      BY <1>1, <2>1 DEF Truthful, OnItsWay
    <3> QED BY <1>2, <2>1, <3>1
  <2>2. CASE ~(Top(c).phase = "serving" /\ Top(c).live)
    BY <1>1, <1>2, <2>2 DEF Truthful
  <2> QED BY <2>1, <2>2
<1> QED BY <1>1, <1>2, <1>4, <1>5, <1>6, <1>7, <1>8 DEF Truthful

LEMMA StepTruthful == TypeOK /\ PathInv /\ [Next]_vars => PathInv'
<1> SUFFICES ASSUME TypeOK, PathInv, [Next]_vars, NEW b \in Client PROVE Truthful(b)'
  BY DEF PathInv
<1>1. Truthful(b)
  BY DEF PathInv
<1>2. CASE UNCHANGED path
  BY <1>1, <1>2, StaysTruthful DEF path
<1>3. ASSUME NEW s \in Server, Ends(s) PROVE Truthful(b)'
  <2>1. Kill(s) /\ UNCHANGED <<reply, told, applied, passed, unsent>>
    BY <1>3 DEF Ends, Kill
  <2>2. PICK cs \in SUBSET ServedBy(s) :
          kept' = [c \in Client |-> IF c \in cs THEN kept[c] + 1 ELSE kept[c]]
    BY <2>1 DEF Kill
  <2>3. kept'[b] = IF b \in cs THEN kept[b] + 1 ELSE kept[b]
    BY <2>2
  <2>4. b \in cs => AtTop(b, "serving") /\ ~chain'[b][Depth(b)].live
    <3>1. SUFFICES ASSUME b \in cs
                   PROVE AtTop(b, "serving") /\ ~chain'[b][Depth(b)].live
      OBVIOUS
    <3>2. AtTop(b, "serving") /\ chain[b] # <<>> /\ chain[b][Depth(b)].at = s
      BY <2>2, <3>1 DEF ServedBy, AtTop, Top
    <3>3. Depth(b) \in 1..Depth(b)
      BY <3>2, ChainFacts
    <3> QED BY <2>1, <3>2, <3>3, KillFacts
  <2>5. \A i \in 1..Depth(b) :
          /\ chain'[b][i].phase = chain[b][i].phase
          /\ chain'[b][i].live => chain[b][i].live
    BY <2>1, KillFacts
  <2>6. Len(chain'[b]) = Len(chain[b]) /\ (chain'[b] = <<>> <=> chain[b] = <<>>)
    BY <2>1, KillFacts
  <2> QED BY <1>1, <2>1, <2>3, <2>4, <2>5, <2>6, StaysTruthful
<1>4. ASSUME NEW c \in Client, AskStep(c) \/ HandlerMoves(c) PROVE Truthful(b)'
  <2>1. CASE b # c
    BY <1>4, <2>1, OtherTruthful
  <2>2. CASE b = c /\ AnswerLost(c)
    <3>1. chain[c] # <<>> /\ UNCHANGED <<chain, told, applied, kept, passed, unsent>>
      BY <2>2 DEF AnswerLost
    <3> QED BY <1>1, <2>2, <3>1
            DEF Truthful, OthersWait, OnItsWay, AtItsClient, ToldTheReply, Depth, Top
  <2>3. CASE b = c /\ ~AnswerLost(c)
    BY <1>4, <2>3, ClientTruthful, PhaseTruthful, RedirectTruthful, ReturnTruthful
       DEF HandlerMoves
  <2> QED BY <2>1, <2>2, <2>3
<1> QED BY <1>2, <1>3, <1>4, StepSplit DEF vars, TurnRoles, Boot

LEMMA InitTruthful == Init => PathInv
<1> SUFFICES ASSUME Init, NEW c \in Client PROVE Truthful(c)
  BY DEF PathInv
<1>1. chain[c] = <<>> /\ reply[c] = "none" /\ told[c] = "asking" /\ applied[c] = 0
      /\ kept[c] = 0 /\ c \notin passed /\ c \notin unsent
  BY DEF Init
<1>2. OthersWait(c)
  BY <1>1, EmptySeq DEF OthersWait, Depth
<1> QED BY <1>1, <1>2 DEF Truthful, OnItsWay, AtItsClient, ToldTheReply

\* The inductive invariant: where a request is on its way tells how often it
\* took effect and whether it was redirected.
THEOREM ClientPathTruthful == Spec => []PathInv
<1>1. Init => PathInv
  BY InitTruthful
<1>2. TypeOK /\ PathInv /\ [Next]_vars => PathInv'
  BY StepTruthful
<1> QED BY <1>1, <1>2, ClientPathTypeCorrect, PTL DEF Spec

\* No call of a client takes effect twice, at leaders or at the peers of one
\* that refused it or died.
THEOREM ClientPathAppliedOnce == Spec => []AppliedOnce
<1>1. PathInv => AppliedOnce
  BY DEF PathInv, Truthful, AppliedOnce
<1> QED BY <1>1, ClientPathTruthful, PTL

\* Success comes of a request that a leader applied, or from no server at all.
THEOREM ClientPathSuccessIsApplied == Spec => []SuccessIsApplied
<1>1. PathInv => SuccessIsApplied
  BY DEF PathInv, Truthful, AtItsClient, ToldTheReply, SuccessIsApplied
<1> QED BY <1>1, ClientPathTruthful, PTL

\* A leader that was asked itself does not deny what it applied.
THEOREM ClientPathRefusedOnlyAtPeers == Spec => []RefusedOnlyAtPeers
<1>1. TypeOK /\ PathInv => RefusedOnlyAtPeers
  <2> SUFFICES ASSUME TypeOK, PathInv, NEW c \in Client, told[c] = "no", c \notin passed
               PROVE  applied[c] = 0
    BY DEF RefusedOnlyAtPeers
  <2>1. chain[c] = <<>> /\ reply[c] = "no"
    BY DEF PathInv, Truthful, ToldTheReply
  <2>2. ~(applied[c] > 0)
    BY <2>1 DEF PathInv, Truthful, AtItsClient
  <2>3. applied[c] \in Nat
    BY DEF TypeOK
  <2> QED BY <2>2, <2>3
<1> QED BY <1>1, ClientPathTruthful, ClientPathTypeCorrect, PTL
=============================================================================
