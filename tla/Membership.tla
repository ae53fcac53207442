----------------------------- MODULE Membership -----------------------------
(***************************************************************************)
(* Adding servers to a running cluster of go-raftkv: NewNodeNeedToDo of    *)
(* the server that joins, HandlerMemberAdd of the server it contacts and   *)
(* HandlerMemberChangeSync of every other one (server/node/defaultNode.go).*)
(* No log entry is involved: each server's address list is a field of its  *)
(* process, replaced by what the joiner sends, and IsMemberChanging, read  *)
(* in one step and written in the next, is all that keeps changes apart.   *)
(* The nextIndex of the joiner, set with the list, is in module Storage.   *)
(* A list is read and replaced in one step.                                *)
(***************************************************************************)
EXTENDS Integers, Sequences, SequencesExt

CONSTANTS
    Original,    \* the servers that start without IsNewNode
    Joiner,      \* those that start with it
    Configured,  \* the PeerAddrs each is built with
    MaxBoots,    \* bound: starts of one joiner
    MaxStops     \* bound: spontaneous process exits

Server == Original \cup Joiner

VARIABLES
    role,     \* down, joining (inside NewNodeNeedToDo) or serving
    list,     \* Config.PeerAddrs
    flag,     \* IsMemberChanging
    adds,     \* the calls of HandlerMemberAdd that passed its test of the flag
    boots,    \* how often a joiner has started
    stops,    \* what was used of MaxStops
    smooth    \* history: no two changes met, none failed, no process ended

vars == <<role, list, flag, adds, boots, stops, smooth>>

\* try: the start of the joiner that called.  peers: the contact's list without
\* itself, of which number i is next.  sync: the contact's call to that one.
\* done: the answer is on its way to the joiner; broken: the process that was to
\* answer is gone.  taken (history): the peers that replaced their list.
Add == [joiner : Joiner, try : Nat, phase : {"checked", "in", "done", "broken"},
        peers : Seq(Server), i : Nat, ok : Nat,
        sync : {"none", "checked", "taken", "broken"}, taken : SUBSET Server]

\* Every server knows the original ones, which share one list (PeerAddrs is a
\* literal that the build flags do not set), and a joiner contacts one of them.
ASSUME ConfiguredAssumption ==
    /\ Original \cap Joiner = {}
    /\ Configured \in [Server -> Seq(Server)]
    /\ \A s \in Server : Original \subseteq ToSet(Configured[s]) /\ IsInjective(Configured[s])
    /\ \A s, t \in Original : Configured[s] = Configured[t]
    /\ \A j \in Joiner : Configured[j][1] \in Original /\ j \notin ToSet(Configured[j])
    /\ MaxBoots \in Nat /\ MaxStops \in Nat

\* The list a process starts with, and all a joiner ever sends.
BootList(s) == IF s \in Joiner THEN Append(Configured[s], s) ELSE Configured[s]

Contact(j) == Configured[j][1]

At(h) == Contact(h.joiner)

Init ==
    /\ role = [s \in Server |-> IF s \in Joiner THEN "down" ELSE "serving"]
    /\ list = [s \in Server |-> BootList(s)]
    /\ flag = [s \in Server |-> FALSE]
    /\ adds = {}
    /\ boots = [j \in Joiner |-> 0]
    /\ stops = 0 /\ smooth = TRUE

-----------------------------------------------------------------------------
(* NewNodeNeedToDo and HandlerMemberAdd *)

\* Process h.joiner still waits for the answer.
Waits(h, r) == r[h.joiner] = "joining" /\ boots[h.joiner] = h.try
Live(h) == Waits(h, role)

\* What is left of a handler that is over: a call to a peer that is being
\* served, a joiner that waits.
Kept(hs, r) == {h \in hs :
    h.phase \in {"checked", "in"} \/ h.sync # "none" \/ Waits(h, r)}

Becomes(h, g) == adds' = (adds \ {h}) \cup {g}

\* The joiner calls; a contact whose flag is set sends it back to its loop,
\* which is a step that changes nothing.
Ask(j) ==
    /\ role[j] = "joining" /\ ~\E h \in adds : h.joiner = j /\ Live(h)
    /\ role[Contact(j)] = "serving" /\ ~flag[Contact(j)]
    /\ adds' = adds \cup {[joiner |-> j, try |-> boots[j], phase |-> "checked",
                           peers |-> <<>>, i |-> 1, ok |-> 0, sync |-> "none", taken |-> {}]}
    /\ smooth' = (smooth /\ adds = {})
    /\ UNCHANGED <<role, list, flag, boots, stops>>

\* Mutant: the contact calls itself too.
WholeList(s) == list[s]

\* Mutant: the array has room for the server itself.
PaddedPeers(s) == Append(RemoveAt(list[s], CHOOSE i \in DOMAIN list[s] : list[s][i] = s), "")

\* getPeerAddrsWithOutSelf: a contact is in its list, once.
Peers(s) == RemoveAt(list[s], CHOOSE i \in DOMAIN list[s] : list[s][i] = s)

Enter(h) ==
    /\ h.phase = "checked"
    /\ flag' = [flag EXCEPT ![At(h)] = TRUE]
    /\ Becomes(h, [h EXCEPT !.phase = "in", !.peers = Peers(At(h))])
    /\ UNCHANGED <<role, list, boots, stops, smooth>>

Peer(h) == h.peers[h.i]
Calling(h) == h.phase = "in" /\ h.sync = "none" /\ h.i <= Len(h.peers)

\* The peer does not serve, or its flag is set.
SyncRefused(h) ==
    /\ Calling(h)
    /\ role[Peer(h)] # "serving" \/ flag[Peer(h)]
    /\ Becomes(h, [h EXCEPT !.i = @ + 1])
    /\ UNCHANGED <<role, list, flag, boots, stops, smooth>>

-----------------------------------------------------------------------------
(* HandlerMemberChangeSync *)

SyncCheck(h) ==
    /\ Calling(h)
    /\ role[Peer(h)] = "serving" /\ ~flag[Peer(h)]
    /\ Becomes(h, [h EXCEPT !.sync = "checked"])
    /\ UNCHANGED <<role, list, flag, boots, stops, smooth>>

SyncTake(h) ==
    /\ h.sync = "checked"
    /\ flag' = [flag EXCEPT ![Peer(h)] = TRUE]
    /\ list' = [list EXCEPT ![Peer(h)] = BootList(h.joiner)]
    /\ Becomes(h, [h EXCEPT !.sync = "taken", !.taken = @ \cup {Peer(h)}])
    /\ UNCHANGED <<role, boots, stops, smooth>>

\* The answer is counted, or finds the contact's process gone.
Answered(h) ==
    IF h.phase = "in" THEN [h EXCEPT !.sync = "none", !.i = @ + 1, !.ok = @ + 1]
                      ELSE [h EXCEPT !.sync = "none"]

SyncDone(h) ==
    /\ h.sync = "taken"
    /\ flag' = [flag EXCEPT ![Peer(h)] = FALSE]
    /\ adds' = Kept((adds \ {h}) \cup {Answered(h)}, role)
    /\ UNCHANGED <<role, list, boots, stops, smooth>>

-----------------------------------------------------------------------------
(* The end of HandlerMemberAdd *)

\* Mutant: most of the peers are enough.
MostSynced(h) == 2 * h.ok >= Len(h.peers)

AllSynced(h) == h.ok = Len(h.peers)

\* Mutant: the contact leaves its own list as it was.
AdoptNothing(h) == list

Adopt(h) == [list EXCEPT ![At(h)] = BootList(h.joiner)]

\* Mutant: the flag is not reset on the way out of a failure.
UnlockAfterSuccess(h) == [flag EXCEPT ![At(h)] = ~AllSynced(h)]

Unlock(h) == [flag EXCEPT ![At(h)] = FALSE]

Ended(h) == h.phase = "in" /\ h.sync = "none" /\ h.i > Len(h.peers)

Succeed(h) ==
    /\ Ended(h) /\ AllSynced(h)
    /\ list' = Adopt(h)
    /\ flag' = Unlock(h)
    /\ adds' = Kept((adds \ {h}) \cup {[h EXCEPT !.phase = "done"]}, role)
    /\ UNCHANGED <<role, boots, stops, smooth>>

\* The peers that took the list keep it; the joiner tries again.
Fail(h) ==
    /\ Ended(h) /\ ~AllSynced(h)
    /\ flag' = Unlock(h)
    /\ adds' = adds \ {h}
    /\ smooth' = FALSE
    /\ UNCHANGED <<role, list, boots, stops>>

\* NewNodeNeedToDo hears that it is in, and begins to serve.
Receive(h) ==
    /\ h.phase = "done" /\ Live(h)
    /\ role' = [role EXCEPT ![h.joiner] = "serving"]
    /\ adds' = adds \ {h}
    /\ UNCHANGED <<list, flag, boots, stops, smooth>>

-----------------------------------------------------------------------------
(* Processes *)

\* Whoever waits for an answer of s finds its connection broken, if the answer
\* is not among those that were sent.
Broken(h, s, sent) ==
    LET lost == h.sync # "none" /\ Peer(h) = s
        gone == h.phase = "broken" \/ (At(h) = s /\ h \notin sent)
    IN  [h EXCEPT !.phase = IF gone THEN "broken" ELSE @,
                  !.sync = IF lost \/ @ = "broken"
                           THEN IF gone THEN "none" ELSE "broken" ELSE @]

Kill(s) ==
    /\ role' = [role EXCEPT ![s] = "down"]
    /\ list' = [list EXCEPT ![s] = BootList(s)]
    /\ flag' = [flag EXCEPT ![s] = FALSE]
    /\ \E sent \in SUBSET {h \in adds : h.phase = "done" /\ At(h) = s} :
          adds' = Kept({Broken(h, s, sent) : h \in adds}, role')
    /\ smooth' = FALSE
    /\ UNCHANGED boots

Crash(s) ==
    /\ stops < MaxStops /\ stops' = stops + 1
    /\ role[s] # "down"
    /\ Kill(s)

\* SendWithTimeout ends the process whose call broke: the contact's ...
ContactDies(h) ==
    /\ h.sync = "broken"
    /\ Kill(At(h))
    /\ UNCHANGED stops

\* ... and the joiner's.
JoinerDies(h) ==
    /\ h.phase = "broken" /\ Live(h)
    /\ role' = [role EXCEPT ![h.joiner] = "down"]
    /\ adds' = Kept(adds, role')
    /\ UNCHANGED <<list, flag, boots, stops, smooth>>

\* getPeerAddrsWithOutSelf writes beyond its array when the list lacks the
\* server itself, in a ticker: the process panics.
Panic(s) ==
    /\ role[s] = "serving" /\ s \notin ToSet(list[s])
    /\ Kill(s)
    /\ UNCHANGED stops

Boot(s) ==
    /\ role[s] = "down"
    /\ IF s \in Joiner
       THEN /\ boots[s] < MaxBoots
            /\ boots' = [boots EXCEPT ![s] = @ + 1]
            /\ role' = [role EXCEPT ![s] = "joining"]
       ELSE /\ role' = [role EXCEPT ![s] = "serving"]
            /\ UNCHANGED boots
    /\ UNCHANGED <<list, flag, adds, stops, smooth>>

-----------------------------------------------------------------------------
HandlerStep(h) ==
    \/ Enter(h) \/ SyncRefused(h) \/ SyncCheck(h) \/ SyncTake(h) \/ SyncDone(h)
    \/ Succeed(h) \/ Fail(h) \/ Receive(h) \/ ContactDies(h) \/ JoinerDies(h)

Next ==
    \/ \E h \in adds : HandlerStep(h)
    \/ \E j \in Joiner : Ask(j)
    \/ \E s \in Server : Crash(s) \/ Panic(s) \/ Boot(s)

Spec == Init /\ [][Next]_vars

\* A joiner keeps asking, and a handler that runs goes on.
FairSpec ==
    /\ Spec
    /\ \A j \in Joiner : WF_vars(Ask(j))
    /\ \A j \in Joiner, k \in 1..MaxBoots :
         WF_vars(\E h \in adds : h.joiner = j /\ h.try = k /\ HandlerStep(h))

-----------------------------------------------------------------------------
(* Properties *)

TypeOK ==
    /\ role \in [Server -> {"down", "joining", "serving"}]
    /\ list \in [Server -> Seq(Server)]
    /\ flag \in [Server -> BOOLEAN]
    /\ adds \subseteq Add
    /\ boots \in [Joiner -> 0..MaxBoots]
    /\ stops \in 0..MaxStops
    /\ smooth \in BOOLEAN

\* A joiner begins to serve only when every server that its contact knew as the
\* change began has taken the list it is in, for this try: success is never a
\* mixture of two tries, or has a peer that refused (defaultNode.go:953-987).
JoinedIsKnown ==
    [][\A j \in Joiner :
         role[j] = "joining" /\ role'[j] = "serving" =>
            \E h \in adds : h.joiner = j /\ Live(h) /\ ToSet(h.peers) \subseteq h.taken]_vars

\* Servers disagree about the members only after two changes met, one failed
\* or a process ended: by themselves, one after the other, changes leave all
\* with one list (defaultNode.go:979-984, 1016).  Not so a server that is not
\* in its own list: a change of a joiner that does not know of it leaves it
\* out, later ones pass it by, and getPeerAddrsWithOutSelf is about to end it.
ChangesAgree ==
    smooth /\ adds = {} =>
        \A s, t \in {r \in Server : role[r] = "serving" /\ r \in ToSet(list[r])} :
            list[s] = list[t]

\* IsMemberChanging is never left behind: some handler is there to reset it,
\* whichever peer refused, died or was overtaken by another change, or the
\* server would refuse every later one (defaultNode.go:936-939, 999-1002).
FlagIsHeld ==
    \A s \in Server : flag[s] =>
        \E h \in adds : \/ h.phase = "in" /\ At(h) = s
                        \/ h.sync = "taken" /\ Peer(h) = s

\* A list that the contact of j is to synchronise holds a server that does not
\* serve, j itself among them.
Blocked(j) ==
    \/ role[Contact(j)] # "serving"
    \/ \E p \in ToSet(Peers(Contact(j))) : role[p] # "serving"

\* A joiner gets in, or ends, unless some server that its contact lists is
\* down, which blocks every change, or another change is running: nothing that
\* an earlier failure left behind keeps it out (defaultNode.go:1036-1064).
JoinEnds ==
    \A j \in Joiner :
        role[j] = "joining" ~>
            (role[j] # "joining" \/ Blocked(j) \/ \E h \in adds : h.joiner # j)
=============================================================================
