--------------------------- MODULE MembershipProofs ---------------------------
(***************************************************************************)
(* Membership: type correctness, who holds IsMemberChanging, what a server *)
(* that begins to serve may rely on, and when all have one list.           *)
(***************************************************************************)
EXTENDS Membership, SequenceTheorems, TLAPS

\* The peers before number i have answered; those whose answer was counted
\* have taken the list, all of them when none was passed over, so all when the
\* handler succeeded.
Counted(h) ==
    /\ h.i \in 1..Len(h.peers) + 1 /\ h.ok < h.i
    /\ h.phase = "checked" => h.i = 1 /\ h.ok = 0 /\ h.sync = "none" /\ h.taken = {}
    /\ h.sync # "none" => h.i <= Len(h.peers)
    /\ h.sync = "taken" => Peer(h) \in h.taken
    /\ h.ok = h.i - 1 => \A k \in 1..h.i - 1 : h.peers[k] \in h.taken
    /\ h.phase = "done" => h.sync = "none" /\ ToSet(h.peers) \subseteq h.taken

\* The processes that run a handler, and the contact is no peer of its own.
Runs(h) ==
    /\ h.phase \in {"checked", "in"} => role[At(h)] = "serving"
    /\ h.sync \in {"checked", "taken"} => role[Peer(h)] = "serving"
    /\ At(h) \notin ToSet(h.peers)

HandlerInv == \A h \in adds : Counted(h) /\ Runs(h)

\* What every list is.  A process that does not serve has the one it starts with.
ListInv ==
    \A s \in Server : /\ IsInjective(list[s]) /\ Original \subseteq ToSet(list[s])
                      /\ role[s] # "serving" => list[s] = BootList(s)

\* A server that serves and has not been left out.
Own(s) == role[s] = "serving" /\ s \in ToSet(list[s])

\* Without an accident there is one change at a time; the servers that it has
\* reached have its list, and the others that are not left out had one before;
\* once it succeeded there are no others.
OneChange ==
    smooth =>
        /\ \A s \in Original : role[s] = "serving"
        /\ \A g, h \in adds : g = h
        /\ \A h \in adds :
             /\ h.phase # "broken"
             /\ \A s \in h.taken : list[s] = BootList(h.joiner)
             /\ At(h) \notin h.taken
             /\ h.phase = "in" => ToSet(list[At(h)]) \ {At(h)} \subseteq ToSet(h.peers)
             /\ h.phase = "done" => \A s \in Server : Own(s) => list[s] = BootList(h.joiner)
        /\ \A s, t \in Server :
             Own(s) /\ Own(t) /\ (\A h \in adds : s \notin h.taken /\ t \notin h.taken)
                 => list[s] = list[t]

-----------------------------------------------------------------------------
(* Lists. *)

LEMMA Lists ==
    /\ \A s \in Server : /\ BootList(s) \in Seq(Server) /\ IsInjective(BootList(s))
                         /\ Original \subseteq ToSet(BootList(s))
    /\ \A j \in Joiner : Contact(j) \in Original /\ Contact(j) \in Server /\ j \in Server
    /\ Original \cap Joiner = {}
<1>1. ASSUME NEW s \in Server
      PROVE  /\ BootList(s) \in Seq(Server) /\ IsInjective(BootList(s))
             /\ Original \subseteq ToSet(BootList(s))
  <2>1. /\ Configured[s] \in Seq(Server) /\ IsInjective(Configured[s])
        /\ Original \subseteq ToSet(Configured[s])
    BY <1>1, ConfiguredAssumption
  <2>2. CASE s \in Joiner
    <3> DEFINE c == Configured[s]
               l == Append(c, s)
    <3>1. s \notin ToSet(c)
      BY <2>2, ConfiguredAssumption
    <3>2. /\ l \in Seq(Server) /\ Len(l) = Len(c) + 1 /\ Len(c) \in Nat
          /\ l[Len(c) + 1] = s /\ \A i \in 1..Len(c) : l[i] = c[i]
          /\ DOMAIN l = 1..Len(c) + 1 /\ DOMAIN c = 1..Len(c)
      BY <1>1, <2>1
    <3>3. BootList(s) = l
      BY <2>2 DEF BootList
    <3> HIDE DEF l, c
    <3>4. \A i \in DOMAIN c : c[i] # s
      BY <3>1 DEF ToSet
    <3>5. IsInjective(l)
      <4> SUFFICES ASSUME NEW i \in DOMAIN l, NEW k \in DOMAIN l, l[i] = l[k] PROVE i = k
        BY DEF IsInjective
      <4>1. \A p, q \in DOMAIN c : c[p] = c[q] => p = q
        BY <2>1 DEF c, IsInjective
      <4> QED BY <3>2, <3>4, <4>1
    <3>6. Original \subseteq ToSet(l)
      <4>1. ToSet(c) \subseteq ToSet(l)
        <5> SUFFICES ASSUME NEW i \in DOMAIN c PROVE c[i] \in ToSet(l)
          BY DEF ToSet
        <5> QED BY <3>2 DEF ToSet
      <4> QED BY <2>1, <4>1 DEF c
    <3> QED BY <3>2, <3>3, <3>5, <3>6
  <2>3. CASE s \notin Joiner
    BY <2>1, <2>3 DEF BootList
  <2> QED BY <2>2, <2>3
<1>2. ASSUME NEW j \in Joiner PROVE Contact(j) \in Original
  BY <1>2, ConfiguredAssumption DEF Contact
<1> QED BY <1>1, <1>2, ConfiguredAssumption DEF Server

\* getPeerAddrsWithOutSelf leaves out the server itself, and nobody else.
LEMMA PeersFacts ==
    ASSUME NEW s \in Server, list[s] \in Seq(Server), IsInjective(list[s]), s \in ToSet(list[s])
    PROVE  /\ Peers(s) \in Seq(Server) /\ s \notin ToSet(Peers(s))
           /\ ToSet(list[s]) \ {s} \subseteq ToSet(Peers(s))
<1> DEFINE l == list[s]
           k == CHOOSE i \in DOMAIN l : l[i] = s
           p == Peers(s)
<1>1. k \in 1..Len(l) /\ l[k] = s /\ Len(l) \in Nat /\ DOMAIN l = 1..Len(l)
  BY DEF ToSet
<1>2. p = SubSeq(l, 1, k - 1) \o SubSeq(l, k + 1, Len(l))
  BY DEF Peers, RemoveAt
<1>3. \A i \in 1..Len(l) : l[i] = s => i = k
  BY <1>1 DEF IsInjective
<1>4. l \in Seq(Server)
  OBVIOUS
<1> HIDE DEF l, k, p
<1>5. /\ SubSeq(l, 1, k - 1) \in Seq(Server) /\ Len(SubSeq(l, 1, k - 1)) = k - 1
      /\ \A i \in 1..k - 1 : SubSeq(l, 1, k - 1)[i] = l[i]
  BY <1>1, <1>4
<1>6. /\ SubSeq(l, k + 1, Len(l)) \in Seq(Server) /\ Len(SubSeq(l, k + 1, Len(l))) = Len(l) - k
      /\ \A i \in 1..Len(l) - k : SubSeq(l, k + 1, Len(l))[i] = l[k + i]
  <2> DEFINE m == k + 1
             n == Len(l)
             t == SubSeq(l, m, n)
  <2>1. m \in Int /\ n \in Int /\ \A i \in m..n : l[i] \in Server
    BY <1>1, <1>4
  <2> HIDE DEF m, n
  <2>2. /\ t \in Seq(Server) /\ Len(t) = (IF m <= n THEN n - m + 1 ELSE 0)
        /\ \A i \in 1..n - m + 1 : t[i] = l[m + i - 1]
    BY <2>1, SubSeqProperties
  <2>3. m = k + 1 /\ k \in Nat /\ n \in Nat /\ k <= n
    BY <1>1 DEF m, n
  <2>4. Len(t) = n - k
    BY <2>2, <2>3
  <2>5. ASSUME NEW i \in 1..n - k PROVE t[i] = l[k + i]
    <3>1. i \in 1..n - m + 1 /\ m + i - 1 = k + i
      BY <2>3
    <3> QED BY <2>2, <3>1
  <2> QED BY <2>2, <2>4, <2>5 DEF m, n
<1> DEFINE a == SubSeq(l, 1, k - 1)
           b == SubSeq(l, k + 1, Len(l))
<1>7. /\ p \in Seq(Server) /\ Len(p) = Len(l) - 1 /\ DOMAIN p = 1..Len(l) - 1
      /\ \A i \in 1..Len(l) - 1 : p[i] = IF i < k THEN l[i] ELSE l[i + 1]
  <2>1. /\ a \in Seq(Server) /\ b \in Seq(Server) /\ p = a \o b
        /\ Len(a) = k - 1 /\ Len(b) = Len(l) - k
        /\ \A i \in 1..k - 1 : a[i] = l[i]
        /\ \A i \in 1..Len(l) - k : b[i] = l[k + i]
    BY <1>2, <1>5, <1>6
  <2> HIDE DEF a, b
  <2>2. /\ p \in Seq(Server) /\ Len(p) = Len(a) + Len(b)
        /\ \A i \in 1..Len(a) + Len(b) : p[i] = IF i <= Len(a) THEN a[i] ELSE b[i - Len(a)]
    BY <2>1, ConcatProperties
  <2>3. Len(a) + Len(b) = Len(l) - 1
    BY <1>1, <2>1
  <2>4. ASSUME NEW i \in 1..Len(l) - 1
        PROVE  p[i] = IF i < k THEN l[i] ELSE l[i + 1]
    <3>1. p[i] = IF i <= k - 1 THEN a[i] ELSE b[i - (k - 1)]
      BY <2>1, <2>2, <2>3
    <3>2. CASE i < k
      <4>1. i \in 1..k - 1 /\ i <= k - 1
        BY <1>1, <3>2
      <4> QED BY <2>1, <3>1, <3>2, <4>1
    <3>3. CASE ~(i < k)
      <4>1. i - (k - 1) \in 1..Len(l) - k /\ ~(i <= k - 1) /\ k + (i - (k - 1)) = i + 1
        BY <1>1, <3>3
      <4> QED BY <2>1, <3>1, <3>3, <4>1
    <3> QED BY <3>2, <3>3
  <2> QED BY <2>2, <2>3, <2>4
<1>8. s \notin ToSet(p)
  <2> SUFFICES ASSUME NEW i \in 1..Len(l) - 1 PROVE p[i] # s
    BY <1>7 DEF ToSet
  <2> QED BY <1>1, <1>3, <1>7
<1>9. ASSUME NEW i \in 1..Len(l), i # k PROVE l[i] \in ToSet(p)
  <2>1. CASE i < k
    <3>1. i \in 1..Len(l) - 1 /\ p[i] = l[i]
      BY <1>1, <1>7, <2>1
    <3> QED BY <1>7, <3>1 DEF ToSet
  <2>2. CASE i > k
    <3>1. i - 1 \in 1..Len(l) - 1 /\ p[i - 1] = l[i]
      BY <1>1, <1>7, <2>2
    <3> QED BY <1>7, <3>1 DEF ToSet
  <2> QED BY <1>1, <1>9, <2>1, <2>2
<1>10. ToSet(l) \ {s} \subseteq ToSet(p)
  <2> SUFFICES ASSUME NEW i \in DOMAIN l, l[i] # s PROVE l[i] \in ToSet(p)
    BY DEF ToSet
  <2> QED BY <1>1, <1>9
<1> QED BY <1>7, <1>8, <1>10 DEF l, p

-----------------------------------------------------------------------------
(* What a step makes of a handler. *)

\* A handler is as the model builds it, and its contact is an original server.
LEMMA AddFacts ==
    ASSUME NEW h \in Add
    PROVE  /\ h.joiner \in Joiner /\ h.try \in Nat /\ h.peers \in Seq(Server)
           /\ h.i \in Nat /\ h.ok \in Nat /\ h.taken \subseteq Server /\ Len(h.peers) \in Nat
           /\ At(h) \in Original /\ At(h) \in Server
           /\ h.i \in 1..Len(h.peers) => Peer(h) \in Server
<1>1. h.joiner \in Joiner /\ h.peers \in Seq(Server)
  BY DEF Add
<1>2. At(h) \in Original /\ At(h) \in Server
  BY <1>1, Lists DEF At
<1> QED BY <1>1, <1>2 DEF Add, Peer

LEMMA AskRecord ==
    ASSUME NEW j \in Joiner, NEW n \in Nat
    PROVE  LET g == [joiner |-> j, try |-> n, phase |-> "checked", peers |-> <<>>,
                     i |-> 1, ok |-> 0, sync |-> "none", taken |-> {}]
           IN  /\ g \in Add /\ Counted(g) /\ ToSet(g.peers) = {} /\ At(g) = Contact(j)
               /\ g.phase = "checked" /\ g.sync = "none" /\ g.taken = {}
<1> DEFINE g == [joiner |-> j, try |-> n, phase |-> "checked", peers |-> <<>>,
                 i |-> 1, ok |-> 0, sync |-> "none", taken |-> {}]
<1>1. g \in Add
  BY DEF Add
<1>2. /\ g.joiner = j /\ g.peers = <<>> /\ g.i = 1 /\ g.ok = 0
      /\ g.phase = "checked" /\ g.sync = "none" /\ g.taken = {}
  OBVIOUS
<1> HIDE DEF g
<1>3. Counted(g)
  BY <1>2 DEF Counted
<1> QED BY <1>1, <1>2, <1>3 DEF g, At, ToSet

LEMMA EnterRecord ==
    ASSUME NEW h \in Add, Counted(h), h.phase = "checked", NEW p \in Seq(Server)
    PROVE  LET g == [h EXCEPT !.phase = "in", !.peers = p]
           IN  /\ g \in Add /\ Counted(g) /\ At(g) = At(h) /\ g.peers = p /\ g.joiner = h.joiner
               /\ g.phase = "in" /\ g.sync = "none" /\ g.taken = {}
<1> DEFINE g == [h EXCEPT !.phase = "in", !.peers = p]
<1>1. h.i = 1 /\ h.ok = 0 /\ h.sync = "none" /\ h.taken = {}
  BY DEF Counted
<1>2. /\ g \in Add /\ g.peers = p /\ g.joiner = h.joiner /\ g.i = h.i /\ g.ok = h.ok
      /\ g.phase = "in" /\ g.sync = h.sync /\ g.taken = h.taken
  BY DEF Add
<1> HIDE DEF g
<1>3. Len(p) \in Nat
  OBVIOUS
<1>4. Counted(g)
  BY <1>1, <1>2, <1>3 DEF Counted
<1> QED BY <1>1, <1>2, <1>4 DEF g, At

LEMMA SkipRecord ==
    ASSUME NEW h \in Add, Counted(h), Calling(h)
    PROVE  LET g == [h EXCEPT !.i = h.i + 1]
           IN  /\ g \in Add /\ Counted(g) /\ At(g) = At(h) /\ g.peers = h.peers
               /\ g.joiner = h.joiner /\ g.phase = "in" /\ g.sync = "none" /\ g.taken = h.taken
<1> DEFINE n == h.i + 1
           g == [h EXCEPT !.i = n]
<1>1. /\ h.i \in 1..Len(h.peers) + 1 /\ h.ok < h.i /\ h.phase = "in" /\ h.sync = "none"
      /\ h.i <= Len(h.peers) /\ h.i \in Nat /\ h.ok \in Nat /\ Len(h.peers) \in Nat
  BY AddFacts DEF Counted, Calling
<1>2. n \in Nat /\ n \in 1..Len(h.peers) + 1 /\ h.ok < n /\ h.ok # n - 1
  BY <1>1
<1> HIDE DEF n
<1>3. /\ g \in Add /\ g.peers = h.peers /\ g.joiner = h.joiner /\ g.i = n /\ g.ok = h.ok
      /\ g.phase = h.phase /\ g.sync = h.sync /\ g.taken = h.taken
  BY <1>2 DEF Add
<1> HIDE DEF g
<1>4. Counted(g)
  BY <1>1, <1>2, <1>3 DEF Counted
<1> QED BY <1>1, <1>3, <1>4 DEF g, n, At

LEMMA CheckRecord ==
    ASSUME NEW h \in Add, Counted(h), Calling(h)
    PROVE  LET g == [h EXCEPT !.sync = "checked"]
           IN  /\ g \in Add /\ Counted(g) /\ At(g) = At(h) /\ g.peers = h.peers
               /\ g.joiner = h.joiner /\ g.phase = "in" /\ g.sync = "checked"
               /\ g.taken = h.taken /\ Peer(g) = Peer(h)
<1> DEFINE g == [h EXCEPT !.sync = "checked"]
<1>1. h.phase = "in" /\ h.i <= Len(h.peers)
  BY DEF Calling
<1>2. /\ g \in Add /\ g.peers = h.peers /\ g.joiner = h.joiner /\ g.i = h.i /\ g.ok = h.ok
      /\ g.phase = h.phase /\ g.sync = "checked" /\ g.taken = h.taken
  BY DEF Add
<1> HIDE DEF g
<1>3. Counted(g)
  BY <1>1, <1>2 DEF Counted
<1> QED BY <1>1, <1>2, <1>3 DEF g, At, Peer

LEMMA TakeRecord ==
    ASSUME NEW h \in Add, Counted(h), h.sync = "checked"
    PROVE  LET g == [h EXCEPT !.sync = "taken", !.taken = h.taken \cup {Peer(h)}]
           IN  /\ g \in Add /\ Counted(g) /\ At(g) = At(h) /\ g.peers = h.peers
               /\ g.joiner = h.joiner /\ g.phase = h.phase /\ g.sync = "taken"
               /\ g.taken = h.taken \cup {Peer(h)} /\ Peer(g) = Peer(h)
<1> DEFINE t == h.taken \cup {Peer(h)}
           g == [h EXCEPT !.sync = "taken", !.taken = t]
<1>1. h.i \in 1..Len(h.peers) /\ h.taken \subseteq Server
  BY AddFacts DEF Counted
<1>2. t \subseteq Server
  BY <1>1, AddFacts
<1> HIDE DEF t
<1>3. /\ g \in Add /\ g.peers = h.peers /\ g.joiner = h.joiner /\ g.i = h.i /\ g.ok = h.ok
      /\ g.phase = h.phase /\ g.sync = "taken" /\ g.taken = t
  BY <1>2 DEF Add
<1> HIDE DEF g
<1>4. Peer(g) = Peer(h) /\ Peer(h) \in t /\ h.taken \subseteq t
  BY <1>3 DEF Peer, t
<1>5. Counted(g)
  BY <1>1, <1>3, <1>4 DEF Counted
<1> QED BY <1>3, <1>4, <1>5 DEF g, t, At

LEMMA AnsweredRecord ==
    ASSUME NEW h \in Add, Counted(h), h.sync = "taken"
    PROVE  /\ Answered(h) \in Add /\ Counted(Answered(h)) /\ At(Answered(h)) = At(h)
           /\ Answered(h).peers = h.peers /\ Answered(h).joiner = h.joiner
           /\ Answered(h).try = h.try
           /\ Answered(h).phase = h.phase /\ Answered(h).sync = "none"
           /\ Answered(h).taken = h.taken
<1>1. /\ h.i \in 1..Len(h.peers) + 1 /\ h.i <= Len(h.peers) /\ h.ok < h.i
      /\ h.phase # "checked" /\ Peer(h) \in h.taken
      /\ h.i \in Nat /\ h.ok \in Nat /\ Len(h.peers) \in Nat
      /\ h.ok = h.i - 1 => \A k \in 1..h.i - 1 : h.peers[k] \in h.taken
  BY AddFacts DEF Counted
<1>2. CASE h.phase = "in"
  <2> DEFINE m == h.i + 1
             n == h.ok + 1
             g == [h EXCEPT !.sync = "none", !.i = m, !.ok = n]
  <2>1. /\ m \in Nat /\ n \in Nat /\ m \in 1..Len(h.peers) + 1 /\ n < m
        /\ n = m - 1 => h.ok = h.i - 1
        /\ \A k \in 1..m - 1 : k \in 1..h.i - 1 \/ k = h.i
    BY <1>1
  <2>2. Answered(h) = g
    BY <1>2 DEF Answered, Add
  <2> HIDE DEF m, n
  <2>3. /\ g \in Add /\ g.peers = h.peers /\ g.joiner = h.joiner /\ g.i = m /\ g.ok = n
        /\ g.phase = h.phase /\ g.sync = "none" /\ g.taken = h.taken /\ g.try = h.try
    BY <2>1 DEF Add
  <2> HIDE DEF g
  <2>4. n = m - 1 => \A k \in 1..m - 1 : h.peers[k] \in h.taken
    BY <1>1, <2>1 DEF Peer
  <2>5. Counted(g)
    BY <1>1, <2>1, <2>3, <2>4 DEF Counted
  <2> QED BY <2>2, <2>3, <2>5 DEF At
<1>3. CASE h.phase # "in"
  <2> DEFINE g == [h EXCEPT !.sync = "none"]
  <2>1. Answered(h) = g
    BY <1>3 DEF Answered
  <2>2. /\ g \in Add /\ g.peers = h.peers /\ g.joiner = h.joiner /\ g.i = h.i /\ g.ok = h.ok
        /\ g.phase = h.phase /\ g.sync = "none" /\ g.taken = h.taken /\ g.try = h.try
    BY DEF Add
  <2> HIDE DEF g
  <2>3. Counted(g)
    BY <1>1, <2>2 DEF Counted
  <2> QED BY <2>1, <2>2, <2>3 DEF At
<1> QED BY <1>2, <1>3

LEMMA DoneRecord ==
    ASSUME NEW h \in Add, Counted(h), Ended(h), AllSynced(h)
    PROVE  LET g == [h EXCEPT !.phase = "done"]
           IN  /\ g \in Add /\ Counted(g) /\ At(g) = At(h) /\ g.peers = h.peers
               /\ g.joiner = h.joiner /\ g.phase = "done" /\ g.sync = "none"
               /\ g.taken = h.taken /\ ToSet(h.peers) \subseteq h.taken
<1> DEFINE g == [h EXCEPT !.phase = "done"]
<1>1. /\ h.peers \in Seq(Server) /\ Len(h.peers) \in Nat /\ h.i \in 1..Len(h.peers) + 1
      /\ h.ok = h.i - 1 => \A k \in 1..h.i - 1 : h.peers[k] \in h.taken
      /\ h.sync = "none" /\ h.ok = Len(h.peers) /\ h.i > Len(h.peers)
  BY AddFacts DEF Counted, Ended, AllSynced
<1>2. h.ok = h.i - 1 /\ h.i - 1 = Len(h.peers)
  BY <1>1
<1>7. DOMAIN h.peers = 1..h.i - 1
  <2> DEFINE p == h.peers
             n == h.i - 1
  <2>1. p \in Seq(Server) /\ Len(p) = n
    BY <1>1, <1>2
  <2> HIDE DEF p, n
  <2>2. DOMAIN p = 1..n
    BY <2>1
  <2> QED BY <2>2 DEF p, n
<1>3. \A k \in DOMAIN h.peers : h.peers[k] \in h.taken
  BY <1>1, <1>2, <1>7
<1>4. ToSet(h.peers) \subseteq h.taken
  BY <1>3 DEF ToSet
<1>5. /\ g \in Add /\ g.peers = h.peers /\ g.joiner = h.joiner /\ g.i = h.i /\ g.ok = h.ok
      /\ g.phase = "done" /\ g.sync = h.sync /\ g.taken = h.taken
  BY DEF Add
<1> HIDE DEF g
<1>6. Counted(g)
  BY <1>1, <1>4, <1>5 DEF Counted
<1> QED BY <1>1, <1>4, <1>5, <1>6 DEF g, At

LEMMA BrokenRecord ==
    ASSUME NEW h \in Add, Counted(h), NEW s \in Server, NEW sent,
           h \in sent => h.phase = "done"
    PROVE  /\ Broken(h, s, sent) \in Add /\ Counted(Broken(h, s, sent)) /\ At(Broken(h, s, sent)) = At(h)
           /\ Broken(h, s, sent).peers = h.peers /\ Broken(h, s, sent).joiner = h.joiner
           /\ Peer(Broken(h, s, sent)) = Peer(h)
           /\ Broken(h, s, sent).phase \in {h.phase, "broken"}
           /\ h.phase = "in" /\ At(h) # s => Broken(h, s, sent).phase = "in"
           /\ Broken(h, s, sent).phase \in {"checked", "in"} => At(h) # s
           /\ Broken(h, s, sent).sync \in {"checked", "taken"} =>
                Broken(h, s, sent).sync = h.sync /\ Peer(h) # s
           /\ h.sync = "taken" /\ Peer(h) # s => Broken(h, s, sent).sync = "taken"
<1> DEFINE gone == h.phase = "broken" \/ (At(h) = s /\ h \notin sent)
           ph == IF gone THEN "broken" ELSE h.phase
           sy == IF (h.sync # "none" /\ Peer(h) = s) \/ h.sync = "broken"
                 THEN IF gone THEN "none" ELSE "broken" ELSE h.sync
           g == [h EXCEPT !.phase = ph, !.sync = sy]
<1>1. Broken(h, s, sent) = g
  BY DEF Broken, Add
<1>2. h.phase \in {"checked", "in", "done", "broken"} /\ h.sync \in {"none", "checked", "taken", "broken"}
  BY DEF Add
<1>3. /\ ph \in {"checked", "in", "done", "broken"} /\ sy \in {"none", "checked", "taken", "broken"}
      /\ sy \in {"checked", "taken"} => sy = h.sync /\ Peer(h) # s
      /\ ph = "checked" => h.phase = "checked"
      /\ ph = "done" => h.phase = "done"
      /\ sy # "none" => h.sync # "none"
      /\ h.sync = "none" => sy = "none"
      /\ h.sync = "taken" /\ Peer(h) # s => sy = "taken"
  BY <1>2
<1>4. /\ ph \in {h.phase, "broken"}
      /\ h.phase = "in" /\ At(h) # s => ph = "in"
      /\ ph \in {"checked", "in"} => At(h) # s
  OBVIOUS
<1> HIDE DEF ph, sy
<1>5. /\ g \in Add /\ g.peers = h.peers /\ g.joiner = h.joiner /\ g.i = h.i /\ g.ok = h.ok
      /\ g.phase = ph /\ g.sync = sy /\ g.taken = h.taken
  BY <1>3 DEF Add
<1> HIDE DEF g
<1>6. Peer(g) = Peer(h) /\ At(g) = At(h)
  BY <1>5 DEF Peer, At
<1>7. Counted(g)
  BY <1>3, <1>5, <1>6 DEF Counted
<1> QED BY <1>1, <1>3, <1>4, <1>5, <1>6, <1>7

-----------------------------------------------------------------------------
(* Type correctness, with what holds of each handler and each list. *)

TypeInv == TypeOK /\ HandlerInv /\ ListInv

LEMMA HandlerFacts ==
    ASSUME TypeInv, NEW h \in adds
    PROVE  h \in Add /\ Counted(h) /\ Runs(h)
BY DEF TypeInv, TypeOK, HandlerInv

\* A handler that lies still goes on to run where it did.
LEMMA RunsKept ==
    ASSUME NEW h \in Add, Counted(h), Runs(h),
           \A s \in Server : role[s] = "serving" => role'[s] = "serving"
    PROVE  Runs(h)'
<1>1. At(h) \in Server /\ (h.sync # "none" => Peer(h) \in Server)
  BY AddFacts DEF Counted
<1> QED BY <1>1 DEF Runs

LEMMA SomeBecome ==
    ASSUME TypeInv, NEW h \in adds, NEW g \in Add, Counted(g), Runs(g)',
           adds' \subseteq (adds \ {h}) \cup {g},
           \A s \in Server : role[s] = "serving" => role'[s] = "serving"
    PROVE  adds' \subseteq Add /\ HandlerInv'
<1>1. ASSUME NEW k \in adds' PROVE k \in Add /\ Counted(k) /\ Runs(k)'
  <2>1. CASE k = g
    BY <2>1
  <2>2. CASE k # g
    BY <1>1, <2>2, HandlerFacts, RunsKept
  <2> QED BY <2>1, <2>2
<1> QED BY <1>1 DEF HandlerInv

LEMMA AskType ==
    ASSUME TypeInv, NEW j \in Joiner, Ask(j)
    PROVE  TypeInv'
<1>0. PICK g : g = [joiner |-> j, try |-> boots[j], phase |-> "checked", peers |-> <<>>,
                    i |-> 1, ok |-> 0, sync |-> "none", taken |-> {}]
  OBVIOUS
<1>1. /\ role[Contact(j)] = "serving" /\ adds' = adds \cup {g}
      /\ smooth' = (smooth /\ adds = {}) /\ UNCHANGED <<role, list, flag, boots, stops>>
  BY <1>0 DEF Ask
<1>2. boots[j] \in Nat
  BY ConfiguredAssumption DEF TypeInv, TypeOK
<1>3. /\ g \in Add /\ Counted(g) /\ ToSet(g.peers) = {} /\ At(g) = Contact(j)
      /\ g.sync = "none"
  BY <1>0, <1>2, AskRecord
<1>4. Runs(g)'
  BY <1>1, <1>3 DEF Runs
<1>5. ASSUME NEW k \in adds' PROVE k \in Add /\ Counted(k) /\ Runs(k)'
  <2>1. CASE k = g
    BY <1>3, <1>4, <2>1
  <2>2. CASE k # g
    BY <1>1, <1>5, <2>2, HandlerFacts, RunsKept
  <2> QED BY <2>1, <2>2
<1>6. HandlerInv' /\ ListInv'
  BY <1>1, <1>5 DEF HandlerInv, TypeInv, ListInv
<1>7. TypeOK'
  BY <1>1, <1>5 DEF TypeInv, TypeOK
<1> QED BY <1>6, <1>7 DEF TypeInv

\* What a contact's list is.
LEMMA ContactFacts ==
    ASSUME TypeInv, NEW h \in adds
    PROVE  /\ Peers(At(h)) \in Seq(Server) /\ At(h) \notin ToSet(Peers(At(h)))
           /\ ToSet(list[At(h)]) \ {At(h)} \subseteq ToSet(Peers(At(h)))
<1>1. At(h) \in Original /\ At(h) \in Server
  BY HandlerFacts, AddFacts
<1>2. /\ list[At(h)] \in Seq(Server) /\ IsInjective(list[At(h)])
      /\ At(h) \in ToSet(list[At(h)])
  BY <1>1 DEF TypeInv, TypeOK, ListInv
<1> QED BY <1>1, <1>2, PeersFacts

LEMMA HandleType ==
    ASSUME TypeInv, NEW h \in adds,
           Enter(h) \/ SyncRefused(h) \/ SyncCheck(h) \/ SyncTake(h) \/ SyncDone(h)
    PROVE  TypeInv'
<1>0. h \in Add /\ Counted(h) /\ Runs(h) /\ TypeOK /\ HandlerInv /\ ListInv
  BY HandlerFacts DEF TypeInv
<1>1. CASE Enter(h)
  <2>0. PICK p : p = Peers(At(h))
    OBVIOUS
  <2> DEFINE g == [h EXCEPT !.phase = "in", !.peers = p]
  <2>1. /\ h.phase = "checked" /\ adds' = (adds \ {h}) \cup {g}
        /\ flag' = [flag EXCEPT ![At(h)] = TRUE]
        /\ UNCHANGED <<role, list, boots, stops, smooth>>
    BY <1>1, <2>0 DEF Enter, Becomes
  <2>2. p \in Seq(Server) /\ At(h) \notin ToSet(p)
    BY <2>0, ContactFacts
  <2>3. /\ g \in Add /\ Counted(g) /\ At(g) = At(h) /\ g.peers = p
        /\ g.phase = "in" /\ g.sync = "none"
    BY <1>0, <2>1, <2>2, EnterRecord
  <2> HIDE DEF g
  <2>4. Runs(g)'
    BY <1>0, <2>1, <2>2, <2>3 DEF Runs
  <2>5. adds' \subseteq Add /\ HandlerInv'
    BY <2>1, <2>3, <2>4, SomeBecome
  <2>6. flag' \in [Server -> BOOLEAN]
    BY <1>0, <2>1 DEF TypeOK
  <2> QED BY <1>0, <2>1, <2>5, <2>6 DEF TypeInv, TypeOK, ListInv
<1>2. CASE SyncRefused(h)
  <2> DEFINE g == [h EXCEPT !.i = h.i + 1]
  <2>1. /\ Calling(h) /\ adds' = (adds \ {h}) \cup {g}
        /\ UNCHANGED <<role, list, flag, boots, stops, smooth>>
    BY <1>0, <1>2 DEF SyncRefused, Becomes, Add
  <2>2. /\ g \in Add /\ Counted(g) /\ At(g) = At(h) /\ g.peers = h.peers
        /\ g.phase = "in" /\ g.sync = "none" /\ h.phase = "in"
    BY <1>0, <2>1, SkipRecord DEF Calling
  <2> HIDE DEF g
  <2>3. Runs(g)'
    BY <1>0, <2>1, <2>2 DEF Runs
  <2>4. adds' \subseteq Add /\ HandlerInv'
    BY <2>1, <2>2, <2>3, SomeBecome
  <2> QED BY <1>0, <2>1, <2>4 DEF TypeInv, TypeOK, ListInv
<1>3. CASE SyncCheck(h)
  <2> DEFINE g == [h EXCEPT !.sync = "checked"]
  <2>1. /\ Calling(h) /\ role[Peer(h)] = "serving" /\ adds' = (adds \ {h}) \cup {g}
        /\ UNCHANGED <<role, list, flag, boots, stops, smooth>>
    BY <1>3 DEF SyncCheck, Becomes
  <2>2. /\ g \in Add /\ Counted(g) /\ At(g) = At(h) /\ g.peers = h.peers
        /\ g.phase = "in" /\ h.phase = "in" /\ Peer(g) = Peer(h)
    BY <1>0, <2>1, CheckRecord DEF Calling
  <2> HIDE DEF g
  <2>3. Runs(g)'
    BY <1>0, <2>1, <2>2 DEF Runs
  <2>4. adds' \subseteq Add /\ HandlerInv'
    BY <2>1, <2>2, <2>3, SomeBecome
  <2> QED BY <1>0, <2>1, <2>4 DEF TypeInv, TypeOK, ListInv
<1>4. CASE SyncTake(h)
  <2> DEFINE g == [h EXCEPT !.sync = "taken", !.taken = h.taken \cup {Peer(h)}]
             l == BootList(h.joiner)
  <2>1. /\ h.sync = "checked" /\ adds' = (adds \ {h}) \cup {g}
        /\ flag' = [flag EXCEPT ![Peer(h)] = TRUE]
        /\ list' = [list EXCEPT ![Peer(h)] = l]
        /\ UNCHANGED <<role, boots, stops, smooth>>
    BY <1>0, <1>4 DEF SyncTake, Becomes, Add
  <2>2. /\ g \in Add /\ Counted(g) /\ At(g) = At(h) /\ g.peers = h.peers
        /\ g.phase = h.phase /\ g.sync = "taken" /\ Peer(g) = Peer(h)
    BY <1>0, <2>1, TakeRecord
  <2>3. l \in Seq(Server) /\ IsInjective(l) /\ Original \subseteq ToSet(l)
    BY <1>0, AddFacts, Lists
  <2>4. Peer(h) \in Server /\ role[Peer(h)] = "serving"
    BY <1>0, <2>1, AddFacts DEF Counted, Runs
  <2> HIDE DEF g, l
  <2>5. Runs(g)'
    BY <1>0, <2>1, <2>2 DEF Runs
  <2>6. adds' \subseteq Add /\ HandlerInv'
    BY <2>1, <2>2, <2>5, SomeBecome
  <2>7. flag' \in [Server -> BOOLEAN] /\ list' \in [Server -> Seq(Server)]
    BY <1>0, <2>1, <2>3 DEF TypeOK
  <2>8. ListInv'
    BY <1>0, <2>1, <2>3, <2>4 DEF ListInv, TypeOK
  <2> QED BY <1>0, <2>1, <2>6, <2>7, <2>8 DEF TypeInv, TypeOK
<1>5. CASE SyncDone(h)
  <2> DEFINE g == Answered(h)
  <2>1. /\ h.sync = "taken" /\ adds' \subseteq (adds \ {h}) \cup {g}
        /\ flag' = [flag EXCEPT ![Peer(h)] = FALSE]
        /\ UNCHANGED <<role, list, boots, stops, smooth>>
    BY <1>5 DEF SyncDone, Kept
  <2>2. /\ g \in Add /\ Counted(g) /\ At(g) = At(h) /\ g.peers = h.peers
        /\ g.phase = h.phase /\ g.sync = "none"
    BY <1>0, <2>1, AnsweredRecord
  <2> HIDE DEF g
  <2>3. Runs(g)'
    BY <1>0, <2>1, <2>2 DEF Runs
  <2>4. adds' \subseteq Add /\ HandlerInv'
    BY <2>1, <2>2, <2>3, SomeBecome
  <2>5. flag' \in [Server -> BOOLEAN]
    BY <1>0, <2>1 DEF TypeOK
  <2> QED BY <1>0, <2>1, <2>4, <2>5 DEF TypeInv, TypeOK, ListInv
<1> QED BY <1>1, <1>2, <1>3, <1>4, <1>5

LEMMA EndType ==
    ASSUME TypeInv, NEW h \in adds, Succeed(h) \/ Fail(h) \/ Receive(h)
    PROVE  TypeInv'
<1>0. /\ h \in Add /\ Counted(h) /\ Runs(h) /\ TypeOK /\ HandlerInv /\ ListInv
      /\ h.joiner \in Joiner /\ h.joiner \in Server /\ At(h) \in Server
  BY HandlerFacts, AddFacts, Lists DEF TypeInv
<1>1. flag' \in [Server -> BOOLEAN]
  BY <1>0 DEF Succeed, Fail, Receive, Unlock, TypeOK
<1>2. CASE Succeed(h)
  <2> DEFINE l == BootList(h.joiner)
             g == [h EXCEPT !.phase = "done"]
  <2>1. /\ list' = [list EXCEPT ![At(h)] = l] /\ h.phase = "in"
        /\ adds' \subseteq (adds \ {h}) \cup {g} /\ Ended(h) /\ AllSynced(h)
        /\ UNCHANGED <<role, boots, stops, smooth>>
    BY <1>2 DEF Succeed, Adopt, Ended, Kept
  <2>2. l \in Seq(Server) /\ IsInjective(l) /\ Original \subseteq ToSet(l)
    BY <1>0, Lists
  <2>3. /\ g \in Add /\ Counted(g) /\ At(g) = At(h) /\ g.peers = h.peers
        /\ g.phase = "done" /\ g.sync = "none"
    BY <1>0, <2>1, DoneRecord
  <2> HIDE DEF l, g
  <2>4. list' \in [Server -> Seq(Server)]
    BY <1>0, <2>1, <2>2 DEF TypeOK
  <2>5. role[At(h)] = "serving"
    BY <1>0, <2>1 DEF Runs
  <2>6. ListInv'
    BY <1>0, <2>1, <2>2, <2>5 DEF ListInv, TypeOK
  <2>7. Runs(g)'
    BY <1>0, <2>3 DEF Runs
  <2>8. adds' \subseteq Add /\ HandlerInv'
    BY <2>1, <2>3, <2>7, SomeBecome
  <2> QED BY <1>0, <1>1, <2>1, <2>4, <2>6, <2>8 DEF TypeInv, TypeOK
<1>3. CASE Fail(h)
  <2>1. adds' = adds \ {h} /\ smooth' = FALSE /\ UNCHANGED <<role, list, boots, stops>>
    BY <1>3 DEF Fail
  <2>2. adds' \subseteq Add /\ HandlerInv'
    <3>1. ASSUME NEW k \in adds' PROVE k \in Add /\ Counted(k) /\ Runs(k)'
      BY <2>1, <3>1, HandlerFacts, RunsKept
    <3> QED BY <3>1 DEF HandlerInv
  <2> QED BY <1>0, <1>1, <2>1, <2>2 DEF TypeInv, TypeOK, ListInv
<1>4. CASE Receive(h)
  <2>1. /\ adds' = adds \ {h} /\ role' = [role EXCEPT ![h.joiner] = "serving"]
        /\ UNCHANGED <<list, boots, stops, smooth>>
    BY <1>4 DEF Receive
  <2>2. /\ role' \in [Server -> {"down", "joining", "serving"}]
        /\ \A s \in Server : role[s] = "serving" => role'[s] = "serving"
        /\ \A s \in Server : role'[s] # "serving" => role[s] # "serving"
    BY <1>0, <2>1 DEF TypeOK
  <2>3. adds' \subseteq Add /\ HandlerInv'
    <3>1. ASSUME NEW k \in adds' PROVE k \in Add /\ Counted(k) /\ Runs(k)'
      BY <2>1, <2>2, <3>1, HandlerFacts, RunsKept
    <3> QED BY <3>1 DEF HandlerInv
  <2>4. ListInv'
    BY <1>0, <2>1, <2>2 DEF ListInv
  <2> QED BY <1>0, <1>1, <2>1, <2>2, <2>3, <2>4 DEF TypeInv, TypeOK
<1> QED BY <1>2, <1>3, <1>4

\* A process ends; who waited for an answer of it is left with a broken call.
LEMMA KillType ==
    ASSUME TypeInv, NEW s \in Server, Kill(s), stops' \in 0..MaxStops
    PROVE  TypeInv'
<1>0. TypeOK /\ HandlerInv /\ ListInv
  BY DEF TypeInv
<1>1. /\ role' = [role EXCEPT ![s] = "down"] /\ list' = [list EXCEPT ![s] = BootList(s)]
      /\ flag' = [flag EXCEPT ![s] = FALSE] /\ smooth' = FALSE /\ UNCHANGED boots
  BY DEF Kill
<1>b. PICK sent \in SUBSET {h \in adds : h.phase = "done" /\ At(h) = s} :
          adds' = Kept({Broken(h, s, sent) : h \in adds}, role')
  BY DEF Kill
<1>a. adds' \subseteq {Broken(h, s, sent) : h \in adds}
  BY <1>b DEF Kept
<1>2. /\ role' \in [Server -> {"down", "joining", "serving"}]
      /\ flag' \in [Server -> BOOLEAN]
      /\ list' \in [Server -> Seq(Server)]
  BY <1>0, <1>1, Lists DEF TypeOK
<1>3. ListInv'
  BY <1>0, <1>1, Lists DEF ListInv, TypeOK
<1>4. ASSUME NEW g \in adds' PROVE g \in Add /\ Counted(g) /\ Runs(g)'
  <2>1. PICK h \in adds : g = Broken(h, s, sent)
    BY <1>a, <1>4
  <2>2. h \in Add /\ Counted(h) /\ Runs(h)
    BY HandlerFacts
  <2>3. /\ g \in Add /\ Counted(g) /\ At(g) = At(h) /\ g.peers = h.peers /\ Peer(g) = Peer(h)
        /\ g.phase \in {"checked", "in"} => g.phase = h.phase /\ At(h) # s
        /\ g.sync \in {"checked", "taken"} => g.sync = h.sync /\ Peer(h) # s
    BY <1>b, <2>1, <2>2, BrokenRecord
  <2>4. At(h) \in Server /\ (h.sync # "none" => Peer(h) \in Server)
    BY <2>2, AddFacts DEF Counted
  <2>5. Runs(g)'
    BY <1>0, <1>1, <2>2, <2>3, <2>4 DEF Runs, TypeOK
  <2> QED BY <2>3, <2>5
<1>5. adds' \subseteq Add /\ HandlerInv'
  BY <1>4 DEF HandlerInv
<1> QED BY <1>0, <1>1, <1>2, <1>3, <1>5 DEF TypeInv, TypeOK

LEMMA ProcessType ==
    ASSUME TypeInv,
           \/ \E s \in Server : Crash(s) \/ Panic(s) \/ Boot(s)
           \/ \E h \in adds : ContactDies(h) \/ JoinerDies(h)
    PROVE  TypeInv'
<1>0. TypeOK /\ HandlerInv /\ ListInv
  BY DEF TypeInv
<1>1. ASSUME NEW s \in Server, Crash(s) PROVE TypeInv'
  <2>1. stops' \in 0..MaxStops
    <3>1. stops' = stops + 1 /\ stops < MaxStops /\ stops \in 0..MaxStops
      BY <1>0, <1>1 DEF Crash, TypeOK
    <3> QED BY <3>1, ConfiguredAssumption
  <2> QED BY <1>1, <2>1, KillType DEF Crash
<1>2. ASSUME NEW s \in Server, Panic(s) PROVE TypeInv'
  BY <1>0, <1>2, KillType DEF Panic, TypeOK
<1>3. ASSUME NEW h \in adds, ContactDies(h) PROVE TypeInv'
  <2>1. At(h) \in Server
    BY HandlerFacts, AddFacts
  <2> QED BY <1>0, <1>3, <2>1, KillType DEF ContactDies, TypeOK
<1>4. ASSUME NEW h \in adds, JoinerDies(h) PROVE TypeInv'
  <2>1. /\ role[h.joiner] = "joining" /\ role' = [role EXCEPT ![h.joiner] = "down"]
        /\ adds' \subseteq adds /\ UNCHANGED <<list, flag, boots, stops, smooth>>
    BY <1>4 DEF JoinerDies, Kept, Live, Waits
  <2>2. h.joiner \in Server
    BY HandlerFacts, AddFacts, Lists
  <2>3. /\ role' \in [Server -> {"down", "joining", "serving"}]
        /\ \A s \in Server : role[s] = "serving" <=> role'[s] = "serving"
    BY <1>0, <2>1, <2>2 DEF TypeOK
  <2>4. ASSUME NEW k \in adds' PROVE k \in Add /\ Counted(k) /\ Runs(k)'
    BY <2>1, <2>3, <2>4, HandlerFacts, RunsKept
  <2>5. adds' \subseteq Add /\ HandlerInv'
    BY <2>4 DEF HandlerInv
  <2>6. ListInv'
    BY <1>0, <2>1, <2>3 DEF ListInv
  <2> QED BY <1>0, <2>1, <2>3, <2>5, <2>6 DEF TypeInv, TypeOK
<1>5. ASSUME NEW s \in Server, Boot(s) PROVE TypeInv'
  <2>1. /\ role[s] = "down" /\ UNCHANGED <<list, flag, adds, stops, smooth>>
        /\ \/ role' = [role EXCEPT ![s] = "joining"]
           \/ role' = [role EXCEPT ![s] = "serving"]
    BY <1>5 DEF Boot
  <2>2. boots' \in [Joiner -> 0..MaxBoots]
    <3>1. CASE s \in Joiner
      <4>1. boots[s] < MaxBoots /\ boots' = [boots EXCEPT ![s] = boots[s] + 1]
        BY <1>0, <1>5, <3>1 DEF Boot, TypeOK
      <4>2. boots \in [Joiner -> 0..MaxBoots]
        BY <1>0 DEF TypeOK
      <4>3. boots[s] + 1 \in 0..MaxBoots
        BY <3>1, <4>1, <4>2, ConfiguredAssumption
      <4> DEFINE n == boots[s] + 1
      <4> HIDE DEF n
      <4> QED BY <4>1, <4>2, <4>3 DEF n
    <3>2. CASE s \notin Joiner
      BY <1>0, <1>5, <3>2 DEF Boot, TypeOK
    <3> QED BY <3>1, <3>2
  <2>3. /\ role' \in [Server -> {"down", "joining", "serving"}]
        /\ \A t \in Server : role[t] = "serving" => role'[t] = "serving"
    BY <1>0, <2>1 DEF TypeOK
  <2>4. ASSUME NEW k \in adds' PROVE k \in Add /\ Counted(k) /\ Runs(k)'
    BY <2>1, <2>3, <2>4, HandlerFacts, RunsKept
  <2>5. adds' \subseteq Add /\ HandlerInv'
    BY <2>4 DEF HandlerInv
  <2>6. ListInv'
    BY <1>0, <2>1, <2>3 DEF ListInv
  <2> QED BY <1>0, <2>1, <2>2, <2>3, <2>5, <2>6 DEF TypeInv, TypeOK
<1> QED BY <1>1, <1>2, <1>3, <1>4, <1>5

LEMMA StepType == TypeInv /\ [Next]_vars => TypeInv'
<1> SUFFICES ASSUME TypeInv, [Next]_vars PROVE TypeInv'
  OBVIOUS
<1>1. CASE UNCHANGED vars
  BY <1>1 DEF vars, TypeInv, TypeOK, HandlerInv, Counted, Runs, ListInv
<1>2. ASSUME NEW h \in adds, HandlerStep(h) PROVE TypeInv'
  BY <1>2, HandleType, EndType, ProcessType DEF HandlerStep
<1>3. ASSUME NEW j \in Joiner, Ask(j) PROVE TypeInv'
  BY <1>3, AskType
<1>4. CASE \E s \in Server : Crash(s) \/ Panic(s) \/ Boot(s)
  BY <1>4, ProcessType
<1> QED BY <1>1, <1>2, <1>3, <1>4 DEF Next

LEMMA InitType == Init => TypeInv
<1> SUFFICES ASSUME Init PROVE TypeInv
  OBVIOUS
<1>1. adds = {} /\ TypeOK
  BY Lists, ConfiguredAssumption DEF Init, TypeOK
<1>2. ListInv
  BY Lists DEF Init, ListInv
<1> QED BY <1>1, <1>2 DEF TypeInv, HandlerInv

\* Roles, lists, flags and handlers are as Membership declares them, for any
\* servers and any lists they are built with.
THEOREM MembershipTypeCorrect == Spec => []TypeOK
<1>1. Init => TypeInv
  BY InitType
<1>2. TypeInv /\ [Next]_vars => TypeInv'
  BY StepType
<1>3. TypeInv => TypeOK
  BY DEF TypeInv
<1> QED BY <1>1, <1>2, <1>3, PTL DEF Spec

-----------------------------------------------------------------------------
(* Who holds IsMemberChanging. *)

\* h is the handler that will reset the flag of s.
Holds(h, s) ==
    \/ h.phase = "in" /\ At(h) = s
    \/ h.sync = "taken" /\ Peer(h) = s

\* Of a change of one handler: what h held, g holds, or its flag is reset.
LEMMA FlagMoves ==
    ASSUME TypeInv, FlagIsHeld, NEW h \in adds,
           \A k \in adds \ {h} : k \in adds',
           \A s \in Server : flag'[s] =>
               (\E g \in adds' : Holds(g, s)) \/ (flag[s] /\ ~Holds(h, s))
    PROVE  FlagIsHeld'
<1> SUFFICES ASSUME NEW s \in Server, flag'[s] PROVE \E g \in adds' : Holds(g, s)
  BY DEF FlagIsHeld, Holds
<1>1. CASE flag[s] /\ ~Holds(h, s)
  <2>1. PICK k \in adds : Holds(k, s)
    BY <1>1 DEF FlagIsHeld, Holds
  <2> QED BY <1>1, <2>1
<1> QED BY <1>1

LEMMA HandleFlag ==
    ASSUME TypeInv, FlagIsHeld, NEW h \in adds,
           Enter(h) \/ SyncRefused(h) \/ SyncCheck(h) \/ SyncTake(h) \/ SyncDone(h)
    PROVE  FlagIsHeld'
<1>0. /\ h \in Add /\ Counted(h) /\ flag \in [Server -> BOOLEAN]
      /\ At(h) \in Server /\ (h.sync # "none" => Peer(h) \in Server)
  <2>1. h \in Add /\ Counted(h)
    BY HandlerFacts
  <2> QED BY <2>1, AddFacts DEF TypeInv, TypeOK, Counted
<1>1. CASE Enter(h)
  <2>0. PICK p : p = Peers(At(h))
    OBVIOUS
  <2> DEFINE g == [h EXCEPT !.phase = "in", !.peers = p]
  <2>1. /\ h.phase = "checked" /\ adds' = (adds \ {h}) \cup {g}
        /\ flag' = [flag EXCEPT ![At(h)] = TRUE]
    BY <1>1, <2>0 DEF Enter, Becomes
  <2>2. At(g) = At(h) /\ g.phase = "in"
    <3>1. p \in Seq(Server)
      BY <2>0, ContactFacts
    <3> QED BY <1>0, <2>1, <3>1, EnterRecord
  <2>3. h.sync # "taken"
    BY <1>0, <2>1 DEF Counted
  <2> HIDE DEF g
  <2>4. Holds(g, At(h)) /\ g \in adds'
    BY <2>1, <2>2 DEF Holds
  <2>5. \A s \in Server : ~Holds(h, s)
    BY <2>1, <2>3 DEF Holds
  <2>6. \A s \in Server \ {At(h)} : flag'[s] = flag[s]
    BY <1>0, <2>1
  <2> QED BY <2>1, <2>4, <2>5, <2>6, FlagMoves
<1>2. CASE SyncRefused(h)
  <2> DEFINE g == [h EXCEPT !.i = h.i + 1]
  <2>1. Calling(h) /\ adds' = (adds \ {h}) \cup {g} /\ UNCHANGED flag
    BY <1>0, <1>2 DEF SyncRefused, Becomes, Add
  <2>2. At(g) = At(h) /\ g.phase = "in" /\ h.sync = "none"
    BY <1>0, <2>1, SkipRecord DEF Calling
  <2> HIDE DEF g
  <2>3. \A s \in Server : Holds(h, s) => Holds(g, s)
    BY <2>2 DEF Holds
  <2> QED BY <2>1, <2>3, FlagMoves
<1>3. CASE SyncCheck(h)
  <2> DEFINE g == [h EXCEPT !.sync = "checked"]
  <2>1. Calling(h) /\ adds' = (adds \ {h}) \cup {g} /\ UNCHANGED flag
    BY <1>3 DEF SyncCheck, Becomes
  <2>2. At(g) = At(h) /\ g.phase = "in" /\ h.sync = "none"
    BY <1>0, <2>1, CheckRecord DEF Calling
  <2> HIDE DEF g
  <2>3. \A s \in Server : Holds(h, s) => Holds(g, s)
    BY <2>2 DEF Holds
  <2> QED BY <2>1, <2>3, FlagMoves
<1>4. CASE SyncTake(h)
  <2> DEFINE g == [h EXCEPT !.sync = "taken", !.taken = h.taken \cup {Peer(h)}]
  <2>1. /\ h.sync = "checked" /\ adds' = (adds \ {h}) \cup {g}
        /\ flag' = [flag EXCEPT ![Peer(h)] = TRUE]
    BY <1>0, <1>4 DEF SyncTake, Becomes, Add
  <2>2. At(g) = At(h) /\ g.phase = h.phase /\ g.sync = "taken" /\ Peer(g) = Peer(h)
    BY <1>0, <2>1, TakeRecord
  <2> HIDE DEF g
  <2>3. \A s \in Server : Holds(h, s) => Holds(g, s)
    BY <2>1, <2>2 DEF Holds
  <2>4. Holds(g, Peer(h)) /\ g \in adds'
    BY <2>1, <2>2 DEF Holds
  <2>5. \A s \in Server \ {Peer(h)} : flag'[s] = flag[s]
    BY <1>0, <2>1
  <2> QED BY <2>1, <2>3, <2>4, <2>5, FlagMoves
<1>5. CASE SyncDone(h)
  <2> DEFINE g == Answered(h)
  <2>1. /\ h.sync = "taken" /\ adds' = Kept((adds \ {h}) \cup {g}, role)
        /\ flag' = [flag EXCEPT ![Peer(h)] = FALSE]
    BY <1>5 DEF SyncDone
  <2>2. At(g) = At(h) /\ g.phase = h.phase /\ g.sync = "none" /\ Peer(h) \in Server
    BY <1>0, <2>1, AnsweredRecord
  <2> HIDE DEF g
  <2>3. ASSUME NEW s \in Server, flag'[s] PROVE \E k \in adds' : Holds(k, s)
    <3>1. flag[s] /\ s # Peer(h)
      BY <1>0, <2>1, <2>2, <2>3
    <3>2. PICK k \in adds : Holds(k, s)
      BY <3>1 DEF FlagIsHeld, Holds
    <3>3. CASE k # h
      <4>1. k.phase = "in" \/ k.sync = "taken"
        BY <3>2 DEF Holds
      <4>2. k \in adds'
        BY <2>1, <3>3, <4>1 DEF Kept
      <4> QED BY <3>2, <4>2
    <3>4. CASE k = h
      <4>1. h.phase = "in" /\ At(h) = s
        BY <3>1, <3>2, <3>4 DEF Holds
      <4>2. g \in adds' /\ Holds(g, s)
        BY <2>1, <2>2, <4>1 DEF Kept, Holds
      <4> QED BY <4>2
    <3> QED BY <3>3, <3>4
  <2> QED BY <2>3 DEF FlagIsHeld, Holds
<1> QED BY <1>1, <1>2, <1>3, <1>4, <1>5

LEMMA KillFlag ==
    ASSUME TypeInv, FlagIsHeld, NEW s \in Server, Kill(s)
    PROVE  FlagIsHeld'
<1> SUFFICES ASSUME NEW t \in Server, flag'[t] PROVE \E g \in adds' : Holds(g, t)
  BY DEF FlagIsHeld, Holds
<1>1. /\ flag' = [flag EXCEPT ![s] = FALSE] /\ flag \in [Server -> BOOLEAN]
  BY DEF Kill, TypeInv, TypeOK
<1>9. PICK sent \in SUBSET {h \in adds : h.phase = "done" /\ At(h) = s} :
          adds' = Kept({Broken(h, s, sent) : h \in adds}, role')
  BY DEF Kill
<1>2. flag[t] /\ t # s
  BY <1>1
<1>3. PICK h \in adds : Holds(h, t)
  BY <1>2 DEF FlagIsHeld, Holds
<1> DEFINE g == Broken(h, s, sent)
<1>4. h \in Add /\ Counted(h)
  BY HandlerFacts
<1>5. /\ At(g) = At(h) /\ Peer(g) = Peer(h)
      /\ h.phase = "in" /\ At(h) # s => g.phase = "in"
      /\ h.sync = "taken" /\ Peer(h) # s => g.sync = "taken"
  BY <1>4, <1>9, BrokenRecord
<1>6. g \in {Broken(k, s, sent) : k \in adds}
  OBVIOUS
<1> HIDE DEF g
<1>7. Holds(g, t)
  BY <1>2, <1>3, <1>5 DEF Holds
<1>8. g \in adds'
  BY <1>6, <1>7, <1>9 DEF Kept, Holds
<1> QED BY <1>7, <1>8

LEMMA FlagStep ==
    ASSUME TypeInv, FlagIsHeld, [Next]_vars
    PROVE  FlagIsHeld'
<1>1. CASE UNCHANGED <<flag, adds>>
  BY <1>1 DEF FlagIsHeld, Peer, At, Contact
<1>2. ASSUME NEW h \in adds, Succeed(h) \/ Fail(h) PROVE FlagIsHeld'
  <2>1. /\ flag' = [flag EXCEPT ![At(h)] = FALSE] /\ h.phase = "in" /\ h.sync = "none"
        /\ \A k \in adds \ {h} : k.phase = "in" \/ k.sync = "taken" => k \in adds'
    BY <1>2 DEF Succeed, Fail, Unlock, Ended, Kept
  <2>2. flag \in [Server -> BOOLEAN] /\ At(h) \in Server
    BY HandlerFacts, AddFacts DEF TypeInv, TypeOK
  <2>3. \A s \in Server : flag'[s] => flag[s] /\ ~Holds(h, s)
    BY <2>1, <2>2 DEF Holds
  <2> SUFFICES ASSUME NEW t \in Server, flag'[t] PROVE \E g \in adds' : Holds(g, t)
    BY DEF FlagIsHeld, Holds
  <2>4. PICK g \in adds : Holds(g, t) /\ g # h
    BY <2>3 DEF FlagIsHeld, Holds
  <2>5. g \in adds'
    BY <2>1, <2>4 DEF Holds
  <2> QED BY <2>4, <2>5
<1>9. ASSUME NEW h \in adds, Receive(h) PROVE FlagIsHeld'
  <2>1. adds' = adds \ {h} /\ UNCHANGED flag /\ h.phase = "done"
    BY <1>9 DEF Receive
  <2>2. h.sync = "none"
    BY <2>1, HandlerFacts DEF Counted
  <2>3. \A s \in Server : ~Holds(h, s)
    BY <2>1, <2>2 DEF Holds
  <2> QED BY <2>1, <2>3, FlagMoves
<1>3. ASSUME NEW h \in adds, ContactDies(h) PROVE FlagIsHeld'
  BY <1>3, HandlerFacts, AddFacts, KillFlag DEF ContactDies
<1>4. ASSUME NEW h \in adds, JoinerDies(h) PROVE FlagIsHeld'
  <2>1. adds' = Kept(adds, role') /\ UNCHANGED flag
    BY <1>4 DEF JoinerDies
  <2> SUFFICES ASSUME NEW t \in Server, flag'[t] PROVE \E g \in adds' : Holds(g, t)
    BY DEF FlagIsHeld, Holds
  <2>2. PICK g \in adds : Holds(g, t)
    BY <2>1 DEF FlagIsHeld, Holds
  <2>3. g \in adds'
    BY <2>1, <2>2 DEF Kept, Holds
  <2> QED BY <2>2, <2>3
<1>5. ASSUME NEW j \in Joiner, Ask(j) PROVE FlagIsHeld'
  <2>1. adds \subseteq adds' /\ UNCHANGED flag
    BY <1>5 DEF Ask
  <2> QED BY <2>1 DEF FlagIsHeld, Peer, At, Contact
<1>6. ASSUME NEW s \in Server, Crash(s) \/ Panic(s) \/ Boot(s) PROVE FlagIsHeld'
  BY <1>1, <1>6, KillFlag DEF Crash, Panic, Boot
<1>7. CASE UNCHANGED vars
  BY <1>1, <1>7 DEF vars
<1>8. ASSUME NEW h \in adds, HandlerStep(h) PROVE FlagIsHeld'
  BY <1>2, <1>3, <1>4, <1>8, <1>9, HandleFlag DEF HandlerStep
<1> QED BY <1>5, <1>6, <1>7, <1>8 DEF Next

LEMMA TypeAlways == Spec => []TypeInv
BY InitType, StepType, PTL DEF Spec

\* IsMemberChanging of a server is never left set: a handler that runs there,
\* or that an answer is still owed to, is going to reset it, whoever refuses,
\* fails, dies or comes between.
THEOREM MembershipFlagIsHeld == Spec => []FlagIsHeld
<1>1. Init => FlagIsHeld
  BY DEF Init, FlagIsHeld
<1>2. TypeInv /\ FlagIsHeld /\ [Next]_vars => FlagIsHeld'
  BY FlagStep
<1> QED BY <1>1, <1>2, TypeAlways, PTL DEF Spec

-----------------------------------------------------------------------------
(* Who begins to serve. *)

LEMMA JoinStep ==
    ASSUME TypeInv, [Next]_vars, NEW j \in Joiner, role[j] = "joining", role'[j] = "serving"
    PROVE  \E h \in adds : h.joiner = j /\ Live(h) /\ ToSet(h.peers) \subseteq h.taken
<1>0. /\ role \in [Server -> {"down", "joining", "serving"}] /\ j \in Server
      /\ Original \cap Joiner = {}
  BY Lists DEF TypeInv, TypeOK
<1>1. ASSUME NEW h \in adds, Receive(h)
      PROVE  h.joiner = j /\ Live(h) /\ ToSet(h.peers) \subseteq h.taken
  <2>1. h \in Add /\ Counted(h) /\ h.joiner \in Server
    BY HandlerFacts, AddFacts, Lists
  <2>2. role' = [role EXCEPT ![h.joiner] = "serving"] /\ h.phase = "done" /\ Live(h)
    BY <1>1 DEF Receive
  <2>3. h.joiner = j
    BY <1>0, <2>1, <2>2
  <2> QED BY <2>1, <2>2, <2>3 DEF Counted
<1>2. ASSUME NEW s \in Server, Kill(s) PROVE FALSE
  BY <1>0, <1>2 DEF Kill
<1>3. ASSUME NEW h \in adds, ContactDies(h) PROVE FALSE
  BY <1>2, <1>3, HandlerFacts, AddFacts DEF ContactDies
<1>4. ASSUME NEW h \in adds, JoinerDies(h) PROVE FALSE
  <2>1. h.joiner \in Server /\ role' = [role EXCEPT ![h.joiner] = "down"]
    BY <1>4, HandlerFacts, AddFacts, Lists DEF JoinerDies
  <2> QED BY <1>0, <2>1
<1>5. ASSUME NEW s \in Server, Crash(s) \/ Panic(s) \/ Boot(s) PROVE FALSE
  <2>1. CASE Boot(s)
    BY <1>0, <2>1 DEF Boot
  <2> QED BY <1>2, <1>5, <2>1 DEF Crash, Panic
<1>6. CASE UNCHANGED role
  BY <1>6
<1>7. ASSUME NEW h \in adds, HandlerStep(h), ~Receive(h) PROVE FALSE
  BY <1>3, <1>4, <1>6, <1>7
     DEF HandlerStep, Enter, SyncRefused, SyncCheck, SyncTake, SyncDone, Succeed, Fail
<1>8. ASSUME NEW k \in Joiner, Ask(k) PROVE FALSE
  BY <1>6, <1>8 DEF Ask
<1> QED BY <1>1, <1>5, <1>6, <1>7, <1>8 DEF Next, vars

\* A joiner begins to serve only when every peer that its contact knew as the
\* change began has taken its list, in this very change.
THEOREM MembershipJoinedIsKnown == Spec => JoinedIsKnown
<1> DEFINE Known == \A j \in Joiner :
               role[j] = "joining" /\ role'[j] = "serving" =>
                  \E h \in adds : h.joiner = j /\ Live(h) /\ ToSet(h.peers) \subseteq h.taken
<1>1. TypeInv /\ [Next]_vars => [Known]_vars
  BY JoinStep
<1> QED BY <1>1, TypeAlways, PTL DEF Spec, JoinedIsKnown

-----------------------------------------------------------------------------
(* When all have one list. *)

\* A change whose handler becomes g goes on as it was.
LEMMA SameChange ==
    ASSUME OneChange, smooth, NEW h \in adds, NEW g, adds' = {g}, UNCHANGED <<role, list>>,
           At(g) = At(h), g.joiner = h.joiner, g.taken = h.taken,
           g.phase \in {"checked", "in"},
           g.phase = "in" => ToSet(list[At(h)]) \ {At(h)} \subseteq ToSet(g.peers)
    PROVE  OneChange'
<1>1. adds = {h}
  BY DEF OneChange
<1>2. /\ \A s \in Original : role'[s] = "serving"
      /\ \A k \in adds' :
           /\ k.phase # "broken"
           /\ \A s \in k.taken : list'[s] = BootList(k.joiner)
           /\ At(k) \notin k.taken
           /\ k.phase = "in" => ToSet(list'[At(k)]) \ {At(k)} \subseteq ToSet(k.peers)
           /\ k.phase # "done"
  BY <1>1 DEF OneChange
<1>3. ASSUME NEW s \in Server, NEW t \in Server, Own(s)', Own(t)',
             \A k \in adds' : s \notin k.taken /\ t \notin k.taken
      PROVE  list'[s] = list'[t]
  <2>1. Own(s) /\ Own(t) /\ s \notin h.taken /\ t \notin h.taken
    BY <1>3 DEF Own
  <2> QED BY <1>1, <2>1 DEF OneChange
<1> QED BY <1>2, <1>3 DEF OneChange

LEMMA AskChange ==
    ASSUME TypeInv, OneChange, NEW j \in Joiner, Ask(j)
    PROVE  OneChange'
<1> SUFFICES ASSUME smooth' PROVE OneChange'
  BY DEF OneChange
<1>0. PICK g : g = [joiner |-> j, try |-> boots[j], phase |-> "checked", peers |-> <<>>,
                    i |-> 1, ok |-> 0, sync |-> "none", taken |-> {}]
  OBVIOUS
<1>1. adds = {} /\ smooth /\ adds' = {g} /\ UNCHANGED <<role, list>>
  BY <1>0 DEF Ask
<1>2. g.phase = "checked" /\ g.taken = {}
  BY <1>0
<1>3. ASSUME NEW s \in Server, NEW t \in Server, Own(s)', Own(t)'
      PROVE  list'[s] = list'[t]
  BY <1>1, <1>3 DEF OneChange, Own
<1> QED BY <1>1, <1>2, <1>3 DEF OneChange

LEMMA TakeChange ==
    ASSUME TypeInv, OneChange, smooth, NEW h \in adds, SyncTake(h)
    PROVE  OneChange'
<1> DEFINE g == [h EXCEPT !.sync = "taken", !.taken = h.taken \cup {Peer(h)}]
           l == BootList(h.joiner)
<1>1. h \in Add /\ Counted(h) /\ Runs(h)
  BY HandlerFacts
<1>2. /\ h.sync = "checked" /\ adds' = (adds \ {h}) \cup {g} /\ UNCHANGED role
      /\ list' = [list EXCEPT ![Peer(h)] = l] /\ list \in [Server -> Seq(Server)]
  BY <1>1 DEF SyncTake, Becomes, Add, TypeInv, TypeOK
<1>3. /\ At(g) = At(h) /\ g.peers = h.peers /\ g.joiner = h.joiner /\ g.phase = h.phase
      /\ g.taken = h.taken \cup {Peer(h)}
  BY <1>1, <1>2, TakeRecord
<1>4. Peer(h) \in Server /\ Peer(h) \in ToSet(h.peers) /\ Peer(h) # At(h) /\ At(h) \in Server
  <2>1. h.i \in 1..Len(h.peers) /\ h.peers \in Seq(Server)
    BY <1>1, <1>2, AddFacts DEF Counted
  <2>2. Peer(h) \in ToSet(h.peers)
    BY <2>1 DEF Peer, ToSet
  <2> QED BY <1>1, <2>1, <2>2, AddFacts DEF Runs
<1>5. h.taken \subseteq Server
  BY <1>1, AddFacts
<1> HIDE DEF g, l
<1>6. adds = {h} /\ adds' = {g}
  BY <1>2 DEF OneChange
<1>7. /\ \A s \in Server \ {Peer(h)} : list'[s] = list[s]
      /\ list'[Peer(h)] = l
  BY <1>2, <1>4
<1>8. /\ h.phase \notin {"broken", "done"} /\ At(h) \notin h.taken
      /\ \A s \in h.taken : list[s] = l
      /\ h.phase = "in" => ToSet(list[At(h)]) \ {At(h)} \subseteq ToSet(h.peers)
      /\ \A s \in Original : role[s] = "serving"
  BY <1>1, <1>2 DEF OneChange, Counted, l
<1>9. \A s \in g.taken : list'[s] = BootList(g.joiner)
  BY <1>3, <1>5, <1>7, <1>8 DEF l
<1>10. g.phase = "in" => ToSet(list'[At(g)]) \ {At(g)} \subseteq ToSet(g.peers)
  BY <1>3, <1>4, <1>7, <1>8
<1>11. ASSUME NEW s \in Server, NEW t \in Server, Own(s)', Own(t)',
              s \notin g.taken, t \notin g.taken
       PROVE  list'[s] = list'[t]
  <2>1. list'[s] = list[s] /\ list'[t] = list[t] /\ s \notin h.taken /\ t \notin h.taken
    BY <1>3, <1>7, <1>11
  <2>2. Own(s) /\ Own(t)
    BY <1>2, <1>11, <2>1 DEF Own
  <2> QED BY <1>6, <2>1, <2>2 DEF OneChange
<1> QED BY <1>2, <1>3, <1>4, <1>6, <1>8, <1>9, <1>10, <1>11 DEF OneChange

LEMMA SucceedChange ==
    ASSUME TypeInv, OneChange, smooth, NEW h \in adds, Succeed(h)
    PROVE  OneChange'
<1> DEFINE l == BootList(h.joiner)
           g == [h EXCEPT !.phase = "done"]
<1>1. h \in Add /\ Counted(h) /\ Runs(h) /\ At(h) \in Original /\ At(h) \in Server
  BY HandlerFacts, AddFacts
<1>2. /\ Ended(h) /\ AllSynced(h) /\ h.phase = "in" /\ UNCHANGED role
      /\ list' = [list EXCEPT ![At(h)] = l] /\ adds' \subseteq (adds \ {h}) \cup {g}
  BY DEF Succeed, Adopt, Ended, Kept
<1>3. adds = {h} /\ adds' \subseteq {g}
  BY <1>2 DEF OneChange
<1>4. /\ At(g) = At(h) /\ g.joiner = h.joiner /\ g.phase = "done" /\ g.taken = h.taken
      /\ ToSet(h.peers) \subseteq h.taken /\ h.taken \subseteq Server
  BY <1>1, <1>2, DoneRecord, AddFacts
<1>5. /\ list \in [Server -> Seq(Server)]
      /\ At(h) \in ToSet(list[At(h)]) /\ role[At(h)] = "serving"
  BY <1>1, <1>2 DEF TypeInv, TypeOK, ListInv, Runs
<1>6. /\ At(h) \notin h.taken /\ \A s \in h.taken : list[s] = l
      /\ ToSet(list[At(h)]) \ {At(h)} \subseteq h.taken
      /\ \A s \in Original : role[s] = "serving"
  BY <1>2, <1>4 DEF OneChange
<1> HIDE DEF g
<1>a. l = BootList(g.joiner)
  BY <1>4
<1> HIDE DEF l
<1>7. /\ \A s \in Server \ {At(h)} : list'[s] = list[s]
      /\ list'[At(h)] = l
  BY <1>1, <1>2, <1>5
<1>8. ASSUME NEW s \in Server, Own(s)' PROVE list'[s] = l
  <2>1. CASE s = At(h)
    BY <1>7, <2>1
  <2>2. CASE s # At(h) /\ s \in h.taken
    BY <1>6, <1>7, <2>2
  <2>3. CASE s # At(h) /\ s \notin h.taken
    <3>1. Own(s) /\ Own(At(h)) /\ list'[s] = list[s]
      BY <1>2, <1>5, <1>7, <1>8, <2>3 DEF Own
    <3>2. list[s] = list[At(h)]
      BY <1>1, <1>3, <1>6, <2>3, <3>1 DEF OneChange
    <3>3. s \in ToSet(list[At(h)])
      BY <3>1, <3>2 DEF Own
    <3> QED BY <1>6, <2>3, <3>3
  <2> QED BY <2>1, <2>2, <2>3
<1>9. \A s \in g.taken : list'[s] = BootList(g.joiner)
  BY <1>4, <1>6, <1>7, <1>a
<1> QED BY <1>2, <1>3, <1>4, <1>6, <1>8, <1>9, <1>a DEF OneChange

\* The joiner that begins to serve has the list of the others.
LEMMA ReceiveChange ==
    ASSUME TypeInv, OneChange, smooth, NEW h \in adds, Receive(h)
    PROVE  OneChange'
<1> DEFINE l == BootList(h.joiner)
<1>1. h.joiner \in Server /\ h.joiner \in Joiner /\ Original \cap Joiner = {}
  BY HandlerFacts, AddFacts, Lists
<1>2. /\ h.phase = "done" /\ role[h.joiner] = "joining" /\ adds' = adds \ {h}
      /\ role' = [role EXCEPT ![h.joiner] = "serving"] /\ UNCHANGED list
  BY DEF Receive, Live, Waits
<1>3. adds' = {}
  BY <1>2 DEF OneChange
<1>4. /\ role \in [Server -> {"down", "joining", "serving"}]
      /\ list[h.joiner] = l
  BY <1>1, <1>2 DEF TypeInv, TypeOK, ListInv
<1>5. /\ \A s \in Server : Own(s) => list[s] = l
      /\ \A s \in Original : role[s] = "serving"
  BY <1>2 DEF OneChange
<1> HIDE DEF l
<1>6. \A s \in Server \ {h.joiner} : role'[s] = role[s]
  BY <1>1, <1>2, <1>4
<1>7. Original \subseteq Server /\ h.joiner \notin Original
  BY <1>1 DEF Server
<1>8. \A s \in Original : role'[s] = "serving"
  BY <1>5, <1>6, <1>7
<1>9. ASSUME NEW s \in Server, Own(s)' PROVE list'[s] = l
  BY <1>2, <1>4, <1>5, <1>6, <1>9 DEF Own
<1> QED BY <1>3, <1>8, <1>9 DEF OneChange

LEMMA ChangeStep ==
    ASSUME TypeInv, OneChange, [Next]_vars
    PROVE  OneChange'
<1> SUFFICES ASSUME smooth' PROVE OneChange'
  BY DEF OneChange
<1>1. CASE UNCHANGED vars
  <2>1. UNCHANGED <<role, list, adds, smooth>>
    BY <1>1 DEF vars
  <2> QED BY <2>1 DEF OneChange, Own, At, Contact, BootList
<1>2. ASSUME NEW h \in adds,
             Enter(h) \/ SyncRefused(h) \/ SyncCheck(h) \/ SyncTake(h) \/ SyncDone(h)
      PROVE  OneChange'
  <2>1. h \in Add /\ Counted(h) /\ smooth
    BY <1>2, HandlerFacts DEF Enter, SyncRefused, SyncCheck, SyncTake, SyncDone
  <2>2. /\ adds = {h} /\ h.phase \in {"checked", "in", "done"}
        /\ h.phase = "in" => ToSet(list[At(h)]) \ {At(h)} \subseteq ToSet(h.peers)
    BY <2>1 DEF OneChange, Add
  <2>3. CASE Enter(h)
    <3>0. PICK p : p = Peers(At(h))
      OBVIOUS
    <3> DEFINE g == [h EXCEPT !.phase = "in", !.peers = p]
    <3>1. h.phase = "checked" /\ adds' = (adds \ {h}) \cup {g} /\ UNCHANGED <<role, list>>
      BY <2>3, <3>0 DEF Enter, Becomes
    <3>2. p \in Seq(Server) /\ ToSet(list[At(h)]) \ {At(h)} \subseteq ToSet(p)
      BY <3>0, ContactFacts
    <3>3. /\ At(g) = At(h) /\ g.peers = p /\ g.joiner = h.joiner
          /\ g.phase = "in" /\ g.taken = {} /\ h.taken = {}
      BY <2>1, <3>1, <3>2, EnterRecord DEF Counted
    <3> HIDE DEF g
    <3> QED BY <2>1, <2>2, <3>1, <3>2, <3>3, SameChange
  <2>4. CASE SyncRefused(h)
    <3> DEFINE g == [h EXCEPT !.i = h.i + 1]
    <3>1. Calling(h) /\ adds' = (adds \ {h}) \cup {g} /\ UNCHANGED <<role, list>>
      BY <2>1, <2>4 DEF SyncRefused, Becomes, Add
    <3>2. /\ At(g) = At(h) /\ g.peers = h.peers /\ g.joiner = h.joiner
          /\ g.phase = "in" /\ g.taken = h.taken /\ h.phase = "in"
      BY <2>1, <3>1, SkipRecord DEF Calling
    <3> HIDE DEF g
    <3> QED BY <2>1, <2>2, <3>1, <3>2, SameChange
  <2>5. CASE SyncCheck(h)
    <3> DEFINE g == [h EXCEPT !.sync = "checked"]
    <3>1. Calling(h) /\ adds' = (adds \ {h}) \cup {g} /\ UNCHANGED <<role, list>>
      BY <2>5 DEF SyncCheck, Becomes
    <3>2. /\ At(g) = At(h) /\ g.peers = h.peers /\ g.joiner = h.joiner
          /\ g.phase = "in" /\ g.taken = h.taken /\ h.phase = "in"
      BY <2>1, <3>1, CheckRecord DEF Calling
    <3> HIDE DEF g
    <3> QED BY <2>1, <2>2, <3>1, <3>2, SameChange
  <2>6. CASE SyncTake(h)
    BY <2>1, <2>6, TakeChange
  <2>7. CASE SyncDone(h)
    <3> DEFINE g == Answered(h)
    <3>1. h.sync = "taken" /\ adds' = Kept((adds \ {h}) \cup {g}, role) /\ UNCHANGED <<role, list>>
      BY <2>7 DEF SyncDone
    <3>2. /\ At(g) = At(h) /\ g.peers = h.peers /\ g.joiner = h.joiner
          /\ g.phase = h.phase /\ g.taken = h.taken
      BY <2>1, <3>1, AnsweredRecord
    <3>4. g.phase \in {"checked", "in"}
      BY <2>1, <2>2, <3>1, <3>2 DEF Counted
    <3> HIDE DEF g
    <3>3. adds' = {g}
      BY <2>2, <3>1, <3>4 DEF Kept
    <3> QED BY <2>1, <2>2, <3>1, <3>2, <3>3, <3>4, SameChange
  <2> QED BY <1>2, <2>3, <2>4, <2>5, <2>6, <2>7
<1>3. ASSUME NEW h \in adds, Succeed(h) PROVE OneChange'
  BY <1>3, SucceedChange DEF Succeed
<1>9. ASSUME NEW h \in adds, Receive(h) PROVE OneChange'
  BY <1>9, ReceiveChange DEF Receive
<1>4. ASSUME NEW h \in adds, Fail(h) \/ ContactDies(h) \/ JoinerDies(h) PROVE FALSE
  BY <1>4 DEF Fail, ContactDies, Kill, JoinerDies, OneChange
<1>5. ASSUME NEW s \in Server, Crash(s) \/ Panic(s) PROVE FALSE
  BY <1>5 DEF Crash, Panic, Kill
<1>6. ASSUME NEW s \in Server, Boot(s) PROVE OneChange'
  <2>1. /\ role[s] = "down" /\ UNCHANGED <<list, adds, smooth>>
        /\ s \in Joiner => role' = [role EXCEPT ![s] = "joining"]
        /\ role \in [Server -> {"down", "joining", "serving"}]
    BY <1>6 DEF Boot, TypeInv, TypeOK
  <2>2. s \in Joiner /\ s \notin Original
    BY <1>6, <2>1, Lists DEF OneChange, Server
  <2>3. \A t \in Server : role'[t] = "serving" <=> role[t] = "serving"
    BY <2>1, <2>2
  <2>4. Original \subseteq Server
    BY DEF Server
  <2> QED BY <2>1, <2>3, <2>4 DEF OneChange, Own, At, Contact, BootList
<1>7. ASSUME NEW j \in Joiner, Ask(j) PROVE OneChange'
  BY <1>7, AskChange
<1>8. ASSUME NEW h \in adds, HandlerStep(h) PROVE OneChange'
  BY <1>2, <1>3, <1>4, <1>8, <1>9 DEF HandlerStep
<1> QED BY <1>1, <1>5, <1>6, <1>7, <1>8 DEF Next

LEMMA InitChange == Init => OneChange
<1> SUFFICES ASSUME Init PROVE OneChange
  OBVIOUS
<1>1. /\ adds = {} /\ \A s \in Original : role[s] = "serving"
      /\ \A s \in Server : /\ list[s] = BootList(s)
                           /\ role[s] = "serving" => s \in Original
  BY Lists DEF Init, Server
<1>2. ASSUME NEW s \in Server, NEW t \in Server, Own(s), Own(t)
      PROVE  list[s] = list[t]
  <2>1. s \in Original /\ t \in Original
    BY <1>1, <1>2 DEF Own
  <2>2. s \notin Joiner /\ t \notin Joiner /\ Configured[s] = Configured[t]
    BY <2>1, ConfiguredAssumption
  <2>3. BootList(s) = Configured[s] /\ BootList(t) = Configured[t]
    BY <2>2 DEF BootList
  <2> QED BY <1>1, <1>2, <2>2, <2>3
<1> QED BY <1>1, <1>2 DEF OneChange

\* When no change runs, and none failed, met another or lost a process, the
\* servers that serve and were not left out have one list.
THEOREM MembershipChangesAgree == Spec => []ChangesAgree
<1>1. TypeInv /\ OneChange /\ [Next]_vars => OneChange'
  BY ChangeStep
<1>2. OneChange => ChangesAgree
  <2> SUFFICES ASSUME OneChange, smooth, adds = {}, NEW s \in Server, NEW t \in Server,
                      role[s] = "serving", s \in ToSet(list[s]),
                      role[t] = "serving", t \in ToSet(list[t])
               PROVE  list[s] = list[t]
    BY DEF ChangesAgree
  <2> QED BY DEF OneChange, Own
<1> QED BY <1>1, <1>2, InitChange, TypeAlways, PTL DEF Spec
=============================================================================
