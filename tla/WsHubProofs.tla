----------------------------- MODULE WsHubProofs -----------------------------
(***************************************************************************)
(* Proofs about WsHub, for every number of connections and publishers,     *)
(* every ring size and every length of the event stream, and, at the end,  *)
(* about the browser's end of the feed, WsClient.                          *)
(***************************************************************************)
EXTENDS WsHub, WsClient, TLAPS, NaturalsInduction, WellFoundedInduction

Msg    == [type : {"event", "hello", "lab_topology", "force_resnapshot"}, seq : Nat]
Call   == [seq : Nat, todo : SUBSET Conns, dead : SUBSET Conns]
Phases == {"new", "replay", "sending", "snapshot", "subscribe", "live", "gone"}
Conn   == [pc : Phases, since : Nat, out : Seq(Nat), cut : Nat, joined : Nat]

Typed ==
  /\ ring \in Seq(Nat) /\ nextSeq \in Nat \ {0} /\ subs \in SUBSET Conns
  /\ pub \in [Publishers -> Call] /\ conn \in [Conns -> Conn]
  /\ up \in [Conns -> BOOLEAN] /\ sent \in [Conns -> Seq(Msg)]

\* The ring holds the latest events, all of them until it is full.
RingSound ==
  /\ Len(ring) <= Ring /\ Len(ring) <= HeadSeq
  /\ Len(ring) < Ring => Len(ring) = HeadSeq
  /\ \A i \in 1..Len(ring) : ring[i] = HeadSeq - Len(ring) + i

In(q, m)     == \E i \in DOMAIN q : q[i] = m
InType(q, t) == \E i \in DOMAIN q : q[i].type = t

\* A publish in progress has an event number of its own, which none of the
\* connections it has yet to serve was sent.
CallSound(p) ==
  /\ pub[p].seq <= HeadSeq /\ (pub[p].seq = 0 => pub[p].todo = {})
  /\ \A q \in Publishers \ {p} : pub[p].seq # 0 => pub[q].seq # pub[p].seq
  /\ \A c \in pub[p].todo : conn[c].pc \in {"live", "gone"} /\ ~In(sent[c], Event(pub[p].seq))

\* What a connection was sent, by the phase of its handler.
ConnSound(c) ==
  LET h == conn[c] IN
  /\ c \in subs => h.pc = "live"
  /\ \A s \in Nat : In(sent[c], Event(s)) => s <= HeadSeq
  /\ h.pc \in {"new", "replay", "snapshot", "subscribe"} => ~InType(sent[c], "event")
  /\ h.pc \in {"new", "replay", "sending"} => ~InType(sent[c], "lab_topology") /\ ~InType(sent[c], "force_resnapshot")
  /\ h.pc = "snapshot" => InType(sent[c], "force_resnapshot")
  /\ h.pc = "subscribe" => InType(sent[c], "lab_topology")
  /\ h.pc \in {"sending", "snapshot", "subscribe"} => h.cut <= HeadSeq
  /\ h.pc = "live" => h.cut <= h.joined /\ h.joined <= HeadSeq
  /\ h.pc = "sending" => /\ \A i \in DOMAIN h.out : h.out[i] <= HeadSeq /\ ~In(sent[c], Event(h.out[i]))
                         /\ \A i, j \in DOMAIN h.out : h.out[i] = h.out[j] => i = j

\* Of the events up to the cut, the browser knows, was sent or will be sent
\* every one.
Replayed(c) ==
  conn[c].pc \in {"sending", "live"} =>
    \A s \in 1..conn[c].cut : s > Known(c) =>
      \/ In(sent[c], Event(s))
      \/ conn[c].pc = "sending" /\ \E i \in DOMAIN conn[c].out : conn[c].out[i] = s

\* Of the events after it subscribed, it was sent every one or a publisher
\* is on its way.
Served(c) ==
  conn[c].pc = "live" /\ up[c] /\ c \in subs =>
    \A s \in 1..HeadSeq : s > conn[c].joined => OnItsWay(c, s) \/ In(sent[c], Event(s))

HubInv == /\ Typed /\ RingSound /\ EventsOnce
          /\ \A p \in Publishers : CallSound(p)
          /\ \A c \in Conns : ConnSound(c) /\ Replayed(c) /\ Served(c)
------------------------------------------------------------------------------
(***************************************************************************)
(* Sequences                                                               *)
(***************************************************************************)
\* Induction over the natural numbers, for a set of them.
LEMMA SetInduction ==
  ASSUME NEW S, 0 \in S, \A n \in Nat : n \in S => n + 1 \in S
  PROVE  \A n \in Nat : n \in S
<1> SUFFICES ASSUME NEW x \in Nat, x \notin S PROVE FALSE
  OBVIOUS
<1> DEFINE R == OpToRel(<, Nat)
           C == {n \in Nat : n \notin S}
<1>1. \A a, b \in Nat : a < b => <<a, b>> \in R
  BY DEF OpToRel
<1>2. IsWellFoundedOn(R, Nat) /\ C \in SUBSET Nat /\ C # {}
  BY NatLessThanWellFounded
<1> HIDE DEF R, C
<1>3. PICK m \in C : \A n \in C : ~(<<n, m>> \in R)
  BY <1>2, WFMin
<1> USE DEF C
<1>4. m \in Nat /\ m # 0
  OBVIOUS
<1>5. m - 1 \in Nat /\ m - 1 < m /\ m - 1 \notin S
  BY <1>4
<1> QED BY <1>1, <1>3, <1>4, <1>5

\* q holds the members above `since` of the first m of r, each once.
Filtered(q, r, since, m) ==
  /\ q \in Seq(Nat)
  /\ \A i \in DOMAIN q : \E j \in 1..m : q[i] = r[j]
  /\ \A j \in 1..m : r[j] > since => \E i \in DOMAIN q : q[i] = r[j]
  /\ \A i, j \in DOMAIN q : q[i] = q[j] => i = j

Distinct(r) == \A i, j \in 1..Len(r) : r[i] = r[j] => i = j

\* One more member of r.
LEMMA FilterStep ==
  ASSUME NEW r \in Seq(Nat), Distinct(r), NEW since \in Nat, NEW m \in Nat, m + 1 <= Len(r),
         NEW q, Filtered(q, r, since, m)
  PROVE  Filtered(IF r[m + 1] > since THEN Append(q, r[m + 1]) ELSE q, r, since, m + 1)
<1> DEFINE x == r[m + 1]
<1>1. x \in Nat /\ m + 1 \in 1..Len(r) /\ \A j \in 1..m : j \in 1..Len(r) /\ j # m + 1 /\ j \in 1..(m + 1)
  OBVIOUS
<1>2. \A j \in 1..(m + 1) : j \in 1..m \/ j = m + 1
  OBVIOUS
<1>3. \A j \in 1..m : r[j] # x
  BY <1>1 DEF Distinct
<1>4. \A i \in DOMAIN q : q[i] # x
  BY <1>3 DEF Filtered
<1>5. m + 1 \in 1..(m + 1)
  OBVIOUS
<1>6. CASE x > since
  <2> DEFINE a == Append(q, x)
  <2>1. q \in Seq(Nat)
    BY DEF Filtered
  <2> HIDE DEF x
  <2>2. /\ a \in Seq(Nat) /\ DOMAIN a = 1..(Len(q) + 1) /\ a[Len(q) + 1] = x
        /\ DOMAIN q = 1..Len(q) /\ Len(q) \in Nat /\ \A i \in 1..Len(q) : a[i] = q[i]
    BY <1>1, <2>1
  <2> HIDE DEF a
  <2>3. \A i \in DOMAIN a : (i \in DOMAIN q /\ a[i] = q[i]) \/ (i = Len(q) + 1 /\ a[i] = x)
    BY <2>2
  <2>4. \A i \in DOMAIN q : i \in DOMAIN a /\ a[i] = q[i]
    BY <2>2
  <2>5. Len(q) + 1 \in DOMAIN a
    BY <2>2
  <2>6. \A i \in DOMAIN a : \E j \in 1..(m + 1) : a[i] = r[j]
    <3> SUFFICES ASSUME NEW i \in DOMAIN a PROVE \E j \in 1..(m + 1) : a[i] = r[j]
      OBVIOUS
    <3>1. ASSUME i \in DOMAIN q, a[i] = q[i] PROVE \E j \in 1..(m + 1) : a[i] = r[j]
      <4>1. PICK j \in 1..m : q[i] = r[j]
        BY <3>1 DEF Filtered
      <4> QED BY <1>1, <3>1, <4>1
    <3>2. a[i] = x => \E j \in 1..(m + 1) : a[i] = r[j]
      BY <1>5 DEF x
    <3> QED BY <2>3, <3>1, <3>2
  <2>7. \A j \in 1..(m + 1) : r[j] > since => \E i \in DOMAIN a : a[i] = r[j]
    <3>1. ASSUME NEW j \in 1..m, r[j] > since PROVE \E i \in DOMAIN a : a[i] = r[j]
      BY <2>4, <3>1 DEF Filtered
    <3> QED BY <1>2, <2>2, <2>5, <3>1 DEF x
  <2>8. \A i, j \in DOMAIN a : a[i] = a[j] => i = j
    BY <1>4, <2>3 DEF Filtered
  <2>9. Filtered(a, r, since, m + 1)
    BY <2>2, <2>6, <2>7, <2>8 DEF Filtered
  <2> QED BY <1>6, <2>9 DEF a, x
<1>7. CASE ~(x > since)
  <2>1. \A i \in DOMAIN q : \E j \in 1..(m + 1) : q[i] = r[j]
    BY <1>1 DEF Filtered
  <2>2. \A j \in 1..(m + 1) : r[j] > since => \E i \in DOMAIN q : q[i] = r[j]
    BY <1>2, <1>7 DEF Filtered
  <2>3. Filtered(q, r, since, m + 1)
    BY <2>1, <2>2 DEF Filtered
  <2> QED BY <1>7, <2>3
<1> QED BY <1>6, <1>7

\* The list comprehension's partial results, as a function of how far it got.
FilterStepOf(g, r, since, i) ==
  IF i = 0 THEN <<>> ELSE IF r[i] > since THEN Append(g[i - 1], r[i]) ELSE g[i - 1]
Filters(g, r, since, m) == g = [i \in 0..m |-> FilterStepOf(g, r, since, i)]

\* The recursion has a solution.
LEMMA FilterExists ==
  ASSUME NEW r, NEW since
  PROVE  \A m \in Nat : \E g : Filters(g, r, since, m)
<1> DEFINE S == {m \in Nat : \E g : Filters(g, r, since, m)}
<1>1. 0 \in S
  <2> DEFINE g0 == [i \in 0..0 |-> <<>>]
  <2>1. Filters(g0, r, since, 0)
    BY DEF Filters, FilterStepOf
  <2> QED BY <2>1
<1>2. ASSUME NEW m \in Nat, m \in S PROVE m + 1 \in S
  <2>1. PICK g : Filters(g, r, since, m)
    BY <1>2
  <2> DEFINE h == [i \in 0..(m + 1) |-> IF i <= m THEN g[i] ELSE FilterStepOf(g, r, since, m + 1)]
  <2>2. ASSUME NEW i \in 0..(m + 1) PROVE h[i] = FilterStepOf(h, r, since, i)
    <3>1. \A j \in 0..m : g[j] = FilterStepOf(g, r, since, j)
      BY <2>1 DEF Filters
    <3>2. h[i] = FilterStepOf(g, r, since, i)
      <4>1. CASE i <= m
        <5>1. i \in 0..m
          BY <4>1
        <5> QED BY <3>1, <4>1, <5>1
      <4>2. CASE i = m + 1
        BY <4>2
      <4> QED BY <4>1, <4>2
    <3>3. i # 0 => h[i - 1] = g[i - 1]
      OBVIOUS
    <3> QED BY <3>2, <3>3 DEF FilterStepOf
  <2>3. Filters(h, r, since, m + 1)
    <3> DEFINE k == [i \in 0..(m + 1) |-> FilterStepOf(h, r, since, i)]
    <3>1. DOMAIN h = 0..(m + 1) /\ \A i \in 0..(m + 1) : h[i] = k[i]
      BY <2>2
    <3>2. h = k
      BY <3>1
    <3> QED BY <3>2 DEF Filters
  <2> HIDE DEF h
  <2> QED BY <2>3
<1> HIDE DEF S
<1>3. \A m \in Nat : m \in S
  BY <1>1, <1>2, SetInduction
<1> QED BY <1>3 DEF S

\* replay_since's list: the events of the ring after `since`, each once.
LEMMA ReplayFacts ==
  ASSUME ring \in Seq(Nat), Distinct(ring), NEW since \in Nat
  PROVE  Filtered(ReplaySince(since), ring, since, Len(ring))
<1>1. \E g : Filters(g, ring, since, Len(ring))
  <2>1. Len(ring) \in Nat
    OBVIOUS
  <2> QED BY <2>1, FilterExists
<1>2. PICK kept : Filters(kept, ring, since, Len(ring)) /\ ReplaySince(since) = kept[Len(ring)]
  BY <1>1 DEF ReplaySince, Filters, FilterStepOf
<1> DEFINE G == {m \in Nat : m <= Len(ring) => Filtered(kept[m], ring, since, m)}
<1>3. \A m \in 0..Len(ring) : kept[m] = FilterStepOf(kept, ring, since, m)
  BY <1>2 DEF Filters
<1>4. 0 \in G
  <2>1. kept[0] = <<>>
    BY <1>3 DEF FilterStepOf
  <2>2. Filtered(<<>>, ring, since, 0)
    BY DEF Filtered
  <2> QED BY <2>1, <2>2
<1>5. ASSUME NEW m \in Nat, m \in G PROVE m + 1 \in G
  <2> SUFFICES ASSUME m + 1 <= Len(ring) PROVE Filtered(kept[m + 1], ring, since, m + 1)
    OBVIOUS
  <2>1. Filtered(kept[m], ring, since, m) /\ m + 1 \in 0..Len(ring)
    BY <1>5
  <2>2. kept[m + 1] = FilterStepOf(kept, ring, since, m + 1)
    BY <1>3, <2>1
  <2>3. kept[m + 1] = IF ring[m + 1] > since THEN Append(kept[m], ring[m + 1]) ELSE kept[m]
    BY <2>2 DEF FilterStepOf
  <2>4. Filtered(IF ring[m + 1] > since THEN Append(kept[m], ring[m + 1]) ELSE kept[m],
                 ring, since, m + 1)
    BY <2>1, FilterStep
  <2> QED BY <2>3, <2>4
<1> HIDE DEF G
<1>6. Len(ring) \in G
  BY <1>4, <1>5, SetInduction, SMTT(40)
<1>7. Filtered(kept[Len(ring)], ring, since, Len(ring))
  BY <1>6 DEF G
<1> QED BY <1>2, <1>7
------------------------------------------------------------------------------
(***************************************************************************)
(* Messages and connections                                                *)
(***************************************************************************)
OnceIn(q) == \A i, j \in DOMAIN q : q[i].type = "event" /\ q[j] = q[i] => i = j

\* Events are told apart by their number and from the other messages.
LEMMA EventFacts ==
  /\ \A s \in Nat : Event(s) \in Msg /\ Event(s).type = "event" /\ Event(s).seq = s
  /\ \A c, s : In(sent[c], Event(s)) => InType(sent[c], "event")
BY DEF Event, Msg, In, InType

\* What a send changes.
LEMMA WrittenFacts ==
  ASSUME sent \in [Conns -> Seq(Msg)], NEW c \in Conns, NEW m \in Msg, Written(c, m)
  PROVE  /\ sent' \in [Conns -> Seq(Msg)] /\ \A d \in Conns \ {c} : sent'[d] = sent[d]
         /\ \A x : In(sent[c], x)' <=> In(sent[c], x) \/ x = m
         /\ \A t : InType(sent[c], t)' <=> InType(sent[c], t) \/ m.type = t
         /\ OnceIn(sent[c]) /\ (m.type = "event" => ~In(sent[c], m)) => OnceIn(sent[c])'
<1> DEFINE q == sent[c]
           a == Append(q, m)
<1>1. q \in Seq(Msg) /\ sent' = [sent EXCEPT ![c] = a] /\ sent'[c] = a
  BY DEF Written
<1> HIDE DEF q
<1>2. /\ a \in Seq(Msg) /\ DOMAIN a = 1..(Len(q) + 1) /\ a[Len(q) + 1] = m
      /\ DOMAIN q = 1..Len(q) /\ Len(q) \in Nat /\ \A i \in 1..Len(q) : a[i] = q[i]
  BY <1>1
<1> HIDE DEF a
<1>3. \A i \in DOMAIN a : (i \in DOMAIN q /\ a[i] = q[i]) \/ (i = Len(q) + 1 /\ a[i] = m)
  BY <1>2
<1>4. (\A i \in DOMAIN q : i \in DOMAIN a /\ a[i] = q[i]) /\ Len(q) + 1 \in DOMAIN a
  BY <1>2
<1>5. sent' \in [Conns -> Seq(Msg)] /\ \A d \in Conns \ {c} : sent'[d] = sent[d]
  BY <1>1, <1>2
<1>6. \A x : In(sent[c], x)' <=> In(sent[c], x) \/ x = m
  BY <1>1, <1>2, <1>3, <1>4 DEF In, q
<1>7. \A t : InType(sent[c], t)' <=> InType(sent[c], t) \/ m.type = t
  BY <1>1, <1>2, <1>3, <1>4 DEF InType, q
<1>8. ASSUME OnceIn(sent[c]), m.type = "event" => ~In(sent[c], m) PROVE OnceIn(sent[c])'
  <2>1. m.type = "event" => \A i \in DOMAIN q : q[i] # m
    BY <1>8 DEF In, q
  <2>2. \A i, j \in DOMAIN q : q[i].type = "event" /\ q[j] = q[i] => i = j
    BY <1>8 DEF OnceIn, q
  <2>3. \A i, j \in DOMAIN a : a[i].type = "event" /\ a[j] = a[i] => i = j
    BY <1>3, <2>1, <2>2
  <2> QED BY <1>1, <2>3 DEF OnceIn
<1> QED BY <1>5, <1>6, <1>7, <1>8

\* What no send changes.
LEMMA QuietFacts ==
  ASSUME NEW c, sent'[c] = sent[c]
  PROVE  /\ \A x : In(sent[c], x)' <=> In(sent[c], x)
         /\ \A t : InType(sent[c], t)' <=> InType(sent[c], t)
         /\ OnceIn(sent[c])' <=> OnceIn(sent[c])
BY DEF In, InType, OnceIn

\* One less than a positive number.
LEMMA Before ==
  ASSUME NEW n \in Nat \ {0}, NEW m \in {n, n + 1}
  PROVE  n - 1 \in Nat /\ m - 1 \in Nat /\ n - 1 <= m - 1
<1>1. n \in Nat /\ n >= 1
  OBVIOUS
<1>2. n - 1 \in Nat /\ (n + 1) - 1 \in Nat /\ n - 1 <= (n + 1) - 1
  BY <1>1
<1> QED BY <1>1, <1>2

\* Event numbers only grow.
LEMMA HeadFacts ==
  ASSUME Typed, nextSeq' \in {nextSeq, nextSeq + 1}
  PROVE  HeadSeq \in Nat /\ HeadSeq' \in Nat /\ HeadSeq <= HeadSeq'
<1>1. nextSeq \in Nat \ {0}
  BY DEF Typed
<1>2. nextSeq - 1 \in Nat /\ nextSeq' - 1 \in Nat /\ nextSeq - 1 <= nextSeq' - 1
  BY <1>1, Before
<1> QED BY <1>2 DEF HeadSeq

\* A connection that nothing is written to keeps its promises while events
\* are numbered.
LEMMA Bystander ==
  ASSUME Typed, NEW c \in Conns, ConnSound(c), Replayed(c), conn'[c] = conn[c], sent'[c] = sent[c],
         c \in subs' => c \in subs, nextSeq' \in {nextSeq, nextSeq + 1}
  PROVE  ConnSound(c)' /\ Replayed(c)'
<1>1. HeadSeq \in Nat /\ HeadSeq' \in Nat /\ HeadSeq <= HeadSeq' /\ conn[c] \in Conn
  BY HeadFacts DEF Typed
<1>2. (\A x : In(sent[c], x)' <=> In(sent[c], x)) /\ (\A t : InType(sent[c], t)' <=> InType(sent[c], t))
  BY QuietFacts
<1>3. Known(c)' = Known(c)
  BY <1>2 DEF Known, Wrote, InType
<1> HIDE DEF HeadSeq
<1>4. /\ \A s \in Nat : s <= HeadSeq => s <= HeadSeq'
      /\ conn[c].cut \in Nat /\ conn[c].joined \in Nat /\ conn[c].out \in Seq(Nat)
  BY <1>1 DEF Conn
<1>5. ConnSound(c)'
  BY <1>2, <1>4 DEF ConnSound
<1>6. Replayed(c)'
  BY <1>2, <1>3 DEF Replayed
<1> QED BY <1>5, <1>6

\* A subscriber, or one that just left, is sent an event.
LEMMA EventWritten ==
  ASSUME Typed, NEW c \in Conns, ConnSound(c), Replayed(c), conn'[c] = conn[c], subs' = subs,
         conn[c].pc \in {"live", "gone"}, NEW s \in Nat, Written(c, Event(s)),
         nextSeq' \in {nextSeq, nextSeq + 1}, s <= HeadSeq'
  PROVE  ConnSound(c)' /\ Replayed(c)'
<1>1. HeadSeq \in Nat /\ HeadSeq' \in Nat /\ HeadSeq <= HeadSeq' /\ conn[c] \in Conn
  BY HeadFacts DEF Typed
<1>2. /\ \A x : In(sent[c], x)' <=> In(sent[c], x) \/ x = Event(s)
      /\ \A t : InType(sent[c], t)' <=> InType(sent[c], t) \/ t = "event"
  <2>1. Event(s) \in Msg /\ Event(s).type = "event" /\ sent \in [Conns -> Seq(Msg)]
    BY EventFacts DEF Typed
  <2>2. /\ \A x : In(sent[c], x)' <=> In(sent[c], x) \/ x = Event(s)
        /\ \A t : InType(sent[c], t)' <=> InType(sent[c], t) \/ Event(s).type = t
    BY <2>1, WrittenFacts
  <2> QED BY <2>1, <2>2
<1>3. Known(c)' = Known(c)
  BY <1>2 DEF Known, Wrote, InType
<1> HIDE DEF HeadSeq
<1>4. /\ \A x \in Nat : x <= HeadSeq => x <= HeadSeq'
      /\ conn[c].cut \in Nat /\ conn[c].joined \in Nat
  BY <1>1 DEF Conn
<1>5. \A x \in Nat : In(sent[c], Event(x))' => x <= HeadSeq'
  BY <1>2, <1>4, EventFacts DEF ConnSound
<1>6. ConnSound(c)'
  BY <1>4, <1>5 DEF ConnSound
<1>7. Replayed(c)'
  BY <1>2, <1>3 DEF Replayed
<1> QED BY <1>6, <1>7
------------------------------------------------------------------------------
(***************************************************************************)
(* publish                                                                 *)
(***************************************************************************)
\* The ring keeps the latest events when one is pushed.
LEMMA PushedSound ==
  ASSUME Typed, RingSound, ring' = Pushed(nextSeq), nextSeq' = nextSeq + 1
  PROVE  RingSound' /\ ring' \in Seq(Nat)
<1>0. Ring \in Nat /\ Ring >= 1 /\ nextSeq \in Nat /\ nextSeq >= 1 /\ ring \in Seq(Nat)
      /\ HeadSeq = nextSeq - 1 /\ HeadSeq' = nextSeq /\ Len(ring) \in Nat
  BY HubConstants DEF Typed, HeadSeq
<1>1. /\ Len(ring) <= Ring /\ Len(ring) <= nextSeq - 1
      /\ Len(ring) < Ring => Len(ring) = nextSeq - 1
      /\ \A i \in 1..Len(ring) : ring[i] = nextSeq - 1 - Len(ring) + i
  BY <1>0 DEF RingSound
<1>2. CASE Len(ring) < Ring
  <2>1. ring' = Append(ring, nextSeq)
    BY <1>2 DEF Pushed
  <2>2. /\ ring' \in Seq(Nat) /\ Len(ring') = Len(ring) + 1
        /\ \A i \in 1..Len(ring) : ring'[i] = ring[i] /\ ring'[Len(ring) + 1] = nextSeq
    BY <1>0, <2>1
  <2>3. \A i \in 1..Len(ring') : ring'[i] = nextSeq - Len(ring') + i
    <3> SUFFICES ASSUME NEW i \in 1..(Len(ring) + 1) PROVE ring'[i] = nextSeq - (Len(ring) + 1) + i
      BY <2>2
    <3>1. CASE i \in 1..Len(ring)
      <4>1. ring'[i] = nextSeq - 1 - Len(ring) + i
        BY <1>1, <2>2, <3>1
      <4> QED BY <1>0, <4>1
    <3>2. CASE i = Len(ring) + 1
      <4>1. ring'[i] = nextSeq
        BY <1>0, <2>1, <3>2
      <4> QED BY <1>0, <3>2, <4>1
    <3> QED BY <1>0, <3>1, <3>2
  <2> QED BY <1>0, <1>1, <1>2, <2>2, <2>3 DEF RingSound
<1>3. CASE ~(Len(ring) < Ring)
  <2> DEFINE t == Tail(ring)
  <2>1. ring' = Append(t, nextSeq) /\ ring # <<>>
    BY <1>0, <1>3 DEF Pushed
  <2>2. /\ t \in Seq(Nat) /\ Len(t) = Len(ring) - 1 /\ \A i \in 1..Len(t) : t[i] = ring[i + 1]
    BY <1>0, <2>1
  <2> HIDE DEF t
  <2>3. /\ ring' \in Seq(Nat) /\ Len(ring') = Len(ring) /\ ring'[Len(ring)] = nextSeq
        /\ \A i \in 1..(Len(ring) - 1) : ring'[i] = ring[i + 1]
    BY <1>0, <2>1, <2>2
  <2>4. \A i \in 1..Len(ring') : ring'[i] = nextSeq - Len(ring') + i
    <3> SUFFICES ASSUME NEW i \in 1..Len(ring) PROVE ring'[i] = nextSeq - Len(ring) + i
      BY <2>3
    <3>1. CASE i \in 1..(Len(ring) - 1)
      <4>1. i + 1 \in 1..Len(ring)
        BY <1>0, <3>1
      <4>2. ring'[i] = nextSeq - 1 - Len(ring) + (i + 1)
        BY <1>1, <2>3, <3>1, <4>1
      <4> QED BY <1>0, <4>2
    <3>2. CASE i = Len(ring)
      BY <1>0, <2>3, <3>2
    <3> QED BY <1>0, <3>1, <3>2
  <2> QED BY <1>0, <1>1, <1>3, <2>3, <2>4 DEF RingSound
<1> QED BY <1>2, <1>3

\* One send of a publish: the chosen connection gets the event, or is dead.
LEMMA FanoutKeeps ==
  ASSUME HubInv, NEW p \in Publishers, NEW s \in Nat, NEW todo \in SUBSET Conns,
         NEW dead \in SUBSET Conns, Fanout(p, s, todo, dead), UNCHANGED <<subs, conn, up>>,
         RingSound', ring' \in Seq(Nat), nextSeq' \in {nextSeq, nextSeq + 1}, s # 0, s <= HeadSeq',
         \A q \in Publishers \ {p} : pub[q].seq # s,
         \A c \in todo : conn[c].pc \in {"live", "gone"} /\ ~In(sent[c], Event(s)),
         \A c \in subs : conn[c].pc = "live" /\ up[c] =>
           \A x \in 1..HeadSeq' : x > conn[c].joined =>
             \/ In(sent[c], Event(x)) \/ (x = s /\ c \in todo)
             \/ \E q \in Publishers \ {p} : pub[q].seq = x /\ c \in pub[q].todo
  PROVE  HubInv'
<1>0. /\ Typed /\ nextSeq' \in Nat \ {0} /\ HeadSeq \in Nat /\ HeadSeq' \in Nat /\ HeadSeq <= HeadSeq'
      /\ pub \in [Publishers -> Call] /\ sent \in [Conns -> Seq(Msg)] /\ conn \in [Conns -> Conn]
  BY HeadFacts DEF HubInv, Typed
<1>1. PICK c \in todo :
        \/ /\ Written(c, Event(s))
           /\ pub' = [pub EXCEPT ![p] = [seq |-> s, todo |-> todo \ {c}, dead |-> dead]]
        \/ /\ ~up[c]
           /\ pub' = [pub EXCEPT ![p] = [seq |-> s, todo |-> todo \ {c}, dead |-> dead \cup {c}]]
           /\ UNCHANGED sent
  BY DEF Fanout, Written
<1>2. /\ pub' \in [Publishers -> Call] /\ pub'[p].seq = s /\ pub'[p].todo = todo \ {c}
      /\ \A q \in Publishers \ {p} : pub'[q] = pub[q]
  <2>1. \A D \in SUBSET Conns : [seq |-> s, todo |-> todo \ {c}, dead |-> D] \in Call
    BY DEF Call
  <2>2. dead \cup {c} \in SUBSET Conns
    OBVIOUS
  <2>3. PICK D \in SUBSET Conns : pub' = [pub EXCEPT ![p] = [seq |-> s, todo |-> todo \ {c}, dead |-> D]]
    <3>1. CASE pub' = [pub EXCEPT ![p] = [seq |-> s, todo |-> todo \ {c}, dead |-> dead]]
      BY <3>1
    <3>2. CASE pub' = [pub EXCEPT ![p] = [seq |-> s, todo |-> todo \ {c}, dead |-> dead \cup {c}]]
      BY <2>2, <3>2
    <3> QED BY <1>1, <3>1, <3>2
  <2> QED BY <1>0, <2>1, <2>3
<1>3. c \in Conns /\ conn[c].pc \in {"live", "gone"} /\ ~In(sent[c], Event(s)) /\ Event(s) \in Msg
  BY EventFacts
<1>4. /\ sent' \in [Conns -> Seq(Msg)] /\ \A d \in Conns \ {c} : sent'[d] = sent[d]
      /\ \A x \in Nat : In(sent[c], Event(x))' => In(sent[c], Event(x)) \/ x = s
      /\ \A x \in Nat : In(sent[c], Event(x)) => In(sent[c], Event(x))'
      /\ up[c] => In(sent[c], Event(s))'
      /\ OnceIn(sent[c]) => OnceIn(sent[c])'
  <2>1. CASE Written(c, Event(s))
    <3>1. /\ sent' \in [Conns -> Seq(Msg)] /\ \A d \in Conns \ {c} : sent'[d] = sent[d]
          /\ \A x : In(sent[c], x)' <=> In(sent[c], x) \/ x = Event(s)
          /\ OnceIn(sent[c]) /\ (Event(s).type = "event" => ~In(sent[c], Event(s))) => OnceIn(sent[c])'
      BY <1>0, <1>3, <2>1, WrittenFacts
    <3> QED BY <1>3, <3>1, EventFacts
  <2>2. CASE ~up[c] /\ UNCHANGED sent
    BY <1>0, <2>2, QuietFacts
  <2> QED BY <1>1, <2>1, <2>2
<1>5. \A d \in Conns \ {c} : (\A x : In(sent[d], x)' <=> In(sent[d], x)) /\ (OnceIn(sent[d])' <=> OnceIn(sent[d]))
  BY <1>4, QuietFacts
<1>6. Typed'
  BY <1>0, <1>2, <1>4 DEF Typed
<1>7. EventsOnce'
  <2>1. \A d \in Conns : OnceIn(sent[d])
    BY DEF HubInv, EventsOnce, OnceIn
  <2>2. \A d \in Conns : OnceIn(sent[d])'
    BY <1>4, <1>5, <2>1
  <2> QED BY <2>2 DEF EventsOnce, OnceIn
<1>8. CallSound(p)'
  <2>1. \A q \in Publishers \ {p} : pub'[q].seq # s
    BY <1>2
  <2>2. \A d \in todo \ {c} : ~In(sent[d], Event(s))'
    BY <1>5
  <2> QED BY <1>2, <2>1, <2>2 DEF CallSound
<1>9. ASSUME NEW q \in Publishers \ {p} PROVE CallSound(q)'
  <2>1. CallSound(q) /\ pub'[q] = pub[q] /\ pub[q].seq \in Nat /\ pub[q].seq # s /\ pub[q].todo \subseteq Conns
    BY <1>0, <1>2 DEF HubInv, Call
  <2>2. pub[q].seq <= HeadSeq'
    BY <1>0, <2>1 DEF CallSound
  <2>3. \A r \in Publishers \ {q} : pub[q].seq # 0 => pub'[r].seq # pub[q].seq
    BY <1>2, <2>1 DEF CallSound
  <2>4. \A d \in pub[q].todo : ~In(sent[d], Event(pub[q].seq))'
    BY <1>4, <1>5, <2>1 DEF CallSound
  <2> QED BY <2>1, <2>2, <2>3, <2>4 DEF CallSound
<1>10. ASSUME NEW d \in Conns PROVE ConnSound(d)' /\ Replayed(d)'
  <2>1. ConnSound(d) /\ Replayed(d) /\ conn'[d] = conn[d] /\ subs' = subs
    BY DEF HubInv
  <2>2. CASE sent'[d] = sent[d]
    BY <1>0, <2>1, <2>2, Bystander
  <2>3. CASE d = c /\ Written(c, Event(s))
    BY <1>0, <1>3, <2>1, <2>3, EventWritten
  <2> QED BY <1>1, <1>4, <2>2, <2>3
<1>11. ASSUME NEW d \in Conns PROVE Served(d)'
  <2> SUFFICES ASSUME d \in subs, conn[d].pc = "live", up[d], NEW x \in 1..HeadSeq', x > conn[d].joined
               PROVE  OnItsWay(d, x)' \/ In(sent[d], Event(x))'
    BY DEF Served
  <2>1. \/ In(sent[d], Event(x)) \/ (x = s /\ d \in todo)
        \/ \E q \in Publishers \ {p} : pub[q].seq = x /\ d \in pub[q].todo
    OBVIOUS
  <2>2. CASE In(sent[d], Event(x))
    BY <1>4, <1>5, <2>2
  <2>3. CASE x = s /\ d \in todo
    <3>1. CASE d = c
      BY <1>4, <2>3, <3>1
    <3>2. CASE d # c
      BY <1>2, <2>3, <3>2 DEF OnItsWay
    <3> QED BY <3>1, <3>2
  <2>4. CASE \E q \in Publishers \ {p} : pub[q].seq = x /\ d \in pub[q].todo
    BY <1>2, <2>4 DEF OnItsWay
  <2> QED BY <2>1, <2>2, <2>3, <2>4
<1> QED BY <1>6, <1>7, <1>8, <1>9, <1>10, <1>11 DEF HubInv

\* An event is numbered, kept and sent to the first subscriber.
LEMMA PublishKeeps ==
  ASSUME HubInv, NEW p \in Publishers, Publish(p)
  PROVE  HubInv'
<1>0. /\ Typed /\ RingSound /\ ring' = Pushed(nextSeq) /\ nextSeq' = nextSeq + 1 /\ nextSeq \in Nat
      /\ nextSeq # 0 /\ subs \in SUBSET Conns /\ pub \in [Publishers -> Call] /\ UNCHANGED <<subs, conn, up>>
  BY DEF HubInv, Typed, Publish
<1>1. RingSound' /\ ring' \in Seq(Nat)
  BY <1>0, PushedSound
<1>2. HeadSeq \in Nat /\ HeadSeq' \in Nat /\ HeadSeq < HeadSeq' /\ HeadSeq' = nextSeq /\ HeadSeq' = HeadSeq + 1
  BY <1>0, HeadFacts DEF HeadSeq
<1>3. \A q \in Publishers : CallSound(q) /\ pub[q].seq \in Nat /\ pub[q].seq <= HeadSeq
  BY <1>0 DEF HubInv, CallSound, Call
<1>4. CASE subs = {} /\ UNCHANGED <<pub, sent>>
  <2>1. Typed' /\ EventsOnce'
    BY <1>0, <1>1, <1>4 DEF HubInv, Typed, EventsOnce
  <2>2. ASSUME NEW q \in Publishers PROVE CallSound(q)'
    <3>1. pub[q].seq <= HeadSeq'
      BY <1>2, <1>3
    <3> QED BY <1>0, <1>3, <1>4, <3>1 DEF CallSound
  <2>3. ASSUME NEW c \in Conns PROVE ConnSound(c)' /\ Replayed(c)'
    BY <1>0, <1>4, Bystander DEF HubInv
  <2>4. \A c \in Conns : Served(c)'
    BY <1>0, <1>4 DEF Served
  <2> QED BY <1>1, <2>1, <2>2, <2>3, <2>4 DEF HubInv
<1>5. CASE Fanout(p, nextSeq, subs, {})
  <2>1. \A q \in Publishers \ {p} : pub[q].seq # nextSeq
    BY <1>2, <1>3
  <2>2. \A c \in subs : conn[c].pc \in {"live", "gone"} /\ ~In(sent[c], Event(nextSeq))
    <3> SUFFICES ASSUME NEW c \in subs PROVE conn[c].pc \in {"live", "gone"} /\ ~In(sent[c], Event(nextSeq))
      OBVIOUS
    <3>1. c \in Conns /\ ConnSound(c)
      BY <1>0 DEF HubInv
    <3>2. ~(nextSeq <= HeadSeq)
      BY <1>0, <1>2
    <3> QED BY <1>0, <3>1, <3>2 DEF ConnSound
  <2>3. ASSUME NEW c \in subs, conn[c].pc = "live", up[c], NEW x \in 1..HeadSeq', x > conn[c].joined
        PROVE  \/ In(sent[c], Event(x)) \/ (x = nextSeq /\ c \in subs)
               \/ \E q \in Publishers \ {p} : pub[q].seq = x /\ c \in pub[q].todo
    <3>1. x = nextSeq \/ x \in 1..HeadSeq
      BY <1>2
    <3>2. pub[p].todo = {}
      BY DEF Publish, NoPublish
    <3>3. Served(c)
      BY <1>0 DEF HubInv
    <3>4. x \in 1..HeadSeq => OnItsWay(c, x) \/ In(sent[c], Event(x))
      BY <2>3, <3>3 DEF Served
    <3> QED BY <2>3, <3>1, <3>2, <3>4 DEF OnItsWay
  <2>4. nextSeq <= HeadSeq' /\ {} \in SUBSET Conns
    BY <1>0, <1>2
  <2> QED BY <1>0, <1>1, <1>5, <2>1, <2>2, <2>3, <2>4, FanoutKeeps
<1> QED BY <1>4, <1>5 DEF Publish

\* The next send of the same publish.
LEMMA SendNextKeeps ==
  ASSUME HubInv, NEW p \in Publishers, SendNext(p)
  PROVE  HubInv'
<1> DEFINE s == pub[p].seq
           todo == pub[p].todo
           dead == pub[p].dead
<1>0. /\ Typed /\ RingSound /\ nextSeq' = nextSeq /\ ring' = ring /\ UNCHANGED <<subs, conn, up>>
      /\ ring \in Seq(Nat) /\ s \in Nat /\ todo \in SUBSET Conns /\ dead \in SUBSET Conns
      /\ Fanout(p, s, todo, dead) /\ CallSound(p)
  BY DEF HubInv, Typed, SendNext, Call
<1>1. HeadSeq' = HeadSeq /\ RingSound' /\ ring' \in Seq(Nat)
  BY <1>0 DEF HeadSeq, RingSound
<1>2. /\ s # 0 /\ s <= HeadSeq' /\ \A q \in Publishers \ {p} : pub[q].seq # s
      /\ \A c \in todo : conn[c].pc \in {"live", "gone"} /\ ~In(sent[c], Event(s))
  <2>1. todo # {}
    BY <1>0 DEF Fanout
  <2> QED BY <1>0, <1>1, <2>1 DEF CallSound
<1>3. \A c \in subs : conn[c].pc = "live" /\ up[c] =>
        \A x \in 1..HeadSeq' : x > conn[c].joined =>
          \/ In(sent[c], Event(x)) \/ (x = s /\ c \in todo)
          \/ \E q \in Publishers \ {p} : pub[q].seq = x /\ c \in pub[q].todo
  <2>1. \A c \in subs : c \in Conns /\ Served(c)
    BY DEF HubInv, Typed
  <2> QED BY <1>1, <2>1 DEF Served, OnItsWay
<1> HIDE DEF s, todo, dead
<1> QED BY <1>0, <1>1, <1>2, <1>3, FanoutKeeps

\* The publish ends and forgets the connections that raised.
LEMMA PublishEndKeeps ==
  ASSUME HubInv, NEW p \in Publishers, PublishEnd(p)
  PROVE  HubInv'
<1>0. /\ Typed /\ UNCHANGED <<ring, nextSeq, conn, up, sent>> /\ subs' = subs \ pub[p].dead
      /\ pub' = [pub EXCEPT ![p] = NoPublish] /\ pub \in [Publishers -> Call] /\ pub[p].todo = {}
  BY DEF HubInv, Typed, PublishEnd
<1>1. /\ pub' \in [Publishers -> Call] /\ pub'[p].seq = 0 /\ pub'[p].todo = {}
      /\ \A q \in Publishers \ {p} : pub'[q] = pub[q]
  <2>1. NoPublish \in Call /\ NoPublish.seq = 0 /\ NoPublish.todo = {}
    BY DEF NoPublish, Call
  <2> HIDE DEF NoPublish
  <2> QED BY <1>0, <2>1
<1>2. HeadSeq' = HeadSeq /\ HeadSeq \in Nat
  BY <1>0, HeadFacts DEF HeadSeq
<1>3. Typed' /\ RingSound' /\ EventsOnce'
  BY <1>0, <1>1, <1>2 DEF HubInv, Typed, RingSound, EventsOnce
<1>4. CallSound(p)'
  BY <1>0, <1>1, <1>2 DEF CallSound
<1>5. ASSUME NEW q \in Publishers \ {p} PROVE CallSound(q)'
  BY <1>0, <1>1, <1>2 DEF CallSound, HubInv
<1>6. ASSUME NEW c \in Conns PROVE ConnSound(c)' /\ Replayed(c)'
  BY <1>0, Bystander DEF HubInv
<1>7. ASSUME NEW c \in Conns PROVE Served(c)'
  <2>1. Served(c)
    BY DEF HubInv
  <2>2. \A x : OnItsWay(c, x) => OnItsWay(c, x)'
    BY <1>0, <1>1 DEF OnItsWay
  <2> QED BY <1>0, <1>2, <2>1, <2>2 DEF Served
<1> QED BY <1>3, <1>4, <1>5, <1>6, <1>7 DEF HubInv
------------------------------------------------------------------------------
(***************************************************************************)
(* lab_ws                                                                  *)
(***************************************************************************)
\* A step of one connection's handler: its own promises are what is left to
\* show.
LEMMA HandlerKeeps ==
  ASSUME HubInv, NEW c \in Conns, NEW h \in Conn, conn' = [conn EXCEPT ![c] = h],
         UNCHANGED <<ring, nextSeq, pub>>, sent' \in [Conns -> Seq(Msg)],
         \A d \in Conns \ {c} : sent'[d] = sent[d], subs' \in SUBSET (subs \cup {c}),
         up' \in [Conns -> BOOLEAN], \A d \in Conns : up'[d] => up[d],
         OnceIn(sent[c])', ConnSound(c)', Replayed(c)', Served(c)',
         \A p \in Publishers : c \in pub[p].todo =>
           h.pc \in {"live", "gone"} /\ ~In(sent[c], Event(pub[p].seq))'
  PROVE  HubInv'
<1>0. /\ Typed /\ subs \in SUBSET Conns /\ conn \in [Conns -> Conn] /\ pub \in [Publishers -> Call]
      /\ HeadSeq' = HeadSeq
  BY DEF HubInv, Typed, HeadSeq
<1>1. conn' \in [Conns -> Conn] /\ conn'[c] = h /\ \A d \in Conns \ {c} : conn'[d] = conn[d]
  BY <1>0
<1>2. Typed'
  <2>1. subs' \in SUBSET Conns
    BY <1>0
  <2> QED BY <1>0, <1>1, <2>1 DEF Typed
<1>3. RingSound'
  BY <1>0 DEF HubInv, RingSound
<1>4. \A d \in Conns \ {c} : (\A x : In(sent[d], x)' <=> In(sent[d], x)) /\ (OnceIn(sent[d])' <=> OnceIn(sent[d]))
  BY QuietFacts
<1>5. EventsOnce'
  <2>1. \A d \in Conns : OnceIn(sent[d])
    BY DEF HubInv, EventsOnce, OnceIn
  <2>2. \A d \in Conns : OnceIn(sent[d])'
    BY <1>4, <2>1
  <2> QED BY <2>2 DEF EventsOnce, OnceIn
<1>6. ASSUME NEW p \in Publishers PROVE CallSound(p)'
  <2>1. CallSound(p) /\ pub' = pub /\ pub[p].todo \subseteq Conns
    BY <1>0 DEF HubInv, Call
  <2>2. \A d \in pub[p].todo : conn'[d].pc \in {"live", "gone"} /\ ~In(sent[d], Event(pub[p].seq))'
    BY <1>1, <1>4, <2>1 DEF CallSound
  <2> QED BY <1>0, <2>1, <2>2 DEF CallSound
<1>7. ASSUME NEW d \in Conns \ {c} PROVE ConnSound(d)' /\ Replayed(d)' /\ Served(d)'
  <2>1. ConnSound(d) /\ Replayed(d) /\ Served(d) /\ conn'[d] = conn[d] /\ (d \in subs' => d \in subs)
    BY <1>1 DEF HubInv
  <2>2. ConnSound(d)' /\ Replayed(d)'
    BY <1>0, <2>1, Bystander
  <2>3. Served(d)'
    BY <1>0, <1>4, <2>1 DEF Served, OnItsWay
  <2> QED BY <2>2, <2>3
<1> QED BY <1>2, <1>3, <1>5, <1>6, <1>7 DEF HubInv

\* Nobody serves a connection that has not subscribed.
LEMMA NotJoined ==
  ASSUME HubInv, NEW c \in Conns, conn[c].pc \notin {"live", "gone"}
  PROVE  c \notin subs /\ \A p \in Publishers : c \notin pub[p].todo
BY DEF HubInv, ConnSound, CallSound

\* What HubInv says of one connection, and what stays when its handler runs.
LEMMA HandlerFacts ==
  ASSUME HubInv, NEW c \in Conns
  PROVE  /\ Typed /\ RingSound /\ ConnSound(c) /\ Replayed(c) /\ Served(c) /\ OnceIn(sent[c])
         /\ conn[c] \in Conn /\ conn \in [Conns -> Conn] /\ sent \in [Conns -> Seq(Msg)] /\ HeadSeq \in Nat
         /\ up \in [Conns -> BOOLEAN] /\ (UNCHANGED nextSeq => HeadSeq' = HeadSeq)
<1>1. Typed /\ nextSeq \in Nat \ {0}
  BY DEF HubInv, Typed
<1>2. HeadSeq \in Nat
  BY <1>1, Before DEF HeadSeq
<1> QED BY <1>1, <1>2 DEF HubInv, Typed, EventsOnce, OnceIn, HeadSeq

\* A handshake message that is no event.
LEMMA OtherWritten ==
  ASSUME sent \in [Conns -> Seq(Msg)], NEW c \in Conns, NEW m \in Msg, m.type # "event", Written(c, m),
         OnceIn(sent[c])
  PROVE  /\ sent' \in [Conns -> Seq(Msg)] /\ \A d \in Conns \ {c} : sent'[d] = sent[d]
         /\ \A x \in Nat : In(sent[c], Event(x))' <=> In(sent[c], Event(x))
         /\ \A t : InType(sent[c], t)' <=> InType(sent[c], t) \/ m.type = t
         /\ OnceIn(sent[c])'
<1>1. \A x \in Nat : Event(x) # m
  BY EventFacts
<1> QED BY <1>1, WrittenFacts

\* The hello.
LEMMA GreetKeeps ==
  ASSUME HubInv, NEW c \in Conns, NEW since \in 0..MaxSeq, Greet(c, since)
  PROVE  HubInv'
<1> DEFINE h == [conn[c] EXCEPT !.pc = "replay", !.since = since]
<1>0. /\ Typed /\ ConnSound(c) /\ OnceIn(sent[c]) /\ conn[c] \in Conn /\ conn \in [Conns -> Conn]
      /\ sent \in [Conns -> Seq(Msg)] /\ HeadSeq \in Nat /\ HeadSeq' = HeadSeq /\ up \in [Conns -> BOOLEAN]
  BY HandlerFacts DEF Greet
<1>1. c \notin subs /\ \A p \in Publishers : c \notin pub[p].todo
  BY NotJoined DEF Greet
<1>2. h \in Conn /\ h.pc = "replay"
  <2>1. since \in Nat
    BY HubConstants
  <2> QED BY <1>0, <2>1 DEF Conn, Phases
<1>3. conn' = [conn EXCEPT ![c] = h]
  BY <1>0 DEF Greet
<1> HIDE DEF h
<1>4. Greeting(HeadSeq) \in Msg /\ Greeting(HeadSeq).type = "hello" /\ Written(c, Greeting(HeadSeq))
  BY <1>0 DEF Greeting, Msg, Greet
<1>5. /\ sent' \in [Conns -> Seq(Msg)] /\ \A d \in Conns \ {c} : sent'[d] = sent[d]
      /\ \A x \in Nat : In(sent[c], Event(x))' <=> In(sent[c], Event(x))
      /\ \A t : InType(sent[c], t)' <=> InType(sent[c], t) \/ t = "hello"
      /\ OnceIn(sent[c])'
  BY <1>0, <1>4, OtherWritten
<1>6. conn'[c] = h /\ conn[c].pc = "new" /\ UNCHANGED <<ring, nextSeq, subs, pub, up>>
  BY <1>0, <1>3 DEF Greet
<1>7. ConnSound(c)'
  BY <1>0, <1>1, <1>2, <1>5, <1>6 DEF ConnSound
<1>8. Replayed(c)' /\ Served(c)'
  BY <1>1, <1>2, <1>6 DEF Replayed, Served
<1> QED BY <1>0, <1>1, <1>2, <1>3, <1>5, <1>6, <1>7, <1>8, HandlerKeeps

\* The handler ends: refused, after a failed send, or when the browser left.
LEMMA EndedKeeps ==
  ASSUME HubInv, NEW c \in Conns, conn' = [conn EXCEPT ![c].pc = "gone"], subs' = subs \ {c},
         UNCHANGED <<ring, nextSeq, pub, up, sent>>
  PROVE  HubInv'
<1> DEFINE h == [conn[c] EXCEPT !.pc = "gone"]
<1>0. /\ Typed /\ ConnSound(c) /\ OnceIn(sent[c]) /\ conn[c] \in Conn /\ conn \in [Conns -> Conn]
      /\ sent \in [Conns -> Seq(Msg)] /\ HeadSeq' = HeadSeq /\ up \in [Conns -> BOOLEAN]
  BY HandlerFacts
<1>1. h \in Conn /\ h.pc = "gone"
  BY <1>0 DEF Conn, Phases
<1>2. conn' = [conn EXCEPT ![c] = h]
  BY <1>0
<1> HIDE DEF h
<1>3. conn'[c] = h /\ c \notin subs' /\ sent' = sent
  BY <1>0, <1>2
<1>4. (\A x : In(sent[c], x)' <=> In(sent[c], x)) /\ OnceIn(sent[c])'
  BY <1>0, QuietFacts
<1>5. ConnSound(c)'
  BY <1>0, <1>1, <1>3, <1>4 DEF ConnSound
<1>6. Replayed(c)' /\ Served(c)'
  BY <1>1, <1>3 DEF Replayed, Served
<1>7. \A p \in Publishers : c \in pub[p].todo => ~In(sent[c], Event(pub[p].seq))'
  BY <1>4 DEF HubInv, CallSound
<1> QED BY <1>0, <1>1, <1>2, <1>3, <1>4, <1>5, <1>6, <1>7, HandlerKeeps

\* The browser goes away.
LEMMA DropKeeps ==
  ASSUME HubInv, NEW c \in Conns, Drop(c)
  PROVE  HubInv'
<1>0. /\ Typed /\ ConnSound(c) /\ Replayed(c) /\ OnceIn(sent[c]) /\ conn[c] \in Conn /\ conn \in [Conns -> Conn]
      /\ sent \in [Conns -> Seq(Msg)] /\ HeadSeq' = HeadSeq /\ up \in [Conns -> BOOLEAN]
  BY HandlerFacts DEF Drop
<1>1. UNCHANGED <<ring, nextSeq, subs, pub, conn, sent>> /\ up' = [up EXCEPT ![c] = FALSE]
  BY DEF Drop
<1>2. conn' = [conn EXCEPT ![c] = conn[c]]
  BY <1>0, <1>1
<1>3. up' \in [Conns -> BOOLEAN] /\ ~up'[c] /\ \A d \in Conns : up'[d] => up[d]
  BY <1>0, <1>1
<1>4. (\A x : In(sent[c], x)' <=> In(sent[c], x)) /\ OnceIn(sent[c])'
  BY <1>0, <1>1, QuietFacts
<1>5. ConnSound(c)' /\ Replayed(c)'
  BY <1>0, <1>1, Bystander
<1>6. Served(c)'
  BY <1>3 DEF Served
<1>7. \A p \in Publishers : c \in pub[p].todo => conn[c].pc \in {"live", "gone"} /\ ~In(sent[c], Event(pub[p].seq))'
  BY <1>1, <1>4 DEF HubInv, CallSound
<1> QED BY <1>0, <1>1, <1>2, <1>3, <1>4, <1>5, <1>6, <1>7, HandlerKeeps

\* The handler of a connection that subscribed.
Joined(g, k, j) == [g EXCEPT !.pc = "live", !.out = <<>>, !.cut = k, !.joined = j]

\* The handler of a connection once it has subscribed.
LEMMA JoinedConn ==
  ASSUME NEW g \in Conn, NEW k \in Nat, NEW j \in Nat
  PROVE  Joined(g, k, j) \in Conn /\ Joined(g, k, j).pc = "live" /\ Joined(g, k, j).cut = k /\ Joined(g, k, j).joined = j
<1>1. <<>> \in Seq(Nat)
  OBVIOUS
<1>2. ASSUME NEW o \in Seq(Nat)
      PROVE  LET h == [g EXCEPT !.pc = "live", !.out = o, !.cut = k, !.joined = j]
             IN  h \in Conn /\ h.pc = "live" /\ h.cut = k /\ h.joined = j
  BY DEF Conn, Phases
<1> QED BY <1>1, <1>2 DEF Joined

\* A connection subscribes, having been sent what it does not know of the
\* events up to its cut.
LEMMA JoinKeeps ==
  ASSUME HubInv, NEW c \in Conns, conn[c].pc \notin {"live", "gone"}, NEW cut \in Nat, cut <= HeadSeq,
         Join(c, cut), UNCHANGED <<ring, nextSeq, pub, up, sent>>,
         \A s \in 1..cut : s > Known(c)' => In(sent[c], Event(s))
  PROVE  HubInv'
<1> DEFINE h == Joined(conn[c], cut, HeadSeq)
<1>0. /\ Typed /\ ConnSound(c) /\ OnceIn(sent[c]) /\ conn[c] \in Conn /\ conn \in [Conns -> Conn]
      /\ sent \in [Conns -> Seq(Msg)] /\ HeadSeq \in Nat /\ HeadSeq' = HeadSeq /\ up \in [Conns -> BOOLEAN]
  BY HandlerFacts
<1>1. \A p \in Publishers : c \notin pub[p].todo
  BY NotJoined
<1>2. h \in Conn /\ h.pc = "live" /\ h.cut = cut /\ h.joined = HeadSeq
  <2>1. conn[c] \in Conn /\ HeadSeq \in Nat /\ cut \in Nat
    BY <1>0
  <2>2. \A g \in Conn : \A k, j \in Nat :
          Joined(g, k, j) \in Conn /\ Joined(g, k, j).pc = "live" /\ Joined(g, k, j).cut = k /\ Joined(g, k, j).joined = j
    BY JoinedConn
  <2> QED BY <2>1, <2>2
<1>3. conn' = [conn EXCEPT ![c] = h]
  BY <1>0 DEF Join, Joined
<1> HIDE DEF h
<1>4. conn'[c] = h /\ sent' = sent /\ subs' = subs \cup {c}
  BY <1>0, <1>3 DEF Join
<1>5. (\A x : In(sent[c], x)' <=> In(sent[c], x)) /\ OnceIn(sent[c])'
  BY <1>0, QuietFacts
<1>6. ConnSound(c)'
  BY <1>0, <1>2, <1>4, <1>5 DEF ConnSound
<1>7. Replayed(c)'
  <2>1. \A s \in 1..cut : s > Known(c)' => In(sent[c], Event(s))'
    BY <1>5
  <2> QED BY <1>2, <1>4, <2>1 DEF Replayed
<1>8. Served(c)'
  BY <1>0, <1>2, <1>4 DEF Served
<1> QED BY <1>0, <1>1, <1>2, <1>3, <1>4, <1>5, <1>6, <1>7, <1>8, HandlerKeeps

\* Unless the ring overflowed, it has what the browser does not know.
LEMMA RingCovers ==
  ASSUME Typed, RingSound, NEW since \in Nat, ~Overflowed(since), NEW s \in 1..HeadSeq,
         s > IF since # 0 THEN since ELSE IF HeadSeq < Ring THEN 0 ELSE HeadSeq - Ring
  PROVE  s > since /\ \E j \in 1..Len(ring) : ring[j] = s
<1> DEFINE H == HeadSeq
           L == Len(ring)
<1>1. H \in Nat /\ L \in Nat /\ Ring \in Nat /\ Ring >= 1 /\ ring \in Seq(Nat)
  <2>1. nextSeq \in Nat \ {0} /\ ring \in Seq(Nat)
    BY DEF Typed
  <2> QED BY <2>1, Before, HubConstants DEF HeadSeq
<1>2. /\ L <= Ring /\ L <= H /\ (L < Ring => L = H)
      /\ \A i \in 1..L : ring[i] = H - L + i
  BY DEF RingSound
<1>3. since # 0 /\ L # 0 => ~(since + 1 < ring[1])
  <2>1. L # 0 => ring # <<>>
    BY <1>1
  <2> QED BY <2>1 DEF Overflowed
<1>4. s \in Nat /\ s >= 1 /\ s <= H /\ s > (IF since # 0 THEN since ELSE IF H < Ring THEN 0 ELSE H - Ring)
  BY <1>1
<1> HIDE DEF H, L
<1>5. s > since
  BY <1>1, <1>4
<1>6. s > H - L
  <2>1. CASE L < Ring
    BY <1>1, <1>2, <1>4, <2>1
  <2>2. CASE L = Ring /\ since = 0
    BY <1>1, <1>2, <1>4, <2>2
  <2>3. CASE L = Ring /\ since # 0
    <3>1. 1 \in 1..L /\ L # 0
      BY <1>1, <2>3
    <3>2. ring[1] = H - L + 1
      BY <1>2, <3>1
    <3> QED BY <1>1, <1>2, <1>3, <1>5, <2>3, <3>1, <3>2
  <2> QED BY <1>1, <1>2, <2>1, <2>2, <2>3
<1>7. s - (H - L) \in 1..L
  BY <1>1, <1>2, <1>4, <1>6
<1>8. ring[s - (H - L)] = s
  <2>1. ring[s - (H - L)] = H - L + (s - (H - L))
    BY <1>2, <1>7
  <2> QED BY <1>1, <1>4, <2>1
<1> QED BY <1>5, <1>7, <1>8 DEF L

\* The kept events are distinct and numbered up to the head.
LEMMA RingDistinct ==
  ASSUME Typed, RingSound
  PROVE  ring \in Seq(Nat) /\ Distinct(ring) /\ \A i \in 1..Len(ring) : ring[i] <= HeadSeq
<1>1. HeadSeq \in Nat /\ ring \in Seq(Nat) /\ Len(ring) \in Nat
  <2>1. nextSeq \in Nat \ {0} /\ ring \in Seq(Nat)
    BY DEF Typed
  <2> QED BY <2>1, Before DEF HeadSeq
<1>2. \A i \in 1..Len(ring) : ring[i] = HeadSeq - Len(ring) + i
  BY DEF RingSound
<1>3. \A i, j \in 1..Len(ring) : ring[i] = ring[j] => i = j
  BY <1>1, <1>2
<1>4. \A i \in 1..Len(ring) : ring[i] <= HeadSeq
  BY <1>1, <1>2
<1> QED BY <1>1, <1>3, <1>4 DEF Distinct

\* The first of a queue of distinct numbers, and the others.
LEMMA QueueFacts ==
  ASSUME NEW q \in Seq(Nat), q # <<>>, \A i, j \in DOMAIN q : q[i] = q[j] => i = j
  PROVE  /\ Head(q) \in Nat /\ Tail(q) \in Seq(Nat) /\ \E i \in DOMAIN q : q[i] = Head(q)
         /\ \A i \in DOMAIN Tail(q) : Tail(q)[i] # Head(q) /\ \E j \in DOMAIN q : q[j] = Tail(q)[i]
         /\ \A i, j \in DOMAIN Tail(q) : Tail(q)[i] = Tail(q)[j] => i = j
         /\ \A i \in DOMAIN q : q[i] = Head(q) \/ \E j \in DOMAIN Tail(q) : Tail(q)[j] = q[i]
<1> DEFINE t == Tail(q)
<1>1. /\ t \in Seq(Nat) /\ DOMAIN q = 1..Len(q) /\ Len(q) \in Nat /\ Len(q) >= 1
      /\ DOMAIN t = 1..(Len(q) - 1) /\ \A i \in 1..(Len(q) - 1) : t[i] = q[i + 1]
      /\ Head(q) = q[1] /\ q[1] \in Nat
  OBVIOUS
<1> HIDE DEF t
<1>2. 1 \in DOMAIN q /\ \A i \in DOMAIN t : i + 1 \in DOMAIN q /\ i + 1 # 1 /\ t[i] = q[i + 1]
  BY <1>1
<1>3. \A i \in DOMAIN q : i = 1 \/ (i - 1 \in DOMAIN t /\ t[i - 1] = q[i])
  <2> SUFFICES ASSUME NEW i \in DOMAIN q, i # 1 PROVE i - 1 \in DOMAIN t /\ t[i - 1] = q[i]
    OBVIOUS
  <2>1. i \in Nat /\ i - 1 \in 1..(Len(q) - 1) /\ (i - 1) + 1 = i
    BY <1>1
  <2> QED BY <1>1, <2>1
<1>4. \A i, j \in DOMAIN t : t[i] = t[j] => i = j
  <2> SUFFICES ASSUME NEW i \in DOMAIN t, NEW j \in DOMAIN t, t[i] = t[j] PROVE i = j
    OBVIOUS
  <2>1. i + 1 = j + 1
    BY <1>2
  <2> QED BY <1>1, <2>1
<1>5. \A i \in DOMAIN t : t[i] # Head(q) /\ \E j \in DOMAIN q : q[j] = t[i]
  BY <1>1, <1>2
<1>6. \A i \in DOMAIN q : q[i] = Head(q) \/ \E j \in DOMAIN t : t[j] = q[i]
  BY <1>1, <1>3
<1>7. \E i \in DOMAIN q : q[i] = Head(q)
  BY <1>1, <1>2
<1> QED BY <1>1, <1>4, <1>5, <1>6, <1>7 DEF t

\* A queued event is sent to a connection that is being replayed to: `queue`
\* is what was left to send, `h` the handler afterwards.
LEMMA QueueSent ==
  ASSUME HubInv, NEW c \in Conns, conn[c].pc \in {"replay", "sending"}, NEW queue \in Seq(Nat), queue # <<>>,
         \A i, j \in DOMAIN queue : queue[i] = queue[j] => i = j,
         \A i \in DOMAIN queue : queue[i] <= HeadSeq /\ ~In(sent[c], Event(queue[i])),
         NEW h \in Conn, h.pc = "sending", h.out = Tail(queue), h.cut <= HeadSeq, Written(c, Event(Head(queue))),
         conn' = [conn EXCEPT ![c] = h], UNCHANGED <<ring, nextSeq, pub, up, subs>>,
         \A s \in 1..h.cut : s > (IF h.since # 0 THEN h.since ELSE IF h.cut < Ring THEN 0 ELSE h.cut - Ring) =>
           In(sent[c], Event(s)) \/ \E i \in DOMAIN queue : queue[i] = s
  PROVE  HubInv'
<1> DEFINE e == Head(queue)
           t == Tail(queue)
<1>0. /\ Typed /\ ConnSound(c) /\ OnceIn(sent[c]) /\ conn[c] \in Conn /\ conn \in [Conns -> Conn]
      /\ sent \in [Conns -> Seq(Msg)] /\ HeadSeq \in Nat /\ HeadSeq' = HeadSeq /\ up \in [Conns -> BOOLEAN]
  BY HandlerFacts
<1>1. c \notin subs /\ \A p \in Publishers : c \notin pub[p].todo
  BY NotJoined
<1>2. /\ e \in Nat /\ t \in Seq(Nat) /\ \E i \in DOMAIN queue : queue[i] = e
      /\ \A i \in DOMAIN t : t[i] # e /\ \E j \in DOMAIN queue : queue[j] = t[i]
      /\ \A i, j \in DOMAIN t : t[i] = t[j] => i = j
      /\ \A i \in DOMAIN queue : queue[i] = e \/ \E j \in DOMAIN t : t[j] = queue[i]
  BY QueueFacts
<1> HIDE DEF e, t
<1>3. e <= HeadSeq /\ ~In(sent[c], Event(e)) /\ Event(e) \in Msg /\ Event(e).type = "event"
  BY <1>2, EventFacts
<1>4. /\ sent' \in [Conns -> Seq(Msg)] /\ \A d \in Conns \ {c} : sent'[d] = sent[d]
      /\ \A x : In(sent[c], x)' <=> In(sent[c], x) \/ x = Event(e)
      /\ \A k : InType(sent[c], k)' <=> InType(sent[c], k) \/ k = "event"
      /\ OnceIn(sent[c])'
  <2>1. Written(c, Event(e))
    BY DEF e
  <2>2. /\ sent' \in [Conns -> Seq(Msg)] /\ \A d \in Conns \ {c} : sent'[d] = sent[d]
        /\ \A x : In(sent[c], x)' <=> In(sent[c], x) \/ x = Event(e)
        /\ \A k : InType(sent[c], k)' <=> InType(sent[c], k) \/ Event(e).type = k
        /\ OnceIn(sent[c]) /\ (Event(e).type = "event" => ~In(sent[c], Event(e))) => OnceIn(sent[c])'
    BY <1>0, <1>3, <2>1, WrittenFacts
  <2> QED BY <1>0, <1>3, <2>2
<1>5. conn'[c] = h /\ h.out = t /\ subs' = subs
  BY <1>0 DEF t
<1>6. \A x \in Nat : In(sent[c], Event(x))' <=> In(sent[c], Event(x)) \/ x = e
  BY <1>2, <1>4, EventFacts
<1>7. ConnSound(c)'
  <2>1. \A x \in Nat : In(sent[c], Event(x))' => x <= HeadSeq
    BY <1>0, <1>3, <1>6 DEF ConnSound
  <2>2. ~InType(sent[c], "lab_topology")' /\ ~InType(sent[c], "force_resnapshot")'
    BY <1>0, <1>4 DEF ConnSound
  <2>3. \A i \in DOMAIN t : t[i] <= HeadSeq /\ ~In(sent[c], Event(t[i]))'
    <3> SUFFICES ASSUME NEW i \in DOMAIN t PROVE t[i] <= HeadSeq /\ ~In(sent[c], Event(t[i]))'
      OBVIOUS
    <3>1. t[i] \in Nat /\ t[i] # e
      BY <1>2
    <3>2. PICK j \in DOMAIN queue : queue[j] = t[i]
      BY <1>2
    <3>3. queue[j] <= HeadSeq /\ ~In(sent[c], Event(queue[j]))
      OBVIOUS
    <3>4. t[i] <= HeadSeq /\ ~In(sent[c], Event(t[i]))
      BY <3>2, <3>3
    <3> QED BY <1>6, <3>1, <3>4
  <2> QED BY <1>0, <1>1, <1>2, <1>5, <2>1, <2>2, <2>3 DEF ConnSound
<1>8. Replayed(c)'
  <2>1. Known(c)' = IF h.since # 0 THEN h.since ELSE IF h.cut < Ring THEN 0 ELSE h.cut - Ring
    <3>1. ~Wrote(c, "lab_topology")' /\ ~Wrote(c, "force_resnapshot")'
      BY <1>0, <1>4 DEF ConnSound, Wrote, InType
    <3> QED BY <1>5, <3>1 DEF Known
  <2>2. ASSUME NEW s \in 1..h.cut, s > Known(c)'
        PROVE  In(sent[c], Event(s))' \/ \E i \in DOMAIN t : t[i] = s
    <3>1. In(sent[c], Event(s)) \/ \E i \in DOMAIN queue : queue[i] = s
      BY <2>1, <2>2
    <3>2. (\E i \in DOMAIN queue : queue[i] = s) => s = e \/ \E i \in DOMAIN t : t[i] = s
      BY <1>2
    <3> QED BY <1>4, <3>1, <3>2
  <2> QED BY <1>5, <2>2 DEF Replayed
<1>9. Served(c)'
  BY <1>1, <1>5 DEF Served
<1> QED BY <1>0, <1>1, <1>4, <1>5, <1>7, <1>8, <1>9, HandlerKeeps

\* What a connection that just subscribed knows.
LEMMA JoinKnown ==
  ASSUME conn \in [Conns -> Conn], NEW c \in Conns, NEW cut \in Nat, Join(c, cut), UNCHANGED sent
  PROVE  Known(c)' = IF InType(sent[c], "lab_topology") THEN cut
                     ELSE IF InType(sent[c], "force_resnapshot") THEN HeadSeq
                     ELSE IF conn[c].since # 0 THEN conn[c].since
                     ELSE IF cut < Ring THEN 0 ELSE cut - Ring
<1>1. conn'[c].cut = cut /\ conn'[c].joined = HeadSeq /\ conn'[c].since = conn[c].since
  <2>1. conn[c] \in Conn /\ conn'[c] = Joined(conn[c], cut, HeadSeq)
    BY DEF Join, Joined
  <2>2. \A g \in Conn : \A k, j : Joined(g, k, j).cut = k /\ Joined(g, k, j).joined = j /\ Joined(g, k, j).since = g.since
    BY DEF Joined, Conn
  <2> QED BY <2>1, <2>2
<1>2. Wrote(c, "lab_topology")' <=> InType(sent[c], "lab_topology")
  BY DEF Wrote, InType
<1>3. Wrote(c, "force_resnapshot")' <=> InType(sent[c], "force_resnapshot")
  BY DEF Wrote, InType
<1> QED BY <1>1, <1>2, <1>3 DEF Known

\* The handler of a connection that is being replayed to.
Sending(g, o, k) == [g EXCEPT !.pc = "sending", !.out = o, !.cut = k]

\* The replay is taken.
LEMMA ReplayKeeps ==
  ASSUME HubInv, NEW c \in Conns, Replay(c)
  PROVE  HubInv'
<1> DEFINE since == conn[c].since
           out == ReplaySince(since)
<1>0. /\ Typed /\ RingSound /\ ConnSound(c) /\ OnceIn(sent[c]) /\ conn[c] \in Conn /\ conn \in [Conns -> Conn]
      /\ sent \in [Conns -> Seq(Msg)] /\ HeadSeq \in Nat /\ HeadSeq' = HeadSeq /\ up \in [Conns -> BOOLEAN]
  BY HandlerFacts DEF Replay
<1>1. conn[c].pc = "replay" /\ UNCHANGED <<ring, nextSeq, pub, up>> /\ since \in Nat
  BY <1>0 DEF Replay, Conn
<1>2. c \notin subs /\ \A p \in Publishers : c \notin pub[p].todo
  BY <1>1, NotJoined
<1>3. /\ ~InType(sent[c], "event") /\ ~InType(sent[c], "lab_topology") /\ ~InType(sent[c], "force_resnapshot")
      /\ \A x \in Nat : ~In(sent[c], Event(x))
  BY <1>0, <1>1, EventFacts DEF ConnSound
<1>4. /\ out \in Seq(Nat) /\ \A i, j \in DOMAIN out : out[i] = out[j] => i = j
      /\ \A i \in DOMAIN out : out[i] <= HeadSeq /\ ~In(sent[c], Event(out[i]))
      /\ \A j \in 1..Len(ring) : ring[j] > since => \E i \in DOMAIN out : out[i] = ring[j]
  <2>1. ring \in Seq(Nat) /\ Distinct(ring) /\ \A i \in 1..Len(ring) : ring[i] <= HeadSeq
    BY <1>0, RingDistinct
  <2>2. Filtered(out, ring, since, Len(ring))
    BY <1>1, <2>1, ReplayFacts
  <2>3. /\ out \in Seq(Nat) /\ (\A i, j \in DOMAIN out : out[i] = out[j] => i = j)
        /\ (\A i \in DOMAIN out : \E j \in 1..Len(ring) : out[i] = ring[j])
        /\ \A j \in 1..Len(ring) : ring[j] > since => \E i \in DOMAIN out : out[i] = ring[j]
    BY <2>2 DEF Filtered
  <2> HIDE DEF out
  <2>4. \A i \in DOMAIN out : out[i] <= HeadSeq /\ out[i] \in Nat
    BY <2>1, <2>3, SMTT(40)
  <2> QED BY <1>3, <2>3, <2>4
<1>5. ASSUME ~Overflowed(since), NEW s \in 1..HeadSeq,
             s > IF since # 0 THEN since ELSE IF HeadSeq < Ring THEN 0 ELSE HeadSeq - Ring
      PROVE  \E i \in DOMAIN out : out[i] = s
  <2>1. s > since /\ \E j \in 1..Len(ring) : ring[j] = s
    BY <1>0, <1>1, <1>5, RingCovers
  <2> QED BY <1>4, <2>1
<1> HIDE DEF out
<1>6. CASE /\ Written(c, Resnapshot)
           /\ conn' = [conn EXCEPT ![c].pc = "snapshot", ![c].cut = HeadSeq] /\ UNCHANGED subs
  <2> DEFINE h == [conn[c] EXCEPT !.pc = "snapshot", !.cut = HeadSeq]
  <2>1. h \in Conn /\ h.pc = "snapshot" /\ h.cut = HeadSeq /\ conn' = [conn EXCEPT ![c] = h]
    BY <1>0, <1>6 DEF Conn, Phases
  <2> HIDE DEF h
  <2>2. Resnapshot \in Msg /\ Resnapshot.type = "force_resnapshot"
    BY DEF Resnapshot, Msg
  <2>3. /\ sent' \in [Conns -> Seq(Msg)] /\ \A d \in Conns \ {c} : sent'[d] = sent[d]
        /\ \A x \in Nat : In(sent[c], Event(x))' <=> In(sent[c], Event(x))
        /\ \A t : InType(sent[c], t)' <=> InType(sent[c], t) \/ t = "force_resnapshot"
        /\ OnceIn(sent[c])'
    BY <1>0, <1>6, <2>2, OtherWritten
  <2>4. conn'[c] = h /\ subs' = subs
    BY <1>0, <1>6, <2>1
  <2>5. ConnSound(c)'
    BY <1>0, <1>2, <1>3, <2>1, <2>3, <2>4 DEF ConnSound
  <2>6. Replayed(c)' /\ Served(c)'
    BY <1>2, <2>1, <2>4 DEF Replayed, Served
  <2> QED BY <1>0, <1>1, <1>2, <2>1, <2>3, <2>4, <2>5, <2>6, HandlerKeeps
<1>7. CASE /\ ~Overflowed(since) /\ out # <<>> /\ Written(c, Event(Head(out)))
           /\ conn' = [conn EXCEPT ![c].pc = "sending", ![c].out = Tail(out), ![c].cut = HeadSeq]
           /\ UNCHANGED subs
  <2> DEFINE h == Sending(conn[c], Tail(out), HeadSeq)
  <2>1. Tail(out) \in Seq(Nat)
    BY <1>4, <1>7
  <2>2. /\ h \in Conn /\ h.pc = "sending" /\ h.out = Tail(out) /\ h.cut = HeadSeq /\ h.since = since
        /\ conn' = [conn EXCEPT ![c] = h]
    <3>1. \A g \in Conn : \A o \in Seq(Nat) : \A k \in Nat :
            /\ Sending(g, o, k) \in Conn /\ Sending(g, o, k).pc = "sending" /\ Sending(g, o, k).out = o
            /\ Sending(g, o, k).cut = k /\ Sending(g, o, k).since = g.since
      BY DEF Conn, Phases, Sending
    <3>2. conn[c] \in Conn /\ HeadSeq \in Nat
      BY <1>0
    <3>3. h \in Conn /\ h.pc = "sending" /\ h.out = Tail(out) /\ h.cut = HeadSeq /\ h.since = conn[c].since
      <4> DEFINE t == Tail(out)
      <4>1. t \in Seq(Nat)
        BY <2>1
      <4> HIDE DEF t
      <4>2. /\ Sending(conn[c], t, HeadSeq) \in Conn /\ Sending(conn[c], t, HeadSeq).pc = "sending"
            /\ Sending(conn[c], t, HeadSeq).out = t /\ Sending(conn[c], t, HeadSeq).cut = HeadSeq
            /\ Sending(conn[c], t, HeadSeq).since = conn[c].since
        BY <3>1, <3>2, <4>1
      <4> QED BY <4>2 DEF t
    <3>4. conn' = [conn EXCEPT ![c] = h]
      BY <1>0, <1>7 DEF Sending
    <3> QED BY <3>3, <3>4
  <2> HIDE DEF h
  <2>3. \A s \in 1..h.cut : s > (IF h.since # 0 THEN h.since ELSE IF h.cut < Ring THEN 0 ELSE h.cut - Ring) =>
          In(sent[c], Event(s)) \/ \E i \in DOMAIN out : out[i] = s
    BY <1>5, <1>7, <2>2
  <2>4. h.cut <= HeadSeq
    BY <1>0, <2>2
  <2> QED BY <1>1, <1>4, <1>7, <2>2, <2>3, <2>4, QueueSent
<1>8. CASE ~Overflowed(since) /\ out = <<>> /\ Join(c, HeadSeq) /\ UNCHANGED sent
  <2>1. \A i : i \notin DOMAIN out
    BY <1>8
  <2>2. Known(c)' = IF since # 0 THEN since ELSE IF HeadSeq < Ring THEN 0 ELSE HeadSeq - Ring
    BY <1>0, <1>3, <1>8, JoinKnown
  <2>3. \A s \in 1..HeadSeq : s > Known(c)' => In(sent[c], Event(s))
    BY <1>5, <1>8, <2>1, <2>2
  <2>4. HeadSeq <= HeadSeq
    BY <1>0
  <2> QED BY <1>0, <1>1, <1>8, <2>3, <2>4, JoinKeeps
<1> QED BY <1>6, <1>7, <1>8 DEF Replay, out

\* The replay goes on, and then the connection subscribes.
LEMMA ReplayNextKeeps ==
  ASSUME HubInv, NEW c \in Conns, ReplayNext(c)
  PROVE  HubInv'
<1> DEFINE queue == conn[c].out
<1>0. /\ Typed /\ ConnSound(c) /\ Replayed(c) /\ conn[c] \in Conn /\ conn \in [Conns -> Conn]
      /\ HeadSeq \in Nat /\ HeadSeq' = HeadSeq
  BY HandlerFacts DEF ReplayNext
<1>1. conn[c].pc = "sending" /\ UNCHANGED <<ring, nextSeq, pub, up>>
  BY DEF ReplayNext
<1>2. /\ queue \in Seq(Nat) /\ conn[c].cut \in Nat /\ conn[c].cut <= HeadSeq
      /\ \A i \in DOMAIN queue : queue[i] <= HeadSeq /\ ~In(sent[c], Event(queue[i]))
      /\ \A i, j \in DOMAIN queue : queue[i] = queue[j] => i = j
      /\ ~InType(sent[c], "lab_topology") /\ ~InType(sent[c], "force_resnapshot")
  BY <1>0, <1>1 DEF ConnSound, Conn
<1>3. Known(c) = IF conn[c].since # 0 THEN conn[c].since
                 ELSE IF conn[c].cut < Ring THEN 0 ELSE conn[c].cut - Ring
  BY <1>2 DEF Known, Wrote, InType
<1>4. \A s \in 1..conn[c].cut : s > Known(c) => In(sent[c], Event(s)) \/ \E i \in DOMAIN queue : queue[i] = s
  BY <1>0, <1>1 DEF Replayed
<1> HIDE DEF queue
<1>5. CASE /\ queue # <<>> /\ Written(c, Event(Head(queue)))
           /\ conn' = [conn EXCEPT ![c].out = Tail(@)] /\ UNCHANGED subs
  <2> DEFINE h == [conn[c] EXCEPT !.out = Tail(queue)]
  <2>1. Tail(queue) \in Seq(Nat)
    BY <1>2, <1>5
  <2>2. /\ h \in Conn /\ h.pc = "sending" /\ h.out = Tail(queue) /\ h.cut = conn[c].cut
        /\ h.since = conn[c].since /\ conn' = [conn EXCEPT ![c] = h]
    <3>1. \A g \in Conn : \A o \in Seq(Nat) :
            LET x == [g EXCEPT !.out = o]
            IN  x \in Conn /\ x.pc = g.pc /\ x.out = o /\ x.cut = g.cut /\ x.since = g.since
      BY DEF Conn
    <3>2. h \in Conn /\ h.pc = "sending" /\ h.out = Tail(queue) /\ h.cut = conn[c].cut /\ h.since = conn[c].since
      BY <1>0, <1>1, <2>1, <3>1
    <3> QED BY <1>0, <1>5, <3>2 DEF queue
  <2> HIDE DEF h
  <2>3. \A s \in 1..h.cut : s > (IF h.since # 0 THEN h.since ELSE IF h.cut < Ring THEN 0 ELSE h.cut - Ring) =>
          In(sent[c], Event(s)) \/ \E i \in DOMAIN queue : queue[i] = s
    BY <1>3, <1>4, <2>2
  <2>4. h.cut <= HeadSeq
    BY <1>2, <2>2
  <2> QED BY <1>1, <1>2, <1>5, <2>2, <2>3, <2>4, QueueSent
<1>6. CASE queue = <<>> /\ Join(c, conn[c].cut) /\ UNCHANGED sent
  <2>1. \A i : i \notin DOMAIN queue
    BY <1>6
  <2>2. Known(c)' = Known(c)
    BY <1>0, <1>2, <1>3, <1>6, JoinKnown
  <2>3. \A s \in 1..conn[c].cut : s > Known(c)' => In(sent[c], Event(s))
    BY <1>4, <2>1, <2>2
  <2> QED BY <1>1, <1>2, <1>6, <2>3, JoinKeeps
<1> QED BY <1>5, <1>6 DEF ReplayNext, queue

\* A connection that was sent a snapshot, or told to fetch one, subscribes.
LEMMA SnapshotJoinKeeps ==
  ASSUME HubInv, NEW c \in Conns, conn[c].pc \in {"snapshot", "subscribe"}, Join(c, conn[c].cut),
         UNCHANGED <<ring, nextSeq, pub, up, sent>>
  PROVE  HubInv'
<1>1. /\ conn[c] \in Conn /\ conn \in [Conns -> Conn] /\ ConnSound(c) /\ HeadSeq \in Nat
  BY HandlerFacts
<1>2. conn[c].cut \in Nat /\ conn[c].cut <= HeadSeq
  BY <1>1 DEF Conn, ConnSound
<1>3. InType(sent[c], "lab_topology") \/ InType(sent[c], "force_resnapshot")
  BY <1>1 DEF ConnSound
<1>4. Known(c)' \in {conn[c].cut, HeadSeq}
  BY <1>1, <1>2, <1>3, JoinKnown
<1>5. \A s \in 1..conn[c].cut : ~(s > Known(c)')
  BY <1>1, <1>2, <1>4
<1> QED BY <1>2, <1>5, JoinKeeps

\* The snapshot is sent, or its failure swallowed.
LEMMA SnapshotKeeps ==
  ASSUME HubInv, NEW c \in Conns, Snapshot(c)
  PROVE  HubInv'
<1>0. /\ Typed /\ ConnSound(c) /\ OnceIn(sent[c]) /\ conn[c] \in Conn /\ conn \in [Conns -> Conn]
      /\ sent \in [Conns -> Seq(Msg)] /\ HeadSeq \in Nat /\ HeadSeq' = HeadSeq /\ up \in [Conns -> BOOLEAN]
  BY HandlerFacts DEF Snapshot
<1>1. conn[c].pc = "snapshot" /\ UNCHANGED <<ring, nextSeq, pub, up>>
  BY DEF Snapshot
<1>2. c \notin subs /\ \A p \in Publishers : c \notin pub[p].todo
  BY <1>1, NotJoined
<1>3. CASE /\ Written(c, Topology(HeadSeq)) /\ UNCHANGED subs
           /\ conn' = [conn EXCEPT ![c].pc = "subscribe", ![c].cut = HeadSeq]
  <2> DEFINE h == [conn[c] EXCEPT !.pc = "subscribe", !.cut = HeadSeq]
  <2>1. h \in Conn /\ h.pc = "subscribe" /\ h.cut = HeadSeq /\ conn' = [conn EXCEPT ![c] = h]
    BY <1>0, <1>3 DEF Conn, Phases
  <2> HIDE DEF h
  <2>2. Topology(HeadSeq) \in Msg /\ Topology(HeadSeq).type = "lab_topology"
    BY <1>0 DEF Topology, Msg
  <2>3. /\ sent' \in [Conns -> Seq(Msg)] /\ \A d \in Conns \ {c} : sent'[d] = sent[d]
        /\ \A x \in Nat : In(sent[c], Event(x))' <=> In(sent[c], Event(x))
        /\ \A t : InType(sent[c], t)' <=> InType(sent[c], t) \/ t = "lab_topology"
        /\ OnceIn(sent[c])'
    BY <1>0, <1>3, <2>2, OtherWritten
  <2>4. conn'[c] = h /\ subs' = subs
    BY <1>0, <1>3, <2>1
  <2>5. ConnSound(c)'
    BY <1>0, <1>1, <1>2, <2>1, <2>3, <2>4 DEF ConnSound
  <2>6. Replayed(c)' /\ Served(c)'
    BY <1>2, <2>1, <2>4 DEF Replayed, Served
  <2> QED BY <1>0, <1>1, <1>2, <2>1, <2>3, <2>4, <2>5, <2>6, HandlerKeeps
<1>4. CASE Join(c, conn[c].cut) /\ UNCHANGED sent
  BY <1>1, <1>4, SnapshotJoinKeeps
<1> QED BY <1>3, <1>4 DEF Snapshot
------------------------------------------------------------------------------
(***************************************************************************)
(* The specification                                                       *)
(***************************************************************************)
\* A new hub has promised nothing.
LEMMA InitHolds == Init => HubInv
<1> SUFFICES ASSUME Init PROVE HubInv
  OBVIOUS
<1>1. NoPublish \in Call /\ NoPublish.seq = 0 /\ NoPublish.todo = {}
  BY DEF NoPublish, Call
<1>2. NewConn \in Conn /\ NewConn.pc = "new"
  BY DEF NewConn, Conn, Phases
<1>3. /\ <<>> \in Seq(Nat) /\ <<>> \in Seq(Msg) /\ ring = <<>> /\ nextSeq = 1 /\ subs = {}
      /\ \A c \in Conns : sent[c] = <<>> /\ conn[c] = NewConn
      /\ \A p \in Publishers : pub[p] = NoPublish
  BY DEF Init
<1>4. Typed
  BY <1>1, <1>2, <1>3 DEF Init, Typed
<1>5. HeadSeq = 0
  BY <1>3 DEF HeadSeq
<1>6. RingSound
  BY <1>3, <1>5, HubConstants DEF RingSound
<1>7. \A x, t : ~In(<<>>, x) /\ ~InType(<<>>, t)
  BY DEF In, InType
<1>8. EventsOnce
  BY <1>3 DEF EventsOnce
<1>9. \A p \in Publishers : CallSound(p)
  BY <1>1, <1>3, <1>5 DEF CallSound
<1>10. \A c \in Conns : ConnSound(c) /\ Replayed(c) /\ Served(c)
  BY <1>2, <1>3, <1>7 DEF ConnSound, Replayed, Served
<1> QED BY <1>4, <1>6, <1>8, <1>9, <1>10 DEF HubInv

\* One step per action.
LEMMA NextKeeps == HubInv /\ [Next]_vars => HubInv'
<1> SUFFICES ASSUME HubInv, [Next]_vars PROVE HubInv'
  OBVIOUS
<1>1. ASSUME NEW p \in Publishers, PublishStep(p) PROVE HubInv'
  BY <1>1, PublishKeeps, SendNextKeeps, PublishEndKeeps DEF PublishStep
<1>2. ASSUME NEW c \in Conns, Replay(c) \/ ReplayNext(c) \/ Snapshot(c) PROVE HubInv'
  BY <1>2, ReplayKeeps, ReplayNextKeeps, SnapshotKeeps
<1>3. ASSUME NEW c \in Conns, Subscribe(c) PROVE HubInv'
  BY <1>3, SnapshotJoinKeeps DEF Subscribe
<1>4. ASSUME NEW c \in Conns, Refuse(c) \/ HandshakeFails(c) PROVE HubInv'
  <2>1. conn[c].pc \notin {"live", "gone"}
    BY <1>4 DEF Refuse, HandshakeFails
  <2>2. subs' = subs \ {c}
    BY <1>4, <2>1, NotJoined DEF Refuse, HandshakeFails
  <2> QED BY <1>4, <2>2, EndedKeeps DEF Refuse, HandshakeFails
<1>5. ASSUME NEW c \in Conns, Disconnect(c) PROVE HubInv'
  BY <1>5, EndedKeeps DEF Disconnect
<1>6. ASSUME NEW c \in Conns, Drop(c) PROVE HubInv'
  BY <1>6, DropKeeps
<1>7. ASSUME NEW c \in Conns, NEW since \in 0..MaxSeq, Greet(c, since) PROVE HubInv'
  BY <1>7, GreetKeeps
<1>8. ASSUME UNCHANGED vars PROVE HubInv'
  BY <1>8 DEF vars, HubInv, Typed, RingSound, EventsOnce, CallSound, ConnSound, Replayed, Served, Known,
              Wrote, OnItsWay, HeadSeq
<1> QED BY <1>1, <1>2, <1>3, <1>4, <1>5, <1>6, <1>7, <1>8 DEF Next, HandlerStep

\* HubInv holds in every reachable state.
LEMMA HubInvariant == Spec => []HubInv
BY InitHolds, NextKeeps, PTL DEF Spec

\* No event is written twice to a connection (EventsOnce): the ring a
\* connection is replayed and the publishers' lists of subscribers never
\* hold the same event for it, for any number of publishers in flight.
THEOREM NoEventTwice == Spec => []EventsOnce
<1>1. HubInv => EventsOnce
  BY DEF HubInv
<1> QED BY <1>1, HubInvariant, PTL

\* A subscribed browser misses at most the events numbered between the cut of
\* its replay and its subscription in lab_ws (OnlyHandshakeGap).
THEOREM GapOnlyInHandshake == Spec => []OnlyHandshakeGap
<1>1. ASSUME HubInv PROVE OnlyHandshakeGap
  <2> SUFFICES ASSUME NEW c \in subs, conn[c].pc = "live", up[c], NEW s \in 1..HeadSeq, s > Known(c),
                      ~(conn[c].cut < s /\ s <= conn[c].joined)
               PROVE  OnItsWay(c, s) \/ \E i \in DOMAIN sent[c] : sent[c][i] = Event(s)
    BY DEF OnlyHandshakeGap
  <2>1. c \in Conns
    BY <1>1 DEF HubInv, Typed
  <2>2. Replayed(c) /\ Served(c) /\ conn[c] \in Conn /\ HeadSeq \in Nat
    BY <1>1, <2>1, HandlerFacts
  <2>3. conn[c].cut \in Nat /\ conn[c].joined \in Nat /\ s \in Nat /\ s >= 1
    BY <2>2 DEF Conn
  <2>4. CASE s <= conn[c].cut
    <3>1. s \in 1..conn[c].cut
      BY <2>3, <2>4
    <3> QED BY <2>2, <3>1 DEF Replayed, In
  <2>5. CASE s > conn[c].joined
    BY <2>2, <2>5 DEF Served, In
  <2> QED BY <2>3, <2>4, <2>5
<1>2. HubInv => OnlyHandshakeGap
  BY <1>1
<1> QED BY <1>2, HubInvariant, PTL

------------------------------------------------------------------------------
(* The browser's end of the feed.                                          *)

\* openSocket, called for a client that is not blocked, leaves it with a
\* socket or a timer.
LEMMA OpenSocketServes ==
  ASSUME NEW pending, OpenSocket(FALSE, pending)
  PROVE  cur' # None \/ timer'
BY ClientConstants DEF OpenSocket, CurrentLive

\* For every number of sockets and faults: a connected browser whose tab is
\* visible has a socket or a timer that will open one, whichever close
\* events, failed opens and visibility changes came before.
THEOREM ClientNeverStranded == ClientSpec => []NeverStranded
<1>1. ClientInit => NeverStranded
  BY DEF ClientInit, NeverStranded
<1>2. NeverStranded /\ [ClientNext]_clientVars => NeverStranded'
  <2> SUFFICES ASSUME NeverStranded, [ClientNext]_clientVars, mode' = "on", ~paused'
               PROVE  cur' # None \/ timer'
    BY DEF NeverStranded
  <2> USE DEF NeverStranded
  <2>1. CASE Connect
    BY <2>1, OpenSocketServes DEF Connect
  <2>2. CASE TimerFires
    <3>1. mode = "on" /\ ~paused
      BY <2>2 DEF TimerFires
    <3>2. OpenSocket(FALSE, FALSE)
      BY <2>2, <3>1 DEF TimerFires, OpenSocket
    <3> QED BY <3>2, OpenSocketServes
  <2>3. CASE Hide
    BY <2>3 DEF Hide
  <2>4. CASE Show
    BY <2>4 DEF Show
  <2>5. CASE Close
    BY <2>5 DEF Close
  <2>6. ASSUME NEW w \in Sockets, Opened(w) \/ Lost(w) \/ Closed(w)
        PROVE  cur' # None \/ timer'
    BY <2>6 DEF Opened, Lost, Closed
  <2>7. CASE UNCHANGED clientVars
    BY <2>7 DEF clientVars
  <2> QED BY <2>1, <2>2, <2>3, <2>4, <2>5, <2>6, <2>7 DEF ClientNext
<1> QED BY <1>1, <1>2, PTL DEF ClientSpec
==============================================================================
