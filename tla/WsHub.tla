-------------------------------- MODULE WsHub --------------------------------
(***************************************************************************)
(* The event hub of one lab (backend/app/services/ws_hub.py) and the       *)
(* WebSocket handler that joins a browser to it (routers/ws.py): numbered  *)
(* events, a bounded ring of the latest ones, and a fan-out to the         *)
(* subscribed connections.                                                 *)
(*                                                                         *)
(* Everything runs on one event loop.  A step is what a coroutine does     *)
(* between two awaits: a send writes its message and then may yield, and   *)
(* the hub's lock, never held across an await, is never contended.         *)
(***************************************************************************)
EXTENDS Naturals, Sequences

CONSTANTS Conns,       \* the connections browsers make
          Publishers,  \* concurrent publish() calls
          Ring,        \* ring_size
          MaxSeq       \* bound on event numbers

ASSUME HubConstants == Ring \in Nat \ {0} /\ MaxSeq \in Nat

VARIABLES ring,      \* the numbers of the kept events, oldest first
          nextSeq,   \* next_seq
          subs,      \* the subscribed connections
          pub,       \* publish() calls that are still sending
          conn,      \* the handler of every connection
          up,        \* up[c]: the browser's end of c is alive
          sent       \* sent[c]: every message written to c, in order

vars == <<ring, nextSeq, subs, pub, conn, up, sent>>

Event(s)    == [type |-> "event", seq |-> s]
Greeting(s) == [type |-> "hello", seq |-> s]
Topology(s) == [type |-> "lab_topology", seq |-> s]
Resnapshot  == [type |-> "force_resnapshot", seq |-> 0]

NoPublish == [seq |-> 0, todo |-> {}, dead |-> {}]
\* cut and joined are history: the last event numbered when the replay (or
\* the snapshot) was taken, and when the connection subscribed.
NewConn   == [pc |-> "new", since |-> 0, out |-> <<>>, cut |-> 0, joined |-> 0]

Init ==
  /\ ring = <<>> /\ nextSeq = 1 /\ subs = {}
  /\ pub = [p \in Publishers |-> NoPublish]
  /\ conn = [c \in Conns |-> NewConn] /\ up = [c \in Conns |-> TRUE]
  /\ sent = [c \in Conns |-> <<>>]

HeadSeq == nextSeq - 1

------------------------------------------------------------------------------
(***************************************************************************)
(* publish                                                                 *)
(***************************************************************************)

\* A deque with maxlen drops its oldest entry when it is full.
Pushed(s) == IF Len(ring) < Ring THEN Append(ring, s) ELSE Append(Tail(ring), s)

\* The next subscriber is sent event s.  The message to a dead browser may go
\* to a buffer nobody reads, or the send raises and the connection is noted.
Fanout(p, s, todo, dead) ==
  \E c \in todo :
    \/ /\ sent' = [sent EXCEPT ![c] = Append(@, Event(s))]
       /\ pub' = [pub EXCEPT ![p] = [seq |-> s, todo |-> todo \ {c}, dead |-> dead]]
    \/ /\ ~up[c]
       /\ pub' = [pub EXCEPT ![p] = [seq |-> s, todo |-> todo \ {c}, dead |-> dead \cup {c}]]
       /\ UNCHANGED sent

\* The event is numbered, kept and sent to the first of those subscribed now.
Publish(p) ==
  /\ pub[p] = NoPublish /\ nextSeq <= MaxSeq
  /\ ring' = Pushed(nextSeq) /\ nextSeq' = nextSeq + 1
  /\ \/ subs = {} /\ UNCHANGED <<pub, sent>>
     \/ Fanout(p, nextSeq, subs, {})
  /\ UNCHANGED <<subs, conn, up>>

\* Mutant: an exception from one send leaves the loop.
SendUntilError(p) ==
  /\ pub[p].todo # {}
  /\ IF pub[p].dead # {} THEN pub' = [pub EXCEPT ![p].todo = {}] /\ UNCHANGED sent
                         ELSE Fanout(p, pub[p].seq, pub[p].todo, pub[p].dead)
  /\ UNCHANGED <<ring, nextSeq, subs, conn, up>>

SendNext(p) ==
  /\ Fanout(p, pub[p].seq, pub[p].todo, pub[p].dead)
  /\ UNCHANGED <<ring, nextSeq, subs, conn, up>>

\* Mutant: the lock is still held when it is taken again for the dead.
PublishStuck(p) ==
  /\ pub[p].seq # 0 /\ pub[p].todo = {} /\ pub[p].dead = {}
  /\ pub' = [pub EXCEPT ![p] = NoPublish]
  /\ UNCHANGED <<ring, nextSeq, subs, conn, up, sent>>

\* After the last send the connections that raised are unsubscribed.
PublishEnd(p) ==
  /\ pub[p].seq # 0 /\ pub[p].todo = {}
  /\ subs' = subs \ pub[p].dead
  /\ pub' = [pub EXCEPT ![p] = NoPublish]
  /\ UNCHANGED <<ring, nextSeq, conn, up, sent>>
------------------------------------------------------------------------------
(***************************************************************************)
(* lab_ws: greet, replay what the browser missed, subscribe                *)
(***************************************************************************)

\* replay_since: the kept events after `since`, unless some are lost; a
\* browser without history gets whatever the ring holds.
Overflowed(since) == ring # <<>> /\ since # 0 /\ since + 1 < ring[1]
ReplaySince(since) ==
  LET kept[i \in 0..Len(ring)] == IF i = 0 THEN <<>>
                                  ELSE IF ring[i] > since THEN Append(kept[i - 1], ring[i])
                                  ELSE kept[i - 1]
  IN  kept[Len(ring)]

Written(c, m) == sent' = [sent EXCEPT ![c] = Append(@, m)]

\* Mutant: subscribed as soon as accepted.
GreetSubscribed(c, since) ==
  /\ conn[c].pc = "new"
  /\ Written(c, Greeting(HeadSeq))
  /\ conn' = [conn EXCEPT ![c].pc = "replay", ![c].since = since]
  /\ subs' = subs \cup {c}
  /\ UNCHANGED <<ring, nextSeq, pub, up>>

\* An authenticated browser is accepted and greeted with the head of the hub;
\* `since` is the last number it stored, perhaps from before a restart.
Greet(c, since) ==
  /\ conn[c].pc = "new"
  /\ Written(c, Greeting(HeadSeq))
  /\ conn' = [conn EXCEPT ![c].pc = "replay", ![c].since = since]
  /\ UNCHANGED <<ring, nextSeq, subs, pub, up>>

Refuse(c) ==
  /\ conn[c].pc = "new"
  /\ conn' = [conn EXCEPT ![c].pc = "gone"]
  /\ UNCHANGED <<ring, nextSeq, subs, pub, up, sent>>

Join(c, cut) ==
  /\ subs' = subs \cup {c}
  /\ conn' = [conn EXCEPT ![c].pc = "live", ![c].out = <<>>, ![c].cut = cut, ![c].joined = HeadSeq]

\* The replay is taken and its first message written; with nothing to
\* replay the connection subscribes in the same turn.
Replay(c) ==
  LET out == ReplaySince(conn[c].since) IN
  /\ conn[c].pc = "replay"
  /\ \/ /\ Overflowed(conn[c].since)
        /\ Written(c, Resnapshot)
        /\ conn' = [conn EXCEPT ![c].pc = "snapshot", ![c].cut = HeadSeq]
        /\ UNCHANGED subs
     \/ /\ ~Overflowed(conn[c].since) /\ out # <<>>
        /\ Written(c, Event(Head(out)))
        /\ conn' = [conn EXCEPT ![c].pc = "sending", ![c].out = Tail(out), ![c].cut = HeadSeq]
        /\ UNCHANGED subs
     \/ /\ ~Overflowed(conn[c].since) /\ out = <<>>
        /\ Join(c, HeadSeq)
        /\ UNCHANGED sent
  /\ UNCHANGED <<ring, nextSeq, pub, up>>

ReplayNext(c) ==
  /\ conn[c].pc = "sending"
  /\ \/ /\ conn[c].out # <<>>
        /\ Written(c, Event(Head(conn[c].out)))
        /\ conn' = [conn EXCEPT ![c].out = Tail(@)]
        /\ UNCHANGED subs
     \/ /\ conn[c].out = <<>>
        /\ Join(c, conn[c].cut)
        /\ UNCHANGED sent
  /\ UNCHANGED <<ring, nextSeq, pub, up>>

\* The document is read and numbered with the head; a read that fails is
\* swallowed and the connection subscribes without a snapshot.
Snapshot(c) ==
  /\ conn[c].pc = "snapshot"
  /\ \/ /\ Written(c, Topology(HeadSeq))
        /\ conn' = [conn EXCEPT ![c].pc = "subscribe", ![c].cut = HeadSeq]
        /\ UNCHANGED subs
     \/ /\ Join(c, conn[c].cut)
        /\ UNCHANGED sent
  /\ UNCHANGED <<ring, nextSeq, pub, up>>

Subscribe(c) ==
  /\ conn[c].pc = "subscribe"
  /\ Join(c, conn[c].cut)
  /\ UNCHANGED <<ring, nextSeq, pub, up, sent>>

\* The browser goes away, or its network does.
Drop(c) ==
  /\ up[c] /\ conn[c].pc # "new"
  /\ up' = [up EXCEPT ![c] = FALSE]
  /\ UNCHANGED <<ring, nextSeq, subs, pub, conn, sent>>

\* A handshake send raises: the handler ends before it subscribed.  The
\* snapshot's send is the exception, whose error is swallowed.
HandshakeFails(c) ==
  /\ conn[c].pc \in {"replay", "sending", "snapshot"} /\ ~up[c]
  /\ conn' = [conn EXCEPT ![c].pc = "gone"]
  /\ UNCHANGED <<ring, nextSeq, subs, pub, up, sent>>

\* Mutant: no unsubscribe in the handler's finally.
DisconnectQuietly(c) ==
  /\ conn[c].pc = "live" /\ ~up[c]
  /\ conn' = [conn EXCEPT ![c].pc = "gone"]
  /\ UNCHANGED <<ring, nextSeq, subs, pub, up, sent>>

\* receive_text raises and the handler unsubscribes on its way out.
Disconnect(c) ==
  /\ conn[c].pc = "live" /\ ~up[c]
  /\ conn' = [conn EXCEPT ![c].pc = "gone"]
  /\ subs' = subs \ {c}
  /\ UNCHANGED <<ring, nextSeq, pub, up, sent>>
------------------------------------------------------------------------------
PublishStep(p) == Publish(p) \/ SendNext(p) \/ PublishEnd(p)

HandlerStep(c) == \/ Replay(c) \/ ReplayNext(c) \/ Snapshot(c) \/ Subscribe(c)
                  \/ HandshakeFails(c) \/ Disconnect(c)

Next == \/ \E p \in Publishers : PublishStep(p)
        \/ \E c \in Conns : HandlerStep(c) \/ Refuse(c) \/ Drop(c)
        \/ \E c \in Conns, since \in 0..MaxSeq : Greet(c, since)

Spec == Init /\ [][Next]_vars

\* Ready coroutines run, and a send to a peer that stopped reading ends when
\* the server's ping timeout closes the connection.
FairSpec == /\ Spec
            /\ \A p \in Publishers : WF_vars(SendNext(p) \/ PublishEnd(p))
            /\ \A c \in Conns : WF_vars(HandlerStep(c))
------------------------------------------------------------------------------

\* No event is written twice to a connection, although it may be both in the
\* ring and on its way to subscribers when the connection joins.
EventsOnce == \A c \in Conns : \A i, j \in DOMAIN sent[c] :
                sent[c][i].type = "event" /\ sent[c][j] = sent[c][i] => i = j

Wrote(c, type) == \E i \in DOMAIN sent[c] : sent[c][i].type = type

\* What the browser knows without events: what it had, or the snapshot, or
\* what the ring had dropped before its first visit.
Known(c) == IF Wrote(c, "lab_topology") THEN conn[c].cut
            ELSE IF Wrote(c, "force_resnapshot") THEN conn[c].joined
            ELSE IF conn[c].since # 0 THEN conn[c].since
            ELSE IF conn[c].cut < Ring THEN 0 ELSE conn[c].cut - Ring

OnItsWay(c, s) == \E p \in Publishers : pub[p].seq = s /\ c \in pub[p].todo

\* A subscribed browser misses nothing but the events numbered while its
\* handshake was between taking the replay and subscribing (lab_ws).
OnlyHandshakeGap ==
  \A c \in subs : conn[c].pc = "live" /\ up[c] =>
    \A s \in 1..HeadSeq :
      s > Known(c) /\ ~(conn[c].cut < s /\ s <= conn[c].joined)
        => OnItsWay(c, s) \/ \E i \in DOMAIN sent[c] : sent[c][i] = Event(s)

\* A browser that went away leaves the hub, whichever of the handler and a
\* publisher notices first (the finally of lab_ws, the dead list of publish).
GoneLeave == \A c \in Conns : ~up[c] ~> c \notin subs

\* Every publish ends and so lets go of what its caller holds meanwhile.
PublishesEnd == \A p \in Publishers : pub[p].seq # 0 ~> pub[p].seq = 0
==============================================================================
