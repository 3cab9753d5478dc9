------------------------------ MODULE WsClient ------------------------------
(***************************************************************************)
(* The browser's end of the event feed, frontend/src/lib/services/         *)
(* wsClient.ts: one object that opens a WebSocket, reopens it after a      *)
(* close, and closes it while the tab is hidden.                           *)
(*                                                                         *)
(* JavaScript runs one callback at a time.  The `close` event of a socket  *)
(* arrives some time after close() was called on it, and its handler is    *)
(* the same whether or not the socket is still the client's current one.   *)
(* The backoff schedule only delays the timer and is not represented.      *)
(***************************************************************************)
EXTENDS Naturals

CONSTANTS Sockets,    \* WebSocket objects alive at a time
          MaxFaults,  \* bound on connection losses and failed opens
          None        \* no current socket

ASSUME ClientConstants == None \notin Sockets /\ MaxFaults \in Nat

VARIABLES sock,    \* sock[w]: the socket's readyState, "gone" once closed
          cur,     \* the variable `socket`
          timer,   \* a reconnect timer is pending
          mode,    \* "fresh", "on" after connect(), "off" after close()
          paused,  \* pausedForVisibility
          faults   \* faults so far

clientVars == <<sock, cur, timer, mode, paused, faults>>

ClientInit ==
  /\ sock = [w \in Sockets |-> "gone"] /\ cur = None
  /\ timer = FALSE /\ mode = "fresh" /\ paused = FALSE /\ faults = 0

Live(w) == sock[w] \in {"connecting", "open"}
CurrentLive == \E w \in Sockets : cur = w /\ Live(w)

\* openSocket: nothing when switched off or while the current socket lives;
\* otherwise a new one replaces it, or the constructor throws and a retry is
\* scheduled.  `pending` is the timer as the caller leaves it.
OpenSocket(blocked, pending) ==
  \/ /\ blocked \/ CurrentLive
     /\ timer' = pending /\ UNCHANGED <<sock, cur, faults>>
  \/ /\ ~blocked /\ ~CurrentLive
     /\ \E w \in Sockets : /\ sock[w] = "gone"
                           /\ sock' = [sock EXCEPT ![w] = "connecting"]
                           /\ cur' = w
     /\ timer' = pending /\ UNCHANGED faults
  \/ /\ ~blocked /\ ~CurrentLive /\ faults < MaxFaults
     /\ timer' = TRUE /\ faults' = faults + 1
     /\ UNCHANGED <<sock, cur>>

\* Callers connect once, or again after close().
Connect ==
  /\ mode # "on"
  /\ mode' = "on" /\ paused' = FALSE
  /\ OpenSocket(FALSE, timer)

TimerFires ==
  /\ timer /\ OpenSocket(mode = "off" \/ paused, FALSE)
  /\ UNCHANGED <<mode, paused>>

Opened(w) ==
  /\ sock[w] = "connecting"
  /\ sock' = [sock EXCEPT ![w] = "open"]
  /\ UNCHANGED <<cur, timer, mode, paused, faults>>

\* The server or the network ends the connection.
Lost(w) ==
  /\ Live(w) /\ faults < MaxFaults
  /\ sock' = [sock EXCEPT ![w] = "closing"]
  /\ faults' = faults + 1
  /\ UNCHANGED <<cur, timer, mode, paused>>

\* Mutant: only the current socket's close is followed by a reconnect, and a
\* stale one still clears `socket`.
ClosedStale(w) ==
  /\ sock[w] = "closing"
  /\ sock' = [sock EXCEPT ![w] = "gone"] /\ cur' = None
  /\ timer' = (timer \/ (mode # "off" /\ ~paused /\ cur = w))
  /\ UNCHANGED <<mode, paused, faults>>

\* handleClosure, whichever socket it was.
Closed(w) ==
  /\ sock[w] = "closing"
  /\ sock' = [sock EXCEPT ![w] = "gone"] /\ cur' = None
  /\ timer' = (timer \/ (mode # "off" /\ ~paused))
  /\ UNCHANGED <<mode, paused, faults>>

CloseCurrent == /\ sock' = [w \in Sockets |-> IF cur = w /\ Live(w) THEN "closing" ELSE sock[w]]
                /\ cur' = None

Hide ==
  /\ mode = "on"
  /\ paused' = TRUE /\ timer' = FALSE
  /\ CloseCurrent
  /\ UNCHANGED <<mode, faults>>

\* Mutant: becoming visible waits for a close event to reconnect.
ShowOnly ==
  /\ mode = "on" /\ paused
  /\ paused' = FALSE
  /\ UNCHANGED <<sock, cur, timer, mode, faults>>

Show ==
  /\ mode = "on" /\ paused
  /\ paused' = FALSE /\ timer' = TRUE
  /\ UNCHANGED <<sock, cur, mode, faults>>

Close ==
  /\ mode' = "off" /\ timer' = FALSE
  /\ CloseCurrent
  /\ UNCHANGED <<paused, faults>>

ClientNext == \/ Connect \/ TimerFires \/ Hide \/ Show \/ Close
              \/ \E w \in Sockets : Opened(w) \/ Lost(w) \/ Closed(w)

ClientSpec == ClientInit /\ [][ClientNext]_clientVars

\* Timers fire, connections are answered and close events arrive.
ClientFairSpec == /\ ClientSpec /\ WF_clientVars(TimerFires)
                  /\ \A w \in Sockets : WF_clientVars(Opened(w)) /\ WF_clientVars(Closed(w))
------------------------------------------------------------------------------
\* A connected client whose tab is visible always has a socket or a timer that
\* will open one, whichever closes and visibility changes came before.
NeverStranded == mode = "on" /\ ~paused => cur # None \/ timer

\* If the tab stays visible the feed comes back, whatever was lost before.
Reconnects == <>[](mode = "on" /\ ~paused) => <>[](cur # None /\ sock[cur] = "open")
==============================================================================
