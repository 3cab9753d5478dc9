--------------------------- MODULE NodeRuntimeProofs ---------------------------
(***************************************************************************)
(* Proofs about NodeRuntime, for every set of nodes, pids and start        *)
(* threads and every number of launches and crashes.                       *)
(***************************************************************************)
EXTENDS NodeRuntime, TLAPS

Thread == [at : {"idle", "launch", "spawned", "commit", "persist"},
           n : Nodes \cup {None}, rec : Record \cup {None}]
Busy   == {"spawned", "commit"}
Held   == {"spawned", "commit", "persist"}

Typed ==
  /\ procs \in [Pids -> Process \cup {None}] /\ pids \in [Pids -> Nodes \cup {None}]
  /\ reg \in [Nodes -> Record \cup {None}] /\ file \in [Nodes -> Record \cup {None}]
  /\ thr \in [Starters -> Thread] /\ launches \in 0..MaxLaunch /\ up \in BOOLEAN

\* r, in P the process of a pid and in A its entry of pids.json: if r names a
\* process, it is one of node n, registered for n.
Own(r, n, P, A) ==
  r # None /\ r.pid # 0 /\ P[r.pid] # None /\ P[r.pid].born = r.born => P[r.pid].n = n /\ A[r.pid] = n

\* Nothing was created after the last launch.
ProcsOld   == \A x \in Pids : procs[x] # None => procs[x].n \notin Dyn /\ procs[x].born <= launches
RecordsOld == \A n \in Nodes : /\ reg[n] # None => reg[n].born <= launches
                               /\ file[n] # None => file[n].born <= launches
RecordsOwn == \A n \in Nodes : Own(reg[n], n, procs, pids) /\ Own(file[n], n, procs, pids)

\* A start thread works while the backend is up, on a node; the record it
\* carries names its own process, registered from "commit" on ...
ThreadsOK ==
  \A t \in Starters :
    /\ thr[t].at = "idle" => thr[t] = Idle
    /\ thr[t].at # "idle" => thr[t].n \in Nodes /\ up
    /\ thr[t].at \in Held => thr[t].rec # None /\ thr[t].rec.born <= launches
    /\ thr[t].at \in {"commit", "persist"} => Own(thr[t].rec, thr[t].n, procs, pids)

\* ... and until it is committed nobody else knows that process, nor has its
\* pid been given out again.
ThreadsOwn ==
  \A t \in Starters : thr[t].at \in Busy =>
    LET r == thr[t].rec IN
    /\ r.pid # 0 /\ procs[r.pid] # None => procs[r.pid].n = thr[t].n /\ procs[r.pid].born = r.born
    /\ \A n \in Nodes : (reg[n] # None => reg[n].born # r.born) /\ (file[n] # None => file[n].born # r.born)
    /\ \A u \in Starters \ {t} : thr[u].at \in Held => thr[u].rec.born # r.born

Supervised == Typed /\ ProcsOld /\ RecordsOld /\ RecordsOwn /\ ThreadsOK /\ ThreadsOwn
------------------------------------------------------------------------------
(***************************************************************************)
(* Records and processes                                                   *)
(***************************************************************************)
\* None is no record, process or node.
LEMMA NoneFacts ==
  /\ \A r \in Record : r # None /\ r.pid \in Pids \cup {0} /\ r.born \in 0..MaxLaunch
  /\ \A p \in Process : p # None /\ p.n \in Nodes /\ p.born \in 0..MaxLaunch
  /\ \A n \in Nodes : n # None
  /\ Pids \subseteq Nat \ {0} /\ MaxLaunch \in Nat
<1>1. \A r \in Record : r.pid \in Pids \cup {0} /\ r.born \in 0..MaxLaunch
  BY DEF Record
<1>2. \A p \in Process : p.n \in Nodes /\ p.born \in 0..MaxLaunch
  BY DEF Process
<1> QED BY <1>1, <1>2, NoneConstant, SupervisorConstants

\* Idle threads and threads about to launch.
LEMMA ThreadFacts ==
  /\ Idle \in Thread /\ Idle.at = "idle" /\ Idle.n = None
  /\ \A n \in Nodes : [at |-> "launch", n |-> n, rec |-> None] \in Thread
  /\ \A h \in Thread : /\ h.n \in Nodes \cup {None} /\ h.rec \in Record \cup {None}
                       /\ h.at \in {"idle", "launch", "spawned", "commit", "persist"}
BY DEF Idle, Thread

\* Steps that only forget: records, processes and threads go, and pids.json
\* changes only where no process is.
LEMMA FrameKeeps ==
  ASSUME Supervised, Typed', launches' = launches,
         \A x \in Pids : procs'[x] \in {procs[x], None},
         \A x \in Pids : procs'[x] # None => pids'[x] = pids[x],
         \A n \in Nodes : reg'[n] \in {reg[n], file[n], None} /\ file'[n] \in {reg[n], file[n], None},
         \A t \in Starters : \/ thr'[t] \in {thr[t], Idle}
                             \/ thr'[t].at = "launch" /\ thr'[t].n \in Nodes,
         \A t \in Starters : thr'[t].at # "idle" => up'
  PROVE  Supervised'
<1>0. /\ Typed /\ ProcsOld /\ RecordsOld /\ RecordsOwn /\ ThreadsOK /\ ThreadsOwn
  BY DEF Supervised
<1>1. ProcsOld'
  BY <1>0 DEF ProcsOld
<1>2. RecordsOld'
  BY <1>0 DEF RecordsOld
<1>3. ASSUME NEW r, r \in Record \cup {None}, NEW n, Own(r, n, procs, pids) PROVE Own(r, n, procs', pids')
  <2>1. r # None => r.pid \in Pids \cup {0}
    BY <1>3, NoneFacts
  <2> QED BY <1>3, <2>1 DEF Own
<1>4. RecordsOwn'
  <2> SUFFICES ASSUME NEW n \in Nodes PROVE Own(reg'[n], n, procs', pids') /\ Own(file'[n], n, procs', pids')
    BY DEF RecordsOwn
  <2>1. Own(reg[n], n, procs, pids) /\ Own(file[n], n, procs, pids)
    BY <1>0 DEF RecordsOwn
  <2>2. reg[n] \in Record \cup {None} /\ file[n] \in Record \cup {None}
    BY <1>0 DEF Typed
  <2>3. Own(reg[n], n, procs', pids') /\ Own(file[n], n, procs', pids') /\ Own(None, n, procs', pids')
    <3>1. Own(None, n, procs', pids')
      BY DEF Own
    <3> QED BY <1>3, <2>1, <2>2, <3>1
  <2> QED BY <2>3
<1>5. ASSUME NEW t \in Starters PROVE \/ thr'[t] = thr[t]
                                      \/ thr'[t] = Idle /\ thr'[t].at = "idle"
                                      \/ thr'[t].at = "launch" /\ thr'[t].n \in Nodes
  BY ThreadFacts
<1>6. ThreadsOK'
  <2> SUFFICES ASSUME NEW t \in Starters
               PROVE /\ thr'[t].at = "idle" => thr'[t] = Idle
                     /\ thr'[t].at # "idle" => thr'[t].n \in Nodes /\ up'
                     /\ thr'[t].at \in Held => thr'[t].rec # None /\ thr'[t].rec.born <= launches'
                     /\ thr'[t].at \in {"commit", "persist"} => Own(thr'[t].rec, thr'[t].n, procs', pids')
    BY DEF ThreadsOK
  <2>1. /\ thr[t].at = "idle" => thr[t] = Idle
        /\ thr[t].at # "idle" => thr[t].n \in Nodes
        /\ thr[t].at \in Held => thr[t].rec # None /\ thr[t].rec.born <= launches
        /\ thr[t].at \in {"commit", "persist"} => Own(thr[t].rec, thr[t].n, procs, pids)
    BY <1>0 DEF ThreadsOK
  <2>2. thr[t].rec \in Record \cup {None}
    BY <1>0, ThreadFacts DEF Typed
  <2>3. thr[t].at \in {"commit", "persist"} => Own(thr[t].rec, thr[t].n, procs', pids')
    BY <1>3, <2>1, <2>2
  <2> QED BY <1>5, <2>1, <2>3 DEF Held
<1>7. ThreadsOwn'
  <2> SUFFICES ASSUME NEW t \in Starters, thr'[t].at \in Busy
               PROVE LET r == thr'[t].rec IN
                     /\ r.pid # 0 /\ procs'[r.pid] # None => procs'[r.pid].n = thr'[t].n /\ procs'[r.pid].born = r.born
                     /\ \A n \in Nodes : (reg'[n] # None => reg'[n].born # r.born) /\ (file'[n] # None => file'[n].born # r.born)
                     /\ \A u \in Starters \ {t} : thr'[u].at \in Held => thr'[u].rec.born # r.born
    BY DEF ThreadsOwn
  <2>1. thr'[t] = thr[t] /\ thr[t].at \in Busy /\ thr[t].at \in Held
    BY <1>5 DEF Busy, Held
  <2>2. thr[t].rec \in Record
    BY <1>0, <2>1, ThreadFacts DEF ThreadsOK, Typed
  <2>3. thr[t].rec.pid \in Pids \cup {0}
    BY <2>2, NoneFacts
  <2>4. \A u \in Starters \ {t} : thr'[u].at \in Held => thr'[u] = thr[u]
    BY <1>5 DEF Held
  <2> QED BY <1>0, <2>1, <2>3, <2>4 DEF ThreadsOwn
<1> QED BY <1>1, <1>2, <1>4, <1>6, <1>7 DEF Supervised
------------------------------------------------------------------------------
(***************************************************************************)
(* The steps of a start                                                    *)
(***************************************************************************)
\* The emulator is spawned: its creation time is new, so no record names it.
LEMMA LaunchKeeps ==
  ASSUME Supervised, NEW t \in Starters, Launch(t)
  PROVE  Supervised'
<1> DEFINE n == thr[t].n
           born == launches + 1
<1>0. /\ Typed /\ ProcsOld /\ RecordsOld /\ RecordsOwn /\ ThreadsOK /\ ThreadsOwn
      /\ UNCHANGED <<up, reg, file, pids>> /\ launches' = born /\ thr[t].at = "launch"
  BY DEF Supervised, Launch
<1>1. n \in Nodes /\ up /\ launches \in Nat /\ born \in 0..MaxLaunch /\ launches < born
  <2>1. launches \in 0..MaxLaunch /\ launches < MaxLaunch
    BY <1>0 DEF Typed, Launch
  <2>2. thr[t].n \in Nodes /\ up
    BY <1>0 DEF ThreadsOK
  <2> QED BY <2>1, <2>2, NoneFacts
<1>2. PICK x \in Pids \cup {0} :
        /\ thr' = [thr EXCEPT ![t] = [at |-> "spawned", n |-> n, rec |-> [pid |-> x, born |-> born]]]
        /\ \/ x = 0 /\ procs' = procs
           \/ /\ x # 0 /\ x \in Pids /\ n \notin Dyn /\ procs[x] = None /\ ~Starting(x)
              /\ procs' = [procs EXCEPT ![x] = [n |-> n, born |-> born]]
  <2>1. CASE n \in Dyn
    BY <2>1 DEF Launch
  <2>2. CASE n \notin Dyn
    <3>1. PICK x \in Pids :
             /\ procs[x] = None /\ ~Starting(x)
             /\ procs' = [procs EXCEPT ![x] = [n |-> n, born |-> born]]
             /\ thr' = [thr EXCEPT ![t] = [at |-> "spawned", n |-> n, rec |-> [pid |-> x, born |-> born]]]
      BY <2>2 DEF Launch
    <3>2. x # 0
      BY NoneFacts
    <3> QED BY <2>2, <3>1, <3>2
  <2> QED BY <2>1, <2>2
<1> DEFINE r == [pid |-> x, born |-> born]
           h == [at |-> "spawned", n |-> n, rec |-> r]
           w == [n |-> n, born |-> born]
<1>3. r \in Record /\ r.pid = x /\ r.born = born /\ w \in Process /\ w.n = n /\ w.born = born
  BY <1>1, <1>2 DEF Record, Process
<1> HIDE DEF r, w
<1>4. h \in Thread /\ h.at = "spawned" /\ h.n = n /\ h.rec = r
  BY <1>1, <1>3 DEF Thread
<1> HIDE DEF h, n, born
<1>5. thr' = [thr EXCEPT ![t] = h] /\ thr'[t] = h /\ \A u \in Starters \ {t} : thr'[u] = thr[u]
  BY <1>0, <1>2 DEF Typed, h, r
<1>6. \/ x = 0 /\ procs' = procs
      \/ x \in Pids /\ n \notin Dyn /\ procs[x] = None /\ ~Starting(x) /\ procs' = [procs EXCEPT ![x] = w]
  BY <1>2 DEF w
<1>7. Typed'
  BY <1>0, <1>1, <1>3, <1>4, <1>5, <1>6 DEF Typed
<1>8. \A y \in Pids : procs'[y] = procs[y] \/ (y = x /\ procs'[y] = w /\ procs[y] = None /\ n \notin Dyn)
  BY <1>0, <1>6 DEF Typed
<1>9. ProcsOld'
  <2> SUFFICES ASSUME NEW y \in Pids, procs'[y] # None PROVE procs'[y].n \notin Dyn /\ procs'[y].born <= born
    BY <1>0 DEF ProcsOld
  <2>1. CASE procs'[y] = procs[y]
    <3>1. procs[y] \in Process /\ procs[y].born <= launches /\ procs[y].n \notin Dyn
      BY <1>0, <2>1 DEF ProcsOld, Typed
    <3>2. procs[y].born \in Nat
      BY <3>1, NoneFacts
    <3> QED BY <1>1, <2>1, <3>1, <3>2
  <2>2. CASE procs'[y] = w /\ n \notin Dyn
    BY <1>1, <1>3, <2>2
  <2> QED BY <1>8, <2>1, <2>2
<1>10. ASSUME NEW q, q \in Record \cup {None}, q # None => q.born <= launches, NEW m, Own(q, m, procs, pids)
       PROVE  Own(q, m, procs', pids')
  <2>1. q # None => q.pid \in Pids \cup {0} /\ q.born \in Nat /\ q.born # born
    BY <1>1, <1>10, NoneFacts
  <2> QED BY <1>0, <1>3, <1>8, <1>10, <2>1 DEF Own
<1>11. RecordsOld'
  <2>1. \A q \in Record : q.born <= launches => q.born <= born
    BY <1>1, NoneFacts
  <2> QED BY <1>0, <2>1 DEF RecordsOld, Typed
<1>12. RecordsOwn'
  BY <1>0, <1>10 DEF RecordsOwn, RecordsOld, Typed
<1>13. \A u \in Starters \ {t} :
         /\ thr[u].rec \in Record \cup {None}
         /\ thr[u].at \in Held => thr[u].rec \in Record /\ thr[u].rec.born <= launches /\ thr[u].rec.born # born
  <2> SUFFICES ASSUME NEW u \in Starters \ {t}
               PROVE  /\ thr[u].rec \in Record \cup {None}
                      /\ thr[u].at \in Held => thr[u].rec \in Record /\ thr[u].rec.born <= launches /\ thr[u].rec.born # born
    OBVIOUS
  <2>1. thr[u].rec \in Record \cup {None}
    BY <1>0, ThreadFacts DEF Typed
  <2>2. thr[u].at \in Held => thr[u].rec \in Record /\ thr[u].rec.born <= launches
    BY <1>0, <2>1 DEF ThreadsOK
  <2>3. \A q \in Record : q.born <= launches => q.born # born
    BY <1>1, NoneFacts
  <2> QED BY <2>1, <2>2, <2>3
<1>14. ThreadsOK'
  <2>1. /\ r # None /\ r.born <= born
    BY <1>1, <1>3, NoneFacts
  <2>2. ASSUME NEW u \in Starters \ {t}
        PROVE  /\ thr[u].at = "idle" => thr[u] = Idle
               /\ thr[u].at # "idle" => thr[u].n \in Nodes /\ up
               /\ thr[u].at \in Held => thr[u].rec # None /\ thr[u].rec.born <= born
               /\ thr[u].at \in {"commit", "persist"} => Own(thr[u].rec, thr[u].n, procs', pids')
    <3>1. \A q \in Record : q.born <= launches => q.born <= born
      BY <1>1, NoneFacts
    <3>2. /\ thr[u].at = "idle" => thr[u] = Idle
          /\ thr[u].at # "idle" => thr[u].n \in Nodes /\ up
          /\ thr[u].at \in Held => thr[u].rec # None /\ thr[u].rec.born <= launches
          /\ thr[u].at \in {"commit", "persist"} => Own(thr[u].rec, thr[u].n, procs, pids) /\ thr[u].at \in Held
      BY <1>0 DEF ThreadsOK, Held
    <3>3. thr[u].at \in {"commit", "persist"} => Own(thr[u].rec, thr[u].n, procs', pids')
      BY <1>10, <1>13, <3>2
    <3>4. thr[u].at \in Held => thr[u].rec.born <= born
      BY <1>13, <3>1
    <3> QED BY <3>2, <3>3, <3>4
  <2> QED BY <1>0, <1>1, <1>4, <1>5, <2>1, <2>2 DEF ThreadsOK
<1>15. ThreadsOwn'
  <2>1. \A m \in Nodes : (reg[m] # None => reg[m].born # born) /\ (file[m] # None => file[m].born # born)
    <3>1. \A q \in Record : q.born <= launches => q.born # born
      BY <1>1, NoneFacts
    <3> QED BY <1>0, <3>1 DEF RecordsOld, Typed
  <2>2. x # 0 /\ procs'[x] # None => procs'[x].n = n /\ procs'[x].born = born
    BY <1>0, <1>3, <1>6 DEF Typed
  <2>3. ASSUME NEW u \in Starters \ {t}, thr[u].at \in Busy
        PROVE  LET q == thr[u].rec IN
               /\ q.pid # 0 /\ procs'[q.pid] # None => procs'[q.pid].n = thr[u].n /\ procs'[q.pid].born = q.born
               /\ \A m \in Nodes : (reg[m] # None => reg[m].born # q.born) /\ (file[m] # None => file[m].born # q.born)
               /\ \A v \in Starters \ {u} : thr'[v].at \in Held => thr'[v].rec.born # q.born
    <3>0. thr[u].at \in Held
      BY <2>3 DEF Busy, Held
    <3>1. thr[u].rec \in Record /\ thr[u].rec.born # born
      BY <1>13, <3>0
    <3>2. thr[u].rec.pid \in Pids \cup {0}
      BY <3>1, NoneFacts
    <3>3. x \in Pids => thr[u].rec.pid # x \/ x = 0 \/ procs' = procs
      BY <1>6, <2>3 DEF Starting, Busy
    <3>4. thr[u].rec.pid # 0 => procs'[thr[u].rec.pid] = procs[thr[u].rec.pid]
      BY <1>2, <1>8, <3>2, <3>3
    <3> QED BY <1>0, <1>3, <1>4, <1>5, <2>3, <3>1, <3>4 DEF ThreadsOwn
  <2> QED BY <1>0, <1>3, <1>4, <1>5, <1>13, <2>1, <2>2, <2>3 DEF ThreadsOwn
<1> QED BY <1>7, <1>9, <1>11, <1>12, <1>14, <1>15 DEF Supervised

\* A start goes on to its next step with the same node and record.
LEMMA Advanced ==
  ASSUME Supervised, NEW t \in Starters, thr[t].at \in Held, NEW a \in {"commit", "persist"},
         thr' = [thr EXCEPT ![t].at = a]
  PROVE  /\ thr' \in [Starters -> Thread] /\ thr'[t].at = a /\ thr'[t].n = thr[t].n /\ thr'[t].rec = thr[t].rec
         /\ \A u \in Starters \ {t} : thr'[u] = thr[u]
         /\ thr[t].n \in Nodes /\ thr[t].rec \in Record /\ thr[t].rec.born <= launches /\ up
<1> DEFINE h == [thr[t] EXCEPT !.at = a]
<1>1. thr \in [Starters -> Thread] /\ thr[t] \in Thread
  BY DEF Supervised, Typed
<1>2. h \in Thread /\ h.at = a /\ h.n = thr[t].n /\ h.rec = thr[t].rec
  BY <1>1 DEF Thread
<1>3. thr' = [thr EXCEPT ![t] = h]
  BY <1>1
<1> HIDE DEF h
<1>4. thr[t].n \in Nodes /\ thr[t].rec \in Record /\ thr[t].rec.born <= launches /\ up
  <2>1. thr[t].at # "idle"
    BY DEF Held
  <2> QED BY <1>1, <2>1, ThreadFacts DEF Supervised, ThreadsOK
<1> QED BY <1>1, <1>2, <1>3, <1>4

\* The pid is registered for the node of its process.
LEMMA RegisterOwn ==
  ASSUME Supervised, NEW t \in Starters, Register(t)
  PROVE  Supervised'
<1> DEFINE r == thr[t].rec
           n == thr[t].n
<1>0. /\ Typed /\ ProcsOld /\ RecordsOld /\ RecordsOwn /\ ThreadsOK /\ ThreadsOwn
      /\ UNCHANGED <<up, reg, file, procs, launches>> /\ thr[t].at = "spawned"
      /\ thr' = [thr EXCEPT ![t].at = "commit"]
      /\ pids' = IF r.pid = 0 THEN pids ELSE [pids EXCEPT ![r.pid] = n]
  BY DEF Supervised, Register
<1>1. /\ thr' \in [Starters -> Thread] /\ thr'[t].at = "commit" /\ thr'[t].n = n /\ thr'[t].rec = r
      /\ \A u \in Starters \ {t} : thr'[u] = thr[u]
      /\ n \in Nodes /\ r \in Record /\ r.born <= launches /\ up
  BY <1>0, Advanced DEF Held
<1>2. r # None /\ r.pid \in Pids \cup {0}
  BY <1>1, NoneFacts
<1>3. r.pid # 0 /\ procs[r.pid] # None => procs[r.pid].n = n /\ procs[r.pid].born = r.born
  BY <1>0 DEF ThreadsOwn, Busy
<1> HIDE DEF r, n
<1>4. pids' \in [Pids -> Nodes \cup {None}] /\ (r.pid # 0 => pids'[r.pid] = n)
      /\ \A x \in Pids : pids'[x] = pids[x] \/ (x = r.pid /\ r.pid # 0)
  BY <1>0, <1>1, <1>2 DEF Typed
<1>5. Typed'
  BY <1>0, <1>1, <1>4 DEF Typed
<1>6. ASSUME NEW q, q \in Record \cup {None}, NEW m, Own(q, m, procs, pids) PROVE Own(q, m, procs', pids')
  <2>1. q # None => q.pid \in Pids \cup {0}
    BY <1>6, NoneFacts
  <2> QED BY <1>0, <1>3, <1>4, <1>6, <2>1 DEF Own
<1>7. Own(r, n, procs', pids')
  BY <1>0, <1>3, <1>4 DEF Own
<1>8. ProcsOld' /\ RecordsOld'
  BY <1>0 DEF ProcsOld, RecordsOld
<1>9. RecordsOwn'
  BY <1>0, <1>6 DEF RecordsOwn, Typed
<1>10. ThreadsOK'
  <2> SUFFICES ASSUME NEW u \in Starters
               PROVE /\ thr'[u].at = "idle" => thr'[u] = Idle
                     /\ thr'[u].at # "idle" => thr'[u].n \in Nodes /\ up'
                     /\ thr'[u].at \in Held => thr'[u].rec # None /\ thr'[u].rec.born <= launches'
                     /\ thr'[u].at \in {"commit", "persist"} => Own(thr'[u].rec, thr'[u].n, procs', pids')
    BY DEF ThreadsOK
  <2>1. CASE u = t
    BY <1>0, <1>1, <1>2, <1>7, <2>1
  <2>2. CASE u # t
    <3>1. thr'[u] = thr[u] /\ thr[u].rec \in Record \cup {None}
      BY <1>0, <1>1, <2>2, ThreadFacts DEF Typed
    <3> QED BY <1>0, <1>6, <3>1 DEF ThreadsOK
  <2> QED BY <2>1, <2>2
<1>11. ThreadsOwn'
  <2>1. \A u \in Starters : /\ thr'[u].at \in Busy => thr[u].at \in Busy
                            /\ thr'[u].at \in Held => thr[u].at \in Held
                            /\ thr'[u].rec = thr[u].rec /\ thr'[u].n = thr[u].n
    BY <1>0, <1>1 DEF Busy, Held, r, n
  <2> QED BY <1>0, <2>1 DEF ThreadsOwn
<1> QED BY <1>5, <1>8, <1>9, <1>10, <1>11 DEF Supervised

\* The record of a start enters the registry.
LEMMA CommitKeeps ==
  ASSUME Supervised, NEW t \in Starters, Commit(t)
  PROVE  Supervised'
<1> DEFINE r == thr[t].rec
           n == thr[t].n
<1>0. /\ Typed /\ ProcsOld /\ RecordsOld /\ RecordsOwn /\ ThreadsOK /\ ThreadsOwn
      /\ UNCHANGED <<up, pids, file, procs, launches>> /\ thr[t].at = "commit"
      /\ thr' = [thr EXCEPT ![t].at = "persist"] /\ reg' = [reg EXCEPT ![n] = r]
  BY DEF Supervised, Commit
<1>1. /\ thr' \in [Starters -> Thread] /\ thr'[t].at = "persist" /\ thr'[t].n = n /\ thr'[t].rec = r
      /\ \A u \in Starters \ {t} : thr'[u] = thr[u]
      /\ n \in Nodes /\ r \in Record /\ r.born <= launches /\ up
  BY <1>0, Advanced DEF Held
<1>2. Own(r, n, procs, pids)
  BY <1>0 DEF ThreadsOK
<1>3. \A u \in Starters \ {t} : thr[u].at \in Busy => r.born # thr[u].rec.born
  BY <1>0 DEF ThreadsOwn, Held
<1> HIDE DEF r, n
<1>4. reg' \in [Nodes -> Record \cup {None}] /\ reg'[n] = r /\ \A m \in Nodes \ {n} : reg'[m] = reg[m]
  BY <1>0, <1>1 DEF Typed
<1>5. Typed'
  BY <1>0, <1>1, <1>4 DEF Typed
<1>6. ProcsOld' /\ RecordsOld' /\ RecordsOwn'
  BY <1>0, <1>1, <1>2, <1>4 DEF ProcsOld, RecordsOld, RecordsOwn
<1>7. ThreadsOK'
  BY <1>0, <1>1, <1>2, NoneFacts DEF ThreadsOK
<1>8. ThreadsOwn'
  <2>1. \A u \in Starters : /\ thr'[u].at \in Busy => u # t
                            /\ thr'[u].at \in Held => thr[u].at \in Held
                            /\ thr'[u].rec = thr[u].rec /\ thr'[u].n = thr[u].n
    BY <1>0, <1>1 DEF Busy, Held, r, n
  <2>2. \A u \in Starters \ {t} : thr'[u] = thr[u]
    BY <1>1
  <2> QED BY <1>0, <1>3, <1>4, <2>1, <2>2 DEF ThreadsOwn
<1> QED BY <1>5, <1>6, <1>7, <1>8 DEF Supervised

\* The state file is replaced.
LEMMA PersistKeeps ==
  ASSUME Supervised, NEW t \in Starters, Persist(t)
  PROVE  Supervised'
<1> DEFINE r == thr[t].rec
           n == thr[t].n
<1>0. /\ Typed /\ ProcsOld /\ RecordsOld /\ RecordsOwn /\ ThreadsOK /\ ThreadsOwn
      /\ UNCHANGED <<up, pids, reg, procs, launches>> /\ thr[t].at = "persist"
      /\ thr' = [thr EXCEPT ![t] = Idle] /\ file' = [file EXCEPT ![n] = r]
  BY DEF Supervised, Persist
<1>1. /\ thr' \in [Starters -> Thread] /\ thr'[t] = Idle /\ Idle.at = "idle"
      /\ \A u \in Starters \ {t} : thr'[u] = thr[u]
  BY <1>0, ThreadFacts DEF Typed
<1>2. n \in Nodes /\ r \in Record /\ r.born <= launches /\ Own(r, n, procs, pids)
  <2>1. thr[t] \in Thread
    BY <1>0 DEF Typed
  <2> QED BY <1>0, <2>1, ThreadFacts DEF ThreadsOK, Held
<1>3. \A u \in Starters \ {t} : thr[u].at \in Busy => r.born # thr[u].rec.born
  BY <1>0 DEF ThreadsOwn, Held
<1> HIDE DEF r, n
<1>4. file' \in [Nodes -> Record \cup {None}] /\ file'[n] = r /\ \A m \in Nodes \ {n} : file'[m] = file[m]
  BY <1>0, <1>2 DEF Typed
<1>5. Typed'
  BY <1>0, <1>1, <1>4 DEF Typed
<1>6. ProcsOld' /\ RecordsOld' /\ RecordsOwn'
  BY <1>0, <1>2, <1>4 DEF ProcsOld, RecordsOld, RecordsOwn
<1>7. ThreadsOK'
  BY <1>0, <1>1 DEF ThreadsOK, Held
<1>8. ThreadsOwn'
  <2>1. \A u \in Starters : thr'[u].at \in Held => u # t /\ thr'[u] = thr[u]
    BY <1>1 DEF Held
  <2>2. \A u \in Starters : thr'[u].at \in Busy => thr'[u].at \in Held
    BY DEF Busy, Held
  <2> QED BY <1>0, <1>3, <1>4, <2>1, <2>2 DEF ThreadsOwn
<1> QED BY <1>5, <1>6, <1>7, <1>8 DEF Supervised

\* A launch is registered, or undone.
LEMMA RegisterFailsKeeps ==
  ASSUME Supervised, NEW t \in Starters, RegisterFails(t)
  PROVE  Supervised'
<1> DEFINE r == thr[t].rec
           n == thr[t].n
<1>0. /\ Typed /\ ThreadsOK /\ ThreadsOwn /\ UNCHANGED <<up, reg, file, launches>> /\ thr[t].at = "spawned"
      /\ procs' = (IF Proc(r) # None THEN KillPid(r.pid) ELSE procs)
      /\ pids' = (IF n \in Iol THEN DropPid(r.pid) ELSE pids) /\ thr' = [thr EXCEPT ![t] = Idle]
  BY DEF Supervised, RegisterFails
<1>1. r \in Record /\ r.pid \in Pids \cup {0}
  <2>1. thr[t] \in Thread
    BY <1>0 DEF Typed
  <2> QED BY <1>0, <2>1, ThreadFacts, NoneFacts DEF ThreadsOK, Held
<1>2. r.pid # 0 /\ procs[r.pid] # None => procs[r.pid].born = r.born
  BY <1>0 DEF ThreadsOwn, Busy
<1> HIDE DEF r, n
<1>3. /\ procs' \in [Pids -> Process \cup {None}] /\ \A x \in Pids : procs'[x] \in {procs[x], None}
      /\ r.pid # 0 => procs'[r.pid] = None
  <2>1. CASE r.pid = 0 \/ procs[r.pid] = None
    BY <1>0, <2>1 DEF Typed, Proc
  <2>2. CASE r.pid # 0 /\ procs[r.pid] # None
    <3>1. procs' = [procs EXCEPT ![r.pid] = None]
      BY <1>0, <1>2, <2>2 DEF Proc, KillPid, Killed
    <3> QED BY <1>0, <1>1, <2>2, <3>1 DEF Typed
  <2> QED BY <2>1, <2>2
<1>4. pids' \in [Pids -> Nodes \cup {None}] /\ \A x \in Pids : pids'[x] = pids[x] \/ (x = r.pid /\ r.pid # 0)
  BY <1>0, <1>1 DEF Typed, DropPid
<1>5. thr' \in [Starters -> Thread] /\ \A u \in Starters : thr'[u] \in {thr[u], Idle}
  BY <1>0, ThreadFacts DEF Typed
<1>6. Typed'
  BY <1>0, <1>3, <1>4, <1>5 DEF Typed
<1>7. \A u \in Starters : thr'[u].at # "idle" => up'
  BY <1>0, <1>5, ThreadFacts DEF ThreadsOK
<1> QED BY <1>0, <1>3, <1>4, <1>5, <1>6, <1>7, FrameKeeps
------------------------------------------------------------------------------
(***************************************************************************)
(* Lookups, teardowns and restarts                                         *)
(***************************************************************************)
\* A lookup invents no record.
LEMMA LookupFacts ==
  ASSUME Typed, NEW n \in Nodes, reg' = RegAfterLookup(n), file' = FileAfterLookup(n)
  PROVE  /\ reg' \in [Nodes -> Record \cup {None}] /\ file' \in [Nodes -> Record \cup {None}]
         /\ \A m \in Nodes : reg'[m] \in {reg[m], file[m], None} /\ file'[m] \in {reg[m], file[m], None}
BY DEF Typed, RegAfterLookup, FileAfterLookup, Recorded

\* A teardown kills the process that the record names, and only that.
LEMMA TornDownFacts ==
  ASSUME Supervised, NEW n \in Nodes, Current(n), TornDown(n, Recorded(n))
  PROVE  /\ reg' \in [Nodes -> Record \cup {None}] /\ file' \in [Nodes -> Record \cup {None}]
         /\ reg'[n] = None /\ file'[n] = None
         /\ \A m \in Nodes \ {n} : reg'[m] = reg[m] /\ file'[m] = file[m]
         /\ procs' \in [Pids -> Process \cup {None}] /\ pids' \in [Pids -> Nodes \cup {None}]
         /\ \A x \in Pids : (procs'[x] = procs[x] /\ pids'[x] = pids[x])
                            \/ (procs'[x] = None /\ procs[x] # None /\ procs[x].n = n
                                /\ Recorded(n) = [pid |-> x, born |-> procs[x].born])
         /\ n \notin Dyn => \A x \in Pids : Recorded(n).pid = x => procs'[x] = None
<1> DEFINE r == Recorded(n)
<1>0. Typed /\ RecordsOwn /\ reg \in [Nodes -> Record \cup {None}] /\ file \in [Nodes -> Record \cup {None}]
      /\ procs \in [Pids -> Process \cup {None}] /\ pids \in [Pids -> Nodes \cup {None}]
  BY DEF Supervised, Typed
<1>1. r # None /\ r \in Record /\ r.pid \in Pids \cup {0} /\ Own(r, n, procs, pids)
  <2>1. r # None /\ r \in {reg[n], file[n]}
    BY DEF Current, Recorded
  <2>2. r \in Record
    BY <1>0, <2>1
  <2> QED BY <1>0, <2>1, <2>2, NoneFacts DEF RecordsOwn
<1>2. n \notin Dyn => r.pid # 0 /\ procs[r.pid] # None /\ procs[r.pid].born = r.born
  BY DEF Current, IsAlive, Proc
<1>3. r = [pid |-> r.pid, born |-> r.born]
  BY <1>1 DEF Record
<1>4. reg' = [reg EXCEPT ![n] = None] /\ file' = [file EXCEPT ![n] = None]
  BY DEF TornDown
<1>5. \/ n \notin Dyn /\ procs' = KillPid(r.pid) /\ pids' = DropPid(r.pid)
      \/ n \in Dyn /\ procs' = procs /\ pids' = pids
  BY DEF TornDown
<1> HIDE DEF r
<1>6. CASE n \in Dyn
  <2>1. procs' = procs /\ pids' = pids
    BY <1>5, <1>6
  <2> QED BY <1>0, <1>4, <1>6, <2>1
<1>7. CASE n \notin Dyn
  <2>1. r.pid \in Pids /\ procs[r.pid] # None /\ procs[r.pid].n = n /\ procs[r.pid].born = r.born
    BY <1>1, <1>2, <1>7 DEF Own
  <2>2. procs' = [procs EXCEPT ![r.pid] = None] /\ pids' = [pids EXCEPT ![r.pid] = None]
    BY <1>2, <1>5, <1>7 DEF KillPid, Killed, DropPid
  <2>3. r = [pid |-> r.pid, born |-> procs[r.pid].born]
    BY <1>3, <2>1
  <2>4. /\ procs' \in [Pids -> Process \cup {None}] /\ pids' \in [Pids -> Nodes \cup {None}]
        /\ procs'[r.pid] = None /\ \A x \in Pids \ {r.pid} : procs'[x] = procs[x] /\ pids'[x] = pids[x]
    BY <1>0, <2>1, <2>2
  <2>5. \A x \in Pids : (procs'[x] = procs[x] /\ pids'[x] = pids[x])
                        \/ (procs'[x] = None /\ procs[x] # None /\ procs[x].n = n
                            /\ r = [pid |-> x, born |-> procs[x].born])
    BY <2>1, <2>3, <2>4
  <2> QED BY <1>0, <1>4, <2>4, <2>5 DEF r
<1> QED BY <1>6, <1>7

\* Stops and deletions.
LEMMA StopKeeps ==
  ASSUME Supervised, NEW n \in Nodes, StopNode(n) \/ DeleteNode(n)
  PROVE  Supervised'
<1>0. Typed /\ ThreadsOK /\ UNCHANGED <<up, thr, launches>>
  BY DEF Supervised, StopNode, DeleteNode
<1>1. \A t \in Starters : thr'[t].at # "idle" => up'
  BY <1>0 DEF ThreadsOK
<1>2. CASE Current(n) /\ TornDown(n, Recorded(n))
  <2>1. /\ reg' \in [Nodes -> Record \cup {None}] /\ file' \in [Nodes -> Record \cup {None}]
        /\ reg'[n] = None /\ file'[n] = None
        /\ \A m \in Nodes \ {n} : reg'[m] = reg[m] /\ file'[m] = file[m]
        /\ procs' \in [Pids -> Process \cup {None}] /\ pids' \in [Pids -> Nodes \cup {None}]
        /\ \A x \in Pids : (procs'[x] = procs[x] /\ pids'[x] = pids[x]) \/ procs'[x] = None
    BY <1>2, TornDownFacts
  <2>2. Typed'
    BY <1>0, <2>1 DEF Typed
  <2>3. \A m \in Nodes : reg'[m] \in {reg[m], file[m], None} /\ file'[m] \in {reg[m], file[m], None}
    BY <2>1
  <2> QED BY <1>0, <1>1, <2>1, <2>2, <2>3, FrameKeeps
<1>3. CASE reg' = RegAfterLookup(n) /\ file' = FileAfterLookup(n) /\ UNCHANGED <<procs, pids>>
  <2>1. /\ reg' \in [Nodes -> Record \cup {None}] /\ file' \in [Nodes -> Record \cup {None}]
        /\ \A m \in Nodes : reg'[m] \in {reg[m], file[m], None} /\ file'[m] \in {reg[m], file[m], None}
    BY <1>0, <1>3, LookupFacts
  <2>2. Typed'
    BY <1>0, <1>3, <2>1 DEF Typed
  <2> QED BY <1>0, <1>1, <1>3, <2>1, <2>2, FrameKeeps
<1> QED BY <1>2, <1>3 DEF StopNode, DeleteNode

\* Lookups and the check before a start.
LEMMA LookUpKeeps ==
  ASSUME Supervised, NEW n \in Nodes, LookUp(n) \/ \E t \in Starters : StartCheck(t, n)
  PROVE  Supervised'
<1>0. /\ Typed /\ ThreadsOK /\ UNCHANGED <<procs, pids, up, launches>> /\ up
      /\ reg' = RegAfterLookup(n) /\ file' = FileAfterLookup(n)
  BY DEF Supervised, LookUp, StartCheck
<1>1. /\ reg' \in [Nodes -> Record \cup {None}] /\ file' \in [Nodes -> Record \cup {None}]
      /\ \A m \in Nodes : reg'[m] \in {reg[m], file[m], None} /\ file'[m] \in {reg[m], file[m], None}
  BY <1>0, LookupFacts
<1>2. \/ thr' = thr
      \/ \E t \in Starters : thr' = [thr EXCEPT ![t] = [at |-> "launch", n |-> n, rec |-> None]]
  BY DEF LookUp, StartCheck
<1>3. /\ thr' \in [Starters -> Thread]
      /\ \A t \in Starters : thr'[t] \in {thr[t], Idle} \/ (thr'[t].at = "launch" /\ thr'[t].n \in Nodes)
  BY <1>0, <1>2, ThreadFacts DEF Typed
<1>4. Typed'
  BY <1>0, <1>1, <1>3 DEF Typed
<1> QED BY <1>0, <1>1, <1>3, <1>4, FrameKeeps

\* Steps that touch neither records nor processes, and processes that exit.
LEMMA OthersKeep ==
  ASSUME Supervised,
         \/ \E n \in Nodes : CreateNode(n) \/ Age(n)
         \/ \E t \in Starters : LaunchFails(t)
         \/ Beat \/ HypervisorExits \/ Crash \/ \E x \in Pids : Exits(x)
  PROVE  Supervised'
<1>0. Typed /\ ThreadsOK
  BY DEF Supervised
<1>1. CASE UNCHANGED <<procs, pids, up, launches, reg, file>>
           /\ (UNCHANGED thr \/ \E t \in Starters : thr' = [thr EXCEPT ![t] = Idle])
  <2>1. thr' \in [Starters -> Thread] /\ \A t \in Starters : thr'[t] \in {thr[t], Idle}
    BY <1>0, <1>1, ThreadFacts DEF Typed
  <2>2. Typed'
    BY <1>0, <1>1, <2>1 DEF Typed
  <2>3. \A t \in Starters : thr'[t].at # "idle" => up'
    BY <1>0, <1>1, <2>1, ThreadFacts DEF ThreadsOK
  <2> QED BY <1>1, <2>1, <2>2, <2>3, FrameKeeps
<1>2. CASE BeatApply
  <2>1. UNCHANGED <<procs, pids, up, launches, thr>>
    BY <1>2 DEF BeatApply
  <2>2. /\ reg' = reg \/ reg' = [reg EXCEPT ![beat.n] = None]
        /\ file' = file \/ file' = [file EXCEPT ![beat.n] = None]
    BY <1>2 DEF BeatApply
  <2>3. /\ reg' \in [Nodes -> Record \cup {None}] /\ file' \in [Nodes -> Record \cup {None}]
        /\ \A m \in Nodes : reg'[m] \in {reg[m], file[m], None} /\ file'[m] \in {reg[m], file[m], None}
    BY <1>0, <2>2 DEF Typed
  <2>4. Typed'
    BY <1>0, <2>1, <2>3 DEF Typed
  <2>5. \A t \in Starters : thr'[t].at # "idle" => up'
    BY <1>0, <2>1 DEF ThreadsOK
  <2> QED BY <2>1, <2>3, <2>4, <2>5, FrameKeeps
<1>3. CASE \E x \in Pids : Exits(x)
  <2>1. UNCHANGED <<pids, up, launches, thr, reg, file>> /\ \E x \in Pids : procs' = [procs EXCEPT ![x] = None]
    BY <1>3 DEF Exits, Killed, backend
  <2>2. procs' \in [Pids -> Process \cup {None}] /\ \A x \in Pids : procs'[x] \in {procs[x], None}
    BY <1>0, <2>1 DEF Typed
  <2>3. Typed'
    BY <1>0, <2>1, <2>2 DEF Typed
  <2>4. \A t \in Starters : thr'[t].at # "idle" => up'
    BY <1>0, <2>1 DEF ThreadsOK
  <2> QED BY <2>1, <2>2, <2>3, <2>4, FrameKeeps
<1>4. CASE Crash
  <2>1. UNCHANGED <<pids, launches, file, procs>> /\ reg' = [n \in Nodes |-> None] /\ up' = FALSE
        /\ thr' = [t \in Starters |-> Idle]
    BY <1>4 DEF Crash
  <2>2. Typed' /\ (\A t \in Starters : thr'[t] = Idle) /\ \A n \in Nodes : reg'[n] = None
    BY <1>0, <2>1, ThreadFacts DEF Typed
  <2>3. \A t \in Starters : thr'[t].at = "idle"
    BY <2>2, ThreadFacts
  <2> QED BY <2>1, <2>2, <2>3, FrameKeeps
<1> QED BY <1>1, <1>2, <1>3, <1>4
        DEF CreateNode, Age, LaunchFails, Beat, BeatBegin, BeatProbe, BeatNext, HypervisorExits, backend, world

\* The records after adoption: those of the state files, and of a process
\* whose node had none.
LEMMA AdoptedFacts ==
  ASSUME Supervised, NEW n \in Nodes
  PROVE  \/ Adopted(file)[n] = file[n] /\ ~\E x \in Orphans : procs[x].n = n
         \/ \E x \in Orphans : /\ Adopted(file)[n] = [pid |-> x, born |-> procs[x].born] /\ procs[x].n = n
                               /\ file[n] = None
<1>1. CASE ~\E x \in Orphans : procs[x].n = n
  BY <1>1 DEF Adopted
<1>2. CASE \E x \in Orphans : procs[x].n = n
  <2>1. PICK x \in Orphans : procs[x].n = n
    BY <1>2
  <2>2. x \in Pids /\ procs[x] # None /\ procs[x] \in Process /\ file[n] = None
    BY <2>1 DEF Orphans, Supervised, Typed
  <2>3. procs[x].born \in 0..MaxLaunch
    BY <2>2, NoneFacts
  <2> DEFINE q == [pid |-> x, born |-> procs[x].born]
             P(r) == r.pid \in Orphans /\ r.born = procs[r.pid].born /\ procs[r.pid].n = n
             c == CHOOSE r \in Record : P(r)
  <2>4. q \in Record /\ P(q)
    BY <2>1, <2>2, <2>3 DEF Record
  <2>5. c \in Record /\ P(c)
    BY <2>4
  <2>6. Adopted(file)[n] = c
    BY <1>2 DEF Adopted
  <2> HIDE DEF c
  <2>7. c = [pid |-> c.pid, born |-> procs[c.pid].born] /\ c.pid \in Orphans /\ procs[c.pid].n = n
    BY <2>5 DEF Record
  <2> QED BY <2>2, <2>6, <2>7
<1> QED BY <1>1, <1>2

\* The backend comes back.
LEMMA StartupKeeps ==
  ASSUME Supervised, Startup
  PROVE  Supervised'
<1>0. /\ Typed /\ ProcsOld /\ RecordsOld /\ RecordsOwn /\ ThreadsOK /\ ThreadsOwn /\ ~up /\ up' = TRUE
      /\ UNCHANGED <<procs, thr, launches>> /\ reg' = Adopted(file) /\ file' = Adopted(file)
      /\ pids' = [x \in Pids |-> IF x \in Orphans THEN procs[x].n ELSE pids[x]]
  BY DEF Supervised, Startup
<1>1. \A x \in Orphans : x \in Pids /\ procs[x] # None /\ procs[x] \in Process /\ file[procs[x].n] = None
  BY <1>0 DEF Orphans, Typed
<1>2. DOMAIN Adopted(file) = Nodes /\ Adopted(file) = [n \in Nodes |-> Adopted(file)[n]]
  BY DEF Adopted
<1>3. ASSUME NEW n \in Nodes
      PROVE  /\ Adopted(file)[n] \in Record \cup {None} /\ Own(Adopted(file)[n], n, procs', pids')
             /\ Adopted(file)[n] # None => Adopted(file)[n].born <= launches
  <2> DEFINE a == Adopted(file)[n]
  <2>1. CASE a = file[n]
    <3>1. file[n] \in Record \cup {None} /\ Own(file[n], n, procs, pids) /\ (file[n] # None => file[n].born <= launches)
      BY <1>0 DEF Typed, RecordsOwn, RecordsOld
    <3>2. file[n] # None => file[n].pid \in Pids \cup {0}
      BY <3>1, NoneFacts
    <3>3. Own(file[n], n, procs', pids')
      BY <1>0, <1>1, <3>1, <3>2 DEF Own
    <3> QED BY <2>1, <3>1, <3>3
  <2>2. CASE \E x \in Orphans : a = [pid |-> x, born |-> procs[x].born] /\ procs[x].n = n
    <3>1. PICK x \in Orphans : a = [pid |-> x, born |-> procs[x].born] /\ procs[x].n = n
      BY <2>2
    <3>2. x \in Pids /\ procs[x] # None /\ procs[x].born \in 0..MaxLaunch /\ procs[x].born <= launches
      BY <1>0, <1>1, NoneFacts DEF ProcsOld
    <3>3. a \in Record /\ a.pid = x /\ a.born = procs[x].born
      BY <3>1, <3>2 DEF Record
    <3>4. pids'[x] = n
      BY <1>0, <3>1, <3>2
    <3> HIDE DEF a
    <3>5. Own(a, n, procs', pids')
      BY <1>0, <3>1, <3>3, <3>4 DEF Own
    <3> QED BY <3>2, <3>3, <3>5 DEF a
  <2> QED BY <2>1, <2>2, AdoptedFacts
<1>4. Adopted(file) \in [Nodes -> Record \cup {None}]
  BY <1>2, <1>3
<1>5. pids' \in [Pids -> Nodes \cup {None}]
  BY <1>0, <1>1, NoneFacts DEF Typed
<1>6. Typed'
  BY <1>0, <1>4, <1>5 DEF Typed
<1>7. ProcsOld' /\ RecordsOld' /\ RecordsOwn'
  BY <1>0, <1>3 DEF ProcsOld, RecordsOld, RecordsOwn
<1>8. \A t \in Starters : thr[t].at = "idle" /\ thr[t] = Idle
  BY <1>0 DEF ThreadsOK
<1>9. ThreadsOK' /\ ThreadsOwn'
  BY <1>0, <1>8 DEF ThreadsOK, ThreadsOwn, Held, Busy
<1> QED BY <1>6, <1>7, <1>9 DEF Supervised
------------------------------------------------------------------------------
(***************************************************************************)
(* What holds of every instance                                            *)
(***************************************************************************)
\* Nothing runs at first.
LEMMA InitSupervised == Init => Supervised
<1> SUFFICES ASSUME Init PROVE Supervised
  OBVIOUS
<1>1. Typed
  BY ThreadFacts, NoneFacts DEF Init, Typed
<1>2. /\ \A x \in Pids : procs[x] = None
      /\ \A n \in Nodes : reg[n] = None /\ file[n] = None
      /\ \A t \in Starters : thr[t] = Idle /\ thr[t].at = "idle"
  BY ThreadFacts DEF Init
<1>3. ProcsOld /\ RecordsOld /\ RecordsOwn /\ ThreadsOK /\ ThreadsOwn
  BY <1>2 DEF ProcsOld, RecordsOld, RecordsOwn, ThreadsOK, ThreadsOwn, Own, Held, Busy
<1> QED BY <1>1, <1>3 DEF Supervised

\* One step per action.
LEMMA NextSupervised == Supervised /\ [Next]_vars => Supervised'
<1> SUFFICES ASSUME Supervised, [Next]_vars PROVE Supervised'
  OBVIOUS
<1>1. ASSUME NEW n \in Nodes, LookUp(n) \/ StopNode(n) \/ DeleteNode(n) \/ CreateNode(n) \/ Age(n) PROVE Supervised'
  BY <1>1, LookUpKeeps, StopKeeps, OthersKeep
<1>2. ASSUME NEW t \in Starters, NEW n \in Nodes, StartCheck(t, n) PROVE Supervised'
  BY <1>2, LookUpKeeps
<1>3. ASSUME NEW t \in Starters, Launch(t) \/ LaunchFails(t) \/ Register(t) \/ RegisterFails(t) \/ Commit(t) \/ Persist(t)
      PROVE Supervised'
  BY <1>3, LaunchKeeps, OthersKeep, RegisterOwn, RegisterFailsKeeps, CommitKeeps, PersistKeeps
<1>4. ASSUME Beat \/ (\E x \in Pids : Exits(x)) \/ HypervisorExits \/ Crash PROVE Supervised'
  BY <1>4, OthersKeep
<1>5. ASSUME UNCHANGED vars PROVE Supervised'
  BY <1>5 DEF vars, Supervised, Typed, ProcsOld, RecordsOld, RecordsOwn, ThreadsOK, ThreadsOwn
<1> QED BY <1>1, <1>2, <1>3, <1>4, <1>5, StartupKeeps DEF Next

\* Supervised holds in every reachable state.
LEMMA SupervisedInvariant == Spec => []Supervised
BY InitSupervised, NextSupervised, PTL DEF Spec

\* Every process a lookup finds is registered in pids.json for its own node
\* (KnownAuthorized), whatever pids the kernel reuses and wherever the
\* backend dies: the privileged helper never acts for the wrong node.
THEOREM RegisteredForItsNode == Spec => []KnownAuthorized
<1>1. ASSUME Supervised PROVE KnownAuthorized
  <2> SUFFICES ASSUME NEW x \in Pids, procs[x] # None, KnownProc(x) PROVE pids[x] = procs[x].n
    BY DEF KnownAuthorized
  <2> DEFINE n == procs[x].n
             r == Recorded(n)
  <2>1. n \in Nodes /\ x # 0
    BY <1>1, NoneFacts DEF Supervised, Typed
  <2>2. r # None /\ r.pid = x /\ r.born = procs[x].born
    BY DEF KnownProc
  <2>3. Own(r, n, procs, pids)
    BY <1>1, <2>1 DEF Supervised, RecordsOwn, Recorded
  <2> HIDE DEF r
  <2> QED BY <2>1, <2>2, <2>3 DEF Own
<1>2. Supervised => KnownAuthorized
  BY <1>1
<1> QED BY <1>2, SupervisedInvariant, PTL

\* A step that kills the process of a record takes the record along
\* (NoStrayKill): stop_node, delete_node and the rollback of a failed start
\* signal a pid by number, yet never that of another node's workload.
THEOREM KillsOwnOnly == Spec => NoStrayKill
<1> DEFINE A == \A x \in Pids : procs[x] # None /\ procs'[x] = None /\ ~Exits(x) =>
                 ~(reg[procs[x].n] # None /\ reg'[procs[x].n] = [pid |-> x, born |-> procs[x].born])
<1>1. ASSUME Supervised, Next PROVE A
  <2> SUFFICES ASSUME NEW x \in Pids, procs[x] # None, procs'[x] = None, ~Exits(x)
               PROVE  ~(reg[procs[x].n] # None /\ reg'[procs[x].n] = [pid |-> x, born |-> procs[x].born])
    OBVIOUS
  <2>0. /\ Typed /\ ThreadsOK /\ ThreadsOwn /\ procs \in [Pids -> Process \cup {None}] /\ procs[x].n \in Nodes
        /\ x # 0 /\ procs' # procs
    BY <1>1, NoneFacts DEF Supervised, Typed
  <2>1. ASSUME NEW n \in Nodes, Current(n), TornDown(n, Recorded(n)) PROVE reg'[procs[x].n] = None
    <3>1. procs[x].n = n /\ reg'[n] = None
      BY <1>1, <2>0, <2>1, TornDownFacts
    <3> QED BY <3>1
  <2>2. ASSUME NEW t \in Starters, RegisterFails(t)
        PROVE  reg[procs[x].n] # None => reg'[procs[x].n] # [pid |-> x, born |-> procs[x].born]
    <3> DEFINE r == thr[t].rec
    <3>1. thr[t].at = "spawned" /\ reg' = reg /\ procs' = IF Proc(r) # None THEN KillPid(r.pid) ELSE procs
      BY <2>2 DEF RegisterFails
    <3>2. x = r.pid
      <4>1. procs' = KillPid(r.pid) /\ r.pid # 0
        BY <2>0, <3>1 DEF Proc
      <4> QED BY <2>0, <4>1 DEF KillPid, Killed
    <3>3. procs[x].born = r.born
      BY <2>0, <3>1, <3>2 DEF ThreadsOwn, Busy
    <3>4. reg[procs[x].n] # None => reg[procs[x].n].born # r.born
      BY <2>0, <3>1 DEF ThreadsOwn, Busy
    <3> QED BY <3>1, <3>3, <3>4
  <2>3. ASSUME NEW t \in Starters, Launch(t) PROVE FALSE
    <3>1. procs' = procs \/ \E y \in Pids, p \in Process : procs[y] = None /\ procs' = [procs EXCEPT ![y] = p]
      <4>1. thr[t].n \in Nodes /\ launches + 1 \in 0..MaxLaunch
        <5>1. launches \in 0..MaxLaunch /\ launches < MaxLaunch /\ thr[t].at = "launch"
          BY <2>0, <2>3 DEF Typed, Launch
        <5> QED BY <2>0, <5>1, NoneFacts DEF ThreadsOK
      <4>2. [n |-> thr[t].n, born |-> launches + 1] \in Process
        BY <4>1 DEF Process
      <4> QED BY <2>3, <4>2 DEF Launch
    <3>2. \A p \in Process : p # None
      BY NoneFacts
    <3> QED BY <2>0, <3>1, <3>2
  <2>4. ASSUME NEW y \in Pids, Exits(y) PROVE FALSE
    <3>1. procs' = [procs EXCEPT ![y] = None]
      BY <2>4 DEF Exits, Killed
    <3>2. x = y
      BY <2>0, <3>1
    <3> QED BY <2>4, <3>2
  <2>5. ASSUME NEW n \in Nodes, LookUp(n) \/ StopNode(n) \/ DeleteNode(n) \/ CreateNode(n) \/ Age(n)
        PROVE  reg'[procs[x].n] = None
    BY <2>0, <2>1, <2>5 DEF LookUp, StopNode, DeleteNode, CreateNode, Age, world
  <2>6. ASSUME NEW t \in Starters,
               \/ LaunchFails(t) \/ Register(t) \/ Commit(t) \/ Persist(t) \/ \E n \in Nodes : StartCheck(t, n)
        PROVE  FALSE
    BY <2>0, <2>6 DEF LaunchFails, Register, Commit, Persist, StartCheck
  <2>7. ASSUME Beat \/ HypervisorExits \/ Crash \/ Startup PROVE FALSE
    BY <2>0, <2>7 DEF Beat, BeatBegin, BeatNext, BeatProbe, BeatApply, HypervisorExits, Crash, Startup, world
  <2>8. CASE reg'[procs[x].n] = None
    <3>1. [pid |-> x, born |-> procs[x].born] \in Record
      BY <2>0, NoneFacts DEF Record
    <3> QED BY <2>8, <3>1, NoneFacts
  <2> QED BY <1>1, <2>2, <2>3, <2>4, <2>5, <2>6, <2>7, <2>8 DEF Next
<1>2. Supervised /\ [Next]_vars => [A]_vars
  BY <1>1
<1> HIDE DEF A
<1>3. Spec => [][A]_vars
  BY <1>2, SupervisedInvariant, PTL DEF Spec
<1> QED BY <1>3 DEF NoStrayKill, A
------------------------------------------------------------------------------
(***************************************************************************)
(* One start per node at a time                                            *)
(***************************************************************************)
Starts == {"launch", "spawned", "commit"}

\* Two starts are of two nodes, and a node that is being started has no
\* record until the start commits.
Alone     == \A t, u \in Starters : thr[t].at # "idle" /\ thr[u].n = thr[t].n => t = u
Launching == \A t \in Starters : thr[t].at \in Starts => reg[thr[t].n] = None /\ file[thr[t].n] = None
OneInv    == Supervised /\ Alone /\ Launching

\* Steps in which no start begins and no record is made.
LEMMA OneFrame ==
  ASSUME OneInv, Supervised',
         \A n \in Nodes : reg'[n] \in {reg[n], file[n], None} /\ file'[n] \in {reg[n], file[n], None},
         \A t \in Starters : /\ thr'[t].n \in {thr[t].n, None}
                             /\ thr'[t].at # "idle" => thr[t].at # "idle" /\ thr'[t].n = thr[t].n
                             /\ thr'[t].at \in Starts => thr[t].at \in Starts
  PROVE  OneInv'
<1>1. \A t \in Starters : /\ thr[t].at # "idle" => thr[t].n \in Nodes
                          /\ thr'[t].at # "idle" => thr'[t].n # None
  BY NoneFacts DEF OneInv, Supervised, ThreadsOK
<1>2. Alone'
  BY <1>1 DEF OneInv, Alone
<1>3. ASSUME NEW t \in Starters, thr'[t].at \in Starts PROVE reg'[thr'[t].n] = None /\ file'[thr'[t].n] = None
  <2>1. thr'[t].at # "idle" /\ thr[t].at \in Starts
    BY <1>3 DEF Starts
  <2>2. thr'[t].n = thr[t].n /\ thr[t].n \in Nodes
    BY <1>1, <2>1
  <2> QED BY <2>1, <2>2 DEF OneInv, Launching
<1> QED BY <1>2, <1>3 DEF OneInv, Launching

\* The request finds no start of its node and no record, or ends.
LEMMA OneStartCheck ==
  ASSUME OneInv, Supervised', OneStart, NEW t \in Starters, NEW n \in Nodes, StartCheck(t, n)
  PROVE  OneInv'
<1>0. /\ Typed /\ ThreadsOK /\ Alone /\ Launching /\ thr[t] = Idle /\ (\A u \in Starters : thr[u].n # n)
      /\ reg' = RegAfterLookup(n) /\ file' = FileAfterLookup(n)
      /\ thr' = IF Current(n) THEN thr ELSE [thr EXCEPT ![t] = [at |-> "launch", n |-> n, rec |-> None]]
  BY DEF OneInv, Supervised, StartCheck
<1>1. \A m \in Nodes : reg'[m] \in {reg[m], file[m], None} /\ file'[m] \in {reg[m], file[m], None}
  BY <1>0, LookupFacts
<1>2. CASE Current(n)
  <2>1. thr' = thr
    BY <1>0, <1>2
  <2> QED BY <1>1, <2>1, OneFrame
<1>3. CASE ~Current(n)
  <2>1. /\ thr'[t].at = "launch" /\ thr'[t].n = n /\ \A u \in Starters \ {t} : thr'[u] = thr[u]
    BY <1>0, <1>3 DEF Typed
  <2>2. reg'[n] = None /\ file'[n] = None
    BY <1>0, <1>3 DEF RegAfterLookup, FileAfterLookup, Recorded, Typed
  <2>3. Alone'
    BY <1>0, <2>1 DEF Alone
  <2>4. ASSUME NEW u \in Starters, thr'[u].at \in Starts PROVE reg'[thr'[u].n] = None /\ file'[thr'[u].n] = None
    <3>1. CASE u = t
      BY <2>1, <2>2, <3>1
    <3>2. CASE u # t
      <4>1. thr'[u] = thr[u] /\ thr[u].n \in Nodes
        BY <1>0, <2>1, <2>4, <3>2 DEF ThreadsOK, Starts
      <4> QED BY <1>0, <1>1, <2>4, <4>1 DEF Launching
    <3> QED BY <3>1, <3>2
  <2> QED BY <2>3, <2>4 DEF OneInv, Launching
<1> QED BY <1>2, <1>3

\* A start commits or persists: of its own node only.
LEMMA OneCommit ==
  ASSUME OneInv, Supervised', NEW t \in Starters, Commit(t) \/ Persist(t)
  PROVE  OneInv'
<1>0. /\ Typed /\ ThreadsOK /\ Alone /\ Launching /\ thr[t].at \in {"commit", "persist"} /\ thr[t].n \in Nodes
      /\ reg' = reg \/ reg' = [reg EXCEPT ![thr[t].n] = thr[t].rec]
      /\ file' = file \/ file' = [file EXCEPT ![thr[t].n] = thr[t].rec]
  BY DEF OneInv, Supervised, Commit, Persist, ThreadsOK
<1>1. \A m \in Nodes \ {thr[t].n} : reg'[m] = reg[m] /\ file'[m] = file[m]
  BY <1>0 DEF Typed
<1>2. /\ \A u \in Starters \ {t} : thr'[u] = thr[u]
      /\ thr'[t].at \in {"idle", "persist"} /\ thr'[t].n \in {thr[t].n, None}
      /\ thr'[t].at = "persist" => thr'[t].n = thr[t].n
  <2>1. CASE Commit(t)
    BY <1>0, <2>1, Advanced DEF OneInv, Held, Commit
  <2>2. CASE Persist(t)
    <3>1. thr' = [thr EXCEPT ![t] = Idle] /\ Idle.at = "idle" /\ Idle.n = None
      BY <2>2, ThreadFacts DEF Persist
    <3> QED BY <1>0, <3>1 DEF Typed
  <2> QED BY <2>1, <2>2
<1>3. \A u \in Starters : thr[u].at # "idle" => thr[u].n # None
  BY <1>0, NoneFacts DEF ThreadsOK
<1>4. Alone'
  BY <1>0, <1>2, <1>3, NoneFacts DEF Alone
<1>5. ASSUME NEW u \in Starters, thr'[u].at \in Starts PROVE reg'[thr'[u].n] = None /\ file'[thr'[u].n] = None
  <2>1. u # t /\ thr'[u] = thr[u]
    BY <1>2, <1>5 DEF Starts
  <2>2. thr[u].n \in Nodes \ {thr[t].n}
    BY <1>0, <1>5, <2>1 DEF ThreadsOK, Alone, Starts
  <2> QED BY <1>0, <1>1, <1>5, <2>1, <2>2 DEF Launching
<1> QED BY <1>4, <1>5 DEF OneInv, Launching

\* One step per action.
LEMMA OneKeeps == OneStart /\ OneInv /\ [Next]_vars => OneInv'
<1> SUFFICES ASSUME OneStart, OneInv, [Next]_vars PROVE OneInv'
  OBVIOUS
<1>0. Supervised /\ Supervised' /\ Typed /\ ThreadsOK
  BY NextSupervised DEF OneInv, Supervised
<1>1. ASSUME UNCHANGED thr,
             \A n \in Nodes : reg'[n] \in {reg[n], file[n], None} /\ file'[n] \in {reg[n], file[n], None}
      PROVE  OneInv'
  BY <1>0, <1>1, OneFrame
<1>2. ASSUME NEW n \in Nodes, LookUp(n) \/ StopNode(n) \/ DeleteNode(n) \/ CreateNode(n) \/ Age(n) PROVE OneInv'
  <2>1. UNCHANGED thr
    BY <1>2 DEF LookUp, StopNode, DeleteNode, CreateNode, Age, backend
  <2>2. CASE reg' = RegAfterLookup(n) /\ file' = FileAfterLookup(n)
    BY <1>0, <1>1, <2>1, <2>2, LookupFacts
  <2>3. CASE Current(n) /\ TornDown(n, Recorded(n))
    <3>1. \A m \in Nodes : reg'[m] \in {reg[m], None} /\ file'[m] \in {file[m], None}
      BY <1>0, <2>3, TornDownFacts
    <3> QED BY <1>1, <2>1, <3>1
  <2>4. CASE UNCHANGED <<reg, file>>
    BY <1>1, <2>1, <2>4
  <2> QED BY <1>2, <2>2, <2>3, <2>4 DEF LookUp, StopNode, DeleteNode, CreateNode, Age, backend, world
<1>3. ASSUME NEW t \in Starters, Launch(t) \/ Register(t) PROVE OneInv'
  <2>1. UNCHANGED <<reg, file>> /\ thr[t].at \in {"launch", "spawned"}
    BY <1>3 DEF Launch, Register
  <2>2. thr'[t].n = thr[t].n /\ \A u \in Starters \ {t} : thr'[u] = thr[u]
    BY <1>0, <1>3, Advanced DEF Launch, Register, Held, Typed
  <2>3. thr[t].at \in Starts /\ thr[t].at # "idle"
    BY <2>1 DEF Starts
  <2> QED BY <1>0, <2>1, <2>2, <2>3, OneFrame
<1>4. ASSUME NEW t \in Starters, LaunchFails(t) \/ RegisterFails(t) PROVE OneInv'
  <2>1. UNCHANGED <<reg, file>> /\ thr' = [thr EXCEPT ![t] = Idle] /\ Idle.at = "idle" /\ Idle.n = None
    BY <1>4, ThreadFacts DEF LaunchFails, RegisterFails
  <2>2. thr'[t] = Idle /\ \A u \in Starters \ {t} : thr'[u] = thr[u]
    BY <1>0, <2>1 DEF Typed
  <2>3. Idle.at \notin Starts
    BY <2>1 DEF Starts
  <2> QED BY <1>0, <2>1, <2>2, <2>3, OneFrame
<1>5. ASSUME Beat PROVE OneInv'
  <2>1. UNCHANGED thr /\ (UNCHANGED <<reg, file>> \/ BeatApply)
    BY <1>5 DEF Beat, BeatBegin, BeatNext, BeatProbe, BeatApply, world
  <2>2. CASE BeatApply
    <3>1. /\ reg' = reg \/ reg' = [reg EXCEPT ![beat.n] = None]
          /\ file' = file \/ file' = [file EXCEPT ![beat.n] = None]
      BY <2>2 DEF BeatApply
    <3>2. \A m \in Nodes : reg'[m] \in {reg[m], None} /\ file'[m] \in {file[m], None}
      BY <1>0, <3>1 DEF Typed
    <3> QED BY <1>1, <2>1, <3>2
  <2> QED BY <1>1, <2>1, <2>2
<1>6. ASSUME (\E x \in Pids : Exits(x)) \/ HypervisorExits \/ UNCHANGED vars PROVE OneInv'
  BY <1>1, <1>6 DEF Exits, HypervisorExits, backend, vars
<1>7. ASSUME Crash \/ Startup PROVE OneInv'
  <2>1. \A t \in Starters : thr'[t].at = "idle"
    <3>1. CASE Crash
      BY <3>1, ThreadFacts DEF Crash
    <3>2. CASE Startup
      BY <1>0, <3>2 DEF Startup, ThreadsOK
    <3> QED BY <1>7, <3>1, <3>2
  <2> QED BY <1>0, <2>1 DEF OneInv, Alone, Launching, Starts
<1> QED BY <1>0, <1>2, <1>3, <1>4, <1>5, <1>6, <1>7, OneStartCheck, OneCommit DEF Next

\* OneInv holds in every reachable state.
LEMMA OneInvariant ==
  ASSUME OneStart
  PROVE  Spec => []OneInv
<1>1. Init => OneInv
  <2> SUFFICES ASSUME Init PROVE OneInv
    OBVIOUS
  <2>1. \A t \in Starters : thr[t].at = "idle"
    BY ThreadFacts DEF Init
  <2> QED BY <2>1, InitSupervised DEF OneInv, Alone, Launching, Starts
<1>2. OneInv /\ [Next]_vars => OneInv'
  BY OneKeeps
<1> QED BY <1>1, <1>2, PTL DEF Spec

\* No handler on the event loop waits for the mutex of a launch
\* (LoopNeverWaits), as long as the browser asks for one start of a node at a
\* time: there is nothing to stop before the start commits.
THEOREM LoopRuns ==
  ASSUME OneStart
  PROVE  Spec => []LoopNeverWaits
<1>1. OneInv => LoopNeverWaits
  BY DEF OneInv, Launching, LoopNeverWaits, Current, Recorded, Starts
<1> QED BY <1>1, OneInvariant, PTL
------------------------------------------------------------------------------
(***************************************************************************)
(* Every workload can be found.  A record is that of a live process, or    *)
(* dead for good: processes created later are younger.  Whoever drops the  *)
(* record of a node has seen that it is dead or has killed its process;    *)
(* for the heartbeat, which acts on an older reading, the suppression      *)
(* window keeps that reading true.                                         *)
(***************************************************************************)
Names(r, x, P) == r # None /\ r.pid = x /\ r.born = P[x].born
Dead(r, P)     == \A x \in Pids : P[x] # None => ~Names(r, x, P)

LostTyped == lost \in [procs : SUBSET Nat, vms : SUBSET Nodes] /\ vms \subseteq Dyn

\* A Dynamips VM has no pid.
NoPid(r)  == r # None => r.pid = 0
DynPidless == /\ \A n \in Dyn : NoPid(reg[n]) /\ NoPid(file[n])
              /\ \A t \in Starters : thr[t].n \in Dyn => NoPid(thr[t].rec)

\* A state file that the registry does not know is that of a dead process.
FilesDead == up => \A n \in Nodes : reg[n] = None => Dead(file[n], procs)

\* Between commit and persist only the registry knows the process.
Persisting ==
  \A t \in Starters : thr[t].at = "persist" =>
    /\ file[thr[t].n] = None
    /\ reg[thr[t].n] \in {thr[t].rec, None}
    /\ reg[thr[t].n] = None => Dead(thr[t].rec, procs)

\* A QEMU node has one process at most, its state file is of no other one
\* and neither is its start.
QemuAlone ==
  \A x \in Pids : procs[x] # None /\ procs[x].n \in Qemu =>
    /\ \A y \in Pids : procs[y] # None /\ procs[y].n = procs[x].n => y = x
    /\ file[procs[x].n] = None \/ Names(file[procs[x].n], x, procs)
    /\ \A t \in Starters : thr[t].at \in Held /\ thr[t].n = procs[x].n => Names(thr[t].rec, x, procs)

BornOnce ==
  \A x, y \in Pids : procs[x] # None /\ procs[y] # None /\ procs[x].born = procs[y].born => x = y

\* While the backend is down the state files know what was not lost.
LostOrFiled ==
  ~up => /\ vms = {}
         /\ \A x \in Pids : procs[x] # None =>
              Names(file[procs[x].n], x, procs) \/ procs[x].born \in lost.procs

RunInv == /\ LostTyped /\ DynPidless /\ FilesDead /\ Persisting /\ QemuAlone /\ BornOnce
          /\ LostOrFiled /\ KnownRunning

Asking == beat.at \in {"asked", "answered"}
Seen(r) == r \in Record /\ r.born <= launches

BeatTyped ==
  /\ status \in [Nodes -> {0, 2}]
  /\ beat \in [at : {"sleep", "scan", "asked", "answered"}, todo : SUBSET (Nodes \X Record),
               n : Nodes \cup {None}, rec : Record \cup {None}, alive : BOOLEAN]
  /\ \A e \in beat.todo : Seen(e[2])
  /\ Asking => beat.n \in Nodes /\ Seen(beat.rec)
  /\ ~up => beat.todo = {} /\ ~Asking

\* The heartbeat never saw a Dynamips node alive ...
DynUnseen ==
  /\ \A n \in Dyn : status[n] = 0
  /\ \A e \in beat.todo : e[1] \in Dyn => e[2].pid = 0
  /\ Asking /\ beat.n \in Dyn => beat.rec.pid = 0
  /\ beat.at = "answered" /\ beat.n \in Dyn => ~beat.alive

\* ... and what it has read of another node is still in the registry unless
\* it was dropped there, or the node is young.
BeatSound ==
  /\ \A e \in beat.todo : e[1] \notin Dyn => e[1] \in young \/ reg[e[1]] \in {e[2], None}
  /\ Asking /\ beat.n \notin Dyn => reg[beat.n] \in {beat.rec, None}
  /\ beat.at = "answered" /\ ~beat.alive => Dead(beat.rec, procs)

BeatInv == BeatTyped /\ DynUnseen /\ BeatSound

KnownInv == OneInv /\ RunInv /\ BeatInv

\* Named processes.
LEMMA NamedFacts ==
  /\ \A P : Dead(None, P)
  /\ \A x : x \in Pids /\ procs[x] # None => (KnownProc(x) <=> Names(Recorded(procs[x].n), x, procs))
  /\ \A r : Typed /\ r \in Record => (Dead(r, procs) <=> Proc(r) = None)
<1>1. \A P : Dead(None, P)
  BY DEF Dead, Names
<1>2. \A x : x \in Pids /\ procs[x] # None => (KnownProc(x) <=> Names(Recorded(procs[x].n), x, procs))
  BY DEF KnownProc, Names
<1>3. ASSUME NEW r, Typed, r \in Record PROVE Dead(r, procs) <=> Proc(r) = None
  <2>1. r # None /\ r.pid \in Pids \cup {0} /\ 0 \notin Pids
    BY <1>3, NoneFacts
  <2> QED BY <2>1 DEF Dead, Names, Proc
<1> QED BY <1>1, <1>2, <1>3

\* A dead record stays dead: processes only go, or are born later.
LEMMA DeadStays ==
  ASSUME NEW r, r \in Record \cup {None}, r # None => r.born <= launches, launches \in Nat,
         \A x \in Pids : \/ procs'[x] \in {procs[x], None}
                         \/ procs'[x].born = launches + 1,
         Dead(r, procs)
  PROVE  Dead(r, procs')
<1>1. r # None => r.born \in Nat /\ r.born # launches + 1
  BY NoneFacts
<1> QED BY <1>1 DEF Dead, Names

\* Steps that forget: processes and VMs go, a record goes with its process
\* or after it, a start ends with its workload or goes on to its commit.
ForgetsRecords ==
  \A n \in Nodes :
    \/ reg'[n] = reg[n] /\ file'[n] = file[n]
    \/ up /\ reg'[n] = None /\ file'[n] = None /\ Dead(Recorded(n), procs')
    \/ n \in Dyn /\ up /\ reg[n] = None /\ reg'[n] = file[n] /\ file'[n] = file[n]

ForgetsStarts ==
  \A t \in Starters :
    \/ thr'[t] = thr[t]
    \/ thr[t].at = "spawned" /\ thr'[t].at = "commit" /\ thr'[t].n = thr[t].n /\ thr'[t].rec = thr[t].rec
    \/ /\ thr'[t].at \in {"idle", "launch"} /\ thr'[t].rec = None
       /\ thr[t].at \in Busy => /\ \A x \in Pids : procs'[x] # None => thr[t].rec.pid # x
                                /\ thr[t].n \notin vms'

ForgetsVms ==
  /\ vms' \subseteq vms /\ lost' \in [procs : SUBSET Nat, vms : SUBSET Nodes] /\ lost'.procs = lost.procs
  /\ \A n \in vms' : \/ n \in lost'.vms
                     \/ n \notin lost.vms /\ (Recorded(n) # None => Recorded(n)' # None)

\* A step that loses processes and what was recorded of them keeps every workload
\* known.
LEMMA ForgetKeeps ==
  ASSUME KnownInv, OneInv', UNCHANGED <<launches, up>>,
         \A x \in Pids : procs'[x] \in {procs[x], None},
         ForgetsRecords, ForgetsStarts, ForgetsVms
  PROVE  RunInv'
<1>0. /\ RunInv /\ Typed /\ ProcsOld /\ RecordsOld /\ ThreadsOK /\ launches \in Nat
      /\ \A n \in Nodes : reg[n] \in Record \cup {None} /\ file[n] \in Record \cup {None}
      /\ \A t \in Starters : thr[t].rec \in Record \cup {None} /\ thr[t].n \in Nodes \cup {None}
  <2>1. Supervised
    BY DEF KnownInv, OneInv
  <2>2. launches \in 0..MaxLaunch /\ thr \in [Starters -> Thread]
    BY <2>1 DEF Supervised, Typed
  <2> QED BY <2>1, <2>2, NoneFacts, ThreadFacts DEF KnownInv, Supervised, Typed
<1>1. ASSUME NEW r, r \in Record \cup {None}, r # None => r.born <= launches, Dead(r, procs)
      PROVE  Dead(r, procs')
  BY <1>0, <1>1, DeadStays
<1>2. \A x \in Pids : \A r : procs'[x] # None => procs[x] # None /\ procs'[x] = procs[x]
                          /\ (Names(r, x, procs') <=> Names(r, x, procs))
  BY DEF Names
<1>3. LostTyped'
  BY <1>0 DEF ForgetsVms, RunInv, LostTyped
<1>4. DynPidless'
  <2>1. \A n \in Dyn : NoPid(reg'[n]) /\ NoPid(file'[n])
    <3> SUFFICES ASSUME NEW n \in Dyn PROVE NoPid(reg'[n]) /\ NoPid(file'[n])
      OBVIOUS
    <3>1. n \in Nodes /\ NoPid(reg[n]) /\ NoPid(file[n]) /\ NoPid(None)
      BY <1>0 DEF Nodes, RunInv, DynPidless, NoPid
    <3> QED BY <3>1 DEF ForgetsRecords
  <2>2. \A t \in Starters : thr'[t].n \in Dyn => NoPid(thr'[t].rec)
    <3>1. \A t \in Starters : thr[t].n \in Dyn => NoPid(thr[t].rec)
      BY <1>0 DEF RunInv, DynPidless
    <3>2. \A t \in Starters : (thr'[t].n = thr[t].n /\ thr'[t].rec = thr[t].rec) \/ thr'[t].rec = None
      BY DEF ForgetsStarts
    <3> QED BY <3>1, <3>2 DEF NoPid
  <2> QED BY <2>1, <2>2 DEF DynPidless
<1>5. FilesDead'
  <2> SUFFICES ASSUME up', NEW n \in Nodes, reg'[n] = None PROVE Dead(file'[n], procs')
    BY DEF FilesDead
  <2>1. CASE reg'[n] = reg[n] /\ file'[n] = file[n]
    <3>1. Dead(file[n], procs)
      BY <1>0, <2>1 DEF RunInv, FilesDead
    <3> QED BY <1>0, <1>1, <2>1, <3>1 DEF RecordsOld
  <2>2. CASE file'[n] = None
    BY <2>2, NamedFacts DEF Dead, Names
  <2> QED BY <2>1, <2>2 DEF ForgetsRecords
<1>6. Persisting'
  <2> SUFFICES ASSUME NEW t \in Starters, thr'[t].at = "persist"
               PROVE  /\ file'[thr'[t].n] = None
                      /\ reg'[thr'[t].n] \in {thr'[t].rec, None}
                      /\ reg'[thr'[t].n] = None => Dead(thr'[t].rec, procs')
    BY DEF Persisting
  <2>1. thr'[t] = thr[t] /\ thr[t].at = "persist"
    BY DEF ForgetsStarts
  <2> DEFINE n == thr[t].n
             r == thr[t].rec
  <2>2. n \in Nodes /\ r \in Record /\ r.born <= launches
    BY <1>0, <2>1 DEF ThreadsOK, Held
  <2>3. file[n] = None /\ reg[n] \in {r, None} /\ (reg[n] = None => Dead(r, procs))
    BY <1>0, <2>1 DEF RunInv, Persisting
  <2>4. reg[n] = None => Dead(r, procs')
    BY <1>1, <2>2, <2>3
  <2>5. reg[n] = r => Recorded(n) = r
    BY <2>2, NoneFacts DEF Recorded
  <2> HIDE DEF n, r
  <2>6. file'[n] = None /\ reg'[n] \in {r, None} /\ (reg'[n] = None => Dead(r, procs'))
    BY <2>2, <2>3, <2>4, <2>5 DEF ForgetsRecords
  <2> QED BY <2>1, <2>6 DEF n, r
<1>7. QemuAlone'
  <2> SUFFICES ASSUME NEW x \in Pids, procs'[x] # None, procs'[x].n \in Qemu
               PROVE  /\ \A y \in Pids : procs'[y] # None /\ procs'[y].n = procs'[x].n => y = x
                      /\ file'[procs'[x].n] = None \/ Names(file'[procs'[x].n], x, procs')
                      /\ \A t \in Starters : thr'[t].at \in Held /\ thr'[t].n = procs'[x].n
                                               => Names(thr'[t].rec, x, procs')
    BY DEF QemuAlone
  <2>1. procs'[x] = procs[x] /\ procs[x] # None /\ procs[x].n \in Nodes
    BY <1>2 DEF Nodes
  <2>2. /\ \A y \in Pids : procs[y] # None /\ procs[y].n = procs[x].n => y = x
        /\ file[procs[x].n] = None \/ Names(file[procs[x].n], x, procs)
        /\ \A t \in Starters : thr[t].at \in Held /\ thr[t].n = procs[x].n => Names(thr[t].rec, x, procs)
    BY <1>0, <2>1 DEF RunInv, QemuAlone
  <2>3. file'[procs[x].n] \in {file[procs[x].n], None}
    BY <2>1 DEF ForgetsRecords
  <2>4. \A t \in Starters : thr'[t].at \in Held =>
          thr[t].at \in Held /\ thr'[t].n = thr[t].n /\ thr'[t].rec = thr[t].rec
    BY DEF ForgetsStarts, Held
  <2> QED BY <1>2, <2>1, <2>2, <2>3, <2>4
<1>8. BornOnce'
  BY <1>0, <1>2 DEF RunInv, BornOnce
<1>9. LostOrFiled'
  <2> SUFFICES ASSUME ~up'
               PROVE  /\ vms' = {}
                      /\ \A x \in Pids : procs'[x] # None =>
                           Names(file'[procs'[x].n], x, procs') \/ procs'[x].born \in lost'.procs
    BY DEF LostOrFiled
  <2>1. ~up /\ \A n \in Nodes : file'[n] = file[n]
    BY DEF ForgetsRecords
  <2>2. \A x \in Pids : procs[x] # None => procs[x].n \in Nodes
    BY <1>0, NoneFacts DEF Typed
  <2> QED BY <1>0, <1>2, <2>1, <2>2 DEF RunInv, LostOrFiled, ForgetsVms
<1>10. KnownRunning'
  <2> SUFFICES ASSUME up'
               PROVE  /\ \A x \in Pids : procs'[x] # None =>
                           KnownProc(x)' \/ Starting(x)' \/ procs'[x].born \in lost'.procs
                      /\ \A n \in vms' : Recorded(n)' # None \/ InFlight(n)' \/ n \in lost'.vms
    BY DEF KnownRunning
  <2>0. /\ up /\ \A x \in Pids : procs[x] # None => KnownProc(x) \/ Starting(x) \/ procs[x].born \in lost.procs
        /\ \A n \in vms : Recorded(n) # None \/ InFlight(n) \/ n \in lost.vms
    BY <1>0 DEF RunInv, KnownRunning
  <2>1. ASSUME NEW x \in Pids, procs'[x] # None
        PROVE  KnownProc(x)' \/ Starting(x)' \/ procs'[x].born \in lost'.procs
    <3>0. procs'[x] = procs[x] /\ procs[x] # None /\ procs[x].n \in Nodes
      BY <1>0, <1>2, <2>1, NoneFacts DEF Typed
    <3>1. CASE KnownProc(x)
      <4> DEFINE n == procs[x].n
      <4>1. Names(Recorded(n), x, procs) /\ Names(Recorded(n), x, procs')
        BY <1>2, <2>1, <3>0, <3>1 DEF KnownProc, Names
      <4>2. ~Dead(Recorded(n), procs')
        BY <2>1, <4>1 DEF Dead
      <4>3. Recorded(n)' = Recorded(n)
        BY <3>0, <4>2 DEF ForgetsRecords, Recorded
      <4> QED BY <3>0, <4>1, <4>3 DEF KnownProc, Names
    <3>2. CASE Starting(x)
      <4>1. PICK t \in Starters : thr[t].at \in {"spawned", "commit"} /\ thr[t].rec.pid = x
        BY <3>2 DEF Starting
      <4>2. thr'[t].at \in {"spawned", "commit"} /\ thr'[t].rec.pid = x
        BY <2>1, <4>1 DEF ForgetsStarts, Busy
      <4> QED BY <4>2 DEF Starting
    <3>3. CASE procs[x].born \in lost.procs
      BY <3>0, <3>3 DEF ForgetsVms
    <3> QED BY <2>0, <3>0, <3>1, <3>2, <3>3
  <2>2. ASSUME NEW n \in vms' PROVE Recorded(n)' # None \/ InFlight(n)' \/ n \in lost'.vms
    <3>0. n \in vms
      BY DEF ForgetsVms
    <3>1. CASE InFlight(n)
      <4>1. PICK t \in Starters : thr[t].n = n /\ thr[t].at \in {"spawned", "commit"}
        BY <3>1 DEF InFlight
      <4>2. thr'[t].n = n /\ thr'[t].at \in {"spawned", "commit"}
        BY <4>1 DEF ForgetsStarts, Busy
      <4> QED BY <4>2 DEF InFlight
    <3>2. CASE Recorded(n) # None \/ n \in lost.vms
      BY <3>2 DEF ForgetsVms
    <3> QED BY <2>0, <3>0, <3>1, <3>2
  <2> QED BY <2>1, <2>2
<1> QED BY <1>3, <1>4, <1>5, <1>6, <1>7, <1>8, <1>9, <1>10 DEF RunInv

\* What KnownInv says of types.
LEMMA KnownTypes ==
  ASSUME KnownInv
  PROVE  /\ Supervised /\ Typed /\ ProcsOld /\ RecordsOld /\ ThreadsOK /\ ThreadsOwn /\ launches \in Nat
         /\ RunInv /\ BeatInv /\ Alone /\ Launching
         /\ \A n \in Nodes : /\ reg[n] \in Record \cup {None} /\ (reg[n] # None => reg[n].born <= launches)
                             /\ file[n] \in Record \cup {None} /\ (file[n] # None => file[n].born <= launches)
         /\ \A x \in Pids : procs[x] # None => procs[x] \in Process /\ procs[x].n \in Nodes \ Dyn
                                               /\ procs[x].born \in Nat /\ procs[x].born <= launches
         /\ \A t \in Starters : /\ thr[t].rec \in Record \cup {None} /\ thr[t].n \in Nodes \cup {None}
                                /\ thr[t].at # "idle" => thr[t].n \in Nodes /\ up
                                /\ thr[t].at \in Held => thr[t].rec \in Record /\ thr[t].rec # None
                                                         /\ thr[t].rec.born <= launches
<1>1. Supervised /\ Typed /\ ProcsOld /\ RecordsOld /\ ThreadsOK /\ ThreadsOwn /\ RunInv /\ BeatInv /\ Alone /\ Launching
  BY DEF KnownInv, OneInv, Supervised
<1>2. launches \in 0..MaxLaunch /\ thr \in [Starters -> Thread] /\ procs \in [Pids -> Process \cup {None}]
  BY <1>1 DEF Typed
<1>3. launches \in Nat
  BY <1>2, NoneFacts
<1>4. \A n \in Nodes : /\ reg[n] \in Record \cup {None} /\ (reg[n] # None => reg[n].born <= launches)
                       /\ file[n] \in Record \cup {None} /\ (file[n] # None => file[n].born <= launches)
  BY <1>1 DEF Typed, RecordsOld
<1>5. ASSUME NEW x \in Pids, procs[x] # None
      PROVE  /\ procs[x] \in Process /\ procs[x].n \in Nodes \ Dyn
             /\ procs[x].born \in Nat /\ procs[x].born <= launches
  <2>1. procs[x] \in Process
    BY <1>2, <1>5
  <2>2. procs[x].born \in 0..MaxLaunch /\ procs[x].n \in Nodes /\ MaxLaunch \in Nat
    BY <2>1, NoneFacts
  <2> QED BY <1>1, <1>5, <2>1, <2>2 DEF ProcsOld
<1>6. \A t \in Starters : /\ thr[t].rec \in Record \cup {None} /\ thr[t].n \in Nodes \cup {None}
                          /\ thr[t].at # "idle" => thr[t].n \in Nodes /\ up
                          /\ thr[t].at \in Held => thr[t].rec # None /\ thr[t].rec.born <= launches
  BY <1>1, <1>2, ThreadFacts DEF ThreadsOK
<1> QED BY <1>1, <1>3, <1>4, <1>5, <1>6

\* Idle threads and threads about to launch carry no record.
LEMMA NoRecord ==
  /\ Idle.at = "idle" /\ Idle.rec = None
  /\ \A n : [at |-> "launch", n |-> n, rec |-> None].at = "launch"
            /\ [at |-> "launch", n |-> n, rec |-> None].rec = None
BY DEF Idle

\* A lookup drops the record of a dead workload only, and loads that of a
\* Dynamips node at most.
LEMMA LookupForgets ==
  ASSUME KnownInv, NEW n \in Nodes, up, UNCHANGED <<procs, vms, lost>>,
         reg' = RegAfterLookup(n), file' = FileAfterLookup(n)
  PROVE  ForgetsRecords /\ ForgetsVms
<1>0. /\ Typed /\ RunInv
      /\ \A m \in Nodes : reg[m] \in Record \cup {None} /\ file[m] \in Record \cup {None}
      /\ \A x \in Pids : procs[x] # None => procs[x].n \in Nodes \ Dyn
  BY KnownTypes
<1>1. \A m \in Nodes \ {n} : reg'[m] = reg[m] /\ file'[m] = file[m]
  BY <1>0 DEF Typed, RegAfterLookup, FileAfterLookup
<1>2. reg'[n] = IF Current(n) THEN Recorded(n) ELSE None
  BY <1>0 DEF Typed, RegAfterLookup
<1>3. file'[n] = IF Recorded(n) # None /\ ~Current(n) THEN None ELSE file[n]
  BY <1>0 DEF Typed, FileAfterLookup
<1>4. Recorded(n) \in Record \cup {None}
  BY <1>0 DEF Recorded
<1>5. CASE n \notin Dyn
  <2>1. Recorded(n) # None => (Current(n) <=> ~Dead(Recorded(n), procs))
    BY <1>0, <1>4, <1>5, NamedFacts DEF Current, IsAlive
  <2>2. reg[n] = None => Recorded(n) = file[n] /\ Dead(file[n], procs)
    BY <1>0 DEF Recorded, RunInv, FilesDead
  <2>3. reg[n] # None => Recorded(n) = reg[n]
    BY DEF Recorded
  <2>4. ~Current(n) => Dead(Recorded(n), procs)
    BY <1>4, <2>1, NamedFacts
  <2>5. Recorded(n) = None => reg[n] = None /\ file[n] = None
    BY <2>2, <2>3
  <2>6. \/ reg'[n] = reg[n] /\ file'[n] = file[n]
        \/ reg'[n] = None /\ file'[n] = None /\ Dead(Recorded(n), procs')
    <3>1. CASE Current(n)
      <4>1. Recorded(n) # None
        BY <3>1 DEF Current
      <4> QED BY <1>2, <1>3, <2>1, <2>2, <2>3, <3>1, <4>1
    <3>2. CASE ~Current(n)
      BY <1>2, <1>3, <2>4, <2>5, <3>2
    <3> QED BY <3>1, <3>2
  <2>7. ForgetsRecords
    BY <1>1, <2>6 DEF ForgetsRecords
  <2>8. \A m \in vms : Recorded(m)' = Recorded(m)
    <3>1. \A m \in vms : m \in Nodes \ {n}
      BY <1>0, <1>5 DEF RunInv, LostTyped, Nodes
    <3> QED BY <1>1, <3>1 DEF Recorded
  <2> QED BY <1>0, <2>7, <2>8 DEF ForgetsVms, RunInv, LostTyped
<1>6. CASE n \in Dyn
  <2>1. Current(n) <=> Recorded(n) # None /\ n \in vms
    BY <1>6 DEF Current, IsAlive
  <2>2. Dead(Recorded(n), procs)
    <3>1. Recorded(n) # None => Recorded(n).pid = 0
      BY <1>0, <1>6 DEF Recorded, RunInv, DynPidless, NoPid
    <3>2. 0 \notin Pids
      BY NoneFacts
    <3> QED BY <3>1, <3>2 DEF Dead, Names
  <2>3. \/ reg'[n] = reg[n] /\ file'[n] = file[n]
        \/ reg'[n] = None /\ file'[n] = None /\ Dead(Recorded(n), procs')
        \/ reg[n] = None /\ reg'[n] = file[n] /\ file'[n] = file[n]
    BY <1>2, <1>3, <2>2 DEF Recorded
  <2>4. ForgetsRecords
    BY <1>1, <1>6, <2>3 DEF ForgetsRecords
  <2>5. \A m \in vms : Recorded(m) # None => Recorded(m)' # None
    <3>1. \A m \in vms : m \in Nodes
      BY <1>0 DEF RunInv, LostTyped, Nodes
    <3>2. n \in vms /\ Recorded(n) # None => reg'[n] # None
      BY <1>2, <2>1
    <3> QED BY <1>1, <3>1, <3>2 DEF Recorded
  <2> QED BY <1>0, <2>4, <2>5 DEF ForgetsVms, RunInv, LostTyped
<1> QED BY <1>5, <1>6

\* A teardown ends the workload along with its record, or gives the VM up.
LEMMA TornDownForgets ==
  ASSUME KnownInv, NEW n \in Nodes, up, Current(n), TornDown(n, Recorded(n))
  PROVE  ForgetsRecords /\ ForgetsVms /\ \A x \in Pids : procs'[x] \in {procs[x], None}
<1>0. /\ Supervised /\ RunInv
      /\ \A x \in Pids : procs[x] # None => procs[x].n \in Nodes \ Dyn
  BY KnownTypes
<1>1. /\ reg'[n] = None /\ file'[n] = None
      /\ \A m \in Nodes \ {n} : reg'[m] = reg[m] /\ file'[m] = file[m]
      /\ \A x \in Pids : procs'[x] \in {procs[x], None}
      /\ n \notin Dyn => \A x \in Pids : Recorded(n).pid = x => procs'[x] = None
  BY <1>0, TornDownFacts
<1>2. Dead(Recorded(n), procs')
  <2>1. CASE n \in Dyn
    <3>1. Recorded(n) # None => Recorded(n).pid = 0
      BY <1>0, <2>1 DEF Recorded, RunInv, DynPidless, NoPid
    <3>2. 0 \notin Pids
      BY NoneFacts
    <3> QED BY <3>1, <3>2 DEF Dead, Names
  <2>2. CASE n \notin Dyn
    BY <1>1, <2>2 DEF Dead, Names
  <2> QED BY <2>1, <2>2
<1>3. ForgetsRecords
  BY <1>1, <1>2 DEF ForgetsRecords
<1>4. lost \in [procs : SUBSET Nat, vms : SUBSET Nodes] /\ vms \subseteq Dyn
  BY <1>0 DEF RunInv, LostTyped
<1>5. \/ n \notin Dyn /\ vms' = vms /\ lost' = lost
      \/ vms' = vms \ {n} /\ lost' = lost
      \/ vms' = vms /\ lost' = [lost EXCEPT !.vms = @ \cup {n}]
  BY DEF TornDown
<1>6. \A m \in vms \ {n} : Recorded(m)' = Recorded(m)
  <2>1. \A m \in vms \ {n} : m \in Nodes \ {n}
    BY <1>4 DEF Nodes
  <2> QED BY <1>1, <2>1 DEF Recorded
<1>7. /\ lost' \in [procs : SUBSET Nat, vms : SUBSET Nodes] /\ lost'.procs = lost.procs
      /\ lost.vms \subseteq lost'.vms /\ (lost' # lost => n \in lost'.vms)
  BY <1>4, <1>5
<1>8. vms' \subseteq vms /\ (n \in vms' => n \in lost'.vms)
  BY <1>4, <1>5
<1> QED BY <1>1, <1>3, <1>6, <1>7, <1>8 DEF ForgetsVms

\* The steps that forget.
LEMMA ForgettingSteps ==
  ASSUME KnownInv, OneInv',
         \/ \E n \in Nodes : LookUp(n) \/ StopNode(n) \/ DeleteNode(n) \/ CreateNode(n) \/ Age(n)
         \/ \E t \in Starters : \/ \E n \in Nodes : StartCheck(t, n)
                                \/ LaunchFails(t) \/ Register(t) \/ RegisterFails(t)
         \/ (\E x \in Pids : Exits(x)) \/ HypervisorExits
         \/ BeatBegin \/ BeatProbe \/ \E e \in beat.todo : BeatNext(e)
  PROVE  RunInv'
<1>0. /\ Typed /\ RunInv /\ ThreadsOwn /\ ThreadsOK /\ Supervised
      /\ \A t \in Starters : thr[t].at \in Held => thr[t].rec \in Record
  BY KnownTypes
<1>1. lost \in [procs : SUBSET Nat, vms : SUBSET Nodes] /\ vms \subseteq Dyn
  BY <1>0 DEF RunInv, LostTyped
<1>2. UNCHANGED <<reg, file>> => ForgetsRecords
  BY DEF ForgetsRecords
<1>3. UNCHANGED <<reg, file, vms, lost>> => ForgetsVms
  BY <1>1 DEF ForgetsVms, Recorded
<1>4. UNCHANGED thr => ForgetsStarts
  BY DEF ForgetsStarts
<1>5. UNCHANGED procs => \A x \in Pids : procs'[x] \in {procs[x], None}
  OBVIOUS
<1>6. ASSUME NEW n \in Nodes, LookUp(n) \/ StopNode(n) \/ DeleteNode(n) \/ CreateNode(n) \/ Age(n) PROVE RunInv'
  <2>1. UNCHANGED <<launches, up, thr>>
    BY <1>6 DEF LookUp, StopNode, DeleteNode, CreateNode, Age, backend, world
  <2>2. CASE up /\ Current(n) /\ TornDown(n, Recorded(n))
    BY <1>4, <2>1, <2>2, TornDownForgets, ForgetKeeps
  <2>3. CASE up /\ reg' = RegAfterLookup(n) /\ file' = FileAfterLookup(n) /\ UNCHANGED <<procs, vms, lost>>
    BY <1>4, <1>5, <2>1, <2>3, LookupForgets, ForgetKeeps
  <2>4. CASE UNCHANGED <<reg, file, vms, lost, procs>>
    BY <1>2, <1>3, <1>4, <1>5, <2>1, <2>4, ForgetKeeps
  <2> QED BY <1>6, <2>2, <2>3, <2>4 DEF LookUp, StopNode, DeleteNode, CreateNode, Age, backend, world
<1>7. ASSUME NEW t \in Starters, NEW n \in Nodes, StartCheck(t, n) PROVE RunInv'
  <2>1. /\ up /\ UNCHANGED <<launches, up, procs, vms, lost>> /\ thr[t] = Idle
        /\ reg' = RegAfterLookup(n) /\ file' = FileAfterLookup(n)
        /\ thr' = thr \/ thr' = [thr EXCEPT ![t] = [at |-> "launch", n |-> n, rec |-> None]]
    BY <1>7 DEF StartCheck
  <2>2. ForgetsStarts
    BY <1>0, <2>1, NoRecord DEF ForgetsStarts, Typed, Busy
  <2> QED BY <1>5, <2>1, <2>2, LookupForgets, ForgetKeeps
<1>8. ASSUME NEW t \in Starters, LaunchFails(t) PROVE RunInv'
  <2>1. /\ UNCHANGED <<launches, up, procs, vms, lost, reg, file>> /\ thr[t].at = "launch"
        /\ thr' = [thr EXCEPT ![t] = Idle]
    BY <1>8 DEF LaunchFails
  <2>2. ForgetsStarts
    BY <1>0, <2>1, NoRecord DEF ForgetsStarts, Typed, Busy
  <2> QED BY <1>2, <1>3, <1>5, <2>1, <2>2, ForgetKeeps
<1>9. ASSUME NEW t \in Starters, Register(t) PROVE RunInv'
  <2>1. /\ UNCHANGED <<launches, up, procs, vms, lost, reg, file>> /\ thr[t].at = "spawned"
        /\ thr' = [thr EXCEPT ![t].at = "commit"]
    BY <1>9 DEF Register
  <2>2. thr'[t].at = "commit" /\ thr'[t].n = thr[t].n /\ thr'[t].rec = thr[t].rec
        /\ \A u \in Starters \ {t} : thr'[u] = thr[u]
    BY <1>0, <2>1, Advanced DEF Held
  <2>3. ForgetsStarts
    BY <2>1, <2>2 DEF ForgetsStarts
  <2> QED BY <1>2, <1>3, <1>5, <2>1, <2>3, ForgetKeeps
<1>10. ASSUME NEW t \in Starters, RegisterFails(t) PROVE RunInv'
  <2> DEFINE r == thr[t].rec
             n == thr[t].n
  <2>1. /\ UNCHANGED <<launches, up, lost, reg, file>> /\ thr[t].at = "spawned"
        /\ thr' = [thr EXCEPT ![t] = Idle] /\ vms' = vms \ {n}
        /\ procs' = (IF Proc(r) # None THEN KillPid(r.pid) ELSE procs)
    BY <1>10 DEF RegisterFails
  <2>2. r.pid # 0 /\ procs[r.pid] # None => procs[r.pid].born = r.born
    BY <1>0, <2>1 DEF ThreadsOwn, Busy
  <2>3. r.pid \in Pids \cup {0} /\ 0 \notin Pids
    BY <1>0, <2>1, NoneFacts DEF Held
  <2> HIDE DEF r, n
  <2>4. (\A x \in Pids : procs'[x] \in {procs[x], None}) /\ \A x \in Pids : procs'[x] # None => r.pid # x
    <3>1. CASE r.pid = 0 \/ procs[r.pid] = None
      BY <2>1, <2>3, <3>1 DEF Proc
    <3>2. CASE r.pid # 0 /\ procs[r.pid] # None
      <4>1. procs' = [procs EXCEPT ![r.pid] = None]
        BY <2>1, <2>2, <3>2 DEF Proc, KillPid, Killed
      <4> QED BY <1>0, <2>3, <4>1 DEF Typed
    <3> QED BY <3>1, <3>2
  <2>5. thr'[t] = Idle /\ \A u \in Starters \ {t} : thr'[u] = thr[u]
    BY <1>0, <2>1 DEF Typed
  <2>6. ForgetsStarts
    BY <2>1, <2>4, <2>5, NoRecord DEF ForgetsStarts, r, n
  <2>7. ForgetsVms
    <3>1. UNCHANGED <<reg, file>> /\ lost' = lost /\ vms' \subseteq vms
      BY <2>1
    <3> QED BY <1>1, <3>1 DEF ForgetsVms, Recorded
  <2> QED BY <1>2, <2>1, <2>4, <2>6, <2>7, ForgetKeeps
<1>11. ASSUME NEW x \in Pids, Exits(x) PROVE RunInv'
  <2>1. UNCHANGED <<launches, up, lost, reg, file, vms, thr>> /\ procs' = [procs EXCEPT ![x] = None]
    BY <1>11 DEF Exits, Killed, backend
  <2>2. \A y \in Pids : procs'[y] \in {procs[y], None}
    BY <1>0, <2>1 DEF Typed
  <2> QED BY <1>2, <1>3, <1>4, <2>1, <2>2, ForgetKeeps
<1>12. CASE HypervisorExits
  <2>1. UNCHANGED <<launches, up, reg, file, thr, procs>> /\ vms' = {} /\ lost' = [lost EXCEPT !.vms = {}]
    BY <1>12 DEF HypervisorExits, backend
  <2>2. ForgetsVms
    BY <1>1, <2>1 DEF ForgetsVms
  <2> QED BY <1>2, <1>4, <1>5, <2>1, <2>2, ForgetKeeps
<1>13. CASE BeatBegin \/ BeatProbe \/ \E e \in beat.todo : BeatNext(e)
  <2>1. UNCHANGED <<launches, up, reg, file, thr, procs, vms, lost>>
    BY <1>13 DEF BeatBegin, BeatProbe, BeatNext, world
  <2> QED BY <1>2, <1>3, <1>4, <1>5, <2>1, ForgetKeeps
<1> QED BY <1>6, <1>7, <1>8, <1>9, <1>10, <1>11, <1>12, <1>13

\* The registry learns of the process that the start has spawned; nothing of
\* the node was known before.
LEMMA CommitKnown ==
  ASSUME KnownInv, OneInv', NEW t \in Starters, Commit(t)
  PROVE  RunInv'
<1> DEFINE r == thr[t].rec
           n == thr[t].n
<1>0. /\ Supervised /\ Typed /\ RunInv /\ ThreadsOwn /\ Alone /\ Launching
      /\ UNCHANGED <<procs, vms, lost, up, file, launches>> /\ thr[t].at = "commit"
      /\ thr' = [thr EXCEPT ![t].at = "persist"] /\ reg' = [reg EXCEPT ![n] = r]
      /\ \A x \in Pids : procs[x] # None => procs[x].n \in Nodes \ Dyn
  BY KnownTypes DEF Commit
<1>1. /\ thr'[t].at = "persist" /\ thr'[t].n = n /\ thr'[t].rec = r
      /\ \A u \in Starters \ {t} : thr'[u] = thr[u]
      /\ n \in Nodes /\ r \in Record /\ up
  BY <1>0, Advanced DEF Held
<1>2. r # None /\ r.pid \in Pids \cup {0} /\ 0 \notin Pids
  BY <1>1, NoneFacts
<1>3. r.pid # 0 /\ procs[r.pid] # None => procs[r.pid].n = n /\ procs[r.pid].born = r.born
  BY <1>0 DEF ThreadsOwn, Busy
<1>4. reg[n] = None /\ file[n] = None
  BY <1>0 DEF Launching, Starts
<1>5. reg'[n] = r /\ \A m \in Nodes \ {n} : reg'[m] = reg[m]
  BY <1>0, <1>1 DEF Typed
<1>6. \A u \in Starters \ {t} : thr[u].at # "idle" => thr[u].n # n
  BY <1>0 DEF Alone
<1>7. n \in Dyn => NoPid(r)
  BY <1>0 DEF RunInv, DynPidless
<1> HIDE DEF n, r
<1>8. LostTyped' /\ BornOnce'
  BY <1>0 DEF RunInv, LostTyped, BornOnce
<1>9. DynPidless'
  <2>1. \A m \in Dyn : NoPid(reg'[m]) /\ NoPid(file'[m])
    BY <1>0, <1>5, <1>7 DEF RunInv, DynPidless, Nodes
  <2>2. \A u \in Starters : thr'[u].n \in Dyn => NoPid(thr'[u].rec)
    BY <1>0, <1>1, <1>7 DEF RunInv, DynPidless
  <2> QED BY <2>1, <2>2 DEF DynPidless
<1>10. FilesDead'
  BY <1>0, <1>2, <1>5 DEF RunInv, FilesDead, Dead, Names
<1>11. Persisting'
  <2> SUFFICES ASSUME NEW u \in Starters, thr'[u].at = "persist"
               PROVE  /\ file'[thr'[u].n] = None
                      /\ reg'[thr'[u].n] \in {thr'[u].rec, None}
                      /\ reg'[thr'[u].n] = None => Dead(thr'[u].rec, procs')
    BY DEF Persisting
  <2>1. CASE u = t
    BY <1>0, <1>1, <1>2, <1>4, <1>5, <2>1
  <2>2. CASE u # t
    <3>1. thr'[u] = thr[u] /\ thr[u].n \in Nodes \ {n}
      BY <1>1, <1>6, <2>2, KnownTypes
    <3> QED BY <1>0, <1>5, <3>1 DEF RunInv, Persisting
  <2> QED BY <2>1, <2>2
<1>12. QemuAlone'
  <2>1. \A u \in Starters : /\ thr'[u].n = thr[u].n /\ thr'[u].rec = thr[u].rec
                            /\ thr'[u].at \in Held => thr[u].at \in Held
    BY <1>0, <1>1 DEF Held, n, r
  <2> QED BY <1>0, <2>1 DEF RunInv, QemuAlone
<1>13. LostOrFiled'
  BY <1>0, <1>1 DEF LostOrFiled
<1>14. KnownRunning'
  <2>1. ASSUME NEW x \in Pids, procs'[x] # None
        PROVE  KnownProc(x)' \/ Starting(x)' \/ procs'[x].born \in lost'.procs
    <3>1. CASE KnownProc(x)
      <4>1. procs[x].n # n
        BY <1>4, <3>1 DEF KnownProc, Recorded
      <4>2. Recorded(procs[x].n)' = Recorded(procs[x].n)
        BY <1>0, <1>5, <2>1, <4>1 DEF Recorded
      <4> QED BY <1>0, <3>1, <4>2 DEF KnownProc
    <3>2. CASE Starting(x)
      <4>1. PICK u \in Starters : thr[u].at \in {"spawned", "commit"} /\ thr[u].rec.pid = x
        BY <3>2 DEF Starting
      <4>2. CASE u = t
        <5>1. procs[x].n = n /\ procs[x].born = r.born /\ r.pid = x
          BY <1>0, <1>2, <1>3, <2>1, <4>1, <4>2 DEF r
        <5>2. reg'[procs'[x].n] = r /\ r # None /\ procs'[x].born = r.born
          BY <1>0, <1>2, <1>5, <5>1
        <5> QED BY <5>1, <5>2 DEF KnownProc, Recorded
      <4>3. CASE u # t
        BY <1>1, <4>1, <4>3 DEF Starting
      <4> QED BY <4>2, <4>3
    <3> QED BY <1>0, <2>1, <3>1, <3>2, <1>1 DEF RunInv, KnownRunning
  <2>2. ASSUME NEW m \in vms' PROVE Recorded(m)' # None \/ InFlight(m)' \/ m \in lost'.vms
    <3>0. m \in vms /\ m \in Nodes
      BY <1>0 DEF RunInv, LostTyped, Nodes
    <3>1. CASE m = n
      BY <1>2, <1>5, <3>1 DEF Recorded
    <3>2. CASE m # n
      <4>1. Recorded(m)' = Recorded(m)
        BY <1>0, <1>5, <3>0, <3>2 DEF Recorded
      <4>2. InFlight(m) => InFlight(m)'
        BY <1>1, <3>2 DEF InFlight, n
      <4> QED BY <1>0, <1>1, <3>0, <4>1, <4>2 DEF RunInv, KnownRunning
    <3> QED BY <3>1, <3>2
  <2> QED BY <2>1, <2>2 DEF KnownRunning
<1> QED BY <1>8, <1>9, <1>10, <1>11, <1>12, <1>13, <1>14 DEF RunInv

\* The state file learns of it too, or of a process that was stopped
\* meanwhile.
LEMMA PersistKnown ==
  ASSUME KnownInv, OneInv', NEW t \in Starters, Persist(t)
  PROVE  RunInv'
<1> DEFINE r == thr[t].rec
           n == thr[t].n
<1>0. /\ Supervised /\ Typed /\ RunInv /\ Alone
      /\ UNCHANGED <<procs, vms, lost, up, reg, launches>> /\ thr[t].at = "persist"
      /\ thr' = [thr EXCEPT ![t] = Idle] /\ file' = [file EXCEPT ![n] = r]
      /\ \A x \in Pids : procs[x] # None => procs[x].n \in Nodes \ Dyn
      /\ n \in Nodes /\ r \in Record /\ up /\ r # None
  BY KnownTypes DEF Persist, Held
<1>1. thr'[t] = Idle /\ Idle.at = "idle" /\ Idle.rec = None /\ \A u \in Starters \ {t} : thr'[u] = thr[u]
  BY <1>0, NoRecord DEF Typed
<1>2. file[n] = None /\ reg[n] \in {r, None} /\ (reg[n] = None => Dead(r, procs))
  BY <1>0 DEF RunInv, Persisting
<1>3. file'[n] = r /\ \A m \in Nodes \ {n} : file'[m] = file[m]
  BY <1>0 DEF Typed
<1>4. \A u \in Starters \ {t} : thr[u].at # "idle" => thr[u].n # n
  BY <1>0 DEF Alone
<1>5. n \in Dyn => NoPid(r)
  BY <1>0 DEF RunInv, DynPidless
<1>6. \A x \in Pids : procs[x] # None /\ procs[x].n \in Qemu /\ procs[x].n = n => Names(r, x, procs)
  BY <1>0 DEF RunInv, QemuAlone, Held
<1> HIDE DEF n, r
<1>7. LostTyped' /\ BornOnce'
  BY <1>0 DEF RunInv, LostTyped, BornOnce
<1>8. DynPidless'
  <2>1. \A m \in Dyn : NoPid(reg'[m]) /\ NoPid(file'[m])
    BY <1>0, <1>3, <1>5 DEF RunInv, DynPidless, Nodes
  <2>2. \A u \in Starters : thr'[u].n \in Dyn => NoPid(thr'[u].rec)
    BY <1>0, <1>1 DEF RunInv, DynPidless, NoPid
  <2> QED BY <2>1, <2>2 DEF DynPidless
<1>9. FilesDead'
  BY <1>0, <1>2, <1>3 DEF RunInv, FilesDead
<1>10. Persisting'
  <2> SUFFICES ASSUME NEW u \in Starters, thr'[u].at = "persist"
               PROVE  /\ file'[thr'[u].n] = None
                      /\ reg'[thr'[u].n] \in {thr'[u].rec, None}
                      /\ reg'[thr'[u].n] = None => Dead(thr'[u].rec, procs')
    BY DEF Persisting
  <2>1. thr'[u] = thr[u] /\ thr[u].n \in Nodes \ {n}
    BY <1>1, <1>4, KnownTypes
  <2> QED BY <1>0, <1>3, <2>1 DEF RunInv, Persisting
<1>11. QemuAlone'
  <2> SUFFICES ASSUME NEW x \in Pids, procs[x] # None, procs[x].n \in Qemu
               PROVE  /\ \A y \in Pids : procs[y] # None /\ procs[y].n = procs[x].n => y = x
                      /\ file'[procs[x].n] = None \/ Names(file'[procs[x].n], x, procs)
                      /\ \A u \in Starters : thr'[u].at \in Held /\ thr'[u].n = procs[x].n
                                               => Names(thr'[u].rec, x, procs)
    BY <1>0 DEF QemuAlone
  <2>1. /\ \A y \in Pids : procs[y] # None /\ procs[y].n = procs[x].n => y = x
        /\ file[procs[x].n] = None \/ Names(file[procs[x].n], x, procs)
        /\ \A u \in Starters : thr[u].at \in Held /\ thr[u].n = procs[x].n => Names(thr[u].rec, x, procs)
    BY <1>0 DEF RunInv, QemuAlone
  <2>2. file'[procs[x].n] = None \/ Names(file'[procs[x].n], x, procs)
    BY <1>0, <1>3, <1>6, <2>1
  <2>3. \A u \in Starters : thr'[u].at \in Held => thr'[u] = thr[u]
    BY <1>1 DEF Held
  <2> QED BY <2>1, <2>2, <2>3
<1>12. LostOrFiled'
  BY <1>0 DEF LostOrFiled
<1>13. KnownRunning'
  <2>1. \A m \in Nodes : Recorded(m) # None => Recorded(m)' = Recorded(m)
    BY <1>0, <1>2, <1>3 DEF Recorded
  <2>2. \A x : Starting(x) => Starting(x)'
    <3>1. \A u \in Starters : thr[u].at \in {"spawned", "commit"} => thr'[u] = thr[u]
      BY <1>0, <1>1
    <3> QED BY <3>1 DEF Starting
  <2>3. \A m : InFlight(m) => InFlight(m)'
    <3>1. \A u \in Starters : thr[u].at \in {"spawned", "commit"} => thr'[u] = thr[u]
      BY <1>0, <1>1
    <3> QED BY <3>1 DEF InFlight
  <2>4. \A x \in Pids : procs[x] # None /\ KnownProc(x) => KnownProc(x)'
    BY <1>0, <2>1 DEF KnownProc
  <2>5. \A m \in vms : m \in Nodes
    BY <1>0 DEF RunInv, LostTyped, Nodes
  <2> QED BY <1>0, <2>1, <2>2, <2>3, <2>4, <2>5 DEF RunInv, KnownRunning
<1> QED BY <1>7, <1>8, <1>9, <1>10, <1>11, <1>12, <1>13 DEF RunInv

\* A workload is spawned: the first of its node if it is a QEMU node.
LEMMA LaunchKnown ==
  ASSUME KnownInv, OneInv', NEW t \in Starters, Launch(t)
  PROVE  RunInv'
<1> DEFINE n == thr[t].n
           born == launches + 1
<1>0. /\ Supervised /\ Typed /\ RunInv /\ Alone /\ Launching /\ launches \in Nat
      /\ UNCHANGED <<lost, up, reg, file>> /\ thr[t].at = "launch" /\ ~Refused(n)
      /\ n \in Nodes /\ up
      /\ \A x \in Pids : procs[x] # None => procs[x].n \in Nodes \ Dyn /\ procs[x].born \in Nat
                                            /\ procs[x].born <= launches
  BY KnownTypes DEF Launch
<1>1. PICK x \in Pids \cup {0} :
        /\ thr' = [thr EXCEPT ![t] = [at |-> "spawned", n |-> n, rec |-> [pid |-> x, born |-> born]]]
        /\ \/ x = 0 /\ n \in Dyn /\ procs' = procs /\ vms' = vms \cup {n}
           \/ /\ x # 0 /\ x \in Pids /\ n \notin Dyn /\ procs[x] = None /\ vms' = vms
              /\ procs' = [procs EXCEPT ![x] = [n |-> n, born |-> born]]
  <2>1. CASE n \in Dyn
    BY <2>1 DEF Launch
  <2>2. CASE n \notin Dyn
    <3>1. PICK x \in Pids :
             /\ procs[x] = None /\ vms' = vms
             /\ procs' = [procs EXCEPT ![x] = [n |-> n, born |-> born]]
             /\ thr' = [thr EXCEPT ![t] = [at |-> "spawned", n |-> n, rec |-> [pid |-> x, born |-> born]]]
      BY <2>2 DEF Launch
    <3>2. x # 0
      BY NoneFacts
    <3> QED BY <2>2, <3>1, <3>2
  <2> QED BY <2>1, <2>2
<1> DEFINE r == [pid |-> x, born |-> born]
           h == [at |-> "spawned", n |-> n, rec |-> r]
           w == [n |-> n, born |-> born]
<1>2. r.pid = x /\ r.born = born /\ w.n = n /\ w.born = born /\ h.at = "spawned" /\ h.n = n /\ h.rec = r
  OBVIOUS
<1>3. thr'[t] = h /\ \A u \in Starters \ {t} : thr'[u] = thr[u]
  BY <1>0, <1>1 DEF Typed
<1>4. \/ x = 0 /\ n \in Dyn /\ procs' = procs /\ vms' = vms \cup {n}
      \/ /\ x \in Pids /\ n \notin Dyn /\ procs[x] = None /\ vms' = vms /\ procs'[x] = w
         /\ \A y \in Pids \ {x} : procs'[y] = procs[y]
  BY <1>0, <1>1 DEF Typed
<1>5. w # None /\ r # None /\ r \in Record
  <2>1. launches \in 0..MaxLaunch /\ launches < MaxLaunch
    BY <1>0 DEF Typed, Launch
  <2>2. born \in 0..MaxLaunch
    BY <2>1, NoneFacts
  <2>3. w \in Process /\ r \in Record
    BY <1>0, <2>2 DEF Process, Record
  <2> QED BY <2>3, NoneFacts
<1>6. 0 \notin Pids
  BY NoneFacts
<1>7. \A q, y : y \in Pids /\ procs[y] # None /\ procs'[y] = procs[y] /\ Names(q, y, procs) => Names(q, y, procs')
  BY DEF Names
<1>8. reg[n] = None /\ file[n] = None
  BY <1>0 DEF Launching, Starts
<1>9. \A u \in Starters \ {t} : thr[u].at # "idle" => thr[u].n # n
  BY <1>0 DEF Alone
<1>10. n \in Qemu => \A y \in Pids : procs[y] # None => procs[y].n # n
  BY <1>0 DEF Refused
<1>11. thr[t].at = "launch"
  BY <1>0
<1> HIDE DEF r, h, w, n, born
<1>12. born = launches + 1
  BY DEF born
<1>13. \A y \in Pids : /\ procs'[y] \in {procs[y], None} \/ procs'[y].born = launches + 1
                       /\ procs[y] # None => procs'[y] = procs[y]
                       /\ procs'[y] # None => procs[y] = procs'[y] \/ (y = x /\ procs'[y] = w)
  BY <1>2, <1>4, <1>12
<1>14. ASSUME NEW q, q \in Record \cup {None}, q # None => q.born <= launches, Dead(q, procs)
       PROVE  Dead(q, procs')
  BY <1>0, <1>13, <1>14, DeadStays
<1>15. LostTyped'
  BY <1>0, <1>4 DEF RunInv, LostTyped
<1>16. DynPidless'
  <2>1. n \in Dyn => NoPid(r)
    BY <1>2, <1>4 DEF NoPid
  <2> QED BY <1>0, <1>2, <1>3, <2>1 DEF RunInv, DynPidless
<1>17. FilesDead'
  <2> SUFFICES ASSUME NEW m \in Nodes, reg[m] = None PROVE Dead(file[m], procs')
    BY <1>0 DEF FilesDead
  <2>1. Dead(file[m], procs) /\ file[m] \in Record \cup {None} /\ (file[m] # None => file[m].born <= launches)
    BY <1>0, KnownTypes DEF RunInv, FilesDead
  <2> QED BY <1>14, <2>1
<1>18. Persisting'
  <2> SUFFICES ASSUME NEW u \in Starters, thr'[u].at = "persist"
               PROVE  /\ file'[thr'[u].n] = None
                      /\ reg'[thr'[u].n] \in {thr'[u].rec, None}
                      /\ reg'[thr'[u].n] = None => Dead(thr'[u].rec, procs')
    BY DEF Persisting
  <2>1. thr'[u] = thr[u]
    BY <1>2, <1>3
  <2>2. thr[u].rec \in Record /\ thr[u].rec.born <= launches
    BY <2>1, KnownTypes DEF Held
  <2>3. /\ file[thr[u].n] = None
        /\ reg[thr[u].n] \in {thr[u].rec, None}
        /\ reg[thr[u].n] = None => Dead(thr[u].rec, procs)
    BY <1>0, <2>1 DEF RunInv, Persisting
  <2> QED BY <1>0, <1>14, <2>1, <2>2, <2>3
<1>19. QemuAlone'
  <2> SUFFICES ASSUME NEW y \in Pids, procs'[y] # None, procs'[y].n \in Qemu
               PROVE  /\ \A z \in Pids : procs'[z] # None /\ procs'[z].n = procs'[y].n => z = y
                      /\ file[procs'[y].n] = None \/ Names(file[procs'[y].n], y, procs')
                      /\ \A u \in Starters : thr'[u].at \in Held /\ thr'[u].n = procs'[y].n
                                               => Names(thr'[u].rec, y, procs')
    BY <1>0 DEF QemuAlone
  <2>1. CASE y = x /\ procs'[y] = w
    <3>1. n \in Qemu /\ procs'[y].n = n /\ procs'[y].born = born
      BY <1>2, <2>1
    <3>2. \A z \in Pids : procs'[z] # None /\ procs'[z].n = n => z = y
      BY <1>10, <1>13, <2>1, <3>1
    <3>3. \A u \in Starters : thr'[u].at \in Held /\ thr'[u].n = n => u = t
      BY <1>3, <1>9 DEF Held
    <3>4. Names(r, y, procs')
      BY <1>2, <1>5, <2>1, <3>1 DEF Names
    <3> QED BY <1>2, <1>3, <1>8, <3>1, <3>2, <3>3, <3>4
  <2>2. CASE procs'[y] = procs[y]
    <3>1. procs[y] # None /\ procs[y].n \in Qemu /\ procs[y].n # n
      BY <1>10, <2>2
    <3>2. /\ \A z \in Pids : procs[z] # None /\ procs[z].n = procs[y].n => z = y
          /\ file[procs[y].n] = None \/ Names(file[procs[y].n], y, procs)
          /\ \A u \in Starters : thr[u].at \in Held /\ thr[u].n = procs[y].n => Names(thr[u].rec, y, procs)
      BY <1>0, <3>1 DEF RunInv, QemuAlone
    <3>3. \A z \in Pids : procs'[z] # None /\ procs'[z].n = procs[y].n => z = y
      BY <1>2, <1>13, <3>1, <3>2
    <3>4. \A u \in Starters : thr'[u].at \in Held /\ thr'[u].n = procs[y].n => Names(thr[u].rec, y, procs) /\ thr'[u] = thr[u]
      BY <1>2, <1>3, <3>1, <3>2
    <3> QED BY <1>7, <2>2, <3>1, <3>2, <3>3, <3>4
  <2> QED BY <1>13, <2>1, <2>2
<1>20. BornOnce'
  <2>1. \A y \in Pids : procs[y] # None => procs[y].born # born
    BY <1>0, <1>12
  <2> QED BY <1>0, <1>2, <1>13, <2>1 DEF RunInv, BornOnce
<1>21. LostOrFiled'
  BY <1>0 DEF LostOrFiled
<1>22. KnownRunning'
  <2>1. ASSUME NEW y \in Pids, procs'[y] # None
        PROVE  KnownProc(y)' \/ Starting(y)' \/ procs'[y].born \in lost'.procs
    <3>1. CASE y = x /\ procs'[y] = w
      <4>1. thr'[t].at = "spawned" /\ thr'[t].rec.pid = y
        BY <1>2, <1>3, <3>1
      <4> QED BY <4>1 DEF Starting
    <3>2. CASE procs'[y] = procs[y]
      <4>1. KnownProc(y) => KnownProc(y)'
        BY <1>0, <3>2 DEF KnownProc, Recorded
      <4>2. Starting(y) => Starting(y)'
        <5>1. \A u \in Starters : thr[u].at \in {"spawned", "commit"} => thr'[u] = thr[u]
          BY <1>3, <1>11
        <5> QED BY <5>1 DEF Starting
      <4> QED BY <1>0, <2>1, <3>2, <4>1, <4>2 DEF RunInv, KnownRunning
    <3> QED BY <1>13, <2>1, <3>1, <3>2
  <2>2. ASSUME NEW m \in vms' PROVE Recorded(m)' # None \/ InFlight(m)' \/ m \in lost'.vms
    <3>1. CASE m = n
      BY <1>2, <1>3, <3>1 DEF InFlight
    <3>2. CASE m # n
      <4>1. m \in vms
        BY <1>4, <2>2, <3>2
      <4>2. InFlight(m) => InFlight(m)'
        <5>1. \A u \in Starters : thr[u].at \in {"spawned", "commit"} => thr'[u] = thr[u]
          BY <1>3, <1>11
        <5> QED BY <5>1 DEF InFlight
      <4>3. Recorded(m)' = Recorded(m)
        BY <1>0 DEF Recorded
      <4> QED BY <1>0, <4>1, <4>2, <4>3 DEF RunInv, KnownRunning
    <3> QED BY <3>1, <3>2
  <2> QED BY <2>1, <2>2 DEF KnownRunning
<1> QED BY <1>15, <1>16, <1>17, <1>18, <1>19, <1>20, <1>21, <1>22 DEF RunInv

\* The heartbeat drops the record of a node: it has seen it dead, and the
\* registry has learnt of no other since.
LEMMA BeatApplyKnown ==
  ASSUME KnownInv, OneInv', BeatApply
  PROVE  RunInv'
<1> DEFINE n == beat.n
<1>0. /\ Typed /\ RunInv /\ BeatInv /\ up /\ beat.at = "answered" /\ n \in Nodes
      /\ UNCHANGED <<procs, vms, lost, up, launches, thr>>
  BY KnownTypes DEF BeatApply, BeatInv, BeatTyped, Asking
<1>1. lost \in [procs : SUBSET Nat, vms : SUBSET Nodes] /\ vms \subseteq Dyn
  BY <1>0 DEF RunInv, LostTyped
<1>2. ForgetsStarts /\ \A x \in Pids : procs'[x] \in {procs[x], None}
  BY <1>0 DEF ForgetsStarts
<1>3. CASE BeatActs /\ ~beat.alive
  <2>1. status[n] # 0
    BY <1>3 DEF BeatActs, Verdict
  <2>2. n \notin Dyn
    BY <1>0, <2>1 DEF BeatInv, DynUnseen
  <2>3. reg[n] \in {beat.rec, None} /\ Dead(beat.rec, procs) /\ beat.rec # None
    BY <1>0, <1>3, <2>2, NoneFacts DEF BeatInv, BeatSound, BeatTyped, Asking, Seen
  <2>4. Dead(Recorded(n), procs)
    BY <1>0, <2>3 DEF Recorded, RunInv, FilesDead
  <2>5. reg' = [reg EXCEPT ![n] = None] /\ file' = [file EXCEPT ![n] = None]
    BY <1>3 DEF BeatApply
  <2>6. reg'[n] = None /\ file'[n] = None /\ \A m \in Nodes \ {n} : reg'[m] = reg[m] /\ file'[m] = file[m]
    BY <1>0, <2>5 DEF Typed
  <2>7. ForgetsRecords
    BY <1>0, <2>4, <2>6 DEF ForgetsRecords
  <2>8. \A m \in vms : Recorded(m)' = Recorded(m)
    <3>1. \A m \in vms : m \in Nodes \ {n}
      BY <1>1, <2>2 DEF Nodes
    <3> QED BY <2>6, <3>1 DEF Recorded
  <2>9. ForgetsVms
    BY <1>0, <1>1, <2>8 DEF ForgetsVms
  <2> QED BY <1>0, <1>2, <2>7, <2>9, ForgetKeeps
<1>4. CASE ~(BeatActs /\ ~beat.alive)
  <2>1. UNCHANGED <<reg, file>>
    BY <1>4 DEF BeatApply
  <2>2. ForgetsRecords /\ ForgetsVms
    BY <1>0, <1>1, <2>1 DEF ForgetsRecords, ForgetsVms, Recorded
  <2> QED BY <1>0, <1>2, <2>2, ForgetKeeps
<1> QED BY <1>3, <1>4

\* A crash: what no state file knows is lost.
LEMMA CrashKnown ==
  ASSUME KnownInv, OneInv', Crash
  PROVE  RunInv'
<1> DEFINE Gone == {procs[x].born : x \in {y \in Pids : procs[y] # None /\
                      ~(file[procs[y].n] = [pid |-> y, born |-> procs[y].born])}}
<1>0. /\ Typed /\ RunInv /\ up' = FALSE /\ vms' = {} /\ UNCHANGED <<procs, file>>
      /\ \A n \in Nodes : reg'[n] = None
      /\ \A t \in Starters : thr'[t].at = "idle" /\ thr'[t].rec = None
      /\ lost' = [procs |-> lost.procs \cup Gone, vms |-> {}]
      /\ \A x \in Pids : procs[x] # None => procs[x].n \in Nodes \ Dyn /\ procs[x].born \in Nat
  BY KnownTypes, NoRecord DEF Crash
<1>1. /\ \A x \in Pids : procs[x] # None => procs[x].born \in Gone \/ Names(file[procs[x].n], x, procs)
      /\ Gone \subseteq Nat
  <2>1. ASSUME NEW x \in Pids, procs[x] # None, procs[x].born \notin Gone
        PROVE  Names(file[procs[x].n], x, procs)
    <3>1. file[procs[x].n] = [pid |-> x, born |-> procs[x].born]
      BY <2>1
    <3>2. file[procs[x].n] # None
      BY <1>0, <2>1, <3>1, KnownTypes, NoneFacts DEF Record
    <3> QED BY <3>1, <3>2 DEF Names
  <2> QED BY <1>0, <2>1
<1> HIDE DEF Gone
<1>2. LostTyped' /\ lost'.procs = lost.procs \cup Gone
  BY <1>0, <1>1 DEF RunInv, LostTyped
<1>3. DynPidless'
  BY <1>0 DEF RunInv, DynPidless, NoPid, Nodes
<1>4. FilesDead' /\ KnownRunning'
  BY <1>0 DEF FilesDead, KnownRunning
<1>5. Persisting'
  BY <1>0 DEF Persisting
<1>6. QemuAlone'
  BY <1>0 DEF RunInv, QemuAlone, Held
<1>7. BornOnce'
  BY <1>0 DEF RunInv, BornOnce
<1>8. LostOrFiled'
  BY <1>0, <1>1, <1>2 DEF LostOrFiled
<1> QED BY <1>2, <1>3, <1>4, <1>5, <1>6, <1>7, <1>8 DEF RunInv

\* The backend comes back and adopts the QEMU processes that have no record.
LEMMA StartupKnown ==
  ASSUME KnownInv, OneInv', Startup
  PROVE  RunInv'
<1> DEFINE f == Adopted(file)
           Kept == {procs[x].born : x \in Adoptable}
<1>0. /\ Supervised /\ Typed /\ RunInv /\ ~up /\ up' /\ UNCHANGED <<procs, thr, vms>>
      /\ reg' = f /\ file' = f /\ lost' = [lost EXCEPT !.procs = @ \ Kept]
      /\ \A t \in Starters : thr[t].at = "idle" /\ thr[t].rec = None
      /\ \A x \in Pids : procs[x] # None => procs[x] \in Process /\ procs[x].n \in Nodes \ Dyn
      /\ \A n \in Nodes : file[n] \in Record \cup {None}
  <2>1. \A t \in Starters : thr[t].at = "idle" /\ thr[t].rec = None
    BY KnownTypes, NoRecord DEF Startup, ThreadsOK
  <2> QED BY <2>1, KnownTypes DEF Startup
<1>1. \A x \in Orphans : x \in Pids /\ procs[x] # None /\ procs[x].n \in Qemu /\ file[procs[x].n] = None
  BY DEF Orphans
<1>2. ASSUME NEW n \in Nodes
      PROVE  \/ f[n] = file[n] /\ ~\E x \in Orphans : procs[x].n = n
             \/ \E x \in Orphans : /\ Names(f[n], x, procs) /\ procs[x].n = n /\ file[n] = None
  <2>1. CASE f[n] = file[n] /\ ~\E x \in Orphans : procs[x].n = n
    BY <2>1
  <2>2. CASE \E x \in Orphans : /\ f[n] = [pid |-> x, born |-> procs[x].born] /\ procs[x].n = n
                                /\ file[n] = None
    <3>1. PICK x \in Orphans : /\ f[n] = [pid |-> x, born |-> procs[x].born] /\ procs[x].n = n
                               /\ file[n] = None
      BY <2>2
    <3>2. procs[x] \in Process /\ x \in Pids
      BY <1>0, <1>1
    <3>3. f[n] \in Record /\ f[n].pid = x /\ f[n].born = procs[x].born
      BY <3>1, <3>2 DEF Record, Process
    <3> HIDE DEF f
    <3>4. Names(f[n], x, procs)
      BY <3>3, NoneFacts DEF Names
    <3> QED BY <3>1, <3>4
  <2> QED BY <1>0, <2>1, <2>2, AdoptedFacts
<1>3. lost \in [procs : SUBSET Nat, vms : SUBSET Nodes] /\ vms = {}
      /\ \A x \in Pids : procs[x] # None => Names(file[procs[x].n], x, procs) \/ procs[x].born \in lost.procs
  BY <1>0 DEF RunInv, LostTyped, LostOrFiled
<1>4. ASSUME NEW x \in Adoptable
      PROVE  /\ x \in Pids /\ procs[x] # None /\ procs[x].n \in Qemu
             /\ file[procs[x].n] = None => x \in Orphans
  BY DEF Adoptable, Orphans
<1>5. ASSUME NEW x \in Pids, procs[x] # None, procs[x].born \notin lost.procs \ Kept
      PROVE  Names(f[procs[x].n], x, procs)
  <2> DEFINE n == procs[x].n
  <2>0. n \in Nodes
    BY <1>0, <1>5
  <2>1. CASE Names(file[n], x, procs)
    <3>1. file[n] # None
      BY <2>1 DEF Names
    <3> QED BY <1>2, <2>0, <2>1, <3>1
  <2>2. CASE procs[x].born \in Kept /\ ~Names(file[n], x, procs)
    <3>1. PICK y \in Adoptable : procs[y].born = procs[x].born
      BY <2>2
    <3>2. x \in Adoptable
      BY <1>0, <1>4, <1>5, <3>1 DEF RunInv, BornOnce
    <3>3. n \in Qemu /\ file[n] = None
      BY <1>0, <1>4, <1>5, <2>2, <3>2 DEF RunInv, QemuAlone
    <3>4. x \in Orphans
      BY <1>4, <3>2, <3>3
    <3>5. PICK z \in Orphans : Names(f[n], z, procs) /\ procs[z].n = n
      BY <1>2, <2>0, <3>4
    <3>6. z = x
      BY <1>0, <1>1, <1>5, <3>3, <3>5 DEF RunInv, QemuAlone
    <3> QED BY <3>5, <3>6
  <2> QED BY <1>3, <1>5, <2>1, <2>2
<1> HIDE DEF f, Kept
<1>6. LostTyped' /\ lost'.procs = lost.procs \ Kept
  BY <1>0, <1>3 DEF LostTyped
<1>7. DynPidless'
  <2>1. \A n \in Dyn : f[n] = file[n]
    <3>1. \A n \in Dyn : n \in Nodes /\ n \notin Qemu
      BY SupervisorConstants DEF Nodes
    <3> QED BY <1>1, <1>2, <3>1
  <2> QED BY <1>0, <2>1 DEF RunInv, DynPidless
<1>8. FilesDead'
  BY <1>0, NamedFacts DEF FilesDead, Dead, Names
<1>9. Persisting'
  BY <1>0 DEF Persisting
<1>10. QemuAlone'
  <2> SUFFICES ASSUME NEW x \in Pids, procs[x] # None, procs[x].n \in Qemu
               PROVE  /\ \A y \in Pids : procs[y] # None /\ procs[y].n = procs[x].n => y = x
                      /\ f[procs[x].n] = None \/ Names(f[procs[x].n], x, procs)
    BY <1>0 DEF QemuAlone, Held
  <2>1. /\ \A y \in Pids : procs[y] # None /\ procs[y].n = procs[x].n => y = x
        /\ file[procs[x].n] = None \/ Names(file[procs[x].n], x, procs)
    BY <1>0 DEF RunInv, QemuAlone
  <2> QED BY <1>0, <1>1, <1>2, <2>1
<1>11. BornOnce'
  BY <1>0 DEF RunInv, BornOnce
<1>12. LostOrFiled'
  BY <1>0 DEF LostOrFiled
<1>13. KnownRunning'
  <2>1. ASSUME NEW x \in Pids, procs'[x] # None
        PROVE  KnownProc(x)' \/ procs'[x].born \in lost'.procs
    <3>1. CASE procs[x].born \in lost.procs \ Kept
      BY <1>0, <1>6, <3>1
    <3>2. CASE procs[x].born \notin lost.procs \ Kept
      BY <1>0, <1>5, <2>1, <3>2 DEF KnownProc, Recorded, Names
    <3> QED BY <3>1, <3>2
  <2>2. vms' = {}
    BY <1>0, <1>3
  <2> QED BY <2>1, <2>2 DEF KnownRunning
<1> QED BY <1>6, <1>7, <1>8, <1>9, <1>10, <1>11, <1>12, <1>13 DEF RunInv

\* Steps beside the heartbeat: what it has read stays in the registry, is
\* dropped there, or is replaced by a start that makes the node young.
LEMMA BeatFrame ==
  ASSUME KnownInv, UNCHANGED <<beat, up>>, launches' \in Nat, launches <= launches',
         status' \in [Nodes -> {0, 2}], \A n \in Dyn : status'[n] = 0,
         \A n \in Nodes \ Dyn : reg'[n] \in {reg[n], None} \/ (n \in young' /\ ~Probing(n)),
         \A e \in beat.todo : e[1] \in young => e[1] \in young' \/ reg'[e[1]] = e[2],
         \A x \in Pids : procs'[x] \in {procs[x], None} \/ procs'[x].born = launches + 1
  PROVE  BeatInv'
<1>0. BeatTyped /\ DynUnseen /\ BeatSound /\ launches \in Nat
  BY KnownTypes DEF BeatInv
<1>1. \A r : Seen(r) => Seen(r)'
  <2> SUFFICES ASSUME NEW r, Seen(r) PROVE r.born <= launches'
    BY DEF Seen
  <2>1. r.born \in 0..MaxLaunch /\ MaxLaunch \in Nat /\ r.born <= launches
    BY NoneFacts DEF Seen
  <2> QED BY <1>0, <2>1
<1>2. BeatTyped'
  BY <1>0, <1>1 DEF BeatTyped, Asking
<1>3. DynUnseen'
  BY <1>0 DEF DynUnseen, Asking
<1>4. BeatSound'
  <2>1. ASSUME NEW e \in beat.todo, e[1] \notin Dyn PROVE e[1] \in young' \/ reg'[e[1]] \in {e[2], None}
    <3>1. e[1] \in Nodes
      BY <1>0 DEF BeatTyped
    <3> QED BY <1>0, <2>1, <3>1 DEF BeatSound
  <2>2. ASSUME Asking, beat.n \notin Dyn PROVE reg'[beat.n] \in {beat.rec, None}
    <3>1. beat.n \in Nodes /\ Probing(beat.n)
      BY <1>0, <2>2 DEF BeatTyped, Asking, Probing
    <3> QED BY <1>0, <2>2, <3>1 DEF BeatSound
  <2>3. ASSUME beat.at = "answered", ~beat.alive PROVE Dead(beat.rec, procs')
    <3>1. Seen(beat.rec) /\ Dead(beat.rec, procs)
      BY <1>0, <2>3 DEF BeatTyped, BeatSound, Asking
    <3> QED BY <1>0, <3>1, DeadStays DEF Seen
  <2> QED BY <2>1, <2>2, <2>3 DEF BeatSound, Asking
<1> QED BY <1>2, <1>3, <1>4 DEF BeatInv

\* The steps beside the heartbeat.
LEMMA BesideBeat ==
  ASSUME PromptBeat, KnownInv, OneInv',
         \/ \E n \in Nodes : LookUp(n) \/ StopNode(n) \/ DeleteNode(n) \/ CreateNode(n) \/ Age(n)
         \/ \E t \in Starters : \/ \E n \in Nodes : StartCheck(t, n)
                                \/ Launch(t) \/ LaunchFails(t) \/ Register(t) \/ RegisterFails(t)
                                \/ Commit(t) \/ Persist(t)
         \/ (\E x \in Pids : Exits(x)) \/ HypervisorExits
  PROVE  BeatInv'
<1>0. /\ Typed /\ Supervised /\ BeatTyped /\ DynUnseen /\ BeatSound /\ launches \in Nat
      /\ status \in [Nodes -> {0, 2}] /\ \A n \in Dyn : status[n] = 0
  BY KnownTypes DEF BeatInv, BeatTyped, DynUnseen
<1>1. ASSUME UNCHANGED <<beat, up, launches, status>>, young \subseteq young',
             \A n \in Nodes \ Dyn : reg'[n] \in {reg[n], None},
             \A x \in Pids : procs'[x] \in {procs[x], None}
      PROVE  BeatInv'
  BY <1>0, <1>1, BeatFrame
<1>2. ForgetsRecords => \A n \in Nodes \ Dyn : reg'[n] \in {reg[n], None}
  BY DEF ForgetsRecords
<1>3. ASSUME NEW n \in Nodes, LookUp(n) \/ StopNode(n) \/ CreateNode(n) PROVE BeatInv'
  <2>1. UNCHANGED <<beat, up, launches, status>> /\ young \subseteq young'
    BY <1>3 DEF LookUp, StopNode, CreateNode, backend
  <2>2. CASE LookUp(n)
    <3>1. ForgetsRecords /\ procs' = procs
      BY <2>2, LookupForgets DEF LookUp
    <3> QED BY <1>1, <1>2, <2>1, <3>1
  <2>3. CASE StopNode(n)
    <3>1. ForgetsRecords /\ \A x \in Pids : procs'[x] \in {procs[x], None}
      BY <2>3, TornDownForgets DEF StopNode
    <3> QED BY <1>1, <1>2, <2>1, <3>1
  <2>4. CASE CreateNode(n)
    BY <1>1, <2>1, <2>4 DEF CreateNode, backend
  <2> QED BY <1>3, <2>2, <2>3, <2>4
<1>4. ASSUME NEW n \in Nodes, DeleteNode(n) PROVE BeatInv'
  <2>1. /\ UNCHANGED <<beat, up, launches>> /\ young \subseteq young' /\ up
        /\ status' = [status EXCEPT ![n] = 0]
    BY <1>4 DEF DeleteNode
  <2>2. status' \in [Nodes -> {0, 2}] /\ \A m \in Dyn : status'[m] = 0
    BY <1>0, <2>1 DEF Nodes
  <2>3. ForgetsRecords /\ \A x \in Pids : procs'[x] \in {procs[x], None}
    <3>1. CASE Current(n) /\ TornDown(n, Recorded(n))
      BY <2>1, <3>1, TornDownForgets
    <3>2. CASE reg' = RegAfterLookup(n) /\ file' = FileAfterLookup(n) /\ UNCHANGED <<procs, vms, lost>>
      BY <2>1, <3>2, LookupForgets
    <3> QED BY <1>4, <3>1, <3>2 DEF DeleteNode
  <2> QED BY <1>0, <1>2, <2>1, <2>2, <2>3, BeatFrame
<1>5. ASSUME NEW n \in Nodes, Age(n) PROVE BeatInv'
  <2>1. /\ UNCHANGED <<beat, up, launches, status, reg, procs>> /\ young' = young \ {n}
        /\ \A e \in beat.todo : e[1] = n => e[2] = reg[n]
    BY <1>5 DEF Age, world
  <2> QED BY <1>0, <2>1, BeatFrame
<1>6. ASSUME NEW t \in Starters, NEW n \in Nodes, StartCheck(t, n) PROVE BeatInv'
  <2>1. UNCHANGED <<beat, up, launches, status, young, procs>> /\ ForgetsRecords
    BY <1>6, LookupForgets DEF StartCheck
  <2> QED BY <1>1, <1>2, <2>1
<1>7. ASSUME NEW t \in Starters, LaunchFails(t) \/ Register(t) \/ Persist(t) PROVE BeatInv'
  <2>1. UNCHANGED <<beat, up, launches, status, young, procs, reg>>
    BY <1>7 DEF LaunchFails, Register, Persist
  <2> QED BY <1>1, <2>1
<1>8. ASSUME NEW t \in Starters, Launch(t) PROVE BeatInv'
  <2>1. UNCHANGED <<beat, up, status, young, reg>> /\ launches' = launches + 1
    BY <1>8 DEF Launch
  <2>2. \A y \in Pids : procs'[y] \in {procs[y], None} \/ procs'[y].born = launches + 1
    <3>1. CASE procs' = procs
      BY <3>1
    <3>2. CASE \E x \in Pids : procs' = [procs EXCEPT ![x] = [n |-> thr[t].n, born |-> launches + 1]]
      BY <1>0, <3>2 DEF Typed
    <3> QED BY <1>8, <3>1, <3>2 DEF Launch
  <2> QED BY <1>0, <2>1, <2>2, BeatFrame
<1>9. ASSUME NEW t \in Starters, RegisterFails(t) PROVE BeatInv'
  <2>1. /\ UNCHANGED <<beat, up, launches, status, young, reg>>
        /\ procs' = procs \/ procs' = [procs EXCEPT ![thr[t].rec.pid] = None]
    BY <1>9 DEF RegisterFails, KillPid, Killed
  <2>2. \A x \in Pids : procs'[x] \in {procs[x], None}
    BY <1>0, <2>1 DEF Typed
  <2> QED BY <1>1, <2>1, <2>2
<1>10. ASSUME NEW t \in Starters, Commit(t) PROVE BeatInv'
  <2>1. /\ UNCHANGED <<beat, up, launches, status, procs>> /\ young' = young \cup {thr[t].n}
        /\ ~Probing(thr[t].n) /\ reg' = [reg EXCEPT ![thr[t].n] = thr[t].rec]
    BY <1>10 DEF Commit
  <2>2. \A m \in Nodes : reg'[m] = reg[m] \/ m = thr[t].n
    BY <1>0, <2>1 DEF Typed
  <2> QED BY <1>0, <2>1, <2>2, BeatFrame
<1>11. ASSUME NEW x \in Pids, Exits(x) PROVE BeatInv'
  <2>1. UNCHANGED <<beat, up, launches, status, young, reg>> /\ procs' = [procs EXCEPT ![x] = None]
    BY <1>11 DEF Exits, Killed, backend
  <2>2. \A y \in Pids : procs'[y] \in {procs[y], None}
    BY <1>0, <2>1 DEF Typed
  <2> QED BY <1>1, <2>1, <2>2
<1>12. CASE HypervisorExits
  <2>1. UNCHANGED <<beat, up, launches, status, young, reg, procs>>
    BY <1>12 DEF HypervisorExits, backend
  <2> QED BY <1>1, <2>1
<1> QED BY <1>3, <1>4, <1>5, <1>6, <1>7, <1>8, <1>9, <1>10, <1>11, <1>12

\* The heartbeat before a probe.
LEMMA ScanFacts ==
  ASSUME NEW S \in SUBSET (Nodes \X Record)
  PROVE  LET q == [Quiet EXCEPT !.at = "scan", !.todo = S] IN
         /\ q.at = "scan" /\ q.todo = S /\ Quiet.at = "sleep" /\ Quiet.todo = {}
         /\ q \in [at : {"sleep", "scan", "asked", "answered"}, todo : SUBSET (Nodes \X Record),
                   n : Nodes \cup {None}, rec : Record \cup {None}, alive : BOOLEAN]
         /\ Quiet \in [at : {"sleep", "scan", "asked", "answered"}, todo : SUBSET (Nodes \X Record),
                       n : Nodes \cup {None}, rec : Record \cup {None}, alive : BOOLEAN]
BY DEF Quiet

\* The heartbeat goes on to the rest of its snapshot: no probe is under way.
LEMMA RestSound ==
  ASSUME KnownInv, UNCHANGED <<up, launches, young, procs>>, up, status' \in [Nodes -> {0, 2}],
         \A n \in Dyn : status'[n] = 0,
         \A n \in Nodes \ Dyn : reg'[n] \in {reg[n], None},
         NEW e, beat' = Rest(e)
  PROVE  BeatInv'
<1>0. /\ BeatTyped /\ DynUnseen /\ BeatSound /\ beat.todo \in SUBSET (Nodes \X Record)
  BY KnownTypes DEF BeatInv, BeatTyped
<1>1. /\ beat'.todo \subseteq beat.todo /\ beat'.at \in {"sleep", "scan"}
      /\ beat' \in [at : {"sleep", "scan", "asked", "answered"}, todo : SUBSET (Nodes \X Record),
                    n : Nodes \cup {None}, rec : Record \cup {None}, alive : BOOLEAN]
  <2>1. beat.todo \ {e} \in SUBSET (Nodes \X Record)
    BY <1>0
  <2>2. CASE beat.todo = {e}
    BY <2>1, <2>2, ScanFacts DEF Rest
  <2>3. CASE beat.todo # {e}
    BY <2>1, <2>3, ScanFacts DEF Rest
  <2> QED BY <2>2, <2>3
<1>2. BeatTyped'
  BY <1>0, <1>1 DEF BeatTyped, Asking, Seen
<1>3. DynUnseen'
  BY <1>0, <1>1 DEF DynUnseen, Asking
<1>4. BeatSound'
  <2>1. ASSUME NEW d \in beat.todo, d[1] \notin Dyn PROVE d[1] \in young' \/ reg'[d[1]] \in {d[2], None}
    <3>1. d[1] \in Nodes
      BY <1>0
    <3> QED BY <1>0, <2>1, <3>1 DEF BeatSound
  <2> QED BY <1>1, <2>1 DEF BeatSound, Asking
<1> QED BY <1>2, <1>3, <1>4 DEF BeatInv

\* The heartbeat's own steps.
LEMMA BeatSteps ==
  ASSUME KnownInv, OneInv', Beat
  PROVE  BeatInv'
<1>0. /\ Typed /\ RunInv /\ BeatTyped /\ DynUnseen /\ BeatSound /\ beat.todo \in SUBSET (Nodes \X Record)
      /\ beat \in [at : {"sleep", "scan", "asked", "answered"}, todo : SUBSET (Nodes \X Record),
                   n : Nodes \cup {None}, rec : Record \cup {None}, alive : BOOLEAN]
      /\ status \in [Nodes -> {0, 2}] /\ \A n \in Dyn : status[n] = 0
  BY KnownTypes DEF BeatInv, BeatTyped, DynUnseen
<1>1. CASE BeatBegin
  <2> DEFINE S == {<<n, reg[n]>> : n \in {m \in Nodes : reg[m] # None}}
  <2>1. /\ up /\ UNCHANGED <<up, launches, young, reg, procs, status>>
        /\ beat' = [Quiet EXCEPT !.at = "scan", !.todo = S]
    BY <1>1 DEF BeatBegin, world
  <2>2. \A e \in S : e[1] \in Nodes /\ reg[e[1]] = e[2] /\ e[2] \in Record /\ e[2].born <= launches
                     /\ (e[1] \in Dyn => e[2].pid = 0)
    BY <1>0, KnownTypes DEF RunInv, DynPidless, NoPid
  <2>3. S \in SUBSET (Nodes \X Record)
    BY <1>0 DEF Typed
  <2>4. beat'.at = "scan" /\ beat'.todo = S
        /\ beat' \in [at : {"sleep", "scan", "asked", "answered"}, todo : SUBSET (Nodes \X Record),
                      n : Nodes \cup {None}, rec : Record \cup {None}, alive : BOOLEAN]
    BY <2>1, <2>3, ScanFacts
  <2> HIDE DEF S
  <2>5. BeatTyped'
    BY <1>0, <2>1, <2>2, <2>4 DEF BeatTyped, Asking, Seen
  <2>6. DynUnseen'
    BY <1>0, <2>1, <2>2, <2>4 DEF DynUnseen, Asking
  <2>7. BeatSound'
    BY <2>1, <2>2, <2>4 DEF BeatSound, Asking
  <2> QED BY <2>5, <2>6, <2>7 DEF BeatInv
<1>2. ASSUME NEW e \in beat.todo, BeatNext(e) PROVE BeatInv'
  <2>1. up /\ beat.at = "scan" /\ UNCHANGED <<up, launches, young, reg, procs, status>>
    BY <1>2 DEF BeatNext, world
  <2>2. CASE e[1] \in young
    <3>1. beat' = Rest(e)
      BY <1>2, <2>2 DEF BeatNext
    <3> QED BY <1>0, <2>1, <3>1, RestSound
  <2>3. CASE e[1] \notin young
    <3>1. beat' = [beat EXCEPT !.at = "asked", !.n = e[1], !.rec = e[2]]
      BY <1>2, <2>3 DEF BeatNext
    <3>2. e[1] \in Nodes /\ e[2] \in Record /\ Seen(e[2])
      BY <1>0 DEF BeatTyped
    <3>3. beat'.at = "asked" /\ beat'.n = e[1] /\ beat'.rec = e[2] /\ beat'.todo = beat.todo
          /\ beat' \in [at : {"sleep", "scan", "asked", "answered"}, todo : SUBSET (Nodes \X Record),
                        n : Nodes \cup {None}, rec : Record \cup {None}, alive : BOOLEAN]
      BY <1>0, <3>1, <3>2
    <3>4. BeatTyped'
      BY <1>0, <2>1, <3>2, <3>3 DEF BeatTyped, Asking, Seen
    <3>5. DynUnseen'
      BY <1>0, <2>1, <3>3 DEF DynUnseen, Asking
    <3>6. BeatSound'
      BY <1>0, <2>1, <2>3, <3>3 DEF BeatSound, Asking
    <3> QED BY <3>4, <3>5, <3>6 DEF BeatInv
  <2> QED BY <2>2, <2>3
<1>3. CASE BeatProbe
  <2>1. /\ up /\ beat.at = "asked" /\ UNCHANGED <<up, launches, young, reg, procs, status>>
        /\ beat' = [beat EXCEPT !.at = "answered", !.alive = CheckAlive(beat.rec)]
    BY <1>3 DEF BeatProbe, world
  <2>2. CheckAlive(beat.rec) \in BOOLEAN
    BY DEF CheckAlive
  <2>3. beat'.at = "answered" /\ beat'.n = beat.n /\ beat'.rec = beat.rec /\ beat'.todo = beat.todo
        /\ beat'.alive = CheckAlive(beat.rec)
        /\ beat' \in [at : {"sleep", "scan", "asked", "answered"}, todo : SUBSET (Nodes \X Record),
                      n : Nodes \cup {None}, rec : Record \cup {None}, alive : BOOLEAN]
    BY <1>0, <2>1, <2>2
  <2>4. beat.rec \in Record /\ (~CheckAlive(beat.rec) => Dead(beat.rec, procs))
    <3>1. beat.rec \in Record
      BY <1>0, <2>1 DEF BeatTyped, Asking, Seen
    <3> QED BY <1>0, <3>1, NamedFacts DEF CheckAlive
  <2>5. beat.n \in Dyn => ~CheckAlive(beat.rec)
    BY <1>0, <2>1 DEF DynUnseen, Asking, CheckAlive, Proc
  <2>6. BeatTyped'
    BY <1>0, <2>1, <2>3 DEF BeatTyped, Asking, Seen
  <2>7. DynUnseen'
    BY <1>0, <2>1, <2>3, <2>5 DEF DynUnseen, Asking
  <2>8. BeatSound'
    BY <1>0, <2>1, <2>3, <2>4 DEF BeatSound, Asking
  <2> QED BY <2>6, <2>7, <2>8 DEF BeatInv
<1>4. CASE BeatApply
  <2>1. /\ up /\ beat.at = "answered" /\ UNCHANGED <<up, launches, young, procs>>
        /\ beat' = Rest(<<beat.n, beat.rec>>) /\ beat.n \in Nodes
        /\ status' = (IF BeatActs THEN [status EXCEPT ![beat.n] = Verdict] ELSE status)
        /\ reg' = [reg EXCEPT ![beat.n] = None] \/ reg' = reg
    BY <1>0, <1>4 DEF BeatApply, BeatTyped, Asking
  <2>2. Verdict \in {0, 2} /\ (beat.n \in Dyn => Verdict = 0)
    BY <1>0, <2>1 DEF Verdict, DynUnseen
  <2>3. status' \in [Nodes -> {0, 2}] /\ \A n \in Dyn : status'[n] = 0
    BY <1>0, <2>1, <2>2 DEF Nodes
  <2>4. \A n \in Nodes \ Dyn : reg'[n] \in {reg[n], None}
    BY <1>0, <2>1 DEF Typed
  <2> QED BY <2>1, <2>3, <2>4, RestSound
<1> QED BY <1>1, <1>2, <1>3, <1>4 DEF Beat

\* A backend that is down has no heartbeat.
LEMMA RestartBeat ==
  ASSUME KnownInv, OneInv', Crash \/ Startup
  PROVE  BeatInv'
<1>1. BeatTyped /\ DynUnseen
  BY KnownTypes DEF BeatInv
<1>2. /\ beat'.todo = {} /\ beat'.at \in {"sleep", "scan"}
      /\ beat' \in [at : {"sleep", "scan", "asked", "answered"}, todo : SUBSET (Nodes \X Record),
                    n : Nodes \cup {None}, rec : Record \cup {None}, alive : BOOLEAN]
  <2>1. CASE Crash
    BY <2>1, ScanFacts DEF Crash
  <2>2. CASE Startup
    BY <1>1, <2>2 DEF Startup, BeatTyped, Asking
  <2> QED BY <2>1, <2>2
<1>3. UNCHANGED status
  BY DEF Crash, Startup
<1> QED BY <1>1, <1>2, <1>3 DEF BeatInv, BeatTyped, DynUnseen, BeatSound, Asking

\* One step per action.
LEMMA KnownKeeps == OneStart /\ PromptBeat /\ KnownInv /\ [Next]_vars => KnownInv'
<1> SUFFICES ASSUME OneStart, PromptBeat, KnownInv, [Next]_vars PROVE KnownInv'
  OBVIOUS
<1>0. OneInv'
  BY OneKeeps DEF KnownInv
<1>1. ASSUME NEW n \in Nodes, LookUp(n) \/ StopNode(n) \/ DeleteNode(n) \/ CreateNode(n) \/ Age(n)
      PROVE  RunInv' /\ BeatInv'
  BY <1>0, <1>1, ForgettingSteps, BesideBeat
<1>2. ASSUME NEW t \in Starters, NEW n \in Nodes, StartCheck(t, n) PROVE RunInv' /\ BeatInv'
  BY <1>0, <1>2, ForgettingSteps, BesideBeat
<1>3. ASSUME NEW t \in Starters, LaunchFails(t) \/ Register(t) \/ RegisterFails(t)
      PROVE  RunInv' /\ BeatInv'
  BY <1>0, <1>3, ForgettingSteps, BesideBeat
<1>4. ASSUME NEW t \in Starters, Launch(t) \/ Commit(t) \/ Persist(t) PROVE RunInv' /\ BeatInv'
  BY <1>0, <1>4, LaunchKnown, CommitKnown, PersistKnown, BesideBeat
<1>5. ASSUME Beat PROVE RunInv' /\ BeatInv'
  BY <1>0, <1>5, ForgettingSteps, BeatApplyKnown, BeatSteps DEF Beat
<1>6. ASSUME (\E x \in Pids : Exits(x)) \/ HypervisorExits PROVE RunInv' /\ BeatInv'
  BY <1>0, <1>6, ForgettingSteps, BesideBeat
<1>7. ASSUME Crash \/ Startup PROVE RunInv' /\ BeatInv'
  BY <1>0, <1>7, CrashKnown, StartupKnown, RestartBeat
<1>8. ASSUME UNCHANGED vars PROVE RunInv' /\ BeatInv'
  <2>1. RunInv /\ BeatInv
    BY DEF KnownInv
  <2>2. UNCHANGED <<doc, status, procs, vms, up, reg, file, young, thr, beat, launches, lost>>
    BY <1>8 DEF vars
  <2>3. RunInv'
    BY <2>1, <2>2 DEF RunInv, LostTyped, DynPidless, FilesDead, Persisting, QemuAlone, BornOnce,
                      LostOrFiled, KnownRunning, KnownProc, Starting, InFlight, Recorded
  <2>4. BeatInv'
    BY <2>1, <2>2 DEF BeatInv, BeatTyped, DynUnseen, BeatSound, Asking, Seen
  <2> QED BY <2>3, <2>4
<1>9. RunInv' /\ BeatInv'
  BY <1>1, <1>2, <1>3, <1>4, <1>5, <1>6, <1>7, <1>8 DEF Next
<1> QED BY <1>0, <1>9 DEF KnownInv

\* Nothing runs at first.
LEMMA InitKnown == OneStart /\ Init => KnownInv
<1> SUFFICES ASSUME OneStart, Init PROVE KnownInv
  OBVIOUS
<1>1. /\ \A x \in Pids : procs[x] = None
      /\ \A n \in Nodes : reg[n] = None /\ file[n] = None
      /\ \A t \in Starters : thr[t] = Idle /\ thr[t].at = "idle" /\ thr[t].rec = None
      /\ vms = {} /\ lost = [procs |-> {}, vms |-> {}] /\ up = TRUE /\ beat = Quiet
      /\ status = [n \in Nodes |-> 0]
  BY NoRecord DEF Init
<1>2. OneInv
  BY <1>1, InitSupervised DEF OneInv, Alone, Launching, Starts
<1>3. RunInv
  BY <1>1 DEF RunInv, LostTyped, DynPidless, NoPid, FilesDead, Dead, Names, Persisting, QemuAlone,
              BornOnce, LostOrFiled, KnownRunning, Nodes
<1>4. BeatInv
  BY <1>1, ScanFacts DEF BeatInv, BeatTyped, DynUnseen, BeatSound, Asking, Nodes
<1> QED BY <1>2, <1>3, <1>4 DEF KnownInv

\* While the backend runs, every workload on the host that no crash and no
\* failed teardown has orphaned is named by the record a lookup of its node
\* finds, so that it can be stopped (KnownRunning): neither the reuse of pids,
\* nor a lookup, a teardown or the heartbeat's late verdict drops the record
\* of a live process, and after a restart the state files and the adoption of
\* QEMU processes know again what was not lost.
THEOREM WorkloadsFound ==
  ASSUME OneStart, PromptBeat
  PROVE  Spec => []KnownRunning
<1>1. Init => KnownInv
  BY InitKnown
<1>2. KnownInv /\ [Next]_vars => KnownInv'
  BY KnownKeeps
<1>3. KnownInv => KnownRunning
  BY DEF KnownInv, RunInv
<1> QED BY <1>1, <1>2, <1>3, PTL DEF Spec
==============================================================================
