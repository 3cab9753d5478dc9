------------------------------ MODULE NodeRuntime ------------------------------
(***************************************************************************)
(* Supervision of the nodes that run as host processes: the registry, the  *)
(* state files and pids.json kept by                                       *)
(* backend/app/services/node_runtime_service.py and runtime_pids.py, the   *)
(* start threads, the heartbeat, and a backend that may die and come back  *)
(* while QEMU, IOL and Dynamips workloads keep running                     *)
(* (KillMode=process).                                                     *)
(*                                                                         *)
(* A process is a pid and the moment it was created; the kernel reuses     *)
(* pids.  A Dynamips VM has no process of its own: it lives, under a name  *)
(* derived from the node, in the hypervisor the launcher talks to.  Only   *)
(* the event loop runs handlers and the heartbeat; starts run in worker    *)
(* threads; a liveness probe runs in the executor.                         *)
(***************************************************************************)
EXTENDS Naturals, FiniteSets

CONSTANTS Qemu, Iol, Dyn,  \* node ids, by the "type" of the node
          OwnUuid,         \* QEMU nodes whose document gives a uuid
          Linked,          \* nodes with at least one link
          Starters,        \* start requests served at the same time
          Pids,            \* process ids of the host
          MaxLaunch,       \* bound on launches
          MaxCrash,        \* bound on backend crashes
          OneStart,        \* a node has one start in flight (the browser's)
          PromptBeat,      \* no start overtakes a heartbeat probe
          None

ASSUME SupervisorConstants ==
  /\ Qemu \cap Iol = {} /\ Qemu \cap Dyn = {} /\ Iol \cap Dyn = {}
  /\ OwnUuid \subseteq Qemu /\ Linked \subseteq Qemu \cup Iol \cup Dyn
  /\ Pids \subseteq Nat \ {0} /\ MaxLaunch \in Nat /\ MaxCrash \in Nat
  /\ OneStart \in BOOLEAN /\ PromptBeat \in BOOLEAN

Nodes == Qemu \cup Iol \cup Dyn

VARIABLES
  doc,       \* the nodes of lab.json
  status,    \* their "status": 0 stopped, 2 running
  procs,     \* the host's processes: for each pid None, or [n, born]
  vms,       \* Dynamips VMs of the hypervisor the launcher talks to
  oldVms,    \* Dynamips VMs of hypervisors started by an earlier backend
  up,        \* the backend runs
  reg,       \* _registry: for each node None or a record [pid, born]
  file,      \* the state files under node-runtime/
  pids,      \* pids.json: for each pid None or the node it is registered for
  young,     \* nodes within _TRANSITION_SUPPRESS_S of a start or stop
  thr,       \* the start threads
  beat,      \* the heartbeat cycle
  launches, crashes,  \* counters, bounded
  lost       \* history: [procs, vms], the workloads orphaned by a crash (when they
             \* were created) and by a failed teardown (the nodes)

vars == <<doc, status, procs, vms, oldVms, up, reg, file, pids, young, thr,
          beat, launches, crashes, lost>>
backend == <<up, reg, young, thr, beat>>
world   == <<doc, status, procs, vms, oldVms, file, pids, launches, crashes, lost>>

Record  == [pid : Pids \cup {0}, born : 0..MaxLaunch]
Process == [n : Nodes, born : 0..MaxLaunch]
Idle    == [at |-> "idle", n |-> None, rec |-> None]
Quiet   == [at |-> "sleep", todo |-> {}, n |-> None, rec |-> None, alive |-> FALSE]

ASSUME NoneConstant == None \notin Nodes /\ None \notin Record /\ None \notin Process

Init ==
  /\ doc = Nodes /\ status = [n \in Nodes |-> 0]
  /\ procs = [x \in Pids |-> None] /\ vms = {} /\ oldVms = {}
  /\ up = TRUE
  /\ reg = [n \in Nodes |-> None] /\ file = [n \in Nodes |-> None]
  /\ pids = [x \in Pids |-> None]
  /\ young = {} /\ thr = [t \in Starters |-> Idle] /\ beat = Quiet
  /\ launches = 0 /\ crashes = 0
  /\ lost = [procs |-> {}, vms |-> {}]

-----------------------------------------------------------------------------
(* The registry.                                                           *)

\* (mutant) The creation time is not compared.
ProcByPid(rec) == IF rec.pid = 0 THEN None ELSE procs[rec.pid]

\* The process a record names: its pid, created when the record says.
Proc(rec) == IF rec.pid = 0 \/ procs[rec.pid] = None THEN None
             ELSE IF procs[rec.pid].born = rec.born THEN procs[rec.pid] ELSE None

\* A Dynamips VM is looked up by name in the launcher's hypervisor.
IsAlive(n, rec) == IF n \in Dyn THEN n \in vms ELSE Proc(rec) # None

\* The heartbeat's own check knows pids only.
CheckAlive(rec) == Proc(rec) # None

\* The record of a node, from the registry or else from its state file.
Recorded(n) == IF reg[n] # None THEN reg[n] ELSE file[n]
Current(n)  == Recorded(n) # None /\ IsAlive(n, Recorded(n))

\* What _runtime_record leaves behind: a dead record goes, a file is loaded.
RegAfterLookup(n)  == [reg EXCEPT ![n] = IF Current(n) THEN Recorded(n) ELSE None]
FileAfterLookup(n) == IF Recorded(n) # None /\ ~Current(n)
                      THEN [file EXCEPT ![n] = None] ELSE file

\* A listing, a count, a console or a log request looks a node up.
LookUp(n) ==
  /\ up
  /\ reg' = RegAfterLookup(n) /\ file' = FileAfterLookup(n)
  /\ <<reg, file>>' # <<reg, file>>
  /\ UNCHANGED <<doc, status, procs, vms, oldVms, up, pids, young, thr, beat,
                 launches, crashes, lost>>

-----------------------------------------------------------------------------
(* Starting a node.                                                        *)

\* (mutant) The thread launches whatever the registry says.
StartCheckBlind(t, n) ==
  /\ up /\ thr[t] = Idle /\ n \in doc
  /\ thr' = [thr EXCEPT ![t] = [at |-> "launch", n |-> n, rec |-> None]]
  /\ UNCHANGED <<world, up, reg, young, beat>>

\* The request reads the document; the thread returns at once when the node
\* already runs.
StartCheck(t, n) ==
  /\ up /\ thr[t] = Idle /\ n \in doc
  /\ OneStart => \A u \in Starters : thr[u].n # n
  /\ reg' = RegAfterLookup(n) /\ file' = FileAfterLookup(n)
  /\ thr' = IF Current(n) THEN thr
            ELSE [thr EXCEPT ![t] = [at |-> "launch", n |-> n, rec |-> None]]
  /\ UNCHANGED <<doc, status, procs, vms, oldVms, up, pids, young, beat,
                 launches, crashes, lost>>

\* A start that has spawned n and not committed yet; its dead child keeps the
\* pid until the thread ends.
InFlight(n) == \E t \in Starters : thr[t].n = n /\ thr[t].at \in {"spawned", "commit"}
Starting(x) == \E t \in Starters : thr[t].at \in {"spawned", "commit"} /\ thr[t].rec.pid = x

MutexHeld(n) == n \in Qemu /\ \E t \in Starters : thr[t].at = "spawned" /\ thr[t].n = n

\* QEMU refuses an overlay another process has open, uBridge a TAP in use,
\* and the hypervisor a VM name it already has.
Refused(n) == \/ n \in Qemu \cup (Iol \cap Linked)
                 /\ \E x \in Pids : procs[x] # None /\ procs[x].n = n
              \/ n \in Dyn /\ n \in vms

\* The emulator is spawned; QEMU under the node mutex.
Launch(t) ==
  LET n == thr[t].n  born == launches + 1 IN
  /\ thr[t].at = "launch" /\ ~MutexHeld(n) /\ ~Refused(n) /\ launches < MaxLaunch
  /\ launches' = born
  /\ \/ /\ n \in Dyn
        /\ vms' = vms \cup {n} /\ procs' = procs
        /\ thr' = [thr EXCEPT ![t] = [at |-> "spawned", n |-> n,
                                      rec |-> [pid |-> 0, born |-> born]]]
     \/ /\ n \notin Dyn
        /\ \E x \in Pids :
             /\ procs[x] = None /\ ~Starting(x)
             /\ procs' = [procs EXCEPT ![x] = [n |-> n, born |-> born]]
             /\ thr' = [thr EXCEPT ![t] = [at |-> "spawned", n |-> n,
                                           rec |-> [pid |-> x, born |-> born]]]
        /\ vms' = vms
  /\ UNCHANGED <<doc, status, oldVms, up, reg, file, pids, young, beat,
                 crashes, lost>>

\* No image, no bridge, no licence, a refusal, or the emulator exits at once.
LaunchFails(t) ==
  /\ thr[t].at = "launch" /\ ~MutexHeld(thr[t].n)
  /\ thr' = [thr EXCEPT ![t] = Idle]
  /\ UNCHANGED <<doc, status, procs, vms, oldVms, up, reg, file, pids, young, beat,
                 launches, crashes, lost>>

\* (mutant) The entry of a recycled pid is kept.
RegisterKeeps(t) ==
  LET x == thr[t].rec.pid IN
  /\ thr[t].at = "spawned"
  /\ pids' = IF x = 0 \/ pids[x] # None THEN pids ELSE [pids EXCEPT ![x] = thr[t].n]
  /\ thr' = [thr EXCEPT ![t].at = "commit"]
  /\ UNCHANGED <<doc, status, procs, vms, oldVms, up, reg, file, young, beat,
                 launches, crashes, lost>>

\* The pid is registered for the privileged helper, replacing the entry a
\* former process left; Dynamips gets its console proxy instead.
Register(t) ==
  LET rec == thr[t].rec IN
  /\ thr[t].at = "spawned"
  /\ pids' = IF rec.pid = 0 THEN pids ELSE [pids EXCEPT ![rec.pid] = thr[t].n]
  /\ thr' = [thr EXCEPT ![t].at = "commit"]
  /\ UNCHANGED <<doc, status, procs, vms, oldVms, up, reg, file, young, beat,
                 launches, crashes, lost>>

Killed(x)   == [procs EXCEPT ![x] = None]
KillPid(x)  == IF x = 0 THEN procs ELSE Killed(x)
DropPid(x)  == IF x = 0 THEN pids ELSE [pids EXCEPT ![x] = None]

\* The lock on pids.json times out, or no console proxy: the workload is
\* killed again.  Only the IOL path also drops the entry.
RegisterFails(t) ==
  LET rec == thr[t].rec  n == thr[t].n IN
  /\ thr[t].at = "spawned"
  /\ procs' = IF Proc(rec) # None THEN KillPid(rec.pid) ELSE procs
  /\ vms' = vms \ {n}
  /\ pids' = IF n \in Iol THEN DropPid(rec.pid) ELSE pids
  /\ thr' = [thr EXCEPT ![t] = Idle]
  /\ UNCHANGED <<doc, status, oldVms, up, reg, file, young, beat, launches,
                 crashes, lost>>

Probing(n) == beat.at \in {"asked", "answered"} /\ beat.n = n

\* The registry learns of the node, outside the node mutex ...
Commit(t) ==
  LET n == thr[t].n IN
  /\ thr[t].at = "commit"
  /\ PromptBeat => ~Probing(n)
  /\ young' = young \cup {n}
  /\ reg' = [reg EXCEPT ![n] = thr[t].rec]
  /\ thr' = [thr EXCEPT ![t].at = "persist"]
  /\ UNCHANGED <<doc, status, procs, vms, oldVms, up, file, pids, beat,
                 launches, crashes, lost>>

\* ... and then the state file is replaced.
Persist(t) ==
  /\ thr[t].at = "persist"
  /\ file' = [file EXCEPT ![thr[t].n] = thr[t].rec]
  /\ thr' = [thr EXCEPT ![t] = Idle]
  /\ UNCHANGED <<doc, status, procs, vms, oldVms, up, reg, pids, young, beat,
                 launches, crashes, lost>>

-----------------------------------------------------------------------------
(* Stopping and deleting a node.                                           *)

\* The teardown of a runtime: the pid is signalled by number, the VM by name
\* (the VM stays when the hypervisor does not answer), the record is dropped.
TornDown(n, rec) ==
  /\ \/ /\ n \notin Dyn /\ procs' = KillPid(rec.pid) /\ pids' = DropPid(rec.pid)
        /\ UNCHANGED <<vms, lost>>
     \/ /\ n \in Dyn /\ vms' = vms \ {n} /\ UNCHANGED <<procs, pids, lost>>
     \/ /\ n \in Dyn /\ n \in vms /\ lost' = [lost EXCEPT !.vms = @ \cup {n}] /\ UNCHANGED <<procs, pids, vms>>
  /\ reg' = [reg EXCEPT ![n] = None] /\ file' = [file EXCEPT ![n] = None]

\* GET .../stop and .../wipe.
StopNode(n) ==
  /\ up /\ n \in doc /\ Current(n) /\ ~MutexHeld(n)
  /\ young' = young \cup {n}
  /\ TornDown(n, Recorded(n))
  /\ UNCHANGED <<doc, status, oldVms, up, thr, beat, launches, crashes>>

\* DELETE .../nodes/N: wipe, then the node leaves the document.
DeleteNode(n) ==
  /\ up /\ n \in doc /\ ~MutexHeld(n)
  /\ doc' = doc \ {n} /\ status' = [status EXCEPT ![n] = 0]
  /\ \/ /\ Current(n) /\ young' = young \cup {n} /\ TornDown(n, Recorded(n))
     \/ /\ ~Current(n) /\ reg' = RegAfterLookup(n) /\ file' = FileAfterLookup(n)
        /\ UNCHANGED <<procs, vms, pids, young, lost>>
  /\ UNCHANGED <<oldVms, up, thr, beat, launches, crashes>>

\* The id of the last node is given out again.
CreateNode(n) ==
  /\ up /\ n \notin doc
  /\ doc' = doc \cup {n}
  /\ UNCHANGED <<status, procs, vms, oldVms, file, pids, launches, crashes, lost, backend>>

-----------------------------------------------------------------------------
(* The heartbeat.                                                          *)

BeatBegin ==
  /\ up /\ beat.at = "sleep"
  /\ \E n \in Nodes : reg[n] # None
  /\ beat' = [Quiet EXCEPT !.at = "scan",
                           !.todo = {<<n, reg[n]>> : n \in {m \in Nodes : reg[m] # None}}]
  /\ UNCHANGED <<world, up, reg, young, thr>>

Rest(e) == IF beat.todo = {e} THEN Quiet
           ELSE [Quiet EXCEPT !.at = "scan", !.todo = beat.todo \ {e}]

\* The next runtime of the snapshot is left alone inside the suppression
\* window, else its probe is handed to the executor.
BeatNext(e) ==
  /\ up /\ beat.at = "scan" /\ e \in beat.todo
  /\ beat' = IF e[1] \in young THEN Rest(e)
             ELSE [beat EXCEPT !.at = "asked", !.n = e[1], !.rec = e[2]]
  /\ UNCHANGED <<world, up, reg, young, thr>>

BeatProbe ==
  /\ up /\ beat.at = "asked"
  /\ beat' = [beat EXCEPT !.at = "answered", !.alive = CheckAlive(beat.rec)]
  /\ UNCHANGED <<world, up, reg, young, thr>>

\* (mutant) A verdict is acted on even when lab.json already agrees.
BeatActsAlways == beat.n \in doc

\* The verdict is compared with lab.json; only a verdict that changes the
\* status is acted on.
Verdict == IF beat.alive THEN 2 ELSE 0
BeatActs == beat.n \in doc /\ status[beat.n] # Verdict

BeatApply ==
  /\ up /\ beat.at = "answered"
  /\ status' = IF BeatActs THEN [status EXCEPT ![beat.n] = Verdict] ELSE status
  /\ LET dead == BeatActs /\ ~beat.alive IN
     /\ reg'  = IF dead THEN [reg EXCEPT ![beat.n] = None] ELSE reg
     /\ file' = IF dead THEN [file EXCEPT ![beat.n] = None] ELSE file
  /\ beat' = Rest(<<beat.n, beat.rec>>)
  /\ UNCHANGED <<doc, procs, vms, oldVms, up, pids, young, thr, launches,
                 crashes, lost>>

\* The suppression window of a node closes.
Age(n) ==
  /\ up /\ n \in young
  /\ PromptBeat => \A e \in beat.todo : e[1] = n => e[2] = reg[n]
  /\ young' = young \ {n}
  /\ UNCHANGED <<world, up, reg, thr, beat>>

-----------------------------------------------------------------------------
(* The world around the backend.                                           *)

Exits(x) ==
  /\ procs[x] # None
  /\ procs' = Killed(x)
  /\ UNCHANGED <<doc, status, vms, oldVms, file, pids, launches, crashes, lost, backend>>

HypervisorExits ==
  /\ vms # {} /\ vms' = {} /\ lost' = [lost EXCEPT !.vms = {}]
  /\ UNCHANGED <<doc, status, procs, oldVms, file, pids, launches, crashes, backend>>

\* A workload is known when a lookup of its node finds the record of it.
KnownProc(x) == LET r == Recorded(procs[x].n) IN r # None /\ r.pid = x /\ r.born = procs[x].born

\* The backend dies; its workloads do not.  A hypervisor it started is never
\* contacted again.
Crash ==
  /\ up /\ crashes < MaxCrash
  /\ crashes' = crashes + 1
  /\ up' = FALSE /\ reg' = [n \in Nodes |-> None] /\ young' = {}
  /\ thr' = [t \in Starters |-> Idle] /\ beat' = Quiet
  /\ vms' = {} /\ oldVms' = oldVms \cup vms
  /\ lost' = [procs |-> lost.procs \cup
                {procs[x].born : x \in {y \in Pids : procs[y] # None /\
                   ~(file[procs[y].n] = [pid |-> y, born |-> procs[y].born])}},
              vms |-> {}]
  /\ UNCHANGED <<doc, status, procs, file, pids, launches>>

\* reconcile_orphan_qemu: the QEMU processes whose uuid is <lab>-<node>, for
\* the nodes of the catalogue that have no record.
Orphans == {x \in Pids : /\ procs[x] # None /\ procs[x].n \in (Qemu \ OwnUuid) \cap doc
                         /\ file[procs[x].n] = None}
Adopted(f) == [n \in Nodes |->
                 IF \E x \in Orphans : procs[x].n = n
                 THEN CHOOSE r \in Record : r.pid \in Orphans /\ r.born = procs[r.pid].born
                                            /\ procs[r.pid].n = n
                 ELSE f[n]]

\* What adoption is for: every such process, with a record or without.
Adoptable == {x \in Pids : procs[x] # None /\ procs[x].n \in (Qemu \ OwnUuid) \cap doc}

Startup ==
  /\ ~up /\ up' = TRUE
  /\ reg' = Adopted(file) /\ file' = Adopted(file)
  /\ pids' = [x \in Pids |-> IF x \in Orphans THEN procs[x].n ELSE pids[x]]
  /\ lost' = [lost EXCEPT !.procs = @ \ {procs[x].born : x \in Adoptable}]
  /\ UNCHANGED <<doc, status, procs, vms, oldVms, young, thr, beat, launches,
                 crashes>>

Beat == BeatBegin \/ BeatProbe \/ BeatApply
        \/ \E n \in Nodes : \E e \in beat.todo : e[1] = n /\ BeatNext(e)

Next ==
  \/ \E n \in Nodes : LookUp(n) \/ StopNode(n) \/ DeleteNode(n)
                      \/ CreateNode(n) \/ Age(n)
  \/ \E t \in Starters : \/ \E n \in Nodes : StartCheck(t, n)
                         \/ Launch(t) \/ LaunchFails(t) \/ Register(t) \/ RegisterFails(t)
                         \/ Commit(t) \/ Persist(t)
  \/ Beat
  \/ \E x \in Pids : Exits(x)
  \/ HypervisorExits
  \/ Crash \/ Startup

Spec == Init /\ [][Next]_vars

-----------------------------------------------------------------------------

\* While the backend runs, every workload that was not orphaned is named by
\* the record a lookup of its node finds: it can be stopped.
KnownRunning ==
  up => /\ \A x \in Pids : procs[x] # None =>
             KnownProc(x) \/ Starting(x) \/ procs[x].born \in lost.procs
        /\ \A n \in vms : Recorded(n) # None \/ InFlight(n) \/ n \in lost.vms

\* No handler on the event loop waits for the node mutex of a launch: while
\* a thread launches a QEMU node there is nothing of that node to stop.
LoopNeverWaits ==
  \A t \in Starters : thr[t].at \in {"launch", "spawned"} /\ thr[t].n \in Qemu
                        => ~Current(thr[t].n)

\* Every known process is registered in pids.json for its own node.
KnownAuthorized ==
  up => \A x \in Pids : procs[x] # None /\ KnownProc(x) => pids[x] = procs[x].n

\* A process that goes without exiting by itself takes the record that names
\* it along: nothing kills a node by the record of another one, whose pid the
\* kernel has given out again (_is_runtime_alive compares creation times).
NoStrayKill ==
  [][\A x \in Pids : procs[x] # None /\ procs'[x] = None /\ ~Exits(x) =>
       ~(reg[procs[x].n] # None /\ reg'[procs[x].n] = [pid |-> x, born |-> procs[x].born])]_vars
=============================================================================
