--------------------------- MODULE RuntimeMigration ---------------------------
(***************************************************************************)
(* scripts/migrate_runtime_network.py, the one-shot migration that gives   *)
(* every network record of every lab its bridge name and every QEMU node   *)
(* its machine type, and removes the legacy Docker network of each record. *)
(* A journal in memory undoes the removals when a lab fails; the script    *)
(* may be killed at any point and is then run again.                       *)
(*                                                                         *)
(* A network is a pair <<lab, number>>.  The precondition (no node runs,   *)
(* the backend is stopped) holds while the script runs: nothing else       *)
(* writes the documents.  A dry run changes nothing and is left out.       *)
(***************************************************************************)
EXTENDS Naturals, FiniteSets

CONSTANTS
  Labs, Networks,  \* the lab files, and the networks in them
  Stem,            \* the name of each lab file, without its folder
  Foreign,         \* networks whose bridge exists and is not known as theirs
  MaxFaults,       \* bound on failures and kills
  None

ASSUME MigrationConstants ==
  /\ Networks \subseteq Labs \X Nat /\ IsFiniteSet(Networks)
  /\ DOMAIN Stem = Labs /\ Foreign \subseteq Networks
  /\ MaxFaults \in Nat /\ None \notin Labs

VARIABLES
  stamped,   \* networks with runtime.bridge_name
  pinned,    \* labs whose QEMU nodes all have machine_override
  torn,      \* labs whose file is truncated
  backup,    \* for each lab "none", "new" (made by this run) or "old"
  docker,    \* networks whose legacy Docker network exists
  busy,      \* those with a container on it
  manifest,  \* networks named in a migration-orphans file
  job,       \* the script: [at, left, lab, todo, removed, orphans]
  faults,    \* failures and kills so far
  legacy,    \* history: the Docker networks there were at first
  forgone    \* history: removals the journal was lost for

vars == <<stamped, pinned, torn, backup, docker, busy, manifest, job, faults, legacy, forgone>>
files == <<stamped, pinned, torn, backup>>
host  == <<docker, busy, legacy>>

NetsOf(l) == {n \in Networks : n[1] = l}

NoJob == [at |-> "idle", left |-> {}, lab |-> None, todo |-> {}, removed |-> {}, orphans |-> {}]

\* Labs from before and after the change, with and without Docker networks.
Init ==
  /\ stamped \in SUBSET Networks /\ pinned = {} /\ torn = {}
  /\ backup = [l \in Labs |-> "none"]
  /\ docker \in SUBSET (Networks \ stamped) /\ busy \in SUBSET docker /\ legacy = docker
  /\ Cardinality(busy) <= 1
  /\ manifest = {} /\ job = NoJob /\ faults = 0 /\ forgone = {}

Fault == faults < MaxFaults /\ faults' = faults + 1

-----------------------------------------------------------------------------
(* main: one lab after the other.                                          *)

Begin ==
  /\ job.at = "idle"
  /\ job' = [NoJob EXCEPT !.at = "next", !.left = Labs]
  /\ backup' = [l \in Labs |-> IF backup[l] = "new" THEN "old" ELSE backup[l]]
  /\ UNCHANGED <<stamped, pinned, torn, host, manifest, faults, forgone>>

Finish ==
  /\ job.at = "next" /\ job.left = {}
  /\ job' = NoJob
  /\ UNCHANGED <<files, host, manifest, faults, forgone>>

Skip(l) == [NoJob EXCEPT !.at = "next", !.left = job.left \ {l}]

ToMigrate(l) == NetsOf(l) \ stamped

\* A file that cannot be read is an error, a migrated one a no-op, and the
\* next lab follows.
PassOver(l) ==
  /\ job.at = "next" /\ l \in job.left
  /\ l \in torn \/ (ToMigrate(l) = {} /\ l \in pinned)
  /\ job' = Skip(l)
  /\ UNCHANGED <<files, host, manifest, faults, forgone>>

\* The lock is not free, or the backup cannot be made: the lab is left alone.
NotBegun(l) ==
  /\ job.at = "next" /\ l \in job.left \ torn
  /\ Fault /\ job' = Skip(l)
  /\ UNCHANGED <<files, host, manifest, forgone>>

\* The backup has the name of the file and is in one directory per run: a
\* lab of that name in another folder takes its place.
BackUp(l) ==
  /\ job.at = "next" /\ l \in job.left \ torn
  /\ ~ (ToMigrate(l) = {} /\ l \in pinned)
  /\ backup' = [m \in Labs |->
                  CASE m = l -> IF backup[m] = "old" THEN "old" ELSE "new"
                    [] m # l /\ Stem[m] = Stem[l] /\ backup[m] = "new" -> "none"
                    [] OTHER -> backup[m]]
  /\ job' = [Skip(l) EXCEPT !.at = "nets", !.lab = l, !.todo = ToMigrate(l)]
  /\ UNCHANGED <<stamped, pinned, torn, host, manifest, faults, forgone>>

-----------------------------------------------------------------------------
(* _migrate_network.                                                       *)

\* (mutant) Whatever inspect complains about, there is no such network.
InspectedLoosely(n) ==
  \/ n \notin docker /\ UNCHANGED faults
  \/ n \in docker /\ Fault

\* "docker network inspect" says that there is no such network.
InspectedMissing(n) == n \notin docker /\ UNCHANGED faults

\* The bridge is absent, or its fingerprint is the network's.
OwnershipChecked(n) == n \notin Foreign

Failed == [job EXCEPT !.at = "restore"]

\* (mutant) A network that is not there is an error.
NothingToRemoveFails(n) ==
  /\ job.at = "nets" /\ n \in job.todo
  /\ InspectedMissing(n)
  /\ job' = Failed
  /\ UNCHANGED <<files, host, manifest, forgone>>

NothingToRemove(n) ==
  /\ job.at = "nets" /\ n \in job.todo
  /\ InspectedMissing(n)
  /\ job' = [job EXCEPT !.at = "check", !.todo = @ \ {n}]
  /\ UNCHANGED <<files, host, manifest, forgone>>

\* A container is attached, inspect fails, or rm fails.
CannotRemove(n) ==
  /\ job.at = "nets" /\ n \in job.todo
  /\ \/ n \in busy /\ UNCHANGED faults
     \/ Fault
  /\ job' = Failed
  /\ UNCHANGED <<files, host, manifest, forgone>>

\* (mutant) The removal is journalled when the network is done.
RemoveUnjournalled(n) ==
  /\ job.at = "nets" /\ n \in job.todo
  /\ n \in docker \ busy
  /\ docker' = docker \ {n}
  /\ job' = IF OwnershipChecked(n)
            THEN [job EXCEPT !.at = "check", !.todo = @ \ {n}, !.removed = @ \cup {n}]
            ELSE Failed
  /\ UNCHANGED <<files, busy, legacy, manifest, faults, forgone>>

Remove(n) ==
  /\ job.at = "nets" /\ n \in job.todo
  /\ n \in docker \ busy
  /\ docker' = docker \ {n}
  /\ job' = [job EXCEPT !.at = "check", !.todo = @ \ {n}, !.removed = @ \cup {n}]
  /\ UNCHANGED <<files, busy, legacy, manifest, faults, forgone>>

\* The bridge of the network handled last is looked at.
Check ==
  LET done == ToMigrate(job.lab) \ job.todo IN
  /\ job.at = "check"
  /\ job' = IF \A n \in done : OwnershipChecked(n) THEN [job EXCEPT !.at = "nets"] ELSE Failed
  /\ UNCHANGED <<files, host, manifest, faults, forgone>>

\* All networks and nodes of the lab are stamped in one atomic write.
Write ==
  /\ job.at = "nets" /\ job.todo = {}
  /\ stamped' = stamped \cup NetsOf(job.lab) /\ pinned' = pinned \cup {job.lab}
  /\ job' = Skip(job.lab)
  /\ UNCHANGED <<torn, backup, host, manifest, faults, forgone>>

\* The write fails: the exception leaves process_lab, past the rollback.
WriteFails ==
  /\ job.at = "nets" /\ job.todo = {} /\ Fault
  /\ job' = Skip(job.lab) /\ forgone' = forgone \cup job.removed
  /\ UNCHANGED <<files, host, manifest>>

-----------------------------------------------------------------------------
(* _rollback_lab.                                                          *)

\* The backup is copied over the file, in place.
Restore ==
  /\ job.at = "restore" /\ job' = [job EXCEPT !.at = "recreate"]
  /\ UNCHANGED <<files, host, manifest, faults, forgone>>

\* (mutant) The backup is moved, not copied.
RestoreMoved ==
  /\ job.at = "restore" /\ Fault
  /\ job' = [job EXCEPT !.at = "recreate"]
  /\ torn' = torn \cup {job.lab} /\ backup' = [backup EXCEPT ![job.lab] = "none"]
  /\ UNCHANGED <<stamped, pinned, host, manifest, forgone>>

\* The copy fails half way; the rollback goes on.
RestoreFails ==
  /\ job.at = "restore" /\ Fault
  /\ job' = [job EXCEPT !.at = "recreate"]
  /\ torn' = torn \cup {job.lab}
  /\ UNCHANGED <<stamped, pinned, backup, host, manifest, forgone>>

Recreate(n) ==
  /\ job.at = "recreate" /\ n \in job.removed
  /\ docker' = docker \cup {n}
  /\ job' = [job EXCEPT !.removed = @ \ {n}]
  /\ UNCHANGED <<files, busy, legacy, manifest, faults, forgone>>

RecreateFails(n) ==
  /\ job.at = "recreate" /\ n \in job.removed /\ Fault
  /\ job' = [job EXCEPT !.removed = @ \ {n}, !.orphans = @ \cup {n}]
  /\ UNCHANGED <<files, host, manifest, forgone>>

\* What could not be recreated is written down.  The file is named after the
\* second: one that is already there is overwritten.
Report(same) ==
  LET over == IF same /\ job.orphans # {} THEN manifest ELSE {} IN
  /\ job.at = "recreate" /\ job.removed = {}
  /\ manifest' = (manifest \ over) \cup job.orphans
  /\ forgone' = forgone \cup (over \ job.orphans)
  /\ job' = Skip(job.lab)
  /\ UNCHANGED <<files, host, faults>>

ReportFails ==
  /\ job.at = "recreate" /\ job.removed = {} /\ job.orphans # {} /\ Fault
  /\ forgone' = forgone \cup job.orphans
  /\ job' = Skip(job.lab)
  /\ UNCHANGED <<files, host, manifest>>

-----------------------------------------------------------------------------
(* The world around the script.                                            *)

\* The script is killed; a copy over a lab file may be half done.
Killed ==
  /\ job.at # "idle" /\ Fault
  /\ job' = NoJob /\ forgone' = forgone \cup job.removed \cup job.orphans
  /\ \/ torn' = torn
     \/ job.at = "restore" /\ torn' = torn \cup {job.lab}
  /\ UNCHANGED <<stamped, pinned, backup, host, manifest>>

\* The operator takes the last container off a Docker network.
Detached(n) ==
  /\ n \in busy /\ busy' = busy \ {n}
  /\ UNCHANGED <<files, docker, legacy, manifest, job, faults, forgone>>

Script ==
  \/ Begin \/ Finish \/ Check \/ Write \/ WriteFails \/ Restore \/ RestoreFails \/ ReportFails
  \/ \E same \in BOOLEAN : Report(same)
  \/ \E l \in Labs : PassOver(l) \/ NotBegun(l) \/ BackUp(l)
  \/ \E n \in Networks : \/ NothingToRemove(n) \/ CannotRemove(n) \/ Remove(n)
                         \/ Recreate(n) \/ RecreateFails(n)

Next == Script \/ Killed \/ \E n \in Networks : Detached(n)

Spec == Init /\ [][Next]_vars

\* The script runs on, and is run again.
FairSpec == Spec /\ WF_vars(Script)

-----------------------------------------------------------------------------
(* Properties.                                                             *)

\* A record that has a bridge name has no legacy Docker network left, which
\* would keep the old subnet and bridge alive beside it (step 3, fail-closed
\* when inspect does not answer).
StampedClean == stamped \cap docker = {}

\* A Docker network that the script removed is made again, or the record that
\* replaces it is stamped, or it is written down for the operator, whichever
\* steps failed in between; except where the journal itself is lost (a kill,
\* a failed write of lab.json, an overwritten or unwritten manifest).
NothingForgotten ==
  legacy \subseteq docker \cup stamped \cup manifest \cup job.removed \cup job.orphans \cup forgone

\* A lab file that a restore left truncated still has its backup ("The
\* lab.json is reverted to its pre-migration backup"), unless a lab of the
\* same name in another folder took its place.
DocumentSafe ==
  \A l \in torn : backup[l] # "none" \/ \E m \in Labs \ {l} : Stem[m] = Stem[l]

\* Running the script again completes the migration, whatever was killed or
\* failed before, of every lab that is readable and has neither a container
\* on a Docker network nor a foreign bridge.
Migrates ==
  <>[](\A l \in Labs \ torn : (NetsOf(l) \subseteq stamped /\ l \in pinned)
                              \/ ToMigrate(l) \cap (busy \cup Foreign) # {})
===============================================================================
