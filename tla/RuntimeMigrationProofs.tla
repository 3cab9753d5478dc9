------------------------ MODULE RuntimeMigrationProofs ------------------------
(***************************************************************************)
(* Proofs about RuntimeMigration, for every set of labs and networks and   *)
(* every number of failures and kills.                                     *)
(***************************************************************************)
EXTENDS RuntimeMigration, TLAPS

Phases == {"idle", "next", "nets", "check", "restore", "recreate"}
Job    == [at : Phases, left : SUBSET Labs, lab : Labs \cup {None}, todo : SUBSET Networks,
           removed : SUBSET Networks, orphans : SUBSET Networks]

Typed ==
  /\ stamped \subseteq Networks /\ docker \subseteq Networks /\ torn \subseteq Labs
  /\ backup \in [Labs -> {"none", "new", "old"}] /\ job \in Job

(***************************************************************************)
(* What the three invariants lack: the journal of the script speaks of     *)
(* networks of the lab in hand that are not stamped yet, what it has dealt *)
(* with is gone from Docker, and the lab in hand has its backup.           *)
(***************************************************************************)
AtLab == job.at \notin {"idle", "next"}

JournalSound ==
  /\ AtLab => /\ job.lab \in Labs
              /\ job.todo \cup job.removed \cup job.orphans \subseteq ToMigrate(job.lab)
              /\ backup[job.lab] # "none"
  /\ ~AtLab => job.todo = {} /\ job.removed = {} /\ job.orphans = {}
  /\ job.at # "recreate" => job.orphans = {}
  /\ job.at \in {"nets", "check"} => (NetsOf(job.lab) \ job.todo) \cap docker = {}

MigrationInv == Typed /\ JournalSound /\ StampedClean /\ NothingForgotten /\ DocumentSafe

\* No migration is under way at first.
LEMMA NoJobType == NoJob \in Job
BY DEF NoJob, Job, Phases

\* Passing over a lab leaves the labs that remain.
LEMMA SkipType ==
  ASSUME Typed, NEW l \in Labs
  PROVE  /\ Skip(l) \in Job /\ Skip(l).at = "next"
         /\ Skip(l).todo = {} /\ Skip(l).removed = {} /\ Skip(l).orphans = {}
BY DEF Skip, NoJob, Typed, Job, Phases

\* No lab is stamped and nothing is backed up at first.
LEMMA InitHolds == Init => MigrationInv
<1> SUFFICES ASSUME Init PROVE MigrationInv
  OBVIOUS
<1>1. Typed
  BY NoJobType DEF Init, Typed
<1>2. JournalSound
  BY DEF Init, JournalSound, AtLab, NoJob
<1>3. StampedClean /\ NothingForgotten /\ DocumentSafe
  BY DEF Init, StampedClean, NothingForgotten, DocumentSafe
<1> QED BY <1>1, <1>2, <1>3 DEF MigrationInv
-------------------------------------------------------------------------------
\* A step that leaves the documents and Docker alone and returns to the loop
\* over the labs, its journal in safe keeping.
LEMMA LabLeft ==
  ASSUME MigrationInv, NEW j \in Job, j.at \in {"idle", "next"},
         j.todo = {}, j.removed = {}, j.orphans = {}, job' = j,
         UNCHANGED <<stamped, backup, docker, legacy>>,
         torn' \subseteq torn \cup (IF AtLab THEN {job.lab} ELSE {}),
         manifest \cup forgone \cup job.removed \cup job.orphans \subseteq manifest' \cup forgone'
  PROVE  MigrationInv'
<1>1. Typed'
  BY DEF MigrationInv, Typed, JournalSound
<1>2. JournalSound' /\ StampedClean'
  BY DEF MigrationInv, JournalSound, AtLab, StampedClean
<1>3. NothingForgotten'
  BY DEF MigrationInv, NothingForgotten
<1>4. DocumentSafe'
  BY DEF MigrationInv, DocumentSafe, JournalSound
<1> QED BY <1>1, <1>2, <1>3, <1>4 DEF MigrationInv

\* A run of the script begins, afresh or after a crash.
LEMMA BeginKeeps == MigrationInv /\ Begin => MigrationInv'
<1> SUFFICES ASSUME MigrationInv, Begin PROVE MigrationInv'
  OBVIOUS
<1> DEFINE j == [NoJob EXCEPT !.at = "next", !.left = Labs]
<1>1. job' = j /\ j \in Job /\ j.at = "next" /\ j.todo = {} /\ j.removed = {} /\ j.orphans = {}
  BY DEF Begin, NoJob, Job, Phases
<1> HIDE DEF j
<1>2. Typed'
  BY <1>1 DEF MigrationInv, Typed, Begin, host
<1>3. JournalSound' /\ StampedClean'
  BY <1>1 DEF MigrationInv, JournalSound, AtLab, StampedClean, Begin, host
<1>4. NothingForgotten'
  BY <1>1 DEF MigrationInv, NothingForgotten, JournalSound, AtLab, Begin, host
<1>5. DocumentSafe'
  BY DEF MigrationInv, Typed, DocumentSafe, Begin
<1> QED BY <1>2, <1>3, <1>4, <1>5 DEF MigrationInv

\* A lab is backed up before its networks are migrated.
LEMMA BackUpKeeps ==
  ASSUME MigrationInv, NEW l \in Labs, BackUp(l)
  PROVE  MigrationInv'
<1> DEFINE j == [Skip(l) EXCEPT !.at = "nets", !.lab = l, !.todo = ToMigrate(l)]
<1>1. /\ job' = j /\ j \in Job /\ j.at = "nets" /\ j.lab = l /\ j.todo = ToMigrate(l)
      /\ j.removed = {} /\ j.orphans = {}
  <2>1. Skip(l) \in Job /\ Skip(l).removed = {} /\ Skip(l).orphans = {}
    BY SkipType DEF MigrationInv
  <2>2. ToMigrate(l) \subseteq Networks
    BY DEF ToMigrate, NetsOf
  <2>3. job' = j
    BY DEF BackUp
  <2> QED BY <2>1, <2>2, <2>3 DEF Job, Phases
<1> HIDE DEF j
<1>2. /\ backup' \in [Labs -> {"none", "new", "old"}] /\ backup'[l] # "none"
      /\ \A m \in Labs : m # l /\ backup'[m] = "none" => backup[m] = "none" \/ Stem[m] = Stem[l]
  BY DEF MigrationInv, Typed, BackUp
<1>3. job.removed = {} /\ job.orphans = {} /\ UNCHANGED <<stamped, torn, docker, legacy, manifest, forgone>>
  BY DEF MigrationInv, JournalSound, AtLab, BackUp, host
<1>4. Typed'
  BY <1>1, <1>2, <1>3 DEF MigrationInv, Typed
<1>5. JournalSound'
  BY <1>1, <1>2, <1>3 DEF MigrationInv, JournalSound, StampedClean, AtLab, ToMigrate
<1>6. StampedClean' /\ NothingForgotten'
  BY <1>1, <1>3 DEF MigrationInv, StampedClean, NothingForgotten
<1>7. DocumentSafe'
  BY <1>2, <1>3 DEF MigrationInv, Typed, DocumentSafe
<1> QED BY <1>4, <1>5, <1>6, <1>7 DEF MigrationInv

\* A step that stays with the lab in hand and changes no document.
LEMMA LabInHand ==
  ASSUME MigrationInv, AtLab, NEW j \in Job, job' = j,
         j.at \in {"nets", "check", "restore", "recreate"}, j.lab = job.lab,
         j.todo \subseteq job.todo, j.removed \subseteq ToMigrate(job.lab),
         j.orphans \subseteq ToMigrate(job.lab), j.at # "recreate" => j.orphans = {},
         j.at \in {"nets", "check"} => /\ job.at \in {"nets", "check"}
                                       /\ (job.todo \ j.todo) \cap docker' = {}
                                       /\ docker' \subseteq docker,
         UNCHANGED <<stamped, backup, legacy, manifest, forgone>>,
         torn' \subseteq torn \cup {job.lab}, docker' \subseteq docker \cup ToMigrate(job.lab),
         docker \cup job.removed \cup job.orphans \subseteq docker' \cup j.removed \cup j.orphans
  PROVE  MigrationInv'
<1>1. ToMigrate(job.lab) \subseteq Networks
  BY DEF ToMigrate, NetsOf
<1>2. Typed'
  BY <1>1 DEF MigrationInv, Typed, JournalSound
<1>3. JournalSound'
  BY DEF MigrationInv, JournalSound, AtLab, ToMigrate
<1>4. StampedClean'
  BY DEF MigrationInv, StampedClean, ToMigrate
<1>5. NothingForgotten'
  BY DEF MigrationInv, NothingForgotten
<1>6. DocumentSafe'
  BY DEF MigrationInv, JournalSound, DocumentSafe
<1> QED BY <1>2, <1>3, <1>4, <1>5, <1>6 DEF MigrationInv

\* The lab is written back and stamped.
LEMMA WriteKeeps == MigrationInv /\ Write => MigrationInv'
<1> SUFFICES ASSUME MigrationInv, Write PROVE MigrationInv'
  OBVIOUS
<1>1. /\ job.at = "nets" /\ AtLab /\ job.lab \in Labs /\ job.todo = {} /\ job.orphans = {}
      /\ job.removed \subseteq NetsOf(job.lab) /\ NetsOf(job.lab) \cap docker = {}
  BY DEF MigrationInv, JournalSound, AtLab, Write, ToMigrate
<1>2. /\ Skip(job.lab) \in Job /\ Skip(job.lab).at = "next" /\ Skip(job.lab).todo = {}
      /\ Skip(job.lab).removed = {} /\ Skip(job.lab).orphans = {} /\ job' = Skip(job.lab)
  BY <1>1, SkipType DEF MigrationInv, Write
<1>3. /\ stamped' = stamped \cup NetsOf(job.lab)
      /\ UNCHANGED <<torn, backup, docker, legacy, manifest, forgone>>
  BY DEF Write, host
<1>4. Typed'
  BY <1>2, <1>3 DEF MigrationInv, Typed, NetsOf
<1>5. JournalSound' /\ StampedClean'
  BY <1>1, <1>2, <1>3 DEF MigrationInv, JournalSound, AtLab, StampedClean
<1>6. NothingForgotten'
  BY <1>1, <1>3 DEF MigrationInv, NothingForgotten
<1>7. DocumentSafe'
  BY <1>3 DEF MigrationInv, DocumentSafe
<1> QED BY <1>4, <1>5, <1>6, <1>7 DEF MigrationInv

\* The steps that leave a lab: its end, a failure before it began, a failed
\* write, the two ends of a rollback, and a kill.
LEMMA LeavingKeeps ==
  ASSUME MigrationInv,
         \/ Finish \/ WriteFails \/ ReportFails \/ Killed
         \/ \E same \in BOOLEAN : Report(same)
         \/ \E l \in Labs : PassOver(l) \/ NotBegun(l)
  PROVE  MigrationInv'
<1>1. ASSUME AtLab
      PROVE  /\ Skip(job.lab) \in Job /\ Skip(job.lab).at = "next" /\ Skip(job.lab).todo = {}
             /\ Skip(job.lab).removed = {} /\ Skip(job.lab).orphans = {}
  BY <1>1, SkipType DEF MigrationInv, JournalSound
<1>2. /\ NoJob \in Job /\ NoJob.at = "idle" /\ NoJob.todo = {} /\ NoJob.removed = {}
      /\ NoJob.orphans = {}
  BY NoJobType DEF NoJob
<1>3. CASE Finish
  BY <1>2, <1>3, LabLeft DEF Finish, files, host, MigrationInv, JournalSound, AtLab
<1>4. CASE WriteFails
  <2>1. AtLab /\ job.orphans = {}
    BY <1>4 DEF WriteFails, AtLab, MigrationInv, JournalSound
  <2> QED BY <1>1, <1>4, <2>1, LabLeft DEF WriteFails, files, host
<1>5. CASE ReportFails
  <2>1. AtLab
    BY <1>5 DEF ReportFails, AtLab
  <2> QED BY <1>1, <1>5, <2>1, LabLeft DEF ReportFails, files, host
<1>6. CASE Killed
  BY <1>2, <1>6, LabLeft DEF Killed, host, AtLab
<1>7. ASSUME NEW same \in BOOLEAN, Report(same) PROVE MigrationInv'
  <2>1. AtLab
    BY <1>7 DEF Report, AtLab
  <2> QED BY <1>1, <1>7, <2>1, LabLeft DEF Report, files, host
<1>8. ASSUME NEW l \in Labs, PassOver(l) \/ NotBegun(l) PROVE MigrationInv'
  <2>1. ~AtLab /\ job.removed = {} /\ job.orphans = {}
    BY <1>8 DEF PassOver, NotBegun, AtLab, MigrationInv, JournalSound
  <2>2. /\ Skip(l) \in Job /\ Skip(l).at = "next"
        /\ Skip(l).todo = {} /\ Skip(l).removed = {} /\ Skip(l).orphans = {}
    BY SkipType DEF MigrationInv
  <2> QED BY <1>8, <2>1, <2>2, LabLeft DEF PassOver, NotBegun, files, host
<1> QED BY <1>3, <1>4, <1>5, <1>6, <1>7, <1>8

\* The steps within a lab.
LEMMA InLabKeeps ==
  ASSUME MigrationInv,
         \/ Check \/ Restore \/ RestoreFails
         \/ \E n \in Networks : \/ NothingToRemove(n) \/ CannotRemove(n) \/ Remove(n)
                                \/ Recreate(n) \/ RecreateFails(n)
  PROVE  MigrationInv'
<1>1. job \in Job
  BY DEF MigrationInv, Typed
<1>2. AtLab
  BY DEF AtLab, Check, Restore, RestoreFails, NothingToRemove, CannotRemove, Remove, Recreate,
         RecreateFails
<1>3. /\ job.todo \subseteq ToMigrate(job.lab) /\ job.removed \subseteq ToMigrate(job.lab)
      /\ job.orphans \subseteq ToMigrate(job.lab) /\ (job.at # "recreate" => job.orphans = {})
  BY <1>2 DEF MigrationInv, JournalSound
<1>4. Failed \in Job /\ Failed.at = "restore" /\ Failed.lab = job.lab /\ Failed.todo = job.todo
      /\ Failed.removed = job.removed /\ Failed.orphans = job.orphans
  BY <1>1 DEF Failed, Job, Phases
<1>5. ASSUME job' = Failed, job.at \in {"nets", "check"},
             UNCHANGED <<files, docker, legacy, manifest, forgone>>
      PROVE  MigrationInv'
  BY <1>2, <1>3, <1>4, <1>5, LabInHand DEF files
<1>6. CASE Check
  <2>1. CASE job' = Failed
    BY <1>5, <1>6, <2>1 DEF Check, host
  <2>2. CASE job' = [job EXCEPT !.at = "nets"]
    <3> DEFINE j == [job EXCEPT !.at = "nets"]
    <3>1. /\ j \in Job /\ j.at = "nets" /\ j.lab = job.lab /\ j.todo = job.todo
          /\ j.removed = job.removed /\ j.orphans = job.orphans
      BY <1>1 DEF Job, Phases
    <3> HIDE DEF j
    <3> QED BY <1>2, <1>3, <1>6, <2>2, <3>1, LabInHand DEF Check, files, host, j
  <2> QED BY <1>6, <2>1, <2>2 DEF Check
<1>7. CASE Restore \/ RestoreFails
  <2> DEFINE j == [job EXCEPT !.at = "recreate"]
  <2>1. /\ j \in Job /\ j.at = "recreate" /\ j.lab = job.lab /\ j.todo = job.todo
        /\ j.removed = job.removed /\ j.orphans = job.orphans
    BY <1>1 DEF Job, Phases
  <2>2. job' = j /\ UNCHANGED <<stamped, backup, docker, legacy, manifest, forgone>>
        /\ torn' \subseteq torn \cup {job.lab}
    BY <1>7 DEF Restore, RestoreFails, files, host
  <2> HIDE DEF j
  <2> QED BY <1>2, <1>3, <2>1, <2>2, LabInHand
<1>8. ASSUME NEW n \in Networks, NothingToRemove(n) PROVE MigrationInv'
  <2> DEFINE j == [job EXCEPT !.at = "check", !.todo = @ \ {n}]
  <2>1. /\ j \in Job /\ j.at = "check" /\ j.lab = job.lab /\ j.todo = job.todo \ {n}
        /\ j.removed = job.removed /\ j.orphans = job.orphans
    BY <1>1 DEF Job, Phases
  <2>2. job' = j /\ job.at = "nets" /\ n \notin docker
        /\ UNCHANGED <<stamped, torn, backup, docker, legacy, manifest, forgone>>
    BY <1>8 DEF NothingToRemove, InspectedMissing, files, host
  <2> HIDE DEF j
  <2> QED BY <1>2, <1>3, <2>1, <2>2, LabInHand
<1>9. ASSUME NEW n \in Networks, CannotRemove(n) PROVE MigrationInv'
  BY <1>5, <1>9 DEF CannotRemove, host
<1>10. ASSUME NEW n \in Networks, Remove(n) PROVE MigrationInv'
  <2> DEFINE j == [job EXCEPT !.at = "check", !.todo = @ \ {n}, !.removed = @ \cup {n}]
  <2>1. /\ j \in Job /\ j.at = "check" /\ j.lab = job.lab /\ j.todo = job.todo \ {n}
        /\ j.removed = job.removed \cup {n} /\ j.orphans = job.orphans
    BY <1>1 DEF Job, Phases
  <2>2. /\ job' = j /\ job.at = "nets" /\ n \in job.todo /\ docker' = docker \ {n}
        /\ UNCHANGED <<stamped, torn, backup, legacy, manifest, forgone>>
    BY <1>10 DEF Remove, files
  <2> HIDE DEF j
  <2> QED BY <1>2, <1>3, <2>1, <2>2, LabInHand
<1>11. ASSUME NEW n \in Networks, Recreate(n) PROVE MigrationInv'
  <2> DEFINE j == [job EXCEPT !.removed = @ \ {n}]
  <2>1. /\ j \in Job /\ j.at = job.at /\ j.lab = job.lab /\ j.todo = job.todo
        /\ j.removed = job.removed \ {n} /\ j.orphans = job.orphans
    BY <1>1 DEF Job
  <2>2. /\ job' = j /\ job.at = "recreate" /\ n \in job.removed /\ docker' = docker \cup {n}
        /\ UNCHANGED <<stamped, torn, backup, legacy, manifest, forgone>>
    BY <1>11 DEF Recreate, files
  <2> HIDE DEF j
  <2> QED BY <1>2, <1>3, <2>1, <2>2, LabInHand
<1>12. ASSUME NEW n \in Networks, RecreateFails(n) PROVE MigrationInv'
  <2> DEFINE j == [job EXCEPT !.removed = @ \ {n}, !.orphans = @ \cup {n}]
  <2>1. /\ j \in Job /\ j.at = job.at /\ j.lab = job.lab /\ j.todo = job.todo
        /\ j.removed = job.removed \ {n} /\ j.orphans = job.orphans \cup {n}
    BY <1>1 DEF Job
  <2>2. /\ job' = j /\ job.at = "recreate" /\ n \in job.removed
        /\ UNCHANGED <<stamped, torn, backup, docker, legacy, manifest, forgone>>
    BY <1>12 DEF RecreateFails, files, host
  <2> HIDE DEF j
  <2> QED BY <1>2, <1>3, <2>1, <2>2, LabInHand
<1> QED BY <1>6, <1>7, <1>8, <1>9, <1>10, <1>11, <1>12

\* Every step of the script, its deaths included, keeps the invariant.
LEMMA NextKeeps == MigrationInv /\ [Next]_vars => MigrationInv'
<1> SUFFICES ASSUME MigrationInv, [Next]_vars PROVE MigrationInv'
  OBVIOUS
<1>1. CASE Script
  BY <1>1, BeginKeeps, BackUpKeeps, WriteKeeps, LeavingKeeps, InLabKeeps DEF Script
<1>2. CASE Killed
  BY <1>2, LeavingKeeps
<1>3. ASSUME NEW n \in Networks, Detached(n) PROVE MigrationInv'
  BY <1>3 DEF Detached, files, MigrationInv, Typed, JournalSound, AtLab, ToMigrate,
              StampedClean, NothingForgotten, DocumentSafe
<1>4. CASE UNCHANGED vars
  BY <1>4 DEF vars, MigrationInv, Typed, JournalSound, AtLab, ToMigrate,
              StampedClean, NothingForgotten, DocumentSafe
<1> QED BY <1>1, <1>2, <1>3, <1>4 DEF Next

\* The invariant of the migration holds in every state.
LEMMA MigrationInvariant == Spec => []MigrationInv
BY InitHolds, NextKeeps, PTL DEF Spec
-------------------------------------------------------------------------------
\* However often the script fails, is killed and is run again, no network
\* record carries a bridge name while its legacy Docker network still exists
\* (_migrate_network, fail-closed).
THEOREM MigratedClean == Spec => []StampedClean
BY MigrationInvariant, PTL DEF MigrationInv

\* No removed Docker network is lost: it is made again, replaced or written
\* down, unless the journal itself is lost (_rollback_lab).
THEOREM RemovalsAccounted == Spec => []NothingForgotten
BY MigrationInvariant, PTL DEF MigrationInv

\* A truncated lab file has its backup, unless a lab of the same name took
\* its place (_backup_lab, _rollback_lab).
THEOREM BackupsKept == Spec => []DocumentSafe
BY MigrationInvariant, PTL DEF MigrationInv
===============================================================================
