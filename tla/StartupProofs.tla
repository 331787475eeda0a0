--------------------------- MODULE StartupProofs ----------------------------
(***************************************************************************)
(* Any number of processes with any releases leave the database with a     *)
(* schema that is a sequence of whole releases.  The inductive invariant,  *)
(* MigrationProtocol, says what the one process that holds the advisory    *)
(* lock has done so far, and that no other process has done anything.      *)
(***************************************************************************)
EXTENDS Startup, SequenceTheorems, FiniteSetTheorems, TLAPS

InLoop == {"applying", "recording"}

(* Only the holder of the advisory lock is in the transaction of migrate. *)
HoldersAreAlone ==
  \A p \in Processes : stage[p] \in InTransaction => lock = p

(* Outside the loop of migrate a process has executed and recorded nothing. *)
FramesAreClean ==
  \A p \in Processes : stage[p] \notin InLoop =>
    executed[p] = <<>> /\ recorded[p] = {}

(* What the loop has executed: files of the release, in ascending order, of
   versions that were not recorded. *)
ExecutedIsNew(p) ==
  \A i \in 1..Len(executed[p]) :
    /\ executed[p][i] \in files[p]
    /\ \A j \in 1..Len(executed[p]) :
         i < j => executed[p][i].version < executed[p][j].version
    /\ \A r \in records : r.version # executed[p][i].version

(* What the loop has left: later files than it has executed; all others are
   recorded or have been executed. *)
VisitedIsPresent(p) ==
  /\ todo[p] \subseteq files[p]
  /\ \A m \in files[p] \ todo[p] :
       m \in records \/ \E i \in 1..Len(executed[p]) : executed[p][i] = m

(* Every migration but the one that is about to be recorded is recorded, and
   the loop has passed it. *)
PassedIsRecorded(p) ==
  LET n == IF stage[p] = "recording" THEN Len(executed[p]) - 1
           ELSE Len(executed[p])
  IN  /\ recorded[p] = {executed[p][i] : i \in 1..n}
      /\ \A i \in 1..n : \A m \in todo[p] :
           executed[p][i].version < m.version
      /\ stage[p] = "recording" =>
           /\ Len(executed[p]) > 0
           /\ IsNext(p, executed[p][Len(executed[p])])

LoopIsSound(p) ==
  stage[p] \in InLoop => /\ existing[p] = records
                         /\ discoverable(files[p])
                         /\ ExecutedIsNew(p)
                         /\ VisitedIsPresent(p)
                         /\ PassedIsRecorded(p)

MigrationProtocol ==
  /\ HoldersAreAlone
  /\ FramesAreClean
  /\ \A p \in Processes : LoopIsSound(p)

(* A process that has opened its pool keeps it open up to its finally clause,
   which is the only place that closes one. *)
PoolsAreOpen ==
  \A p \in Processes :
    stage[p] \in InTransaction \cup {"locking", "serving", "closing"} => pool[p]

(* Outside the try statement of its lifespan a server has the pool open that
   it was given and no other. *)
Idle == {"off", "opening", "ended"}

PoolsAreIdle ==
  \A p \in Servers : stage[p] \in Idle => pool[p] = (p \notin PoolOwners)

(* A process that runs has the files of one release. *)
FilesAreARelease ==
  \A p \in Processes :
    stage[p] \notin {"off", "ended", "closing"} => files[p] \in Releases

StartupInv ==
  /\ StartupTypeOK
  /\ MigrationProtocol
  /\ RecordsMatchSchema
  /\ PoolsAreOpen
  /\ FilesAreARelease
  /\ ServersAreCurrent
  /\ PoolsAreIdle

-----------------------------------------------------------------------------
(***************************************************************************)
(* Facts about one state.                                                  *)
(***************************************************************************)

(* The versions of the files of a release that was read are numbers. *)
LEMMA VersionsAreNumbers ==
  ASSUME NEW release \in SUBSET AllFiles, discoverable(release),
         NEW m \in release
  PROVE  m.version \in Nat
BY ReleasesAssumption DEF discoverable, WellNamed

(* While one process is in its transaction, no other has executed anything. *)
LEMMA OthersAreIdle ==
  ASSUME MigrationProtocol, StartupTypeOK,
         NEW p \in Processes, stage[p] \in InTransaction,
         NEW q \in Processes, q # p
  PROVE  /\ stage[q] \notin InTransaction
         /\ executed[q] = <<>>
  <1>1. stage[q] \notin InTransaction
    BY DEF MigrationProtocol, HoldersAreAlone
  <1>2. QED
    BY <1>1 DEF MigrationProtocol, FramesAreClean, InLoop, InTransaction

(* The loop of a process whose variables a step leaves alone stays sound. *)
LEMMA LoopUnchanged ==
  ASSUME NEW q \in Processes, LoopIsSound(q),
         records' = records, stage'[q] = stage[q], files'[q] = files[q],
         existing'[q] = existing[q], todo'[q] = todo[q],
         executed'[q] = executed[q], recorded'[q] = recorded[q]
  PROVE  LoopIsSound(q)'
BY DEF LoopIsSound, ExecutedIsNew, VisitedIsPresent, PassedIsRecorded,
       discoverable, WellNamed, IsNext

(* RecordsMatchSchema depends on the table and the schema alone. *)
LEMMA SchemaUnchanged ==
  ASSUME RecordsMatchSchema, records' = records, schema' = schema
  PROVE  RecordsMatchSchema'
BY DEF RecordsMatchSchema

-----------------------------------------------------------------------------
(***************************************************************************)
(* Every action preserves the invariant.                                   *)
(***************************************************************************)

(* No process has been started: nothing is held, open or in flight. *)
LEMMA StartupInitially == Init => StartupInv
  <1> SUFFICES ASSUME Init PROVE StartupInv
    OBVIOUS
  <1>1. StartupTypeOK
    <2>1. <<>> \in Seq(AllFiles)
      OBVIOUS
    <2>2. QED
      BY <2>1 DEF Init, StartupTypeOK, Stages
  <1>2. MigrationProtocol
    BY DEF Init, MigrationProtocol, HoldersAreAlone, FramesAreClean,
           LoopIsSound, InLoop, InTransaction
  <1>3. RecordsMatchSchema
    BY DEF Init, RecordsMatchSchema
  <1>4. PoolsAreOpen /\ FilesAreARelease /\ ServersAreCurrent
    BY DEF Init, PoolsAreOpen, FilesAreARelease, ServersAreCurrent,
           InTransaction, Processes
  <1>5. PoolsAreIdle
    BY DEF Init, PoolsAreIdle, Processes
  <1>6. QED
    BY <1>1, <1>2, <1>3, <1>4, <1>5 DEF StartupInv

(* A process that leaves, in whatever way, leaves nothing behind: it reaches
   its finally clause with an open pool, or ends with its pool as it was. *)
LEMMA DepartStep ==
  ASSUME StartupInv, NEW p \in Processes,
         NEW label \in {"off", "ended", "closing"}, Goto(p, label),
         NEW open \in BOOLEAN, pool' = [pool EXCEPT ![p] = open],
         label = "closing" => open,
         p \in Servers /\ label # "closing" => open = (p \notin PoolOwners),
         files' = [files EXCEPT ![p] = {}], EndTransaction(p),
         records' \subseteq AllFiles, schema' \in Seq(AllFiles),
         records \subseteq records', RecordsMatchSchema',
         \A q \in Processes \ {p} : LoopIsSound(q)'
  PROVE  StartupInv'
  <1>1. StartupTypeOK'
    <2>1. <<>> \in Seq(AllFiles)
      OBVIOUS
    <2>2. QED
      BY <2>1 DEF StartupInv, StartupTypeOK, Goto, EndTransaction, Stages
  <1>2. /\ stage'[p] = label /\ pool'[p] = open
        /\ executed'[p] = <<>> /\ recorded'[p] = {}
    BY DEF StartupInv, StartupTypeOK, Goto, EndTransaction
  <1>3. \A q \in Processes \ {p} :
          /\ stage'[q] = stage[q] /\ files'[q] = files[q]
          /\ executed'[q] = executed[q] /\ recorded'[q] = recorded[q]
          /\ pool'[q] = pool[q]
    BY DEF StartupInv, StartupTypeOK, Goto, EndTransaction
  <1>4. HoldersAreAlone'
    BY <1>2, <1>3 DEF StartupInv, MigrationProtocol, HoldersAreAlone,
                      EndTransaction, InTransaction
  <1>5. FramesAreClean'
    BY <1>2, <1>3 DEF StartupInv, MigrationProtocol, FramesAreClean
  <1>6. LoopIsSound(p)'
    BY <1>2 DEF LoopIsSound, InLoop
  <1>7. PoolsAreOpen' /\ FilesAreARelease'
    BY <1>2, <1>3 DEF StartupInv, PoolsAreOpen, FilesAreARelease, InTransaction
  <1>8. ServersAreCurrent'
    BY <1>2, <1>3 DEF StartupInv, ServersAreCurrent, Processes
  <1>9. PoolsAreIdle'
    BY <1>2, <1>3 DEF StartupInv, PoolsAreIdle, Idle, Processes
  <1>10. QED
    BY <1>1, <1>4, <1>5, <1>6, <1>7, <1>8, <1>9
       DEF StartupInv, MigrationProtocol

(* An exception or the end of the lifespan: where the try statement is left,
   the pool is open; where there was none to leave, it is as it was given. *)
LEMMA LeaveStep ==
  ASSUME StartupInv, NEW p \in Processes, stage[p] # "closing",
         Leave(p), EndTransaction(p),
         records' \subseteq AllFiles, schema' \in Seq(AllFiles),
         records \subseteq records', RecordsMatchSchema',
         \A q \in Processes \ {p} : LoopIsSound(q)'
  PROVE  StartupInv'
  <1> DEFINE label == IF Guarded(p) THEN "closing" ELSE "ended"
  <1>1. label \in {"off", "ended", "closing"}
    OBVIOUS
  <1>2. Goto(p, label) /\ files' = [files EXCEPT ![p] = {}]
    BY DEF Leave
  <1>3. pool[p] \in BOOLEAN /\ pool' = [pool EXCEPT ![p] = pool[p]]
    BY DEF Leave, StartupInv, StartupTypeOK
  <1>4. Guarded(p) => pool[p]
    BY DEF Guarded, StartupInv, PoolsAreOpen, Processes
  <1>5. p \in Servers /\ ~ Guarded(p) => stage[p] \in Idle
    BY DEF Guarded, Idle, StartupInv, StartupTypeOK, Stages, Processes
  <1>6. p \in Servers /\ ~ Guarded(p) => pool[p] = (p \notin PoolOwners)
    BY <1>5 DEF StartupInv, PoolsAreIdle
  <1>7. label = "closing" => pool[p]
    BY <1>4
  <1>8. p \in Servers /\ label # "closing" => pool[p] = (p \notin PoolOwners)
    BY <1>6
  <1> HIDE DEF label
  <1>9. QED
    BY <1>1, <1>2, <1>3, <1>7, <1>8, DepartStep

(* What becomes of the other processes when one leaves and commits nothing. *)
LEMMA OthersGoOn ==
  ASSUME StartupInv, NEW p \in Processes, NEW label \in Stages,
         Goto(p, label), files' = [files EXCEPT ![p] = {}], EndTransaction(p),
         UNCHANGED <<records, schema>>
  PROVE  /\ records' \subseteq AllFiles /\ schema' \in Seq(AllFiles)
         /\ records \subseteq records' /\ RecordsMatchSchema'
         /\ \A q \in Processes \ {p} : LoopIsSound(q)'
  <1>1. RecordsMatchSchema'
    BY SchemaUnchanged DEF StartupInv
  <1>2. ASSUME NEW q \in Processes \ {p} PROVE LoopIsSound(q)'
    <2>1. /\ stage'[q] = stage[q] /\ files'[q] = files[q]
          /\ existing'[q] = existing[q] /\ todo'[q] = todo[q]
          /\ executed'[q] = executed[q] /\ recorded'[q] = recorded[q]
          /\ records' = records
      BY DEF StartupInv, StartupTypeOK, Goto, EndTransaction
    <2>2. QED
      BY <2>1, LoopUnchanged DEF StartupInv, MigrationProtocol
  <1>3. QED
    BY <1>1, <1>2 DEF StartupInv, StartupTypeOK

(* Whenever and wherever a process fails, the invariant survives. *)
LEMMA FailStep ==
  ASSUME StartupInv, NEW p \in Processes, stage[p] # "closing", Fail(p)
  PROVE  StartupInv'
  <1> DEFINE label == IF Guarded(p) THEN "closing" ELSE "ended"
  <1>1. label \in Stages /\ Goto(p, label)
    BY DEF Fail, Leave, Stages
  <1> HIDE DEF label
  <1>2. /\ Leave(p) /\ EndTransaction(p) /\ UNCHANGED <<records, schema>>
        /\ files' = [files EXCEPT ![p] = {}]
    BY DEF Fail, Leave
  <1>3. QED
    BY <1>1, <1>2, OthersGoOn, LeaveStep

(* A process that is killed: its connections break, and its pool is gone. *)
LEMMA KillStep ==
  ASSUME StartupInv, NEW p \in Processes, Kill(p)
  PROVE  StartupInv'
  <1> DEFINE open == p \notin PoolOwners
  <1>1. /\ Goto(p, "off") /\ files' = [files EXCEPT ![p] = {}]
        /\ pool' = [pool EXCEPT ![p] = open] /\ open \in BOOLEAN
        /\ EndTransaction(p) /\ UNCHANGED <<records, schema>>
    BY DEF Kill
  <1>2. "off" \in Stages
    BY DEF Stages
  <1>3. QED
    BY <1>1, <1>2, OthersGoOn, DepartStep

(* The finally clause finds the pool open, and closes it if it is its own. *)
LEMMA FinallyStep ==
  ASSUME StartupInv, NEW p \in Processes, Finally(p)
  PROVE  StartupInv'
  <1>1. StartupTypeOK'
    BY DEF StartupInv, StartupTypeOK, Finally, Goto, txn, Stages
  <1>2. /\ stage[p] = "closing" /\ stage'[p] = "ended"
        /\ pool'[p] = (pool[p] /\ p \notin PoolOwners)
    BY DEF StartupInv, StartupTypeOK, Finally, Goto
  <1>3. \A q \in Processes \ {p} : stage'[q] = stage[q] /\ pool'[q] = pool[q]
    BY DEF StartupInv, StartupTypeOK, Finally, Goto
  <1>4. UNCHANGED <<records, schema, lock, files, existing, todo, executed,
                    recorded>>
    BY DEF Finally, txn
  <1>5. HoldersAreAlone' /\ FramesAreClean'
    BY <1>2, <1>3, <1>4 DEF StartupInv, MigrationProtocol, HoldersAreAlone,
                            FramesAreClean, InTransaction, InLoop
  <1>6. LoopIsSound(p)'
    BY <1>2 DEF LoopIsSound, InLoop
  <1>7. \A q \in Processes \ {p} : LoopIsSound(q)'
    BY <1>3, <1>4, LoopUnchanged DEF StartupInv, MigrationProtocol
  <1>8. PoolsAreOpen' /\ FilesAreARelease'
    BY <1>2, <1>3, <1>4
       DEF StartupInv, PoolsAreOpen, FilesAreARelease, InTransaction
  <1>9. ServersAreCurrent'
    BY <1>2, <1>3, <1>4 DEF StartupInv, ServersAreCurrent, Processes
  <1>10. PoolsAreIdle'
    <2>1. pool[p]
      BY <1>2 DEF StartupInv, PoolsAreOpen
    <2>2. pool'[p] = (p \notin PoolOwners)
      BY <1>2, <2>1
    <2>3. QED
      BY <1>3, <2>2 DEF StartupInv, PoolsAreIdle, Idle, Processes
  <1>11. RecordsMatchSchema'
    BY <1>4, SchemaUnchanged DEF StartupInv
  <1>12. QED
    BY <1>1, <1>5, <1>6, <1>7, <1>8, <1>9, <1>10, <1>11
       DEF StartupInv, MigrationProtocol

(* A step of one process that fails nothing and commits nothing is judged by
   what becomes of that process: of the others nothing changes. *)
LEMMA OwnStep ==
  ASSUME StartupInv, NEW p \in Processes,
         records' = records, schema' = schema,
         \A q \in Processes \ {p} :
           /\ stage'[q] = stage[q] /\ files'[q] = files[q]
           /\ existing'[q] = existing[q] /\ todo'[q] = todo[q]
           /\ executed'[q] = executed[q] /\ recorded'[q] = recorded[q]
           /\ pool'[q] = pool[q],
         StartupTypeOK', HoldersAreAlone', LoopIsSound(p)',
         stage'[p] \notin {"off", "ended", "serving", "closing"},
         stage'[p] \notin InLoop => executed'[p] = <<>> /\ recorded'[p] = {},
         IF stage'[p] = "opening"
         THEN p \in Servers => pool'[p] = (p \notin PoolOwners)
         ELSE pool'[p],
         files'[p] \in Releases
  PROVE  StartupInv'
  <1>1. FramesAreClean'
    BY DEF StartupInv, MigrationProtocol, FramesAreClean
  <1>2. \A q \in Processes : LoopIsSound(q)'
    BY LoopUnchanged DEF StartupInv, MigrationProtocol
  <1>3. PoolsAreOpen' /\ FilesAreARelease'
    BY DEF StartupInv, PoolsAreOpen, FilesAreARelease, InTransaction
  <1>4. ServersAreCurrent' /\ PoolsAreIdle'
    BY DEF StartupInv, ServersAreCurrent, PoolsAreIdle, Idle, Processes
  <1>5. RecordsMatchSchema'
    BY SchemaUnchanged DEF StartupInv
  <1>6. QED
    BY <1>1, <1>2, <1>3, <1>4, <1>5 DEF StartupInv, MigrationProtocol

(* Settings that are refused end the process; others let it go on. *)
LEMMA StartStep ==
  ASSUME StartupInv, NEW p \in Processes, NEW release \in Releases,
         NEW env \in Environments, Start(p, release, env)
  PROVE  StartupInv'
  <1>1. CASE Fail(p)
    BY <1>1, FailStep DEF Start
  <1>2. CASE /\ files' = [files EXCEPT ![p] = release]
             /\ Goto(p, "opening")
             /\ UNCHANGED <<records, schema, lock, txn, pool>>
    <2>1. release \in SUBSET AllFiles
      BY DEF AllFiles
    <2>2. StartupTypeOK'
      BY <1>2, <2>1 DEF StartupInv, StartupTypeOK, Goto, txn, Stages
    <2>3. /\ stage'[p] = "opening" /\ files'[p] = release
          /\ executed'[p] = executed[p] /\ recorded'[p] = recorded[p]
      BY <1>2 DEF StartupInv, StartupTypeOK, Goto, txn
    <2>4. \A q \in Processes \ {p} :
            /\ stage'[q] = stage[q] /\ files'[q] = files[q]
            /\ existing'[q] = existing[q] /\ todo'[q] = todo[q]
            /\ executed'[q] = executed[q] /\ recorded'[q] = recorded[q]
            /\ pool'[q] = pool[q]
      BY <1>2 DEF StartupInv, StartupTypeOK, Goto, txn
    <2>5. HoldersAreAlone'
      BY <1>2, <2>3, <2>4
         DEF StartupInv, MigrationProtocol, HoldersAreAlone, InTransaction
    <2>6. executed[p] = <<>> /\ recorded[p] = {}
      BY DEF StartupInv, MigrationProtocol, FramesAreClean, InLoop, Start
    <2>7. LoopIsSound(p)'
      BY <2>3 DEF LoopIsSound, InLoop
    <2>8. p \in Servers => pool'[p] = (p \notin PoolOwners)
      BY <1>2 DEF StartupInv, PoolsAreIdle, Idle, Start
    <2>9. QED
      BY <1>2, <2>2, <2>3, <2>4, <2>5, <2>6, <2>7, <2>8, OwnStep DEF InLoop
  <1>3. QED
    BY <1>1, <1>2 DEF Start

(* A pool that opens is open. *)
LEMMA OpenStep ==
  ASSUME StartupInv, NEW p \in Processes, Open(p)
  PROVE  StartupInv'
  <1>1. StartupTypeOK'
    BY DEF StartupInv, StartupTypeOK, Open, Goto, txn, Stages
  <1>2. /\ stage'[p] = "locking" /\ files'[p] = files[p] /\ pool'[p]
        /\ executed'[p] = executed[p] /\ recorded'[p] = recorded[p]
    BY DEF StartupInv, StartupTypeOK, Open, Goto, txn
  <1>3. \A q \in Processes \ {p} :
          /\ stage'[q] = stage[q] /\ files'[q] = files[q]
          /\ existing'[q] = existing[q] /\ todo'[q] = todo[q]
          /\ executed'[q] = executed[q] /\ recorded'[q] = recorded[q]
          /\ pool'[q] = pool[q]
    BY DEF StartupInv, StartupTypeOK, Open, Goto, txn
  <1>4. HoldersAreAlone'
    BY <1>2, <1>3
       DEF StartupInv, MigrationProtocol, HoldersAreAlone, InTransaction, Open
  <1>5. /\ executed[p] = <<>> /\ recorded[p] = {} /\ files[p] \in Releases
    BY DEF StartupInv, MigrationProtocol, FramesAreClean, InLoop, Open,
           FilesAreARelease
  <1>6. LoopIsSound(p)'
    BY <1>2 DEF LoopIsSound, InLoop
  <1>7. QED
    BY <1>1, <1>2, <1>3, <1>4, <1>5, <1>6, OwnStep DEF InLoop, Open

(* The lock was free, so no other process is in its transaction. *)
LEMMA TakeLockStep ==
  ASSUME StartupInv, NEW p \in Processes, TakeLock(p)
  PROVE  StartupInv'
  <1>1. StartupTypeOK'
    BY DEF StartupInv, StartupTypeOK, TakeLock, Goto, txn, Stages, InTransaction
  <1>2. /\ stage'[p] = "inspecting" /\ files'[p] = files[p]
        /\ pool'[p] = pool[p]
        /\ executed'[p] = executed[p] /\ recorded'[p] = recorded[p]
    BY DEF StartupInv, StartupTypeOK, TakeLock, Goto, txn
  <1>3. \A q \in Processes \ {p} :
          /\ stage'[q] = stage[q] /\ files'[q] = files[q]
          /\ existing'[q] = existing[q] /\ todo'[q] = todo[q]
          /\ executed'[q] = executed[q] /\ recorded'[q] = recorded[q]
          /\ pool'[q] = pool[q]
    BY DEF StartupInv, StartupTypeOK, TakeLock, Goto, txn
  <1>4. HoldersAreAlone'
    BY <1>2, <1>3, ProcessAssumption
       DEF StartupInv, MigrationProtocol, HoldersAreAlone, TakeLock
  <1>5. /\ executed[p] = <<>> /\ recorded[p] = {} /\ files[p] \in Releases
        /\ pool[p]
    BY DEF StartupInv, MigrationProtocol, FramesAreClean, InLoop, TakeLock,
           FilesAreARelease, PoolsAreOpen
  <1>6. LoopIsSound(p)'
    BY <1>2 DEF LoopIsSound, InLoop
  <1>7. QED
    BY <1>1, <1>2, <1>3, <1>4, <1>5, <1>6, OwnStep DEF InLoop, TakeLock

(* The loop begins with the rows that are recorded and all the files. *)
LEMMA InspectStep ==
  ASSUME StartupInv, NEW p \in Processes, Inspect(p)
  PROVE  StartupInv'
  <1>1. CASE Fail(p)
    BY <1>1, FailStep DEF Inspect
  <1>2. CASE /\ discoverable(files[p])
             /\ existing' = [existing EXCEPT ![p] = records]
             /\ todo' = [todo EXCEPT ![p] = files[p]]
             /\ Goto(p, "applying")
             /\ UNCHANGED <<records, schema, lock, files, executed, recorded,
                            pool>>
    <2>1. StartupTypeOK'
      BY <1>2 DEF StartupInv, StartupTypeOK, Goto, Stages, InTransaction
    <2>2. /\ stage'[p] = "applying" /\ files'[p] = files[p]
          /\ existing'[p] = records /\ todo'[p] = files[p]
          /\ executed'[p] = executed[p] /\ recorded'[p] = recorded[p]
          /\ pool'[p] = pool[p]
      BY <1>2 DEF StartupInv, StartupTypeOK, Goto
    <2>3. \A q \in Processes \ {p} :
            /\ stage'[q] = stage[q] /\ files'[q] = files[q]
            /\ existing'[q] = existing[q] /\ todo'[q] = todo[q]
            /\ executed'[q] = executed[q] /\ recorded'[q] = recorded[q]
            /\ pool'[q] = pool[q]
      BY <1>2 DEF StartupInv, StartupTypeOK, Goto
    <2>4. HoldersAreAlone'
      BY <1>2, <2>3 DEF StartupInv, MigrationProtocol, HoldersAreAlone,
                        Inspect, InTransaction
    <2>5. /\ executed[p] = <<>> /\ recorded[p] = {} /\ files[p] \in Releases
          /\ pool[p]
      BY DEF StartupInv, MigrationProtocol, FramesAreClean, InLoop, Inspect,
             FilesAreARelease, PoolsAreOpen, InTransaction
    <2>6. LoopIsSound(p)'
      <3>1. ExecutedIsNew(p)' /\ VisitedIsPresent(p)' /\ PassedIsRecorded(p)'
        BY <2>2, <2>5
           DEF ExecutedIsNew, VisitedIsPresent, PassedIsRecorded
      <3>2. discoverable(files[p])'
        BY <1>2, <2>2 DEF discoverable, WellNamed
      <3>3. QED
        BY <1>2, <2>2, <3>1, <3>2 DEF LoopIsSound
    <2>7. QED
      BY <1>2, <2>1, <2>2, <2>3, <2>4, <2>5, <2>6, OwnStep DEF InLoop
  <1>3. QED
    BY <1>1, <1>2 DEF Inspect

(* A file that is skipped is recorded already. *)
LEMMA SkipStep ==
  ASSUME StartupInv, NEW p \in Processes, NEW m \in AllFiles,
         stage[p] = "applying", IsNext(p, m), Previous(p, m) = {m}, Skip(p, m)
  PROVE  StartupInv'
  <1>1. StartupTypeOK'
    BY DEF StartupInv, StartupTypeOK, Skip
  <1>2. /\ stage'[p] = "applying" /\ files'[p] = files[p]
        /\ existing'[p] = existing[p] /\ todo'[p] = todo[p] \ {m}
        /\ executed'[p] = executed[p] /\ recorded'[p] = recorded[p]
        /\ pool'[p] = pool[p]
    BY DEF StartupInv, StartupTypeOK, Skip
  <1>3. \A q \in Processes \ {p} :
          /\ stage'[q] = stage[q] /\ files'[q] = files[q]
          /\ existing'[q] = existing[q] /\ todo'[q] = todo[q]
          /\ executed'[q] = executed[q] /\ recorded'[q] = recorded[q]
          /\ pool'[q] = pool[q]
    BY DEF StartupInv, StartupTypeOK, Skip
  <1>4. HoldersAreAlone'
    BY <1>3 DEF StartupInv, MigrationProtocol, HoldersAreAlone, Skip
  <1>5. files[p] \in Releases /\ pool[p]
    BY DEF StartupInv, FilesAreARelease, PoolsAreOpen, InTransaction
  <1>6. LoopIsSound(p)'
    <2>1. LoopIsSound(p) /\ stage[p] \in InLoop
      BY DEF StartupInv, MigrationProtocol, InLoop
    <2>2. m \in records
      BY <2>1 DEF LoopIsSound, Previous
    <2>3. ExecutedIsNew(p)'
      BY <1>2, <2>1 DEF LoopIsSound, ExecutedIsNew, Skip
    <2>4. VisitedIsPresent(p)'
      BY <1>2, <2>1, <2>2 DEF LoopIsSound, VisitedIsPresent, Skip
    <2>5. PassedIsRecorded(p)'
      BY <1>2, <2>1 DEF LoopIsSound, PassedIsRecorded
    <2>6. QED
      BY <1>2, <2>1, <2>3, <2>4, <2>5
         DEF LoopIsSound, discoverable, WellNamed, Skip
  <1>7. QED
    BY <1>1, <1>2, <1>3, <1>4, <1>5, <1>6, OwnStep DEF InLoop, Skip

(* A file that is executed is later than those executed before it. *)
LEMMA ExecuteStep ==
  ASSUME StartupInv, NEW p \in Processes, NEW m \in AllFiles,
         stage[p] = "applying", IsNext(p, m), Previous(p, m) = {},
         Execute(p, m)
  PROVE  StartupInv'
  <1>1. CASE Fail(p)
    BY <1>1, FailStep
  <1>2. CASE /\ executed' = [executed EXCEPT ![p] = Append(@, m)]
             /\ Goto(p, "recording")
             /\ UNCHANGED <<records, schema, lock, files, existing, todo,
                            recorded, pool>>
    <2>1. /\ Append(executed[p], m) \in Seq(AllFiles)
          /\ Len(Append(executed[p], m)) = Len(executed[p]) + 1
          /\ \A i \in 1..Len(executed[p]) :
               Append(executed[p], m)[i] = executed[p][i]
          /\ Append(executed[p], m)[Len(executed[p]) + 1] = m
          /\ Len(executed[p]) \in Nat
      BY DEF StartupInv, StartupTypeOK
    <2>2. StartupTypeOK'
      BY <1>2, <2>1 DEF StartupInv, StartupTypeOK, Goto, Stages, InTransaction
    <2>3. /\ stage'[p] = "recording" /\ files'[p] = files[p]
          /\ existing'[p] = existing[p] /\ todo'[p] = todo[p]
          /\ executed'[p] = Append(executed[p], m)
          /\ recorded'[p] = recorded[p] /\ pool'[p] = pool[p]
      BY <1>2 DEF StartupInv, StartupTypeOK, Goto
    <2>4. \A q \in Processes \ {p} :
            /\ stage'[q] = stage[q] /\ files'[q] = files[q]
            /\ existing'[q] = existing[q] /\ todo'[q] = todo[q]
            /\ executed'[q] = executed[q] /\ recorded'[q] = recorded[q]
            /\ pool'[q] = pool[q]
      BY <1>2 DEF StartupInv, StartupTypeOK, Goto
    <2>5. HoldersAreAlone'
      BY <1>2, <2>4 DEF StartupInv, MigrationProtocol, HoldersAreAlone,
                        InTransaction
    <2>6. files[p] \in Releases /\ pool[p]
      BY DEF StartupInv, FilesAreARelease, PoolsAreOpen, InTransaction
    <2>7. LoopIsSound(p)'
      <3>1. LoopIsSound(p) /\ stage[p] \in InLoop
        BY DEF StartupInv, MigrationProtocol, InLoop
      <3>2. m \in files[p] /\ m \in todo[p]
        BY <3>1 DEF LoopIsSound, VisitedIsPresent, IsNext
      <3>3. \A r \in records : r.version # m.version
        BY <3>1 DEF LoopIsSound, Previous
      <3>4. \A i \in 1..Len(executed[p]) : executed[p][i].version < m.version
        BY <3>1, <3>2 DEF LoopIsSound, PassedIsRecorded
      <3>5. ExecutedIsNew(p)'
        <4> SUFFICES ASSUME NEW i \in 1..Len(executed[p]) + 1
                     PROVE  /\ executed'[p][i] \in files[p]
                            /\ \A j \in 1..Len(executed[p]) + 1 :
                                 i < j => executed'[p][i].version
                                            < executed'[p][j].version
                            /\ \A r \in records :
                                 r.version # executed'[p][i].version
          BY <1>2, <2>1, <2>3 DEF ExecutedIsNew
        <4>1. CASE i = Len(executed[p]) + 1
          BY <2>1, <2>3, <3>2, <3>3, <4>1
        <4>2. CASE i # Len(executed[p]) + 1
          <5>1. i \in 1..Len(executed[p]) /\ executed'[p][i] = executed[p][i]
            BY <2>1, <2>3, <4>2
          <5>2. \A j \in 1..Len(executed[p]) + 1 :
                  \/ j \in 1..Len(executed[p])
                     /\ executed'[p][j] = executed[p][j]
                  \/ executed'[p][j] = m
            BY <2>1, <2>3
          <5>3. QED
            BY <3>1, <3>4, <5>1, <5>2 DEF LoopIsSound, ExecutedIsNew
        <4>3. QED
          BY <4>1, <4>2
      <3>6. VisitedIsPresent(p)'
        BY <1>2, <2>1, <2>3, <3>1 DEF LoopIsSound, VisitedIsPresent
      <3>7. PassedIsRecorded(p)'
        <4>1. recorded[p] = {executed[p][i] : i \in 1..Len(executed[p])}
          BY <3>1 DEF LoopIsSound, PassedIsRecorded
        <4>2. IsNext(p, executed[p][Len(executed[p])])'
          BY <2>1, <2>3 DEF IsNext
        <4>3. Len(executed'[p]) = Len(executed[p]) + 1
          BY <2>1, <2>3
        <4>4. QED
          BY <2>1, <2>3, <3>4, <4>1, <4>2, <4>3, <3>1
             DEF PassedIsRecorded, LoopIsSound
      <3>8. discoverable(files[p])'
        BY <2>3, <3>1 DEF LoopIsSound, discoverable, WellNamed
      <3>9. QED
        BY <1>2, <2>3, <3>1, <3>5, <3>6, <3>7, <3>8 DEF LoopIsSound
    <2>8. QED
      BY <1>2, <2>2, <2>3, <2>4, <2>5, <2>6, <2>7, OwnStep DEF InLoop
  <1>3. QED
    BY <1>1, <1>2 DEF Execute

(* One turn of the loop: refuse, skip or execute. *)
LEMMA VisitStep ==
  ASSUME StartupInv, NEW p \in Processes, Visit(p)
  PROVE  StartupInv'
  <1>1. PICK m \in AllFiles :
          /\ IsNext(p, m)
          /\ \/ Fail(p)
             \/ Previous(p, m) = {m} /\ Skip(p, m)
             \/ Previous(p, m) = {} /\ Execute(p, m)
    BY DEF Visit
  <1>2. stage[p] = "applying"
    BY DEF Visit
  <1>3. QED
    BY <1>1, <1>2, FailStep, SkipStep, ExecuteStep

(* The row of the file that was executed; what is left is later. *)
LEMMA RecordStep ==
  ASSUME StartupInv, NEW p \in Processes, Record(p)
  PROVE  StartupInv'
  <1> DEFINE n == Len(executed[p])
             m == executed[p][n]
  <1>1. LoopIsSound(p) /\ stage[p] = "recording"
    BY DEF StartupInv, MigrationProtocol, InLoop, Record
  <1>2. n \in Nat \ {0} /\ IsNext(p, m)
    BY <1>1 DEF LoopIsSound, PassedIsRecorded, InLoop, StartupInv, StartupTypeOK
  <1>3. m \in AllFiles /\ m \in files[p] /\ files[p] \in SUBSET AllFiles
    BY <1>1, <1>2 DEF LoopIsSound, InLoop, ExecutedIsNew, StartupInv,
                      StartupTypeOK
  <1>4. StartupTypeOK'
    BY <1>3 DEF StartupInv, StartupTypeOK, Record, Goto, Stages, InTransaction
  <1>5. /\ stage'[p] = "applying" /\ files'[p] = files[p]
        /\ existing'[p] = existing[p] /\ todo'[p] = todo[p] \ {m}
        /\ executed'[p] = executed[p]
        /\ recorded'[p] = recorded[p] \cup {m} /\ pool'[p] = pool[p]
    BY DEF StartupInv, StartupTypeOK, Record, Goto
  <1>6. \A q \in Processes \ {p} :
          /\ stage'[q] = stage[q] /\ files'[q] = files[q]
          /\ existing'[q] = existing[q] /\ todo'[q] = todo[q]
          /\ executed'[q] = executed[q] /\ recorded'[q] = recorded[q]
          /\ pool'[q] = pool[q]
    BY DEF StartupInv, StartupTypeOK, Record, Goto
  <1>7. HoldersAreAlone'
    BY <1>1, <1>6 DEF StartupInv, MigrationProtocol, HoldersAreAlone, Record,
                      InTransaction
  <1>8. files[p] \in Releases /\ pool[p]
    BY <1>1 DEF StartupInv, FilesAreARelease, PoolsAreOpen, InTransaction
  <1>9. LoopIsSound(p)'
    <2>1. ExecutedIsNew(p)'
      BY <1>1, <1>5 DEF LoopIsSound, ExecutedIsNew, Record, InLoop
    <2>2. VisitedIsPresent(p)'
      BY <1>1, <1>2, <1>5 DEF LoopIsSound, VisitedIsPresent, Record, InLoop
    <2>3. PassedIsRecorded(p)'
      <3>1. /\ recorded[p] = {executed[p][i] : i \in 1..(n - 1)}
            /\ \A i \in 1..(n - 1) : \A k \in todo[p] :
                 executed[p][i].version < k.version
        BY <1>1 DEF LoopIsSound, PassedIsRecorded, InLoop
      <3>2. recorded'[p] = {executed[p][i] : i \in 1..n}
        BY <1>2, <1>5, <3>1
      <3>3. ASSUME NEW k \in todo[p] \ {m} PROVE m.version < k.version
        <4>1. k \in files[p] /\ discoverable(files[p])
          BY <1>1 DEF LoopIsSound, VisitedIsPresent, InLoop
        <4>2. m.version # k.version
          BY <1>3, <4>1 DEF discoverable
        <4>3. m.version <= k.version
          BY <1>2 DEF IsNext
        <4>4. m.version \in Nat /\ k.version \in Nat
          BY <1>3, <4>1, VersionsAreNumbers
        <4>5. QED
          BY <4>2, <4>3, <4>4
      <3>4. \A i \in 1..n : \A k \in todo[p] \ {m} :
              executed[p][i].version < k.version
        BY <1>2, <3>1, <3>3
      <3>5. QED
        BY <1>5, <3>2, <3>4 DEF PassedIsRecorded
    <2>4. discoverable(files[p])'
      BY <1>1, <1>5 DEF LoopIsSound, discoverable, WellNamed, InLoop
    <2>5. QED
      BY <1>1, <1>5, <2>1, <2>2, <2>3, <2>4 DEF LoopIsSound, InLoop, Record
  <1>10. QED
    BY <1>4, <1>5, <1>6, <1>7, <1>8, <1>9, OwnStep DEF InLoop, Record

(* What the transaction of migrate adds to the schema when it commits, seen
   index by index. *)
LEMMA CommitAppends ==
  ASSUME StartupInv, NEW p \in Processes, Commit(p)
  PROVE  /\ Len(schema) \in Nat /\ Len(executed[p]) \in Nat
         /\ schema' \in Seq(AllFiles)
         /\ Len(schema') = Len(schema) + Len(executed[p])
         /\ \A i \in 1..Len(schema) : schema'[i] = schema[i]
         /\ \A i \in 1..Len(executed[p]) :
              schema'[Len(schema) + i] = executed[p][i]
         /\ \A i \in 1..Len(schema') :
              \/ i \in 1..Len(schema)
              \/ i - Len(schema) \in 1..Len(executed[p])
  <1>1. schema \in Seq(AllFiles) /\ executed[p] \in Seq(AllFiles)
    BY DEF StartupInv, StartupTypeOK
  <1>2. schema' = schema \o executed[p]
    BY DEF Commit
  <1>3. QED
    BY <1>1, <1>2

(* At its commit the process holds the lock, has visited all its files, and
   has recorded what it has executed. *)
LEMMA CommitState ==
  ASSUME StartupInv, NEW p \in Processes, Commit(p)
  PROVE  /\ LoopIsSound(p) /\ stage[p] \in InLoop /\ stage[p] \in InTransaction
         /\ ExecutedIsNew(p) /\ discoverable(files[p])
         /\ recorded[p] = {executed[p][i] : i \in 1..Len(executed[p])}
         /\ files[p] \in Releases /\ files[p] \in SUBSET AllFiles
         /\ \A m \in files[p] :
              m \in records \/ \E i \in 1..Len(executed[p]) : executed[p][i] = m
  <1>1. stage[p] = "applying" /\ todo[p] = {}
    BY DEF Commit
  <1>2. LoopIsSound(p) /\ stage[p] \in InLoop /\ stage[p] \in InTransaction
    BY <1>1 DEF StartupInv, MigrationProtocol, InLoop, InTransaction
  <1>3. files[p] \in Releases /\ files[p] \in SUBSET AllFiles
    BY <1>1 DEF StartupInv, FilesAreARelease, StartupTypeOK
  <1>4. QED
    BY <1>1, <1>2, <1>3 DEF LoopIsSound, VisitedIsPresent, PassedIsRecorded

(* The rows and the migrations become visible together. *)
LEMMA CommitMatchesSchema ==
  ASSUME StartupInv, NEW p \in Processes, Commit(p)
  PROVE  RecordsMatchSchema'
  <1>1. records' = records \cup recorded[p]
    BY DEF Commit
  <1>2. /\ records = {schema[i] : i \in 1..Len(schema)}
        /\ \A i, j \in 1..Len(schema) :
             schema[i].version = schema[j].version => i = j
    BY DEF StartupInv, RecordsMatchSchema
  <1>3. records' = {schema'[i] : i \in 1..Len(schema')}
    <2>1. ASSUME NEW m \in records'
          PROVE  m \in {schema'[i] : i \in 1..Len(schema')}
      <3>1. CASE m \in records
        BY <1>2, <3>1, CommitAppends
      <3>2. CASE m \in recorded[p]
        <4>1. PICK i \in 1..Len(executed[p]) : m = executed[p][i]
          BY <3>2, CommitState
        <4>2. /\ Len(schema) + i \in 1..Len(schema')
              /\ schema'[Len(schema) + i] = m
          BY <4>1, CommitAppends
        <4>3. QED
          BY <4>2
      <3>3. QED
        BY <1>1, <3>1, <3>2
    <2>2. ASSUME NEW i \in 1..Len(schema')
          PROVE  schema'[i] \in records'
      <3>1. CASE i \in 1..Len(schema)
        BY <1>1, <1>2, <3>1, CommitAppends
      <3>2. CASE i - Len(schema) \in 1..Len(executed[p])
        <4>1. schema'[i] = executed[p][i - Len(schema)]
          <5>1. Len(schema) + (i - Len(schema)) = i
            BY CommitAppends
          <5>2. QED
            BY <3>2, <5>1, CommitAppends
        <4>2. QED
          BY <1>1, <3>2, <4>1, CommitState
      <3>3. QED
        BY <3>1, <3>2, CommitAppends
    <2>3. QED
      BY <2>1, <2>2
  <1>4. ASSUME NEW i \in 1..Len(schema'), NEW j \in 1..Len(schema'), i < j
        PROVE  schema'[i].version # schema'[j].version
    <2>1. CASE j \in 1..Len(schema)
      BY <1>2, <1>4, <2>1, CommitAppends
    <2>2. CASE j - Len(schema) \in 1..Len(executed[p])
      <3>1. schema'[j] = executed[p][j - Len(schema)]
        <4>1. Len(schema) + (j - Len(schema)) = j
          BY CommitAppends
        <4>2. QED
          BY <2>2, <4>1, CommitAppends
      <3>2. CASE i \in 1..Len(schema)
        <4>1. schema'[i] \in records
          BY <1>2, <3>2, CommitAppends
        <4>2. QED
          BY <2>2, <3>1, <4>1, CommitState DEF ExecutedIsNew
      <3>3. CASE i - Len(schema) \in 1..Len(executed[p])
        <4>1. schema'[i] = executed[p][i - Len(schema)]
          <5>1. Len(schema) + (i - Len(schema)) = i
            BY CommitAppends
          <5>2. QED
            BY <3>3, <5>1, CommitAppends
        <4>2. i - Len(schema) < j - Len(schema)
          BY <1>4, CommitAppends
        <4>3. executed[p][i - Len(schema)].version
                < executed[p][j - Len(schema)].version
          BY <2>2, <3>3, <4>2, CommitState DEF ExecutedIsNew
        <4>4. /\ executed[p][i - Len(schema)].version \in Nat
              /\ executed[p][j - Len(schema)].version \in Nat
          <5>1. /\ executed[p][i - Len(schema)] \in files[p]
                /\ executed[p][j - Len(schema)] \in files[p]
            BY <2>2, <3>3, CommitState DEF ExecutedIsNew
          <5>2. files[p] \in SUBSET AllFiles /\ discoverable(files[p])
            BY CommitState
          <5>3. QED
            BY <5>1, <5>2, VersionsAreNumbers
        <4>5. QED
          BY <3>1, <4>1, <4>3, <4>4
      <3>4. QED
        BY <3>2, <3>3, CommitAppends
    <2>3. QED
      BY <2>1, <2>2, CommitAppends
  <1>5. \A i, j \in 1..Len(schema') :
          schema'[i].version = schema'[j].version => i = j
    <2>1. \A i, j \in 1..Len(schema') : i < j \/ j < i \/ i = j
      OBVIOUS
    <2>2. QED
      BY <1>4, <2>1
  <1>6. QED
    BY <1>3, <1>5 DEF RecordsMatchSchema

(* COMMIT, whether or not its answer arrives. *)
LEMMA CommitStep ==
  ASSUME StartupInv, NEW p \in Processes, Commit(p)
  PROVE  StartupInv'
  <1>1. RecordsMatchSchema' /\ schema' \in Seq(AllFiles)
    BY CommitMatchesSchema, CommitAppends
  <1>2. records' = records \cup recorded[p] /\ records' \subseteq AllFiles
    BY DEF Commit, StartupInv, StartupTypeOK
  <1>3. EndTransaction(p)
    BY DEF Commit
  <1>4. \A q \in Processes \ {p} :
          stage[q] \notin InTransaction /\ stage'[q] = stage[q]
    BY CommitState, OthersAreIdle
       DEF StartupInv, StartupTypeOK, Commit, Leave, Goto
  <1>5. \A q \in Processes \ {p} : LoopIsSound(q)'
    BY <1>4 DEF LoopIsSound, InLoop, InTransaction
  <1>6. CASE Leave(p)
    BY <1>1, <1>2, <1>3, <1>5, <1>6, LeaveStep DEF Commit
  <1>7. CASE p \in Servers /\ Goto(p, "serving") /\ UNCHANGED <<files, pool>>
    <2>1. StartupTypeOK'
      <3>1. <<>> \in Seq(AllFiles)
        OBVIOUS
      <3>2. QED
        BY <1>1, <1>2, <1>3, <1>7, <3>1
           DEF StartupInv, StartupTypeOK, EndTransaction, Goto, Stages
    <2>2. stage'[p] = "serving" /\ executed'[p] = <<>> /\ recorded'[p] = {}
      BY <1>3, <1>7 DEF StartupInv, StartupTypeOK, EndTransaction, Goto
    <2>3. \A q \in Processes \ {p} :
            executed'[q] = executed[q] /\ recorded'[q] = recorded[q]
      BY <1>3 DEF StartupInv, StartupTypeOK, EndTransaction
    <2>4. HoldersAreAlone'
      BY <1>4, <2>2 DEF HoldersAreAlone, InTransaction
    <2>5. FramesAreClean'
      BY <1>4, <2>2, <2>3 DEF StartupInv, MigrationProtocol, FramesAreClean
    <2>6. LoopIsSound(p)'
      BY <2>2 DEF LoopIsSound, InLoop
    <2>7. pool[p] /\ files[p] \in Releases
      BY CommitState DEF StartupInv, PoolsAreOpen
    <2>8. PoolsAreOpen' /\ FilesAreARelease'
      BY <1>4, <1>7, <2>2, <2>7
         DEF StartupInv, PoolsAreOpen, FilesAreARelease, InTransaction
    <2>9. ServersAreCurrent'
      <3>1. files[p] \subseteq records'
        BY <1>2, CommitState
      <3>2. QED
        BY <1>2, <1>4, <1>7, <2>7, <3>1
           DEF StartupInv, ServersAreCurrent, Processes
    <2>10. PoolsAreIdle'
      BY <1>4, <1>7, <2>2 DEF StartupInv, PoolsAreIdle, Idle, Processes
    <2>11. QED
      BY <1>1, <1>5, <2>1, <2>4, <2>5, <2>6, <2>8, <2>9, <2>10
         DEF StartupInv, MigrationProtocol
  <1>8. QED
    BY <1>6, <1>7 DEF Commit

(* The end of the lifespan, in which a server goes to its finally clause. *)
LEMMA ShutdownStep ==
  ASSUME StartupInv, NEW p \in Processes, Shutdown(p)
  PROVE  StartupInv'
  <1>1. StartupTypeOK'
    BY DEF StartupInv, StartupTypeOK, Shutdown, Leave, Goto, txn, Stages
  <1>2. /\ stage[p] = "serving" /\ pool'[p] = pool[p]
        /\ stage'[p] \in {"closing", "ended"}
        /\ p \in Servers => stage'[p] = "closing"
    BY DEF StartupInv, StartupTypeOK, Shutdown, Leave, Guarded, Goto
  <1>3. \A q \in Processes \ {p} :
          /\ stage'[q] = stage[q] /\ files'[q] = files[q] /\ pool'[q] = pool[q]
    BY DEF StartupInv, StartupTypeOK, Shutdown, Leave, Goto
  <1>4. UNCHANGED <<records, schema, lock, existing, todo, executed, recorded>>
    BY DEF Shutdown, txn
  <1>5. HoldersAreAlone'
    BY <1>2, <1>3, <1>4
       DEF StartupInv, MigrationProtocol, HoldersAreAlone, InTransaction
  <1>6. FramesAreClean'
    BY <1>2, <1>3, <1>4
       DEF StartupInv, MigrationProtocol, FramesAreClean, InLoop
  <1>7. LoopIsSound(p)'
    BY <1>2 DEF LoopIsSound, InLoop
  <1>8. \A q \in Processes \ {p} : LoopIsSound(q)'
    BY <1>3, <1>4, LoopUnchanged DEF StartupInv, MigrationProtocol
  <1>9. PoolsAreOpen' /\ FilesAreARelease'
    BY <1>2, <1>3 DEF StartupInv, PoolsAreOpen, FilesAreARelease, InTransaction
  <1>10. ServersAreCurrent' /\ PoolsAreIdle'
    BY <1>2, <1>3, <1>4
       DEF StartupInv, ServersAreCurrent, PoolsAreIdle, Idle, Processes
  <1>11. RecordsMatchSchema'
    BY <1>4, SchemaUnchanged DEF StartupInv
  <1>12. QED
    BY <1>1, <1>5, <1>6, <1>7, <1>8, <1>9, <1>10, <1>11
       DEF StartupInv, MigrationProtocol

(* Every step of every process. *)
LEMMA StartupNext ==
  ASSUME StartupInv, [Next]_vars
  PROVE  StartupInv'
  <1>1. CASE UNCHANGED vars
    <2>1. \A q \in Processes : LoopIsSound(q)'
      BY <1>1, LoopUnchanged DEF vars, txn, StartupInv, MigrationProtocol
    <2>2. StartupTypeOK' /\ HoldersAreAlone' /\ FramesAreClean'
      BY <1>1 DEF vars, txn, StartupInv, StartupTypeOK, MigrationProtocol,
                  HoldersAreAlone, FramesAreClean
    <2>3. RecordsMatchSchema'
      BY <1>1, SchemaUnchanged DEF vars, StartupInv
    <2>4. PoolsAreOpen' /\ FilesAreARelease' /\ ServersAreCurrent'
      BY <1>1 DEF vars, StartupInv, PoolsAreOpen, FilesAreARelease,
                  ServersAreCurrent
    <2>5. PoolsAreIdle'
      BY <1>1 DEF vars, StartupInv, PoolsAreIdle
    <2>6. QED
      BY <2>1, <2>2, <2>3, <2>4, <2>5 DEF StartupInv, MigrationProtocol
  <1>2. CASE Next
    <2>1. PICK p \in Processes :
            \/ \E release \in Releases, env \in Environments :
                 Start(p, release, env)
            \/ StartupStep(p)
            \/ OpenTimeout(p) \/ Interrupt(p) \/ Shutdown(p) \/ Kill(p)
      BY <1>2 DEF Next
    <2>2. CASE \E release \in Releases, env \in Environments :
                 Start(p, release, env)
      BY <2>2, StartStep
    <2>3. CASE StartupStep(p)
      BY <2>3, OpenStep, TakeLockStep, InspectStep, VisitStep, RecordStep,
         CommitStep, FinallyStep DEF StartupStep
    <2>4. CASE OpenTimeout(p) \/ Interrupt(p)
      BY <2>4, FailStep DEF OpenTimeout, Interrupt, InTransaction
    <2>5. CASE Shutdown(p) \/ Kill(p)
      BY <2>5, ShutdownStep, KillStep
    <2>6. QED
      BY <2>1, <2>2, <2>3, <2>4, <2>5
  <1>3. QED
    BY <1>1, <1>2

(***************************************************************************)
(* Whatever releases processes are started with, and however they fail:    *)
(* the invariant above holds in every state.                               *)
(***************************************************************************)
THEOREM StartupInvariant == Spec => []StartupInv
  <1>1. Init => StartupInv
    BY StartupInitially
  <1>2. StartupInv /\ [Next]_vars => StartupInv'
    BY StartupNext
  <1>3. QED
    BY <1>1, <1>2, PTL DEF Spec

(***************************************************************************)
(* The type invariant of Settings, pool and migrate.                       *)
(***************************************************************************)
THEOREM StartupTypeCorrect == Spec => []StartupTypeOK
  <1>1. StartupInv => StartupTypeOK
    BY DEF StartupInv
  <1>2. QED
    BY <1>1, StartupInvariant, PTL

(***************************************************************************)
(* schema_migrations and the schema never disagree: the INSERT of a row    *)
(* and the SQL of its file commit or roll back together.                   *)
(***************************************************************************)
THEOREM StartupRecords == Spec => []RecordsMatchSchema
  <1>1. StartupInv => RecordsMatchSchema
    BY DEF StartupInv
  <1>2. QED
    BY <1>1, StartupInvariant, PTL

(***************************************************************************)
(* A server that serves has its whole release in the database and an open  *)
(* pool, whatever other processes do.                                      *)
(***************************************************************************)
THEOREM StartupServes == Spec => []ServersAreCurrent
  <1>1. StartupInv => ServersAreCurrent
    BY DEF StartupInv
  <1>2. QED
    BY <1>1, StartupInvariant, PTL

(***************************************************************************)
(* Wherever an exception strikes and however the lifespan ends, every path *)
(* past the opening of the pool leads through the finally clause: the pool *)
(* that a server opened has been closed, and the one it was given has not. *)
(***************************************************************************)
THEOREM StartupPools == Spec => []PoolsAreReturned
  <1>1. StartupInv => PoolsAreReturned
    BY DEF StartupInv, PoolsAreIdle, PoolsAreReturned, Idle
  <1>2. QED
    BY <1>1, StartupInvariant, PTL

(***************************************************************************)
(* Under the advisory lock no process finds the tables it is about to      *)
(* create, neither committed nor in another's transaction.                 *)
(***************************************************************************)
THEOREM StartupCollisions == Spec => []NoCollisions
  <1>1. StartupInv => NoCollisions
    <2> SUFFICES ASSUME StartupInv, NEW p \in Processes, NEW m \in AllFiles,
                        stage[p] = "applying", Previous(p, m) = {}
                 PROVE  ~ Exists(m) /\ ~ InFlight(p, m)
      BY DEF NoCollisions
    <2>1. existing[p] = records
      BY DEF StartupInv, MigrationProtocol, LoopIsSound, InLoop
    <2>2. ~ Exists(m)
      BY <2>1 DEF StartupInv, RecordsMatchSchema, Previous, Exists
    <2>3. \A q \in Processes \ {p} : executed[q] = <<>>
      BY OthersAreIdle DEF StartupInv, InTransaction
    <2>4. ~ InFlight(p, m)
      BY <2>3 DEF InFlight
    <2>5. QED
      BY <2>2, <2>4
  <1>2. QED
    BY <1>1, StartupInvariant, PTL

-----------------------------------------------------------------------------
(* Cardinality is the same operator inside the instance. *)
LEMMA SameCardinality == \A S : Abstract!Cardinality(S) = Cardinality(S)
BY DEF Abstract!Cardinality, Cardinality

(* A sequence without repetitions has as many elements as positions. *)
LEMMA DistinctElements ==
  ASSUME NEW S, NEW s \in Seq(S),
         \A i, j \in 1..Len(s) : i < j => s[i] # s[j]
  PROVE  Cardinality({s[i] : i \in 1..Len(s)}) = Len(s)
  <1> DEFINE T == {s[i] : i \in 1..Len(s)}
             f == [i \in 1..Len(s) |-> s[i]]
  <1>1. Len(s) \in Nat
    OBVIOUS
  <1>2. IsFiniteSet(1..Len(s)) /\ Cardinality(1..Len(s)) = Len(s)
    <2>1. IsFiniteSet(1..Len(s)) /\ Cardinality(1..Len(s))
                                     = IF 1 > Len(s) THEN 0 ELSE Len(s) - 1 + 1
      BY <1>1, FS_Interval, 1 \in Int, Len(s) \in Int, Zenon
    <2>2. (IF 1 > Len(s) THEN 0 ELSE Len(s) - 1 + 1) = Len(s)
      BY <1>1
    <2>3. QED
      BY <2>1, <2>2
  <1>3. f \in [1..Len(s) -> T] /\ \A t \in T : \E i \in 1..Len(s) : f[i] = t
    OBVIOUS
  <1>4. \A i, j \in 1..Len(s) : f[i] = f[j] => i = j
    <2>1. \A i, j \in 1..Len(s) : i < j \/ j < i \/ i = j
      BY <1>1
    <2>2. QED
      BY <2>1
  <1>5. f \in Bijection(1..Len(s), T)
    BY <1>3, <1>4 DEF Bijection, Injection, Surjection, IsInjective
  <1>6. ExistsBijection(1..Len(s), T)
    BY <1>5 DEF ExistsBijection
  <1>7. QED
    BY <1>2, <1>6, FS_Bijection

(***************************************************************************)
(* COMMIT is the upgrade of SchemaHistory with the release of the process. *)
(***************************************************************************)
LEMMA CommitUpgrades ==
  ASSUME StartupInv, NEW p \in Processes, Commit(p)
  PROVE  Abstract!Upgrade(files[p])
  <1> DEFINE e == executed[p]
  <1>1. Abstract!Applied = records
    BY DEF Abstract!Applied, StartupInv, RecordsMatchSchema
  <1>2. Abstract!Missing(files[p]) = {e[i] : i \in 1..Len(e)}
    <2>1. \A i \in 1..Len(e) : e[i] \in files[p] /\ e[i] \notin records
      BY CommitState DEF ExecutedIsNew
    <2>2. \A m \in files[p] \ records : \E i \in 1..Len(e) : e[i] = m
      BY CommitState
    <2>3. QED
      BY <1>1, <2>1, <2>2 DEF Abstract!Missing
  <1>3. \A i, j \in 1..Len(e) : i < j => e[i].version < e[j].version
    BY CommitState DEF ExecutedIsNew
  <1>4. Cardinality(Abstract!Missing(files[p])) = Len(e)
    <2>1. ASSUME NEW i \in 1..Len(e), NEW j \in 1..Len(e), i < j
          PROVE  e[i] # e[j]
      <3>1. e[i].version \in Nat
        BY CommitState, VersionsAreNumbers DEF ExecutedIsNew
      <3>2. QED
        BY <1>3, <2>1, <3>1
    <2>2. e \in Seq(AllFiles)
      BY DEF StartupInv, StartupTypeOK
    <2>3. QED
      BY <1>2, <2>1, <2>2, DistinctElements
  <1>5. Abstract!Compatible(files[p])
    <2> SUFFICES ASSUME NEW m \in files[p], NEW n \in records,
                        m.version = n.version
                 PROVE  m = n
      BY <1>1 DEF Abstract!Compatible
    <2>1. m \in records
      BY CommitState DEF ExecutedIsNew
    <2>2. QED
      BY <2>1 DEF StartupInv, RecordsMatchSchema
  <1> DEFINE new == Len(schema) + 1 .. Len(schema')
  <1>6. \A i \in new : /\ i - Len(schema) \in 1..Len(e)
                       /\ schema'[i] = e[i - Len(schema)]
    <2>1. \A i \in new : /\ i - Len(schema) \in 1..Len(e)
                         /\ Len(schema) + (i - Len(schema)) = i
      BY CommitAppends
    <2>2. QED
      BY <2>1, CommitAppends
  <1>7. {schema'[i] : i \in new} = {e[i] : i \in 1..Len(e)}
    <2>1. \A i \in 1..Len(e) : /\ Len(schema) + i \in new
                               /\ schema'[Len(schema) + i] = e[i]
      BY CommitAppends
    <2>2. {schema'[i] : i \in new} \subseteq {e[i] : i \in 1..Len(e)}
      BY <1>6
    <2>3. {e[i] : i \in 1..Len(e)} \subseteq {schema'[i] : i \in new}
      <3> SUFFICES ASSUME NEW i \in 1..Len(e)
                   PROVE  e[i] \in {schema'[k] : k \in new}
        OBVIOUS
      <3>1. QED
        BY <2>1
    <2>4. QED
      BY <2>2, <2>3
  <1>8. \A i, j \in new : i < j => schema'[i].version < schema'[j].version
    <2>1. \A i, j \in new : i < j => i - Len(schema) < j - Len(schema)
      BY CommitAppends
    <2>2. QED
      BY <1>3, <1>6, <2>1
  <1>9. Len(schema')
          = Len(schema) + Abstract!Cardinality(Abstract!Missing(files[p]))
    BY <1>4, CommitAppends, SameCardinality
  <1>10. \A i \in 1..Len(schema) : schema'[i] = schema[i]
    BY CommitAppends
  <1>11. QED
    BY <1>2, <1>5, <1>7, <1>8, <1>9, <1>10 DEF Abstract!Upgrade

(***************************************************************************)
(* The migrations of all processes, interleaved, interrupted and repeated, *)
(* amount to whole releases applied one at a time.                         *)
(***************************************************************************)
THEOREM StartupImplementsHistory == Spec => ImplementsHistory
  <1>1. Init => schema = <<>>
    BY DEF Init
  <1>2. StartupInv /\ [Next]_vars
          => [Abstract!HistoryNext]_schema
    <2> SUFFICES ASSUME StartupInv, [Next]_vars, schema' # schema
                 PROVE  Abstract!HistoryNext
      OBVIOUS
    <2>1. PICK p \in Processes : Commit(p)
      BY DEF Next, vars, StartupStep, Start, Open, OpenTimeout, TakeLock,
             Inspect, Visit, Skip, Execute, Record, Interrupt, Shutdown, Fail,
             Finally, Kill
    <2>2. QED
      BY <2>1, CommitState, CommitUpgrades DEF Abstract!HistoryNext
  <1>3. QED
    BY <1>1, <1>2, StartupInvariant, PTL
       DEF Spec, ImplementsHistory, Abstract!HistorySpec

=============================================================================
