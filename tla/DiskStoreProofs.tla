--------------------------- MODULE DiskStoreProofs ---------------------------
(***************************************************************************)
(* Theorems about DiskStore, for every number of records and of saves that *)
(* overlap.                                                                *)
(***************************************************************************)
EXTENDS DiskStore, TLAPS

-----------------------------------------------------------------------------
(* Type correctness                                                        *)

\* The seed is a store.
LEMMA SeedType == Seed \in Versions
  BY DiskStoreAssumption DEF Seed, Versions

\* The initial state is well typed.
LEMMA TypeInit == Init => TypeOK
  BY SeedType, DiskStoreAssumption DEF Init, TypeOK

\* A start leaves the type right, whatever it loads.
LEMMA StartType ==
    ASSUME TypeOK, NEW s \in Savers, NEW records \in Versions, StartWith(s, records),
           troubles' \in 0 .. MaxTroubles, durable' \in Versions
    PROVE  TypeOK'
  BY DEF TypeOK, StartWith

\* The saves that return leave the type right, whatever they did to the disk.
LEMMA ReturnType ==
    ASSUME TypeOK, NEW s \in Savers, Return(s)
    PROVE  /\ pc' \in [Savers -> {"idle", "queued", "encoded", "written"}]
           /\ buf' \in [Savers -> Versions]
           /\ process' = "serving"
  BY SeedType DEF TypeOK, Return

\* A stop or a failed save is counted within the bound.
LEMMA TroubleType ==
    ASSUME TypeOK, Trouble
    PROVE  troubles' \in 0 .. MaxTroubles
  BY DiskStoreAssumption DEF TypeOK, Trouble

\* A write leaves the type right.
LEMMA WriteType ==
    ASSUME TypeOK, NEW k \in Records, NEW s \in Savers, Write(k, s)
    PROVE  /\ mem'[k] \in 1 .. MaxVersion
           /\ mem'[k] = IF mem[k] = committed[k] THEN mem[k] + 1 ELSE mem[k]
           /\ committed'[k] = mem'[k]
           /\ \A j \in Records \ {k} : mem'[j] = mem[j] /\ committed'[j] = committed[j]
           /\ mem' \in Versions
           /\ committed' \in Versions
  <1>1. mem[k] \in 1 .. MaxVersion /\ committed[k] \in 1 .. MaxVersion
    BY DEF TypeOK, Versions
  <1>2. mem'[k] = IF mem[k] = committed[k] THEN mem[k] + 1 ELSE mem[k]
    BY DEF Write, TypeOK, Versions
  <1>3. mem'[k] \in 1 .. MaxVersion
    BY <1>1, <1>2, DiskStoreAssumption DEF Write
  <1>4. mem' = [mem EXCEPT ![k] = mem'[k]] /\ committed' = [committed EXCEPT ![k] = mem'[k]]
    BY <1>2 DEF Write, TypeOK, Versions
  <1>5. QED
    BY <1>2, <1>3, <1>4 DEF TypeOK, Versions

\* Every step keeps the type.
LEMMA TypeStep == TypeOK /\ [Next]_vars => TypeOK'
  <1> SUFFICES ASSUME TypeOK, [Next]_vars
               PROVE  TypeOK'
    OBVIOUS
  <1>1. CASE UNCHANGED vars
    BY <1>1 DEF vars, TypeOK
  <1>2. ASSUME NEW s \in Savers, StartLoaded(s)
        PROVE  TypeOK'
    BY <1>2, StartType DEF StartLoaded, TypeOK
  <1>3. ASSUME NEW s \in Savers, StartSeeded(s)
        PROVE  TypeOK'
    BY <1>3, StartType, SeedType DEF StartSeeded, TypeOK
  <1>4. ASSUME NEW s \in Savers, StartOver(s)
        PROVE  TypeOK'
    BY <1>4, StartType, SeedType, TroubleType DEF StartOver
  <1>5. ASSUME NEW k \in Records, ChangeInPlace(k)
        PROVE  TypeOK'
    <2>1. mem[k] + 1 \in 1 .. MaxVersion
      BY <1>5, DiskStoreAssumption DEF ChangeInPlace, TypeOK, Versions
    <2>2. mem' \in Versions
      BY <1>5, <2>1 DEF ChangeInPlace, TypeOK, Versions
    <2>3. QED
      BY <1>5, <2>2 DEF ChangeInPlace, TypeOK
  <1>6. ASSUME NEW k \in Records, NEW s \in Savers, Write(k, s)
        PROVE  TypeOK'
    BY <1>6, WriteType DEF Write, TypeOK
  <1>7. ASSUME NEW s \in Savers, Encode(s)
        PROVE  TypeOK'
    BY <1>7 DEF Encode, TypeOK
  <1>8. ASSUME NEW s \in Savers, WriteTemporary(s)
        PROVE  TypeOK'
    BY <1>8 DEF WriteTemporary, TypeOK
  <1>9. ASSUME NEW s \in Savers, Rename(s)
        PROVE  TypeOK'
    <2>1. buf[s] \in Versions
      BY DEF TypeOK
    <2>2. \A k \in Records : Saved(s, k) \in 1 .. MaxVersion
      BY <2>1 DEF Saved, TypeOK, Versions
    <2>3. durable' \in Versions
      BY <1>9, <2>2 DEF Rename, TypeOK, Versions
    <2>4. QED
      BY <1>9, <2>1, <2>3, ReturnType DEF Rename, TypeOK
  <1>10. ASSUME NEW s \in Savers, FailSave(s)
         PROVE  TypeOK'
    BY <1>10, ReturnType, TroubleType DEF FailSave, TypeOK
  <1>11. CASE Stop
    BY <1>11, SeedType, TroubleType DEF Stop, TypeOK
  <1>12. QED
    BY <1>1, <1>2, <1>3, <1>4, <1>5, <1>6, <1>7, <1>8, <1>9, <1>10, <1>11
       DEF Next, SaveToFile

\* Every reachable state is well typed: what is loaded, encoded and renamed is a
\* whole store.
THEOREM TypeCorrect == Spec => []TypeOK
  BY TypeInit, TypeStep, PTL DEF Spec
-----------------------------------------------------------------------------
(* Durability.  The invariant says why saves may overlap: a snapshot that  *)
(* waits to be renamed is as new as every committed version, because no    *)
(* write can happen while its read lock is held.                           *)

SnapshotsCurrent ==
    \A s \in Savers : pc[s] \in {"encoded", "written"} =>
        \A k \in Records : buf[s][k] >= committed[k]

DownMeansIdle == process = "down" => \A s \in Savers : pc[s] = "idle"

CommittedBetween ==
    process # "down" => \A k \in Records :
        durable[k] <= committed[k] /\ committed[k] <= mem[k]

DiskKeepsDurable ==
    \A k \in Records : IF disk = NoFile THEN durable[k] = 1 ELSE disk[k] >= durable[k]

DurableInv ==
    /\ SnapshotsCurrent
    /\ DownMeansIdle
    /\ CommittedBetween
    /\ DiskKeepsDurable

\* At the beginning nothing is durable but the seed.
LEMMA DurableInit == Init => DurableInv
  BY DEF Init, DurableInv, SnapshotsCurrent, DownMeansIdle, CommittedBetween,
         DiskKeepsDurable, Seed

\* A start that brings back the durable records keeps the invariant.
LEMMA StartStep ==
    ASSUME TypeOK, DurableInv, NEW s \in Savers, NEW records \in Versions,
           StartWith(s, records), \A k \in Records : durable'[k] <= records[k],
           DiskKeepsDurable'
    PROVE  DurableInv'
  <1>1. process = "down" /\ process' = "starting" /\ pc' = [pc EXCEPT ![s] = "queued"]
        /\ mem' = records /\ committed' = records
    BY DEF StartWith
  <1>2. \A t \in Savers : pc'[t] \in {"idle", "queued"}
    BY <1>1 DEF DurableInv, DownMeansIdle, TypeOK
  <1>3. SnapshotsCurrent' /\ DownMeansIdle'
    BY <1>1, <1>2 DEF SnapshotsCurrent, DownMeansIdle
  <1>4. CommittedBetween'
    BY <1>1 DEF CommittedBetween, Versions
  <1>5. QED
    BY <1>3, <1>4 DEF DurableInv

\* Every step keeps what is durable.
LEMMA DurableStep == DurableInv /\ TypeOK /\ [Next]_vars => DurableInv'
  <1> SUFFICES ASSUME DurableInv, TypeOK, [Next]_vars
               PROVE  DurableInv'
    OBVIOUS
  <1> USE DEF DurableInv
  <1>0. \A k \in Records : /\ mem[k] \in Int /\ committed[k] \in Int /\ durable[k] \in Int
                           /\ durable[k] >= 1
                           /\ \A s \in Savers : buf[s][k] \in Int
                           /\ disk # NoFile => disk[k] \in Int
    BY DEF TypeOK, Versions
  <1>1. CASE UNCHANGED vars
    BY <1>1 DEF vars, SnapshotsCurrent, DownMeansIdle, CommittedBetween, DiskKeepsDurable
  <1>2. ASSUME NEW s \in Savers, StartLoaded(s)
        PROVE  DurableInv'
    <2>1. disk \in Versions /\ UNCHANGED <<durable, disk>> /\ StartWith(s, disk)
      BY <1>2 DEF StartLoaded, StartWith, TypeOK
    <2>2. \A k \in Records : durable'[k] <= disk[k]
      BY <1>0, <1>2, <2>1 DEF StartLoaded, DiskKeepsDurable
    <2>3. DiskKeepsDurable'
      BY <2>1 DEF DiskKeepsDurable
    <2>4. QED
      BY <2>1, <2>2, <2>3, StartStep
  <1>3. ASSUME NEW s \in Savers, StartSeeded(s)
        PROVE  DurableInv'
    <2>1. disk = NoFile /\ UNCHANGED <<durable, disk>> /\ StartWith(s, Seed)
      BY <1>3 DEF StartSeeded, StartWith
    <2>2. \A k \in Records : durable'[k] <= Seed[k]
      BY <2>1 DEF DiskKeepsDurable, Seed
    <2>3. DiskKeepsDurable'
      BY <2>1 DEF DiskKeepsDurable
    <2>4. QED
      BY <2>1, <2>2, <2>3, SeedType, StartStep
  <1>4. ASSUME NEW s \in Savers, StartOver(s)
        PROVE  DurableInv'
    <2>1. disk \in Versions /\ disk # NoFile /\ durable' = Seed /\ disk' = disk
          /\ StartWith(s, Seed)
      BY <1>4 DEF StartOver, StartWith, TypeOK
    <2>2. DiskKeepsDurable'
      BY <2>1, <1>0 DEF DiskKeepsDurable, Seed, Versions
    <2>3. \A k \in Records : durable'[k] <= Seed[k]
      BY <2>1 DEF Seed
    <2>4. QED
      BY <2>1, <2>2, <2>3, SeedType, StartStep
  <1>5. ASSUME NEW k \in Records, ChangeInPlace(k)
        PROVE  DurableInv'
    <2>1. \A j \in Records : mem'[j] >= mem[j]
      BY <1>0, <1>5 DEF ChangeInPlace, TypeOK, Versions
    <2>2. mem' \in [Records -> Int]
      BY <1>0, <1>5 DEF ChangeInPlace, TypeOK, Versions
    <2>3. CommittedBetween'
      BY <1>0, <1>5, <2>1, <2>2 DEF ChangeInPlace, CommittedBetween
    <2>4. QED
      BY <1>5, <2>3 DEF ChangeInPlace, SnapshotsCurrent, DownMeansIdle, DiskKeepsDurable
  <1>6. ASSUME NEW k \in Records, NEW s \in Savers, Write(k, s)
        PROVE  DurableInv'
    <2>1. ~ReadLocked /\ pc' = [pc EXCEPT ![s] = "queued"] /\ process = "serving"
          /\ UNCHANGED <<process, buf, disk, durable>>
      BY <1>6 DEF Write
    <2>2. \A t \in Savers : pc'[t] \notin {"encoded", "written"}
      BY <2>1 DEF ReadLocked, TypeOK
    <2>3. CommittedBetween'
      BY <1>0, <1>6, <2>1, WriteType DEF CommittedBetween
    <2>4. QED
      BY <2>1, <2>2, <2>3 DEF SnapshotsCurrent, DownMeansIdle, DiskKeepsDurable
  <1>7. ASSUME NEW s \in Savers, Encode(s)
        PROVE  DurableInv'
    <2>1. PICK snapshot \in Versions :
            /\ \A k \in Records : snapshot[k] \in {committed[k], mem[k]}
            /\ buf' = [buf EXCEPT ![s] = snapshot]
      BY <1>7 DEF Encode
    <2>2. process # "down"
      BY <1>7 DEF Encode, DownMeansIdle
    <2>3. \A k \in Records : snapshot[k] >= committed[k]
      BY <1>0, <2>1, <2>2 DEF CommittedBetween
    <2>4. SnapshotsCurrent'
      BY <1>7, <2>1, <2>3 DEF Encode, SnapshotsCurrent, TypeOK
    <2>5. QED
      BY <1>7, <2>2, <2>4 DEF Encode, DownMeansIdle, CommittedBetween, DiskKeepsDurable
  <1>8. ASSUME NEW s \in Savers, WriteTemporary(s)
        PROVE  DurableInv'
    <2>1. process # "down"
      BY <1>8 DEF WriteTemporary, DownMeansIdle
    <2>2. SnapshotsCurrent'
      BY <1>8 DEF WriteTemporary, SnapshotsCurrent, TypeOK
    <2>3. QED
      BY <1>8, <2>1, <2>2 DEF WriteTemporary, DownMeansIdle, CommittedBetween,
         DiskKeepsDurable
  <1>9. ASSUME NEW s \in Savers, Return(s), UNCHANGED <<mem, committed>>,
               pc[s] \in {"encoded", "written"}
        PROVE  SnapshotsCurrent' /\ DownMeansIdle'
    BY <1>9 DEF Return, SnapshotsCurrent, DownMeansIdle, TypeOK
  <1>10. ASSUME NEW s \in Savers, Rename(s)
         PROVE  DurableInv'
    <2>1. process # "down"
      BY <1>10 DEF Rename, DownMeansIdle
    <2>2. \A k \in Records : buf[s][k] >= committed[k] /\ durable[k] <= committed[k]
      BY <1>10, <2>1 DEF Rename, SnapshotsCurrent, CommittedBetween
    <2>3. \A k \in Records : Saved(s, k) = committed[k]
      BY <1>0, <2>2 DEF Saved
    <2>4. \A k \in Records : durable'[k] = committed[k]
      BY <1>0, <1>10, <2>2, <2>3 DEF Rename
    <2>5. disk' = buf[s] /\ disk' # NoFile
      BY <1>10, DiskStoreAssumption DEF Rename, TypeOK, Versions
    <2>6. DiskKeepsDurable'
      BY <2>2, <2>4, <2>5 DEF DiskKeepsDurable
    <2>7. CommittedBetween'
      BY <1>0, <1>10, <2>1, <2>4 DEF Rename, CommittedBetween
    <2>8. QED
      BY <1>9, <1>10, <2>6, <2>7 DEF Rename
  <1>11. ASSUME NEW s \in Savers, FailSave(s)
         PROVE  DurableInv'
    <2>1. process # "down"
      BY <1>11 DEF FailSave, DownMeansIdle
    <2>2. QED
      BY <1>9, <1>11, <2>1 DEF FailSave, CommittedBetween, DiskKeepsDurable
  <1>12. CASE Stop
    BY <1>12 DEF Stop, SnapshotsCurrent, DownMeansIdle, CommittedBetween, DiskKeepsDurable
  <1>13. QED
    BY <1>1, <1>2, <1>3, <1>4, <1>5, <1>6, <1>7, <1>8, <1>10, <1>11, <1>12
       DEF Next, SaveToFile

(***************************************************************************)
(* A committed change that reached the disk is never lost, neither to a    *)
(* save that comes late nor to a restart.                                  *)
(***************************************************************************)
THEOREM DurableIsNeverLost == Spec => []DurableNeverLost
  <1>1. DurableInv /\ TypeOK => DurableNeverLost
    <2> SUFFICES ASSUME DurableInv, TypeOK, NEW k \in Records
                 PROVE  /\ disk # NoFile => disk[k] >= durable[k]
                        /\ process # "down" => mem[k] >= durable[k]
      BY DEF DurableNeverLost
    <2>1. mem[k] \in Int /\ committed[k] \in Int /\ durable[k] \in Int
      BY DEF TypeOK, Versions
    <2>2. QED
      BY <2>1 DEF DurableInv, CommittedBetween, DiskKeepsDurable
  <1>2. QED
    BY <1>1, DurableInit, DurableStep, TypeCorrect, PTL DEF Spec
-----------------------------------------------------------------------------
(* What is owed to the disk.  A change that came before a stop or a failed *)
(* save is given up; the others have a save under way, which by            *)
(* SnapshotsCurrent has every committed version once it has its snapshot.  *)

SinceBounded == \A k \in Records : since[k] <= troubles

OwedInv == SinceBounded /\ WritesAreOwed

\* At the beginning nothing is owed: no process runs.
LEMMA OwedInit == Init => OwedInv
  BY DEF Init, OwedInv, SinceBounded, WritesAreOwed

\* A start owes the disk what it loaded or seeded.
LEMMA StartOwes ==
    ASSUME TypeOK, DurableInv, SinceBounded, NEW s \in Savers, NEW records,
           StartWith(s, records), troubles' \in {troubles, troubles + 1}
    PROVE  OwedInv'
  <1>1. pc'[s] = "queued"
    BY DEF StartWith, TypeOK
  <1>2. SinceBounded'
    BY DEF StartWith, SinceBounded, TypeOK
  <1>3. QED
    BY <1>1, <1>2 DEF OwedInv, WritesAreOwed, Saving

\* A save that fails takes what it owed with it: every change came before.
LEMMA TroubleForgives ==
    ASSUME TypeOK, SinceBounded, Trouble, UNCHANGED since
    PROVE  OwedInv'
  <1>1. \A k \in Records : since'[k] < troubles'
    BY DEF Trouble, TypeOK, SinceBounded
  <1>2. \A k \in Records : since'[k] \in Int
    BY DEF TypeOK
  <1>3. troubles' \in Int
    BY DEF TypeOK, Trouble
  <1>4. QED
    BY <1>1, <1>2, <1>3 DEF OwedInv, SinceBounded, WritesAreOwed

\* Every step keeps what is owed, or pays it.
LEMMA OwedStep == OwedInv /\ DurableInv /\ TypeOK /\ [Next]_vars => OwedInv'
  <1> SUFFICES ASSUME OwedInv, DurableInv, TypeOK, [Next]_vars
               PROVE  OwedInv'
    OBVIOUS
  <1>0. SinceBounded /\ WritesAreOwed
    BY DEF OwedInv
  <1>1. CASE UNCHANGED vars
    BY <1>0, <1>1 DEF vars, OwedInv, SinceBounded, WritesAreOwed, Saving
  <1>2. ASSUME NEW s \in Savers, StartLoaded(s) \/ StartSeeded(s) \/ StartOver(s)
        PROVE  OwedInv'
    BY <1>0, <1>2, StartOwes DEF StartLoaded, StartSeeded, StartOver, Trouble
  <1>3. ASSUME NEW k \in Records, ChangeInPlace(k)
        PROVE  OwedInv'
    BY <1>0, <1>3 DEF ChangeInPlace, OwedInv, SinceBounded, WritesAreOwed, Saving
  <1>4. ASSUME NEW k \in Records, NEW s \in Savers, Write(k, s)
        PROVE  OwedInv'
    <2>1. pc'[s] = "queued"
      BY <1>4 DEF Write, TypeOK
    <2>2. SinceBounded'
      BY <1>0, <1>4 DEF Write, SinceBounded, TypeOK
    <2>3. QED
      BY <2>1, <2>2 DEF OwedInv, WritesAreOwed, Saving
  <1>5. ASSUME NEW s \in Savers, Encode(s)
        PROVE  OwedInv'
    <2>1. PICK snapshot \in Versions :
            /\ \A k \in Records : snapshot[k] \in {committed[k], mem[k]}
            /\ buf' = [buf EXCEPT ![s] = snapshot]
      BY <1>5 DEF Encode
    <2>2. process # "down"
      BY <1>5 DEF Encode, DurableInv, DownMeansIdle
    <2>3. \A k \in Records : snapshot[k] >= committed[k]
      BY <2>1, <2>2 DEF DurableInv, CommittedBetween, TypeOK, Versions
    <2>4. pc'[s] = "encoded" /\ buf'[s] = snapshot /\ UNCHANGED <<committed, since, troubles>>
      BY <1>5, <2>1 DEF Encode, TypeOK
    <2>5. \A k \in Records : Saving(s, k)'
      BY <2>3, <2>4 DEF Saving
    <2>6. QED
      BY <1>0, <2>4, <2>5 DEF OwedInv, SinceBounded, WritesAreOwed
  <1>6. ASSUME NEW s \in Savers, WriteTemporary(s)
        PROVE  OwedInv'
    <2>1. \A t \in Savers, k \in Records : Saving(t, k) => Saving(t, k)'
      BY <1>6 DEF WriteTemporary, Saving, TypeOK
    <2>2. QED
      BY <1>0, <1>6, <2>1 DEF WriteTemporary, OwedInv, SinceBounded, WritesAreOwed
  <1>7. ASSUME NEW s \in Savers, Rename(s)
        PROVE  OwedInv'
    <2>1. \A k \in Records : buf[s][k] >= committed[k]
      BY <1>7 DEF Rename, DurableInv, SnapshotsCurrent
    <2>2. disk' = buf[s] /\ disk' # NoFile /\ UNCHANGED <<committed, since, troubles>>
      BY <1>7, DiskStoreAssumption DEF Rename, TypeOK, Versions
    <2>3. QED
      BY <1>0, <2>1, <2>2 DEF OwedInv, SinceBounded, WritesAreOwed
  <1>8. ASSUME NEW s \in Savers, FailSave(s)
        PROVE  OwedInv'
    BY <1>0, <1>8, TroubleForgives DEF FailSave
  <1>9. CASE Stop
    BY <1>0, <1>9, TroubleForgives DEF Stop
  <1>10. QED
    BY <1>1, <1>2, <1>3, <1>4, <1>5, <1>6, <1>7, <1>8, <1>9 DEF Next, SaveToFile

(***************************************************************************)
(* No write is forgotten: until its change is on disk, or a failure has    *)
(* taken it, a save that includes it is under way (the saveHook of every   *)
(* write).  With the fairness of the goroutines this is why WritesReachDisk*)
(* holds.                                                                  *)
(***************************************************************************)
THEOREM WritesAreNotForgotten == Spec => []WritesAreOwed
  <1>1. OwedInv => WritesAreOwed
    BY DEF OwedInv
  <1>2. QED
    BY <1>1, OwedInit, OwedStep, DurableInit, DurableStep, TypeCorrect, PTL DEF Spec
-----------------------------------------------------------------------------
(* SaveToFile implements DurableStore.  A record is at most one change     *)
(* ahead of its committed version, the change made to it in place; a       *)
(* snapshot that waits to be renamed is still the committed store because  *)
(* of the read lock, but for the records that were being changed.          *)

DirtyByOne ==
    process # "down" => \A k \in Records : mem[k] \in {committed[k], committed[k] + 1}

SnapshotsClose ==
    \A s \in Savers : pc[s] \in {"encoded", "written"} =>
        \A k \in Records : buf[s][k] \in {committed[k], committed[k] + 1}

CutInv == DirtyByOne /\ SnapshotsClose

\* At the beginning every record is the committed one, and there is no snapshot.
LEMMA CutInit == Init => CutInv
  BY DEF Init, CutInv, DirtyByOne, SnapshotsClose

\* A write commits the next version of its record and leaves the others alone.
LEMMA WriteCommits ==
    ASSUME TypeOK, DirtyByOne, NEW k \in Records, NEW s \in Savers, Write(k, s)
    PROVE  /\ committed' = [committed EXCEPT ![k] = @ + 1]
           /\ mem'[k] = committed'[k]
           /\ \A j \in Records \ {k} : mem'[j] = mem[j] /\ committed'[j] = committed[j]
  <1>1. mem[k] \in Int /\ committed[k] \in Int
    BY DEF TypeOK, Versions
  <1>2. mem'[k] = committed[k] + 1
    BY <1>1, WriteType DEF DirtyByOne, Write
  <1>3. QED
    BY <1>2, WriteType DEF Write, TypeOK, Versions

\* Every step keeps the snapshots as close as the records are.
LEMMA CutStep == CutInv /\ DurableInv /\ TypeOK /\ [Next]_vars => CutInv'
  <1> SUFFICES ASSUME DirtyByOne, SnapshotsClose, DownMeansIdle, TypeOK, [Next]_vars
               PROVE  CutInv'
    BY DEF CutInv, DurableInv
  <1>0. \A k \in Records : mem[k] \in Int /\ committed[k] \in Int
    BY DEF TypeOK, Versions
  <1>1. CASE UNCHANGED vars
    BY <1>1 DEF vars, CutInv, DirtyByOne, SnapshotsClose
  <1>2. ASSUME NEW s \in Savers, NEW records \in Versions, StartWith(s, records)
        PROVE  CutInv'
    <2>1. \A t \in Savers : pc'[t] \in {"idle", "queued"}
      BY <1>2 DEF StartWith, DownMeansIdle, TypeOK
    <2>2. QED
      BY <1>2, <2>1 DEF StartWith, CutInv, DirtyByOne, SnapshotsClose
  <1>3. ASSUME NEW s \in Savers, StartLoaded(s) \/ StartSeeded(s) \/ StartOver(s)
        PROVE  CutInv'
    BY <1>2, <1>3, SeedType DEF StartLoaded, StartSeeded, StartOver, TypeOK
  <1>4. ASSUME NEW k \in Records, ChangeInPlace(k)
        PROVE  CutInv'
    <2>1. /\ mem'[k] = committed[k] + 1
          /\ \A j \in Records \ {k} : mem'[j] = mem[j]
      BY <1>4 DEF ChangeInPlace, TypeOK, Versions
    <2>2. QED
      BY <1>4, <2>1 DEF ChangeInPlace, CutInv, DirtyByOne, SnapshotsClose
  <1>5. ASSUME NEW k \in Records, NEW s \in Savers, Write(k, s)
        PROVE  CutInv'
    <2>1. \A t \in Savers : pc'[t] \notin {"encoded", "written"}
      BY <1>5 DEF Write, ReadLocked, TypeOK
    <2>2. QED
      BY <1>5, <2>1, WriteCommits DEF Write, CutInv, DirtyByOne, SnapshotsClose
  <1>6. ASSUME NEW s \in Savers, Encode(s)
        PROVE  CutInv'
    <2>1. PICK snapshot \in Versions :
            /\ \A k \in Records : snapshot[k] \in {committed[k], mem[k]}
            /\ buf' = [buf EXCEPT ![s] = snapshot]
      BY <1>6 DEF Encode
    <2>2. process # "down"
      BY <1>6 DEF Encode, DownMeansIdle
    <2>3. \A k \in Records : snapshot[k] \in {committed[k], committed[k] + 1}
      BY <2>1, <2>2 DEF DirtyByOne
    <2>4. SnapshotsClose'
      BY <1>6, <2>1, <2>3 DEF Encode, SnapshotsClose, TypeOK
    <2>5. QED
      BY <1>6, <2>4 DEF Encode, CutInv, DirtyByOne
  <1>7. ASSUME NEW s \in Savers, WriteTemporary(s)
        PROVE  CutInv'
    BY <1>7 DEF WriteTemporary, CutInv, DirtyByOne, SnapshotsClose, TypeOK
  <1>8. ASSUME NEW s \in Savers, Rename(s) \/ FailSave(s)
        PROVE  CutInv'
    <2>1. process # "down"
      BY <1>8 DEF Rename, FailSave, DownMeansIdle
    <2>2. SnapshotsClose'
      BY <1>8 DEF Rename, FailSave, Return, SnapshotsClose, TypeOK
    <2>3. QED
      BY <1>8, <2>1, <2>2 DEF Rename, FailSave, CutInv, DirtyByOne
  <1>9. CASE Stop
    BY <1>9 DEF Stop, CutInv, DirtyByOne, SnapshotsClose
  <1>10. QED
    BY <1>1, <1>3, <1>4, <1>5, <1>6, <1>7, <1>8, <1>9 DEF Next, SaveToFile

\* Every step is one of the contract, or a stutter.
LEMMA ContractStep ==
    CutInv /\ DurableInv /\ TypeOK /\ [Next]_vars => [Contract!Next]_(Contract!dvars)
  <1> SUFFICES ASSUME DirtyByOne, SnapshotsClose, DownMeansIdle, TypeOK, [Next]_vars
               PROVE  Contract!Next \/ UNCHANGED Contract!dvars
    BY DEF CutInv, DurableInv
  <1> USE DEF Contract!dvars
  <1>1. CASE UNCHANGED vars
    BY <1>1 DEF vars
  <1>2. ASSUME NEW s \in Savers, StartLoaded(s)
        PROVE  Contract!Recover
    BY <1>2 DEF StartLoaded, StartWith, Contract!Recover
  <1>3. ASSUME NEW s \in Savers, StartSeeded(s) \/ StartOver(s)
        PROVE  Contract!Begin
    BY <1>3 DEF StartSeeded, StartOver, StartWith, Seed, Contract!Begin, Contract!New
  <1>4. ASSUME NEW k \in Records, ChangeInPlace(k)
        PROVE  UNCHANGED Contract!dvars
    BY <1>4 DEF ChangeInPlace
  <1>5. ASSUME NEW k \in Records, NEW s \in Savers, Write(k, s)
        PROVE  Contract!Commit(k)
    BY <1>5, WriteCommits DEF Write, Contract!Commit
  <1>6. ASSUME NEW s \in Savers, Encode(s) \/ WriteTemporary(s)
        PROVE  UNCHANGED Contract!dvars
    BY <1>6 DEF Encode, WriteTemporary
  <1>7. ASSUME NEW s \in Savers, Rename(s)
        PROVE  Contract!Save
    <2>1. process # "down" /\ process' # "down"
      BY <1>7 DEF Rename, Return, DownMeansIdle
    <2>2. disk' = buf[s] /\ UNCHANGED committed
      BY <1>7 DEF Rename
    <2>3. buf[s] \in [Records -> Nat]
      BY DEF TypeOK, Versions
    <2>4. \A k \in Records : buf[s][k] \in {committed[k], committed[k] + 1}
      BY <1>7 DEF Rename, SnapshotsClose
    <2>5. QED
      BY <2>1, <2>2, <2>3, <2>4 DEF Contract!Save
  <1>8. ASSUME NEW s \in Savers, FailSave(s)
        PROVE  UNCHANGED Contract!dvars
    <2>1. process # "down" /\ process' # "down"
      BY <1>8 DEF FailSave, Return, DownMeansIdle
    <2>2. QED
      BY <1>8, <2>1 DEF FailSave
  <1>9. ASSUME Stop
        PROVE  Contract!Halt
    BY <1>9 DEF Stop, Seed, Contract!Halt, Contract!New
  <1>10. QED
    BY <1>1, <1>2, <1>3, <1>4, <1>5, <1>6, <1>7, <1>8, <1>9
    DEF Next, SaveToFile, Contract!Next

(***************************************************************************)
(* However saves overlap, fail or are cut short, and although profiles are *)
(* changed in place without the lock, what SaveToFile leaves on disk is    *)
(* the committed store at the instant of the rename, but for the changes   *)
(* being made just then, and a start finds exactly what a save left.       *)
(***************************************************************************)
THEOREM SaveToFileImplementsContract == Spec => ImplementsDurableStore
  <1>1. Init => Contract!Init
    BY DEF Init, Seed, Contract!Init, Contract!New
  <1>2. CutInv /\ DurableInv /\ TypeOK /\ [Next]_vars => [Contract!Next]_(Contract!dvars)
    BY ContractStep
  <1>3. QED
    BY <1>1, <1>2, CutInit, CutStep, DurableInit, DurableStep, TypeCorrect, PTL
    DEF Spec, ImplementsDurableStore, Contract!Spec
===============================================================================
