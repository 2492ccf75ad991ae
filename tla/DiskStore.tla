------------------------------ MODULE DiskStore ------------------------------
(***************************************************************************)
(* The disk-backed store the API falls back on when PostgreSQL does not    *)
(* answer (repository/memory.go, chosen and started in cmd/server/main.go).*)
(*                                                                         *)
(* All collections share one RWMutex.  A write takes it, changes a map and *)
(* starts a goroutine that calls SaveToFile; SaveToFile holds the read     *)
(* lock while it encodes the whole store, writes a temporary file and      *)
(* renames it over the data file, so that saves overlap each other but no  *)
(* write.  Records are shared pointers: ReviewAmendment changes a profile  *)
(* without the lock and only then calls Update.  Its errors are discarded. *)
(* The process may stop at any step: the desktop shell kills it, and the   *)
(* graceful shutdown does not wait for the goroutines.                     *)
(*                                                                         *)
(* A record is its version.  Temporary files have names of their own (the  *)
(* time in nanoseconds); a rename survives the process (no power failure). *)
(***************************************************************************)
EXTENDS Integers

CONSTANTS
    Records,      \* the records of the persisted collections
    Savers,       \* the goroutines that save, also a bound on how many wait
    MaxVersion,   \* bound on the versions of a record
    MaxTroubles,  \* bound on the stops and the failed saves
    NoFile        \* the data file does not exist

ASSUME DiskStoreAssumption ==
    /\ MaxVersion \in Nat \ {0}
    /\ MaxTroubles \in Nat
    /\ NoFile \notin [Records -> 1 .. MaxVersion]

VARIABLES
    process,   \* "down", "starting" or "serving"
    mem,       \* mem[k]: the version of the record k in memory
    committed, \* committed[k]: the version its last locked write left
    pc,        \* pc[s]: where the goroutine s is in SaveToFile
    buf,       \* buf[s]: the snapshot s has encoded, Seed when there is none
    disk,      \* the data file
    durable,   \* the committed versions a save has put on disk (history)
    troubles,  \* how many stops and failed saves there were (history)
    since      \* since[k]: how many there were at its last write (history)

vars == <<process, mem, committed, pc, buf, disk, durable, troubles, since>>

Versions == [Records -> 1 .. MaxVersion]

TypeOK ==
    /\ process \in {"down", "starting", "serving"}
    /\ mem \in Versions
    /\ committed \in Versions
    /\ pc \in [Savers -> {"idle", "queued", "encoded", "written"}]
    /\ buf \in [Savers -> Versions]
    /\ disk \in Versions \cup {NoFile}
    /\ durable \in Versions
    /\ troubles \in 0 .. MaxTroubles
    /\ since \in [Records -> 0 .. MaxTroubles]

\* seedMemoryStore: every record in its first version.
Seed == [k \in Records |-> 1]

Init ==
    /\ process = "down"
    /\ mem = Seed
    /\ committed = Seed
    /\ pc = [s \in Savers |-> "idle"]
    /\ buf = [s \in Savers |-> Seed]
    /\ disk = NoFile
    /\ durable = Seed
    /\ troubles = 0
    /\ since = [k \in Records |-> 0]

Trouble == troubles < MaxTroubles /\ troubles' = troubles + 1

\* Mutation: SaveToFile releases the lock once the store is encoded.
ReadLockedWhileEncoding == FALSE

\* A goroutine is between RLock and RUnlock.
ReadLocked == \E s \in Savers : pc[s] \in {"encoded", "written"}
-----------------------------------------------------------------------------
(* Start-up: LoadFromFile, seedMemoryStore if nothing was loaded, then     *)
(* SetPersistenceFile and a first SaveToFile before the server listens.    *)

StartWith(s, records) ==
    /\ process = "down"
    /\ process' = "starting"
    /\ mem' = records
    /\ committed' = records
    /\ pc' = [pc EXCEPT ![s] = "queued"]
    /\ since' = [k \in Records |-> troubles']
    /\ UNCHANGED <<buf, disk>>

\* Mutation: an absent file is not told apart from an empty one.
StartLoadedUnchecked(s) == UNCHANGED <<durable, troubles>> /\ StartWith(s, disk)

StartLoaded(s) ==
    disk # NoFile /\ UNCHANGED <<durable, troubles>> /\ StartWith(s, disk)

StartSeeded(s) ==
    disk = NoFile /\ UNCHANGED <<durable, troubles>> /\ StartWith(s, Seed)

\* A file that cannot be read is replaced by the seed: its records are given up.
StartOver(s) ==
    disk # NoFile /\ Trouble /\ durable' = Seed /\ StartWith(s, Seed)
-----------------------------------------------------------------------------
(* Requests                                                                *)

\* A profile is changed in place, without the lock.
ChangeInPlace(k) ==
    /\ process = "serving"
    /\ mem[k] = committed[k] /\ mem[k] < MaxVersion
    /\ mem' = [mem EXCEPT ![k] = @ + 1]
    /\ UNCHANGED <<process, committed, pc, buf, disk, durable, troubles, since>>

\* Mutation: a repository without a saveHook.
WriteUnhooked(k, s) ==
    /\ process = "serving"
    /\ ~ReadLocked
    /\ pc[s] = "idle"
    /\ mem[k] < MaxVersion \/ mem[k] # committed[k]
    /\ mem' = [mem EXCEPT ![k] = IF @ = committed[k] THEN @ + 1 ELSE @]
    /\ committed' = [committed EXCEPT ![k] = mem'[k]]
    /\ since' = [since EXCEPT ![k] = troubles]
    /\ UNCHANGED <<process, pc, buf, disk, durable, troubles>>

\* A repository call writes the record k, or the record changed in place,
\* under the lock, and starts a save.
Write(k, s) ==
    /\ process = "serving"
    /\ ~ReadLocked
    /\ pc[s] = "idle"
    /\ mem[k] < MaxVersion \/ mem[k] # committed[k]
    /\ mem' = [mem EXCEPT ![k] = IF @ = committed[k] THEN @ + 1 ELSE @]
    /\ committed' = [committed EXCEPT ![k] = mem'[k]]
    /\ since' = [since EXCEPT ![k] = troubles]
    /\ pc' = [pc EXCEPT ![s] = "queued"]
    /\ UNCHANGED <<process, buf, disk, durable, troubles>>
-----------------------------------------------------------------------------
(* SaveToFile                                                              *)

\* A record that is being changed in place may be encoded before or after.
Encode(s) ==
    /\ pc[s] = "queued"
    /\ \E snapshot \in Versions :
         /\ \A k \in Records : snapshot[k] \in {committed[k], mem[k]}
         /\ buf' = [buf EXCEPT ![s] = snapshot]
    /\ pc' = [pc EXCEPT ![s] = "encoded"]
    /\ UNCHANGED <<process, mem, committed, disk, durable, troubles, since>>

WriteTemporary(s) ==
    /\ pc[s] = "encoded"
    /\ pc' = [pc EXCEPT ![s] = "written"]
    /\ UNCHANGED <<process, mem, committed, buf, disk, durable, troubles, since>>

\* The save returns; main starts to serve after the first one, whatever it returns.
Return(s) ==
    /\ pc' = [pc EXCEPT ![s] = "idle"]
    /\ buf' = [buf EXCEPT ![s] = Seed]
    /\ process' = "serving"

\* What the file now holds of each record, and was committed.
Saved(s, k) == IF buf[s][k] < committed[k] THEN buf[s][k] ELSE committed[k]

Rename(s) ==
    /\ pc[s] = "written"
    /\ disk' = buf[s]
    /\ durable' = [k \in Records |-> IF Saved(s, k) > durable[k] THEN Saved(s, k)
                                     ELSE durable[k]]
    /\ Return(s)
    /\ UNCHANGED <<mem, committed, troubles, since>>

\* MkdirAll, WriteFile or Rename fails; nobody learns of it.
FailSave(s) ==
    /\ pc[s] \in {"encoded", "written"}
    /\ Trouble
    /\ Return(s)
    /\ UNCHANGED <<mem, committed, disk, durable, since>>
-----------------------------------------------------------------------------
\* The process stops, with its memory and whatever its goroutines had left to do.
Stop ==
    /\ process # "down"
    /\ Trouble
    /\ process' = "down"
    /\ mem' = Seed
    /\ committed' = Seed
    /\ pc' = [s \in Savers |-> "idle"]
    /\ buf' = [s \in Savers |-> Seed]
    /\ UNCHANGED <<disk, durable, since>>

SaveToFile(s) == Encode(s) \/ WriteTemporary(s) \/ Rename(s) \/ FailSave(s)

Next ==
    \/ \E s \in Savers : StartLoaded(s) \/ StartSeeded(s) \/ StartOver(s)
    \/ \E k \in Records : ChangeInPlace(k)
    \/ \E k \in Records, s \in Savers : Write(k, s)
    \/ \E s \in Savers : SaveToFile(s)
    \/ Stop

Spec == Init /\ [][Next]_vars

\* The Go scheduler runs every goroutine, and the file system answers.
FairSpec == Spec /\ \A s \in Savers : WF_vars(SaveToFile(s))
-----------------------------------------------------------------------------
(* Properties                                                              *)

(***************************************************************************)
(* A committed change that reached the disk is never lost: saves that      *)
(* overlap do not bring an older version back, and a restart finds it.     *)
(* (A file that cannot be read at start-up is given up, see StartOver.)    *)
(***************************************************************************)
DurableNeverLost ==
    \A k \in Records :
        /\ disk # NoFile => disk[k] >= durable[k]
        /\ process # "down" => mem[k] >= durable[k]

\* A save under way that will put the committed version of k on disk.
Saving(s, k) ==
    \/ pc[s] = "queued"
    \/ pc[s] \in {"encoded", "written"} /\ buf[s][k] >= committed[k]

(***************************************************************************)
(* A committed change that is not on disk is owed to it: unless the        *)
(* process stops or a save fails after it, a save is under way whose       *)
(* snapshot has the change or is yet to be taken, however saves overlap    *)
(* (each write starts one, none looks whether another is enough).          *)
(***************************************************************************)
WritesAreOwed ==
    \A k \in Records :
        process # "down" /\ since[k] = troubles =>
            \/ disk # NoFile /\ disk[k] >= committed[k]
            \/ \E s \in Savers : Saving(s, k)

(***************************************************************************)
(* To the users of the store, saves are atomic: the file a rename leaves   *)
(* has every record as it is committed at that instant, or as the change   *)
(* being made to it in place leaves it, and a restart finds them together. *)
(***************************************************************************)
Contract == INSTANCE DurableStore WITH
    up <- process # "down", view <- committed, safe <- disk

ImplementsDurableStore == Contract!Spec

(***************************************************************************)
(* A committed change reaches the disk, unless the process stops or a save *)
(* fails after it, whichever of the overlapping saves comes last.          *)
(***************************************************************************)
WritesReachDisk ==
    \A k \in Records, v \in 1 .. MaxVersion, n \in 0 .. MaxTroubles :
        (/\ process # "down" /\ committed[k] = v
         /\ since[k] = n /\ troubles = n)
            ~> ((disk # NoFile /\ disk[k] >= v) \/ troubles # n)
=============================================================================
