-------------------------- MODULE DesktopShellProofs --------------------------
(***************************************************************************)
(* What every step of the desktop shell preserves, for every number of     *)
(* health checks, of configurations saved, and every platform.  The        *)
(* theorems about whole behaviours are in ClientsProofs.                   *)
(***************************************************************************)
EXTENDS DesktopShell, Integers, TLAPS

DeskType ==
    [phase : {"running", "quitting", "exited"}, platform : Platforms, outside : BOOLEAN,
     static : BOOLEAN,
     task : [Tasks -> {"none", "listen", "health", "wait", "done"}],
     checks : [Tasks -> Int],
     serverProcess : Nat, alive : SUBSET Nat, ready : SUBSET Nat, stopping : SUBSET Nat,
     exits : SUBSET Nat, spawned : Nat, saves : Nat, window : BOOLEAN, calm : BOOLEAN]

\* Before the start has spawned a process there is none, and without a saved
\* configuration there is no second one.
AtMostOneSpawned ==
    /\ desk.task["boot"] \in {"listen", "health"} => desk.spawned = 0
    /\ desk.task["save"] = "none"
    /\ desk.spawned \in {0, 1}
    /\ desk.alive \subseteq 1 .. desk.spawned
    /\ desk.exits \subseteq 1 .. desk.spawned
    /\ desk.exits \cap desk.alive = {}

\* Until a configuration is saved, a process that runs and was not told to stop
\* is the one the shell knows.
KnownInv ==
    /\ desk \in DeskType
    /\ desk.saves = 0 =>
        /\ AtMostOneSpawned
        /\ desk.phase = "running" => desk.alive \ desk.stopping \subseteq {desk.serverProcess}
    /\ desk.phase # "running" /\ desk.calm =>
        /\ desk.saves = 0 /\ desk.task["boot"] = "done"
        /\ ~desk.static
        /\ desk.alive \subseteq desk.stopping

\* The shell starts as it should.
LEMMA InitialDesk ==
    ASSUME desk \in DeskStates
    PROVE  KnownInv
<1>1. desk.saves = 0 /\ desk.phase = "running" /\ desk.spawned = 0 /\ desk.alive = {}
      /\ desk.exits = {} /\ desk.task["boot"] = "listen" /\ desk.task["save"] = "none"
  BY DEF DeskStates, Tasks
<1>2. desk \in DeskType
  <2>1. desk.task \in [Tasks -> {"none", "listen", "health", "wait", "done"}]
    <3>1. desk.task = [t \in Tasks |-> IF t = "boot" THEN "listen" ELSE "none"]
      BY DEF DeskStates
    <3> QED
      BY <3>1
  <2>2. desk.checks \in [Tasks -> Int]
    <3>1. desk.checks = [t \in Tasks |-> MaxChecks]
      BY DEF DeskStates
    <3> QED
      BY <3>1, DesktopAssumption
  <2>3. /\ desk.phase = "running" /\ desk.platform \in Platforms /\ desk.outside \in BOOLEAN
        /\ desk.static = FALSE /\ desk.serverProcess = 0
        /\ desk.alive = {} /\ desk.ready = {} /\ desk.stopping = {} /\ desk.exits = {}
        /\ desk.spawned = 0 /\ desk.saves = 0 /\ desk.window = FALSE /\ desk.calm = FALSE
    BY DEF DeskStates
  <2>4. desk = [phase |-> desk.phase, platform |-> desk.platform, outside |-> desk.outside,
                static |-> desk.static, task |-> desk.task, checks |-> desk.checks,
                serverProcess |-> desk.serverProcess, alive |-> desk.alive,
                ready |-> desk.ready, stopping |-> desk.stopping, exits |-> desk.exits,
                spawned |-> desk.spawned, saves |-> desk.saves, window |-> desk.window,
                calm |-> desk.calm]
    BY DEF DeskStates
  <2>5. ASSUME NEW task \in [Tasks -> {"none", "listen", "health", "wait", "done"}],
               NEW checks \in [Tasks -> Int], NEW platform \in Platforms, NEW outside \in BOOLEAN
        PROVE  [phase |-> "running", platform |-> platform, outside |-> outside,
                static |-> FALSE, task |-> task, checks |-> checks,
                serverProcess |-> 0, alive |-> {}, ready |-> {}, stopping |-> {},
                exits |-> {}, spawned |-> 0, saves |-> 0, window |-> FALSE,
                calm |-> FALSE] \in DeskType
    BY DEF DeskType
  <2> QED
    BY <2>1, <2>2, <2>3, <2>4, <2>5
<1> QED
  BY <1>1, <1>2 DEF KnownInv, AtMostOneSpawned

\* What stopping the backend leaves.
LEMMA Stopping ==
    ASSUME NEW d \in DeskType
    PROVE  LET s == StopBackend(d) IN
           /\ s \in DeskType
           /\ s.phase = d.phase /\ s.task = d.task /\ s.saves = d.saves
           /\ s.spawned = d.spawned /\ s.calm = d.calm /\ s.window = d.window
           /\ s.serverProcess = 0 /\ s.static = FALSE
           /\ s.platform = d.platform /\ s.checks = d.checks
           /\ s.alive \subseteq d.alive
           /\ s.exits \subseteq d.exits \cup (d.alive \ s.alive)
           /\ s.alive \ s.stopping \subseteq (d.alive \ d.stopping) \ {d.serverProcess}
  BY DEF StopBackend, Killed, Died, DeskType

\* Starting to quit, from a running shell.
LEMMA QuittingKeeps ==
    ASSUME KnownInv, NEW d \in DeskType,
           desk.phase = "running", d.phase = "running",
           d.task = desk.task, d.saves = desk.saves,
           desk' = Quitting(d),
           d.saves = 0 => d.spawned \in {0, 1} /\ d.alive \subseteq 1 .. d.spawned
                          /\ d.exits \subseteq 1 .. d.spawned /\ d.exits \cap d.alive = {}
                          /\ d.spawned = desk.spawned
                          /\ d.alive \ d.stopping \subseteq {d.serverProcess}
    PROVE  KnownInv'
<1> DEFINE s == StopBackend(d)
<1>1. /\ s \in DeskType
      /\ s.task = d.task /\ s.saves = d.saves /\ s.spawned = d.spawned
      /\ s.static = FALSE
      /\ s.alive \subseteq d.alive
      /\ s.exits \subseteq d.exits \cup (d.alive \ s.alive)
      /\ s.alive \ s.stopping \subseteq (d.alive \ d.stopping) \ {d.serverProcess}
  BY Stopping
<1>2. desk' = [s EXCEPT !.phase = "quitting", !.window = FALSE,
                        !.calm = d.task["boot"] = "done" /\ d.saves = 0]
  BY DEF Quitting
<1> HIDE DEF s
<1>3. /\ desk'.phase = "quitting" /\ desk'.task = d.task /\ desk'.saves = d.saves
      /\ desk'.spawned = s.spawned /\ desk'.alive = s.alive /\ desk'.exits = s.exits
      /\ desk'.stopping = s.stopping /\ desk'.static = FALSE
      /\ desk'.calm = (d.task["boot"] = "done" /\ d.saves = 0)
  BY <1>1, <1>2 DEF DeskType
<1>4. desk' \in DeskType
  BY <1>1, <1>2 DEF DeskType
<1>5. (d.saves = 0 => AtMostOneSpawned)'
  BY <1>1, <1>3 DEF KnownInv, AtMostOneSpawned
<1>6. d.saves = 0 => s.alive \subseteq s.stopping
  BY <1>1
<1> QED
  BY <1>3, <1>4, <1>5, <1>6 DEF KnownInv

\* What stopping the backend leaves, as long as no configuration was saved.
LEMMA StopKeeps ==
    ASSUME KnownInv, desk.phase = "running",
           desk.saves = 0
    PROVE  LET s == StopBackend(desk) IN
           /\ s.spawned \in {0, 1} /\ s.alive \subseteq 1 .. s.spawned
           /\ s.exits \subseteq 1 .. s.spawned /\ s.exits \cap s.alive = {}
           /\ s.spawned = desk.spawned
           /\ s.alive \ s.stopping \subseteq {}
BY Stopping DEF KnownInv, AtMostOneSpawned

\* Every step of the shell keeps what it knows of the processes it spawned,
\* also when one dies, or is told to stop, while a start or a save is under way.
THEOREM DesktopStep ==
    ASSUME KnownInv, DesktopNext
    PROVE  KnownInv'
<1> USE DEF Running
<1>0. desk \in DeskType
  BY DEF KnownInv
<1>1. CASE Listening
  <2>1. /\ desk' = [desk EXCEPT !.static = TRUE, !.task["boot"] = "health"]
        /\ desk.task["boot"] = "listen"
    BY <1>1 DEF Listening
  <2>2. desk' \in DeskType
    BY <1>0, <2>1 DEF DeskType, Tasks
  <2> QED
    BY <1>0, <2>1, <2>2 DEF KnownInv, AtMostOneSpawned, DeskType, Tasks
<1>2. ASSUME NEW t \in Tasks, StartBackend(t)
      PROVE  KnownInv'
  <2>1. Running /\ desk.task[t] = "health" /\ desk' \in {TaskDone(desk, t), Spawned(t)}
    BY <1>2 DEF StartBackend
  <2>2. CASE desk' = TaskDone(desk, t)
    <3>1. desk' \in DeskType
      BY <1>0, <2>2 DEF TaskDone, DeskType, Tasks
    <3> QED
      BY <1>0, <2>1, <2>2, <3>1 DEF TaskDone, KnownInv, AtMostOneSpawned, DeskType, Tasks
  <2>3. CASE desk' = Spawned(t)
    <3>1. desk' \in DeskType
      <4> DEFINE pid == desk.spawned + 1
      <4>1. pid \in Nat
        BY <1>0 DEF DeskType
      <4>2. desk' = [desk EXCEPT !.spawned = pid, !.serverProcess = pid,
                                 !.alive = @ \cup {pid}, !.task[t] = "wait"]
        BY <2>3 DEF Spawned
      <4> HIDE DEF pid
      <4> QED
        BY <1>0, <4>1, <4>2 DEF DeskType
    <3> QED
      BY <1>0, <2>1, <2>3, <3>1 DEF Spawned, KnownInv, AtMostOneSpawned, DeskType, Tasks
  <2> QED
    BY <2>1, <2>2, <2>3
<1>3. ASSUME NEW t \in Tasks, WaitForApi(t)
      PROVE  KnownInv'
  <2>1. PICK up \in BOOLEAN :
            LET left == IF up THEN desk.checks[t] ELSE desk.checks[t] - 1 IN
            /\ desk.task[t] = "wait"
            /\ desk' = IF up \/ left = 0 THEN TaskDone([desk EXCEPT !.checks[t] = left], t)
                       ELSE [desk EXCEPT !.checks[t] = left]
    BY <1>3 DEF WaitForApi, CheckApiHealth
  <2> DEFINE left == IF up THEN desk.checks[t] ELSE desk.checks[t] - 1
             e == [desk EXCEPT !.checks[t] = left]
  <2>2. left \in Int
    BY <1>0 DEF DeskType
  <2> HIDE DEF left
  <2>3. /\ e \in DeskType /\ e.task = desk.task /\ e.saves = desk.saves /\ e.phase = desk.phase
        /\ e.calm = desk.calm /\ e.spawned = desk.spawned /\ e.alive = desk.alive
        /\ e.exits = desk.exits /\ e.stopping = desk.stopping /\ e.static = desk.static
        /\ e.serverProcess = desk.serverProcess
    BY <1>0, <2>2 DEF DeskType
  <2>4. desk.task[t] = "wait" /\ desk' \in {e, TaskDone(e, t)}
    BY <2>1 DEF left
  <2> HIDE DEF e
  <2>5. CASE desk' = e
    BY <2>3, <2>5 DEF KnownInv, AtMostOneSpawned
  <2>6. CASE desk' = TaskDone(e, t)
    <3>1. desk' \in DeskType
      BY <2>3, <2>6 DEF TaskDone, DeskType, Tasks
    <3> QED
      BY <2>3, <2>4, <2>6, <3>1 DEF TaskDone, KnownInv, AtMostOneSpawned, DeskType, Tasks
  <2> QED
    BY <2>4, <2>5, <2>6
<1>4. CASE SaveDbConfig
  <2> DEFINE s == StopBackend(desk)
  <2>1. /\ desk.static
        /\ desk' = [s EXCEPT !.saves = @ + 1, !.task["save"] = "health",
                             !.checks["save"] = MaxChecks]
    BY <1>4 DEF SaveDbConfig
  <2>2. s \in DeskType /\ s.saves = desk.saves /\ s.calm = desk.calm /\ s.phase = desk.phase
    BY <1>0, Stopping
  <2> HIDE DEF s
  <2>3. desk' \in DeskType
    <3> DEFINE saves == s.saves + 1
               checks == [s.checks EXCEPT !["save"] = MaxChecks]
               task == [s.task EXCEPT !["save"] = "health"]
    <3>1. saves \in Nat /\ checks \in [Tasks -> Int]
          /\ task \in [Tasks -> {"none", "listen", "health", "wait", "done"}]
      <4>1. /\ s.saves \in Nat /\ s.checks \in [Tasks -> Int]
            /\ s.task \in [Tasks -> {"none", "listen", "health", "wait", "done"}]
        BY <2>2 DEF DeskType
      <4>2. saves \in Nat /\ MaxChecks \in Int
        BY <4>1, DesktopAssumption
      <4>3. checks \in [Tasks -> Int]
        BY <4>1, <4>2
      <4>4. task \in [Tasks -> {"none", "listen", "health", "wait", "done"}]
        BY <4>1
      <4> QED
        BY <4>2, <4>3, <4>4
    <3>2. desk' = [s EXCEPT !.saves = saves, !.task = task, !.checks = checks]
      BY <2>1, <2>2 DEF DeskType
    <3> HIDE DEF saves, checks, task
    <3> QED
      BY <2>2, <3>1, <3>2 DEF DeskType
  <2>4. desk'.saves = desk.saves + 1 /\ desk'.calm = desk.calm /\ desk'.phase = desk.phase
    BY <2>1, <2>2 DEF DeskType
  <2> QED
    BY <1>0, <2>1, <2>3, <2>4 DEF KnownInv, DeskType
<1>5. CASE BackendComesUp
  <2>1. PICK pid \in desk.alive : desk' = [desk EXCEPT !.ready = @ \cup {pid}]
    BY <1>5 DEF BackendComesUp
  <2>2. desk' \in DeskType
    BY <1>0, <2>1 DEF DeskType
  <2> QED
    BY <1>0, <2>1, <2>2 DEF KnownInv, AtMostOneSpawned, DeskType
<1>6. CASE BackendDies
  <2>1. PICK pid \in desk.alive : desk' = Died(desk, {pid})
    BY <1>6 DEF BackendDies
  <2>2. desk' \in DeskType
    BY <1>0, <2>1 DEF Died, DeskType
  <2> QED
    BY <1>0, <2>1, <2>2 DEF Died, KnownInv, AtMostOneSpawned, DeskType
<1>7. CASE ExitHandler
  <2>1. PICK pid \in desk.exits : desk' = [desk EXCEPT !.exits = @ \ {pid}, !.serverProcess = 0]
    BY <1>7 DEF ExitHandler
  <2>2. desk' \in DeskType
    BY <1>0, <2>1 DEF DeskType
  <2>3. desk.saves = 0 => desk.alive = {}
    BY <2>1 DEF KnownInv, AtMostOneSpawned
  <2> QED
    BY <1>0, <2>1, <2>2, <2>3 DEF KnownInv, AtMostOneSpawned, DeskType
<1>8. CASE WindowAllClosed
  <2> DEFINE s == StopBackend(desk)
  <2>1. /\ s \in DeskType
        /\ s.phase = desk.phase /\ s.task = desk.task /\ s.saves = desk.saves
        /\ s.spawned = desk.spawned
    BY <1>0, Stopping
  <2>2. desk.saves = 0 =>
            /\ s.spawned \in {0, 1} /\ s.alive \subseteq 1 .. s.spawned
            /\ s.exits \subseteq 1 .. s.spawned /\ s.exits \cap s.alive = {}
            /\ s.spawned = desk.spawned
            /\ s.alive \ s.stopping \subseteq {}
    BY <1>8, StopKeeps DEF WindowAllClosed
  <2>3. desk.phase = "running" /\ desk' \in {[s EXCEPT !.window = FALSE], Quitting(s)}
    BY <1>8 DEF WindowAllClosed
  <2> HIDE DEF s
  <2>4. CASE desk' = [s EXCEPT !.window = FALSE]
    <3>1. desk' \in DeskType
      BY <2>1, <2>4 DEF DeskType
    <3> QED
      BY <2>1, <2>2, <2>3, <2>4, <3>1 DEF KnownInv, AtMostOneSpawned, DeskType
  <2>5. CASE desk' = Quitting(s)
    BY <2>1, <2>2, <2>3, <2>5, QuittingKeeps
  <2> QED
    BY <2>3, <2>4, <2>5
<1>9. CASE Activate
  <2>1. desk' = [desk EXCEPT !.window = TRUE]
    BY <1>9 DEF Activate
  <2>2. desk' \in DeskType
    BY <1>0, <2>1 DEF DeskType
  <2> QED
    BY <1>0, <2>1, <2>2 DEF KnownInv, AtMostOneSpawned, DeskType
<1>10. CASE BeforeQuit
  <2>1. desk.phase = "running" /\ desk' = Quitting(desk)
    BY <1>10 DEF BeforeQuit
  <2> QED
    BY <1>0, <2>1, QuittingKeeps DEF KnownInv, AtMostOneSpawned
<1>11. CASE Exits
  <2>1. desk.phase = "quitting" /\ desk' = [desk EXCEPT !.phase = "exited"]
    BY <1>11 DEF Exits
  <2>2. desk' \in DeskType
    BY <1>0, <2>1 DEF DeskType
  <2> QED
    BY <1>0, <2>1, <2>2 DEF KnownInv, AtMostOneSpawned, DeskType
<1> QED
  BY <1>1, <1>2, <1>3, <1>4, <1>5, <1>6, <1>7, <1>8, <1>9, <1>10, <1>11
  DEF DesktopNext, ShellSteps

-----------------------------------------------------------------------------
(* The steps that the start is from its end. *)

\* The start has checks left while it waits, and all of them until then.
StartInv ==
    /\ desk.task["boot"] \in {"listen", "health", "wait", "done"}
    /\ desk.checks["boot"] \in 1 .. MaxChecks \/ desk.task["boot"] = "done"
    /\ desk.task["boot"] \in {"listen", "health"} => desk.checks["boot"] = MaxChecks

\* The shell starts with all of its checks.
LEMMA InitialStart ==
    ASSUME desk \in DeskStates
    PROVE  StartInv
<1>1. desk.task = [t \in Tasks |-> IF t = "boot" THEN "listen" ELSE "none"]
      /\ desk.checks = [t \in Tasks |-> MaxChecks]
  BY DEF DeskStates
<1>2. desk.task["boot"] = "listen" /\ desk.checks["boot"] = MaxChecks
  BY <1>1 DEF Tasks
<1> QED
  BY <1>2, DesktopAssumption DEF StartInv

\* What a step leaves of the start.
StartStays == desk'.task["boot"] = desk.task["boot"] /\ desk'.checks["boot"] = desk.checks["boot"]

\* Stopping the backend, a process that ends and the quit leave the start alone.
LEMMA StartUntouched ==
    ASSUME KnownInv,
           \/ SaveDbConfig \/ BackendComesUp \/ BackendDies \/ ExitHandler
           \/ WindowAllClosed \/ Activate \/ BeforeQuit \/ Exits
    PROVE  StartStays
<1>1. desk \in DeskType
  BY DEF KnownInv
<1>2. ASSUME NEW d \in DeskType
      PROVE  /\ StopBackend(d).task = d.task /\ StopBackend(d).checks = d.checks
             /\ StopBackend(d) \in DeskType
  BY Stopping
<1>3. CASE SaveDbConfig
  <2> DEFINE s == StopBackend(desk)
  <2>1. s \in DeskType /\ s.task = desk.task /\ s.checks = desk.checks
    BY <1>1, <1>2
  <2>2. desk' = [s EXCEPT !.saves = @ + 1, !.task["save"] = "health",
                          !.checks["save"] = MaxChecks]
    BY <1>3 DEF SaveDbConfig
  <2> HIDE DEF s
  <2> QED
    BY <2>1, <2>2 DEF DeskType, StartStays, Tasks
<1>4. CASE BackendComesUp \/ ExitHandler \/ Activate \/ Exits
  BY <1>1, <1>4 DEF BackendComesUp, ExitHandler, Activate, Exits, DeskType, StartStays
<1>5. CASE BackendDies
  BY <1>1, <1>5 DEF BackendDies, Died, DeskType, StartStays
<1>6. \A d \in DeskType : Quitting(d).task = d.task /\ Quitting(d).checks = d.checks
  BY <1>2 DEF Quitting, DeskType
<1>7. CASE WindowAllClosed
  <2> DEFINE s == StopBackend(desk)
  <2>1. s \in DeskType /\ s.task = desk.task /\ s.checks = desk.checks
    BY <1>1, <1>2
  <2>2. desk' \in {[s EXCEPT !.window = FALSE], Quitting(s)}
    BY <1>7 DEF WindowAllClosed
  <2> HIDE DEF s
  <2> QED
    BY <1>6, <2>1, <2>2 DEF DeskType, StartStays
<1>8. CASE BeforeQuit
  BY <1>1, <1>6, <1>8 DEF BeforeQuit, StartStays
<1> QED
  BY <1>3, <1>4, <1>5, <1>7, <1>8

\* Every step of the shell keeps the checks of the start; the start's own steps
\* bring it nearer to its end, and nothing else moves it.
LEMMA StartMoves ==
    ASSUME KnownInv, StartInv, DesktopNext
    PROVE  /\ StartInv'
           /\ IF BootSteps THEN StartRank(desk') < StartRank(desk)
              ELSE StartRank(desk') = StartRank(desk)
<1>1. /\ desk.task \in [Tasks -> {"none", "listen", "health", "wait", "done"}]
      /\ desk.checks \in [Tasks -> Int] /\ desk \in DeskType
  BY DEF KnownInv, DeskType
<1>2. MaxChecks \in Nat /\ MaxChecks > 0
  BY DesktopAssumption
<1>3. ASSUME StartStays
      PROVE  StartInv' /\ StartRank(desk') = StartRank(desk)
  BY <1>3 DEF StartStays, StartInv, StartRank
<1>4. CASE Listening
  <2>1. desk' = [desk EXCEPT !.static = TRUE, !.task["boot"] = "health"]
        /\ desk.task["boot"] = "listen"
    BY <1>4 DEF Listening
  <2>2. desk'.task["boot"] = "health" /\ desk'.checks = desk.checks
    BY <1>1, <2>1 DEF DeskType, Tasks
  <2> QED
    BY <1>2, <1>4, <2>1, <2>2 DEF BootSteps, StartInv, StartRank
<1>5. ASSUME NEW t \in Tasks, StartBackend(t)
      PROVE  /\ t = "boot" =>
                  /\ desk.task["boot"] = "health" /\ desk'.task["boot"] \in {"wait", "done"}
                  /\ desk'.checks = desk.checks
             /\ t = "save" => StartStays /\ desk.task["save"] = "health"
  <2>1. desk' \in {TaskDone(desk, t), Spawned(t)} /\ desk.task[t] = "health"
    BY <1>5 DEF StartBackend
  <2>2. desk'.checks = desk.checks
    BY <1>1, <2>1 DEF TaskDone, Spawned, DeskType
  <2>3. \/ desk'.task = [desk.task EXCEPT ![t] = "wait"]
        \/ desk'.task = [desk.task EXCEPT ![t] = "done"]
    BY <1>1, <2>1 DEF TaskDone, Spawned, DeskType
  <2> QED
    BY <1>1, <2>1, <2>2, <2>3 DEF StartStays, Tasks
<1>6. ASSUME NEW t \in Tasks, WaitForApi(t)
      PROVE  /\ t = "boot" =>
                  /\ desk.task["boot"] = "wait"
                  /\ \/ desk'.task["boot"] = "done"
                     \/ /\ desk'.task["boot"] = "wait"
                        /\ desk'.checks["boot"] = desk.checks["boot"] - 1
                        /\ desk'.checks["boot"] # 0
             /\ t = "save" => StartStays /\ desk.task["save"] = "wait"
  <2>1. PICK left \in {desk.checks[t], desk.checks[t] - 1} :
            \/ desk' = TaskDone([desk EXCEPT !.checks[t] = left], t)
            \/ left # 0 /\ left = desk.checks[t] - 1 /\ desk' = [desk EXCEPT !.checks[t] = left]
    BY <1>6 DEF WaitForApi
  <2>2. desk.task[t] = "wait"
    BY <1>6 DEF WaitForApi
  <2>3. CASE desk' = TaskDone([desk EXCEPT !.checks[t] = left], t)
    <3>1. desk'.task = [desk.task EXCEPT ![t] = "done"] /\ desk'.checks = [desk.checks EXCEPT ![t] = left]
      BY <1>1, <2>3 DEF TaskDone, DeskType
    <3> QED
      BY <1>1, <2>2, <3>1 DEF StartStays, Tasks
  <2>4. CASE left # 0 /\ left = desk.checks[t] - 1 /\ desk' = [desk EXCEPT !.checks[t] = left]
    <3>1. desk'.task = desk.task /\ desk'.checks = [desk.checks EXCEPT ![t] = left]
      BY <1>1, <2>4 DEF DeskType
    <3> QED
      BY <1>1, <2>2, <2>4, <3>1 DEF StartStays, Tasks
  <2> QED
    BY <2>1, <2>3, <2>4
<1>7. ASSUME StartBackend("boot") \/ WaitForApi("boot")
      PROVE  StartInv' /\ StartRank(desk') < StartRank(desk)
  <2>1. CASE StartBackend("boot")
    BY <1>2, <1>5, <2>1 DEF StartInv, StartRank, Tasks
  <2>2. CASE WaitForApi("boot")
    <3>1. desk.task["boot"] = "wait" /\ desk.checks["boot"] \in 1 .. MaxChecks
      BY <1>6, <2>2 DEF StartInv, Tasks
    <3>2. CASE desk'.task["boot"] = "done"
      BY <1>2, <3>1, <3>2 DEF StartInv, StartRank
    <3>3. CASE /\ desk'.task["boot"] = "wait"
               /\ desk'.checks["boot"] = desk.checks["boot"] - 1
               /\ desk'.checks["boot"] # 0
      BY <1>2, <3>1, <3>3 DEF StartInv, StartRank
    <3> QED
      BY <1>6, <2>2, <3>2, <3>3 DEF Tasks
  <2> QED
    BY <1>7, <2>1, <2>2
<1>8. CASE BootSteps
  BY <1>4, <1>7, <1>8 DEF BootSteps
<1>9. CASE ~BootSteps
  <2>1. StartStays
    <3>1. CASE StartBackend("save") \/ WaitForApi("save")
      BY <1>5, <1>6, <3>1 DEF Tasks
    <3> QED
      BY <1>9, <3>1, StartUntouched DEF DesktopNext, ShellSteps, BootSteps, Tasks
  <2> QED
    BY <1>3, <1>9, <2>1
<1> QED
  BY <1>8, <1>9
===============================================================================
