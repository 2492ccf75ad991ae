----------------------------- MODULE DesktopShell -----------------------------
(***************************************************************************)
(* The main process of the desktop application (desktop/main.js): it       *)
(* serves the web client from a port of its own, starts the Go backend     *)
(* unless one answers on port 8080, shows a window, and stops the backend  *)
(* when it is quit.  Saving a database configuration restarts the backend. *)
(*                                                                         *)
(* startBackend runs in tasks that wait between its steps: one when the    *)
(* application starts, and one per configuration saved.  A process that is *)
(* told to stop stops later, and the event that it did comes later still.  *)
(***************************************************************************)
EXTENDS Naturals, FiniteSets

CONSTANTS
    MaxChecks,  \* health checks after a spawn (20 in the code)
    Platforms,  \* what process.platform may be
    MaxSaves    \* bound on the configurations saved

ASSUME DesktopAssumption == MaxChecks \in Nat \ {0} /\ MaxSaves \in Nat

VARIABLES desk

Absent == [phase |-> "absent"]

Tasks == {"boot", "save"}
Processes == 1 .. (1 + MaxSaves)

DeskStates ==
    [phase : {"running"}, platform : Platforms,
     outside : BOOLEAN,                  \* another backend answers on port 8080
     static : {FALSE},                   \* the static server listens
     task : {[t \in Tasks |-> IF t = "boot" THEN "listen" ELSE "none"]},
     checks : {[t \in Tasks |-> MaxChecks]},
     serverProcess : {0},                \* 0: null
     alive : {{}}, ready : {{}},
     stopping : {{}},                    \* told to stop, whatever came of it
     exits : {{}},                       \* exit events to come
     spawned : {0}, saves : {0}, window : {FALSE},
     calm : {FALSE}]                     \* quit after the start and without a save
                                         \* (history)

Running == desk.phase \in {"running", "quitting"}

\* The child's death and the event of it are told apart by exits.  A spawn that
\* fails later (its error event has no handler) is a child that dies at once.
Died(d, pids) ==
    [d EXCEPT !.alive = @ \ pids, !.ready = @ \ pids, !.stopping = @ \ pids,
              !.exits = @ \cup (pids \cap d.alive)]

\* SIGTERM does not wait for the end of the process; taskkill does, but that it
\* failed is caught and ignored.  On either platform the process may end at once
\* (BackendDies), later, or never.
Killed(d) == [d EXCEPT !.stopping = @ \cup ({d.serverProcess} \cap d.alive)]

StopBackendUnkilled(d) == [d EXCEPT !.serverProcess = 0, !.static = FALSE]

\* The static server is stopped as well, whatever the reason.
StopBackend(d) == [Killed(d) EXCEPT !.serverProcess = 0, !.static = FALSE]

\* Only a start at the launch leads to a window.
TaskDone(d, t) == [d EXCEPT !.task[t] = "done", !.window = @ \/ t = "boot"]

Listening ==
    /\ Running
    /\ desk.task["boot"] = "listen"
    /\ desk' = [desk EXCEPT !.static = TRUE, !.task["boot"] = "health"]

\* What GET /health on port 8080 may find; it is given up after a second.
CheckApiHealth == IF desk.outside \/ desk.ready # {} THEN BOOLEAN ELSE {FALSE}

Spawned(t) ==
    LET pid == desk.spawned + 1 IN
    [desk EXCEPT !.spawned = pid, !.serverProcess = pid, !.alive = @ \cup {pid},
                 !.task[t] = "wait"]

\* A backend that answers is used.  Otherwise one is spawned, if its binary is
\* there and can be started.
StartBackend(t) ==
    /\ Running
    /\ desk.task[t] = "health"
    /\ \/ TRUE \in CheckApiHealth /\ desk' = TaskDone(desk, t)
       \/ FALSE \in CheckApiHealth /\ desk' \in {TaskDone(desk, t), Spawned(t)}

WaitForApiForever(t) ==
    /\ Running
    /\ desk.task[t] = "wait"
    /\ TRUE \in CheckApiHealth
    /\ desk' = TaskDone(desk, t)

\* One turn of the loop that waits for the API to come online.
WaitForApi(t) ==
    /\ Running
    /\ desk.task[t] = "wait"
    /\ \E up \in CheckApiHealth :
           LET left == IF up THEN desk.checks[t] ELSE desk.checks[t] - 1 IN
           desk' = IF up \/ left = 0 THEN TaskDone([desk EXCEPT !.checks[t] = left], t)
                   ELSE [desk EXCEPT !.checks[t] = left]

SaveRestartsChecks ==
    /\ Running
    /\ desk.static
    /\ desk.saves < MaxSaves
    /\ desk.task["save"] \in {"none", "done"}
    /\ desk' = [StopBackend(desk) EXCEPT !.saves = @ + 1, !.task["save"] = "health",
                                         !.checks = [t \in Tasks |-> MaxChecks]]

\* POST /api/system/db-config
SaveDbConfig ==
    /\ Running
    /\ desk.static
    /\ desk.saves < MaxSaves
    /\ desk.task["save"] \in {"none", "done"}
    /\ desk' = [StopBackend(desk) EXCEPT !.saves = @ + 1, !.task["save"] = "health",
                                         !.checks["save"] = MaxChecks]

BackendComesUp ==
    /\ Running
    /\ \E pid \in desk.alive \ desk.ready : desk' = [desk EXCEPT !.ready = @ \cup {pid}]

\* A process ends, by itself or because it was told to.
BackendDies ==
    /\ Running
    /\ \E pid \in desk.alive : desk' = Died(desk, {pid})

\* The handler does not look which process it was.
ExitHandler ==
    /\ Running
    /\ \E pid \in desk.exits : desk' = [desk EXCEPT !.exits = @ \ {pid}, !.serverProcess = 0]

Quitting(d) ==
    [StopBackend(d) EXCEPT !.phase = "quitting", !.window = FALSE,
                           !.calm = d.task["boot"] = "done" /\ d.saves = 0]

\* On macOS the application stays when its last window is closed.
WindowAllClosed ==
    /\ desk.phase = "running"
    /\ desk.window
    /\ desk' = IF desk.platform = "darwin" THEN [StopBackend(desk) EXCEPT !.window = FALSE]
               ELSE Quitting(StopBackend(desk))

Activate ==
    /\ desk.phase = "running"
    /\ desk.platform = "darwin"
    /\ desk.task["boot"] = "done"
    /\ ~desk.window
    /\ desk' = [desk EXCEPT !.window = TRUE]

BeforeQuit ==
    /\ desk.phase = "running"
    /\ desk' = Quitting(desk)

\* The event loop runs on between before-quit and the end.
Exits ==
    /\ desk.phase = "quitting"
    /\ desk' = [desk EXCEPT !.phase = "exited"]

ShellSteps == Listening \/ (\E t \in Tasks : StartBackend(t) \/ WaitForApi(t)) \/ Exits

DesktopNext ==
    \/ ShellSteps
    \/ SaveDbConfig \/ BackendComesUp \/ BackendDies \/ ExitHandler
    \/ WindowAllClosed \/ Activate \/ BeforeQuit

-----------------------------------------------------------------------------
\* A shell that is quit after its window was shown, and saved no configuration,
\* forgets no backend of its own: every process it spawned has ended or was told
\* to (a kill that fails is ignored).  (With a configuration saved the exit of the old process makes
\* the shell forget the new one, see the README.)
NoBackendOutlivesShell ==
    desk.phase = "exited" => (desk.calm => desk.alive \subseteq desk.stopping)

\* The steps that the start is from its end.
StartRank(d) ==
    CASE d.task["boot"] = "listen" -> MaxChecks + 2
      [] d.task["boot"] = "health" -> MaxChecks + 1
      [] d.task["boot"] = "wait" -> d.checks["boot"]
      [] d.task["boot"] = "done" -> 0

BootSteps == Listening \/ StartBackend("boot") \/ WaitForApi("boot")

\* Each of its own steps brings the start nearer to its end, and nothing else
\* brings it nearer or sets it back: no backend that dies or comes up late, no
\* configuration saved meanwhile, whose restart has checks of its own.
StartGoesForward ==
    [][desk # Absent =>
           IF BootSteps THEN StartRank(desk') < StartRank(desk)
           ELSE StartRank(desk') = StartRank(desk)]_desk

\* The start comes to an end, which is a window, unless the shell is quit before:
\* also when the backend is missing, dies or never answers.
StartupShowsWindow ==
    desk.phase = "running" ~> (desk.phase # "running" \/ desk.task["boot"] = "done")
=============================================================================
