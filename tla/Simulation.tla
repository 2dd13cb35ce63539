---------------------------- MODULE Simulation ----------------------------
(***************************************************************************)
(* The n-body demo (demos/01-gpgpu-nbody/demo/interactive_3d.py): the      *)
(* pages post commands, a worker thread applies them and runs the kernel   *)
(* on the board through the FPGA backend, and a shared state holds what    *)
(* the pages are shown.  The events that carry the shared state to the     *)
(* pages are left out.                                                     *)
(***************************************************************************)
EXTENDS Uart

CONSTANTS
    Actions,       \* what the pages ask for
    MaxSpeed,      \* highest steps_per_frame (10240 in the code)
    MaxSteps,      \* bound of the model: steps since a reset
    MaxCommands    \* bound of the model: commands waiting

ASSUME SimulationAssumption ==
    /\ Actions \subseteq {"toggle_play", "play", "pause", "step_one", "step_speed",
                          "reset_simulation", "speed_up", "speed_down", "set_speed",
                          "fps_up", "fps_down", "set_fps", "unknown"}
    /\ MaxSpeed \in Nat \ {0} /\ MaxSteps \in Nat /\ MaxCommands \in Nat

VARIABLES
    process,    \* of the demo: starting, serving, exited or killed
    worker,     \* where the worker thread is
    backend,    \* the FPGA backend: its step count, cached arguments, asked steps
    commands,   \* actions posted to /control
    request,    \* what apply_control has gathered: manual steps, reset
    state       \* SharedState

server == <<process, worker, backend, commands, request, state>>
vars == <<uart, server>>

NoFrame == [step |-> -1, shown |-> -1]
Garbled == -2
NoRequest == [steps |-> 0, reset |-> FALSE]
Initializing == [playing |-> FALSE, speed |-> 1, busy |-> FALSE,
                 status |-> "initializing", latest |-> NoFrame]

(* The step whose bodies a dump shows, if it shows one. *)
Shown(dump) ==
    IF \E k \in 0..MaxSteps : dump = Positions(k)
    THEN CHOOSE k \in 0..MaxSteps : dump = Positions(k) ELSE Garbled

---------------------------------------------------------------------------
(* do_POST puts the action on the queue, whoever is there to take it. *)
Posts ==
    /\ process = "serving" /\ Len(commands) < MaxCommands
    /\ \E action \in Actions : commands' = Append(commands, action)
    /\ UNCHANGED <<uart, process, worker, backend, request, state>>

(* apply_control, one command: it goes on until the queue is empty.  The   *)
(* frame rate is left out.  What number a page sends with set_speed is     *)
(* any, within the limits.                                                 *)

Controlled(s, action, speed) ==
    CASE action = "toggle_play" -> [s EXCEPT !.playing = ~@]
      [] action = "play" -> [s EXCEPT !.playing = TRUE]
      [] action \in {"pause", "step_one", "step_speed", "reset_simulation"} ->
           [s EXCEPT !.playing = FALSE]
      [] action = "speed_up" -> [s EXCEPT !.speed = IF 2 * @ > MaxSpeed THEN MaxSpeed ELSE 2 * @]
      [] action = "speed_down" -> [s EXCEPT !.speed = IF @ \div 2 < 1 THEN 1 ELSE @ \div 2]
      [] action = "set_speed" -> [s EXCEPT !.speed = speed]
      [] action = "unknown" -> [s EXCEPT !.status = "ignored"]
      [] OTHER -> s

Requested(r, action) ==
    CASE action = "step_one" -> [r EXCEPT !.steps = 1]
      [] action = "step_speed" -> [r EXCEPT !.steps = state.speed]
      [] action = "reset_simulation" -> [r EXCEPT !.reset = TRUE]
      [] OTHER -> r

Applies ==
    /\ worker = "loop" /\ commands # <<>>
    /\ \E speed \in 1..MaxSpeed : state' = Controlled(state, Head(commands), speed)
    /\ request' = Requested(request, Head(commands))
    /\ commands' = Tail(commands)
    /\ UNCHANGED <<uart, process, worker, backend>>

---------------------------------------------------------------------------
(* FpgaNbody3DBackend.reset and step, and the worker's steps around them.  *)

Calls(calls) == todo' = calls /\ UNCHANGED <<raised, attempt, got, line>>
Returned(at) == worker \in at /\ todo = <<>>
Busy(status) == [state EXCEPT !.busy = TRUE, !.status = status]

BeginsReset ==
    /\ worker = "loop" /\ commands = <<>> /\ request.reset
    /\ request' = NoRequest
    /\ worker' = "reset"
    /\ state' = Busy("resetting")
    /\ Calls(LoadBinary("state", 0))
    /\ UNCHANGED <<process, backend, commands>>

Steps == IF request.steps > 0 THEN request.steps ELSE IF state.playing THEN state.speed ELSE 0

(* The arguments are taken to be in the board once they were. *)
LoadKernelArgsOnce(steps) ==
    IF backend.previous # 0 THEN <<>> ELSE LoadBinary("args", steps)

LoadKernelArgs(steps) ==
    IF steps = backend.previous THEN <<>> ELSE LoadBinary("args", steps)

BeginsStep ==
    /\ worker = "loop" /\ commands = <<>> /\ ~request.reset /\ Steps > 0
    /\ backend.count + Steps <= MaxSteps
    /\ request' = NoRequest
    /\ worker' = "step"
    /\ state' = Busy("running")
    /\ backend' = [backend EXCEPT !.asked = Steps]
    /\ Calls(LoadKernelArgs(Steps) \o RunKernel \o DumpPositions \o ReadDone)
    /\ UNCHANGED <<process, commands>>

(* replace_with_frame; "first" is the reset before the loop. *)
EndsReset ==
    /\ Returned({"first", "reset"}) /\ ~raised
    /\ backend' = [count |-> 0, previous |-> 0, asked |-> 0]
    /\ state' = [state EXCEPT !.latest = [step |-> 0, shown |-> 0]]
    /\ worker' = "settle"
    /\ UNCHANGED <<uart, process, commands, request>>

(* add_frame *)
EndsStep ==
    /\ Returned({"step"}) /\ ~raised
    /\ LET count == backend.count + backend.asked IN
       /\ backend' = [count |-> count, previous |-> backend.asked, asked |-> 0]
       /\ state' = [state EXCEPT !.latest = [step |-> count, shown |-> Shown(got)]]
    /\ worker' = "settle"
    /\ got' = <<>>
    /\ UNCHANGED <<todo, raised, attempt, line, process, commands, request>>

Settles ==
    /\ worker = "settle"
    /\ state' = [state EXCEPT !.busy = FALSE, !.status = "ready"]
    /\ worker' = "loop"
    /\ UNCHANGED <<uart, process, backend, commands, request>>

(* Any exception ends the worker for good; the port is closed. *)
Closes == sent' = <<>> /\ rx' = <<>> /\ got' = <<>>

WorkerFails ==
    /\ Returned({"reset", "step"}) /\ raised
    /\ state' = [state EXCEPT !.busy = FALSE, !.playing = FALSE, !.status = "ERROR"]
    /\ worker' = "ended"
    /\ Closes
    /\ UNCHANGED <<todo, raised, attempt, device, dmem, losses>>
    /\ UNCHANGED <<process, backend, commands, request>>

(* A page has sent something that is no number. *)
ControlFails ==
    /\ worker = "loop" /\ commands # <<>> /\ Head(commands) \in {"set_speed", "set_fps"}
    /\ state' = [state EXCEPT !.busy = FALSE, !.playing = FALSE, !.status = "ERROR"]
    /\ worker' = "ended"
    /\ commands' = Tail(commands) /\ request' = NoRequest
    /\ Closes
    /\ UNCHANGED <<todo, raised, attempt, device, dmem, losses, process, backend>>

(* The first reset is outside the try: the thread is gone without a word   *)
(* and leaves the status at initializing and the port open.                *)
FirstResetFails ==
    /\ Returned({"first"}) /\ raised
    /\ worker' = "ended"
    /\ UNCHANGED <<uart, process, backend, commands, request, state>>

TalksToBoard == Client /\ UNCHANGED server
BoardTalks == worker # "ended" /\ Board /\ UNCHANGED server

---------------------------------------------------------------------------
(* main: the backend is constructed before the worker and the server start. *)
Constructed ==
    /\ Returned({"construct"}) /\ ~raised
    /\ worker' = "first"
    /\ Calls(LoadBinary("state", 0))
    /\ UNCHANGED <<process, backend, commands, request, state>>

ConstructFails ==
    /\ Returned({"construct"}) /\ raised
    /\ process' = "exited" /\ worker' = "ended"
    /\ UNCHANGED <<uart, backend, commands, request, state>>

Serves ==
    /\ process = "starting" /\ worker # "construct"
    /\ process' = "serving"
    /\ UNCHANGED <<uart, worker, backend, commands, request, state>>

(* start_session gives up on a process that does not open its port, and    *)
(* stop_session terminates it wherever it is: nothing tells the board.     *)
Killed ==
    /\ process' = "killed" /\ worker' = "ended"
    /\ todo' = <<>> /\ raised' = FALSE /\ Closes
    /\ commands' = <<>> /\ request' = NoRequest /\ state' = Initializing
    /\ UNCHANGED <<attempt, device, dmem, losses, backend>>

StartTimesOut == process = "starting" /\ Killed
StopSession == process = "serving" /\ Killed

---------------------------------------------------------------------------
Init ==
    /\ UartInit
    /\ process = "starting" /\ worker = "construct"
    /\ backend = [count |-> 0, previous |-> 0, asked |-> 0]
    /\ commands = <<>> /\ request = NoRequest /\ state = Initializing

Worker ==
    \/ Constructed \/ ConstructFails \/ FirstResetFails
    \/ Applies \/ BeginsReset \/ BeginsStep
    \/ EndsReset \/ EndsStep \/ Settles \/ WorkerFails \/ ControlFails

Next ==
    \/ Worker \/ TalksToBoard \/ BoardTalks
    \/ Serves \/ StartTimesOut \/ StopSession
    \/ Posts

(* The worker is a running thread, and every wait of the monitor has a     *)
(* deadline; the board, the line and the pages owe nothing.                *)
Fairness == WF_vars(Worker) /\ WF_vars(TalksToBoard)

Spec == Init /\ [][Next]_vars /\ Fairness

---------------------------------------------------------------------------
(* A frame shows the bodies where its own step count says they are: the    *)
(* arguments cached by the backend are those in the board, every byte of   *)
(* the dump is one of this run, and a failed step publishes nothing.       *)
FrameIsTrue == state.latest.shown = state.latest.step

(* A run begins on a board that is in its loading state and has answered   *)
(* everything it was asked, however the calls before it ended.             *)
BoardIsReady ==
    worker \in {"loop", "settle"} => device = "loading" /\ sent = <<>>

(* A pause a page has posted ends the playing, whatever becomes of the     *)
(* step the board is at: every wait for the board is bounded.              *)
PauseIsHeard ==
    (\E i \in 1..Len(commands) : commands[i] = "pause") ~> ~state.playing

(* The word of test_nbody_uart_download.py: a dump never returns a partial *)
(* result after a truncated reply.                                         *)
NeverPartial == state.latest.shown # Garbled
=============================================================================
