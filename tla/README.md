# Verification of Live FPGA Lab

Live FPGA Lab shares one physical FPGA board among the visitors of a web page.
A visitor joins a queue for a demo, the Web API programs the board when it is
the visitor's turn, proxies the browser to the demo's own backend process, and
cleans the board up afterwards. This directory holds TLA+ modules of the parts
where order matters, the TLC configurations that check them, and TLAPS proofs
of what matters most. Paths below are relative to the repository's root.

## 1. The system

### Processes

    browsers ──HTTP/WS──> Web API ──Unix socket──> FPGA agent ──pipes──> XSDB, Vivado ──> board
                            │  └── demo backends (one process per HDMI/UART demo)
                            └── FFmpeg capture ──> viewers

The Web API and the FPGA agent are two Python processes, each one asyncio event
loop. The agent talks to long-lived Tcl tools through pipes. The Web API starts
demo backends and the capture in threads.

### Inventory

| Component | State | Operations | What is hard | What makes it correct |
|---|---|---|---|---|
| Session store, `src/web_api/sessions.py` | sessions, queue, the active id, deadlines | create, begin_next, activate, fail_start, end, begin_active_end, finish_active | any order of calls; a deadline that stands exactly while somebody waits | one owner; first come first served; one live session per user; the promised window; statuses move forward |
| Board manager, `src/web_api/board.py` | last board state, demo runtime, flow lock, expiry and disconnect tasks, connection counts | create/end session, connections opened/closed, the watch of the agent's events, expiry and disconnect timers, start and end of demos, start and stop | five kinds of coroutine that interleave at every `await`; tasks cancelled while they work; replies that arrive after the world has changed; an agent that is down; a restart that forgets who was on the board | the owner runs its own demo on a clean board; every owner is served by some task; the queue goes on; ends are completed |
| Agent client, `src/web_api/agent_client.py` | none | requests, event stream | events wait while a coroutine works | order is kept |
| FPGA agent, `src/fpga_agent/agent.py`, `fpga.py`, `rpc.py` | the record of each device, faults, a lock per device, subscribers' queues | program_pl, program_ps, reset_board, clear_device_fault, set_mode, subscribe, telemetry and discovery loops | a check before and after a wait for the lock; three writers of faults; one-slot queues | tools take turns; a hot board is never programmed; the record is honest; streams are current |
| Tcl tools, `src/fpga_agent/actions.py` | a process, its pipe, what was read of it | start, run, stop; the scripts of each action; the choice of a board's core and debug port | answers recognised by markers in a stream, of which the rest stays in the pipe; timeouts; a process that dies; several boards on one hub | an answer belongs to its question; nothing is at work on the board when nobody waits for it; a board gets its own core and debug port |
| Video service, `src/web_api/video.py` | capture process and producer thread, tokens of viewers and demos, the gate | viewer opened/closed, acquire/release demo, monitor, close; start/stop of the capture | threads; a kill that does not kill; a gate changed from outside | one owner of the capture device; captured exactly while wanted; nothing stale is shown |
| Feeds: HTTP and WebSocket API, `src/web_api/api.py`, and the publishing of `board.py` | a queue for each subscription, the last public snapshot | snapshots and updates to browsers, the public stream, the proxy to demo backends | updates between snapshot and subscription; queues that drop; equal snapshots that are not sent again | a feed ends on the current state |
| Frontend, `src/frontend/src` | what it was told of the board, the session and the queue; a remembered wish to start | taking updates, autostart | messages of several topics, one of which it does not know | it shows the latest of each |
| n-body demo, `demos/01-gpgpu-nbody` | a simulation worker, its backend's cache of the kernel's arguments, a UART monitor | commands of the pages, reset, step, load, run, dump | memory dumped over a serial line that loses bytes; calls that fail half-way; arguments remembered and not sent again | a frame shows the step it is numbered with; the board is ready for the next call |
| Configuration, demo loading | none after the start | | | |

How they interact: the board manager calls the store without ever suspending
in it, sends requests to the agent and awaits them, and hears of the board only
through the agent's event stream. The agent serialises whatever reaches the
board with one lock per device. The video service is called by the board
manager (a demo's lease), by the page's streams and by its own monitor.

## 2. Modules

    BoardTurns <─refines─ Sessions ── SessionStore ──> Board ─refines─> AgentService <─refines─ FpgaAgent
                             │                          │                                          │
                       SessionsProofs              BoardProofs                                AgentProofs
                                                        │
                                                   DemoProofs

    JtagTargets ──> TclSession      Feeds          Capture ──> Video      Uart ──> Simulation
                        │             │               │          │                     │
                    TclProofs    FeedsProofs           VideoProofs              SimulationProofs

| Module | Models | State | Actions |
|---|---|---|---|
| `SessionStore` | `SessionManager`'s methods as operators from store to store | – | – |
| `Sessions` | the store called in any order, with a clock | `store`, `now` | one for each method, and a tick |
| `BoardTurns` | what the store promises: tickets are drawn, called in order, and one owner at a time leaves | `waiting`, `owner`, ... | the turns of a ticket queue |
| `Board` | `BoardManager`'s coroutines, with the agent as its environment, which may be down, and restarts of the Web API | `web` (everything in the Web API process), `agent`, `events`, `procs`, `conns`, `now`, `troubles` | one for each run of a coroutine from one suspension to the next |
| `FpgaAgent` | `Agent`, `FPGAState` and the device lock | `device`, `fabric`, `calls`, `lock`, `telemetry`, `misses`, `failures`, `streams` | one for each step between two awaits of a request and of the loops |
| `AgentService` | what the agent promises: one request after the other, in the order they came, and no lock-out upon one | `image`, `lost`, `hot`, `mode`, `line` | a request is admitted, begins, is turned away, succeeds, fails; what befalls the board; a new process |
| `Capture` | `VideoCapture`: start and stop against the producer thread | `alive`, `process`, `frame`, `stop`, `producer`, `known`, `stopping` | one for each step between blocking calls |
| `Video` | `VideoService`: tokens, gate, monitor, composed with `Capture` | capture's, and `gate`, `viewers`, `leases`, `running`, `turn`, ... | one for each taking of `_viewer_lock`, and each way `_sync_locked` goes |
| `JtagTargets` | the selection of a core and a debug port for each FPGA of a hub | – | – |
| `TclSession` | `TclSession` with its tool, and `BoardActions`' scripts as what they print | `tool`, `chain`, `process`, `stdin`, `pipe`, `call`, `runs`, `result` | one for each step of a call between two waits, and the tool's own |
| `Feeds` | what `BoardManager` publishes at each change, a page behind its WebSocket, the public stream | `lab`, `work`, `pages`, `readers`, `last`, `events` | one for each run of a coroutine that publishes, and those of a connection |
| `Uart` | `GpgpuUartMonitor` and the firmware at the other end of the line | `todo`, `raised`, `attempt`, `got`, `sent`, `rx`, `device`, `dmem`, `losses` | one for each write, each wait and each answer of the firmware |
| `Simulation` | the worker, the backend, the controls and the process of the n-body demo, over `Uart` | the line's, and `process`, `worker`, `backend`, `commands`, `request`, `state` | one for each command applied and each beginning and end of a reset or step |

`MC*.tla` name the symmetries and the hubs; `MC*.cfg` give the constants.
`Capture` is checked inside `Video`, which uses it as its own proofs show, and
`JtagTargets` and `Uart` inside the modules that extend them.

### Correspondence and abstractions

**SessionStore, Sessions.** A session is a record with the fields of
`DemoSession` that decide anything. Times are small naturals; `Contended` is the
contended window. Session ids are the order of creation. `MaxSessions` and
`MaxTime` bound the runs. An expiry may come at any tick after its deadline.

**Board.** A coroutine is a task, and its program counter is the call, thread,
lock or timer it awaits. Everything that the code does from there to its next
suspension is one action, built of one operator for each method, nested starts
included (`_try_start_next` is called from nearly everywhere). Cancelling a task
is modelled where it bites: a task that waits for or holds the flow lock leaves
it, a request that was sent is carried out without anyone to answer, and a
thread that starts or stops a runtime goes through with it as a zombie. Requests
reach the agent in the order in which they are sent (one event loop, one Unix
socket). Anybody may end their own session at any time, a starting one only when
`end_starting` is among the troubles. The grace period after a disconnect has no
length. The websocket commands of a socket are over-approximated by counts.
`Troubles` names what may go wrong, in nine kinds, and `MaxTroubles` how often.

The agent may stop: every request that is not answered fails, those sent
meanwhile too, and it comes back with an empty record, having forgotten heat and
faults until it sees them again. A lost event stream begins anew with the
present state. A restart of the Web API (`BoardManager.stop`, then a new
process) is one step, taken when the agent answers: the current runtime is
stopped, threads go through with what they had begun, the sessions of the old process are over, requests already sent are
carried out, and the board is not reset. Publishing is left to `Feeds`, and the
owner's own programming of a reserved board is left out.

The agent of `Board` is an abstraction of `FpgaAgent`: a queue of calls, the first
of which may have a tool at the board, two flags for faults, a mode, and what
the board runs. Its safety reset always succeeds. That both keep the same promise
is proved: each implements `AgentService`, `FpgaAgent` as the service of one process
(`ProcessSpec`), and `Board`'s agent as one that may be stopped and boot again.
Calls that are sent and not received are not in the service's line.

**FpgaAgent.** One device. A request goes through "first check", "lock", "tool",
"done" or "failed". A probe of the discovery loop is one step. Temperatures are
cool, warm and hot; no temperature counts as too hot, as in `_evaluate_safety`.
`fabric` is what the hardware really runs, which the code cannot see; a tool that
failed may have cleared it. `Failing` names the operations that may fail.
The line of `AgentService` is the device lock without the safety reset, which to the
service is what a lock-out does to the record.
PROGRAMMING_FAILED is latched but not published, as in the code. A view is the
status and the mode, what the Web API acts on. Boot and stop are left out here;
`Board` has what they do to the Web API.

**Capture, Video.** `_lifecycle_lock` makes `start` atomic, and `stop` is in
three steps with the producer free to run in between. The join of three seconds
is outlived only by a process that survives a kill, since `_stop_process` waits
1 + 1 s. The names of FFmpeg processes are used again once nothing remembers
them. A frame is the process that sent it. In `Video` one transition at a time
has `_viewer_lock`. `stale` is a history variable. `Stubborn` says whether a
process may outlive a kill, in uninterruptible sleep in the capture's driver;
the code has branches for it.

**JtagTargets, TclSession.** A target is its cable, its context, its level and what
its name makes it. The lock of a session makes calls take turns, so there is one
call. A line is printed and read whole, since the tools flush whole lines; a
read takes any beginning of what there is. What a script prints is decided when
it is executed: its own line ("marker", a reading, a listing) and COMMAND_DONE,
or COMMAND_DONE alone when it fails. A kill is taken to work. Three things
follow from the code and stay as they are: a call that ends on its marker leaves
its COMMAND_DONE in the pipe, so the next discovery may end on it with an old or
an empty listing; that leftover, if it says "failed", makes the next program or
reset that succeeded be reported as failed; and a script that fails prints no
marker, so its call waits for the timeout and restarts the tool. The
properties say how far this goes: never is a failure reported as done
(`OkIsOwn`), never does a listing come from further back than the script before
(`LagsByOne`).

**Feeds.** Sessions are started, ended and reset in any order and at any time that
`Board` allows; each step publishes what the code publishes, in its order. Of the
flow lock only what decides who may end is kept: a user's end takes it or waits for
it, maybe behind an ender whose session something else has finished, and a timer
ends what is active once it has it. The public snapshot has the active session's
demo and the queue's length, as in the code, so two sessions of one demo look alike. A
page is one visitor's. What a page misses for good is named in `missed` and
excepted by `PageIsCurrent`: what a full queue dropped, what was published
between snapshot and subscription, and a session whose end was overtaken.
`_end_for_board_problem` publishes its session as "ending" once more after it is
over; the finish that follows sets it right. Publishing is a function of `Feed`, all
that an event changes: a step composes the functions of its events in the order
in which the code publishes them. A put on the connection's own queue
waits while it is full, and the subscription's queue drops meanwhile.

**Uart, Simulation.** The firmware is not in the repository: what it answers is
taken from the marker strings of `gpgpu_uart.py` and from the stand-in in
`tests/test_nbody_uart_download.py`. A unit on the line is a marker, the prompt,
an end of line or a byte; the line may lose `Bursts` units in a row, `MaxLosses`
times. Positions are tagged with the step they are of, and a frame shows a step
when its bytes are that step's; `got` keeps the chunks of a dump as they were read. The demo's own behaviour is kept: the first reset is
outside the worker's `try`, so the worker may be gone without a word; any error
ends the worker for good while `/control` still takes commands, and so does a
`set_speed` or `set_fps` with something that is no number; a terminated
demo leaves the board as it is. The frame rate (`fps_up`, `fps_down`, `set_fps`) paces
the loop and has no state in the model. A line that garbles bytes without losing any is
left out.

## 3. Runs

| Run | Bounds | Shows |
|---|---|---|
| `sessions` | 3 users, 3 sessions, window 2, clock to 3 | the promises of the store under any order of calls; it implements `BoardTurns` |
| `board_starts` | 2 users, 3 sessions, 2 connections, one failing start | the owner runs its own demo, on a board cleaned in between; a deadline has its timer |
| `board_troubles` | 2 users, 2 sessions, a connection, one trouble of nine kinds | the flow lock is never orphaned, no owner is left without a task, counts and buffers stay within bounds; nobody who is connected is about to be timed out, also while the task waits for the flow lock; an end that has begun is completed; whoever waits is served, unless the board is stranded: running something, with nobody on it to reset it |
| `agent` | 2 requests, 2 images, a subscriber, thresholds 1 and 2, readings that fail, tools that do not, and a board that comes and goes | the record is honest, a locked-out board is blank until it is cool, subscribers are up to date |
| `agent_lock` | 2 requests, failing tools, a board that comes and goes | tools take turns and never program a hot board; whoever has the lock or waits for it leaves it, the safety reset too; the agent implements `AgentService` |
| `video` | 2 viewers, 2 demos, 4 processes that may outlive a kill | one owner of the capture device, which runs while it is wanted; no replay; a demo keeps its capture and sees itself; a closed gate stops it with every stream blocked, while the monitor lives |
| `tools` | 4 scripts, four hubs with one or two boards in different orders, either tool | what is reported as done was done by its own script; a listing is no older than the script before; the board is free when no call is; own core and debug port; every call ends |
| `feeds` | 2 visitors, 2 sessions of one demo, an agent that may be lost and reports once, a page or a public reader that come and go, a queue of two | whatever the order of snapshot, subscription and updates, the last thing told is the present state, or is listed as missed: what a full queue dropped, and what came between snapshot and subscription |
| `nbody` | 2 chunks of 4 bytes, two losses of 3 or 4 units, 3 steps, speed to 2, a command waiting | frames show the step they are numbered with, every call begins on a board that is ready, a pause is heard |
| `board_two_owners`, `feeds_every_change`, `nbody_truncated` | as above, with an end of a starting session; as above; with losses of one unit | see below |

Why the bounds are enough: three sessions of two users give an owner, one that
waits and one that comes later or is joined twice; the interesting races need
two sessions, an ender that is late and a start that follows it. Two connections
of one session are the fewest for which a count differs from a flag. `board_troubles`
makes do with one connection and one trouble, since liveness is checked without
symmetry; that the lock is live, the owner served, the counts right and the
types kept when troubles meet is proved for any number of them. Two requests and the safety reset
are the fewest for which the lock's order matters. Thresholds of one and two are
the boundary and one beyond. A leftover line crosses from one script into the
next and, if it went further, into the third; the fourth begins after it. Four hubs
have the FPGA before and after its cores, the cores in both orders, a board
without a debug port, and a bare FPGA. A queue of two is the smallest that can drop
an update of one topic and keep another's; one observer at a time suffices,
since observers do not act on each other, and it may come, go and come back as often as
it likes. Two sessions of one demo are the fewest whose public snapshots can be
equal. Three steps are the fewest after which
the kernel's arguments can have changed without a reset; two chunks have one
that follows another; four bytes are more than a burst hides, and three the fewest whose loss is
always noticed, as the run `nbody_truncated` shows for one. The deadlock check is off for the
runs of `Sessions`, `Board`, `Feeds` and `Simulation`, where everybody may have
left, or every bound be used up, for good.
In the capture one process can be stuck, one remembered in a frame, one found by
a stop, and a fourth be opened.

### Disagreements between texts and code

Three runs are expected to find a violation; each property is what a text of the
repository says.

- `board_two_owners`: `_program_demo` does not look again between its two steps,
  so a session that was ended while it started programs the next owner's board.
- `feeds_every_change`: `README.md` promises the public stream "on every change", and
  `open_public_subscription` a queue "that always holds the latest public snapshot". A
  session that begins to end is no longer the active demo, and nobody but its
  user is told before its runtime has stopped and the board was reset; a start
  that fails is announced after the reset too. `PublicIsCurrent` states what
  remains: outside these times every reader is up to date.
- `nbody_truncated`: a dump that lost one or two bytes in the middle is filled up
  with the line end that follows it, passes the check for the prompt, and is
  shown as a frame of shifted words.

Other behaviour of the code that a reader of the properties should know of, which
no text of the repository excludes and the models contain:

- a reset that returns late makes `finish_active`, which takes no session id, finish
  the session that has begun since, without a reason;
- a board that is lost while it is programmed, and whose programming then succeeds,
  reports RUNNING for good; nobody resets it, and the queue does not resume;
- the reset of a board that was just reserved is a DEMO request, which the agent
  refuses in PROJECT mode; the demo stays on the board;
- the video monitor's thread has no handler for a capture that cannot start, and
  ends; closing the gate stops nothing from then on while a stream is blocked;
- a Web API that is restarted while a demo is active leaves the demo on the board,
  and waits for somebody to reset it;
- whoever is started while the agent is down has a failed start;
- a start that is cancelled while its thread starts the runtime leaves a process
  that nobody stops;
- an expiry or disconnect task that waited for the flow lock does not look again at
  what it waited for, and ends whichever session has the board then.

`QueueMoves` calls a board stranded when it runs something that nobody is there
to reset, and excepts it.

## 4. Fairness

- `Board`: the event loop resumes each coroutine that is ready (weak fairness of
  every reply, timer, lock and of the watch task), the agent serves what it gets,
  publishes at each reading and boots again when it was stopped (`restart: unless-stopped` in `docker-compose.yml`), and troubles pass. Users owe nothing, so
  `QueueMoves` rests on the deadline alone.
- `FpgaAgent`: the loop resumes the holder of the lock, tools end (sessions are
  killed at a timeout) and the telemetry loop goes on. asyncio's lock is first
  come first served, which is modelled, not assumed.
- `Video`: the threads run, the pipe of a dead process ends, and the monitor gets
  the lock when it is free. No stream need ever close.
- `TclSession`: a write, a timeout and a stop are ended by the clock. The tool owes
  nothing.
- `Feeds`: the event loop runs the two tasks of a connection, and the network
  delivers: whatever one of them can do for a page, something of it is done. Sessions and readers owe nothing.
- `Simulation`: the worker is a running thread and every wait of the monitor has a
  deadline. The board, the line and the pages owe nothing.

## 5. Proofs

All for every value of the constants under the modules' named assumptions, which
TLC evaluates in the runs.

- `SessionsProofs`: the conjunction of the store's invariants is inductive, from
  which come type correctness, one owner, one live session for a user, a correct
  queue, limits exactly while somebody waits and a fair window, and the two
  action properties. The queue's order alone is not inductive: it needs
  that the queue holds exactly the waiting sessions, once each, and the window
  needs that deadlines stand only for the session on the board. Its second half:
  `Sessions` implements `BoardTurns`. Each method maps to a turn, or, where it only
  moves deadlines, to a stutter.
- `BoardProofs`: the flow lock is never orphaned (`LockIsLive`). The inductive
  invariant says that a task is in the lock exactly when it waits for it or holds
  it, once, and that only the holder is past "lock". By itself that is not
  inductive, since a task that is started anew must have left the lock: an
  ender, since a session ends once; an expiry, since a deadline in the lock
  lies in the past and one that is set lies in the future (which takes a
  contended window that is not empty, `WindowAssumption`); a disconnect timer,
  since it is among `_disconnect_tasks` from its start until it has left
  the lock, and whoever replaces it cancels it first. All three need the order of
  the store, so that is carried along: `StoreAlwaysOK`. The proof follows the
  code: one lemma for each method says what it does to a state in which its task
  runs inside or outside the lock, one for each action puts them together.
- `BoardProofs`, second half: no owner of the board is without a task
  (`OwnerIsServed`). While a task runs, either the others serve the owner, or it is
  itself at the owner's start, or about to end whatever is on the board; and it
  may suspend only at a point that keeps this, or after the owner is gone or
  active. Tasks are cancelled only where the owner is active, ending or gone,
  so no cancelled task takes a start or an end with it. Then
  `DeadlineHasTimer`: whenever a deadline is set or moved, its timer is scheduled in
  the same run, and a timer ends only by firing, by being cancelled together with
  the deadline or the owner, or by finding another deadline, for which there is
  another timer. A task that schedules a timer is never that timer itself, since
  a timer's session has been active and the one it starts has not. A timer is a task
  named by its deadline, so the proof also needs that `Deadlines` holds every deadline
  and the clock (`ClockStaysBounded`). Clock and deadlines could drive each other
  on, as each deadline is a window after the clock and the clock waits for each
  timer. But a deadline is set only for the sake of the first in the queue, once
  for each session, which makes way before another deadline is set (`Chances`
  counts those left, and the horizon moves by one window with each). The bounds
  are therefore enough for every instance, not only for the checked ones.
- `DemoProofs`: the board manager's state keeps its shape whatever goes wrong
  (`TypeOK`). The shape is not inductive by itself: that a timer which is scheduled is
  one of the tasks takes the horizon above, that the agent is sent a session's id
  takes the point its task is at, and that a reset returns a state of the board takes
  that it was answered well. Beside it `ConnectionsCounted`: `_demo_connection_counts`
  neither falls below zero nor exceeds the connections that are open, and it is the
  number of them until the session is over, when it is forgotten.
- `DemoProofs`, second half: each active session runs its own bitstream, ELF and process
  (`OwnBoard`), a session is programmed onto a cleared board (`CleanStart`), no
  process is forgotten (`NoRuntimeLeaked`), and nobody is timed out who is connected
  (`TimedOutOnlyDisconnected`). These assume, as the theorems say, that nothing but
  a start fails (`Troubles \subseteq FailedStarts`, which the run `board_starts`
  instantiates): the list of section 3 shows what an end of a starting session,
  a failed reset or a lost board do to them. What is on the board is
  not inductive without the requests that are under way. `Will` is what the
  board holds once they are served; it counts a reset that is sent as done, which
  is right only because the agent serves in order, because the request of the
  session on the board is the last one, and because no task is
  cancelled while it waits for a reset that the next session depends on. One
  task at a time is at a start or an end (`Alone`), and it says what the board will
  hold. The last property takes that nobody waits for the flow lock on such a board:
  from the timer's look at the count to its end of the session nobody can connect.
  It says nothing of a task that does wait, which is why the run
  `board_troubles`, where tasks do, checks `ConnectedIsNotTimedOut` instead:
  whoever comes back takes the task from the lock, too.
- `FeedsProofs`: the invariant relates what a page will show of each topic, when all
  that is under way has arrived, to the state, except for the debts: what a suspended
  coroutine still owes it, listed as pairs of a page and a topic. A change of the
  state adds to the debts, each event pays its own, and a step's lemma shows that its
  events pay for all it has changed, in their order. What a page will show of a
  topic is the latest message about it, so dropping the oldest changes
  nothing unless it was the only one, and then it is listed as missed
  (`SizeAssumption`: a queue of zero would be unbounded in asyncio, and would hold
  nothing in the model). For the public stream, equal snapshots are not sent twice,
  which is right only if the one remembered as last was heard by those who
  are subscribed now. It was, or it is the present one with the demo of a session that has
  ended unannounced (`Quieted`). A later session of the same demo could make the
  present snapshot equal to it again; but when one starts the queue is shorter than it was,
  and each change of the queue, the board or the connection is published and takes the
  place of what was remembered. So nothing is left out that somebody needs. The
  queue without repetitions is part of the invariant, since cancelling removes one
  entry only, and a session that stood in it twice would still be announced.
- `AgentProofs`: types, the device lock as a queue of exactly the open requests,
  and the lock-out are inductive together. `ThermalLockout` needs the second
  `can_program` under the lock, and that whoever has passed it holds the lock,
  so the safety reset is behind it. `StreamsCurrent` needs only that every change
  of a view is published in the step that makes it, and that a slot takes the
  newest. `HotBoardBlank` assumes that resets do not
  fail, `HonestRecord` that no tool does.
- `AgentProofs`, second half: `FpgaAgent` implements `AgentService` (`AgentServesInTurn`).
  A step of the loops, of a first check that refuses, or of the safety reset in the
  lock is a stutter of the line or a change of the record; the request at the head of the lock begins where
  its second check lets it through, and is turned away where it does not. A
  lock-out never falls upon a request that has begun, as it takes the lock's head.
- `DemoProofs`, between its halves: `Board`'s agent implements `AgentService` too
  (`BoardAgentServes`). The invariant is that the calls the agent has received are the first
  in the queue, and that there are none while it is down (`InService`). What
  the Web API does only adds calls behind those, or makes them nobody's,
  which every lemma on one of its methods says (`Grown`), so no step of its
  coroutines is seen in the line. The formula was checked by TLC with two sessions and
  two troubles before it was proved; it is in no run.
- `VideoProofs`, on the capture: the process that runs is the producer's own until the producer
  ends and `_process` afterwards. That is why `start` may look at `_process` alone,
  and it gives both that the device has one owner and that no picture outlives
  its process.
- `VideoProofs`, on the service: the service's steps are steps of the capture's specification, so
  that holds in the service; and no step but its release or the shutdown takes
  the capture from a lease. Inductive: a lease without a capture exists only
  inside the transition of the demo that asks for it. Two more conjuncts give
  `CaptureIffWanted` and `DemoSeesItself`. `Wanted`: a producer that has not been
  told to stop is marked as running, and outside a stop whatever is marked as
  running has not been told to stop and has a producer, or the process one has
  given up on. `Fresh`: the processes of before a demo came are alive, owned or
  the picture's, and once the first demo has had the device opened again the
  producer owns none of them.
- `TclProofs`: the lines in the pipe, and those a call has read, are in the order of
  the scripts that printed them; at rest only the latest script has left
  anything, and neither its marker nor its reading, which its call read; while a
  call reads there is its own script and at most the one before. That is an
  inductive invariant, and it gives that a result is of its own script, that a
  listing lags by at most one script, and that nothing is at work on the board when no
  call is in progress. It takes each line to be read whole and a kill to work.
- `TclProofs`, on the discovery: `ContextIsBoard`, for every list of targets a hub may
  give. The FPGAs are listed in the order of their contexts, which
  is an induction on the length of the list, led as a proof that the shortest counterexample does not exist;
  whatever core or debug port is printed then stands on the cable of its board.
- `SimulationProofs`: what is left of a call of the monitor tells where it is, since the
  k-th operation from its end is the same however the call came there. For each
  operation the invariant says what the board has been asked, what of the answer may be
  on the line or lost, the state the firmware is in, and the step its memory is of.
  Once an exception is under way nothing more need be known: the worker does not come
  back to its loop. This gives, whatever the line loses, that a call finds the board
  in its loading state with nothing left to answer (`BoardIsReady`); and that a frame
  is its step's (`FrameIsTrue`), assuming that no loss is of exactly one or two
  units (`Bursts \cap {1, 2} = {}`). So few may be made up for by the end of line
  after the data, which `read_exact` takes for data: `nbody` has losses of three and
  four, and `nbody_truncated` shows what a short one does.

Only model-checked is everything under fairness, which is out of the prover's
reach: `QueueMoves`, `EndingEnds`, `LockIsLeft`, `MonitoredStops`, `CallsEnd`,
`PageCatchesUp`, `PauseIsHeard`; and `ConnectedIsNotTimedOut`. No module declares a recursive operator. What
takes induction over a listing is proved through well-founded minima, as the
library's induction theorems take operators as parameters.

## 6. Not modelled, and what is left

Done: the store and what it promises; the board manager, with an agent that goes
down and restarts of the Web API; the agent; the Tcl tools; the feeds; the
capture and the video service; the n-body demo; and the proofs above.

Left: the discovery of several devices at the agent's boot, and the counting of
proxied connections in `api.py`.

Hazards this code has that no property is about, beside those that PROJECT.json says it of: a
safety reset that fails (logged, and tried again only after another overheating);
a proxy connection that is counted before its backend answers (`api.py:225`); a
producer that gives up on a process that does not die and leaves
`_capture_running` set (`video.py:323`); the old bitstream's name in the record
after a failed programming (`agent.py:191`).

Not to be modelled: configuration and demo loading (read once), routing, cookies,
CORS and the WebRTC proxy (input and output), the browser's timed reconnect and
the autostart rule (one conditional), rendering, the hardware designs, the parsing of
telemetry text and of JPEG frames, the events from the n-body demo to its pages, its
fake backend, the command line programs `fpga_run.py` and `fpga.py`, which call the
monitor once through, and the video demo's generator, which has no state.
