------------------------------- MODULE Board -------------------------------
(***************************************************************************)
(* BoardManager: the coroutines that share one board.                      *)
(*                                                                         *)
(* The Web API is one asyncio event loop.  A coroutine runs without        *)
(* interruption from one suspension to the next, and the only suspensions  *)
(* are agent calls, demo runtimes started and stopped in threads, timers,  *)
(* the agent's event stream and a contended _flow_lock; session store      *)
(* calls and publishing never suspend.  Hence one action here is one such  *)
(* run: it takes the whole state of the Web API to its state at the next   *)
(* suspension, through the operators below, one for each method.           *)
(*                                                                         *)
(* A coroutine is a task <<kind, session, deadline>>:                      *)
(*   watch       _watch_agent                                              *)
(*   create      create_session, from the session's creation on            *)
(*   end         end_session of a session that is on the board             *)
(*   expiry      _expire_session for one session and one deadline          *)
(*   disconnect  _timeout_disconnected_session                             *)
(* and each of them may end up in _try_start_next for some other session.  *)
(*                                                                         *)
(* The agent is the environment here, reduced to what its replies and its  *)
(* events tell: FpgaAgent models it in detail.                             *)
(***************************************************************************)
EXTENDS SessionStore, FiniteSets

CONSTANTS
    PLDemos,        \* demos with a bitstream
    PSDemos,        \* demos with a ps7_init script and an ELF
    RuntimeDemos,   \* demos with start_session and stop_session
    Troubles,       \* what may go wrong, see TroubleKinds
    MaxTroubles,    \* bound: how many things go wrong in one behaviour
    MaxConns,       \* bound: demo connections open at once
    MaxTime,        \* bound: the last instant of the clock
    EventBuffer     \* bound: board events on their way to the Web API

TroubleKinds ==
    {"fail_pl", "fail_ps", "fail_rt", "fail_reset",  \* a step of a start or an end fails
     "comm",                                         \* the agent loses the board for a while
     "agent",                                        \* the agent is down for a while
     "web",                                          \* the Web API is restarted
     "heat",                                         \* an over-temperature fault, later cleared
     "mode",                                         \* the owner reserves the board
     "end_starting"}                                 \* a user ends a session that is starting

ASSUME DemoShapeAssumption ==
    PLDemos \subseteq Demos /\ PSDemos \subseteq Demos /\ RuntimeDemos \subseteq Demos
ASSUME TroubleAssumption == Troubles \subseteq TroubleKinds /\ MaxTroubles \in Nat
ASSUME WindowAssumption == Contended > 0    \* the window a newcomer leaves is not empty
ASSUME BoundsAssumption == MaxConns \in Nat /\ MaxTime \in Nat /\ EventBuffer \in Nat \ {0}

VARIABLES
    web,        \* the Web API process, see WebType
    agent,      \* the agent's record of the board
    events,     \* the agent's event stream, oldest first
    procs,      \* sessions whose demo runtime process is up
    conns,      \* demo connections held open through the proxy, by session
    now,        \* the wall clock
    troubles    \* how many more things may go wrong

vars == <<web, agent, events, procs, conns, now, troubles>>

-----------------------------------------------------------------------------
(* Tasks *)

Watch == <<"watch", NoSession, NoTime>>
Creator(s) == <<"create", s, NoTime>>
Ender(s) == <<"end", s, NoTime>>
Expirer(s, due) == <<"expiry", s, due>>
Disconnector(s) == <<"disconnect", s, NoTime>>
NoTask == <<"none", NoSession, NoTime>>

\* A deadline is Contended after an instant at which a newcomer arrived or a
\* session became active, and each session arrives once.
Deadlines == 0..(MaxTime + MaxSessions * Contended)

Tasks ==
    {Watch} \cup {Creator(s) : s \in SessionIds} \cup {Ender(s) : s \in SessionIds}
            \cup {Disconnector(s) : s \in SessionIds}
            \cup {Expirer(s, due) : s \in SessionIds, due \in Deadlines}

Kind(t) == t[1]
Subject(t) == t[2]

\* Where a task is suspended.
Calling == {"pl", "ps",          \* _program_demo, for the session it starts
            "failreset",         \* _reset_board_after_start_failure
            "reset",             \* the reset of an ender, holding the flow lock
            "reservedreset"}     \* the reset of _end_for_board_problem
Stopping == {"failstop", "latestop", "stop", "problemstop", "reservedstop"}
Points == Calling \cup Stopping \cup
          {"done", "idle", "sleep", "lock", "rt"}

\* The points of an ender that has asked for the flow lock.
InFlow == {"lock", "stop", "reset"}

Op(pc) == IF pc \in {"pl", "ps"} THEN pc ELSE "reset"

Status == {"offline", "idle", "running", "fault"}
View == [status : Status, mode : {"demo", "project"}]
NoView == [status |-> "none", mode |-> "demo"]

Suspended(pc, s) == [pc |-> pc, ses |-> s, run |-> NoSession, call |-> "none", ans |-> NoView]
Done == Suspended("done", NoSession)
Rest(t) == IF t = Watch THEN Suspended("idle", NoSession) ELSE Done

Pc(w, t) == w.tasks[t].pc
At(w, t, task) == [w EXCEPT !.tasks[t] = task]

\* A request to the agent goes out for a session.
Send(w, t, pc, s) ==
    At([w EXCEPT !.calls = Append(@, [op |-> Op(pc), ses |-> s, by |-> t, stage |-> "sent"])],
       t, [Suspended(pc, s) EXCEPT !.call = "out"])

WebType ==
    [store   : Store,
     fpga    : View,                                 \* fpga_state
     runtime : SessionIds \cup {NoSession},          \* _demo_runtime
     flow    : Seq(Tasks),                           \* _flow_lock: holder, then waiters
     expiry  : Tasks \cup {NoTask},                  \* _expiry_task
     disc    : SUBSET SessionIds,                    \* keys of _disconnect_tasks
     counts  : [SessionIds -> 0..MaxConns],          \* _demo_connection_counts
     tasks   : [Tasks -> [pc : Points, ses : SessionIds \cup {NoSession},
                          run : SessionIds \cup {NoSession},
                          call : {"none", "out", "ok", "error"},
                          ans : View \cup {NoView}]],
     calls   : Seq([op : {"pl", "ps", "reset"}, ses : SessionIds, by : Tasks \cup {NoTask},
                    stage : {"sent", "admitted", "running"}]),
                                                     \* requests the agent has not answered
     zombies : SUBSET ({"up", "down"} \X (SessionIds \cup {NoSession}))]
                                                     \* threads of cancelled tasks

-----------------------------------------------------------------------------
(* The store, as the board manager uses it. *)

ActiveId(w) == w.store.active
ActiveSession(w) == w.store.ses[ActiveId(w)]
DemoOf(w, s) == w.store.ses[s].demo

-----------------------------------------------------------------------------
(* Timers.  Cancelling a task that sleeps removes it.  One that is suspended *)
(* elsewhere is unwound there: it gives up the flow lock, while the request *)
(* it has sent and the thread it has started carry on without it.           *)

\* Cancelling an ender leaves the flow lock to it.
CancelKeepsLock(w, t) == [w EXCEPT !.tasks[t] = Done]

\* asyncio's lock takes a waiter that is cancelled out of its queue.
LeaveLock(flow, t) == IF Contains(flow, t) THEN RemoveFromQueue(flow, t) ELSE flow

\* A runtime that is being started or stopped in a thread.
Thread(task) ==
    CASE task.pc = "rt" -> {<<"up", task.ses>>}
      [] task.pc \in Stopping -> {<<"down", task.run>>}
      [] OTHER -> {}

CancelTask(w, t) ==
    [w EXCEPT
        !.tasks[t] = Done,
        !.flow = LeaveLock(@, t),
        !.calls = [i \in DOMAIN @ |-> IF @[i].by = t THEN [@[i] EXCEPT !.by = NoTask] ELSE @[i]],
        !.zombies = @ \cup Thread(w.tasks[t])]

CancelExpiry(w, me) ==
    LET t == w.expiry
        forgotten == [w EXCEPT !.expiry = NoTask]
    IN  IF t = NoTask \/ t = me THEN forgotten ELSE CancelTask(forgotten, t)

\* The timer is cancelled after it has been replaced.
ScheduleThenCancel(w, me, s) ==
    LET due == w.store.ses[s].expires
    IN  IF due = NoTime THEN CancelExpiry(w, me)
        ELSE CancelExpiry([w EXCEPT !.expiry = Expirer(s, due),
                                    !.tasks[Expirer(s, due)] = Suspended("sleep", s)], me)

ScheduleExpiry(w, me, s) ==
    LET due == w.store.ses[s].expires
        cancelled == CancelExpiry(w, me)
    IN  IF due = NoTime THEN cancelled
        ELSE [cancelled EXCEPT !.expiry = Expirer(s, due),
                               !.tasks[Expirer(s, due)] = Suspended("sleep", s)]

CancelDisconnect(w, me, s) ==
    LET forgotten == [w EXCEPT !.disc = @ \ {s}]
    IN  IF s \notin w.disc \/ Disconnector(s) = me THEN forgotten
        ELSE CancelTask(forgotten, Disconnector(s))

ScheduleDisconnect(w, s) ==
    [CancelDisconnect(w, NoTask, s) EXCEPT
        !.disc = @ \cup {s},
        !.tasks[Disconnector(s)] = Suspended("sleep", s)]

\* A task returns.  _expire_session forgets _expiry_task, whichever task that
\* is by now; _timeout_disconnected_session forgets itself.
Return(w, t) ==
    LET done == At(w, t, Rest(t))
    IN  CASE Kind(t) = "expiry"     -> [done EXCEPT !.expiry = NoTask]
          [] Kind(t) = "disconnect" -> [done EXCEPT !.disc = @ \ {Subject(t)}]
          [] OTHER                  -> done

-----------------------------------------------------------------------------
(* _try_start_next *)

\* The start is over.  Unless the session has been ended meanwhile it becomes
\* active; otherwise whatever runtime is current is stopped.
Started(w, t, s) ==
    IF CanActivate(w.store, s)
    THEN Return(ScheduleExpiry([w EXCEPT !.store = Activate(@, s, now)], t, s), t)
    ELSE IF w.runtime = NoSession THEN Return(w, t)
    ELSE At([w EXCEPT !.runtime = NoSession], t,
            [Suspended("latestop", s) EXCEPT !.run = w.runtime])

\* The session becomes active before its demo process is up.
ActivateFirst(w, t, s) == Started(w, t, s)

\* The steps of a start in their order.  A demo skips the steps it has no
\* files for, and no step asks whether the session still owns the board.
Programmed(w, t, s) ==
    IF DemoOf(w, s) \in RuntimeDemos THEN At(w, t, Suspended("rt", s)) ELSE Started(w, t, s)

ProgramPS(w, t, s) ==
    IF DemoOf(w, s) \in PSDemos THEN Send(w, t, "ps", s) ELSE Programmed(w, t, s)

ProgramPL(w, t, s) ==
    IF DemoOf(w, s) \in PLDemos THEN Send(w, t, "pl", s) ELSE ProgramPS(w, t, s)

\* The guard before the session manager is asked.
MayStart(w) == w.fpga.status = "idle" /\ w.fpga.mode # "project"

\* begin_next, and the first step of the session it hands the board to.
TryStartNext(w, t) ==
    IF MayStart(w) /\ CanBegin(w.store)
    THEN ProgramPL([w EXCEPT !.store = BeginNext(@)], t, Head(w.store.queue))
    ELSE Return(w, t)

\* The except branch after the runtime has been stopped: the start fails if
\* the session still is the one starting, and the board is reset in any case.
StartFailed(w, t, s) ==
    LET failed == IF CanActivate(w.store, s) THEN FailStart(w.store, s) ELSE w.store
    IN  Send([w EXCEPT !.store = failed], t, "failreset", s)

StartError(w, t, s) ==
    IF w.runtime = NoSession THEN StartFailed(w, t, s)
    ELSE At([w EXCEPT !.runtime = NoSession], t,
            [Suspended("failstop", s) EXCEPT !.run = w.runtime])

-----------------------------------------------------------------------------
(* end_session and _end_active_session *)

Release(w) == [w EXCEPT !.flow = Tail(@)]

\* The session is finished and the lock is left without a reset.
EndWithoutReset(w, t, s) ==
    TryStartNext(Release([w EXCEPT !.store = FinishActive(@)]), t)

\* The board is reset under the running demo process.
EndKeepsRuntime(w, t, s) == Send(w, t, "reset", s)

\* Under the flow lock: stop the runtime, then reset the board.
EndUnderLock(w, t, s) ==
    IF w.runtime = NoSession THEN Send(w, t, "reset", s)
    ELSE At([w EXCEPT !.runtime = NoSession], t, [Suspended("stop", s) EXCEPT !.run = w.runtime])

Reason(t) == CASE Kind(t) = "expiry" -> "expired" [] Kind(t) = "disconnect" -> "timed_out"

\* The lock has been taken.  end_session has marked the session ending
\* before; _end_active_session marks now whatever is on the board.
Locked(w, t) ==
    IF Kind(t) = "end" THEN EndUnderLock(w, t, Subject(t))
    ELSE IF ActiveId(w) = NoSession THEN Return(Release(w), t)
    ELSE EndUnderLock([w EXCEPT !.store = BeginActiveEnd(@, Reason(t))], t, ActiveId(w))

Acquire(w, t) ==
    LET queued == [w EXCEPT !.flow = Append(@, t)]
    IN  IF w.flow = << >> THEN Locked(queued, t)
        ELSE At(queued, t, Suspended("lock", Subject(t)))

\* The reset has been answered, well or badly.
Ended(w, t) ==
    LET a == ActiveId(w)
        finished == [w EXCEPT !.store = FinishActive(@)]
        cleaned == IF Kind(t) = "end" \/ a = NoSession THEN finished
                   ELSE CancelDisconnect([finished EXCEPT !.counts[a] = 0], t, a)
    IN  TryStartNext(Release(cleaned), t)

-----------------------------------------------------------------------------
(* _end_for_board_problem *)

\* The session is told to end and never finished.
ProblemLeavesEnding(w) == Return(w, Watch)

ProblemEnded(w) == Return([w EXCEPT !.store = FinishActive(@)], Watch)

ProblemStopped(w, s, reserved) ==
    IF reserved THEN Send(w, Watch, "reservedreset", s) ELSE ProblemEnded(w)

\* The expiry task is cancelled, and a session that is ending is left to it.
LeaveEndingToOthers(w, reason) ==
    LET unscheduled == CancelExpiry(w, Watch)
    IN  IF ActiveId(w) = NoSession \/ ActiveIs(w.store, "ending")
        THEN Return(unscheduled, Watch)
        ELSE ProblemStopped([unscheduled EXCEPT !.store = BeginActiveEnd(@, reason)],
                            ActiveId(w), reason = "reserved")

EndForBoardProblem(w, reason) ==
    LET s == ActiveId(w)
        unscheduled == CancelExpiry(w, Watch)
        ending == [unscheduled EXCEPT !.store = BeginActiveEnd(@, reason)]
        reserved == reason = "reserved"
    IN  IF s = NoSession THEN Return(unscheduled, Watch)
        ELSE IF w.runtime = NoSession THEN ProblemStopped(ending, s, reserved)
        ELSE At([ending EXCEPT !.runtime = NoSession], Watch,
                [Suspended(IF reserved THEN "reservedstop" ELSE "problemstop", s)
                    EXCEPT !.run = w.runtime])

HandleBoardState(w, view) ==
    LET seen == [w EXCEPT !.fpga = view]
    IN  CASE view.status = "fault"   -> EndForBoardProblem(seen, "fpga_fault")
          [] view.status # "fault" /\ view.mode = "project" ->
                                        EndForBoardProblem(seen, "reserved")
          [] view.status = "offline" /\ view.mode # "project" ->
                                        EndForBoardProblem(seen, "board_offline")
          [] view.status = "idle" /\ view.mode # "project" ->
                                        TryStartNext(seen, Watch)
          [] OTHER                   -> seen

-----------------------------------------------------------------------------
(* The agent: what its record of the board says, and its event stream. *)

AgentType ==
    [up    : BOOLEAN,                      \* the process runs
     image : SessionIds \cup {NoSession},  \* whose bitstream it has loaded
     elf   : SessionIds \cup {NoSession},  \* whose ELF it has loaded
     comm  : BOOLEAN,                      \* COMMUNICATION_LOST is latched
     heat  : BOOLEAN,                      \* OVER_TEMPERATURE is latched
     mode  : {"demo", "project"}]

\* FPGAState.status and mode.
ViewOf(a) ==
    [status |-> IF a.comm THEN "offline"
                ELSE IF a.heat THEN "fault"
                ELSE IF a.image # NoSession THEN "running" ELSE "idle",
     mode   |-> a.mode]

\* A full buffer keeps its older entries and the newest one.
Publish(a) ==
    events' = IF Len(events) < EventBuffer THEN Append(events, ViewOf(a))
              ELSE [events EXCEPT ![EventBuffer] = ViewOf(a)]

CanProgram == agent.up /\ ~agent.heat /\ agent.mode = "demo"

\* After its boot the agent knows of no bitstream and of no fault.
NewAgent == [up |-> TRUE, image |-> NoSession, elf |-> NoSession, comm |-> FALSE, heat |-> FALSE,
             mode |-> "demo"]

\* The device lock is held, by the oldest request admitted.
Busy == web.calls # << >> /\ Head(web.calls).stage = "running"

\* The agent's record after an operation has succeeded.
Effect(op, s) ==
    CASE op = "pl"    -> [agent EXCEPT !.image = s, !.comm = FALSE]
      [] op = "ps"    -> [agent EXCEPT !.elf = s, !.comm = FALSE]
      [] op = "reset" -> [agent EXCEPT !.image = NoSession, !.elf = NoSession, !.comm = FALSE]

Failure(op) == CASE op = "pl" -> "fail_pl" [] op = "ps" -> "fail_ps" [] op = "reset" -> "fail_reset"

May(kind) == kind \in Troubles /\ troubles > 0

-----------------------------------------------------------------------------
(* BoardManager.start found the board, and nobody waits yet. *)

StartedManager(store, view) ==
    [store |-> store, fpga |-> view,
     runtime |-> NoSession, flow |-> << >>, expiry |-> NoTask, disc |-> {},
     counts |-> [s \in SessionIds |-> 0],
     tasks |-> [t \in Tasks |-> Rest(t)], calls |-> << >>, zombies |-> {}]

Init ==
    /\ agent = NewAgent
    /\ web = StartedManager(EmptyStore, ViewOf(NewAgent))
    /\ events = << >>
    /\ procs = {}
    /\ conns = [s \in SessionIds |-> 0]
    /\ now = 0
    /\ troubles = MaxTroubles

-----------------------------------------------------------------------------
(* What users do *)

CreateSession(u, d) ==
    /\ web.fpga.mode # "project"
    /\ CanCreate(web.store, u)
    /\ LET s == web.store.count + 1
           a == ActiveId(web)
           created == [web EXCEPT !.store = Create(@, u, d, now)]
           limited == a # NoSession /\ created.store.ses[a].expires # web.store.ses[a].expires
           timed == IF limited THEN ScheduleExpiry(created, Creator(s), a) ELSE created
       IN  web' = TryStartNext(timed, Creator(s))
    /\ UNCHANGED <<agent, events, procs, conns, now, troubles>>

\* end_session of a waiting session: it may lift the deadline of the active
\* one, and the timer goes with the deadline.
CancelSession(u, s) ==
    /\ CanCancel(web.store, u, s)
    /\ LET a == ActiveId(web)
           removed == [web EXCEPT !.store = Cancel(@, s)]
           lifted == a # NoSession /\ removed.store.ses[a].expires # web.store.ses[a].expires
       IN  web' = IF lifted THEN ScheduleExpiry(removed, Ender(s), a) ELSE removed
    /\ UNCHANGED <<agent, events, procs, conns, now, troubles>>

EndSession(u, s) ==
    /\ CanEndOnBoard(web.store, u, s)
    /\ IF StatusOf(web.store, s) = "starting"
       THEN May("end_starting") /\ troubles' = troubles - 1
       ELSE UNCHANGED troubles
    /\ web' = Acquire(CancelExpiry([web EXCEPT !.store = BeginEnd(@, "user_ended")], Ender(s)),
                      Ender(s))
    /\ UNCHANGED <<agent, events, procs, conns, now>>

\* Only a timer that still sleeps is cancelled.
OpenStopsSleeper(s) ==
    /\ StatusOf(web.store, s) = "active"
    /\ conns[s] < MaxConns
    /\ conns' = [conns EXCEPT ![s] = @ + 1]
    /\ LET w == IF Pc(web, Disconnector(s)) = "sleep" THEN CancelDisconnect(web, NoTask, s) ELSE web
       IN  web' = [w EXCEPT !.counts[s] = @ + 1]
    /\ UNCHANGED <<agent, events, procs, now, troubles>>

\* A demo page or stream is opened through the proxy, and closed again.
OpenConnection(s) ==
    /\ StatusOf(web.store, s) = "active"
    /\ conns[s] < MaxConns
    /\ conns' = [conns EXCEPT ![s] = @ + 1]
    /\ web' = [CancelDisconnect(web, NoTask, s) EXCEPT !.counts[s] = @ + 1]
    /\ UNCHANGED <<agent, events, procs, now, troubles>>

\* The count is not kept above zero.
CloseBelowZero(s) ==
    /\ conns[s] > 0
    /\ conns' = [conns EXCEPT ![s] = @ - 1]
    /\ LET left == web.counts[s] - 1
           closed == [web EXCEPT !.counts[s] = left]
       IN  web' = IF left = 0 /\ StatusOf(web.store, s) = "active"
                  THEN ScheduleDisconnect(closed, s) ELSE closed
    /\ UNCHANGED <<agent, events, procs, now, troubles>>

CloseConnection(s) ==
    /\ conns[s] > 0
    /\ conns' = [conns EXCEPT ![s] = @ - 1]
    /\ LET left == IF web.counts[s] > 0 THEN web.counts[s] - 1 ELSE 0
           closed == [web EXCEPT !.counts[s] = left]
       IN  web' = IF left = 0 /\ StatusOf(web.store, s) = "active"
                  THEN ScheduleDisconnect(closed, s) ELSE closed
    /\ UNCHANGED <<agent, events, procs, now, troubles>>

-----------------------------------------------------------------------------
(* Timers, the lock and the event stream *)

\* Past the bound the clock runs on only for the deadlines already set.
Tick ==
    /\ \/ now < MaxTime
       \/ \E s \in SessionIds, due \in Deadlines :
            due > now /\ Pc(web, Expirer(s, due)) = "sleep"
    /\ now' = now + 1
    /\ UNCHANGED <<web, agent, events, procs, conns, troubles>>

\* The sleep is over: the deadline may have been moved or lifted meanwhile.
ExpiryFires(s, due) ==
    LET t == Expirer(s, due)
    IN  /\ Pc(web, t) = "sleep"
        /\ due <= now
        /\ web' = IF ActiveId(web) = s /\ ActiveIs(web.store, "active")
                                       /\ ActiveSession(web).expires = due
                  THEN Acquire(web, t) ELSE At(web, t, Done)
        /\ UNCHANGED <<agent, events, procs, conns, now, troubles>>

\* The grace period is unrelated to the session clock and may end any time.
DisconnectFires(s) ==
    LET t == Disconnector(s)
    IN  /\ Pc(web, t) = "sleep"
        /\ web' = IF web.counts[s] = 0 /\ ActiveId(web) = s /\ ActiveIs(web.store, "active")
                  THEN Acquire(web, t) ELSE Return(web, t)
        /\ UNCHANGED <<agent, events, procs, conns, now, troubles>>

TakeLock(t) ==
    /\ Pc(web, t) = "lock"
    /\ Head(web.flow) = t
    /\ web' = Locked(web, t)
    /\ UNCHANGED <<agent, events, procs, conns, now, troubles>>

WatchEvent ==
    /\ Pc(web, Watch) = "idle"
    /\ events # << >>
    /\ events' = Tail(events)
    /\ web' = HandleBoardState(web, Head(events))
    /\ UNCHANGED <<agent, procs, conns, now, troubles>>

-----------------------------------------------------------------------------
(* Replies of the agent and of the demo runtimes *)

Answered(t) ==
    /\ Pc(web, t) \in Calling
    /\ web.tasks[t].call \in {"ok", "error"}
    /\ LET task == web.tasks[t]
           s == task.ses
           ok == task.call = "ok"
       IN  web' = CASE task.pc = "pl" /\ ok    -> ProgramPS(web, t, s)
                    [] task.pc = "ps" /\ ok    -> Programmed(web, t, s)
                    [] task.pc \in {"pl", "ps"} /\ ~ok -> StartError(web, t, s)
                    [] task.pc = "failreset"   ->
                         TryStartNext(IF ok THEN [web EXCEPT !.fpga = task.ans] ELSE web, t)
                    [] task.pc = "reset"       -> Ended(web, t)
                    [] task.pc = "reservedreset" -> ProblemEnded(web)
    /\ UNCHANGED <<agent, events, procs, conns, now, troubles>>

RuntimeUp(t) ==
    /\ Pc(web, t) = "rt"
    /\ LET s == web.tasks[t].ses
       IN  /\ procs' = procs \cup {s}
           /\ web' = Started([web EXCEPT !.runtime = s], t, s)
    /\ UNCHANGED <<agent, events, conns, now, troubles>>

RuntimeFails(t) ==
    /\ Pc(web, t) = "rt"
    /\ May("fail_rt")
    /\ troubles' = troubles - 1
    /\ web' = StartError(web, t, web.tasks[t].ses)
    /\ UNCHANGED <<agent, events, procs, conns, now>>

\* A start whose task was cancelled comes up and nobody knows of it; a stop goes
\* through all the same.
ThreadEnds(thread) ==
    /\ thread \in web.zombies
    /\ web' = [web EXCEPT !.zombies = @ \ {thread}]
    /\ UNCHANGED <<agent, events, conns, now, troubles>>

ZombieUp(s) == ThreadEnds(<<"up", s>>) /\ procs' = procs \cup {s}
ZombieDown(s) == ThreadEnds(<<"down", s>>) /\ procs' = procs \ {s}

\* stop_session returned; an exception of its own is logged and ignored.
RuntimeDown(t) ==
    /\ Pc(web, t) \in Stopping
    /\ LET task == web.tasks[t]
           s == task.ses
       IN  /\ procs' = procs \ {task.run}
           /\ web' = CASE task.pc = "failstop"     -> StartFailed(web, t, s)
                       [] task.pc = "latestop"     -> Return(web, t)
                       [] task.pc = "stop"         -> Send(web, t, "reset", s)
                       [] task.pc = "problemstop"  -> ProblemStopped(web, s, FALSE)
                       [] task.pc = "reservedstop" -> ProblemStopped(web, s, TRUE)
    /\ UNCHANGED <<agent, events, conns, now, troubles>>

-----------------------------------------------------------------------------
(* The agent *)

\* Requests reach the agent in the order in which they were sent, and the
\* device lock serves them in that order.  A call whose task was cancelled is
\* carried out like any other, or was cut off before it was sent.
Answer(w, i, call, ans) ==
    LET t == w.calls[i].by
        left == [w EXCEPT !.calls = RemoveAt(@, i)]
    IN  IF t = NoTask THEN left
        ELSE [left EXCEPT !.tasks[t].call = call, !.tasks[t].ans = ans]

FirstSent(i) == /\ i \in DOMAIN web.calls
                /\ web.calls[i].stage = "sent"
                /\ \A j \in 1..(i - 1) : web.calls[j].stage # "sent"

AgentReceives(i) ==
    /\ FirstSent(i)
    /\ \/ /\ ~CanProgram \/ web.calls[i].by = NoTask
          /\ web' = Answer(web, i, "error", NoView)
       \/ /\ CanProgram
          /\ web' = [web EXCEPT !.calls[i].stage = IF i = 1 THEN "running" ELSE "admitted"]
    /\ UNCHANGED <<agent, events, procs, conns, now, troubles>>

\* Once it has the lock, programming checks again that it may; a reset does not.
AgentContinues ==
    /\ web.calls # << >> /\ Head(web.calls).stage = "admitted"
    /\ web' = IF CanProgram \/ Head(web.calls).op = "reset"
              THEN [web EXCEPT !.calls[1].stage = "running"]
              ELSE Answer(web, 1, "error", NoView)
    /\ UNCHANGED <<agent, events, procs, conns, now, troubles>>

AgentSucceeds ==
    /\ Busy
    /\ LET call == Head(web.calls)
           after == Effect(call.op, call.ses)
           asked == call.by # NoTask /\ Pc(web, call.by) = "failreset"
       IN  /\ agent' = after
           /\ Publish(after)
           /\ web' = Answer(web, 1, "ok", IF asked THEN ViewOf(after) ELSE NoView)
    /\ UNCHANGED <<procs, conns, now, troubles>>

AgentFails ==
    /\ Busy
    /\ May(Failure(Head(web.calls).op))
    /\ troubles' = troubles - 1
    /\ web' = Answer(web, 1, "error", NoView)
    /\ UNCHANGED <<agent, events, procs, conns, now>>

\* The telemetry loop publishes the current state at every reading, and a
\* stream that was lost begins with it.
AgentReports ==
    /\ agent.up
    /\ events = << >>
    /\ Publish(agent)
    /\ UNCHANGED <<web, agent, procs, conns, now, troubles>>

\* Nobody answers what the agent was asked; what it has told may still arrive.
AgentStops ==
    /\ May("agent") /\ agent.up
    /\ troubles' = troubles - 1
    /\ agent' = [NewAgent EXCEPT !.up = FALSE]
    /\ web' = [web EXCEPT
                 !.calls = << >>,
                 !.tasks = [t \in Tasks |-> IF @[t].call = "out" THEN [@[t] EXCEPT !.call = "error"]
                                           ELSE @[t]]]
    /\ UNCHANGED <<events, procs, conns, now>>

AgentBoots ==
    /\ ~agent.up
    /\ agent' = NewAgent
    /\ Publish(agent')
    /\ UNCHANGED <<web, procs, conns, now, troubles>>

\* The sessions of the old process are gone, here for ended; the new one hands
\* out other ids.
Forgotten(m) ==
    [m EXCEPT !.ses = [i \in SessionIds |->
                          IF i <= m.count THEN [Blank EXCEPT !.status = "ended"] ELSE Blank],
              !.queue = << >>, !.active = NoSession]

\* stop, and start in a new process, which needs an agent that answers.  The
\* board stays as it is: what was sent is carried out, and so is what a thread
\* had begun.
WebRestarts ==
    /\ May("web") /\ agent.up
    /\ troubles' = troubles - 1
    /\ web' = [StartedManager(Forgotten(web.store), ViewOf(agent)) EXCEPT
                 !.calls = [i \in DOMAIN web.calls |-> [web.calls[i] EXCEPT !.by = NoTask]],
                 !.zombies = web.zombies \cup UNION {Thread(web.tasks[t]) : t \in Tasks}]
    /\ procs' = procs \ {web.runtime}
    /\ conns' = [s \in SessionIds |-> 0]
    /\ events' = << >>
    /\ UNCHANGED <<agent, now>>

CommunicationLost ==
    /\ May("comm") /\ agent.up /\ ~agent.comm
    /\ troubles' = troubles - 1
    /\ agent' = [agent EXCEPT !.comm = TRUE, !.image = NoSession, !.elf = NoSession]
    /\ Publish(agent')
    /\ UNCHANGED <<web, procs, conns, now>>

CommunicationBack ==
    /\ agent.comm
    /\ agent' = [agent EXCEPT !.comm = FALSE]
    /\ Publish(agent')
    /\ UNCHANGED <<web, procs, conns, now, troubles>>

\* The safety reset waits for the device lock.
Overheats ==
    /\ May("heat") /\ agent.up /\ ~agent.heat /\ ~Busy
    /\ troubles' = troubles - 1
    /\ agent' = [agent EXCEPT !.heat = TRUE, !.image = NoSession, !.elf = NoSession]
    /\ Publish(agent')
    /\ UNCHANGED <<web, procs, conns, now>>

CoolsDown ==
    /\ agent.heat
    /\ agent' = [agent EXCEPT !.heat = FALSE]
    /\ Publish(agent')
    /\ UNCHANGED <<web, procs, conns, now, troubles>>

Reserved ==
    /\ May("mode") /\ agent.up /\ agent.mode = "demo"
    /\ troubles' = troubles - 1
    /\ agent' = [agent EXCEPT !.mode = "project"]
    /\ Publish(agent')
    /\ UNCHANGED <<web, procs, conns, now>>

Freed ==
    /\ agent.mode = "project"
    /\ agent' = [agent EXCEPT !.mode = "demo"]
    /\ Publish(agent')
    /\ UNCHANGED <<web, procs, conns, now, troubles>>

-----------------------------------------------------------------------------

UserActions ==
    \/ \E u \in Users, d \in Demos : CreateSession(u, d)
    \/ \E u \in Users, s \in SessionIds : CancelSession(u, s)
    \/ \E u \in Users, s \in SessionIds : EndSession(u, s)
    \/ \E s \in SessionIds : OpenConnection(s)
    \/ \E s \in SessionIds : CloseConnection(s)

Timers ==
    \/ \E s \in SessionIds, due \in Deadlines : ExpiryFires(s, due)
    \/ \E s \in SessionIds : DisconnectFires(s)

Replies(t) == TakeLock(t) \/ Answered(t) \/ RuntimeUp(t) \/ RuntimeDown(t)

AgentServes ==
    \/ \E i \in 1..Len(web.calls) : AgentReceives(i)
    \/ AgentContinues
    \/ AgentSucceeds

Environment ==
    \/ AgentStops \/ AgentBoots
    \/ WebRestarts
    \/ CommunicationLost \/ CommunicationBack
    \/ Overheats \/ CoolsDown
    \/ Reserved \/ Freed

Next ==
    \/ UserActions
    \/ Tick
    \/ Timers
    \/ WatchEvent
    \/ \E t \in Tasks : Replies(t)
    \/ \E t \in Tasks : RuntimeFails(t)
    \/ \E s \in SessionIds : ZombieUp(s) \/ ZombieDown(s)
    \/ AgentServes
    \/ AgentFails
    \/ AgentReports
    \/ Environment

Spec == Init /\ [][Next]_vars

\* The event loop resumes every coroutine whose reply, thread, lock or timer is
\* ready, the agent serves the calls it gets and publishes at each telemetry
\* reading, and a board problem does not last for ever.  Users owe nothing.
Fairness ==
    /\ WF_vars(Tick)
    /\ \A s \in SessionIds, due \in Deadlines : WF_vars(ExpiryFires(s, due))
    /\ \A s \in SessionIds : WF_vars(DisconnectFires(s))
    /\ WF_vars(WatchEvent)
    /\ \A t \in Tasks : WF_vars(Replies(t))
    /\ WF_vars(AgentServes)
    /\ WF_vars(AgentReports)
    /\ WF_vars(AgentBoots)
    /\ WF_vars(CommunicationBack) /\ WF_vars(CoolsDown) /\ WF_vars(Freed)

FairSpec == Spec /\ Fairness

-----------------------------------------------------------------------------
(* Properties that hold whatever goes wrong *)

\* The shape of the state; connection counts never fall below zero
\* (demo_connection_closed) and at most one event waits per subscriber.
TypeOK ==
    /\ web \in WebType
    /\ agent \in AgentType
    /\ events \in Seq(View) /\ Len(events) <= EventBuffer
    /\ procs \subseteq SessionIds
    /\ conns \in [SessionIds -> 0..MaxConns]
    /\ now \in Deadlines
    /\ troubles \in 0..MaxTroubles

\* An active session with a deadline has a task that will end it for exactly
\* that deadline, asleep or waiting for the flow lock, although _expiry_task is
\* overwritten, cancelled and set to None from four coroutines.
DeadlineHasTimer ==
    ActiveIs(web.store, "active") /\ ActiveSession(web).expires # NoTime =>
        Pc(web, Expirer(ActiveId(web), ActiveSession(web).expires)) \in {"sleep", "lock"}

\* The flow lock is held and awaited by tasks that are there to release it: a
\* cancelled ender is gone from the lock, and nobody in the lock is cancelled
\* without leaving it.
LockIsLive ==
    /\ \A i, j \in 1..Len(web.flow) : web.flow[i] = web.flow[j] => i = j
    /\ \A t \in Tasks : Pc(web, t) \in InFlow <=> Contains(web.flow, t)
    /\ \A i \in 2..Len(web.flow) : Pc(web, web.flow[i]) = "lock"

\* A starting session has a task that is still working on its start, and an
\* ending one has a task that will finish it: the board is never left to a
\* session nobody is responsible for, even when its task is cancelled.
OwnerIsServed ==
    /\ ActiveIs(web.store, "starting") =>
          \E t \in Tasks : /\ web.tasks[t].ses = ActiveId(web)
                           /\ Pc(web, t) \in {"pl", "ps", "rt", "failstop"}
    /\ ActiveIs(web.store, "ending") =>
          \E t \in Tasks : Pc(web, t) \in InFlow \cup
                               {"problemstop", "reservedstop", "reservedreset"}

\* No task is about to time out a session that somebody is connected to: not the
\* timer that sleeps, nor one that has looked at the connections and waits for
\* the flow lock since (_timeout_disconnected_session, demo_connection_opened).
ConnectedIsNotTimedOut ==
    \A s \in SessionIds : conns[s] > 0 => Pc(web, Disconnector(s)) \notin {"sleep", "lock"}

-----------------------------------------------------------------------------
(* Properties of a board nothing goes wrong with, beyond failed starts *)

\* The active session runs on its own bitstream and ELF, and the proxy reaches
\* its own demo process.
OwnBoard ==
    ActiveIs(web.store, "active") =>
        LET s == ActiveId(web)
            d == DemoOf(web, s)
        IN  /\ d \in PLDemos => agent.image = s
            /\ d \in PSDemos => agent.elf = s
            /\ d \in RuntimeDemos => web.runtime = s /\ s \in procs

\* A session is programmed onto a board that has been cleared of the previous
\* one, and no reset meant for another session comes after its programming.
CleanStart ==
    \A i \in 1..Len(web.calls) :
        LET call == web.calls[i]
        IN  call.op # "reset" =>
                /\ call.stage = "running" => /\ agent.image \in {NoSession, call.ses}
                                             /\ agent.elf \in {NoSession, call.ses}
                /\ \A j \in i..Len(web.calls) : web.calls[j].ses = call.ses

\* A demo process that is up is the current runtime or is being stopped.
NoRuntimeLeaked ==
    \A s \in procs : \/ s = web.runtime \/ \E t \in Tasks : web.tasks[t].run = s
                     \/ <<"down", s>> \in web.zombies

\* A session is timed out only while nobody is connected to its demo.
TimedOutOnlyDisconnected ==
    [][\A s \in SessionIds :
         /\ web.store.ses[s].reason # "timed_out"
         /\ web'.store.ses[s].reason = "timed_out"
         => conns[s] = 0]_vars

-----------------------------------------------------------------------------
(* The agent, as FpgaAgent implements it too *)

Entry(call) == [op    |-> call.op,
                image |-> IF call.op = "pl" THEN call.ses ELSE NoSession,
                mode  |-> "demo",
                begun |-> call.stage = "running"]

\* The requests that have passed the first check, in the order of the device lock.
Line == [i \in {i \in DOMAIN web.calls : web.calls[i].stage # "sent"} |-> Entry(web.calls[i])]

Service == INSTANCE AgentService WITH
    Images  <- SessionIds,
    NoImage <- NoSession,
    image   <- agent.image,
    lost    <- agent.comm,
    hot     <- agent.heat,
    mode    <- agent.mode,
    line    <- Line

\* The agent that the board manager is modelled with, which may also be stopped
\* and boot again, is the service that the agent has been shown to be.
ServiceSpec == Service!Spec

-----------------------------------------------------------------------------
(* What the repository's texts say beyond that *)

\* "Only one active/starting session can own the board" (README): what is being
\* programmed is never the demo of one session while another owns the board.
OnlyOwnerProgrammed ==
    Busy /\ Head(web.calls).op # "reset" => ActiveId(web) \in {NoSession, Head(web.calls).ses}

-----------------------------------------------------------------------------
(* Liveness, under FairSpec *)

\* Nobody owns a board that runs something, so nobody will reset it.
Stranded == ActiveId(web) = NoSession /\ ViewOf(agent).status = "running"

\* Whoever waits for the board gets it or gives up, whatever goes wrong once:
\* the active session gets a deadline, its end is carried out and the next start
\* is tried.  The queue stops at nothing but a board that was programmed for a
\* session that is gone.
QueueMoves ==
    \A s \in SessionIds :
        web.store.ses[s].status = "queued" ~> web.store.ses[s].status # "queued" \/ []Stranded

\* An end that has begun is completed.
EndingEnds ==
    \A s \in SessionIds : web.store.ses[s].status = "ending" ~> web.store.ses[s].status = "ended"
=============================================================================
