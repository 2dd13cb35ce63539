------------------------------- MODULE Video -------------------------------
(***************************************************************************)
(* VideoService: one capture shared by the viewers of the standalone page, *)
(* which a gate closes, and by demos, which hold a lease of it.  Viewers,  *)
(* demos, the monitor thread and the shutdown each take _viewer_lock for a *)
(* whole transition, so one transition is under way at most; it waits for  *)
(* the capture to stop, and the capture's own threads go on meanwhile.     *)
(***************************************************************************)
EXTENDS Capture

CONSTANTS
    Viewers,    \* streams of the page, and of the media server
    Leases      \* demo sessions with video

VARIABLES
    gate,       \* the marker file of the command line tool
    viewers,    \* _viewer_tokens
    leases,     \* _demo_tokens
    streaming,  \* viewers whose stream has opened and not been closed
    showing,    \* demos that have been given a lease and have not released it
    running,    \* _capture_running
    closed,     \* _closed
    monitor,    \* the monitor thread runs
    turn,       \* who has _viewer_lock, for what, and where it is
    stale       \* history: the processes opened before the demos came that have leases

serviceVars == <<gate, viewers, leases, streaming, showing, running, closed, monitor, turn, stale>>
vars == <<captureVars, serviceVars>>

Nobody == "nobody"
NoTurn == [does |-> "none", who |-> Nobody, at |-> "out"]

Init ==
    /\ CaptureInit
    /\ gate = FALSE
    /\ viewers = {} /\ leases = {} /\ streaming = {} /\ showing = {}
    /\ running = FALSE
    /\ closed = FALSE
    /\ monitor = TRUE
    /\ turn = NoTurn
    /\ stale = {}

-----------------------------------------------------------------------------
(* Taking the lock: each caller changes the tokens and goes on to "sync". *)

\* No viewer may be served.
Revoked == closed \/ ~gate

Takes(does, who, at) == turn = NoTurn /\ turn' = [does |-> does, who |-> who, at |-> at]

\* _viewer_opened, refused while the gate is closed.
ViewerOpens(v) ==
    /\ v \notin streaming
    /\ gate /\ ~closed
    /\ Takes("open", v, "sync")
    /\ viewers' = viewers \cup {v}
    /\ streaming' = streaming \cup {v}
    /\ UNCHANGED <<captureVars, gate, leases, showing, running, closed, monitor, stale>>

\* _viewer_opened refuses, and looks at what the capture is needed for as well.
ViewerRefused(v) ==
    /\ v \notin streaming
    /\ Revoked
    /\ Takes("refuse", v, "sync")
    /\ UNCHANGED <<captureVars, gate, viewers, leases, streaming, showing, running, closed,
                   monitor, stale>>

\* A stream ends when its browser leaves, or when it finds its token revoked.
ViewerCloses(v) ==
    /\ v \in streaming
    /\ Takes("close", v, "sync")
    /\ viewers' = viewers \ {v}
    /\ streaming' = streaming \ {v}
    /\ UNCHANGED <<captureVars, gate, leases, showing, running, closed, monitor, stale>>

\* The processes that can still show a picture.
Opened == (alive \cup {process, frame}) \ {NoProcess}

\* The first demo is served by the capture that is running.
AcquiresAsItIs(d) ==
    /\ d \notin showing
    /\ ~closed
    /\ Takes("lease", d, "sync")
    /\ leases' = leases \cup {d}
    /\ showing' = showing \cup {d}
    /\ stale' = IF leases = {} THEN Opened ELSE stale
    /\ UNCHANGED <<captureVars, gate, viewers, streaming, running, closed, monitor>>

\* acquire_demo: the first demo has the device opened again, since a capture
\* that is running may be locked to the signal from before it was programmed.
Acquires(d) ==
    /\ d \notin showing
    /\ ~closed
    /\ Takes("lease", d, IF leases = {} /\ running THEN "reopen" ELSE "sync")
    /\ leases' = leases \cup {d}
    /\ showing' = showing \cup {d}
    /\ stale' = IF leases = {} THEN Opened ELSE stale
    /\ UNCHANGED <<captureVars, gate, viewers, streaming, running, closed, monitor>>

Releases(d) ==
    /\ d \in showing
    /\ Takes("release", d, "sync")
    /\ leases' = leases \ {d}
    /\ showing' = showing \ {d}
    /\ UNCHANGED <<captureVars, gate, viewers, streaming, running, closed, monitor, stale>>

\* The monitor watches over an open gate only.
MonitorLooksIfEnabled ==
    /\ monitor /\ gate
    /\ Takes("monitor", Nobody, "sync")
    /\ UNCHANGED <<captureVars, gate, viewers, leases, streaming, showing, running, closed,
                   monitor, stale>>

\* _monitor_gate looks at the gate every 0.2 seconds.
MonitorLooks ==
    /\ monitor
    /\ Takes("monitor", Nobody, "sync")
    /\ UNCHANGED <<captureVars, gate, viewers, leases, streaming, showing, running, closed,
                   monitor, stale>>

\* close, at the end of the process.
Shutdown ==
    /\ ~closed
    /\ Takes("shutdown", Nobody, "sync")
    /\ closed' = TRUE
    /\ monitor' = FALSE
    /\ viewers' = {}
    /\ leases' = {}
    /\ UNCHANGED <<captureVars, gate, streaming, showing, running, stale>>

-----------------------------------------------------------------------------
(* Under the lock *)

\* The gate closes on demos as well.
NeededWhileEnabled == viewers \cup leases # {} /\ ~Revoked

Needed == (leases # {} \/ (viewers # {} /\ ~Revoked)) /\ ~closed

Revokes == viewers' = IF Revoked THEN {} ELSE viewers

Leaves == turn' = NoTurn

\* _sync_locked with nothing to do.
SyncIdle ==
    /\ turn.at = "sync"
    /\ Needed = running
    /\ Revokes /\ Leaves
    /\ UNCHANGED <<captureVars, gate, leases, streaming, showing, running, closed, monitor, stale>>

SyncStarts ==
    /\ turn.at = "sync"
    /\ Needed /\ ~running
    /\ Start
    /\ running' = TRUE
    /\ Revokes /\ Leaves
    /\ UNCHANGED <<gate, leases, streaming, showing, closed, monitor, stale>>

\* The capture cannot start.  The newcomer's token is taken back and the error
\* raised to it, a demo after one more sync that would start for the others;
\* the monitor has no handler and its thread ends.
SyncRaises ==
    /\ turn.at = "sync"
    /\ Needed /\ ~running
    /\ StartRaises
    /\ viewers' = (IF Revoked THEN {} ELSE viewers) \ {turn.who}
    /\ streaming' = IF turn.does = "open" THEN streaming \ {turn.who} ELSE streaming
    /\ IF turn.does = "lease" THEN leases' = leases \ {turn.who} /\ showing' = showing \ {turn.who}
       ELSE UNCHANGED <<leases, showing>>
    /\ monitor' = (monitor /\ turn.does # "monitor")
    /\ turn' = IF turn.does = "lease" THEN [turn EXCEPT !.does = "undo"] ELSE NoTurn
    /\ UNCHANGED <<captureVars, gate, running, closed, stale>>

\* The capture is stopped, which takes a while.
SyncStops ==
    /\ turn.at = "sync"
    /\ ~Needed /\ running
    /\ StopBegins
    /\ Revokes
    /\ turn' = [turn EXCEPT !.at = "stop"]
    /\ UNCHANGED <<gate, leases, streaming, showing, running, closed, monitor, stale>>

Reopens ==
    /\ turn.at = "reopen"
    /\ StopBegins
    /\ turn' = [turn EXCEPT !.at = "restart"]
    /\ UNCHANGED <<gate, viewers, leases, streaming, showing, running, closed, monitor, stale>>

\* acquire_demo does not note that it has stopped the capture.
StoppedUnnoticed ==
    /\ turn.at \in {"stop", "restart"}
    /\ StopJoins
    /\ running' = (turn.at = "restart")
    /\ turn' = IF turn.at = "restart" THEN [turn EXCEPT !.at = "sync"] ELSE NoTurn
    /\ UNCHANGED <<gate, viewers, leases, streaming, showing, closed, monitor, stale>>

\* capture.stop returns.
Stopped ==
    /\ turn.at \in {"stop", "restart"}
    /\ StopJoins
    /\ running' = FALSE
    /\ turn' = IF turn.at = "restart" THEN [turn EXCEPT !.at = "sync"] ELSE NoTurn
    /\ UNCHANGED <<gate, viewers, leases, streaming, showing, closed, monitor, stale>>

Sync == SyncIdle \/ SyncStarts \/ SyncRaises \/ SyncStops \/ Reopens \/ Stopped

-----------------------------------------------------------------------------
(* The gate, and the capture's own steps *)

Toggles ==
    /\ gate' = ~gate
    /\ UNCHANGED <<captureVars, viewers, leases, streaming, showing, running, closed, monitor,
                   turn, stale>>

\* A process that is gone with its picture may be used again.
Runs ==
    /\ StopKills \/ Produce \/ Dies
    /\ stale' = stale \cap Opened'
    /\ UNCHANGED <<gate, viewers, leases, streaming, showing, running, closed, monitor, turn>>

Next ==
    \/ \E v \in Viewers : ViewerOpens(v) \/ ViewerRefused(v) \/ ViewerCloses(v)
    \/ \E d \in Leases : Acquires(d) \/ Releases(d)
    \/ MonitorLooks
    \/ Shutdown
    \/ Sync
    \/ Toggles
    \/ Runs

Spec == Init /\ [][Next]_vars

\* Threads run, the pipe of a process that is dead ends, and the monitor gets
\* the lock when nobody has it.  Browsers and demos owe nothing: a stream may
\* be blocked in sending for ever.
Fairness ==
    /\ WF_vars(Sync)
    /\ WF_vars(MonitorLooks)
    /\ WF_vars(Runs /\ StopKills)
    /\ WF_vars(Runs /\ (Looks \/ Opens \/ Publishes \/ Decides \/ Closes \/ Clears \/ Judges \/ Waits))
    /\ WF_vars(Runs /\ ReadEnds /\ producer.own \notin alive)

FairSpec == Spec /\ Fairness

-----------------------------------------------------------------------------
(* Properties *)

TurnKinds == {"none", "open", "refuse", "close", "lease", "undo", "release", "monitor", "shutdown"}

\* The shape of the state; a token is held for somebody who was given it.
TypeOK ==
    /\ CaptureTypeOK
    /\ gate \in BOOLEAN /\ running \in BOOLEAN /\ closed \in BOOLEAN /\ monitor \in BOOLEAN
    /\ streaming \subseteq Viewers /\ viewers \subseteq streaming
    /\ showing \subseteq Leases /\ leases \subseteq showing
    /\ turn \in [does : TurnKinds, who : Viewers \cup Leases \cup {Nobody},
                 at : {"out", "sync", "reopen", "restart", "stop"}]
    /\ stale \subseteq Processes

\* The capture goes on: its producer lives and has not been told to stop.
Producing == producer.at # "ended" /\ ~stop

\* "The producer stops once neither an enabled standalone viewer nor a demo
\* needs it" (README): between transitions the capture runs only for somebody
\* who has a token, and goes on for them unless a process that did not die in
\* time has made the producer give up.
CaptureIffWanted ==
    turn = NoTurn =>
        /\ running => viewers \cup leases # {}
        /\ Producing => running
        /\ running => Producing \/ process # NoProcess

\* "Disabling /video only closes standalone viewers; an active demo keeps its
\* capture lease until the session ends" (README), and with it the capture:
\* no viewer, gate, monitor or failed start of another stops it.
DemoKeepsCapture ==
    turn = NoTurn /\ ~closed => (showing = leases /\ (leases # {} => running))

\* While a demo has a lease nobody is shown a picture of a process that was
\* opened before the demo had programmed the board (acquire_demo).
DemoSeesItself ==
    leases # {} /\ turn = NoTurn /\ ~stop => frame \notin stale

\* "capture starts on the first viewer and stops when the last viewer
\* disconnects or the endpoint is disabled" (README), even when the streams
\* are blocked (test_disabling_gate_stops_capture_even_if_viewer_cleanup_is_
\* blocked): a closed gate stops the capture unless it opens again or a demo
\* comes.  That much holds while the monitor's thread lives.
MonitoredStops ==
    ~gate /\ leases = {} /\ Producing ~> ~Producing \/ gate \/ leases # {} \/ ~monitor
=============================================================================
