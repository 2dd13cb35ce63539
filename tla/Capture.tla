------------------------------ MODULE Capture ------------------------------
(***************************************************************************)
(* VideoCapture: start and stop, called by any thread, against the         *)
(* producer thread that opens FFmpeg, reads frames from it and opens it    *)
(* again when it exits.                                                    *)
(*                                                                         *)
(* start and the whole of stop run under _lifecycle_lock.  start is over   *)
(* at once; stop waits twice, for the process to die and for the producer  *)
(* to end, and the producer goes on meanwhile.  A step of the producer is  *)
(* what it does from one blocking call to the next, or under _condition.   *)
(***************************************************************************)
EXTENDS Naturals, FiniteSets

CONSTANTS
    Processes,  \* FFmpeg processes; one that is dead and forgotten is used again
    NoProcess,
    Stubborn    \* whether a process may outlive a kill, in the driver

ASSUME ProcessesAssumption == NoProcess \notin Processes
ASSUME StubbornAssumption == Stubborn \in BOOLEAN

VARIABLES
    alive,      \* the processes that run
    process,    \* _process
    frame,      \* the process that sent _latest_frame
    stop,       \* the event _stop
    producer,   \* where the producer thread is, and the process it has opened
    known,      \* _thread is not None
    stopping    \* how far stop has come, and the process it found

captureVars == <<alive, process, frame, stop, producer, known, stopping>>

Maybe == Processes \cup {NoProcess}

Ended == [at |-> "ended", own |-> NoProcess]
NotStopping == [at |-> "no", found |-> NoProcess]

CaptureInit ==
    /\ alive = {}
    /\ process = NoProcess
    /\ frame = NoProcess
    /\ stop = FALSE
    /\ producer = Ended
    /\ known = FALSE
    /\ stopping = NotStopping

\* _stop_process: the process is terminated, then killed, and each time waited
\* for a second.
StopProcess(p) ==
    \/ alive' = alive \ {p}
    \/ Stubborn /\ UNCHANGED alive

-----------------------------------------------------------------------------
(* start and stop *)

ProducerAlive == known /\ producer.at # "ended"

\* start raises while the producer or the process of an earlier capture lives.
StartRaises ==
    \/ ProducerAlive /\ stop
    \/ ~ProducerAlive /\ process \in alive

Launch ==
    /\ frame' = NoProcess
    /\ stop' = FALSE
    /\ producer' = [at |-> "top", own |-> NoProcess]
    /\ known' = TRUE
    /\ UNCHANGED <<alive, process, stopping>>

\* The process of an earlier capture is not looked at.
StartBesideProcess ==
    /\ stopping = NotStopping
    /\ ~(ProducerAlive /\ stop)
    /\ IF ProducerAlive THEN UNCHANGED captureVars ELSE Launch

Start ==
    /\ stopping = NotStopping
    /\ ~StartRaises
    /\ IF ProducerAlive THEN UNCHANGED captureVars ELSE Launch

StopBegins ==
    /\ stopping = NotStopping
    /\ stop' = TRUE
    /\ frame' = NoProcess
    /\ stopping' = [at |-> "kill", found |-> process]
    /\ UNCHANGED <<alive, process, producer, known>>

StopKills ==
    /\ stopping.at = "kill"
    /\ StopProcess(stopping.found)
    /\ stopping' = [stopping EXCEPT !.at = "join"]
    /\ UNCHANGED <<process, frame, stop, producer, known>>

\* The producer is forgotten although it has not ended.
StopForgets ==
    /\ stopping.at = "join"
    /\ producer.at # "ended" => Stubborn /\ producer.own \in alive
    /\ known' = FALSE
    /\ stopping' = NotStopping
    /\ UNCHANGED <<alive, process, frame, stop, producer>>

\* The producer needs two seconds at most to give up its process and the join
\* waits for three: only a process that does not die holds it longer.
StopJoins ==
    /\ stopping.at = "join"
    /\ producer.at # "ended" => Stubborn /\ producer.own \in alive
    /\ known' = (known /\ producer.at # "ended")
    /\ stopping' = NotStopping
    /\ UNCHANGED <<alive, process, frame, stop, producer>>

-----------------------------------------------------------------------------
(* The producer, _capture_loop *)

Goes(to) == producer' = [producer EXCEPT !.at = to]

Looks ==
    /\ producer.at = "top"
    /\ IF stop THEN producer' = Ended ELSE Goes("open")
    /\ UNCHANGED <<alive, process, frame, stop, known, stopping>>

\* Popen, which may fail.
Opens ==
    /\ producer.at = "open"
    /\ \/ /\ \E p \in Processes \ (alive \cup {process, frame, stopping.found}) :
                /\ alive' = alive \cup {p}
                /\ producer' = [at |-> "opened", own |-> p]
          /\ UNCHANGED frame
       \/ /\ Goes("wait")
          /\ frame' = NoProcess
          /\ UNCHANGED alive
    /\ UNCHANGED <<process, stop, known, stopping>>

Publishes ==
    /\ producer.at = "opened"
    /\ process' = producer.own
    /\ Goes("decide")
    /\ UNCHANGED <<alive, frame, stop, known, stopping>>

\* stop may have come while the process was being opened.
Decides ==
    /\ producer.at = "decide"
    /\ Goes(IF stop THEN "close" ELSE "read")
    /\ UNCHANGED <<alive, process, frame, stop, known, stopping>>

\* A frame that was read is published even when stop has come since.
ReadsFrame ==
    /\ producer.at = "read"
    /\ frame' = producer.own
    /\ UNCHANGED <<alive, process, stop, producer, known, stopping>>

\* The pipe is closed, or stop is seen after a chunk.
ReadEnds ==
    /\ producer.at = "read"
    /\ Goes("close")
    /\ UNCHANGED <<alive, process, frame, stop, known, stopping>>

Closes ==
    /\ producer.at = "close"
    /\ StopProcess(producer.own)
    /\ Goes("clear")
    /\ UNCHANGED <<process, frame, stop, known, stopping>>

\* The last picture stays when its process is gone.
ClearsKeepingFrame ==
    /\ producer.at = "clear"
    /\ process' = IF process = producer.own /\ producer.own \notin alive THEN NoProcess ELSE process
    /\ Goes("judge")
    /\ UNCHANGED <<alive, frame, stop, known, stopping>>

\* A process that still lives stays in _process.
Clears ==
    /\ producer.at = "clear"
    /\ process' = IF process = producer.own /\ producer.own \notin alive THEN NoProcess ELSE process
    /\ frame' = NoProcess
    /\ Goes("judge")
    /\ UNCHANGED <<alive, stop, known, stopping>>

\* The loop goes on although the process lives.
JudgesAllDead ==
    /\ producer.at = "judge"
    /\ producer' = [at |-> "wait", own |-> NoProcess]
    /\ UNCHANGED <<alive, process, frame, stop, known, stopping>>

\* It gives up rather than open the device a second time.
Judges ==
    /\ producer.at = "judge"
    /\ producer' = IF producer.own \in alive THEN Ended ELSE [at |-> "wait", own |-> NoProcess]
    /\ UNCHANGED <<alive, process, frame, stop, known, stopping>>

Waits ==
    /\ producer.at = "wait"
    /\ Goes("top")
    /\ UNCHANGED <<alive, process, frame, stop, known, stopping>>

Produce ==
    \/ Looks \/ Opens \/ Publishes \/ Decides
    \/ ReadsFrame \/ ReadEnds
    \/ Closes \/ Clears \/ Judges \/ Waits

\* FFmpeg exits by itself, or dies at last.
Dies ==
    /\ \E p \in alive : alive' = alive \ {p}
    /\ UNCHANGED <<process, frame, stop, producer, known, stopping>>

-----------------------------------------------------------------------------

CaptureNext == Start \/ StopBegins \/ StopKills \/ StopJoins \/ Produce \/ Dies

CaptureSpec == CaptureInit /\ [][CaptureNext]_captureVars

-----------------------------------------------------------------------------
(* Properties *)

\* The shape of the state; a producer that has ended owns nothing.
CaptureTypeOK ==
    /\ alive \subseteq Processes
    /\ process \in Maybe
    /\ frame \in Maybe
    /\ stop \in BOOLEAN
    /\ producer \in
         {Ended} \cup [at : {"top", "open", "wait"}, own : {NoProcess}]
                 \cup [at  : {"opened", "decide", "read", "close", "clear", "judge"},
                       own : Processes]
    /\ known \in BOOLEAN
    /\ stopping \in [at : {"no", "kill", "join"}, found : Maybe]

\* "start must not open a second device owner while the old thread is still
\* terminating" (stop): two FFmpeg processes never have the device at once,
\* however start, stop and exits of FFmpeg fall and whatever outlives a kill.
OneOwner == \A p, q \in alive : p = q

\* "timeouts/stops never replay cached data" (wait_for_frame): a picture that
\* can be handed out was sent by the process the capture has open.
NoReplay == ~stop /\ frame # NoProcess => frame = process /\ producer.own = process
=============================================================================
