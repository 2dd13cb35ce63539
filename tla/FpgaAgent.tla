----------------------------- MODULE FpgaAgent -----------------------------
(***************************************************************************)
(* The FPGA agent and one board: the registry record of the board, the     *)
(* requests that program and reset it under the device lock, the telemetry *)
(* loop with its thermal cut-out, the discovery loop, the operator's       *)
(* commands, and the subscribers of the event stream.                      *)
(*                                                                         *)
(* The agent is one asyncio event loop and suspends only for the device    *)
(* lock and for Tcl tools, which run in threads.  An action is therefore   *)
(* one run of a coroutine between two suspensions, or one tool at work.    *)
(***************************************************************************)
EXTENDS Integers, Sequences

CONSTANTS
    Callers,                  \* RPC requests that can be open at once
    Safety,                   \* the telemetry loop, as an owner of the device lock
    Images,                   \* bitstreams
    NoImage,
    Subscribers,              \* open event streams
    DiscoveryMissThreshold,
    TelemetryFailureThreshold,
    Failing                   \* what may fail: tools, and "absent" for discovery

ASSUME CallersAssumption == Safety \notin Callers
ASSUME ImagesAssumption == NoImage \notin Images
ASSUME ThresholdsAssumption ==
    DiscoveryMissThreshold \in Nat \ {0} /\ TelemetryFailureThreshold \in Nat \ {0}
ASSUME FailingAssumption == Failing \subseteq {"pl", "ps", "reset", "telemetry", "absent"}

VARIABLES
    device,     \* the FPGAState in the registry
    fabric,     \* the bitstream the hardware really runs
    calls,      \* the RPC requests in progress
    lock,       \* the device lock: its holder, then the waiters in order
    telemetry,  \* the telemetry loop
    misses,     \* _discovery_misses, and
    failures,   \* _telemetry_failures, up to their thresholds
    streams     \* the subscribers' one-slot queues

vars == <<device, fabric, calls, lock, telemetry, misses, failures, streams>>

FPGAMode == {"demo", "project"}
FaultType == {"over_temperature", "programming_failed", "communication_lost"}

\* A reading against the limit and the lower recovery limit.
Temperature == {"cool", "warm", "hot"}

FPGAState == [image       : Images \cup {NoImage},
              mode        : FPGAMode,
              faults      : SUBSET FaultType,
              temperature : Temperature \cup {"unknown"}]

NoCall == [op |-> "none", image |-> NoImage, mode |-> "demo", stage |-> "idle"]
Call == {NoCall} \cup [op    : {"pl", "ps", "reset"},
                       image : Images \cup {NoImage},
                       mode  : FPGAMode,
                       stage : {"lock", "tool", "done", "failed"}]

-----------------------------------------------------------------------------
(* FPGAState *)

Status(d) ==
    IF "communication_lost" \in d.faults THEN "offline"
    ELSE IF "over_temperature" \in d.faults THEN "fault"
    ELSE IF d.image # NoImage THEN "running" ELSE "idle"

ViewOf(d) == [status |-> Status(d), mode |-> d.mode]
View == [status : {"offline", "fault", "running", "idle"}, mode : FPGAMode]
NoView == [status |-> "none", mode |-> "demo"]

CanProgram(d, mode) == "over_temperature" \notin d.faults /\ d.mode = mode

AddFault(d, f) == [d EXCEPT !.faults = @ \cup {f}]
ClearFault(d, f) == [d EXCEPT !.faults = @ \ {f}]

\* A tool that succeeded proves the board works and is there.
Recovered(d) == ClearFault(ClearFault(d, "programming_failed"), "communication_lost")

MarkCommunicationLost(d) == [AddFault(d, "communication_lost") EXCEPT !.image = NoImage]

\* _publish_state: the newest state replaces one that was not fetched.
Publish(d) ==
    streams' = [s \in Subscribers |->
                  IF streams[s].open THEN [streams[s] EXCEPT !.slot = ViewOf(d)]
                  ELSE streams[s]]

-----------------------------------------------------------------------------

Asleep == [point |-> "sleep", knewLost |-> FALSE]
Closed == [open |-> FALSE, seen |-> NoView, slot |-> NoView]

\* A discovered board; the agent is started for demos or reserved.
Init ==
    /\ \E m \in FPGAMode :
         device = [image |-> NoImage, mode |-> m, faults |-> {}, temperature |-> "unknown"]
    /\ fabric = NoImage
    /\ calls = [c \in Callers |-> NoCall]
    /\ lock = << >>
    /\ telemetry = Asleep
    /\ misses = 0
    /\ failures = 0
    /\ streams = [s \in Subscribers |-> Closed]

-----------------------------------------------------------------------------
(* program_pl, program_ps and reset_board *)

\* The tool is started without the lock.
RequestUnlocked(c, op, image, mode) ==
    /\ calls[c].stage = "idle"
    /\ CanProgram(device, mode)
    /\ op # "pl" => image = NoImage
    /\ op = "pl" => image # NoImage
    /\ calls' = [calls EXCEPT ![c] = [op |-> op, image |-> image, mode |-> mode,
                                      stage |-> "tool"]]
    /\ lock' = Append(lock, c)
    /\ UNCHANGED <<device, fabric, telemetry, misses, failures, streams>>

\* A request overtakes those that wait.
RequestOvertakes(c, op, image, mode) ==
    /\ calls[c].stage = "idle"
    /\ CanProgram(device, mode)
    /\ op # "pl" => image = NoImage
    /\ op = "pl" => image # NoImage
    /\ calls' = [calls EXCEPT ![c] = [op |-> op, image |-> image, mode |-> mode,
                                      stage |-> IF lock = << >> THEN "tool" ELSE "lock"]]
    /\ lock' = IF lock = << >> THEN <<c>> ELSE <<Head(lock), c>> \o Tail(lock)
    /\ UNCHANGED <<device, fabric, telemetry, misses, failures, streams>>

\* A refused request has no effect.  An admitted one takes the free lock and
\* starts its tool at once, or waits for the lock.
Request(c, op, image, mode) ==
    /\ calls[c].stage = "idle"
    /\ CanProgram(device, mode)
    /\ op # "pl" => image = NoImage
    /\ op = "pl" => image # NoImage
    /\ calls' = [calls EXCEPT ![c] = [op |-> op, image |-> image, mode |-> mode,
                                      stage |-> IF lock = << >> THEN "tool" ELSE "lock"]]
    /\ lock' = Append(lock, c)
    /\ UNCHANGED <<device, fabric, telemetry, misses, failures, streams>>

\* The state is not looked at again under the lock.
EnterUnchecked(c) ==
    /\ calls[c].stage = "lock" /\ Head(lock) = c
    /\ calls' = [calls EXCEPT ![c].stage = "tool"]
    /\ UNCHANGED <<device, fabric, lock, telemetry, misses, failures, streams>>

\* Under the lock programming asks again whether it may; a reset does not.
Enter(c) ==
    /\ calls[c].stage = "lock" /\ Head(lock) = c
    /\ IF calls[c].op = "reset" \/ CanProgram(device, calls[c].mode)
       THEN calls' = [calls EXCEPT ![c].stage = "tool"] /\ UNCHANGED lock
       ELSE calls' = [calls EXCEPT ![c] = NoCall] /\ lock' = Tail(lock)
    /\ UNCHANGED <<device, fabric, telemetry, misses, failures, streams>>

\* What a tool does to the hardware.  One that fails may have cleared it.
ToolDone(c) ==
    /\ calls[c].stage = "tool"
    /\ calls' = [calls EXCEPT ![c].stage = "done"]
    /\ fabric' = CASE calls[c].op = "pl"    -> calls[c].image
                   [] calls[c].op = "ps"    -> fabric
                   [] calls[c].op = "reset" -> NoImage
    /\ UNCHANGED <<device, lock, telemetry, misses, failures, streams>>

ToolFailed(c) ==
    /\ calls[c].stage = "tool"
    /\ calls[c].op \in Failing
    /\ calls' = [calls EXCEPT ![c].stage = "failed"]
    /\ fabric' \in IF calls[c].op = "ps" THEN {fabric} ELSE {fabric, NoImage}
    /\ UNCHANGED <<device, lock, telemetry, misses, failures, streams>>

\* The image stays in the record after a reset.
SucceedKeepingImage(c) ==
    /\ calls[c].stage = "done"
    /\ device' = IF calls[c].op = "pl" THEN [Recovered(device) EXCEPT !.image = calls[c].image]
                 ELSE Recovered(device)
    /\ Publish(device')
    /\ calls' = [calls EXCEPT ![c] = NoCall]
    /\ lock' = Tail(lock)
    /\ UNCHANGED <<fabric, telemetry, misses, failures>>

Succeed(c) ==
    /\ calls[c].stage = "done"
    /\ device' = LET d == Recovered(device)
                 IN  CASE calls[c].op = "pl"    -> [d EXCEPT !.image = calls[c].image]
                       [] calls[c].op = "ps"    -> d
                       [] calls[c].op = "reset" -> [d EXCEPT !.image = NoImage]
    /\ Publish(device')
    /\ calls' = [calls EXCEPT ![c] = NoCall]
    /\ lock' = Tail(lock)
    /\ UNCHANGED <<fabric, telemetry, misses, failures>>

\* An error leaves with the lock still held.
FailHoldingLock(c) ==
    /\ calls[c].stage = "failed"
    /\ device' = AddFault(device, "programming_failed")
    /\ calls' = [calls EXCEPT ![c] = NoCall]
    /\ UNCHANGED <<fabric, lock, telemetry, misses, failures, streams>>

\* The fault is latched and not published, and the caller gets an error.
Fail(c) ==
    /\ calls[c].stage = "failed"
    /\ device' = AddFault(device, "programming_failed")
    /\ calls' = [calls EXCEPT ![c] = NoCall]
    /\ lock' = Tail(lock)
    /\ UNCHANGED <<fabric, telemetry, misses, failures, streams>>

-----------------------------------------------------------------------------
(* The telemetry loop *)

\* The record is read before the tool runs, and judged after.
StartReading ==
    /\ telemetry.point = "sleep"
    /\ telemetry' = [point    |-> "reading",
                     knewLost |-> "communication_lost" \in device.faults]
    /\ UNCHANGED <<device, fabric, calls, lock, misses, failures, streams>>

ReadingFails ==
    /\ telemetry.point = "reading"
    /\ "telemetry" \in Failing
    /\ failures' = IF failures < TelemetryFailureThreshold THEN failures + 1 ELSE failures
    /\ IF telemetry.knewLost \/ failures' < TelemetryFailureThreshold
       THEN UNCHANGED <<device, streams>>
       ELSE device' = MarkCommunicationLost(device) /\ Publish(device')
    /\ telemetry' = Asleep
    /\ UNCHANGED <<fabric, calls, lock, misses>>

\* An overheated board is reset under the device lock before the fault is
\* latched; any other reading is over at once.
ReadingSucceeds(temperature) ==
    /\ telemetry.point = "reading"
    /\ failures' = 0
    /\ LET d == [ClearFault(device, "communication_lost") EXCEPT !.temperature = temperature]
       IN  IF temperature = "hot" /\ "over_temperature" \notin d.faults
           THEN /\ device' = d
                /\ telemetry' = [telemetry EXCEPT
                                   !.point = IF lock = << >> THEN "tool" ELSE "lock"]
                /\ lock' = Append(lock, Safety)
                /\ UNCHANGED streams
           ELSE /\ device' = IF temperature = "cool" THEN ClearFault(d, "over_temperature") ELSE d
                /\ Publish(device')
                /\ telemetry' = Asleep
                /\ UNCHANGED lock
    /\ UNCHANGED <<fabric, calls, misses>>

SafetyEnters ==
    /\ telemetry.point = "lock" /\ Head(lock) = Safety
    /\ telemetry' = [telemetry EXCEPT !.point = "tool"]
    /\ UNCHANGED <<device, fabric, calls, lock, misses, failures, streams>>

SafetyTool ==
    /\ telemetry.point = "tool"
    /\ \/ telemetry' = [telemetry EXCEPT !.point = "done"] /\ fabric' = NoImage
       \/ /\ "reset" \in Failing
          /\ telemetry' = [telemetry EXCEPT !.point = "failed"]
          /\ fabric' \in {fabric, NoImage}
    /\ UNCHANGED <<device, calls, lock, misses, failures, streams>>

\* The lock is left and the fault latched without a suspension between.
SafetyLatches ==
    /\ telemetry.point \in {"done", "failed"}
    /\ LET d == AddFault(device, "over_temperature")
       IN  device' = IF telemetry.point = "done" THEN [d EXCEPT !.image = NoImage] ELSE d
    /\ Publish(device')
    /\ lock' = Tail(lock)
    /\ telemetry' = Asleep
    /\ UNCHANGED <<fabric, calls, misses, failures>>

-----------------------------------------------------------------------------
(* The discovery loop.  A probe that fails changes nothing. *)

DiscoveryFinds ==
    /\ misses' = 0
    /\ device' = ClearFault(device, "communication_lost")
    /\ IF device' = device THEN UNCHANGED streams ELSE Publish(device')
    /\ UNCHANGED <<fabric, calls, lock, telemetry, failures>>

\* A board that disappears is recorded without an event.
MissesSilently ==
    /\ "absent" \in Failing
    /\ misses' = IF misses < DiscoveryMissThreshold THEN misses + 1 ELSE misses
    /\ device' = IF misses' < DiscoveryMissThreshold \/ "communication_lost" \in device.faults
                 THEN device ELSE MarkCommunicationLost(device)
    /\ UNCHANGED <<fabric, calls, lock, telemetry, failures, streams>>

DiscoveryMisses ==
    /\ "absent" \in Failing
    /\ misses' = IF misses < DiscoveryMissThreshold THEN misses + 1 ELSE misses
    /\ IF misses' < DiscoveryMissThreshold \/ "communication_lost" \in device.faults
       THEN UNCHANGED <<device, streams>>
       ELSE device' = MarkCommunicationLost(device) /\ Publish(device')
    /\ UNCHANGED <<fabric, calls, lock, telemetry, failures>>

-----------------------------------------------------------------------------
(* The operator and the subscribers *)

ClearDeviceFault(f) ==
    /\ f = "over_temperature" => device.temperature = "cool"
    /\ device' = ClearFault(device, f)
    /\ Publish(device')
    /\ UNCHANGED <<fabric, calls, lock, telemetry, misses, failures>>

SetMode(m) ==
    /\ device' = [device EXCEPT !.mode = m]
    /\ Publish(device')
    /\ UNCHANGED <<fabric, calls, lock, telemetry, misses, failures>>

\* The current state is sent at once.
Subscribe(s) ==
    /\ ~streams[s].open
    /\ streams' = [streams EXCEPT ![s] = [open |-> TRUE, seen |-> ViewOf(device), slot |-> NoView]]
    /\ UNCHANGED <<device, fabric, calls, lock, telemetry, misses, failures>>

Deliver(s) ==
    /\ streams[s].open /\ streams[s].slot # NoView
    /\ streams' = [streams EXCEPT ![s] = [open |-> TRUE, seen |-> streams[s].slot,
                                          slot |-> NoView]]
    /\ UNCHANGED <<device, fabric, calls, lock, telemetry, misses, failures>>

Unsubscribe(s) ==
    /\ streams[s].open
    /\ streams' = [streams EXCEPT ![s] = Closed]
    /\ UNCHANGED <<device, fabric, calls, lock, telemetry, misses, failures>>

-----------------------------------------------------------------------------

Serve(c) == Enter(c) \/ ToolDone(c) \/ ToolFailed(c) \/ Succeed(c) \/ Fail(c)

\* What the telemetry loop does from one reading to the next.
Read == ReadingFails \/ \E t \in Temperature : ReadingSucceeds(t)
Cut == SafetyEnters \/ SafetyTool \/ SafetyLatches

Discover == DiscoveryFinds \/ DiscoveryMisses

Operator ==
    \/ \E f \in FaultType : ClearDeviceFault(f)
    \/ \E m \in FPGAMode : SetMode(m)

Next ==
    \/ \E c \in Callers, op \in {"pl", "ps", "reset"}, i \in Images \cup {NoImage},
          m \in FPGAMode : Request(c, op, i, m)
    \/ \E c \in Callers : Serve(c)
    \/ StartReading \/ Read \/ Cut
    \/ Discover
    \/ Operator
    \/ \E s \in Subscribers : Subscribe(s) \/ Deliver(s) \/ Unsubscribe(s)

Spec == Init /\ [][Next]_vars

\* The event loop resumes whoever has the lock, and every tool ends: XSDB and
\* Vivado sessions are killed at a timeout.
Fairness ==
    /\ \A c \in Callers : WF_vars(Serve(c))
    /\ WF_vars(StartReading) /\ WF_vars(Read) /\ WF_vars(Cut)

FairSpec == Spec /\ Fairness

-----------------------------------------------------------------------------
(* Properties *)

\* The shape of the state.  A stream that is open has delivered a state, from
\* the moment it was opened (subscribe).
TypeOK ==
    /\ device \in FPGAState
    /\ fabric \in Images \cup {NoImage}
    /\ calls \in [Callers -> Call]
    /\ lock \in Seq(Callers \cup {Safety})
    /\ telemetry \in [point : {"sleep", "reading", "lock", "tool", "done", "failed"},
                      knewLost : BOOLEAN]
    /\ misses \in 0..DiscoveryMissThreshold
    /\ failures \in 0..TelemetryFailureThreshold
    /\ streams \in [Subscribers -> {Closed} \cup
                        [open : {TRUE}, seen : View, slot : View \cup {NoView}]]

Working(c) == calls[c].stage \in {"tool", "done", "failed"}
Programming(c) == Working(c) /\ calls[c].op \in {"pl", "ps"}
SafetyWorking == telemetry.point \in {"tool", "done", "failed"}

\* The requests and the safety reset that wait for the lock or hold it.
Owners == {c \in Callers : calls[c].stage # "idle"} \cup
          {x \in {Safety} : telemetry.point \in {"lock", "tool", "done", "failed"}}

\* A queue without duplicates of exactly the given owners.
Queues(q, owners) ==
    /\ \A i, j \in 1..Len(q) : q[i] = q[j] => i = j
    /\ owners = {q[i] : i \in 1..Len(q)}

\* The device lock does its work: requests and the safety reset are in it once
\* and until they end, and only its holder has a tool at the board.
OneToolAtATime ==
    /\ Queues(lock, Owners)
    /\ \A c \in Callers : Working(c) => Head(lock) = c
    /\ SafetyWorking => Head(lock) = Safety

\* Once the over-temperature fault is latched nothing is being programmed, not
\* even by a request that had passed its first check and was waiting for the
\* lock when the board overheated.
HotBoardIsLocked ==
    "over_temperature" \in device.faults => \A c \in Callers : ~Programming(c)

\* And the hardware has been cleared, until the fault is gone.
HotBoardIsBlank ==
    "over_temperature" \in device.faults => fabric = NoImage

\* Whenever no tool is at work, a board recorded as running a bitstream runs
\* exactly that one, however losses of communication interleave with requests.
RecordIsHonest ==
    device.image # NoImage /\ lock = << >> => fabric = device.image

\* A subscriber has seen or is about to be sent the current status and mode,
\* although its queue holds one state only; but for the time in which the
\* telemetry loop has cleared a fault and waits to reset the board.
StreamIsCurrent ==
    \A s \in Subscribers :
        streams[s].open /\ telemetry.point \in {"sleep", "reading"} =>
            ViewOf(device) = IF streams[s].slot = NoView THEN streams[s].seen
                             ELSE streams[s].slot

\* A thermal lock-out ends with the board measured cool, never between the two
\* limits, whether telemetry or the operator clears it.
LockoutEndsCool ==
    [][/\ "over_temperature" \in device.faults
       /\ "over_temperature" \notin device'.faults
       => device'.temperature = "cool"]_vars

\* The device lock is always left again: every request comes to its end, and a
\* board found hot is reset and locked, through whatever traffic of requests is
\* in front of the lock.
LockIsLeft ==
    /\ \A c \in Callers : calls[c].stage # "idle" ~> calls[c].stage = "idle"
    /\ telemetry.point = "lock" ~> telemetry.point = "sleep"

-----------------------------------------------------------------------------
(* The agent, seen by those that use it *)

\* The requests in the order of the lock, passing over the safety reset.
InLine(q) ==
    LET past(n) == \E m \in 1..n : q[m] = Safety
    IN  [n \in 1..(IF past(Len(q)) THEN Len(q) - 1 ELSE Len(q)) |->
            q[IF past(n) THEN n + 1 ELSE n]]

Entry(c) == [op |-> calls[c].op, image |-> calls[c].image, mode |-> calls[c].mode,
             begun |-> Working(c)]

Line == LET q == InLine(lock) IN [n \in DOMAIN q |-> Entry(q[n])]

Service == INSTANCE AgentService WITH
    image <- device.image,
    lost  <- "communication_lost" \in device.faults,
    hot   <- "over_temperature" \in device.faults,
    mode  <- device.mode,
    line  <- Line

\* Requests, readings, discovery and operators, each with steps of its own at
\* the registry, amount to a service that takes one request after the other and
\* locks the board out only between two of them.
ServiceSpec == Service!ProcessSpec
=============================================================================
