---------------------------- MODULE AgentProofs ----------------------------
(***************************************************************************)
(* Proofs about the FPGA agent for any number of requests, bitstreams and  *)
(* subscribers, any thresholds and any set of failing tools.               *)
(***************************************************************************)
EXTENDS FpgaAgent, SequenceTheorems, TLAPS

-----------------------------------------------------------------------------
(* The operators on the registry record *)

\* add_fault and clear_fault change the faults of the record alone.
LEMMA RecordOperators ==
    ASSUME NEW d \in FPGAState, NEW f \in FaultType
    PROVE  /\ AddFault(d, f) \in FPGAState
           /\ AddFault(d, f).faults = d.faults \cup {f}
           /\ AddFault(d, f).image = d.image
           /\ AddFault(d, f).mode = d.mode
           /\ ClearFault(d, f) \in FPGAState
           /\ ClearFault(d, f).faults = d.faults \ {f}
           /\ ClearFault(d, f).image = d.image
           /\ ClearFault(d, f).mode = d.mode
           /\ ClearFault(d, f).temperature = d.temperature
  BY DEF AddFault, ClearFault, FPGAState

\* A tool that succeeded clears faults, the thermal one never.
LEMMA RecoveredRecord ==
    ASSUME NEW d \in FPGAState
    PROVE  /\ Recovered(d) \in FPGAState
           /\ "over_temperature" \in Recovered(d).faults <=> "over_temperature" \in d.faults
           /\ "communication_lost" \notin Recovered(d).faults
           /\ Recovered(d).image = d.image
           /\ Recovered(d).mode = d.mode
<1>. DEFINE e == ClearFault(d, "programming_failed")
<1>1. /\ e \in FPGAState /\ e.faults = d.faults \ {"programming_failed"}
      /\ e.image = d.image /\ e.mode = d.mode
  BY RecordOperators DEF FaultType
<1>2. /\ ClearFault(e, "communication_lost") \in FPGAState
      /\ ClearFault(e, "communication_lost").faults = e.faults \ {"communication_lost"}
      /\ ClearFault(e, "communication_lost").image = e.image
      /\ ClearFault(e, "communication_lost").mode = e.mode
  BY <1>1, RecordOperators DEF FaultType
<1>. QED  BY <1>1, <1>2 DEF Recovered

\* Losing the board takes its image and leaves the thermal fault as it is.
LEMMA LostRecord ==
    ASSUME NEW d \in FPGAState
    PROVE  /\ MarkCommunicationLost(d) \in FPGAState
           /\ MarkCommunicationLost(d).image = NoImage
           /\ MarkCommunicationLost(d).mode = d.mode
           /\ "communication_lost" \in MarkCommunicationLost(d).faults
           /\ "over_temperature" \in MarkCommunicationLost(d).faults
                <=> "over_temperature" \in d.faults
<1>. DEFINE e == AddFault(d, "communication_lost")
<1>1. /\ e \in FPGAState /\ e.faults = d.faults \cup {"communication_lost"}
      /\ e.mode = d.mode
  BY RecordOperators DEF FaultType
<1>. QED  BY <1>1 DEF MarkCommunicationLost, FPGAState

\* update_fpga(bitstream_id=...) changes nothing else.
LEMMA SetImage ==
    ASSUME NEW d \in FPGAState, NEW i \in Images \cup {NoImage}
    PROVE  /\ [d EXCEPT !.image = i] \in FPGAState
           /\ [d EXCEPT !.image = i].image = i
           /\ [d EXCEPT !.image = i].faults = d.faults
           /\ [d EXCEPT !.image = i].mode = d.mode
  BY DEF FPGAState

Streams == [Subscribers -> {Closed} \cup [open : {TRUE}, seen : View, slot : View \cup {NoView}]]

\* A stream that is open has delivered a state.
LEMMA OpenStream ==
    ASSUME streams \in Streams, NEW s \in Subscribers, streams[s].open
    PROVE  streams[s] \in [open : {TRUE}, seen : View, slot : View \cup {NoView}]
<1>1. streams[s] \in {Closed} \cup [open : {TRUE}, seen : View, slot : View \cup {NoView}]
  BY DEF Streams
<1>2. Closed.open = FALSE
  BY DEF Closed
<1>3. streams[s] # Closed
  BY <1>2, Zenon
<1>. QED  BY <1>1, <1>3

\* What is published of a record is a view.
LEMMA ViewType == ASSUME NEW d \in FPGAState PROVE ViewOf(d) \in View
  BY DEF ViewOf, View, Status, FPGAState

\* _publish_state reaches open streams only and keeps their shape.
LEMMA PublishType ==
    ASSUME streams \in Streams, NEW d \in FPGAState, Publish(d) PROVE streams' \in Streams
<1>1. ViewOf(d) \in View
  BY ViewType
<1>2. ASSUME NEW s \in Subscribers, streams[s].open
      PROVE  [streams[s] EXCEPT !.slot = ViewOf(d)]
                \in [open : {TRUE}, seen : View, slot : View \cup {NoView}]
  <2>1. streams[s] \in [open : {TRUE}, seen : View, slot : View \cup {NoView}]
    BY <1>2, OpenStream
  <2>. QED  BY <2>1, <1>1
<1>. QED  BY <1>2 DEF Publish, Streams

-----------------------------------------------------------------------------
(* The device lock as a queue without duplicates *)

\* Nobody is in a free lock.
LEMMA EmptyQueue == Queues(<< >>, {})
  BY DEF Queues

\* A newcomer goes to the end; it is the head only of a queue that was empty.
LEMMA Enqueue ==
    ASSUME NEW S, NEW q \in Seq(S), NEW owners, Queues(q, owners),
           NEW x \in S, x \notin owners
    PROVE  /\ Append(q, x) \in Seq(S)
           /\ Queues(Append(q, x), owners \cup {x})
           /\ Append(q, x) # << >>
           /\ Head(Append(q, x)) = IF q = << >> THEN x ELSE Head(q)
<1>. DEFINE r == Append(q, x)
<1>1. /\ r \in Seq(S)
      /\ Len(q) \in Nat
      /\ Len(r) = Len(q) + 1
      /\ r[Len(q) + 1] = x
      /\ \A k \in 1..Len(q) : r[k] = q[k]
  OBVIOUS
<1>2. q = << >> <=> Len(q) = 0
  OBVIOUS
<1>3. r # << >> /\ Head(r) = r[1] /\ (q # << >> => Head(q) = q[1])
  BY <1>1
<1>. HIDE DEF r
<1>4. Head(r) = IF q = << >> THEN x ELSE Head(q)
  BY <1>1, <1>2, <1>3
<1>5. \A i, j \in 1..Len(r) : r[i] = r[j] => i = j
  BY <1>1 DEF Queues
<1>6. owners \cup {x} = {r[i] : i \in 1..Len(r)}
  <2>1. owners = {q[i] : i \in 1..Len(q)}
    BY DEF Queues
  <2>2. ASSUME NEW y \in owners \cup {x} PROVE \E i \in 1..Len(r) : r[i] = y
    <3>1. CASE y = x
      BY <3>1, <1>1
    <3>2. CASE y \in owners
      <4>1. PICK i \in 1..Len(q) : q[i] = y
        BY <3>2, <2>1
      <4>. QED  BY <4>1, <1>1
    <3>. QED  BY <3>1, <3>2
  <2>3. ASSUME NEW i \in 1..Len(r) PROVE r[i] \in owners \cup {x}
    <3>1. CASE i = Len(q) + 1
      BY <3>1, <1>1
    <3>2. CASE i \in 1..Len(q)
      BY <3>2, <1>1, <2>1
    <3>. QED  BY <3>1, <3>2, <1>1
  <2>. QED  BY <2>2, <2>3
<1>. QED  BY <1>1, <1>3, <1>4, <1>5, <1>6 DEF r, Queues

\* The holder leaves.
LEMMA Dequeue ==
    ASSUME NEW S, NEW q \in Seq(S), NEW owners, Queues(q, owners), q # << >>
    PROVE  /\ Tail(q) \in Seq(S)
           /\ Queues(Tail(q), owners \ {Head(q)})
<1>1. /\ Head(q) = q[1]
      /\ Len(q) \in Nat \ {0}
  OBVIOUS
<1>2. /\ Tail(q) \in Seq(S)
      /\ Len(Tail(q)) = Len(q) - 1
      /\ \A k \in 1..Len(Tail(q)) : Tail(q)[k] = q[k + 1]
  BY HeadTailProperties
<1>3. \A i, j \in 1..Len(Tail(q)) : Tail(q)[i] = Tail(q)[j] => i = j
  BY <1>1, <1>2 DEF Queues
<1>4. owners = {q[i] : i \in 1..Len(q)}
  BY DEF Queues
<1>5. ASSUME NEW y \in owners \ {Head(q)} PROVE \E i \in 1..Len(Tail(q)) : Tail(q)[i] = y
  <2>1. PICK k \in 1..Len(q) : q[k] = y
    BY <1>4
  <2>2. k - 1 \in 1..Len(Tail(q)) /\ Tail(q)[k - 1] = y
    BY <2>1, <1>1, <1>2
  <2>. QED  BY <2>2
<1>6. ASSUME NEW i \in 1..Len(Tail(q)) PROVE Tail(q)[i] \in owners \ {Head(q)}
  <2>1. i + 1 \in 1..Len(q) /\ Tail(q)[i] = q[i + 1] /\ 1 \in 1..Len(q) /\ i + 1 # 1
    BY <1>1, <1>2
  <2>2. q[i + 1] # q[1]
    BY <2>1 DEF Queues
  <2>. QED  BY <2>1, <2>2, <1>1, <1>4
<1>. QED  BY <1>2, <1>3, <1>5, <1>6 DEF Queues

\* The lock is free exactly when nobody is in it.
LEMMA QueueEmpty ==
    ASSUME NEW S, NEW q \in Seq(S), NEW owners, Queues(q, owners)
    PROVE  q = << >> <=> owners = {}
<1>1. owners = {q[i] : i \in 1..Len(q)} /\ Len(q) \in Nat
  BY DEF Queues
<1>2. CASE q = << >>
  BY <1>1, <1>2
<1>3. CASE q # << >>
  <2>1. 1 \in 1..Len(q)
    BY <1>3
  <2>. QED  BY <2>1, <1>1, <1>3
<1>. QED  BY <1>2, <1>3

-----------------------------------------------------------------------------
(* Types *)

\* A discovered board has the types.
LEMMA TypeInit == Init => TypeOK
<1>. SUFFICES ASSUME Init PROVE TypeOK
  OBVIOUS
<1>1. device \in FPGAState
  BY DEF Init, FPGAState
<1>2. calls \in [Callers -> Call] /\ streams \in Streams
  BY DEF Init, NoCall, Call, FPGAMode, Streams
<1>3. misses \in 0..DiscoveryMissThreshold /\ failures \in 0..TelemetryFailureThreshold
  BY ThresholdsAssumption DEF Init
<1>. QED  BY <1>1, <1>2, <1>3 DEF Init, TypeOK, Streams, Asleep


\* Whoever holds the lock can leave it.
LEMMA HolderLeaves ==
    ASSUME TypeOK, OneToolAtATime, NEW x \in Owners, Head(lock) = x
    PROVE  /\ lock # << >>
           /\ Tail(lock) \in Seq(Callers \cup {Safety})
           /\ Queues(Tail(lock), Owners \ {x})
<1>1. lock \in Seq(Callers \cup {Safety}) /\ Queues(lock, Owners)
  BY DEF TypeOK, OneToolAtATime
<1>2. lock # << >>
  BY <1>1, QueueEmpty
<1>. QED  BY <1>1, <1>2, Dequeue

\* Every action keeps the types; those that pop the lock need its invariant.
LEMMA TypeStep == TypeOK /\ OneToolAtATime /\ [Next]_vars => TypeOK'
<1>. SUFFICES ASSUME TypeOK, OneToolAtATime, [Next]_vars PROVE TypeOK'
  OBVIOUS
<1>0. /\ device \in FPGAState
      /\ calls \in [Callers -> Call]
      /\ lock \in Seq(Callers \cup {Safety})
      /\ streams \in Streams
  BY DEF Streams, TypeOK
<1>a. \A c \in Callers : calls[c].stage # "idle" => c \in Owners
  BY DEF Owners
<1>b. ASSUME NEW c \in Callers, calls[c].stage # "idle",
             NEW st \in {"lock", "tool", "done", "failed"}
      PROVE  [calls[c] EXCEPT !.stage = st] \in Call
  BY <1>0, <1>b DEF Call, NoCall
<1>c. ASSUME NEW d \in FPGAState, Publish(d) PROVE streams' \in Streams
  BY <1>0, <1>c, PublishType
<1>1. ASSUME NEW c \in Callers, NEW op \in {"pl", "ps", "reset"},
             NEW i \in Images \cup {NoImage}, NEW m \in FPGAMode, Request(c, op, i, m)
      PROVE  TypeOK'
  <2>1. calls' \in [Callers -> Call]
    BY <1>0, <1>1 DEF Request, Call
  <2>2. lock' \in Seq(Callers \cup {Safety})
    BY <1>0, <1>1 DEF Request
  <2>. QED  BY <1>1, <2>1, <2>2 DEF Request, TypeOK
<1>2. ASSUME NEW c \in Callers, Enter(c) PROVE TypeOK'
  <2>1. calls' \in [Callers -> Call]
    <3>1. [calls[c] EXCEPT !.stage = "tool"] \in Call /\ NoCall \in Call
      BY <1>2, <1>b DEF Enter, Call
    <3>2. \/ calls' = [calls EXCEPT ![c] = [calls[c] EXCEPT !.stage = "tool"]]
          \/ calls' = [calls EXCEPT ![c] = NoCall]
      BY <1>2 DEF Enter
    <3>. QED  BY <1>0, <3>1, <3>2
  <2>2. lock' \in Seq(Callers \cup {Safety})
    BY <1>0, <1>2, <1>a, HolderLeaves DEF Enter
  <2>. QED  BY <1>2, <2>1, <2>2 DEF Enter, TypeOK
<1>3. ASSUME NEW c \in Callers, ToolDone(c) PROVE TypeOK'
  <2>1. calls' \in [Callers -> Call]
    BY <1>0, <1>3, <1>b DEF ToolDone
  <2>2. fabric' \in Images \cup {NoImage}
    <3>1. calls[c].op \in {"pl", "ps", "reset"} /\ calls[c].image \in Images \cup {NoImage}
      BY <1>0, <1>3 DEF ToolDone, Call, NoCall
    <3>. QED  BY <3>1, <1>3 DEF ToolDone, TypeOK
  <2>. QED  BY <1>3, <2>1, <2>2 DEF ToolDone, TypeOK
<1>4. ASSUME NEW c \in Callers, ToolFailed(c) PROVE TypeOK'
  <2>1. calls' \in [Callers -> Call]
    BY <1>0, <1>4, <1>b DEF ToolFailed
  <2>2. fabric' \in Images \cup {NoImage}
    BY <1>4 DEF ToolFailed, TypeOK
  <2>. QED  BY <1>4, <2>1, <2>2 DEF ToolFailed, TypeOK
<1>5. ASSUME NEW c \in Callers, Succeed(c) PROVE TypeOK'
  <2>1. calls[c].op \in {"pl", "ps", "reset"} /\ calls[c].image \in Images \cup {NoImage}
    BY <1>0, <1>5 DEF Succeed, Call, NoCall
  <2>2. Recovered(device) \in FPGAState
    BY <1>0, RecoveredRecord
  <2>3. device' \in FPGAState
    <3>1. CASE calls[c].op = "pl"
      <4>1. device' = [Recovered(device) EXCEPT !.image = calls[c].image]
        BY <1>5, <3>1 DEF Succeed
      <4>. QED  BY <4>1, <2>1, <2>2, SetImage
    <3>2. CASE calls[c].op = "ps"
      BY <1>5, <2>2, <3>2 DEF Succeed
    <3>3. CASE calls[c].op = "reset"
      <4>1. device' = [Recovered(device) EXCEPT !.image = NoImage]
        BY <1>5, <3>3 DEF Succeed
      <4>. QED  BY <4>1, <2>2, SetImage
    <3>. QED  BY <2>1, <3>1, <3>2, <3>3
  <2>4. calls' \in [Callers -> Call]
    BY <1>0, <1>5 DEF Succeed, Call
  <2>5. lock' \in Seq(Callers \cup {Safety})
    <3>1. Working(c)
      BY <1>5 DEF Succeed, Working
    <3>2. Head(lock) = c
      BY <3>1 DEF OneToolAtATime
    <3>. QED  BY <1>5, <1>a, <3>2, HolderLeaves DEF Succeed
  <2>6. streams' \in Streams
    BY <1>5, <2>3, <1>c DEF Succeed
  <2>. QED  BY <1>5, <2>3, <2>4, <2>5, <2>6 DEF Succeed, TypeOK, Streams
<1>6. ASSUME NEW c \in Callers, Fail(c) PROVE TypeOK'
  <2>1. device' \in FPGAState
    BY <1>0, <1>6, RecordOperators DEF Fail, FaultType
  <2>2. calls' \in [Callers -> Call]
    BY <1>0, <1>6 DEF Fail, Call
  <2>3. lock' \in Seq(Callers \cup {Safety})
    <3>1. Working(c)
      BY <1>6 DEF Fail, Working
    <3>2. Head(lock) = c
      BY <3>1 DEF OneToolAtATime
    <3>. QED  BY <1>6, <1>a, <3>2, HolderLeaves DEF Fail
  <2>. QED  BY <1>6, <2>1, <2>2, <2>3 DEF Fail, TypeOK
<1>7. ASSUME StartReading PROVE TypeOK'
  <2>1. ("communication_lost" \in device.faults) \in BOOLEAN
    OBVIOUS
  <2>2. telemetry'.point = "reading" /\ telemetry' =
          [point |-> "reading", knewLost |-> "communication_lost" \in device.faults]
    BY <1>7 DEF StartReading
  <2>3. telemetry' \in [point : {"sleep", "reading", "lock", "tool", "done", "failed"},
                        knewLost : BOOLEAN]
    BY <2>1, <2>2
  <2>. QED  BY <1>7, <2>3 DEF StartReading, TypeOK
<1>8. ASSUME ReadingFails PROVE TypeOK'
  <2>1. failures' \in 0..TelemetryFailureThreshold
    BY <1>8, ThresholdsAssumption DEF ReadingFails, TypeOK
  <2>2. device' \in FPGAState /\ streams' \in Streams
    <3>1. CASE UNCHANGED <<device, streams>>
      BY <3>1, <1>0
    <3>2. CASE device' = MarkCommunicationLost(device) /\ Publish(device')
      <4>1. device' \in FPGAState
        BY <3>2, <1>0, LostRecord
      <4>. QED  BY <4>1, <3>2, <1>c
    <3>. QED  BY <1>8, <3>1, <3>2 DEF ReadingFails
  <2>. QED  BY <1>8, <2>1, <2>2 DEF ReadingFails, Asleep, TypeOK, Streams
<1>9. ASSUME NEW t \in Temperature, ReadingSucceeds(t) PROVE TypeOK'
  <2>. DEFINE d == [ClearFault(device, "communication_lost") EXCEPT !.temperature = t]
  <2>1. d \in FPGAState
    <3>1. ClearFault(device, "communication_lost") \in FPGAState
      BY <1>0, RecordOperators DEF FaultType
    <3>. QED  BY <3>1 DEF FPGAState
  <2>2. ClearFault(d, "over_temperature") \in FPGAState
    BY <2>1, RecordOperators DEF FaultType
  <2>3. 0 \in 0..TelemetryFailureThreshold
    BY ThresholdsAssumption
  <2>4. CASE t = "hot" /\ "over_temperature" \notin d.faults
    <3>1. lock' \in Seq(Callers \cup {Safety})
      <4>1. lock' = Append(lock, Safety)
        BY <1>9, <2>4 DEF ReadingSucceeds
      <4>. QED  BY <1>0, <4>1
    <3>2. telemetry' \in [point : {"sleep", "reading", "lock", "tool", "done", "failed"},
                          knewLost : BOOLEAN]
      BY <1>9, <2>4 DEF ReadingSucceeds, TypeOK
    <3>3. device' \in FPGAState /\ streams' = streams
      BY <1>9, <2>4, <2>1 DEF ReadingSucceeds
    <3>. QED  BY <1>9, <2>3, <3>1, <3>2, <3>3 DEF ReadingSucceeds, TypeOK
  <2>5. CASE ~(t = "hot" /\ "over_temperature" \notin d.faults)
    <3>1. /\ device' = IF t = "cool" THEN ClearFault(d, "over_temperature") ELSE d
          /\ Publish(device')
          /\ telemetry' = Asleep
          /\ lock' = lock
      BY <1>9, <2>5 DEF ReadingSucceeds
    <3>2. device' \in FPGAState
      BY <3>1, <2>1, <2>2
    <3>3. streams' \in Streams
      BY <3>1, <3>2, <1>c
    <3>. QED  BY <1>9, <2>3, <3>1, <3>2, <3>3 DEF ReadingSucceeds, Asleep, TypeOK, Streams
  <2>. QED  BY <2>4, <2>5
<1>10. ASSUME SafetyEnters PROVE TypeOK'
  BY <1>10 DEF SafetyEnters, TypeOK
<1>11. ASSUME SafetyTool PROVE TypeOK'
  BY <1>11 DEF SafetyTool, TypeOK
<1>12. ASSUME SafetyLatches PROVE TypeOK'
  <2>. DEFINE d == AddFault(device, "over_temperature")
  <2>1. d \in FPGAState /\ [d EXCEPT !.image = NoImage] \in FPGAState
    <3>1. d \in FPGAState
      BY <1>0, RecordOperators DEF FaultType
    <3>. QED  BY <3>1, SetImage
  <2>2. device' \in FPGAState
    BY <1>12, <2>1 DEF SafetyLatches
  <2>3. streams' \in Streams
    BY <1>12, <2>2, <1>c DEF SafetyLatches
  <2>4. lock' \in Seq(Callers \cup {Safety})
    <3>1. SafetyWorking /\ Safety \in Owners
      BY <1>12 DEF SafetyLatches, SafetyWorking, Owners
    <3>2. Head(lock) = Safety
      BY <3>1 DEF OneToolAtATime
    <3>. QED  BY <1>12, <3>1, <3>2, HolderLeaves DEF SafetyLatches
  <2>. QED  BY <1>12, <2>2, <2>3, <2>4 DEF SafetyLatches, Asleep, TypeOK, Streams
<1>13. ASSUME Discover PROVE TypeOK'
  <2>1. CASE DiscoveryFinds
    <3>1. device' \in FPGAState
      BY <1>0, <2>1, RecordOperators DEF DiscoveryFinds, FaultType
    <3>2. streams' \in Streams
      BY <1>0, <1>c, <2>1, <3>1 DEF DiscoveryFinds
    <3>3. misses' \in 0..DiscoveryMissThreshold
      BY <2>1, ThresholdsAssumption DEF DiscoveryFinds
    <3>. QED  BY <2>1, <3>1, <3>2, <3>3 DEF DiscoveryFinds, TypeOK, Streams
  <2>2. CASE DiscoveryMisses
    <3>1. misses' \in 0..DiscoveryMissThreshold
      BY <2>2, ThresholdsAssumption DEF DiscoveryMisses, TypeOK
    <3>2. device' \in FPGAState /\ streams' \in Streams
      <4>1. CASE UNCHANGED <<device, streams>>
        BY <4>1, <1>0
      <4>2. CASE device' = MarkCommunicationLost(device) /\ Publish(device')
        <5>1. device' \in FPGAState
          BY <4>2, <1>0, LostRecord
        <5>. QED  BY <5>1, <4>2, <1>c
      <4>. QED  BY <2>2, <4>1, <4>2 DEF DiscoveryMisses
    <3>. QED  BY <2>2, <3>1, <3>2 DEF DiscoveryMisses, TypeOK, Streams
  <2>. QED  BY <1>13, <2>1, <2>2 DEF Discover
<1>14. ASSUME Operator PROVE TypeOK'
  <2>1. ASSUME NEW f \in FaultType, ClearDeviceFault(f) PROVE TypeOK'
    <3>1. device' \in FPGAState
      BY <1>0, <2>1, RecordOperators DEF ClearDeviceFault
    <3>2. streams' \in Streams
      BY <2>1, <3>1, <1>c DEF ClearDeviceFault
    <3>. QED  BY <2>1, <3>1, <3>2 DEF ClearDeviceFault, TypeOK, Streams
  <2>2. ASSUME NEW m \in FPGAMode, SetMode(m) PROVE TypeOK'
    <3>1. device' \in FPGAState
      BY <1>0, <2>2 DEF SetMode, FPGAState
    <3>2. streams' \in Streams
      BY <2>2, <3>1, <1>c DEF SetMode
    <3>. QED  BY <2>2, <3>1, <3>2 DEF SetMode, TypeOK, Streams
  <2>. QED  BY <1>14, <2>1, <2>2 DEF Operator
<1>15. ASSUME NEW s \in Subscribers, Subscribe(s) \/ Deliver(s) \/ Unsubscribe(s)
       PROVE  TypeOK'
  <2>1. ViewOf(device) \in View
    BY <1>0, ViewType
  <2>2. streams' \in Streams
    <3>1. CASE Subscribe(s)
      BY <1>0, <2>1, <3>1 DEF Subscribe, Streams
    <3>2. CASE Deliver(s)
      <4>1. streams[s] \in [open : {TRUE}, seen : View, slot : View \cup {NoView}]
        BY <1>0, <3>2, OpenStream DEF Deliver
      <4>2. streams[s].slot \in View
        BY <4>1, <3>2 DEF Deliver
      <4>. QED  BY <1>0, <3>2, <4>2 DEF Deliver, Streams
    <3>3. CASE Unsubscribe(s)
      BY <1>0, <3>3 DEF Unsubscribe, Streams
    <3>. QED  BY <1>15, <3>1, <3>2, <3>3
  <2>. QED  BY <1>15, <2>2 DEF Subscribe, Deliver, Unsubscribe, TypeOK, Streams
<1>16. ASSUME UNCHANGED vars PROVE TypeOK'
  BY <1>16 DEF vars, TypeOK
<1>. QED  BY <1>1, <1>2, <1>3, <1>4, <1>5, <1>6, <1>7, <1>8, <1>9, <1>10, <1>11, <1>12,
             <1>13, <1>14, <1>15, <1>16 DEF Next, Serve, Read, Cut

-----------------------------------------------------------------------------
(* The device lock *)

\* At the start the lock is free.
LEMMA LockInit == Init => OneToolAtATime
<1>. SUFFICES ASSUME Init PROVE OneToolAtATime
  OBVIOUS
<1>1. Owners = {} /\ lock = << >>
  BY DEF Init, Owners, NoCall, Asleep
<1>2. \A c \in Callers : ~Working(c)
  BY DEF Init, Working, NoCall
<1>3. ~SafetyWorking
  BY DEF Init, SafetyWorking, Asleep
<1>. QED  BY <1>1, <1>2, <1>3, EmptyQueue DEF OneToolAtATime

\* Nobody asks for the lock, takes it or leaves it.
Unmoved ==
    /\ UNCHANGED <<calls, lock>>
    /\ \/ UNCHANGED telemetry
       \/ telemetry.point \in {"sleep", "reading"} /\ telemetry'.point \in {"sleep", "reading"}

\* What touches neither the lock nor its owners keeps the lock's invariant.
LEMMA LockUnmoved == OneToolAtATime /\ Unmoved => OneToolAtATime'
<1>. SUFFICES ASSUME OneToolAtATime, Unmoved PROVE OneToolAtATime'
  OBVIOUS
<1>1. Owners' = Owners
  BY DEF Unmoved, Owners
<1>2. SafetyWorking' <=> SafetyWorking
  BY DEF Unmoved, SafetyWorking
<1>3. lock' = lock /\ \A c \in Callers : Working(c)' <=> Working(c)
  BY DEF Unmoved, Working
<1>. QED  BY <1>1, <1>2, <1>3 DEF OneToolAtATime, Queues

\* A request that holds the lock ends.
LEMMA CallerLeaves ==
    ASSUME TypeOK, OneToolAtATime, NEW c \in Callers,
           calls[c].stage # "idle", Head(lock) = c,
           calls' = [calls EXCEPT ![c] = NoCall], lock' = Tail(lock), telemetry' = telemetry
    PROVE  OneToolAtATime'
<1>1. c \in Owners /\ c # Safety
  BY CallersAssumption DEF Owners
<1>2. Queues(lock', Owners \ {c})
  BY <1>1, HolderLeaves
<1>3. calls \in [Callers -> Call]
  BY DEF TypeOK
<1>4. Owners' = Owners \ {c}
  BY <1>1, <1>3 DEF Owners, NoCall
<1>5. ASSUME NEW d \in Callers PROVE ~Working(d)'
  <2>1. CASE d = c
    BY <1>3, <2>1 DEF Working, NoCall
  <2>2. CASE d # c
    BY <1>3, <2>2 DEF Working, OneToolAtATime
  <2>. QED  BY <2>1, <2>2
<1>6. ~SafetyWorking'
  BY <1>1 DEF SafetyWorking, OneToolAtATime
<1>. QED  BY <1>2, <1>4, <1>5, <1>6 DEF OneToolAtATime

\* The holder of the lock goes on with its work.
LEMMA CallerGoesOn ==
    ASSUME TypeOK, OneToolAtATime, NEW c \in Callers, calls[c].stage # "idle", Head(lock) = c,
           NEW st \in {"tool", "done", "failed"},
           calls' = [calls EXCEPT ![c].stage = st], lock' = lock, telemetry' = telemetry
    PROVE  OneToolAtATime'
<1>1. calls \in [Callers -> Call]
  BY DEF TypeOK
<1>2. calls'[c].stage = st /\ \A d \in Callers : d # c => calls'[d] = calls[d]
  BY <1>1 DEF Call, NoCall
<1>3. Owners' = Owners
  BY <1>2 DEF Owners
<1>4. \A d \in Callers : Working(d)' => Head(lock') = d
  BY <1>2 DEF Working, OneToolAtATime
<1>5. SafetyWorking' => Head(lock') = Safety
  BY DEF SafetyWorking, OneToolAtATime
<1>. QED  BY <1>3, <1>4, <1>5 DEF OneToolAtATime, Queues

\* Every action keeps the device lock's promise.
LEMMA LockStep == TypeOK /\ OneToolAtATime /\ [Next]_vars => OneToolAtATime'
<1>. SUFFICES ASSUME TypeOK, OneToolAtATime, [Next]_vars PROVE OneToolAtATime'
  OBVIOUS
<1>0. /\ calls \in [Callers -> Call]
      /\ lock \in Seq(Callers \cup {Safety})
      /\ Queues(lock, Owners)
  BY DEF TypeOK, OneToolAtATime
<1>a. \A c \in Callers : Working(c) => c \in Owners /\ Head(lock) = c /\ calls[c].stage # "idle"
  BY DEF Owners, Working, OneToolAtATime
<1>b. SafetyWorking => Safety \in Owners /\ Head(lock) = Safety
  BY DEF Owners, SafetyWorking, OneToolAtATime
<1>c. lock = << >> <=> Owners = {}
  BY <1>0, QueueEmpty
<1>1. ASSUME NEW c \in Callers, NEW op \in {"pl", "ps", "reset"},
             NEW i \in Images \cup {NoImage}, NEW m \in FPGAMode, Request(c, op, i, m)
      PROVE  OneToolAtATime'
  <2>1. /\ calls'[c].stage = IF lock = << >> THEN "tool" ELSE "lock"
        /\ \A d \in Callers : d # c => calls'[d] = calls[d]
        /\ lock' = Append(lock, c)
        /\ telemetry' = telemetry
    BY <1>0, <1>1 DEF Request
  <2>2. c \notin Owners /\ c # Safety
    BY <1>1, CallersAssumption DEF Request, Owners
  <2>3. Owners' = Owners \cup {c}
    BY <2>1 DEF Owners
  <2>4. /\ Queues(lock', Owners')
        /\ Head(lock') = IF lock = << >> THEN c ELSE Head(lock)
    BY <1>0, <2>1, <2>2, <2>3, Enqueue
  <2>5. ASSUME NEW d \in Callers, Working(d)' PROVE Head(lock') = d
    <3>1. CASE d = c
      BY <2>1, <2>4, <2>5, <3>1 DEF Working
    <3>2. CASE d # c
      <4>1. Working(d)
        BY <2>1, <2>5, <3>2 DEF Working
      <4>. QED  BY <1>a, <1>c, <2>4, <4>1
    <3>. QED  BY <3>1, <3>2
  <2>6. ASSUME SafetyWorking' PROVE Head(lock') = Safety
    <3>1. SafetyWorking
      BY <2>1, <2>6 DEF SafetyWorking
    <3>. QED  BY <1>b, <1>c, <2>4, <3>1
  <2>. QED  BY <2>4, <2>5, <2>6 DEF OneToolAtATime
<1>2. ASSUME NEW c \in Callers, Enter(c) PROVE OneToolAtATime'
  <2>1. calls[c].stage # "idle" /\ Head(lock) = c /\ telemetry' = telemetry
    BY <1>2 DEF Enter
  <2>2. CASE calls' = [calls EXCEPT ![c].stage = "tool"] /\ UNCHANGED lock
    BY <2>1, <2>2, CallerGoesOn
  <2>3. CASE calls' = [calls EXCEPT ![c] = NoCall] /\ lock' = Tail(lock)
    BY <2>1, <2>3, CallerLeaves
  <2>. QED  BY <1>2, <2>2, <2>3 DEF Enter
<1>3. ASSUME NEW c \in Callers, ToolDone(c) PROVE OneToolAtATime'
  <2>1. Working(c) /\ calls' = [calls EXCEPT ![c].stage = "done"] /\ UNCHANGED <<lock, telemetry>>
    BY <1>3 DEF ToolDone, Working
  <2>. QED  BY <2>1, <1>a, CallerGoesOn
<1>4. ASSUME NEW c \in Callers, ToolFailed(c) PROVE OneToolAtATime'
  <2>1. Working(c) /\ calls' = [calls EXCEPT ![c].stage = "failed"] /\ UNCHANGED <<lock, telemetry>>
    BY <1>4 DEF ToolFailed, Working
  <2>. QED  BY <2>1, <1>a, CallerGoesOn
<1>5. ASSUME NEW c \in Callers, Succeed(c) \/ Fail(c) PROVE OneToolAtATime'
  <2>1. /\ Working(c)
        /\ calls' = [calls EXCEPT ![c] = NoCall]
        /\ lock' = Tail(lock) /\ telemetry' = telemetry
    BY <1>5 DEF Succeed, Fail, Working
  <2>. QED  BY <2>1, <1>a, CallerLeaves
<1>6. ASSUME NEW t \in Temperature, ReadingSucceeds(t) PROVE OneToolAtATime'
  <2>1. CASE Unmoved
    BY <2>1, LockUnmoved
  <2>2. CASE ~Unmoved
    <3>1. /\ calls' = calls
          /\ telemetry.point = "reading"
          /\ telemetry' = [telemetry EXCEPT !.point = IF lock = << >> THEN "tool" ELSE "lock"]
          /\ lock' = Append(lock, Safety)
      BY <1>6, <2>2 DEF ReadingSucceeds, Unmoved, Asleep
    <3>2. telemetry'.point = IF lock = << >> THEN "tool" ELSE "lock"
      BY <3>1 DEF TypeOK
    <3>3. Safety \notin Owners
      BY <3>1, CallersAssumption DEF Owners
    <3>4. Owners' = Owners \cup {Safety}
      BY <3>1, <3>2 DEF Owners
    <3>5. /\ Queues(lock', Owners')
          /\ Head(lock') = IF lock = << >> THEN Safety ELSE Head(lock)
      BY <1>0, <3>1, <3>3, <3>4, Enqueue
    <3>6. \A d \in Callers : Working(d)' => Head(lock') = d
      BY <1>a, <1>c, <3>1, <3>5 DEF Working
    <3>7. SafetyWorking' => Head(lock') = Safety
      BY <3>2, <3>5 DEF SafetyWorking
    <3>. QED  BY <3>5, <3>6, <3>7 DEF OneToolAtATime
  <2>. QED  BY <2>1, <2>2
<1>7. ASSUME SafetyEnters \/ SafetyTool PROVE OneToolAtATime'
  <2>1. /\ calls' = calls /\ lock' = lock
        /\ Safety \in Owners /\ Head(lock) = Safety
        /\ telemetry'.point \in {"tool", "done", "failed"}
    <3>1. CASE SafetyEnters
      BY <3>1 DEF SafetyEnters, Owners, TypeOK
    <3>2. CASE SafetyTool
      <4>1. SafetyWorking
        BY <3>2 DEF SafetyTool, SafetyWorking
      <4>. QED  BY <3>2, <4>1, <1>b DEF SafetyTool, TypeOK
    <3>. QED  BY <1>7, <3>1, <3>2
  <2>2. Owners' = Owners
    BY <2>1, CallersAssumption DEF Owners
  <2>3. \A d \in Callers : Working(d)' => Head(lock') = d
    BY <1>a, <2>1 DEF Working
  <2>. QED  BY <1>0, <2>1, <2>2, <2>3 DEF OneToolAtATime, Queues
<1>8. ASSUME SafetyLatches PROVE OneToolAtATime'
  <2>1. /\ SafetyWorking
        /\ lock' = Tail(lock) /\ calls' = calls
        /\ telemetry'.point = "sleep"
    BY <1>8 DEF SafetyLatches, SafetyWorking, Asleep
  <2>2. Queues(lock', Owners \ {Safety})
    BY <1>b, <2>1, HolderLeaves
  <2>3. Owners' = Owners \ {Safety}
    BY <2>1, CallersAssumption DEF Owners
  <2>4. \A d \in Callers : ~Working(d)'
    BY <1>a, <1>b, <2>1, CallersAssumption DEF Working
  <2>5. ~SafetyWorking'
    BY <2>1 DEF SafetyWorking
  <2>. QED  BY <2>2, <2>3, <2>4, <2>5 DEF OneToolAtATime
<1>9. CASE Unmoved
  BY <1>9, LockUnmoved
<1>10. ASSUME StartReading \/ ReadingFails PROVE Unmoved
  BY <1>10 DEF StartReading, ReadingFails, Asleep, Unmoved
<1>11. ASSUME Discover PROVE Unmoved
  BY <1>11 DEF Discover, DiscoveryFinds, DiscoveryMisses, Unmoved
<1>12. ASSUME Operator PROVE Unmoved
  BY <1>12 DEF Operator, ClearDeviceFault, SetMode, Unmoved
<1>13. ASSUME NEW s \in Subscribers, Subscribe(s) \/ Deliver(s) \/ Unsubscribe(s) PROVE Unmoved
  BY <1>13 DEF Subscribe, Deliver, Unsubscribe, Unmoved
<1>14. ASSUME UNCHANGED vars PROVE Unmoved
  BY <1>14 DEF vars, Unmoved
<1>. QED  BY <1>1, <1>2, <1>3, <1>4, <1>5, <1>6, <1>7, <1>8, <1>9, <1>10, <1>11, <1>12,
             <1>13, <1>14 DEF Next, Serve, Read, Cut

-----------------------------------------------------------------------------
(* What a step does to the record's thermal fault, image and to the tools *)

\* The thermal lock-out is on.
Latched == "over_temperature" \in device.faults

\* Only the safety reset latches the thermal fault, and it does so as the
\* holder of the lock.
LEMMA LatchOnlyBySafety ==
    ASSUME TypeOK, [Next]_vars, Latched', ~Latched
    PROVE  SafetyLatches
<1>0. device \in FPGAState
  BY DEF TypeOK
<1>1. ASSUME NEW c \in Callers, Succeed(c) PROVE FALSE
  <2>1. "over_temperature" \in Recovered(device).faults <=> Latched
    BY <1>0, RecoveredRecord DEF Latched
  <2>2. Recovered(device) \in FPGAState
    BY <1>0, RecoveredRecord
  <2>3. calls[c].op \in {"pl", "ps", "reset"} /\ calls[c].image \in Images \cup {NoImage}
    BY <1>1 DEF Succeed, TypeOK, Call, NoCall
  <2>4. device'.faults = Recovered(device).faults
    <3>1. CASE calls[c].op = "pl"
      <4>1. device' = [Recovered(device) EXCEPT !.image = calls[c].image]
        BY <1>1, <3>1 DEF Succeed
      <4>. QED  BY <4>1, <2>2, <2>3, SetImage
    <3>2. CASE calls[c].op = "ps"
      BY <1>1, <3>2 DEF Succeed
    <3>3. CASE calls[c].op = "reset"
      <4>1. device' = [Recovered(device) EXCEPT !.image = NoImage]
        BY <1>1, <3>3 DEF Succeed
      <4>. QED  BY <4>1, <2>2, SetImage
    <3>. QED  BY <2>3, <3>1, <3>2, <3>3
  <2>. QED  BY <2>1, <2>4 DEF Latched
<1>2. ASSUME NEW c \in Callers, Fail(c) PROVE FALSE
  <2>1. device'.faults = device.faults \cup {"programming_failed"}
    BY <1>0, <1>2, RecordOperators DEF Fail, FaultType
  <2>. QED  BY <2>1 DEF Latched
<1>3. ASSUME ReadingFails PROVE FALSE
  BY <1>0, <1>3, LostRecord DEF ReadingFails, Latched
<1>4. ASSUME NEW t \in Temperature, ReadingSucceeds(t) PROVE FALSE
  <2>. DEFINE d == [ClearFault(device, "communication_lost") EXCEPT !.temperature = t]
  <2>1. /\ ClearFault(device, "communication_lost") \in FPGAState
        /\ ClearFault(device, "communication_lost").faults = device.faults \ {"communication_lost"}
    BY <1>0, RecordOperators DEF FaultType
  <2>2. d \in FPGAState /\ d.faults = device.faults \ {"communication_lost"}
    BY <2>1 DEF FPGAState
  <2>3. ClearFault(d, "over_temperature").faults = d.faults \ {"over_temperature"}
    BY <2>2, RecordOperators DEF FaultType
  <2>4. device' = d \/ device' = ClearFault(d, "over_temperature")
    BY <1>4 DEF ReadingSucceeds
  <2>. QED  BY <2>2, <2>3, <2>4 DEF Latched
<1>5. ASSUME Discover PROVE FALSE
  <2>1. CASE DiscoveryFinds
    BY <1>0, <2>1, RecordOperators DEF DiscoveryFinds, FaultType, Latched
  <2>2. CASE DiscoveryMisses
    BY <1>0, <2>2, LostRecord DEF DiscoveryMisses, Latched
  <2>. QED  BY <1>5, <2>1, <2>2 DEF Discover
<1>6. ASSUME Operator PROVE FALSE
  <2>1. ASSUME NEW f \in FaultType, ClearDeviceFault(f) PROVE FALSE
    BY <1>0, <2>1, RecordOperators DEF ClearDeviceFault, Latched
  <2>2. ASSUME NEW m \in FPGAMode, SetMode(m) PROVE FALSE
    BY <1>0, <2>2 DEF SetMode, Latched, FPGAState
  <2>. QED  BY <1>6, <2>1, <2>2 DEF Operator
<1>7. device' # device
  BY DEF Latched
<1>. QED  BY <1>1, <1>2, <1>3, <1>4, <1>5, <1>6, <1>7
          DEF Next, Serve, Read, Cut, Request, Enter, ToolDone, ToolFailed, StartReading,
              SafetyEnters, SafetyTool, Subscribe, Deliver, Unsubscribe, vars

\* A request takes a tool to the board only through Request or Enter.
LEMMA ProgrammingStarts ==
    ASSUME TypeOK, [Next]_vars, NEW c \in Callers, Programming(c)', ~Programming(c)
    PROVE  device' = device /\ ~Latched
<1>0. calls \in [Callers -> Call]
  BY DEF TypeOK
<1>1. ASSUME NEW b \in Callers, NEW op \in {"pl", "ps", "reset"},
             NEW i \in Images \cup {NoImage}, NEW m \in FPGAMode, Request(b, op, i, m)
      PROVE  device' = device /\ ~Latched
  BY <1>1 DEF Request, CanProgram, Latched
<1>2. ASSUME NEW b \in Callers, Enter(b) PROVE device' = device /\ ~Latched
  <2>1. device' = device
    BY <1>2 DEF Enter
  <2>2. CASE b # c
    <3>1. calls'[c] = calls[c]
      BY <1>0, <1>2, <2>2 DEF Enter
    <3>. QED  BY <3>1 DEF Programming, Working
  <2>3. CASE b = c
    <3>1. CASE calls' = [calls EXCEPT ![c] = NoCall]
      BY <1>0, <3>1 DEF Programming, Working, NoCall
    <3>2. CASE calls' = [calls EXCEPT ![c].stage = "tool"] /\ calls[c].op = "reset"
      BY <1>0, <3>2 DEF Programming, Working, Call, NoCall
    <3>3. CASE CanProgram(device, calls[c].mode)
      BY <2>1, <3>3 DEF CanProgram, Latched
    <3>. QED  BY <1>2, <2>3, <3>1, <3>2, <3>3 DEF Enter
  <2>. QED  BY <2>2, <2>3
<1>3. ASSUME NEW b \in Callers, ToolDone(b) \/ ToolFailed(b) PROVE FALSE
  <2>1. /\ calls[b].stage = "tool"
        /\ \E st \in {"done", "failed"} : calls' = [calls EXCEPT ![b].stage = st]
    BY <1>3 DEF ToolDone, ToolFailed
  <2>2. CASE b # c
    <3>1. calls'[c] = calls[c]
      BY <1>0, <2>1, <2>2
    <3>. QED  BY <3>1 DEF Programming, Working
  <2>3. CASE b = c
    <3>1. calls'[c].op = calls[c].op
      BY <1>0, <2>1, <2>3 DEF Call, NoCall
    <3>. QED  BY <2>1, <2>3, <3>1 DEF Programming, Working
  <2>. QED  BY <2>2, <2>3
<1>4. ASSUME NEW b \in Callers, Succeed(b) \/ Fail(b) PROVE FALSE
  <2>1. calls' = [calls EXCEPT ![b] = NoCall]
    BY <1>4 DEF Succeed, Fail
  <2>. QED  BY <1>0, <2>1 DEF Programming, Working, NoCall
<1>5. calls' # calls
  BY DEF Programming, Working
<1>. QED  BY <1>1, <1>2, <1>3, <1>4, <1>5
          DEF Next, Serve, Read, Cut, StartReading, ReadingFails, ReadingSucceeds,
              SafetyEnters, SafetyTool, SafetyLatches, Discover, DiscoveryFinds,
              DiscoveryMisses, Operator, ClearDeviceFault, SetMode, Subscribe, Deliver,
              Unsubscribe, vars

\* The fault is latched by the holder of the lock: no request has a tool then.
LEMMA LatchesAlone ==
    ASSUME OneToolAtATime, SafetyLatches
    PROVE  \A c \in Callers : ~Working(c)'
<1>1. SafetyWorking
  BY DEF SafetyLatches, SafetyWorking
<1>2. \A c \in Callers : ~Working(c)
  BY <1>1, CallersAssumption DEF OneToolAtATime
<1>. QED  BY <1>2 DEF SafetyLatches, Working

\* Every action keeps the lock-out.
LEMMA HotStep == TypeOK /\ OneToolAtATime /\ HotBoardIsLocked /\ [Next]_vars => HotBoardIsLocked'
<1>. SUFFICES ASSUME TypeOK, OneToolAtATime, HotBoardIsLocked, [Next]_vars,
                     Latched', NEW c \in Callers, Programming(c)'
              PROVE  FALSE
  BY DEF HotBoardIsLocked, Latched
<1>1. CASE Latched
  <2>1. ~Programming(c)
    BY <1>1 DEF HotBoardIsLocked, Latched
  <2>. QED  BY <1>1, <2>1, ProgrammingStarts
<1>2. CASE ~Latched
  <2>1. SafetyLatches
    BY <1>2, LatchOnlyBySafety
  <2>2. ~Working(c)'
    BY <2>1, LatchesAlone
  <2>. QED  BY <2>2 DEF Programming
<1>. QED  BY <1>1, <1>2

-----------------------------------------------------------------------------
(* The theorems *)

AgentInv == TypeOK /\ OneToolAtATime /\ HotBoardIsLocked

\* The invariant of the agent: its types, the device lock as a queue of those
\* who want it, and the thermal lock-out; it is inductive, and the other
\* theorems rest on it.
THEOREM AgentInvariant == Spec => []AgentInv
<1>1. Init => AgentInv
  <2>1. Init => HotBoardIsLocked
    <3>1. Init => device.faults = {}
      BY DEF Init
    <3>. QED  BY <3>1 DEF HotBoardIsLocked
  <2>. QED  BY <2>1, TypeInit, LockInit DEF AgentInv
<1>2. AgentInv /\ [Next]_vars => AgentInv'
  BY TypeStep, LockStep, HotStep DEF AgentInv
<1>. QED  BY <1>1, <1>2, PTL DEF Spec

\* The state of the agent keeps its shape, and an open stream has always
\* delivered a state.
THEOREM TypeCorrect == Spec => []TypeOK
<1>1. AgentInv => TypeOK
  BY DEF AgentInv
<1>. QED  BY <1>1, AgentInvariant, PTL

\* The device lock serialises every tool that touches the board, whatever the
\* number of requests.
THEOREM Serialised == Spec => []OneToolAtATime
<1>1. AgentInv => OneToolAtATime
  BY DEF AgentInv
<1>. QED  BY <1>1, AgentInvariant, PTL

\* While the over-temperature fault is latched no request programs the board
\* (program_pl, program_ps and _evaluate_safety together).
THEOREM ThermalLockout == Spec => []HotBoardIsLocked
<1>1. AgentInv => HotBoardIsLocked
  BY DEF AgentInv
<1>. QED  BY <1>1, AgentInvariant, PTL

\* A lock-out ends with the board measured below the recovery limit.
THEOREM Recovery == Spec => LockoutEndsCool
<1>1. TypeOK /\ [Next]_vars =>
        [/\ "over_temperature" \in device.faults
         /\ "over_temperature" \notin device'.faults
         => device'.temperature = "cool"]_vars
  <2>. SUFFICES ASSUME TypeOK, Next, Latched, ~Latched'
                PROVE  device'.temperature = "cool"
    BY DEF Latched
  <2>0. device \in FPGAState
    BY DEF TypeOK
  <2>1. ASSUME NEW c \in Callers, Succeed(c) PROVE FALSE
    <3>1. "over_temperature" \in Recovered(device).faults /\ Recovered(device) \in FPGAState
      BY <2>0, RecoveredRecord DEF Latched
    <3>2. calls[c].op \in {"pl", "ps", "reset"} /\ calls[c].image \in Images \cup {NoImage}
      BY <2>1 DEF Succeed, TypeOK, Call, NoCall
    <3>3. \/ device' = Recovered(device)
          \/ \E i \in Images \cup {NoImage} : device' = [Recovered(device) EXCEPT !.image = i]
      BY <2>1, <3>2 DEF Succeed
    <3>4. device'.faults = Recovered(device).faults
      <4>1. CASE device' = Recovered(device)
        BY <4>1
      <4>2. CASE device' # Recovered(device)
        <5>1. PICK i \in Images \cup {NoImage} : device' = [Recovered(device) EXCEPT !.image = i]
          BY <3>3, <4>2
        <5>. QED  BY <3>1, <5>1, SetImage
      <4>. QED  BY <4>1, <4>2
    <3>. QED  BY <3>1, <3>4 DEF Latched
  <2>2. ASSUME NEW c \in Callers, Fail(c) PROVE FALSE
    <3>1. device'.faults = device.faults \cup {"programming_failed"}
      BY <2>0, <2>2, RecordOperators DEF Fail, FaultType
    <3>. QED  BY <3>1 DEF Latched
  <2>3. ASSUME ReadingFails PROVE FALSE
    BY <2>0, <2>3, LostRecord DEF ReadingFails, Latched
  <2>4. ASSUME NEW t \in Temperature, ReadingSucceeds(t) PROVE device'.temperature = "cool"
    <3>. DEFINE d == [ClearFault(device, "communication_lost") EXCEPT !.temperature = t]
    <3>1. /\ ClearFault(device, "communication_lost") \in FPGAState
          /\ ClearFault(device, "communication_lost").faults
                = device.faults \ {"communication_lost"}
      BY <2>0, RecordOperators DEF FaultType
    <3>2. /\ d \in FPGAState /\ d.temperature = t
          /\ "over_temperature" \in d.faults
      BY <3>1 DEF FPGAState, Latched
    <3>3. ClearFault(d, "over_temperature").temperature = t
      BY <3>2, RecordOperators DEF FaultType
    <3>4. device' = IF t = "cool" THEN ClearFault(d, "over_temperature") ELSE d
      BY <2>4, <3>2 DEF ReadingSucceeds
    <3>. QED  BY <3>2, <3>3, <3>4 DEF Latched
  <2>5. ASSUME SafetyLatches PROVE FALSE
    <3>. DEFINE d == AddFault(device, "over_temperature")
    <3>1. d \in FPGAState /\ "over_temperature" \in d.faults
      BY <2>0, RecordOperators DEF FaultType
    <3>2. device' = d \/ device' = [d EXCEPT !.image = NoImage]
      BY <2>5 DEF SafetyLatches
    <3>3. [d EXCEPT !.image = NoImage].faults = d.faults
      BY <3>1, SetImage
    <3>. QED  BY <3>1, <3>2, <3>3 DEF Latched
  <2>6. ASSUME Discover PROVE FALSE
    <3>1. CASE DiscoveryFinds
      BY <2>0, <3>1, RecordOperators DEF DiscoveryFinds, FaultType, Latched
    <3>2. CASE DiscoveryMisses
      BY <2>0, <3>2, LostRecord DEF DiscoveryMisses, Latched
    <3>. QED  BY <2>6, <3>1, <3>2 DEF Discover
  <2>7. ASSUME NEW f \in FaultType, ClearDeviceFault(f) PROVE device'.temperature = "cool"
    <3>1. /\ device'.faults = device.faults \ {f}
          /\ device'.temperature = device.temperature
      BY <2>0, <2>7, RecordOperators DEF ClearDeviceFault
    <3>. QED  BY <2>7, <3>1 DEF ClearDeviceFault, Latched
  <2>8. ASSUME NEW m \in FPGAMode, SetMode(m) PROVE FALSE
    BY <2>0, <2>8 DEF SetMode, Latched, FPGAState
  <2>9. device' # device
    BY DEF Latched
  <2>. QED  BY <2>1, <2>2, <2>3, <2>4, <2>5, <2>6, <2>7, <2>8, <2>9
            DEF Next, Serve, Read, Cut, Operator, Request, Enter, ToolDone, ToolFailed,
                StartReading, SafetyEnters, SafetyTool, Subscribe, Deliver, Unsubscribe
<1>. QED  BY <1>1, TypeCorrect, PTL DEF Spec, LockoutEndsCool

-----------------------------------------------------------------------------
(* The hardware under the lock-out *)

\* The safety reset has cleared the fabric before the fault is latched.
BlankInv ==
    /\ HotBoardIsBlank
    /\ telemetry.point = "done" => fabric = NoImage
    /\ telemetry.point # "failed"

\* Only tools touch the hardware.
LEMMA FabricChanges ==
    ASSUME [Next]_vars, fabric' # fabric
    PROVE  SafetyTool \/ \E c \in Callers : ToolDone(c) \/ ToolFailed(c)
  BY DEF Next, Serve, Read, Cut, Operator, Discover, Request, Enter, Succeed, Fail,
         StartReading, ReadingFails, ReadingSucceeds, SafetyEnters, SafetyLatches,
         DiscoveryFinds, DiscoveryMisses, ClearDeviceFault, SetMode, Subscribe, Deliver,
         Unsubscribe, vars

\* Only the tool itself takes the safety reset past its tool.
LEMMA TelemetryMoves ==
    ASSUME TypeOK, [Next]_vars, telemetry' # telemetry
    PROVE  SafetyTool \/ telemetry'.point \in {"sleep", "reading", "lock", "tool"}
<1>1. ASSUME StartReading \/ ReadingFails \/ SafetyEnters \/ SafetyLatches
      PROVE  telemetry'.point \in {"sleep", "reading", "lock", "tool"}
  BY <1>1 DEF StartReading, ReadingFails, SafetyEnters, SafetyLatches, Asleep, TypeOK
<1>2. ASSUME NEW t \in Temperature, ReadingSucceeds(t)
      PROVE  telemetry'.point \in {"sleep", "reading", "lock", "tool"}
  <2>1. \/ telemetry' = Asleep
        \/ telemetry' = [telemetry EXCEPT !.point = IF lock = << >> THEN "tool" ELSE "lock"]
    BY <1>2 DEF ReadingSucceeds
  <2>. QED  BY <2>1 DEF Asleep, TypeOK
<1>. QED  BY <1>1, <1>2
          DEF Next, Serve, Read, Cut, Operator, Discover, Request, Enter, ToolDone, ToolFailed,
              Succeed, Fail, DiscoveryFinds, DiscoveryMisses, ClearDeviceFault, SetMode,
              Subscribe, Deliver, Unsubscribe, vars

\* As long as no reset fails, an overheated board runs nothing from the moment
\* the fault is latched until it is cleared.
THEOREM HotBoardBlank ==
    ASSUME "reset" \notin Failing PROVE Spec => []HotBoardIsBlank
<1>1. Init => BlankInv
  <2>1. Init => fabric = NoImage /\ telemetry.point = "sleep"
    BY DEF Init, Asleep
  <2>. QED  BY <2>1 DEF BlankInv, HotBoardIsBlank
<1>2. AgentInv /\ BlankInv /\ [Next]_vars => BlankInv'
  <2>. SUFFICES ASSUME AgentInv, BlankInv, [Next]_vars PROVE BlankInv'
    OBVIOUS
  <2>0. TypeOK /\ OneToolAtATime /\ HotBoardIsLocked
    BY DEF AgentInv
  <2>1. SafetyTool => telemetry'.point = "done" /\ fabric' = NoImage
    BY <2>0 DEF SafetyTool, TypeOK
  <2>2. telemetry'.point # "failed"
    BY <2>0, <2>1, TelemetryMoves DEF BlankInv
  <2>3. ASSUME fabric = NoImage, SafetyWorking \/ Latched PROVE fabric' = NoImage
    <3>1. SUFFICES ASSUME fabric' # fabric PROVE fabric' = NoImage
      BY <2>3
    <3>2. CASE SafetyTool
      BY <2>1, <3>2
    <3>3. ASSUME NEW c \in Callers, ToolFailed(c) PROVE fabric' = NoImage
      BY <2>3, <3>3 DEF ToolFailed
    <3>4. ASSUME NEW c \in Callers, ToolDone(c) PROVE fabric' = NoImage
      <4>1. Working(c) /\ calls[c].op \in {"pl", "ps", "reset"}
        BY <2>0, <3>4 DEF ToolDone, Working, TypeOK, Call, NoCall
      <4>2. ~SafetyWorking
        BY <2>0, <4>1, CallersAssumption DEF OneToolAtATime
      <4>3. calls[c].op = "reset"
        BY <2>0, <2>3, <4>1, <4>2 DEF HotBoardIsLocked, Programming, Latched
      <4>. QED  BY <3>4, <4>3 DEF ToolDone
    <3>. QED  BY <3>1, <3>2, <3>3, <3>4, FabricChanges
  <2>4. telemetry'.point = "done" => fabric' = NoImage
    <3>1. CASE telemetry' = telemetry
      BY <2>3, <3>1 DEF BlankInv, SafetyWorking
    <3>2. CASE telemetry' # telemetry
      BY <2>0, <2>1, <3>2, TelemetryMoves
    <3>. QED  BY <3>1, <3>2
  <2>5. HotBoardIsBlank'
    <3>. SUFFICES ASSUME Latched' PROVE fabric' = NoImage
      BY DEF HotBoardIsBlank, Latched
    <3>1. CASE Latched
      BY <2>3, <3>1 DEF BlankInv, HotBoardIsBlank, Latched
    <3>2. CASE ~Latched
      <4>1. SafetyLatches
        BY <2>0, <3>2, LatchOnlyBySafety
      <4>. QED  BY <4>1 DEF SafetyLatches, BlankInv
    <3>. QED  BY <3>1, <3>2
  <2>. QED  BY <2>2, <2>4, <2>5 DEF BlankInv
<1>3. BlankInv => HotBoardIsBlank
  BY DEF BlankInv
<1>. QED  BY <1>1, <1>2, <1>3, AgentInvariant, PTL DEF Spec

-----------------------------------------------------------------------------
(* The record and the hardware *)

\* A tool has changed the fabric and its result is not in the record yet.
Changed(c) == calls[c].stage = "done" /\ calls[c].op \in {"pl", "reset"}
InTransit == telemetry.point = "done" \/ \E c \in Callers : Changed(c)

HonestInv ==
    /\ \A c \in Callers : calls[c].stage # "failed"
    /\ telemetry.point # "failed"
    /\ ~InTransit /\ device.image # NoImage => fabric = device.image
    /\ telemetry.point = "done" => fabric = NoImage
    /\ \A c \in Callers : Changed(c) =>
          fabric = IF calls[c].op = "pl" THEN calls[c].image ELSE NoImage

\* A step that leaves the hardware alone and finishes no tool.
LEMMA HonestUnchanged ==
    ASSUME TypeOK, HonestInv, fabric' = fabric,
           device'.image \in {device.image, NoImage},
           telemetry'.point = "done" <=> telemetry.point = "done",
           telemetry'.point # "failed",
           \A c \in Callers : \/ calls'[c] = calls[c]
                              \/ calls[c].stage \in {"idle", "lock"}
                                 /\ calls'[c].stage \in {"idle", "lock", "tool"}
    PROVE  HonestInv'
<1>1. \A c \in Callers : Changed(c)' <=> Changed(c)
  BY DEF Changed
<1>2. InTransit' <=> InTransit
  BY <1>1 DEF InTransit
<1>3. \A c \in Callers : Changed(c) => calls'[c] = calls[c]
  BY DEF Changed
<1>4. \A c \in Callers : calls'[c].stage # "failed"
  BY DEF HonestInv
<1>. QED  BY <1>1, <1>2, <1>3, <1>4 DEF HonestInv

\* Every action keeps the record true to the hardware, if no tool fails.
LEMMA HonestStep ==
    ASSUME Failing \subseteq {"telemetry", "absent"}, AgentInv, HonestInv, [Next]_vars
    PROVE  HonestInv'
<1>0. /\ TypeOK /\ OneToolAtATime
      /\ calls \in [Callers -> Call]
      /\ device \in FPGAState
  BY DEF AgentInv, TypeOK
<1>a. \A c, d \in Callers : Working(c) /\ Working(d) => c = d
  BY <1>0 DEF OneToolAtATime
<1>b. \A c \in Callers : Working(c) => ~SafetyWorking
  BY <1>0, CallersAssumption DEF OneToolAtATime
<1>c. \A c \in Callers : Changed(c) => Working(c)
  BY DEF Changed, Working
<1>1. ASSUME NEW c \in Callers, NEW op \in {"pl", "ps", "reset"},
             NEW i \in Images \cup {NoImage}, NEW m \in FPGAMode, Request(c, op, i, m)
      PROVE  HonestInv'
  <2>1. /\ calls'[c].stage \in {"tool", "lock"}
        /\ \A d \in Callers : d # c => calls'[d] = calls[d]
    BY <1>0, <1>1 DEF Request
  <2>. QED  BY <1>0, <1>1, <2>1, HonestUnchanged DEF Request, HonestInv
<1>2. ASSUME NEW c \in Callers, Enter(c) PROVE HonestInv'
  <2>1. /\ calls'[c].stage \in {"tool", "idle"}
        /\ \A d \in Callers : d # c => calls'[d] = calls[d]
    <3>1. CASE calls' = [calls EXCEPT ![c] = NoCall]
      BY <1>0, <3>1 DEF NoCall
    <3>2. CASE calls' = [calls EXCEPT ![c].stage = "tool"]
      BY <1>0, <3>2 DEF Call, NoCall
    <3>. QED  BY <1>2, <3>1, <3>2 DEF Enter
  <2>. QED  BY <1>0, <1>2, <2>1, HonestUnchanged DEF Enter, HonestInv
<1>3. ASSUME NEW c \in Callers, ToolDone(c) PROVE HonestInv'
  <2>1. /\ Working(c) /\ ~Changed(c)
        /\ calls[c].op \in {"pl", "ps", "reset"}
        /\ calls'[c].stage = "done"
        /\ calls'[c].op = calls[c].op /\ calls'[c].image = calls[c].image
        /\ \A d \in Callers : d # c => calls'[d] = calls[d]
        /\ telemetry' = telemetry /\ device' = device
    BY <1>0, <1>3 DEF ToolDone, Working, Changed, Call, NoCall
  <2>2. /\ telemetry'.point \notin {"done", "failed"}
        /\ \A d \in Callers : ~Changed(d)
        /\ \A d \in Callers : d # c => ~Changed(d)'
    BY <1>a, <1>b, <1>c, <2>1 DEF SafetyWorking, Changed
  <2>3. \A d \in Callers : calls'[d].stage # "failed"
    BY <2>1 DEF HonestInv
  <2>4. CASE calls[c].op = "ps"
    <3>1. fabric' = fabric /\ ~Changed(c)' /\ ~InTransit
      BY <1>3, <2>1, <2>2, <2>4 DEF ToolDone, Changed, InTransit
    <3>. QED  BY <2>1, <2>2, <2>3, <3>1 DEF HonestInv
  <2>5. CASE calls[c].op \in {"pl", "reset"}
    <3>1. /\ fabric' = IF calls'[c].op = "pl" THEN calls'[c].image ELSE NoImage
          /\ InTransit'
      BY <1>3, <2>1, <2>5 DEF ToolDone, InTransit, Changed
    <3>. QED  BY <2>2, <2>3, <3>1 DEF HonestInv
  <2>. QED  BY <2>1, <2>4, <2>5
<1>4. ASSUME NEW c \in Callers, ToolFailed(c) PROVE FALSE
  <2>1. calls[c].op \in {"pl", "ps", "reset"}
    BY <1>0, <1>4 DEF ToolFailed, Call, NoCall
  <2>. QED  BY <1>4, <2>1 DEF ToolFailed
<1>5. ASSUME NEW c \in Callers, Succeed(c) PROVE HonestInv'
  <2>1. /\ Working(c)
        /\ calls[c].op \in {"pl", "ps", "reset"}
        /\ calls[c].image \in Images \cup {NoImage}
        /\ calls'[c] = NoCall
        /\ \A d \in Callers : d # c => calls'[d] = calls[d]
        /\ fabric' = fabric /\ telemetry' = telemetry
    BY <1>0, <1>5 DEF Succeed, Working, Call, NoCall
  <2>2. /\ telemetry'.point \notin {"done", "failed"}
        /\ \A d \in Callers : ~Changed(d)'
        /\ \A d \in Callers : calls'[d].stage # "failed"
    BY <1>a, <1>b, <1>c, <2>1 DEF SafetyWorking, Changed, Working, NoCall
  <2>3. Recovered(device) \in FPGAState /\ Recovered(device).image = device.image
    BY <1>0, RecoveredRecord
  <2>4. device'.image # NoImage => fabric = device'.image
    <3>1. CASE calls[c].op = "pl"
      <4>1. device'.image = calls[c].image
        BY <1>5, <2>1, <2>3, <3>1, SetImage DEF Succeed
      <4>2. Changed(c)
        BY <1>5, <3>1 DEF Succeed, Changed
      <4>. QED  BY <3>1, <4>1, <4>2 DEF HonestInv
    <3>2. CASE calls[c].op = "ps"
      <4>1. ~InTransit
        BY <1>a, <1>b, <1>c, <2>1, <3>2 DEF InTransit, SafetyWorking, Changed
      <4>. QED  BY <1>5, <2>3, <3>2, <4>1 DEF Succeed, HonestInv
    <3>3. CASE calls[c].op = "reset"
      <4>1. device' = [Recovered(device) EXCEPT !.image = NoImage]
        BY <1>5, <3>3 DEF Succeed
      <4>. QED  BY <2>3, <4>1, SetImage
    <3>. QED  BY <2>1, <3>1, <3>2, <3>3
  <2>. QED  BY <2>1, <2>2, <2>4 DEF HonestInv
<1>6. ASSUME NEW c \in Callers, Fail(c) PROVE FALSE
  BY <1>6 DEF Fail, HonestInv
<1>7. ASSUME SafetyTool PROVE HonestInv'
  <2>1. /\ telemetry'.point = "done" /\ fabric' = NoImage /\ SafetyWorking
        /\ calls' = calls
    BY <1>0, <1>7 DEF SafetyTool, SafetyWorking, TypeOK
  <2>2. \A d \in Callers : ~Changed(d)'
    BY <1>b, <1>c, <2>1 DEF Changed
  <2>. QED  BY <2>1, <2>2 DEF HonestInv, InTransit
<1>8. ASSUME SafetyLatches PROVE HonestInv'
  <2>1. /\ telemetry.point = "done" /\ telemetry'.point = "sleep"
        /\ device' = [AddFault(device, "over_temperature") EXCEPT !.image = NoImage]
        /\ calls' = calls /\ SafetyWorking
    BY <1>8 DEF SafetyLatches, HonestInv, Asleep, SafetyWorking
  <2>2. device'.image = NoImage
    BY <1>0, <2>1, RecordOperators, SetImage DEF FaultType
  <2>3. \A d \in Callers : ~Changed(d)'
    BY <1>b, <1>c, <2>1 DEF Changed
  <2>. QED  BY <2>1, <2>2, <2>3 DEF HonestInv
<1>9. ASSUME fabric' = fabric, calls' = calls, device'.image \in {device.image, NoImage},
             telemetry.point \in {"sleep", "reading", "lock"} \/ telemetry' = telemetry,
             telemetry'.point \in {"sleep", "reading", "lock", "tool"} \/ telemetry' = telemetry
      PROVE  HonestInv'
  BY <1>0, <1>9, HonestUnchanged DEF HonestInv
<1>10. ASSUME ReadingFails PROVE HonestInv'
  <2>1. device'.image \in {device.image, NoImage}
    BY <1>0, <1>10, LostRecord DEF ReadingFails
  <2>. QED  BY <1>9, <1>10, <2>1 DEF ReadingFails, Asleep
<1>11. ASSUME NEW t \in Temperature, ReadingSucceeds(t) PROVE HonestInv'
  <2>. DEFINE d == [ClearFault(device, "communication_lost") EXCEPT !.temperature = t]
  <2>1. /\ ClearFault(device, "communication_lost") \in FPGAState
        /\ ClearFault(device, "communication_lost").image = device.image
    BY <1>0, RecordOperators DEF FaultType
  <2>2. d \in FPGAState /\ d.image = device.image
    BY <2>1 DEF FPGAState
  <2>3. ClearFault(d, "over_temperature").image = d.image
    BY <2>2, RecordOperators DEF FaultType
  <2>4. device' = d \/ device' = ClearFault(d, "over_temperature")
    BY <1>11 DEF ReadingSucceeds
  <2>5. telemetry.point = "reading" /\ telemetry'.point \in {"sleep", "lock", "tool"}
    BY <1>0, <1>11 DEF ReadingSucceeds, Asleep, TypeOK
  <2>6. fabric' = fabric /\ calls' = calls
    BY <1>11 DEF ReadingSucceeds
  <2>. QED  BY <1>9, <2>2, <2>3, <2>4, <2>5, <2>6
<1>12. ASSUME StartReading \/ SafetyEnters PROVE HonestInv'
  BY <1>0, <1>9, <1>12 DEF StartReading, SafetyEnters, TypeOK
<1>13. ASSUME Discover PROVE HonestInv'
  <2>1. device'.image \in {device.image, NoImage}
    <3>1. CASE DiscoveryFinds
      BY <1>0, <3>1, RecordOperators DEF DiscoveryFinds, FaultType
    <3>2. CASE DiscoveryMisses
      BY <1>0, <3>2, LostRecord DEF DiscoveryMisses
    <3>. QED  BY <1>13, <3>1, <3>2 DEF Discover
  <2>. QED  BY <1>9, <1>13, <2>1 DEF Discover, DiscoveryFinds, DiscoveryMisses
<1>14. ASSUME Operator PROVE HonestInv'
  <2>1. device'.image = device.image
    BY <1>0, <1>14, RecordOperators DEF Operator, ClearDeviceFault, SetMode, FPGAState
  <2>. QED  BY <1>9, <1>14, <2>1 DEF Operator, ClearDeviceFault, SetMode
<1>15. ASSUME NEW s \in Subscribers, Subscribe(s) \/ Deliver(s) \/ Unsubscribe(s)
       PROVE  HonestInv'
  BY <1>9, <1>15 DEF Subscribe, Deliver, Unsubscribe
<1>16. ASSUME UNCHANGED vars PROVE HonestInv'
  BY <1>9, <1>16 DEF vars
<1>. QED  BY <1>1, <1>2, <1>3, <1>4, <1>5, <1>6, <1>7, <1>8, <1>10, <1>11, <1>12,
             <1>13, <1>14, <1>15, <1>16 DEF Next, Serve, Read, Cut

\* As long as no tool fails, a board recorded as running a bitstream runs it,
\* whatever the losses of communication.
THEOREM HonestRecord ==
    ASSUME Failing \subseteq {"telemetry", "absent"} PROVE Spec => []RecordIsHonest
<1>1. Init => HonestInv
  <2>1. Init => /\ device.image = NoImage /\ telemetry.point = "sleep"
                /\ \A c \in Callers : calls[c].stage = "idle"
    BY DEF Init, Asleep, NoCall
  <2>. QED  BY <2>1 DEF HonestInv, Changed
<1>2. AgentInv /\ HonestInv /\ [Next]_vars => HonestInv'
  BY HonestStep
<1>3. AgentInv /\ HonestInv => RecordIsHonest
  <2>. SUFFICES ASSUME AgentInv, HonestInv, lock = << >> PROVE ~InTransit
    BY DEF RecordIsHonest, HonestInv
  <2>1. Owners = {}
    BY QueueEmpty DEF AgentInv, OneToolAtATime, TypeOK
  <2>. QED  BY <2>1 DEF InTransit, Owners, Changed
<1>. QED  BY <1>1, <1>2, <1>3, AgentInvariant, PTL DEF Spec

-----------------------------------------------------------------------------
(* The subscribers *)

\* Whoever publishes brings every open stream up to date.
LEMMA PublishedIsCurrent ==
    ASSUME TypeOK, Publish(device') PROVE StreamIsCurrent'
<1>. SUFFICES ASSUME NEW s \in Subscribers, streams'[s].open
              PROVE  streams'[s].slot = ViewOf(device') /\ streams'[s].slot # NoView
  BY DEF StreamIsCurrent, ViewOf
<1>1. streams' = [r \in Subscribers |->
                    IF streams[r].open THEN [streams[r] EXCEPT !.slot = ViewOf(device')]
                    ELSE streams[r]]
  BY DEF Publish
<1>2. /\ streams[s].open
      /\ streams[s] \in [open : {TRUE}, seen : View, slot : View \cup {NoView}]
  <2>1. streams'[s] = IF streams[s].open THEN [streams[s] EXCEPT !.slot = ViewOf(device')]
                      ELSE streams[s]
    BY <1>1
  <2>2. streams[s].open
    BY <2>1
  <2>3. streams[s] \in {Closed} \cup [open : {TRUE}, seen : View, slot : View \cup {NoView}]
    BY DEF TypeOK
  <2>4. ~Closed.open
    BY DEF Closed
  <2>. QED  BY <2>2, <2>3, <2>4
<1>3. streams'[s].slot = ViewOf(device')
  BY <1>1, <1>2
<1>4. ViewOf(device').status # NoView.status
  BY DEF ViewOf, Status, NoView
<1>. QED  BY <1>3, <1>4

\* What changes neither the view nor the streams keeps them up to date.
LEMMA CurrentStays ==
    ASSUME StreamIsCurrent, streams' = streams, ViewOf(device') = ViewOf(device),
           telemetry.point \in {"sleep", "reading"} \/ telemetry' = telemetry
    PROVE  StreamIsCurrent'
  BY DEF StreamIsCurrent

\* Every step keeps the streams up to date: it publishes, or changes nothing a
\* subscriber sees, or leaves for the safety reset.
LEMMA StreamStep ==
    ASSUME TypeOK, StreamIsCurrent, [Next]_vars PROVE StreamIsCurrent'
<1>0. device \in FPGAState
  BY DEF TypeOK
<1>1. ASSUME NEW c \in Callers, Fail(c) PROVE StreamIsCurrent'
  <2>1. /\ device'.faults = device.faults \cup {"programming_failed"}
        /\ device'.image = device.image /\ device'.mode = device.mode
    BY <1>0, <1>1 DEF Fail, AddFault, FPGAState
  <2>2. ViewOf(device') = ViewOf(device)
    BY <2>1 DEF ViewOf, Status
  <2>. QED  BY <1>1, <2>2, CurrentStays DEF Fail
<1>2. ASSUME NEW c \in Callers, Succeed(c) PROVE StreamIsCurrent'
  BY <1>2, PublishedIsCurrent DEF Succeed
<1>3. CASE ReadingFails
  BY <1>3, PublishedIsCurrent, CurrentStays DEF ReadingFails
<1>4. ASSUME NEW t \in Temperature, ReadingSucceeds(t) PROVE StreamIsCurrent'
  <2>1. CASE Publish(device')
    BY <2>1, PublishedIsCurrent
  <2>2. CASE ~Publish(device')
    <3>1. telemetry' = [telemetry EXCEPT !.point = IF lock = << >> THEN "tool" ELSE "lock"]
      BY <1>4, <2>2 DEF ReadingSucceeds
    <3>2. telemetry'.point \in {"tool", "lock"}
      BY <3>1 DEF TypeOK
    <3>. QED  BY <3>2 DEF StreamIsCurrent
  <2>. QED  BY <2>1, <2>2
<1>5. CASE SafetyLatches
  BY <1>5, PublishedIsCurrent DEF SafetyLatches
<1>6. CASE SafetyEnters \/ SafetyTool
  <2>1. telemetry'.point \in {"tool", "done", "failed"}
    BY <1>6 DEF SafetyEnters, SafetyTool, TypeOK
  <2>. QED  BY <2>1 DEF StreamIsCurrent
<1>7. CASE Discover
  BY <1>7, PublishedIsCurrent, CurrentStays DEF Discover, DiscoveryFinds, DiscoveryMisses
<1>8. CASE Operator
  BY <1>8, PublishedIsCurrent DEF Operator, ClearDeviceFault, SetMode
<1>9. ASSUME NEW s \in Subscribers, Subscribe(s) \/ Deliver(s) \/ Unsubscribe(s)
      PROVE  StreamIsCurrent'
  <2>1. /\ streams \in [Subscribers -> {Closed} \cup
                          [open : {TRUE}, seen : View, slot : View \cup {NoView}]]
        /\ device' = device /\ telemetry' = telemetry
    BY <1>9 DEF TypeOK, Subscribe, Deliver, Unsubscribe
  <2>2. \A r \in Subscribers : r # s => streams'[r] = streams[r]
    BY <1>9, <2>1 DEF Subscribe, Deliver, Unsubscribe
  <2>3. CASE Subscribe(s)
    <3>1. streams'[s].seen = ViewOf(device) /\ streams'[s].slot = NoView
      BY <2>1, <2>3 DEF Subscribe
    <3>. QED  BY <2>1, <2>2, <3>1 DEF StreamIsCurrent
  <2>4. CASE Deliver(s)
    <3>1. /\ streams[s].open /\ streams[s].slot # NoView
          /\ streams'[s].seen = streams[s].slot /\ streams'[s].slot = NoView
      BY <2>1, <2>4 DEF Deliver
    <3>. QED  BY <2>1, <2>2, <3>1 DEF StreamIsCurrent
  <2>5. CASE Unsubscribe(s)
    <3>1. ~streams'[s].open
      BY <2>1, <2>5 DEF Unsubscribe, Closed
    <3>. QED  BY <2>1, <2>2, <3>1 DEF StreamIsCurrent
  <2>. QED  BY <1>9, <2>3, <2>4, <2>5
<1>10. CASE streams' = streams /\ device' = device
            /\ (telemetry' = telemetry \/ telemetry.point \in {"sleep", "reading"})
  BY <1>10, CurrentStays
<1>. QED  BY <1>1, <1>2, <1>3, <1>4, <1>5, <1>6, <1>7, <1>8, <1>9, <1>10
          DEF Next, Serve, Read, Cut, Request, Enter, ToolDone, ToolFailed, StartReading, vars

\* A one-slot queue always holds or has delivered the current status and mode,
\* for any number of subscribers, whatever publishes (_publish_state, subscribe).
THEOREM StreamsCurrent == Spec => []StreamIsCurrent
<1>1. Init => StreamIsCurrent
  BY DEF Init, StreamIsCurrent, Closed
<1>2. TypeOK /\ StreamIsCurrent /\ [Next]_vars => StreamIsCurrent'
  BY StreamStep
<1>. QED  BY <1>1, <1>2, TypeCorrect, PTL DEF Spec

-----------------------------------------------------------------------------
(* What the agent promises: the safety reset aside, the lock is the line   *)
(* of a service that takes one request after the other.                    *)

\* A queue of the lock: requests, and once at most the safety reset.
LockQueue(q, owners) == q \in Seq(Callers \cup {Safety}) /\ Queues(q, owners)

Past(q, n) == \E m \in 1..n : q[m] = Safety

\* In line are the requests of the queue.
LEMMA InLineShape ==
    ASSUME NEW q, NEW owners, LockQueue(q, owners)
    PROVE  /\ InLine(q) \in Seq(Callers)
           /\ Len(InLine(q)) = IF Past(q, Len(q)) THEN Len(q) - 1 ELSE Len(q)
           /\ \A n \in 1..Len(InLine(q)) :
                 /\ InLine(q)[n] = q[IF Past(q, n) THEN n + 1 ELSE n]
                 /\ InLine(q)[n] \in owners
                 /\ n # 1 => InLine(q)[n] # q[1]
<1>. DEFINE l == IF Past(q, Len(q)) THEN Len(q) - 1 ELSE Len(q)
<1>1. q \in Seq(Callers \cup {Safety}) /\ Queues(q, owners) /\ Len(q) \in Nat
  BY DEF LockQueue
<1>2. l \in Nat
  BY <1>1 DEF Past
<1>3. InLine(q) = [n \in 1..l |-> q[IF Past(q, n) THEN n + 1 ELSE n]]
  BY DEF InLine, Past
<1>4. ASSUME NEW n \in 1..l, NEW k, k = IF Past(q, n) THEN n + 1 ELSE n
      PROVE  k \in 1..Len(q) /\ q[k] # Safety /\ (n # 1 => k # 1)
  <2>1. CASE Past(q, n)
    <3>1. PICK m \in 1..n : q[m] = Safety
      BY <2>1 DEF Past
    <3>2. m \in 1..Len(q) /\ n + 1 \in 1..Len(q)
      BY <1>1, <1>4, <3>1 DEF Past
    <3>. QED  BY <1>1, <1>4, <2>1, <3>1, <3>2 DEF Queues
  <2>2. CASE ~Past(q, n)
    <3>1. n \in 1..n /\ n \in 1..Len(q)
      BY <1>1
    <3>. QED  BY <1>4, <2>2, <3>1 DEF Past
  <2>. QED  BY <2>1, <2>2
<1>5. ASSUME NEW n \in 1..l
      PROVE  /\ InLine(q)[n] \in Callers
             /\ InLine(q)[n] \in owners
             /\ n # 1 => InLine(q)[n] # q[1]
  <2>. DEFINE k == IF Past(q, n) THEN n + 1 ELSE n
  <2>1. InLine(q)[n] = q[k]
    BY <1>3
  <2>2. k \in 1..Len(q) /\ q[k] # Safety /\ (n # 1 => k # 1)
    BY <1>4
  <2>. HIDE DEF k
  <2>3. q[k] \in Callers /\ q[k] \in owners
    BY <1>1, <2>2 DEF Queues
  <2>4. n # 1 => q[k] # q[1]
    BY <1>1, <2>2 DEF Queues
  <2>. QED  BY <2>1, <2>3, <2>4
<1>. HIDE DEF l
<1>6. InLine(q) \in Seq(Callers) /\ Len(InLine(q)) = l
  BY <1>2, <1>3, <1>5
<1>. QED  BY <1>3, <1>5, <1>6 DEF l

\* A request goes to the end of the line.
LEMMA InLineRequest ==
    ASSUME NEW q, NEW owners, LockQueue(q, owners), NEW c \in Callers, c \notin owners
    PROVE  InLine(Append(q, c)) = Append(InLine(q), c)
<1>. DEFINE r == Append(q, c)
<1>1. /\ q \in Seq(Callers \cup {Safety}) /\ Queues(q, owners) /\ Len(q) \in Nat
      /\ c # Safety
  BY CallersAssumption DEF LockQueue
<1>2. /\ r \in Seq(Callers \cup {Safety})
      /\ Len(r) = Len(q) + 1
      /\ r[Len(q) + 1] = c
      /\ \A n \in 1..Len(q) : r[n] = q[n]
  BY <1>1
<1>3. LockQueue(r, owners \cup {c})
  BY <1>1, Enqueue DEF LockQueue
<1>. HIDE DEF r
<1>4. \A n \in 1..Len(q) : Past(r, n) <=> Past(q, n)
  BY <1>1, <1>2 DEF Past
<1>5. Past(r, Len(r)) <=> Past(q, Len(q))
  BY <1>1, <1>2 DEF Past
<1>6. Len(InLine(r)) = Len(InLine(q)) + 1
  BY <1>1, <1>2, <1>3, <1>5, InLineShape
<1>. DEFINE s == InLine(q)
            t == InLine(r)
<1>7. /\ s \in Seq(Callers) /\ t \in Seq(Callers)
      /\ Len(s) = IF Past(q, Len(q)) THEN Len(q) - 1 ELSE Len(q)
      /\ \A n \in 1..Len(s) : s[n] = q[IF Past(q, n) THEN n + 1 ELSE n]
      /\ \A n \in 1..Len(t) : t[n] = r[IF Past(r, n) THEN n + 1 ELSE n]
  BY <1>3, InLineShape
<1>. HIDE DEF s, t
<1>8. ASSUME NEW n \in 1..Len(s) PROVE t[n] = s[n]
  <2>1. n \in 1..Len(q) /\ n \in 1..Len(t)
    BY <1>1, <1>6, <1>7 DEF s, t
  <2>2. CASE Past(q, n)
    <3>1. n + 1 \in 1..Len(q)
      BY <1>1, <1>7, <2>1, <2>2 DEF Past
    <3>. QED  BY <1>2, <1>4, <1>7, <2>1, <2>2, <3>1
  <2>3. CASE ~Past(q, n)
    BY <1>2, <1>4, <1>7, <2>1, <2>3
  <2>. QED  BY <2>2, <2>3
<1>9. t[Len(s) + 1] = c
  <2>. DEFINE n == Len(s) + 1
  <2>1. n \in 1..Len(t)
    BY <1>6, <1>7 DEF s, t
  <2>2. CASE Past(q, Len(q))
    <3>1. n = Len(q) /\ Len(q) \in 1..Len(q)
      BY <1>1, <1>7, <2>2 DEF Past
    <3>2. Past(r, n)
      BY <1>4, <2>2, <3>1
    <3>. QED  BY <1>2, <1>7, <2>1, <3>1, <3>2
  <2>3. CASE ~Past(q, Len(q))
    <3>1. n = Len(q) + 1 /\ ~Past(r, n)
      BY <1>2, <1>5, <1>7, <2>3
    <3>. QED  BY <1>2, <1>7, <2>1, <3>1
  <2>. QED  BY <2>2, <2>3
<1>10. t = Append(s, c)
  <2>1. Len(t) = Len(s) + 1
    BY <1>6 DEF s, t
  <2>. QED  BY <1>7, <1>8, <1>9, <2>1
<1>. QED  BY <1>10 DEF r, s, t

\* The safety reset is not seen in the line, wherever the lock has it.
LEMMA InLineSafety ==
    ASSUME NEW q, NEW owners, LockQueue(q, owners), Safety \notin owners
    PROVE  InLine(Append(q, Safety)) = InLine(q)
<1>. DEFINE r == Append(q, Safety)
<1>1. q \in Seq(Callers \cup {Safety}) /\ Queues(q, owners) /\ Len(q) \in Nat
  BY DEF LockQueue
<1>2. /\ r \in Seq(Callers \cup {Safety})
      /\ Len(r) = Len(q) + 1
      /\ r[Len(q) + 1] = Safety
      /\ \A n \in 1..Len(q) : r[n] = q[n]
  BY <1>1
<1>. HIDE DEF r
<1>3. \A n \in 1..Len(q) : ~Past(q, n) /\ ~Past(r, n)
  BY <1>1, <1>2 DEF Past, Queues
<1>4. ~Past(q, Len(q)) /\ Past(r, Len(r))
  BY <1>1, <1>2 DEF Past, Queues
<1>5. InLine(q) = [n \in 1..Len(q) |-> q[n]]
  BY <1>1, <1>3, <1>4 DEF InLine, Past
<1>6. InLine(r) = [n \in 1..Len(q) |-> r[n]]
  BY <1>1, <1>2, <1>3, <1>4 DEF InLine, Past
<1>. QED  BY <1>2, <1>5, <1>6 DEF r

\* A request that holds the lock is the first in line.
LEMMA InLineHead ==
    ASSUME NEW q, NEW owners, LockQueue(q, owners), NEW c \in Callers, c \in owners, Head(q) = c
    PROVE  /\ InLine(q) # << >> /\ Len(InLine(q)) >= 1 /\ InLine(q)[1] = c
           /\ InLine(Tail(q)) = Tail(InLine(q))
<1>1. /\ q \in Seq(Callers \cup {Safety}) /\ Queues(q, owners) /\ Len(q) \in Nat
      /\ c # Safety
  BY CallersAssumption DEF LockQueue
<1>2. q # << >>
  BY <1>1, QueueEmpty
<1>3. q[1] = c /\ Len(q) >= 1
  BY <1>1, <1>2
<1>. DEFINE r == Tail(q)
            s == InLine(q)
            t == InLine(r)
<1>4. /\ r \in Seq(Callers \cup {Safety})
      /\ Len(r) = Len(q) - 1
      /\ \A n \in 1..Len(r) : r[n] = q[n + 1]
  BY <1>1, <1>2, HeadTailProperties
<1>5. LockQueue(r, owners \ {c})
  BY <1>1, <1>2, Dequeue DEF LockQueue
<1>. HIDE DEF r
<1>6. ASSUME NEW n \in 0..Len(r) PROVE Past(r, n) <=> Past(q, n + 1)
  <2>1. ASSUME Past(r, n) PROVE Past(q, n + 1)
    <3>1. PICK m \in 1..n : r[m] = Safety
      BY <2>1 DEF Past
    <3>2. m + 1 \in 1..(n + 1) /\ q[m + 1] = Safety
      BY <1>4, <3>1
    <3>. QED  BY <3>2 DEF Past
  <2>2. ASSUME Past(q, n + 1) PROVE Past(r, n)
    <3>1. PICK m \in 1..(n + 1) : q[m] = Safety
      BY <2>2 DEF Past
    <3>2. m # 1
      BY <1>1, <1>3, <3>1
    <3>3. m - 1 \in 1..n /\ r[m - 1] = Safety
      BY <1>1, <1>4, <3>1, <3>2
    <3>. QED  BY <3>3 DEF Past
  <2>. QED  BY <2>1, <2>2
<1>7. /\ s \in Seq(Callers) /\ t \in Seq(Callers)
      /\ Len(s) = IF Past(q, Len(q)) THEN Len(q) - 1 ELSE Len(q)
      /\ Len(t) = IF Past(r, Len(r)) THEN Len(r) - 1 ELSE Len(r)
      /\ \A n \in 1..Len(s) : s[n] = q[IF Past(q, n) THEN n + 1 ELSE n]
      /\ \A n \in 1..Len(t) : t[n] = r[IF Past(r, n) THEN n + 1 ELSE n]
  BY <1>5, InLineShape
<1>. HIDE DEF s, t
<1>8. Past(r, Len(r)) <=> Past(q, Len(q))
  BY <1>1, <1>3, <1>4, <1>6
<1>9. ~Past(q, 1)
  BY <1>1, <1>3 DEF Past
<1>10. Len(s) >= 1 /\ Len(t) = Len(s) - 1
  BY <1>1, <1>3, <1>4, <1>7, <1>8, <1>9
<1>11. s[1] = c
  BY <1>3, <1>7, <1>9, <1>10
<1>12. ASSUME NEW n \in 1..Len(t) PROVE t[n] = s[n + 1]
  <2>1. /\ n \in 0..Len(r) /\ n \in 1..Len(r) /\ n + 1 \in 1..Len(s)
        /\ Past(r, n) => n + 1 \in 1..Len(r)
    <3>1. Past(r, n) => n + 1 \in 1..Len(r)
      <4>1. n \in 1..Len(r) /\ Len(r) \in Nat
        BY <1>1, <1>4, <1>7
      <4>2. Past(r, n) => Past(r, Len(r))
        BY <4>1 DEF Past
      <4>. QED  BY <1>1, <1>4, <1>7, <4>1, <4>2
    <3>. QED  BY <1>1, <1>4, <1>7, <1>10, <3>1
  <2>2. Past(r, n) <=> Past(q, n + 1)
    BY <1>6, <2>1
  <2>. QED  BY <1>4, <1>7, <2>1, <2>2
<1>13. s # << >> /\ t = Tail(s)
  BY <1>7, <1>10, <1>12
<1>. QED  BY <1>10, <1>11, <1>13 DEF r, s, t

\* Nor is it seen when it leaves.
LEMMA InLineSafetyLeaves ==
    ASSUME NEW q, NEW owners, LockQueue(q, owners), Safety \in owners, Head(q) = Safety
    PROVE  InLine(Tail(q)) = InLine(q)
<1>1. q \in Seq(Callers \cup {Safety}) /\ Queues(q, owners) /\ Len(q) \in Nat
  BY DEF LockQueue
<1>2. q # << >>
  BY <1>1, QueueEmpty
<1>3. q[1] = Safety /\ Len(q) >= 1
  BY <1>1, <1>2
<1>. DEFINE r == Tail(q)
<1>4. /\ Len(r) = Len(q) - 1
      /\ \A n \in 1..Len(r) : r[n] = q[n + 1]
  BY <1>1, <1>2, HeadTailProperties
<1>. HIDE DEF r
<1>5. \A n \in 1..Len(q) : Past(q, n)
  BY <1>1, <1>3 DEF Past
<1>6. \A n \in 1..Len(r) : r[n] # Safety
  BY <1>1, <1>3, <1>4 DEF Queues
<1>7. \A n \in 0..Len(r) : ~Past(r, n)
  BY <1>1, <1>3, <1>4, <1>6 DEF Past
<1>8. InLine(q) = [n \in 1..Len(r) |-> q[n + 1]]
  BY <1>1, <1>3, <1>4, <1>5 DEF InLine, Past
<1>9. InLine(r) = [n \in 1..Len(r) |-> r[n]]
  BY <1>1, <1>3, <1>4, <1>7 DEF InLine, Past
<1>. QED  BY <1>4, <1>8, <1>9 DEF r

\* The line is made of the requests that have or want the lock; only the first
\* can have begun.
LEMMA LineShape ==
    ASSUME TypeOK, OneToolAtATime
    PROVE  /\ LockQueue(lock, Owners)
           /\ InLine(lock) \in Seq(Callers)
           /\ Line \in Seq(Service!Requests)
           /\ Len(Line) = Len(InLine(lock))
           /\ \A n \in 1..Len(Line) : Line[n] = Entry(InLine(lock)[n])
           /\ Service!AtBoard => \E c \in Callers : Working(c)
<1>1. LockQueue(lock, Owners) /\ calls \in [Callers -> Call]
  BY DEF TypeOK, OneToolAtATime, LockQueue
<1>2. InLine(lock) \in Seq(Callers) /\ \A n \in 1..Len(InLine(lock)) : InLine(lock)[n] \in Owners
  BY <1>1, InLineShape
<1>. DEFINE s == InLine(lock)
<1>. HIDE DEF s
<1>3. s \in Seq(Callers) /\ \A n \in 1..Len(s) : s[n] \in Owners /\ s[n] \in Callers
  BY <1>2 DEF s
<1>4. ASSUME NEW c \in Callers, c \in Owners PROVE Entry(c) \in Service!Requests
  <2>1. calls[c] # NoCall
    BY <1>4, CallersAssumption DEF Owners, NoCall
  <2>2. /\ calls[c].op \in {"pl", "ps", "reset"} /\ calls[c].image \in Images \cup {NoImage}
        /\ calls[c].mode \in FPGAMode
    BY <1>1, <2>1 DEF Call
  <2>. QED  BY <2>2 DEF Entry, Working, Service!Requests, Service!Modes, FPGAMode
<1>5. Line = [n \in 1..Len(s) |-> Entry(s[n])]
  BY <1>3 DEF Line, s
<1>6. Line \in Seq(Service!Requests) /\ Len(Line) = Len(s)
  BY <1>3, <1>4, <1>5
<1>7. ASSUME Service!AtBoard PROVE \E c \in Callers : Working(c)
  <2>1. Line # << >> /\ Head(Line).begun
    BY <1>7 DEF Service!AtBoard
  <2>2. 1 \in 1..Len(s) /\ Head(Line) = Entry(s[1])
    BY <1>3, <1>5, <1>6, <2>1
  <2>3. Working(s[1])
    BY <2>1, <2>2 DEF Entry
  <2>. QED  BY <1>3, <2>2, <2>3
<1>. QED  BY <1>1, <1>3, <1>5, <1>6, <1>7 DEF s

\* A request that holds the lock is the first in line.
LEMMA LineHead ==
    ASSUME TypeOK, OneToolAtATime, NEW c \in Callers, c \in Owners, Head(lock) = c
    PROVE  /\ Line # << >>
           /\ Head(Line) = Entry(c)
           /\ InLine(lock)[1] = c
           /\ InLine(Tail(lock)) = Tail(InLine(lock))
           /\ \A n \in 2..Len(Line) : InLine(lock)[n] # c /\ InLine(lock)[n] \in Callers
<1>1. /\ LockQueue(lock, Owners)
      /\ Line \in Seq(Service!Requests) /\ Len(Line) = Len(InLine(lock))
      /\ InLine(lock) \in Seq(Callers)
      /\ \A n \in 1..Len(Line) : Line[n] = Entry(InLine(lock)[n])
  BY LineShape
<1>2. /\ InLine(lock) # << >> /\ Len(InLine(lock)) >= 1 /\ InLine(lock)[1] = c
      /\ InLine(Tail(lock)) = Tail(InLine(lock))
  BY <1>1, InLineHead
<1>3. \A n \in 1..Len(InLine(lock)) : n # 1 => InLine(lock)[n] # lock[1]
  BY <1>1, InLineShape
<1>4. lock # << >> /\ lock[1] = c
  <2>1. lock \in Seq(Callers \cup {Safety}) /\ Queues(lock, Owners)
    BY <1>1 DEF LockQueue
  <2>2. lock # << >>
    BY <2>1, QueueEmpty
  <2>. QED  BY <2>1, <2>2
<1>5. Line # << >> /\ Head(Line) = Line[1] /\ 1 \in 1..Len(Line)
  BY <1>1, <1>2
<1>. QED  BY <1>1, <1>2, <1>3, <1>4, <1>5

\* What touches neither the requests nor their order keeps the line.
LEMMA LineStays ==
    ASSUME TypeOK, OneToolAtATime, InLine(lock') = InLine(lock),
           \A c \in Callers : Entry(c)' = Entry(c)
    PROVE  Line' = Line
<1>1. InLine(lock) \in Seq(Callers)
  BY LineShape
<1>2. Line' = [n \in DOMAIN InLine(lock) |-> Entry(InLine(lock)[n])']
  BY DEF Line
<1>3. \A n \in DOMAIN InLine(lock) : InLine(lock)[n] \in Callers
  BY <1>1
<1>. QED  BY <1>2, <1>3 DEF Line

\* The holder of the lock leaves the line.
LEMMA LineMovesUp ==
    ASSUME TypeOK, OneToolAtATime, NEW c \in Callers, c \in Owners, Head(lock) = c,
           calls' = [calls EXCEPT ![c] = NoCall], lock' = Tail(lock)
    PROVE  Line' = Tail(Line)
<1>1. /\ Line \in Seq(Service!Requests) /\ Len(Line) = Len(InLine(lock))
      /\ InLine(lock) \in Seq(Callers)
      /\ \A n \in 1..Len(Line) : Line[n] = Entry(InLine(lock)[n])
  BY LineShape
<1>2. /\ Line # << >> /\ InLine(Tail(lock)) = Tail(InLine(lock))
      /\ \A n \in 2..Len(Line) : InLine(lock)[n] # c /\ InLine(lock)[n] \in Callers
  BY LineHead
<1>3. calls \in [Callers -> Call]
  BY DEF TypeOK
<1>4. \A d \in Callers : d # c => Entry(d)' = Entry(d)
  BY <1>3 DEF Entry, Working
<1>a. PICK s \in Seq(Callers) : s = InLine(lock)
  BY <1>1
<1>5. /\ s \in Seq(Callers) /\ Len(s) = Len(Line) /\ s # << >>
      /\ \A n \in 1..Len(Line) : Line[n] = Entry(s[n])
      /\ \A n \in 2..Len(s) : s[n] # c /\ s[n] \in Callers
  BY <1>a, <1>1, <1>2
<1>6. Line' = [n \in DOMAIN Tail(s) |-> Entry(Tail(s)[n])']
  BY <1>a, <1>2 DEF Line
<1>7. /\ Tail(s) \in Seq(Callers) /\ Len(Tail(s)) = Len(s) - 1
      /\ \A n \in 1..Len(Tail(s)) : Tail(s)[n] = s[n + 1]
  BY <1>5, HeadTailProperties
<1>8. /\ Tail(Line) \in Seq(Service!Requests) /\ Len(Tail(Line)) = Len(Line) - 1
      /\ \A n \in 1..Len(Tail(Line)) : Tail(Line)[n] = Line[n + 1]
  BY <1>1, <1>2, HeadTailProperties
<1>9. ASSUME NEW n \in 1..Len(Tail(s)) PROVE Entry(Tail(s)[n])' = Tail(Line)[n]
  <2>1. n + 1 \in 2..Len(s) /\ n + 1 \in 1..Len(Line) /\ n \in 1..Len(Tail(Line))
    BY <1>5, <1>7, <1>8
  <2>2. Entry(s[n + 1])' = Entry(s[n + 1])
    BY <1>4, <1>5, <2>1
  <2>. QED  BY <1>5, <1>7, <1>8, <2>1, <2>2
<1>. DEFINE t == Tail(s)
            l == Tail(Line)
            m == Line'
<1>10. /\ t \in Seq(Callers) /\ DOMAIN t = 1..Len(t) /\ Len(t) = Len(l)
       /\ l \in Seq(Service!Requests)
       /\ m = [n \in DOMAIN t |-> Entry(t[n])']
       /\ \A n \in 1..Len(t) : Entry(t[n])' = l[n]
  BY <1>5, <1>6, <1>7, <1>8, <1>9
<1>. HIDE DEF t, l, m
<1>11. m = [n \in 1..Len(l) |-> l[n]]
  BY <1>10
<1>12. m = l
  BY <1>10, <1>11
<1>. QED  BY <1>12 DEF l, m

\* A request that is admitted is one of the service, at the end of its line.
LEMMA RequestAdmits ==
    ASSUME TypeOK, OneToolAtATime, NEW c \in Callers, NEW op \in {"pl", "ps", "reset"},
           NEW i \in Images \cup {NoImage}, NEW m \in FPGAMode, Request(c, op, i, m)
    PROVE  Service!Admit
<1>. DEFINE r == [op |-> op, image |-> i, mode |-> m, begun |-> lock = << >>]
<1>1. r \in Service!Requests
  BY DEF Service!Requests, Service!Modes, FPGAMode
<1>2. /\ LockQueue(lock, Owners) /\ InLine(lock) \in Seq(Callers)
      /\ Line \in Seq(Service!Requests) /\ Len(Line) = Len(InLine(lock))
      /\ \A n \in 1..Len(Line) : Line[n] = Entry(InLine(lock)[n])
  BY LineShape
<1>3. c \notin Owners
  BY CallersAssumption DEF Request, Owners
<1>4. calls \in [Callers -> Call]
  BY DEF TypeOK
<1>5. /\ Entry(c)' = r
      /\ \A d \in Callers : d # c => Entry(d)' = Entry(d)
  BY <1>4 DEF Request, Entry, Working
<1>6. \A n \in 1..Len(InLine(lock)) : InLine(lock)[n] \in Owners
  BY <1>2, InLineShape
<1>7. InLine(lock') = Append(InLine(lock), c)
  BY <1>2, <1>3, InLineRequest DEF Request
<1>. HIDE DEF r
<1>a. PICK s \in Seq(Callers) : s = InLine(lock)
  BY <1>2
<1>8. /\ s \in Seq(Callers) /\ Len(s) = Len(Line) /\ Len(s) \in Nat
      /\ \A n \in 1..Len(Line) : Line[n] = Entry(s[n])
      /\ \A n \in 1..Len(s) : s[n] \in Owners /\ s[n] \in Callers
  BY <1>a, <1>2, <1>6
<1>9. Line' = [n \in 1..(Len(s) + 1) |-> Entry(Append(s, c)[n])']
  BY <1>a, <1>7, <1>8 DEF Line
<1>10. ASSUME NEW n \in 1..(Len(s) + 1) PROVE Entry(Append(s, c)[n])' = Append(Line, r)[n]
  <2>1. CASE n \in 1..Len(s)
    <3>1. Append(s, c)[n] = s[n] /\ Append(Line, r)[n] = Line[n]
      BY <1>1, <1>2, <1>8, <2>1
    <3>2. Entry(s[n])' = Entry(s[n])
      BY <1>3, <1>5, <1>8, <2>1
    <3>. QED  BY <1>8, <2>1, <3>1, <3>2
  <2>2. CASE n = Len(s) + 1
    <3>1. Append(s, c)[n] = c /\ Append(Line, r)[n] = r
      BY <1>1, <1>2, <1>8, <2>2
    <3>. QED  BY <1>5, <3>1
  <2>. QED  BY <1>8, <2>1, <2>2
<1>11. Line' = Append(Line, r)
  <2>. DEFINE l == Append(Line, r)
              grown == Line'
  <2>1. /\ l \in Seq(Service!Requests) /\ Len(l) = Len(s) + 1
        /\ grown = [n \in 1..(Len(s) + 1) |-> Entry(Append(s, c)[n])']
        /\ \A n \in 1..(Len(s) + 1) : Entry(Append(s, c)[n])' = l[n]
    BY <1>1, <1>2, <1>8, <1>9, <1>10
  <2>. HIDE DEF l, grown
  <2>2. grown = [n \in 1..Len(l) |-> l[n]]
    BY <2>1
  <2>3. grown = l
    BY <2>1, <2>2
  <2>. QED  BY <2>3 DEF l, grown
<1>12. r.begun => Line = << >>
  <2>. SUFFICES ASSUME r.begun PROVE Line = << >>
    OBVIOUS
  <2>1. lock = << >>
    BY DEF r
  <2>2. Len(InLine(lock)) = 0
    BY <1>2, <2>1, InLineShape DEF Past
  <2>. QED  BY <1>2, <2>2
<1>13. Service!Open(r)
  BY DEF Request, CanProgram, Service!Open, r
<1>14. device' = device
  BY DEF Request
<1>15. Len(Line') > Len(Line)
  BY <1>1, <1>2, <1>11
<1>. QED  BY <1>1, <1>11, <1>12, <1>13, <1>14, <1>15 DEF Service!Admit

\* Under the lock a request begins, or is turned away.
LEMMA EnterBegins ==
    ASSUME TypeOK, OneToolAtATime, NEW c \in Callers, Enter(c)
    PROVE  Service!Begin \/ Service!TurnAway
<1>1. /\ Line \in Seq(Service!Requests) /\ Len(Line) = Len(InLine(lock))
      /\ InLine(lock) \in Seq(Callers)
      /\ \A n \in 1..Len(Line) : Line[n] = Entry(InLine(lock)[n])
  BY LineShape
<1>2. c \in Owners /\ Head(lock) = c /\ ~Working(c)
  BY DEF Enter, Owners, Working
<1>3. /\ Line # << >> /\ Head(Line) = Entry(c) /\ InLine(lock)[1] = c
      /\ \A n \in 2..Len(Line) : InLine(lock)[n] # c /\ InLine(lock)[n] \in Callers
  BY <1>2, LineHead
<1>4. ~Service!AtBoard
  BY <1>2, <1>3 DEF Service!AtBoard, Entry
<1>5. CanProgram(device, calls[c].mode) <=> Service!Open(Head(Line))
  BY <1>3 DEF CanProgram, Service!Open, Entry
<1>6. Head(Line).op = calls[c].op
  BY <1>3 DEF Entry
<1>7. calls \in [Callers -> Call] /\ device' = device
  BY DEF TypeOK, Enter
<1>8. CASE calls[c].op = "reset" \/ CanProgram(device, calls[c].mode)
  <2>1. calls' = [calls EXCEPT ![c].stage = "tool"] /\ lock' = lock
    BY <1>8 DEF Enter
  <2>2. /\ Entry(c)' = [Entry(c) EXCEPT !.begun = TRUE]
        /\ \A d \in Callers : d # c => Entry(d)' = Entry(d)
    <3>1. /\ calls'[c].stage = "tool" /\ calls'[c].op = calls[c].op
          /\ calls'[c].image = calls[c].image /\ calls'[c].mode = calls[c].mode
          /\ \A d \in Callers : d # c => calls'[d] = calls[d]
      BY <1>7, <2>1 DEF Call, NoCall
    <3>2. Working(c)'
      BY <3>1 DEF Working
    <3>3. Entry(c)' = [op |-> calls[c].op, image |-> calls[c].image, mode |-> calls[c].mode,
                       begun |-> TRUE]
      BY <3>1, <3>2 DEF Entry, Working
    <3>4. [Entry(c) EXCEPT !.begun = TRUE]
             = [op |-> calls[c].op, image |-> calls[c].image, mode |-> calls[c].mode,
                begun |-> TRUE]
      <4>1. Entry(c) = [op |-> calls[c].op, image |-> calls[c].image,
                        mode |-> calls[c].mode, begun |-> FALSE]
        <5>1. Working(c) = FALSE
          BY <1>2 DEF Working
        <5>. QED  BY <5>1 DEF Entry
      <4>2. \A f, g : [[op |-> calls[c].op, image |-> calls[c].image,
                         mode |-> calls[c].mode, begun |-> f] EXCEPT !.begun = g]
                         = [op |-> calls[c].op, image |-> calls[c].image,
                            mode |-> calls[c].mode, begun |-> g]
        OBVIOUS
      <4>3. [[op |-> calls[c].op, image |-> calls[c].image, mode |-> calls[c].mode,
              begun |-> FALSE] EXCEPT !.begun = TRUE]
              = [op |-> calls[c].op, image |-> calls[c].image, mode |-> calls[c].mode,
                 begun |-> TRUE]
        BY <4>2, Zenon
      <4>. QED  BY <4>1, <4>3, Zenon
    <3>5. \A d \in Callers : d # c => Entry(d)' = Entry(d)
      BY <3>1 DEF Entry, Working
    <3>. QED  BY <3>3, <3>4, <3>5
  <2>a. PICK s \in Seq(Callers) : s = InLine(lock)
    BY <1>1
  <2>3. Line' = [n \in 1..Len(s) |-> Entry(s[n])']
    BY <2>a, <2>1 DEF Line
  <2>4. ASSUME NEW n \in 1..Len(Line) PROVE Entry(s[n])' = [Line EXCEPT ![1].begun = TRUE][n]
    <3>1. CASE n = 1
      <4>1. Line[1] = Entry(c) /\ s[1] = c
        BY <1>1, <1>3, <2>a, <3>1
      <4>2. [Line EXCEPT ![1].begun = TRUE][1] = [Line[1] EXCEPT !.begun = TRUE]
        <5>1. 1 \in DOMAIN Line
          BY <1>1, <3>1
        <5>. QED  BY <5>1, Zenon
      <4>. QED  BY <2>2, <3>1, <4>1, <4>2
    <3>2. CASE n # 1
      <4>1. n \in 2..Len(Line)
        BY <1>1, <3>2
      <4>2. Entry(s[n])' = Entry(s[n])
        BY <1>3, <2>a, <2>2, <4>1
      <4>. QED  BY <1>1, <2>a, <3>2, <4>2
    <3>. QED  BY <3>1, <3>2
  <2>5. Line' = [Line EXCEPT ![1].begun = TRUE]
    <3>1. Len(s) = Len(Line) /\ Len(Line) \in Nat /\ DOMAIN Line = 1..Len(Line)
      BY <1>1, <2>a
    <3>2. Line' = [n \in 1..Len(Line) |-> [Line EXCEPT ![1].begun = TRUE][n]]
      BY <2>3, <2>4, <3>1
    <3>. QED  BY <3>1, <3>2
  <2>. QED  BY <1>3, <1>4, <1>5, <1>6, <1>7, <1>8, <2>5 DEF Service!Begin
<1>9. CASE ~(calls[c].op = "reset" \/ CanProgram(device, calls[c].mode))
  <2>1. calls' = [calls EXCEPT ![c] = NoCall] /\ lock' = Tail(lock)
    BY <1>9 DEF Enter
  <2>2. Line' = Tail(Line)
    BY <1>2, <2>1, LineMovesUp
  <2>. QED  BY <1>3, <1>4, <1>5, <1>6, <1>7, <1>9, <2>2 DEF Service!TurnAway
<1>. QED  BY <1>8, <1>9

\* A tool at work, or the result it left, is not seen by those that wait.
LEMMA ToolStutters ==
    ASSUME TypeOK, OneToolAtATime, NEW c \in Callers, ToolDone(c) \/ ToolFailed(c)
    PROVE  UNCHANGED Service!vars
<1>1. \A d \in Callers : Entry(d)' = Entry(d)
  BY DEF ToolDone, ToolFailed, Entry, Working, TypeOK, Call, NoCall
<1>2. lock' = lock /\ device' = device
  BY DEF ToolDone, ToolFailed
<1>. QED  BY <1>1, <1>2, LineStays DEF Service!vars

\* The request at the board ends, and the record with it if it succeeded.
LEMMA ServedLeaves ==
    ASSUME TypeOK, OneToolAtATime, NEW c \in Callers, Succeed(c) \/ Fail(c)
    PROVE  Service!Succeed \/ Service!Fail
<1>1. /\ Working(c) /\ Head(lock) = c /\ c \in Owners
      /\ calls' = [calls EXCEPT ![c] = NoCall] /\ lock' = Tail(lock)
  BY DEF Succeed, Fail, Working, Owners, OneToolAtATime
<1>2. Line # << >> /\ Head(Line) = Entry(c)
  BY <1>1, LineHead
<1>3. Line' = Tail(Line)
  BY <1>1, LineMovesUp
<1>4. Service!AtBoard
  BY <1>1, <1>2 DEF Service!AtBoard, Entry
<1>5. /\ Head(Line).op = calls[c].op /\ Head(Line).image = calls[c].image
  BY <1>2 DEF Entry
<1>6. device \in FPGAState
  BY DEF TypeOK
<1>7. CASE Succeed(c)
  <2>1. /\ Recovered(device) \in FPGAState
        /\ "over_temperature" \in Recovered(device).faults
              <=> "over_temperature" \in device.faults
        /\ "communication_lost" \notin Recovered(device).faults
        /\ Recovered(device).image = device.image /\ Recovered(device).mode = device.mode
    BY <1>6, RecoveredRecord
  <2>2. calls[c].op \in {"pl", "ps", "reset"} /\ calls[c].image \in Images \cup {NoImage}
    BY <1>7 DEF Succeed, TypeOK, Call, NoCall
  <2>. DEFINE new == CASE calls[c].op = "pl"    -> calls[c].image
                       [] calls[c].op = "ps"    -> device.image
                       [] calls[c].op = "reset" -> NoImage
  <2>3. /\ device'.image = new
        /\ device'.faults = Recovered(device).faults
        /\ device'.mode = Recovered(device).mode
    <3>1. CASE calls[c].op = "pl"
      <4>1. device' = [Recovered(device) EXCEPT !.image = calls[c].image]
        BY <1>7, <3>1 DEF Succeed
      <4>. QED  BY <2>1, <2>2, <3>1, <4>1, SetImage
    <3>2. CASE calls[c].op = "ps"
      BY <1>7, <2>1, <3>2 DEF Succeed
    <3>3. CASE calls[c].op = "reset"
      <4>1. device' = [Recovered(device) EXCEPT !.image = NoImage]
        BY <1>7, <3>3 DEF Succeed
      <4>. QED  BY <2>1, <3>3, <4>1, SetImage
    <3>. QED  BY <2>2, <3>1, <3>2, <3>3
  <2>. HIDE DEF new
  <2>4. new = CASE Head(Line).op = "pl"    -> Head(Line).image
                [] Head(Line).op = "ps"    -> device.image
                [] Head(Line).op = "reset" -> NoImage
    BY <1>5 DEF new
  <2>5. ("over_temperature" \in device.faults)' = ("over_temperature" \in device.faults)
    BY <2>1, <2>3
  <2>6. ("communication_lost" \in device.faults)' = FALSE
    BY <2>1, <2>3
  <2>. QED  BY <1>3, <1>4, <2>1, <2>3, <2>4, <2>5, <2>6 DEF Service!Succeed
<1>8. CASE Fail(c)
  <2>1. /\ device'.faults = device.faults \cup {"programming_failed"}
        /\ device'.image = device.image /\ device'.mode = device.mode
    BY <1>6, <1>8, RecordOperators DEF Fail, FaultType
  <2>2. ("over_temperature" \in device.faults)' = ("over_temperature" \in device.faults)
    BY <2>1
  <2>3. ("communication_lost" \in device.faults)' = ("communication_lost" \in device.faults)
    BY <2>1
  <2>. QED  BY <1>3, <1>4, <2>1, <2>2, <2>3 DEF Service!Fail
<1>. QED  BY <1>7, <1>8

\* What changes the record only by taking faults from it is a recovery.
LEMMA FaultsGo ==
    ASSUME Line' = Line, device'.faults \subseteq device.faults,
           device'.image = device.image, device'.mode = device.mode
    PROVE  Service!Recover
<1>1. ("over_temperature" \in device.faults)' \in {"over_temperature" \in device.faults, FALSE}
  <2>1. CASE "over_temperature" \in device'.faults
    <3>1. ("over_temperature" \in device.faults)' = ("over_temperature" \in device.faults)
      BY <2>1
    <3>. QED  BY <3>1, Zenon
  <2>2. CASE "over_temperature" \notin device'.faults
    <3>1. ("over_temperature" \in device.faults)' = FALSE
      BY <2>2
    <3>. QED  BY <3>1, Zenon
  <2>. QED  BY <2>1, <2>2
<1>2. ("communication_lost" \in device.faults)' \in {"communication_lost" \in device.faults, FALSE}
  <2>1. CASE "communication_lost" \in device'.faults
    <3>1. ("communication_lost" \in device.faults)' = ("communication_lost" \in device.faults)
      BY <2>1
    <3>. QED  BY <3>1, Zenon
  <2>2. CASE "communication_lost" \notin device'.faults
    <3>1. ("communication_lost" \in device.faults)' = FALSE
      BY <2>2
    <3>. QED  BY <3>1, Zenon
  <2>. QED  BY <2>1, <2>2
<1>. QED  BY <1>1, <1>2 DEF Service!Recover

\* The mark of a board that is not heard of is a loss.
LEMMA MarkLoses ==
    ASSUME TypeOK, Line' = Line, device' = MarkCommunicationLost(device)
    PROVE  Service!Lose
<1>1. device \in FPGAState
  BY DEF TypeOK
<1>2. /\ device'.image = NoImage /\ device'.mode = device.mode
      /\ "communication_lost" \in device'.faults
      /\ "over_temperature" \in device'.faults <=> "over_temperature" \in device.faults
  BY <1>1, LostRecord
<1>3. ("over_temperature" \in device.faults)' = ("over_temperature" \in device.faults)
  BY <1>2
<1>4. ("communication_lost" \in device.faults)' = TRUE
  BY <1>2
<1>. QED  BY <1>2, <1>3, <1>4 DEF Service!Lose

\* A reading takes faults away; what follows a hot one waits out of sight.
LEMMA ReadingRecovers ==
    ASSUME TypeOK, OneToolAtATime, NEW t \in Temperature, ReadingSucceeds(t)
    PROVE  Service!Recover
<1>. DEFINE d == [ClearFault(device, "communication_lost") EXCEPT !.temperature = t]
<1>1. /\ ClearFault(device, "communication_lost") \in FPGAState
      /\ ClearFault(device, "communication_lost").faults = device.faults \ {"communication_lost"}
      /\ ClearFault(device, "communication_lost").image = device.image
      /\ ClearFault(device, "communication_lost").mode = device.mode
  BY RecordOperators DEF FaultType, TypeOK
<1>2. /\ d \in FPGAState /\ d.faults \subseteq device.faults
      /\ d.image = device.image /\ d.mode = device.mode
  BY <1>1 DEF FPGAState
<1>3. /\ ClearFault(d, "over_temperature").faults = d.faults \ {"over_temperature"}
      /\ ClearFault(d, "over_temperature").image = d.image
      /\ ClearFault(d, "over_temperature").mode = d.mode
  BY <1>2, RecordOperators DEF FaultType
<1>4. device' = d \/ device' = ClearFault(d, "over_temperature")
  BY DEF ReadingSucceeds
<1>5. /\ telemetry.point = "reading" /\ calls' = calls
      /\ lock' = Append(lock, Safety) \/ lock' = lock
  BY DEF ReadingSucceeds
<1>6. Safety \notin Owners /\ LockQueue(lock, Owners)
  BY <1>5, CallersAssumption, LineShape DEF Owners
<1>7. InLine(lock') = InLine(lock)
  BY <1>5, <1>6, InLineSafety
<1>8. Line' = Line
  BY <1>5, <1>7, LineStays DEF Entry, Working
<1>. QED  BY <1>2, <1>3, <1>4, <1>8, FaultsGo

\* The safety reset ends with a lock-out, and nothing has begun then.
LEMMA SafetyLocksOut ==
    ASSUME TypeOK, OneToolAtATime, SafetyLatches
    PROVE  Service!Lockout
<1>1. /\ SafetyWorking /\ Head(lock) = Safety /\ Safety \in Owners
      /\ lock' = Tail(lock) /\ calls' = calls
  BY DEF SafetyLatches, SafetyWorking, Owners, OneToolAtATime
<1>2. LockQueue(lock, Owners)
  BY LineShape
<1>3. InLine(lock') = InLine(lock)
  BY <1>1, <1>2, InLineSafetyLeaves
<1>4. Line' = Line
  BY <1>1, <1>3, LineStays DEF Entry, Working
<1>5. ~Service!AtBoard
  <2>1. \A c \in Callers : ~Working(c)
    BY <1>1, CallersAssumption DEF OneToolAtATime
  <2>. QED  BY <2>1, LineShape
<1>. DEFINE d == AddFault(device, "over_temperature")
<1>6. /\ d \in FPGAState /\ d.faults = device.faults \cup {"over_temperature"}
      /\ d.image = device.image /\ d.mode = device.mode
  BY RecordOperators DEF FaultType, TypeOK
<1>7. device' = d \/ device' = [d EXCEPT !.image = NoImage]
  BY DEF SafetyLatches
<1>8. /\ device'.faults = d.faults /\ device'.mode = d.mode
      /\ device'.image \in {device.image, NoImage}
  <2>1. CASE device' = d
    BY <1>6, <2>1
  <2>2. CASE device' = [d EXCEPT !.image = NoImage]
    BY <1>6, <2>2, SetImage
  <2>. QED  BY <1>7, <2>1, <2>2
<1>9. ("over_temperature" \in device.faults)' = TRUE
  BY <1>6, <1>8
<1>10. ("communication_lost" \in device.faults)' = ("communication_lost" \in device.faults)
  BY <1>6, <1>8
<1>. QED  BY <1>4, <1>5, <1>6, <1>8, <1>9, <1>10 DEF Service!Lockout

\* Every step of the agent is one of the service or is not seen.
LEMMA StepServes == TypeOK /\ OneToolAtATime /\ [Next]_vars => [Service!Serve]_(Service!vars)
<1>. SUFFICES ASSUME TypeOK, OneToolAtATime, [Next]_vars
              PROVE  [Service!Serve]_(Service!vars)
  OBVIOUS
<1>0. device \in FPGAState
  BY DEF TypeOK
<1>1. ASSUME NEW c \in Callers, NEW op \in {"pl", "ps", "reset"},
             NEW i \in Images \cup {NoImage}, NEW m \in FPGAMode, Request(c, op, i, m)
      PROVE  Service!Serve
  BY <1>1, RequestAdmits DEF Service!Serve
<1>2. ASSUME NEW c \in Callers, Enter(c) PROVE Service!Serve
  BY <1>2, EnterBegins DEF Service!Serve
<1>3. ASSUME NEW c \in Callers, ToolDone(c) \/ ToolFailed(c) PROVE UNCHANGED Service!vars
  BY <1>3, ToolStutters
<1>4. ASSUME NEW c \in Callers, Succeed(c) \/ Fail(c) PROVE Service!Serve
  BY <1>4, ServedLeaves DEF Service!Serve
<1>5. ASSUME UNCHANGED <<calls, lock>> PROVE Line' = Line
  BY <1>5, LineStays DEF Entry, Working
<1>6. ASSUME UNCHANGED <<calls, lock, device>> PROVE UNCHANGED Service!vars
  BY <1>5, <1>6 DEF Service!vars
<1>7. CASE ReadingFails \/ Discover
  <2>1. Line' = Line
    BY <1>5, <1>7 DEF ReadingFails, Discover, DiscoveryFinds, DiscoveryMisses
  <2>2. \/ device' = device
        \/ device' = ClearFault(device, "communication_lost")
        \/ device' = MarkCommunicationLost(device)
    BY <1>7 DEF ReadingFails, Discover, DiscoveryFinds, DiscoveryMisses
  <2>3. CASE device' = device
    BY <2>1, <2>3 DEF Service!vars
  <2>4. CASE device' = ClearFault(device, "communication_lost")
    <3>1. /\ device'.faults = device.faults \ {"communication_lost"}
          /\ device'.image = device.image /\ device'.mode = device.mode
      BY <1>0, <2>4, RecordOperators DEF FaultType
    <3>. QED  BY <2>1, <3>1, FaultsGo DEF Service!Serve
  <2>5. CASE device' = MarkCommunicationLost(device)
    BY <2>1, <2>5, MarkLoses DEF Service!Serve
  <2>. QED  BY <2>2, <2>3, <2>4, <2>5
<1>8. ASSUME NEW t \in Temperature, ReadingSucceeds(t) PROVE Service!Serve
  BY <1>8, ReadingRecovers DEF Service!Serve
<1>9. CASE SafetyLatches
  BY <1>9, SafetyLocksOut DEF Service!Serve
<1>10. ASSUME NEW f \in FaultType, ClearDeviceFault(f) PROVE Service!Serve
  <2>1. /\ device'.faults = device.faults \ {f}
        /\ device'.image = device.image /\ device'.mode = device.mode
    BY <1>0, <1>10, RecordOperators DEF ClearDeviceFault
  <2>2. Line' = Line
    BY <1>5, <1>10 DEF ClearDeviceFault
  <2>. QED  BY <2>1, <2>2, FaultsGo DEF Service!Serve
<1>11. ASSUME NEW m \in FPGAMode, SetMode(m) PROVE Service!Serve
  <2>1. /\ device'.mode = m /\ device'.faults = device.faults /\ device'.image = device.image
    BY <1>0, <1>11 DEF SetMode, FPGAState
  <2>2. Line' = Line
    BY <1>5, <1>11 DEF SetMode
  <2>3. m \in Service!Modes
    BY DEF FPGAMode, Service!Modes
  <2>4. Service!SetMode
    BY <2>1, <2>2, <2>3 DEF Service!SetMode
  <2>. QED  BY <2>4 DEF Service!Serve
<1>12. CASE StartReading \/ SafetyEnters \/ SafetyTool
  BY <1>6, <1>12 DEF StartReading, SafetyEnters, SafetyTool
<1>13. ASSUME NEW s \in Subscribers, Subscribe(s) \/ Deliver(s) \/ Unsubscribe(s)
       PROVE  UNCHANGED Service!vars
  BY <1>6, <1>13 DEF Subscribe, Deliver, Unsubscribe
<1>14. CASE UNCHANGED vars
  BY <1>6, <1>14 DEF vars
<1>. QED  BY <1>1, <1>2, <1>3, <1>4, <1>7, <1>8, <1>9, <1>10, <1>11, <1>12, <1>13, <1>14
          DEF Next, Serve, Read, Cut, Operator

\* The agent implements the service: whatever its loops, its tools and its
\* operators do meanwhile, requests are served one after the other in the order
\* they were admitted, and a lock-out falls between two of them.
THEOREM AgentServesInTurn == Spec => ServiceSpec
<1>1. Init => Service!Init
  <2>. SUFFICES ASSUME Init PROVE Service!Init
    OBVIOUS
  <2>1. lock = << >> /\ device.image = NoImage /\ device.faults = {} /\ device.mode \in FPGAMode
    BY DEF Init
  <2>2. InLine(lock) = << >>
    BY <2>1 DEF InLine
  <2>3. Line = << >>
    BY <2>2 DEF Line
  <2>. QED  BY <2>1, <2>3 DEF Service!Init, Service!Modes, FPGAMode
<1>2. AgentInv => TypeOK /\ OneToolAtATime
  BY DEF AgentInv
<1>. QED  BY <1>1, <1>2, StepServes, AgentInvariant, PTL DEF Spec, ServiceSpec, Service!ProcessSpec
=============================================================================
