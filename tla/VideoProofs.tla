---------------------------- MODULE VideoProofs ----------------------------
(***************************************************************************)
(* The capture by itself: one FFmpeg process has the device at most, and   *)
(* no picture outlives its process, for any number of processes, whether   *)
(* or not one may outlive a kill, and wherever start and stop fall.        *)
(*                                                                         *)
(* Neither holds by itself.  The process that runs is the producer's own   *)
(* until the producer ends, and _process afterwards: that is what start    *)
(* looks at, so it must not have been cleared by then.                     *)
(*                                                                         *)
(* The service uses its capture as VideoCapture allows, so what is proved  *)
(* of the capture holds in the service; and nothing but its own release or *)
(* the shutdown takes the capture from a demo that has been given it.      *)
(***************************************************************************)
EXTENDS Video, TLAPS

-----------------------------------------------------------------------------
(* The capture *)

\* Whoever answers for a process that runs.
Keeper == IF producer.at = "ended" THEN process ELSE producer.own

\* What a position of the producer says about _process and the picture.
Inv ==
    /\ CaptureTypeOK
    /\ alive \subseteq {Keeper}
    /\ ~known => producer.at = "ended"
    /\ producer.at \in {"decide", "read", "close", "clear"} => process = producer.own
    /\ producer.at = "judge" /\ producer.own \in alive => process = producer.own
    /\ frame # NoProcess => producer.at \in {"read", "close", "clear"} /\ frame = producer.own

\* The invariant holds of a capture that was never started.
LEMMA InvInit == CaptureInit => Inv
<1> SUFFICES ASSUME CaptureInit PROVE Inv
  OBVIOUS
<1>1. CaptureTypeOK
  BY DEF CaptureInit, CaptureTypeOK, NotStopping, Maybe
<1>2. producer.at = "ended" /\ alive = {} /\ frame = NoProcess
  BY DEF CaptureInit, Ended
<1> QED
  BY <1>1, <1>2 DEF Inv

\* start launches a producer only when nothing runs: the old producer has
\* ended, so a process that runs would be _process, which start looks at.
LEMMA InvStart == Inv /\ Start => Inv'
<1> SUFFICES ASSUME Inv, Start PROVE Inv'
  OBVIOUS
<1> USE DEF Inv, CaptureTypeOK, Keeper, Maybe, Ended
<1>1. CASE ProducerAlive
  BY <1>1 DEF Start, captureVars
<1>2. CASE ~ProducerAlive
  <2>1. producer.at = "ended" /\ process \notin alive /\ Launch
    BY <1>2 DEF Start, StartRaises, ProducerAlive
  <2>2. alive = {}
    BY <2>1
  <2> QED
    BY <2>1, <2>2 DEF Launch
<1> QED
  BY <1>1, <1>2

\* stop kills, waits and forgets a producer only when it has ended.
LEMMA InvStop == Inv /\ (StopBegins \/ StopKills \/ StopJoins) => Inv'
<1> SUFFICES ASSUME Inv, StopBegins \/ StopKills \/ StopJoins PROVE Inv'
  OBVIOUS
<1> USE DEF Inv, CaptureTypeOK, Keeper, Maybe, Ended
<1>1. CASE StopBegins
  BY <1>1 DEF StopBegins
<1>2. CASE StopKills
  BY <1>2 DEF StopKills, StopProcess
<1>3. CASE StopJoins
  BY <1>3 DEF StopJoins, NotStopping
<1> QED
  BY <1>1, <1>2, <1>3

\* Each step of the producer hands the process on, from its own hands to
\* _process, or ends with it dead.
LEMMA InvProduce == Inv /\ Produce => Inv'
<1> SUFFICES ASSUME Inv, Produce PROVE Inv'
  OBVIOUS
<1> USE DEF Inv, CaptureTypeOK, Keeper, Maybe, Ended, Goes
<1>1. CASE Looks
  <2>1. alive = {}
    BY <1>1, ProcessesAssumption DEF Looks
  <2> QED
    BY <1>1, <2>1 DEF Looks
<1>2. CASE Opens
  <2>1. alive = {}
    BY <1>2, ProcessesAssumption DEF Opens
  <2> QED
    BY <1>2, <2>1 DEF Opens
<1>3. CASE Publishes
  BY <1>3 DEF Publishes
<1>4. CASE Decides
  BY <1>4 DEF Decides
<1>5. CASE ReadsFrame
  BY <1>5 DEF ReadsFrame
<1>6. CASE ReadEnds
  BY <1>6 DEF ReadEnds
<1>7. CASE Closes
  BY <1>7 DEF Closes, StopProcess
<1>8. CASE Clears
  BY <1>8 DEF Clears
<1>9. CASE Judges
  BY <1>9 DEF Judges
<1>10. CASE Waits
  BY <1>10 DEF Waits
<1> QED
  BY <1>1, <1>2, <1>3, <1>4, <1>5, <1>6, <1>7, <1>8, <1>9, <1>10 DEF Produce

\* Every step keeps the invariant.
LEMMA InvStep == Inv /\ [CaptureNext]_captureVars => Inv'
<1> SUFFICES ASSUME Inv, [CaptureNext]_captureVars PROVE Inv'
  OBVIOUS
<1>1. CASE Dies
  BY <1>1 DEF Dies, Inv, CaptureTypeOK, Keeper, Maybe
<1>2. CASE UNCHANGED captureVars
  BY <1>2 DEF captureVars, Inv, CaptureTypeOK, Keeper, Maybe
<1> QED
  BY <1>1, <1>2, InvStart, InvStop, InvProduce DEF CaptureNext

\* The invariant is inductive.
THEOREM CaptureInvariant == CaptureSpec => []Inv
BY InvInit, InvStep, PTL DEF CaptureSpec

\* The capture keeps its shape.
THEOREM CaptureTypeCorrect == CaptureSpec => []CaptureTypeOK
<1>1. Inv => CaptureTypeOK
  BY DEF Inv
<1> QED
  BY <1>1, CaptureInvariant, PTL

\* Two FFmpeg processes never have the device at once (VideoCapture.start,
\* stop and _capture_loop).
THEOREM DeviceHasOneOwner == CaptureSpec => []OneOwner
<1>1. Inv => OneOwner
  BY DEF Inv, OneOwner
<1> QED
  BY <1>1, CaptureInvariant, PTL

\* A picture that wait_for_frame can hand out was sent by the process the
\* capture has open.
THEOREM PicturesAreLive == CaptureSpec => []NoReplay
<1>1. Inv => NoReplay
  BY DEF Inv, NoReplay
<1> QED
  BY <1>1, CaptureInvariant, PTL

-----------------------------------------------------------------------------
(* The service *)

\* A capture is taken from a lease only inside the transition of the demo
\* that asks for it, which gives the lease back when the capture fails.
Served ==
    /\ leases # {} /\ ~running => turn.does = "lease" /\ leases = {turn.who}
    /\ turn.does = "undo" /\ ~running => leases = {}
    /\ turn.does = "undo" => turn.at = "sync" \/ leases = {}
    /\ turn.does = "lease" => turn.at # "out"
    /\ turn.at = "stop" => leases = {}
    /\ turn.at \in {"reopen", "restart"} => turn.does = "lease" /\ leases = {turn.who}

\* The shape of the service, and who has a lease.
ServiceOK ==
    /\ TypeOK
    /\ turn.at = "out" => turn = NoTurn
    /\ closed => leases = {}
    /\ ~closed => showing = leases
    /\ Served

\* Who takes the lock changes tokens and touches nothing of the capture.
Entering ==
    \/ \E v \in Viewers : ViewerOpens(v) \/ ViewerRefused(v) \/ ViewerCloses(v)
    \/ \E d \in Leases : Acquires(d) \/ Releases(d)
    \/ MonitorLooks
    \/ Shutdown
    \/ Toggles

\* Every step of the service is a step of the capture or leaves it alone.
LEMMA StepOfCapture == [Next]_vars => [CaptureNext]_captureVars
<1> SUFFICES ASSUME [Next]_vars PROVE [CaptureNext]_captureVars
  OBVIOUS
<1>1. CASE UNCHANGED vars
  BY <1>1 DEF vars
<1>2. CASE Entering
  <2>1. UNCHANGED captureVars
    BY <1>2 DEF Entering, ViewerOpens, ViewerRefused, ViewerCloses, Acquires, Releases,
                MonitorLooks, Shutdown, Toggles
  <2> QED
    BY <2>1
<1>3. CASE Sync
  <2>1. SyncIdle \/ SyncRaises => UNCHANGED captureVars
    BY DEF SyncIdle, SyncRaises
  <2>2. SyncStarts => Start
    BY DEF SyncStarts
  <2>3. SyncStops \/ Reopens => StopBegins
    BY DEF SyncStops, Reopens
  <2>4. Stopped => StopJoins
    BY DEF Stopped
  <2> QED
    BY <1>3, <2>1, <2>2, <2>3, <2>4 DEF Sync, CaptureNext
<1>4. CASE Runs
  BY <1>4 DEF Runs, CaptureNext
<1> QED
  BY <1>1, <1>2, <1>3, <1>4 DEF Next, Entering

\* The service implements the capture's specification: its lock lets start
\* and stop come one at a time, in whatever order viewers and demos cause.
THEOREM UsesCapture == Spec => CaptureSpec
<1>1. Init => CaptureInit
  BY DEF Init
<1> QED
  BY <1>1, StepOfCapture, PTL DEF Spec, CaptureSpec

\* The device has one owner whatever viewers, demos and the gate do.
THEOREM ServiceHasOneOwner == Spec => []OneOwner
BY UsesCapture, DeviceHasOneOwner, PTL

-----------------------------------------------------------------------------
(* A demo keeps its capture *)

\* The invariant holds before anybody has come.
LEMMA ServiceInit == Init => Inv /\ ServiceOK
<1> SUFFICES ASSUME Init PROVE Inv /\ ServiceOK
  OBVIOUS
<1>1. Inv
  BY InvInit DEF Init
<1>2. TypeOK
  BY <1>1 DEF Init, TypeOK, Inv, NoTurn, TurnKinds
<1>3. Served
  BY DEF Init, Served, NoTurn
<1> QED
  BY <1>1, <1>2, <1>3 DEF Init, ServiceOK

\* Taking the lock, and the gate.
LEMMA ServiceEnters == Inv /\ Inv' /\ ServiceOK /\ Entering => ServiceOK'
<1> SUFFICES ASSUME Inv, Inv', ServiceOK, Entering PROVE ServiceOK'
  OBVIOUS
<1>1. UNCHANGED captureVars /\ CaptureTypeOK'
  BY DEF Inv, Entering, ViewerOpens, ViewerRefused, ViewerCloses, Acquires, Releases,
         MonitorLooks, Shutdown, Toggles
<1> USE DEF ServiceOK, TypeOK, TurnKinds, Takes, NoTurn, Nobody
<1>2. ASSUME NEW v \in Viewers, ViewerOpens(v) \/ ViewerRefused(v) \/ ViewerCloses(v)
      PROVE  ServiceOK'
  <2>1. Served'
    BY <1>2 DEF ViewerOpens, ViewerRefused, ViewerCloses, Served
  <2> QED
    BY <1>1, <1>2, <2>1 DEF ViewerOpens, ViewerRefused, ViewerCloses
<1>3. ASSUME NEW d \in Leases, Acquires(d)
      PROVE  ServiceOK'
  <2>1. Opened \subseteq Processes
    BY DEF Opened, CaptureTypeOK, Maybe
  <2>2. Served'
    BY <1>3 DEF Acquires, Served
  <2>3. stale' \subseteq Processes
    BY <1>3, <2>1 DEF Acquires
  <2> QED
    BY <1>1, <1>3, <2>2, <2>3 DEF Acquires
<1>4. ASSUME NEW d \in Leases, Releases(d)
      PROVE  ServiceOK'
  <2>1. Served'
    BY <1>4 DEF Releases, Served
  <2> QED
    BY <1>1, <1>4, <2>1 DEF Releases
<1>5. CASE MonitorLooks
  <2>1. Served'
    BY <1>5 DEF MonitorLooks, Served
  <2> QED
    BY <1>1, <1>5, <2>1 DEF MonitorLooks
<1>6. CASE Shutdown
  <2>1. Served'
    BY <1>6 DEF Shutdown, Served
  <2> QED
    BY <1>1, <1>6, <2>1 DEF Shutdown
<1>7. CASE Toggles
  <2>1. Served'
    BY <1>7 DEF Toggles, Served
  <2> QED
    BY <1>1, <1>7, <2>1 DEF Toggles
<1> QED
  BY <1>2, <1>3, <1>4, <1>5, <1>6, <1>7 DEF Entering

\* What is done under the lock.
LEMMA ServiceSyncs == Inv /\ Inv' /\ ServiceOK /\ Sync => ServiceOK'
<1> SUFFICES ASSUME Inv, Inv', ServiceOK, Sync PROVE ServiceOK'
  OBVIOUS
<1>1. CaptureTypeOK'
  BY DEF Inv
<1> USE DEF ServiceOK, TypeOK, TurnKinds, NoTurn, Nobody, Leaves, Revokes
<1>2. CASE SyncIdle
  <2>1. Served'
    BY <1>2 DEF SyncIdle, Served, Needed
  <2> QED
    BY <1>1, <1>2, <2>1 DEF SyncIdle
<1>3. CASE SyncStarts
  <2>1. Served'
    BY <1>3 DEF SyncStarts, Served
  <2> QED
    BY <1>1, <1>3, <2>1 DEF SyncStarts
<1>4. CASE SyncRaises
  <2>1. Served'
    BY <1>4 DEF SyncRaises, Served
  <2>2. viewers' \subseteq streaming' /\ leases' \subseteq showing'
    BY <1>4 DEF SyncRaises
  <2>3. turn' \in [does : TurnKinds, who : Viewers \cup Leases \cup {Nobody},
                   at : {"out", "sync", "reopen", "restart", "stop"}]
    BY <1>4 DEF SyncRaises
  <2> QED
    BY <1>1, <1>4, <2>1, <2>2, <2>3 DEF SyncRaises
<1>5. CASE SyncStops
  <2>1. Served'
    BY <1>5 DEF SyncStops, Served, Needed
  <2> QED
    BY <1>1, <1>5, <2>1 DEF SyncStops
<1>6. CASE Reopens
  <2>1. Served'
    BY <1>6 DEF Reopens, Served
  <2> QED
    BY <1>1, <1>6, <2>1 DEF Reopens
<1>7. CASE Stopped
  <2>1. Served'
    BY <1>7 DEF Stopped, Served
  <2> QED
    BY <1>1, <1>7, <2>1 DEF Stopped
<1> QED
  BY <1>2, <1>3, <1>4, <1>5, <1>6, <1>7 DEF Sync

\* Every step of the service keeps the invariant.
LEMMA ServiceStep == Inv /\ ServiceOK /\ [Next]_vars => Inv' /\ ServiceOK'
<1> SUFFICES ASSUME Inv, ServiceOK, [Next]_vars PROVE Inv' /\ ServiceOK'
  OBVIOUS
<1>1. Inv'
  BY InvStep, StepOfCapture
<1>2. CASE Runs
  <2>1. stale' \subseteq Processes
    BY <1>2 DEF Runs, ServiceOK, TypeOK
  <2>2. Served'
    BY <1>2 DEF Runs, ServiceOK, Served
  <2> QED
    BY <1>1, <1>2, <2>1, <2>2 DEF Runs, ServiceOK, TypeOK, Inv
<1>3. CASE UNCHANGED vars
  BY <1>1, <1>3 DEF vars, serviceVars, ServiceOK, Served, TypeOK, Inv
<1> QED
  BY <1>1, <1>2, <1>3, ServiceEnters, ServiceSyncs DEF Next, Entering

\* The invariant is inductive.
THEOREM ServiceInvariant == Spec => [](Inv /\ ServiceOK)
BY ServiceInit, ServiceStep, PTL DEF Spec

\* The service keeps its shape.
THEOREM ServiceTypeCorrect == Spec => []TypeOK
<1>1. ServiceOK => TypeOK
  BY DEF ServiceOK
<1> QED
  BY <1>1, ServiceInvariant, PTL

\* Neither viewers nor the gate, the monitor or the failed start of another
\* take the capture from a demo that has a lease.
THEOREM DemosKeepTheCapture == Spec => []DemoKeepsCapture
<1>1. ServiceOK => DemoKeepsCapture
  BY DEF ServiceOK, Served, DemoKeepsCapture, NoTurn
<1> QED
  BY <1>1, ServiceInvariant, PTL

-----------------------------------------------------------------------------
(* The capture runs while it is wanted, and shows a demo only itself *)

\* running says that there is a producer who was not told to stop, or a process
\* that made it give up; outside a stop of the capture.
Wanted ==
    /\ turn = NoTurn /\ running => viewers \cup leases # {}
    /\ Producing => running
    /\ running /\ turn.at \notin {"restart", "stop"} =>
          ~stop /\ (producer.at # "ended" \/ process # NoProcess)
    /\ turn.at \in {"restart", "stop"} => stop

\* Once the first demo has had the device opened again, the producer owns no
\* process from before.
Fresh ==
    /\ stale \subseteq alive \cup {process, frame}
    /\ leases # {} /\ running /\ turn.at \notin {"reopen", "restart", "stop"} =>
          producer.own \notin stale

LEMMA CaptureUseInit == Init => Wanted /\ Fresh
BY DEF Init, CaptureInit, Ended, NoTurn, Wanted, Fresh, Producing

\* Whoever takes the lock finds what the last transition has left.
LEMMA CaptureUseEnters == Inv /\ ServiceOK /\ Wanted /\ Fresh /\ Entering => Wanted' /\ Fresh'
<1> SUFFICES ASSUME Inv, ServiceOK, Wanted, Fresh, Entering PROVE Wanted' /\ Fresh'
  OBVIOUS
<1> USE DEF Wanted, Fresh, Producing, captureVars, Takes, NoTurn
<1>1. ASSUME NEW v \in Viewers, ViewerOpens(v) \/ ViewerRefused(v) \/ ViewerCloses(v)
      PROVE  Wanted' /\ Fresh'
  BY <1>1 DEF ViewerOpens, ViewerRefused, ViewerCloses
<1>2. ASSUME NEW d \in Leases, Acquires(d)
      PROVE  Wanted' /\ Fresh'
  <2>1. Wanted'
    BY <1>2 DEF Acquires
  <2>2. Fresh'
    BY <1>2 DEF Acquires, Opened
  <2> QED
    BY <2>1, <2>2
<1>3. ASSUME NEW d \in Leases, Releases(d)
      PROVE  Wanted' /\ Fresh'
  BY <1>3 DEF Releases
<1>4. CASE MonitorLooks \/ Shutdown
  BY <1>4 DEF MonitorLooks, Shutdown
<1>5. CASE Toggles
  BY <1>5 DEF Toggles
<1> QED
  BY <1>1, <1>2, <1>3, <1>4, <1>5 DEF Entering

\* start launches a producer that owns nothing yet, unless one is at work.
LEMMA CaptureUseSyncs == Inv /\ ServiceOK /\ Wanted /\ Fresh /\ Sync => Wanted' /\ Fresh'
<1> SUFFICES ASSUME Inv, ServiceOK, Wanted, Fresh, Sync PROVE Wanted' /\ Fresh'
  OBVIOUS
<1>0. stale \subseteq alive \cup {process} \cup {producer.own} /\ NoProcess \notin stale
  BY ProcessesAssumption DEF Fresh, Inv, ServiceOK, TypeOK
<1> USE DEF Wanted, Fresh, Producing, NoTurn, Leaves, Revokes
<1>1. CASE SyncIdle
  BY <1>1 DEF SyncIdle, captureVars, Needed
<1>2. CASE SyncStarts
  <2>1. ~ProducerAlive
    BY <1>2 DEF SyncStarts, Start, StartRaises, ProducerAlive
  <2>2. Launch
    BY <1>2, <2>1 DEF SyncStarts, Start
  <2>3. Wanted'
    BY <1>2, <2>2 DEF SyncStarts, Launch, Needed
  <2>4. frame = NoProcess
    BY <2>1 DEF ProducerAlive, Inv
  <2>5. Fresh'
    BY <1>0, <1>2, <2>2, <2>4 DEF SyncStarts, Launch
  <2> QED
    BY <2>3, <2>5
<1>3. CASE SyncRaises
  BY <1>3 DEF SyncRaises, captureVars
<1>4. CASE SyncStops \/ Reopens
  <2>0. turn'.at \in {"stop", "restart"} /\ turn' # NoTurn /\ stop'
    BY <1>4 DEF SyncStops, Reopens, StopBegins, ServiceOK, TypeOK
  <2>1. Wanted'
    BY <1>4, <2>0 DEF SyncStops, Reopens, StopBegins
  <2>2. stale' \subseteq alive' \cup {process', frame'}
    BY <1>0, <1>4 DEF SyncStops, Reopens, StopBegins, Inv
  <2> QED
    BY <2>0, <2>1, <2>2
<1>5. CASE Stopped
  BY <1>5 DEF Stopped, StopJoins
<1> QED
  BY <1>1, <1>2, <1>3, <1>4, <1>5 DEF Sync

\* The producer opens no process that may still be shown, and when it gives up
\* it leaves in _process what has not died.
LEMMA CaptureUseRuns == Inv /\ ServiceOK /\ Wanted /\ Fresh /\ Runs => Wanted' /\ Fresh'
<1> SUFFICES ASSUME Inv, ServiceOK, Wanted, Fresh, Runs PROVE Wanted' /\ Fresh'
  OBVIOUS
<1>0. NoProcess \notin stale /\ NoProcess \notin alive
  BY ProcessesAssumption DEF ServiceOK, TypeOK, CaptureTypeOK
<1> USE DEF Wanted, Fresh, Producing, Runs
<1>1. stale' \subseteq stale /\ stale' \subseteq alive' \cup {process', frame'}
  BY DEF Opened
<1>2. CASE StopKills \/ Dies
  <2>1. UNCHANGED <<process, frame, stop, producer>>
    BY <1>2 DEF StopKills, Dies
  <2> QED
    BY <1>1, <2>1
<1>3. CASE Produce
  <2> USE <1>3 DEF Goes, Ended
  <2>1. CASE Looks
    BY <1>0, <1>1, <2>1 DEF Looks, Inv, CaptureTypeOK
  <2>2. CASE Opens
    <3>1. UNCHANGED <<process, stop>> /\ producer'.at # "ended" /\ producer.at = "open"
      BY <2>2 DEF Opens, Inv, CaptureTypeOK
    <3>2. producer'.own \in Processes \ (alive \cup {process, frame}) \/ producer'.own = producer.own
      BY <2>2 DEF Opens, Inv, CaptureTypeOK
    <3> QED
      BY <1>1, <3>1, <3>2
  <2>3. CASE Publishes \/ Decides \/ ReadsFrame \/ ReadEnds \/ Closes \/ Waits
    <3>1. producer'.own = producer.own /\ producer'.at # "ended" /\ producer.at # "ended" /\ UNCHANGED stop
      BY <2>3 DEF Publishes, Decides, ReadsFrame, ReadEnds, Closes, Waits, Inv, CaptureTypeOK
    <3> QED
      BY <1>1, <3>1
  <2>4. CASE Clears
    <3>1. producer'.own = producer.own /\ producer'.at # "ended" /\ producer.at # "ended" /\ UNCHANGED stop
      BY <2>4 DEF Clears, Inv, CaptureTypeOK
    <3> QED
      BY <1>1, <3>1
  <2>5. CASE Judges
    <3>1. producer.own \in alive => process # NoProcess
      BY <1>0, <2>5 DEF Judges, Inv
    <3> QED
      BY <1>0, <1>1, <2>5, <3>1 DEF Judges, Inv, CaptureTypeOK
  <2> QED
    BY <2>1, <2>2, <2>3, <2>4, <2>5 DEF Produce
<1> QED
  BY <1>2, <1>3

\* Every step keeps it.
LEMMA CaptureUseStep ==
  Inv /\ ServiceOK /\ Wanted /\ Fresh /\ [Next]_vars => Wanted' /\ Fresh'
<1> SUFFICES ASSUME Inv, ServiceOK, Wanted, Fresh, UNCHANGED vars PROVE Wanted' /\ Fresh'
  BY CaptureUseEnters, CaptureUseSyncs, CaptureUseRuns DEF Next, Entering
<1> QED
  BY DEF vars, captureVars, serviceVars, Wanted, Fresh, Producing

THEOREM CaptureUseInvariant == Spec => [](Wanted /\ Fresh)
BY CaptureUseInit, CaptureUseStep, ServiceInvariant, PTL DEF Spec

\* Between transitions the capture runs for somebody who has a token, and
\* while it is marked as running it goes on, unless its producer has given up
\* on a process that did not die (_sync_locked).
THEOREM CapturedWhileWanted == Spec => []CaptureIffWanted
<1>1. Wanted => CaptureIffWanted
  BY DEF Wanted, CaptureIffWanted, Producing, NoTurn
<1> QED
  BY <1>1, CaptureUseInvariant, PTL

\* While a demo has a lease, nobody is shown a picture of a process that was
\* opened before the first of the demos came (acquire_demo).
THEOREM DemosSeeThemselves == Spec => []DemoSeesItself
<1>1. Inv /\ ServiceOK /\ Fresh => DemoSeesItself
  <2> SUFFICES ASSUME Inv, ServiceOK, Fresh, leases # {}, turn = NoTurn PROVE frame \notin stale
    BY DEF DemoSeesItself
  <2>1. running /\ NoProcess \notin stale
    BY ProcessesAssumption DEF ServiceOK, Served, TypeOK, NoTurn
  <2> QED
    BY <2>1 DEF Fresh, Inv, NoTurn
<1> QED
  BY <1>1, CaptureUseInvariant, ServiceInvariant, PTL
=============================================================================
